------------------------------- MODULE StackFiles -------------------------------
(***************************************************************************)
(* The two files of one compose project -- compose.yaml and .env -- and    *)
(* the sessions that save them.                                            *)
(*                                                                         *)
(* docker compose can only check files that are on disk.  So every save    *)
(* reads the file it is about to replace, writes the new text over it,     *)
(* runs `docker compose config`, and puts the original back if compose     *)
(* says no.  write_text() truncates before it writes.  A saver is a thread *)
(* behind a dialog or a CLI process, and nothing serialises two of them.   *)
(* create() makes the project's directory, and removes it again if compose *)
(* rejects what is in it.                                                  *)
(*                                                                         *)
(* A compose text is an opaque value (one that parses as YAML: write()     *)
(* refuses the others before it touches anything); a .env is the values it *)
(* gives its keys, `Unset' for a key it does not mention.                  *)
(***************************************************************************)
EXTENDS Naturals

CONSTANTS
  Savers,         \* browser tabs and CLI processes
  ComposeTexts,   \* the texts of a compose file
  Blank,          \* the empty one, which truncating leaves
  Keys, Declared, \* the keys of a .env, and those the app's form declares
  Values, Unset,  \* their values, and the value of a key that is not there
  Missing,        \* a file that does not exist
  Works,          \* the projects `docker compose config` accepts
  Faults,         \* what may go wrong: "crash", "disk_full"; and "edit": the user, at a
                  \* shell, changes the project while a save is under way
  MaxHand         \* bound: how often the project is changed by hand

EnvTexts == [Keys -> Values]
BlankEnv == [k \in Keys |-> Unset]
FileNames    == {"compose", "env"}
Absent   == [compose |-> Missing, env |-> Missing]
Projects == [compose : ComposeTexts, env : EnvTexts \union {Missing}] \union {Absent}

ASSUME TextsAssumption ==
  /\ Blank \in ComposeTexts /\ Missing \notin ComposeTexts \union EnvTexts
  /\ Unset \in Values /\ Declared \subseteq Keys
  /\ Works \subseteq Projects \ {Absent}
  /\ Faults \subseteq {"crash", "disk_full", "edit"}
  /\ {"nobody", "hand"} \intersect Savers = {}
  /\ MaxHand \in Nat

VARIABLES
  dir,        \* who made the project's directory: "nobody" has, "hand", or the saver
              \* whose create() did
  files,      \* its two files
  stage,      \* per saver: what it does next
  job,        \* per saver: what it saves: "compose", "env", the settings "form", or "create"
              \* ("none": it is idle)
  text,       \* per saver: the text it is to write (a form: its answers)
  original,   \* per saver: the text it read before writing
  told,       \* per saver: what it reported of its last save
  hand,       \* history: how often the project was changed by hand
  overtaken,  \* history, per saver: somebody else has changed the .env since its form read it
  disturbed   \* history: somebody did something during another's save, or a save was cut off

StackVars == <<dir, files, stage, job, text, original, told, hand, overtaken, disturbed>>

Stages == {"idle", "patch", "read", "truncate", "put", "check", "undo", "undo_put",
           "mkdir", "fill", "accept"}

\* Mutant of Patch: the file is rebuilt from the form.
Bug_Rebuild(env, answers) == [k \in Keys |-> IF k \in Declared THEN answers[k] ELSE Unset]

\* env.patch(): the form's answers over the file, everything else left alone.
Patch(env, answers) == [k \in Keys |-> IF k \in Declared THEN answers[k] ELSE env[k]]

\* What truncating file leaves of it.
Truncated(file) == IF file = "env" THEN BlankEnv ELSE Blank

-----------------------------------------------------------------------------
StackInit ==
  /\ \/ dir = "nobody" /\ files = Absent
     \/ dir = "hand" /\ files \in Works
  /\ stage    = [s \in Savers |-> "idle"]
  /\ job      = [s \in Savers |-> "none"]
  /\ text     = [s \in Savers |-> Missing]
  /\ original = [s \in Savers |-> Missing]
  /\ told     = [s \in Savers |-> "none"]
  /\ hand = 0
  /\ overtaken = [s \in Savers |-> FALSE]
  /\ disturbed = FALSE

InFlight(s) == stage[s] # "idle"

\* Nobody is in the middle of a save; between create()'s look and its mkdir is not one.
Resting == \A s \in Savers : stage[s] \in {"idle", "mkdir"}

\* The user at a shell: any change to the project but its removal.
HandEdit ==
  /\ hand < MaxHand
  /\ "edit" \in Faults \/ Resting
  /\ files' \in Projects \ {Absent, files}
  /\ dir' = IF dir = "nobody" THEN "hand" ELSE dir
  /\ hand' = hand + 1
  /\ UNCHANGED <<stage, job, text, original, told>>

-----------------------------------------------------------------------------
(* Pressing Save. *)

Ask(s, what, words, next) ==
  /\ ~InFlight(s)
  /\ stage' = [stage EXCEPT ![s] = next]
  /\ job'   = [job EXCEPT ![s] = what]
  /\ text'  = [text EXCEPT ![s] = words]
  /\ told'  = [told EXCEPT ![s] = "none"]
  /\ UNCHANGED <<dir, files, original, hand>>

\* The editor, and the settings dialog's text editor: the bytes as typed.
SaveCompose(s) ==
  files.compose # Missing /\ \E words \in ComposeTexts : Ask(s, "compose", words, "read")
SaveRaw(s) ==
  files.compose # Missing /\ \E words \in EnvTexts : Ask(s, "env", words, "read")

\* The settings form: answers for the declared keys, patched into the file.
SaveForm(s) ==
  /\ files.compose # Missing
  /\ \E answers \in [Declared -> Values] : Ask(s, "form", answers, "patch")

\* create() looks whether the directory exists before it makes it.
PressCreate(s) == dir = "nobody" /\ \E words \in ComposeTexts : Ask(s, "create", words, "mkdir")

-----------------------------------------------------------------------------
(* The save itself: StackSettings._rendered(), then write(). *)

\* The file a save is for.
Target(s) == IF job[s] = "form" THEN "env" ELSE job[s]

Step(s, next) == stage' = [stage EXCEPT ![s] = next] /\ UNCHANGED <<job, hand, told>>
Go(s, next)   == Step(s, next) /\ UNCHANGED <<text, original>>
Put(file, words) == files' = [files EXCEPT ![file] = words]

\* The save is over: all that is left of it is what it reported.
Tell(s, outcome) ==
  /\ stage'    = [stage EXCEPT ![s] = "idle"]
  /\ job'      = [job EXCEPT ![s] = "none"]
  /\ text'     = [text EXCEPT ![s] = Missing]
  /\ original' = [original EXCEPT ![s] = Missing]
  /\ told'     = [told EXCEPT ![s] = outcome]
  /\ UNCHANGED hand

Render(s) ==
  /\ stage[s] = "patch"
  /\ text' = [text EXCEPT ![s] = Patch(IF files.env = Missing THEN BlankEnv ELSE files.env, text[s])]
  /\ Step(s, "read")
  /\ UNCHANGED <<dir, files, original>>

Read(s) ==
  /\ stage[s] = "read"
  /\ Target(s) = "env" \/ files.compose # Missing
  /\ original' = [original EXCEPT ![s] = files[Target(s)]]
  /\ Step(s, "truncate")
  /\ UNCHANGED <<dir, files, text>>

\* The directory, or the compose file, is gone: an OSError, and nothing written.
NothingThere(s) ==
  /\ \/ stage[s] = "read" /\ job[s] = "compose" /\ files.compose = Missing
     \/ stage[s] = "truncate" /\ dir = "nobody"
  /\ Tell(s, "rejected")
  /\ UNCHANGED <<dir, files>>

Truncate(s) ==
  /\ stage[s] = "truncate"
  /\ dir # "nobody"
  /\ Put(Target(s), Truncated(Target(s)))
  /\ Go(s, "put")
  /\ UNCHANGED dir

Write(s) ==
  /\ stage[s] = "put"
  /\ dir # "nobody"
  /\ Put(Target(s), text[s])
  /\ Go(s, "check")
  /\ UNCHANGED dir

\* docker compose config accepts the project as it is on disk right now.
Accepted(s) ==
  /\ stage[s] = "check"
  /\ files \in Works
  /\ Tell(s, "saved")
  /\ UNCHANGED <<dir, files>>

\* Mutant of Rejected: a check that could not be run (no docker, a timeout) counts
\* as a pass.
Bug_TimeoutIsFine(s) ==
  /\ stage[s] = "check"
  /\ \/ files \notin Works /\ Go(s, "undo")
     \/ Tell(s, "saved")
  /\ UNCHANGED <<dir, files>>

\* It rejects the project, or could not be run at all.
Rejected(s) ==
  /\ stage[s] = "check"
  /\ Go(s, "undo")
  /\ UNCHANGED <<dir, files>>

\* Mutant of Undo: there being no .env and its being empty are taken for the same.
Bug_UndoToEmpty(s) ==
  /\ stage[s] = "undo"
  /\ dir # "nobody"
  /\ Put(Target(s), Truncated(Target(s)))
  /\ IF original[s] = Missing THEN Tell(s, "rejected") ELSE Go(s, "undo_put")
  /\ UNCHANGED dir

Undo(s) ==
  /\ stage[s] = "undo"
  /\ dir # "nobody"
  /\ IF original[s] = Missing
     THEN Put(Target(s), Missing) /\ Tell(s, "rejected")
     ELSE Put(Target(s), Truncated(Target(s))) /\ Go(s, "undo_put")
  /\ UNCHANGED dir

UndoPut(s) ==
  /\ stage[s] = "undo_put"
  /\ dir # "nobody"
  /\ Put(Target(s), original[s])
  /\ Tell(s, "rejected")
  /\ UNCHANGED dir

-----------------------------------------------------------------------------
(* stacks.create() *)

\* Mutant of MakeDirectory: mkdir(exist_ok=True).
Bug_MakeDirectoryAnyway(s) ==
  /\ stage[s] = "mkdir"
  /\ dir' = s /\ Go(s, "fill")
  /\ UNCHANGED files

\* mkdir refuses a directory made since create() looked.
MakeDirectory(s) ==
  /\ stage[s] = "mkdir"
  /\ IF dir = "nobody" THEN dir' = s /\ Go(s, "fill")
                       ELSE Tell(s, "rejected") /\ UNCHANGED dir
  /\ UNCHANGED files

Fill(s) ==
  /\ stage[s] = "fill"
  /\ Put("compose", text[s])
  /\ Go(s, "accept")
  /\ UNCHANGED dir

Created(s) ==
  /\ stage[s] = "accept"
  /\ files \in Works
  /\ Tell(s, "saved")
  /\ UNCHANGED <<dir, files>>

\* Compose rejects the project, could not be run, or the disk is full: rmtree.
NotCreated(s) ==
  /\ \/ stage[s] = "accept"
     \/ stage[s] = "fill" /\ "disk_full" \in Faults
  /\ dir' = "nobody"
  /\ files' = Absent
  /\ Tell(s, "rejected")

-----------------------------------------------------------------------------
(* Faults no path of the code undoes. *)

\* The disk is full, or the directory gone, after the file was truncated: write_text
\* raises an OSError that no handler of write() catches.
WriteFails(s) ==
  /\ \/ stage[s] \in {"put", "undo_put"} /\ "disk_full" \in Faults
     \/ stage[s] \in {"put", "undo", "undo_put"} /\ dir = "nobody"
  /\ Tell(s, "rejected")
  /\ UNCHANGED <<dir, files>>

\* The process dies.
Crash(s) ==
  /\ "crash" \in Faults
  /\ InFlight(s)
  /\ Tell(s, "none")
  /\ UNCHANGED <<dir, files>>

-----------------------------------------------------------------------------
Saver(s) ==
  \/ SaveCompose(s) \/ SaveRaw(s) \/ SaveForm(s) \/ PressCreate(s)
  \/ Render(s) \/ Read(s) \/ NothingThere(s) \/ Truncate(s) \/ Write(s)
  \/ Accepted(s) \/ Rejected(s) \/ Undo(s) \/ UndoPut(s)
  \/ MakeDirectory(s) \/ Fill(s) \/ Created(s) \/ NotCreated(s)

Fault(s) == WriteFails(s) \/ Crash(s)

\* A step of another's that changes the .env overtakes a form that has read it; the
\* form's own steps, each of which takes it to another stage, do not.
Overtakes ==
  overtaken' = [s \in Savers |->
    job[s] = "form" /\ stage[s] \in {"read", "truncate"}
    /\ (overtaken[s] \/ (stage'[s] = stage[s] /\ files'.env # files.env))]

Alone(s) == \A t \in Savers \ {s} : ~InFlight(t)

StackNext ==
  /\ \/ HandEdit /\ disturbed' = (disturbed \/ ~Resting)
     \/ \E s \in Savers : Saver(s) /\ disturbed' = (disturbed \/ ~Alone(s))
     \/ \E s \in Savers : Fault(s) /\ disturbed' = TRUE
  /\ Overtakes

StackSpec == StackInit /\ [][StackNext]_StackVars

-----------------------------------------------------------------------------
(* Properties. *)

\* What a saver has in hand is of the kind its job needs: a form's answers until they
\* are patched, then the text of its file, and a file to put back once it has read one.
InHand(s) ==
  /\ job[s] = "form" /\ stage[s] = "patch" => text[s] \in [Declared -> Values]
  /\ stage[s] = "patch" => job[s] = "form"
  /\ stage[s] \in {"read", "truncate", "put", "check"} =>
       text[s] \in (IF Target(s) = "env" THEN EnvTexts ELSE ComposeTexts)
  /\ stage[s] \in {"mkdir", "fill", "accept"} => job[s] = "create" /\ text[s] \in ComposeTexts
  /\ stage[s] \in {"patch", "read", "truncate", "put", "check", "undo", "undo_put"} =>
       job[s] \in {"compose", "env", "form"}
  /\ stage[s] \in {"truncate", "put", "check", "undo", "undo_put"} =>
       original[s] \in (IF Target(s) = "env" THEN EnvTexts \union {Missing} ELSE ComposeTexts)
  /\ stage[s] = "undo_put" => original[s] # Missing

\* The type invariant.  A saver never holds a text of the wrong kind for what it does
\* next, and never writes back a file that was not there.
StackTypeOK ==
  /\ dir \in {"nobody", "hand"} \union Savers
  /\ files \in [compose : ComposeTexts \union {Missing}, env : EnvTexts \union {Missing}]
  /\ stage \in [Savers -> Stages]
  /\ job \in [Savers -> {"none", "compose", "env", "form", "create"}]
  /\ text \in [Savers -> ComposeTexts \union EnvTexts \union [Declared -> Values] \union {Missing}]
  /\ original \in [Savers -> ComposeTexts \union EnvTexts \union {Missing}]
  /\ told \in [Savers -> {"none", "saved", "rejected"}]
  /\ hand \in 0..MaxHand
  /\ overtaken \in [Savers -> BOOLEAN]
  /\ disturbed \in BOOLEAN
  /\ \A s \in Savers : InHand(s)

\* The project as the promise sees it: a file that a save has written over and not
\* yet answered for still holds what it did, and a project is not there until
\* create() has answered for it.
WritingTo(s, file) == Target(s) = file /\ stage[s] \in {"put", "check", "undo", "undo_put"}
Creating(s)        == stage[s] \in {"fill", "accept"}
Settled(file) ==
  IF \E s \in Savers : Creating(s) THEN Missing
  ELSE IF \E s \in Savers : WritingTo(s, file)
       THEN original[CHOOSE s \in Savers : WritingTo(s, file)]
       ELSE files[file]

Promise == INSTANCE AtomicSave
             WITH project <- [compose |-> Settled("compose"), env |-> Settled("env")]

\* As long as nobody has acted during another's save and no save was cut off, a save, to
\* whoever looks when none is under way, is atomic and honest: the text is there and
\* compose accepts the project, or nothing changed and the saver was told so -- through
\* every order of checks, rejections and restores, a missing .env and a disk that fills
\* up under create() included.
SavesAreAtomic == Promise!Spec

KeyOf(env, k) == IF env = Missing THEN Unset ELSE env[k]

\* A form save is about to write over the .env, and a key that is not the form's is not
\* in its text as it is in the file.
Destroys(s) ==
  /\ stage[s] = "truncate" /\ stage'[s] = "put" /\ job[s] = "form"
  /\ \E k \in Keys \ Declared : text[s][k] # KeyOf(files.env, k)

\* A key the user keeps in the .env themselves is written over by a form save only if
\* somebody else -- another tab, the command line, the user at a shell -- has changed the
\* file since that save read it: the form itself invents, drops and resets nothing,
\* whoever else saves, whatever fails and whatever is put back meanwhile.
OthersKeysKept == [][\A s \in Savers : Destroys(s) => overtaken[s]]_StackVars

\* A directory is removed by nobody but the create() that made it, in the very run that
\* made it, and that run says it failed: not one made by hand, nor by another's create(),
\* nor by one of its own that died.
OnlyOwnRemoved ==
  [][ dir # "nobody" /\ dir' = "nobody" =>
        \E s \in Savers : dir = s /\ Creating(s) /\ told'[s] = "rejected" ]_StackVars

\* "A bad save cannot leave a stack that will not start, whichever way it was made"
\* (web.py): with no save under way, compose accepts the project.
Startable ==
  (hand = 0 /\ dir # "nobody" /\ \A s \in Savers : ~InFlight(s)) => files \in Works

\* That holds of savers who take turns, until a save is cut off.
StartableInTurn == disturbed \/ Startable
=============================================================================
