--------------------------- MODULE StackFiles_proofs ---------------------------
(***************************************************************************)
(* Theorems about StackFiles, for any texts, any keys and any notion of    *)
(* what docker compose accepts.  As long as savers take turns, and no save *)
(* is cut off, saving implements AtomicSave and leaves a project that      *)
(* starts.  Whoever else saves and whatever fails, a form loses a key that *)
(* is not its own only to a change it did not see, and create() removes    *)
(* only a directory of its own.                                            *)
(***************************************************************************)
EXTENDS StackFiles, TLAPS

Words == ComposeTexts \union EnvTexts

(* A form's answers over a .env are a .env. *)
LEMMA PatchIsEnv ==
  ASSUME NEW env \in EnvTexts, NEW answers \in [Declared -> Values]
  PROVE  Patch(env, answers) \in EnvTexts
BY DEF Patch, EnvTexts

(* StackTypeOK is inductive. *)
LEMMA TypeStep == StackTypeOK /\ [StackNext]_StackVars => StackTypeOK'
<1> SUFFICES ASSUME StackTypeOK, [StackNext]_StackVars PROVE StackTypeOK'
  OBVIOUS
<1> USE TextsAssumption DEF StackTypeOK, InHand, Target
<1>0. BlankEnv \in EnvTexts /\ \A file : Truncated(file) \in ComposeTexts \union EnvTexts
  BY DEF BlankEnv, EnvTexts, Truncated
<1>5. overtaken' \in [Savers -> BOOLEAN] /\ disturbed' \in BOOLEAN
  BY DEF StackNext, Overtakes, StackVars
<1>1. CASE HandEdit
  BY <1>1, <1>5 DEF HandEdit, Projects, Absent
\* A saver that is done has nothing in hand.
<1>6. ASSUME NEW s \in Savers, NEW outcome \in {"none", "saved", "rejected"}, Tell(s, outcome),
             dir' \in {"nobody", "hand"} \union Savers,
             files' \in [compose : ComposeTexts \union {Missing}, env : EnvTexts \union {Missing}]
      PROVE  StackTypeOK'
  BY <1>5, <1>6 DEF Tell, Stages
<1>2. ASSUME NEW s \in Savers, Saver(s) PROVE StackTypeOK'
  <2>1. ASSUME NEW what, NEW words, NEW next, Ask(s, what, words, next),
               \/ what = "compose" /\ words \in ComposeTexts /\ next = "read"
               \/ what = "env" /\ words \in EnvTexts /\ next = "read"
               \/ what = "form" /\ words \in [Declared -> Values] /\ next = "patch"
               \/ what = "create" /\ words \in ComposeTexts /\ next = "mkdir"
        PROVE  StackTypeOK'
    BY <1>5, <2>1 DEF Ask, Stages
  <2>2. CASE SaveCompose(s)
    BY <2>1, <2>2 DEF SaveCompose
  <2>3. CASE SaveRaw(s)
    BY <2>1, <2>3 DEF SaveRaw
  <2>4. CASE SaveForm(s)
    BY <2>1, <2>4 DEF SaveForm
  <2>5. CASE PressCreate(s)
    BY <2>1, <2>5 DEF PressCreate
  <2>6. CASE Render(s)
    <3>1. Patch(IF files.env = Missing THEN BlankEnv ELSE files.env, text[s]) \in EnvTexts
      BY <1>0, <2>6, PatchIsEnv DEF Render
    <3> QED
      BY <1>5, <2>6, <3>1 DEF Render, Step, Stages
  <2>7. CASE Read(s)
    BY <1>5, <2>7 DEF Read, Step, Stages
  <2>8. CASE NothingThere(s)
    BY <1>6, <2>8 DEF NothingThere
  <2>9. CASE Truncate(s)
    BY <1>0, <1>5, <2>9 DEF Truncate, Truncated, Put, Go, Step, Stages
  <2>10. CASE Write(s)
    BY <1>5, <2>10 DEF Write, Put, Go, Step, Stages
  <2>11. CASE Accepted(s)
    BY <1>6, <2>11 DEF Accepted
  <2>12. CASE Rejected(s)
    BY <1>5, <2>12 DEF Rejected, Go, Step, Stages
  <2>13. CASE Undo(s)
    <3>1. files' \in [compose : ComposeTexts \union {Missing}, env : EnvTexts \union {Missing}]
      BY <1>0, <2>13 DEF Undo, Truncated, Put
    <3>2. CASE original[s] = Missing
      BY <1>6, <2>13, <3>1, <3>2 DEF Undo
    <3>3. CASE original[s] # Missing
      BY <1>5, <2>13, <3>1, <3>3 DEF Undo, Go, Step, Stages
    <3> QED
      BY <3>2, <3>3
  <2>14. CASE UndoPut(s)
    BY <1>6, <2>14 DEF UndoPut, Put
  <2>15. CASE MakeDirectory(s)
    <3>1. CASE dir = "nobody"
      BY <1>5, <2>15, <3>1 DEF MakeDirectory, Go, Step, Stages
    <3>2. CASE dir # "nobody"
      BY <1>6, <2>15, <3>2 DEF MakeDirectory
    <3> QED
      BY <3>1, <3>2
  <2>16. CASE Fill(s)
    BY <1>5, <2>16 DEF Fill, Put, Go, Step, Stages
  <2>17. CASE Created(s)
    BY <1>6, <2>17 DEF Created
  <2>18. CASE NotCreated(s)
    BY <1>6, <2>18 DEF NotCreated, Absent
  <2> QED
    BY <1>2, <2>2, <2>3, <2>4, <2>5, <2>6, <2>7, <2>8, <2>9, <2>10, <2>11, <2>12,
       <2>13, <2>14, <2>15, <2>16, <2>17, <2>18 DEF Saver
<1>4. ASSUME NEW s \in Savers, Fault(s) PROVE StackTypeOK'
  BY <1>4, <1>6 DEF Fault, WriteFails, Crash
<1>3. CASE UNCHANGED StackVars
  BY <1>3 DEF StackVars
<1> QED
  BY <1>1, <1>2, <1>3, <1>4 DEF StackNext

LEMMA TypeInit == StackInit => StackTypeOK
<1>1. StackInit => disturbed \in BOOLEAN
  BY Zenon DEF StackInit
<1> QED
  BY <1>1, TextsAssumption DEF StackInit, StackTypeOK, InHand, Stages, Absent, Projects

(* Every variable keeps its type, however many savers there are and whatever *)
(* fails.                                                                    *)
THEOREM TypeCorrect == StackSpec => []StackTypeOK
BY TypeInit, TypeStep, PTL DEF StackSpec

-----------------------------------------------------------------------------
(***************************************************************************)
(* Savers that take turns, none cut off: a save is atomic.                 *)
(***************************************************************************)

\* Who takes a step that disturbs nothing: the only one who is saving.
InTurn(s) == Saver(s) /\ Alone(s)

(* The steps that leave a project undisturbed. *)
LEMMA Undisturbed ==
  ASSUME [StackNext]_StackVars, ~disturbed'
  PROVE  /\ ~disturbed
         /\ \/ HandEdit /\ Resting
            \/ \E s \in Savers : InTurn(s)
            \/ UNCHANGED StackVars
<1>1. CASE UNCHANGED StackVars
  BY <1>1 DEF StackVars
<1>2. CASE HandEdit /\ disturbed' = (disturbed \/ ~Resting)
  BY <1>2
<1>3. ASSUME NEW s \in Savers, Saver(s), disturbed' = (disturbed \/ ~Alone(s))
      PROVE  ~disturbed /\ InTurn(s)
  BY <1>3 DEF InTurn
<1> QED
  BY <1>1, <1>2, <1>3 DEF StackNext

(* While one saver takes a step, the others do nothing. *)
LEMMA OthersRest ==
  ASSUME StackTypeOK, NEW s \in Savers, InTurn(s)
  PROVE  \A t \in Savers \ {s} : stage[t] = "idle" /\ stage'[t] = "idle"
<1>1. \E next : stage' = [stage EXCEPT ![s] = next]
  BY DEF InTurn, Saver, SaveCompose, SaveRaw, SaveForm, PressCreate, Ask, Render, Read, NothingThere,
     Truncate, Write, Accepted, Rejected, Undo, UndoPut, MakeDirectory, Fill, Created, NotCreated,
     Tell, Go, Step
<1>2. \A t \in Savers \ {s} : stage[t] = "idle"
  BY DEF InTurn, Alone, InFlight
<1> QED
  BY <1>1, <1>2 DEF StackTypeOK

\* What a saver that is writing relies on: the directory is there, and until it
\* truncates the file the file is what it read; a project that is being created
\* holds nothing else.
SoloInv ==
  /\ dir = "nobody" => files = Absent
  /\ \A s \in Savers :
       /\ stage[s] \in {"read", "truncate", "put", "check", "undo", "undo_put"} => dir # "nobody"
       /\ stage[s] = "patch" => dir # "nobody"
       /\ stage[s] = "truncate" => original[s] = files[Target(s)]
       /\ stage[s] = "fill" => files = Absent /\ dir # "nobody"
       /\ stage[s] = "accept" => files.env = Missing /\ dir # "nobody"

(* SoloInv is inductive. *)
LEMMA SoloStep == StackTypeOK /\ SoloInv /\ [StackNext]_StackVars /\ ~disturbed' => SoloInv'
<1> SUFFICES ASSUME StackTypeOK, SoloInv, [StackNext]_StackVars, ~disturbed' PROVE SoloInv'
  OBVIOUS
<1> USE TextsAssumption DEF StackTypeOK, InHand, SoloInv, Target
<1>1. CASE HandEdit /\ Resting
  BY <1>1 DEF HandEdit, Resting
<1>2. ASSUME NEW s \in Savers, InTurn(s) PROVE SoloInv'
  <2>0. \A t \in Savers \ {s} : stage[t] = "idle" /\ stage'[t] = "idle"
    BY <1>2, OthersRest
  <2>1. ASSUME NEW what, NEW words, NEW next, Ask(s, what, words, next), dir # "nobody",
               next \in {"read", "patch"}
        PROVE  SoloInv'
    BY <2>0, <2>1 DEF Ask
  <2>2. CASE SaveCompose(s)
    BY <2>1, <2>2 DEF SaveCompose, Absent
  <2>3. CASE SaveRaw(s)
    BY <2>1, <2>3 DEF SaveRaw, Absent
  <2>4. CASE SaveForm(s)
    BY <2>1, <2>4 DEF SaveForm, Absent
  <2>5. CASE PressCreate(s)
    BY <2>0, <2>5 DEF PressCreate, Ask
  <2>6. CASE Render(s)
    BY <2>0, <2>6 DEF Render, Step
  <2>7. CASE Read(s)
    BY <2>0, <2>7 DEF Read, Step
  <2>8. CASE NothingThere(s)
    BY <2>0, <2>8 DEF NothingThere, Tell
  <2>9. CASE Truncate(s)
    BY <2>0, <2>9 DEF Truncate, Put, Go, Step
  <2>10. CASE Write(s)
    BY <2>0, <2>10 DEF Write, Put, Go, Step
  <2>11. CASE Accepted(s)
    BY <2>0, <2>11 DEF Accepted, Tell
  <2>12. CASE Rejected(s)
    BY <2>0, <2>12 DEF Rejected, Go, Step
  <2>13. CASE Undo(s)
    BY <2>0, <2>13 DEF Undo, Put, Tell, Go, Step
  <2>14. CASE UndoPut(s)
    BY <2>0, <2>14 DEF UndoPut, Put, Tell
  <2>15. CASE MakeDirectory(s)
    <3>1. CASE dir = "nobody"
      <4>1. dir' = s /\ s # "nobody" /\ files' = Absent /\ stage'[s] = "fill"
        BY <2>15, <3>1 DEF MakeDirectory, Go, Step
      <4> QED
        BY <2>0, <4>1
    <3>2. CASE dir # "nobody"
      <4>1. dir' = dir /\ files' = files /\ stage'[s] = "idle"
        BY <2>15, <3>2 DEF MakeDirectory, Tell
      <4> QED
        BY <2>0, <3>2, <4>1
    <3> QED
      BY <3>1, <3>2
  <2>16. CASE Fill(s)
    BY <2>0, <2>16 DEF Fill, Put, Go, Step, Absent
  <2>17. CASE Created(s)
    BY <2>0, <2>17 DEF Created, Tell
  <2>18. CASE NotCreated(s)
    BY <2>0, <2>18 DEF NotCreated, Tell
  <2> QED
    BY <1>2, <2>2, <2>3, <2>4, <2>5, <2>6, <2>7, <2>8, <2>9, <2>10, <2>11, <2>12,
       <2>13, <2>14, <2>15, <2>16, <2>17, <2>18 DEF Saver, InTurn
<1>3. CASE UNCHANGED StackVars
  BY <1>3 DEF StackVars
<1> QED
  BY <1>1, <1>2, <1>3, Undisturbed

(* The project as the promise sees it, while at most one is saving. *)
LEMMA SettledIs ==
  ASSUME NEW s \in Savers, \A t \in Savers \ {s} : stage[t] = "idle", NEW file
  PROVE  Settled(file) = IF Creating(s) THEN Missing
                         ELSE IF WritingTo(s, file) THEN original[s] ELSE files[file]
<1>1. \A t \in Savers : Creating(t) \/ WritingTo(t, file) => t = s
  BY DEF Creating, WritingTo
<1>2. WritingTo(s, file) => (CHOOSE t \in Savers : WritingTo(t, file)) = s
  BY <1>1
<1> QED
  BY <1>1, <1>2 DEF Settled

(* Every step of the code is a step of the promise, or none of it. *)
LEMMA PromiseStep ==
  StackTypeOK /\ (disturbed \/ SoloInv) /\ [StackNext]_StackVars => [Promise!Next]_Promise!vars
<1>4. ASSUME disturbed' PROVE Promise!Next
  BY <1>4 DEF Promise!Next
<1> SUFFICES ASSUME StackTypeOK, disturbed \/ SoloInv, [StackNext]_StackVars, ~disturbed'
             PROVE  [Promise!Next]_Promise!vars
  BY <1>4
<1>5. ~disturbed /\ SoloInv
  BY Undisturbed
<1>6. UNCHANGED disturbed
  BY <1>5 DEF StackTypeOK, StackNext, StackVars
<1> DEFINE project == [compose |-> Settled("compose"), env |-> Settled("env")]
<1> USE TextsAssumption, <1>5 DEF StackTypeOK, InHand, SoloInv, Target
<1>1. CASE HandEdit /\ Resting
  <2>1. \A file : ~(\E s \in Savers : Creating(s) \/ WritingTo(s, file))
    BY <1>1 DEF HandEdit, Resting, Creating, WritingTo
  <2>2. \A file : ~(\E s \in Savers : Creating(s) \/ WritingTo(s, file))'
    BY <1>1 DEF HandEdit, Resting, Creating, WritingTo
  <2>3. Settled("compose")' = files'.compose /\ Settled("env")' = files'.env
    BY <2>2 DEF Settled
  <2>4. project' \in Projects
    BY <1>1, <2>3 DEF HandEdit, Projects, Absent
  <2>5. Promise!EditByHand
    BY <1>1, <2>4 DEF HandEdit, Promise!EditByHand
  <2> QED
    BY <1>6, <2>5 DEF Promise!Next
<1>2. ASSUME NEW s \in Savers, InTurn(s) PROVE [Promise!Next]_Promise!vars
  <2> DEFINE Is(file) == IF Creating(s) THEN Missing
                         ELSE IF WritingTo(s, file) THEN original[s] ELSE files[file]
  <2>0. \A file : Settled(file) = Is(file) /\ Settled(file)' = Is(file)'
    <3>0. \A t \in Savers \ {s} : stage[t] = "idle" /\ stage'[t] = "idle"
      BY <1>2, OthersRest
    <3>1. \A file : Settled(file) = Is(file)
      BY <3>0, SettledIs
    <3>2. \A file : Settled(file)' = Is(file)'
      <4>1. \A file : \A t \in Savers : Creating(t)' \/ WritingTo(t, file)' => t = s
        BY <3>0 DEF Creating, WritingTo
      <4>2. \A file : WritingTo(s, file)' =>
                        (CHOOSE t \in Savers : WritingTo(t, file)')  = s
        BY <4>1
      <4> QED
        BY <4>1, <4>2 DEF Settled
    <3> QED
      BY <3>1, <3>2
  <2>1. Target(s) \in {"compose", "env", "create", "none"}
    OBVIOUS
  <2>2. ASSUME Is("compose")' = Is("compose"), Is("env")' = Is("env"), hand' = hand
        PROVE  /\ told' = [told EXCEPT ![s] = "none"] => Promise!Ask(s)
               /\ told' = [told EXCEPT ![s] = "rejected"] => Promise!Reject(s)
               /\ told' = told => UNCHANGED Promise!vars
    BY <1>6, <2>0, <2>2 DEF Promise!Ask, Promise!Reject, Promise!vars
  <2>3. ASSUME NEW what, NEW words, NEW next, Ask(s, what, words, next),
               next \in {"read", "patch", "mkdir"}
        PROVE  Promise!Next
    <3>1. Is("compose")' = Is("compose") /\ Is("env")' = Is("env")
      BY <2>3 DEF Ask, InFlight, Creating, WritingTo
    <3> QED
      BY <1>6, <2>2, <2>3, <3>1 DEF Ask, Promise!Next
  <2>4. CASE SaveCompose(s) \/ SaveRaw(s) \/ SaveForm(s) \/ PressCreate(s)
    BY <2>3, <2>4 DEF SaveCompose, SaveRaw, SaveForm, PressCreate
  <2>5. CASE Render(s) \/ Read(s) \/ Truncate(s) \/ Write(s) \/ Rejected(s) \/ Fill(s)
    <3>1. Is("compose")' = Is("compose") /\ Is("env")' = Is("env")
      <4>1. CASE Render(s) \/ Read(s)
        BY <4>1 DEF Render, Read, Step, Creating, WritingTo
      <4>2. CASE Truncate(s)
        BY <2>1, <4>2 DEF Truncate, Put, Go, Step, Creating, WritingTo
      <4>3. CASE Write(s)
        BY <2>1, <4>3 DEF Write, Put, Go, Step, Creating, WritingTo
      <4>4. CASE Rejected(s)
        BY <4>4 DEF Rejected, Go, Step, Creating, WritingTo
      <4>5. CASE Fill(s)
        BY <4>5 DEF Fill, Go, Step, Creating, WritingTo
      <4> QED
        BY <2>5, <4>1, <4>2, <4>3, <4>4, <4>5
    <3> QED
      BY <2>2, <2>5, <3>1 DEF Render, Read, Truncate, Write, Rejected, Fill, Go, Step
  <2>6. CASE NothingThere(s) \/ UndoPut(s) \/ NotCreated(s)
    <3>1. Is("compose")' = Is("compose") /\ Is("env")' = Is("env")
      <4>1. CASE NothingThere(s)
        BY <4>1 DEF NothingThere, Tell, Creating, WritingTo
      <4>2. CASE UndoPut(s)
        BY <2>1, <4>2 DEF UndoPut, Put, Tell, Creating, WritingTo
      <4>3. CASE NotCreated(s)
        BY <4>3 DEF NotCreated, Absent, Tell, Creating, WritingTo
      <4> QED
        BY <2>6, <4>1, <4>2, <4>3
    <3> QED
      BY <1>6, <2>2, <2>6, <3>1
      DEF NothingThere, UndoPut, NotCreated, Tell, Promise!Next
  <2>7. CASE Undo(s)
    <3>1. Is("compose")' = Is("compose") /\ Is("env")' = Is("env")
      BY <2>1, <2>7 DEF Undo, Put, Tell, Go, Step, Creating, WritingTo
    <3> QED
      BY <1>6, <2>2, <2>7, <3>1 DEF Undo, Tell, Go, Step, Promise!Next
  <2>8. CASE MakeDirectory(s)
    <3>1. Is("compose")' = Is("compose") /\ Is("env")' = Is("env")
      BY <2>8 DEF MakeDirectory, Absent, Tell, Go, Step, Creating, WritingTo
    <3> QED
      BY <1>6, <2>2, <2>8, <3>1 DEF MakeDirectory, Tell, Go, Step, Promise!Next
  <2>9. CASE Accepted(s) \/ Created(s)
    <3>1. Is("compose")' = files.compose /\ Is("env")' = files.env
      BY <2>9 DEF Accepted, Created, Tell, Creating, WritingTo
    <3>2. project' = files
      BY <2>0, <3>1
    <3>3. \E file \in {"compose", "env"} :
            \A other \in {"compose", "env"} \ {file} : files[other] = Is(other)
      <4>1. CASE Accepted(s)
        BY <2>1, <4>1 DEF Accepted, Creating, WritingTo
      <4>2. CASE Created(s)
        BY <4>2 DEF Created, Creating
      <4> QED
        BY <2>9, <4>1, <4>2
    <3>4. files \in Works /\ told' = [told EXCEPT ![s] = "saved"] /\ hand' = hand
      BY <2>9 DEF Accepted, Created, Tell
    <3>5. project = [compose |-> Is("compose"), env |-> Is("env")]
      BY <2>0
    <3>6. \A other \in {"compose", "env"} : project[other] = Is(other)
      BY <3>5
    <3>7. Promise!Save(s)
      BY <3>2, <3>3, <3>4, <3>6 DEF Promise!Save
    <3> QED
      BY <1>6, <3>7 DEF Promise!Next
  <2> QED
    BY <1>2, <2>4, <2>5, <2>6, <2>7, <2>8, <2>9 DEF Saver, InTurn
<1>3. CASE UNCHANGED StackVars
  <2>1. \A file : Settled(file)' = Settled(file)
    BY <1>3 DEF StackVars, Settled, Creating, WritingTo
  <2> QED
    BY <1>3, <2>1 DEF StackVars, Promise!vars
<1> QED
  BY <1>1, <1>2, <1>3, Undisturbed

(* As long as savers take turns and none is cut off, saving implements         *)
(* AtomicSave: "a rejected save leaves the previous, working file exactly as   *)
(* it was", and "saved" means that docker compose accepts it.                  *)
THEOREM SavesInTurnAreAtomic == StackSpec => SavesAreAtomic
<1>1. StackInit => StackTypeOK /\ (disturbed \/ SoloInv)
  BY TypeInit DEF StackInit, SoloInv, Absent
<1>3. StackTypeOK /\ (disturbed \/ SoloInv) /\ [StackNext]_StackVars => (disturbed \/ SoloInv)'
  BY SoloStep, Undisturbed
<1>2. StackInit => Promise!Init
  <2> SUFFICES ASSUME StackInit PROVE Promise!Init
    OBVIOUS
  <2>1. files \in Projects
    BY TextsAssumption DEF StackInit, Projects
  <2>2. Settled("compose") = files.compose /\ Settled("env") = files.env
    BY DEF StackInit, Settled, Creating, WritingTo
  <2>3. [compose |-> files.compose, env |-> files.env] = files
    BY <2>1 DEF Projects, Absent
  <2> QED
    BY <2>1, <2>2, <2>3 DEF StackInit, Promise!Init
<1> QED
  BY <1>1, <1>2, <1>3, TypeStep, PromiseStep, PTL DEF StackSpec, SavesAreAtomic, Promise!Spec

-----------------------------------------------------------------------------
(***************************************************************************)
(* Any savers, any faults: create() and the directory.                     *)
(***************************************************************************)

\* A directory that is being filled is that of the one that fills it.
OwnInv == \A s \in Savers : Creating(s) => dir = s

\* A step that takes the directory away is the failure of the create() that made it.
Fair == dir # "nobody" /\ dir' = "nobody" =>
          \E s \in Savers : dir = s /\ Creating(s) /\ told'[s] = "rejected"

(* OwnInv is inductive, and makes every removal one of the remover's own. *)
LEMMA OwnStep == StackTypeOK /\ OwnInv /\ [StackNext]_StackVars => OwnInv' /\ Fair
<1> SUFFICES ASSUME StackTypeOK, OwnInv, [StackNext]_StackVars PROVE OwnInv' /\ Fair
  OBVIOUS
<1> USE TextsAssumption DEF StackTypeOK, OwnInv, Creating, Fair
<1>1. CASE HandEdit
  BY <1>1 DEF HandEdit
<1>2. ASSUME NEW s \in Savers, Saver(s) PROVE OwnInv' /\ Fair
  <2>1. ASSUME dir' = dir, NEW next \in Stages, stage' = [stage EXCEPT ![s] = next],
               next \in {"fill", "accept"} => Creating(s)
        PROVE  OwnInv' /\ Fair
    BY <2>1
  <2>2. CASE SaveCompose(s) \/ SaveRaw(s) \/ SaveForm(s) \/ PressCreate(s)
    BY <2>1, <2>2 DEF SaveCompose, SaveRaw, SaveForm, PressCreate, Ask, Stages
  <2>3. CASE Render(s) \/ Read(s) \/ NothingThere(s) \/ Truncate(s) \/ Write(s)
    BY <2>1, <2>3 DEF Render, Read, NothingThere, Truncate, Write, Tell, Go, Step, Stages
  <2>4. CASE Accepted(s) \/ Rejected(s) \/ Undo(s) \/ UndoPut(s)
    BY <2>1, <2>4 DEF Accepted, Rejected, Undo, UndoPut, Tell, Go, Step, Stages
  <2>5. CASE Fill(s) \/ Created(s)
    BY <2>1, <2>5 DEF Fill, Created, Tell, Go, Step, Stages
  <2>6. CASE MakeDirectory(s)
    BY <2>6 DEF MakeDirectory, Tell, Go, Step
  <2>7. CASE NotCreated(s)
    <3>1. dir = s /\ dir' = "nobody" /\ told'[s] = "rejected"
      BY <2>7 DEF NotCreated, Tell
    <3>2. \A t \in Savers : Creating(t) => t = s
      BY <3>1
    <3>3. \A t \in Savers : ~Creating(t)'
      BY <2>7, <3>2 DEF NotCreated, Tell
    <3> QED
      BY <2>7, <3>1, <3>3 DEF NotCreated
  <2> QED
    BY <1>2, <2>2, <2>3, <2>4, <2>5, <2>6, <2>7 DEF Saver
<1>4. ASSUME NEW s \in Savers, Fault(s) PROVE OwnInv' /\ Fair
  BY <1>4 DEF Fault, WriteFails, Crash, Tell
<1>3. CASE UNCHANGED StackVars
  BY <1>3 DEF StackVars
<1> QED
  BY <1>1, <1>2, <1>3, <1>4 DEF StackNext

\* create() removes only the directory that its very run made, and says so, however many
\* savers there are, whatever they save, whatever the user does and whatever fails.
THEOREM RemovesOnlyItsOwn == StackSpec => OnlyOwnRemoved
<1>1. StackInit => StackTypeOK /\ OwnInv
  BY TypeInit DEF StackInit, OwnInv, Creating
<1>2. StackTypeOK /\ OwnInv /\ [StackNext]_StackVars =>
        [ dir # "nobody" /\ dir' = "nobody" =>
            \E s \in Savers : dir = s /\ Creating(s) /\ told'[s] = "rejected" ]_StackVars
  BY OwnStep DEF Fair
<1> QED
  BY <1>1, <1>2, TypeStep, OwnStep, PTL DEF StackSpec, OnlyOwnRemoved

-----------------------------------------------------------------------------
(***************************************************************************)
(* Any savers, any faults: what a form leaves alone.                       *)
(***************************************************************************)

\* What a form is about to write has every other key from the .env as it is, or somebody
\* else has changed that since.
FormInv ==
  \A s \in Savers :
    job[s] = "form" /\ stage[s] \in {"read", "truncate"} /\ ~overtaken[s] =>
      \A k \in Keys \ Declared : text[s][k] = KeyOf(files.env, k)

(* FormInv is inductive. *)
LEMMA FormStep == StackTypeOK /\ FormInv /\ [StackNext]_StackVars => FormInv'
<1> SUFFICES ASSUME StackTypeOK, FormInv, [StackNext]_StackVars PROVE FormInv'
  OBVIOUS
<1> USE TextsAssumption DEF StackTypeOK, InHand, FormInv
\* Whoever takes the step, a saver that does not is covered: the .env is as it was, or
\* the saver has been overtaken.
<1>1. ASSUME Overtakes, NEW s \in Savers,
             stage'[s] = stage[s], text'[s] = text[s], job'[s] = job[s],
             job'[s] = "form", stage'[s] \in {"read", "truncate"}, ~overtaken'[s]
      PROVE  \A k \in Keys \ Declared : text'[s][k] = KeyOf(files'.env, k)
  <2>1. ~overtaken[s] /\ files'.env = files.env
    BY <1>1 DEF Overtakes
  <2>2. \A k \in Keys \ Declared : text[s][k] = KeyOf(files.env, k)
    BY <1>1, <2>1
  <2>3. \A k : KeyOf(files'.env, k) = KeyOf(files.env, k)
    BY <2>1 DEF KeyOf
  <2> QED
    BY <1>1, <2>2, <2>3
<1>2. ASSUME Overtakes, NEW s \in Savers, Saver(s) \/ Fault(s) PROVE FormInv'
  <2>1. ASSUME NEW t \in Savers, t # s
        PROVE  stage'[t] = stage[t] /\ text'[t] = text[t] /\ job'[t] = job[t]
    <3> USE <2>1
    <3>1. CASE SaveCompose(s) \/ SaveRaw(s) \/ SaveForm(s) \/ PressCreate(s)
      BY <3>1 DEF SaveCompose, SaveRaw, SaveForm, PressCreate, Ask
    <3>2. CASE Render(s) \/ Read(s) \/ NothingThere(s) \/ Truncate(s) \/ Write(s)
      BY <3>2 DEF Render, Read, NothingThere, Truncate, Write, Tell, Go, Step
    <3>3. CASE Accepted(s) \/ Rejected(s) \/ Undo(s) \/ UndoPut(s)
      BY <3>3 DEF Accepted, Rejected, Undo, UndoPut, Tell, Go, Step
    <3>4. CASE MakeDirectory(s) \/ Fill(s) \/ Created(s) \/ NotCreated(s)
      BY <3>4 DEF MakeDirectory, Fill, Created, NotCreated, Tell, Go, Step
    <3>5. CASE WriteFails(s) \/ Crash(s)
      BY <3>5 DEF WriteFails, Crash, Tell
    <3> QED
      BY <1>2, <3>1, <3>2, <3>3, <3>4, <3>5 DEF Saver, Fault
  <2>2. job'[s] = "form" /\ stage'[s] \in {"read", "truncate"} /\ ~overtaken'[s] =>
          \A k \in Keys \ Declared : text'[s][k] = KeyOf(files'.env, k)
    <3>1. CASE SaveCompose(s) \/ SaveRaw(s) \/ SaveForm(s) \/ PressCreate(s)
      BY <3>1 DEF SaveCompose, SaveRaw, SaveForm, PressCreate, Ask
    <3>2. CASE Render(s)
      BY <3>2 DEF Render, Patch, BlankEnv, EnvTexts, KeyOf
    <3>3. CASE Read(s)
      <4>1. /\ files' = files /\ text' = text /\ job' = job
            /\ job[s] = "form" => overtaken'[s] = overtaken[s]
        BY <1>2, <3>3 DEF Overtakes, Read, Step
      <4> QED
        BY <3>3, <4>1 DEF Read
    <3>4. CASE NothingThere(s) \/ Truncate(s) \/ Write(s) \/ Accepted(s) \/ Rejected(s)
      BY <3>4 DEF NothingThere, Truncate, Write, Accepted, Rejected, Tell, Go, Step
    <3>5. CASE Undo(s) \/ UndoPut(s) \/ WriteFails(s) \/ Crash(s)
      BY <3>5 DEF Undo, UndoPut, WriteFails, Crash, Tell, Go, Step
    <3>6. CASE MakeDirectory(s) \/ Fill(s) \/ Created(s) \/ NotCreated(s)
      BY <3>6 DEF MakeDirectory, Fill, Created, NotCreated, Tell, Go, Step
    <3> QED
      BY <1>2, <3>1, <3>2, <3>3, <3>4, <3>5, <3>6 DEF Saver, Fault
  <2> QED
    BY <1>1, <1>2, <2>1, <2>2
<1>3. CASE HandEdit /\ Overtakes
  BY <1>1, <1>3 DEF HandEdit
<1>4. CASE UNCHANGED StackVars
  BY <1>4 DEF StackVars
<1> QED
  BY <1>2, <1>3, <1>4 DEF StackNext

\* Whoever else saves, whatever the user does to the files meanwhile and whatever fails,
\* a form writes over a key that is not its own only if the .env has been changed since
\* the save read it.
THEOREM FormsKeepOthersKeys == StackSpec => OthersKeysKept
<1>1. StackInit => StackTypeOK /\ FormInv
  BY TypeInit DEF StackInit, FormInv
<1>2. FormInv => \A s \in Savers : Destroys(s) => overtaken[s]
  BY DEF FormInv, Destroys
<1>3. StackTypeOK /\ FormInv => [\A s \in Savers : Destroys(s) => overtaken[s]]_StackVars
  BY <1>2
<1> QED
  BY <1>1, <1>3, TypeStep, FormStep, PTL DEF StackSpec, OthersKeysKept

-----------------------------------------------------------------------------
(***************************************************************************)
(* Savers that take turns, none cut off: what is left behind.              *)
(***************************************************************************)

Writing(s) == stage[s] \in {"put", "check", "undo", "undo_put"}

\* Compose accepts the project, or will when the file that is being written is put back.
StartInv ==
  /\ hand = 0 /\ dir # "nobody" /\ (\A s \in Savers : ~Writing(s) /\ ~Creating(s))
       => files \in Works
  /\ \A s \in Savers :
       hand = 0 /\ Writing(s) => [files EXCEPT ![Target(s)] = original[s]] \in Works

(* Putting a file back is undone by nothing that was written over it meanwhile. *)
LEMMA PutBack ==
  ASSUME StackTypeOK, NEW file \in {"compose", "env"}
  PROVE  /\ [files EXCEPT ![file] = files[file]] = files
         /\ \A a, b : [[files EXCEPT ![file] = a] EXCEPT ![file] = b] = [files EXCEPT ![file] = b]
<1>1. CASE file = "compose"
  BY <1>1 DEF StackTypeOK
<1>2. CASE file = "env"
  BY <1>2 DEF StackTypeOK
<1> QED
  BY <1>1, <1>2

(* StartInv is inductive. *)
LEMMA StartStep == StackTypeOK /\ SoloInv /\ StartInv /\ [StackNext]_StackVars /\ ~disturbed' => StartInv'
<1> SUFFICES ASSUME StackTypeOK, SoloInv, StartInv, [StackNext]_StackVars, ~disturbed' PROVE StartInv'
  OBVIOUS
<1> USE TextsAssumption DEF StackTypeOK, InHand, SoloInv, StartInv, Target, Writing, Creating
<1>1. CASE HandEdit /\ Resting
  BY <1>1 DEF HandEdit, Resting
<1>2. ASSUME NEW s \in Savers, InTurn(s) PROVE StartInv'
  <2>0. \A t \in Savers \ {s} : stage[t] = "idle" /\ stage'[t] = "idle"
    BY <1>2, OthersRest
  <2>1. CASE SaveCompose(s) \/ SaveRaw(s) \/ SaveForm(s) \/ PressCreate(s)
    BY <2>0, <2>1 DEF SaveCompose, SaveRaw, SaveForm, PressCreate, Ask, InFlight
  <2>2. CASE Render(s) \/ Read(s) \/ NothingThere(s)
    BY <2>0, <2>2 DEF Render, Read, NothingThere, Tell, Step
  <2> DEFINE file == Target(s)
             Restored == [files EXCEPT ![file] = original[s]]
  <2>11. ASSUME stage[s] \in {"truncate", "put", "check", "undo", "undo_put"}
         PROVE  file \in {"compose", "env"}
    BY <2>11
  <2>12. ASSUME file \in {"compose", "env"}, NEW words, Put(file, words), original' = original
         PROVE  [files' EXCEPT ![file] = original'[s]] = Restored
    BY <2>12, PutBack DEF Put
  <2>3. CASE Truncate(s)
    <3>1. Restored = files
      BY <2>3, <2>11, PutBack DEF Truncate
    <3>2. [files' EXCEPT ![file] = original'[s]] = files
      BY <2>3, <2>11, <2>12, <3>1 DEF Truncate, Go
    <3>3. hand = 0 => files \in Works
      BY <2>0, <2>3 DEF Truncate
    <3>4. job' = job /\ stage'[s] = "put" /\ hand' = hand
      BY <2>3 DEF Truncate, Go, Step
    <3> QED
      BY <2>0, <3>2, <3>3, <3>4
  <2>4. CASE Write(s)
    <3>1. [files' EXCEPT ![file] = original'[s]] = Restored
      BY <2>4, <2>11, <2>12 DEF Write, Go
    <3>2. job' = job /\ stage'[s] = "check" /\ hand' = hand
      BY <2>4 DEF Write, Go, Step
    <3>3. hand = 0 => Restored \in Works
      BY <2>4 DEF Write
    <3> QED
      BY <2>0, <3>1, <3>2, <3>3
  <2>5. CASE Accepted(s) \/ Rejected(s)
    <3>1. CASE Accepted(s)
      BY <2>0, <3>1 DEF Accepted, Tell
    <3>2. CASE Rejected(s)
      <4>1. /\ stage[s] = "check" /\ stage'[s] = "undo"
            /\ files' = files /\ original' = original /\ job' = job /\ hand' = hand
        BY <3>2 DEF Rejected, Go, Step
      <4> QED
        BY <2>0, <4>1
    <3> QED
      BY <2>5, <3>1, <3>2
  <2>6. CASE Undo(s)
    <3>1. hand = 0 => Restored \in Works
      BY <2>6 DEF Undo
    <3>2. hand' = hand
      BY <2>6 DEF Undo, Tell, Go, Step
    <3>3. CASE original[s] = Missing
      <4>1. files' = Restored /\ stage'[s] = "idle"
        BY <2>6, <3>3 DEF Undo, Put, Tell, Go, Step
      <4> QED
        BY <2>0, <3>1, <3>2, <4>1
    <3>4. CASE original[s] # Missing
      <4>1. [files' EXCEPT ![file] = original'[s]] = Restored
        BY <2>6, <2>11, <2>12, <3>4 DEF Undo, Go
      <4>2. stage'[s] = "undo_put" /\ job' = job /\ original' = original
        BY <2>6, <3>4 DEF Undo, Go, Step
      <4> QED
        BY <2>0, <3>1, <3>2, <4>1, <4>2
    <3> QED
      BY <3>3, <3>4
  <2>7. CASE UndoPut(s)
    BY <2>0, <2>7 DEF UndoPut, Put, Tell
  <2>8. CASE MakeDirectory(s)
    BY <2>0, <2>8 DEF MakeDirectory, Tell, Go, Step
  <2>9. CASE Fill(s) \/ Created(s) \/ NotCreated(s)
    BY <2>0, <2>9 DEF Fill, Created, NotCreated, Put, Tell, Go, Step
  <2> QED
    BY <1>2, <2>1, <2>2, <2>3, <2>4, <2>5, <2>6, <2>7, <2>8, <2>9 DEF Saver, InTurn
<1>3. CASE UNCHANGED StackVars
  BY <1>3 DEF StackVars
<1> QED
  BY <1>1, <1>2, <1>3, Undisturbed

\* As long as savers take turns and none is cut off, no save leaves behind a stack that
\* will not start.
THEOREM SavesInTurnStart == StackSpec => []StartableInTurn
<1>1. StackInit => StackTypeOK /\ (disturbed \/ (SoloInv /\ StartInv))
  BY TypeInit DEF StackInit, SoloInv, StartInv, Writing, Creating, Absent
<1>2. disturbed \/ (SoloInv /\ StartInv) => StartableInTurn
  BY DEF StartInv, StartableInTurn, Startable, Writing, Creating, InFlight
<1>3. StackTypeOK /\ (disturbed \/ (SoloInv /\ StartInv)) /\ [StackNext]_StackVars
        => (disturbed \/ (SoloInv /\ StartInv))'
  BY SoloStep, StartStep, Undisturbed
<1> QED
  BY <1>1, <1>2, <1>3, TypeStep, PTL DEF StackSpec
=============================================================================
