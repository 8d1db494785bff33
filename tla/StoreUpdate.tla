------------------------------ MODULE StoreUpdate ------------------------------
(***************************************************************************)
(* One cloned app store and the sessions that update it.                   *)
(*                                                                         *)
(* A store is a git checkout; installed apps are symlinks into its working *)
(* tree, so the user's edits to an app are edits to the checkout.  An      *)
(* update is a plan -- fetch, then commit or discard the local edits if    *)
(* the tree is dirty, then merge -- which update_plan() computes when the  *)
(* button is pressed and a dialog (or the CLI) then runs one git command   *)
(* at a time, stopping at the first that fails.  A merge that conflicts is *)
(* finished by resolve_plan() or undone by abort_command().  A session is  *)
(* a browser tab or a CLI process: nothing in the code serialises them.    *)
(*                                                                         *)
(* Text is abstracted to what the properties tell apart: which of the      *)
(* user's saves and which of the store's versions a file holds, and        *)
(* whether it holds conflict markers.  git itself is external: each        *)
(* command is one atomic step (its index lock makes it so), with the       *)
(* refusals git makes as guards.                                           *)
(***************************************************************************)
EXTENDS Naturals, FiniteSets

CONSTANTS
  Files,           \* the tracked files of the checkout
  Sessions,        \* browser tabs and CLI processes acting on the store
  MaxSaves,        \* bound: how many times the user saves a file
  MaxVersions,     \* bound: how many versions the store's remote publishes
  FailingQueries   \* which read-only git queries may fail: "dirty", "unmerged"

ASSUME BoundsAssumption ==
  /\ MaxSaves \in Nat
  /\ MaxVersions \in Nat
  /\ FailingQueries \subseteq {"dirty", "unmerged"}

VARIABLES
  changes,    \* the remote: which files each of its versions changes
  remote,     \* the remote: its newest version
  fetched,    \* @{upstream}: the newest version this clone knows of
  merged,     \* the newest version HEAD contains
  head,       \* HEAD: the committed text of each file
  index,      \* the staged text of each file
  unmerged,   \* the files the index records as unmerged (--diff-filter=U)
  work,       \* the working tree: the text of each file
  incoming,   \* MERGE_HEAD: the version being merged, 0 when there is none
  phase,      \* per session: the command it is about to run, or "idle"
  tidy,       \* per session: what its plan does with local edits
  staging,    \* per session: the files its resolve plan adds
  wanted,     \* per session: history, the remote's version when Update was pressed
  outcome,    \* per session: history, what its last plan reported
  saves,      \* history: how many times the user has saved a file
  owed,       \* history: per file, the saves the user has not taken back
  atMerge,    \* history: the working tree when the pending merge began
  savedMid    \* history: the files the user saved or discarded since then

remoteVars  == <<changes, remote>>
repoVars    == <<fetched, merged, head, index, unmerged, work, incoming>>
sessionVars == <<phase, tidy, staging, wanted, outcome>>
historyVars == <<saves, owed, atMerge, savedMid>>
StoreVars   == <<remoteVars, repoVars, sessionVars, historyVars>>

Versions == 0..MaxVersions
Saves    == 1..MaxSaves
Text     == [mine : SUBSET Saves, store : SUBSET (1..MaxVersions), mark : BOOLEAN]
Phases   == {"idle", "asking", "fetch", "commit", "discard", "merge",
             "listing", "add", "conclude", "abort"}
Commands == Phases \ {"idle", "asking", "listing"}

\* The text of f as the remote's version v has it.
Upstream(v, f) ==
  [mine |-> {}, store |-> {i \in 1..v : f \in changes[i]}, mark |-> FALSE]

Merging == incoming # 0

-----------------------------------------------------------------------------
(* git's three-way merge of version v into HEAD, file by file. *)

Base(f)          == Upstream(merged, f)
TheirsMoved(v, f) == Upstream(v, f) # Base(f)
OursMoved(f)     == head[f] # Base(f)
BothMoved(v)     == {f \in Files : TheirsMoved(v, f) /\ OursMoved(f)}

\* Mutant of Result: the store is reset to @{upstream} instead of merged.
Bug_ResetInsteadOfMerge(v, f, conflicts) == Upstream(v, f)

\* Only files the remote changed are rewritten; where both sides changed, the
\* result holds both, with markers where the lines overlap.
Result(v, f, conflicts) ==
  [mine  |-> head[f].mine,
   store |-> head[f].store \union Upstream(v, f).store,
   mark  |-> head[f].mark \/ f \in conflicts]

Rewritten(v, conflicts) == {f \in Files : TheirsMoved(v, f) /\ Result(v, f, conflicts) # head[f]}

\* git merges only if it overwrites no uncommitted change; and, unless the merge
\* is a fast-forward, only if nothing is staged.
MayMerge(v, conflicts) ==
  /\ ~Merging
  /\ \A f \in Rewritten(v, conflicts) : work[f] = head[f] /\ index[f] = head[f]
  /\ (\E f \in Files : OursMoved(f)) => index = head

-----------------------------------------------------------------------------
StoreInit ==
  /\ changes \in [1..MaxVersions -> (SUBSET Files) \ {{}}]
  /\ remote = 0 /\ fetched = 0 /\ merged = 0 /\ incoming = 0
  /\ head  = [f \in Files |-> [mine |-> {}, store |-> {}, mark |-> FALSE]]
  /\ index = head
  /\ work  = head
  /\ unmerged = {}
  /\ phase   = [s \in Sessions |-> "idle"]
  /\ tidy    = [s \in Sessions |-> "nothing"]
  /\ staging = [s \in Sessions |-> {}]
  /\ wanted    = [s \in Sessions |-> 0]
  /\ outcome = [s \in Sessions |-> "none"]
  /\ saves = 0
  /\ owed = [f \in Files |-> {}]
  /\ atMerge = head
  /\ savedMid = {}

-----------------------------------------------------------------------------
(* The remote, and the user at an editor. *)

Publish ==
  /\ remote < MaxVersions
  /\ remote' = remote + 1
  /\ UNCHANGED <<changes, repoVars, sessionVars, historyVars>>

Saved(f, text, kept) ==
  /\ work' = [work EXCEPT ![f] = text]
  /\ owed' = [owed EXCEPT ![f] = kept]

\* The user saves f: an edit added to what is there, with any markers left in
\* or taken out, or the whole text rewritten.
UserSave(f) ==
  /\ saves < MaxSaves
  /\ saves' = saves + 1
  /\ \/ \E mark \in {FALSE, work[f].mark} :
          Saved(f, [mine  |-> work[f].mine \union {saves'},
                    store |-> work[f].store, mark |-> mark], owed[f] \union {saves'})
     \/ Saved(f, [mine |-> {saves'}, store |-> {}, mark |-> FALSE], {saves'})
  /\ savedMid' = IF Merging THEN savedMid \union {f} ELSE savedMid
  /\ UNCHANGED <<remoteVars, fetched, merged, head, index, unmerged, incoming,
                 sessionVars, atMerge>>

\* "Check for updates", and the fetch at start-up: a fetch outside any plan.
CheckForUpdates ==
  /\ fetched # remote
  /\ fetched' = remote
  /\ UNCHANGED <<remoteVars, merged, head, index, unmerged, work, incoming,
                 sessionVars, historyVars>>

-----------------------------------------------------------------------------
(* Planning: update_plan() and resolve_plan() read, and decide. *)

Become(s, next) == phase' = [phase EXCEPT ![s] = next]

\* update_plan() refuses while a merge is pending.
PressUpdate(s) ==
  /\ phase[s] = "idle"
  /\ ~Merging
  /\ Become(s, "asking")
  /\ wanted' = [wanted EXCEPT ![s] = remote]
  /\ outcome' = [outcome EXCEPT ![s] = "none"]
  /\ UNCHANGED <<remoteVars, repoVars, tidy, staging, historyVars>>

Dirty == \E f \in Files : work[f] # head[f]

\* What is_dirty() answers: a git that fails reads as "nothing changed".
IsDirty == {Dirty} \union (IF "dirty" \in FailingQueries THEN {FALSE} ELSE {})

PlanUpdate(s) ==
  /\ phase[s] = "asking"
  /\ \E dirty \in IsDirty, discardLocal \in BOOLEAN :
       tidy' = [tidy EXCEPT ![s] = IF ~dirty THEN "nothing"
                                   ELSE IF discardLocal THEN "discard" ELSE "commit"]
  /\ Become(s, "fetch")
  /\ UNCHANGED <<remoteVars, repoVars, staging, wanted, outcome, historyVars>>

\* What conflicts() answers: a git that fails reads as "no conflicts".
Conflicts == {unmerged} \union (IF "unmerged" \in FailingQueries THEN {{}} ELSE {})

\* Mutant of PressResolve: resolve_plan() does not look for markers.
Bug_ResolveUnchecked(s) ==
  /\ phase[s] = "idle"
  /\ Become(s, "listing")
  /\ outcome' = [outcome EXCEPT ![s] = "none"]
  /\ wanted' = [wanted EXCEPT ![s] = 0]
  /\ UNCHANGED <<remoteVars, repoVars, tidy, staging, historyVars>>

\* resolve_plan()'s guard: unresolved() must come back empty.
PressResolve(s) ==
  /\ phase[s] = "idle"
  /\ \E conflicted \in Conflicts : {f \in conflicted : work[f].mark} = {}
  /\ Become(s, "listing")
  /\ outcome' = [outcome EXCEPT ![s] = "none"]
  /\ wanted' = [wanted EXCEPT ![s] = 0]
  /\ UNCHANGED <<remoteVars, repoVars, tidy, staging, historyVars>>

\* resolve_plan() asks for the conflicts a second time, and plans on that answer.
PlanResolve(s) ==
  /\ phase[s] = "listing"
  /\ \E conflicted \in Conflicts :
       /\ staging' = [staging EXCEPT ![s] = conflicted]
       /\ Become(s, IF conflicted = {} THEN "conclude" ELSE "add")
  /\ UNCHANGED <<remoteVars, repoVars, tidy, wanted, outcome, historyVars>>

\* "Undo the update" plans without asking anything.
PressAbort(s) ==
  /\ phase[s] = "idle"
  /\ Become(s, "abort")
  /\ outcome' = [outcome EXCEPT ![s] = "none"]
  /\ wanted' = [wanted EXCEPT ![s] = 0]
  /\ UNCHANGED <<remoteVars, repoVars, tidy, staging, historyVars>>

-----------------------------------------------------------------------------
(* Running a plan: _run_in_dialog() and _execute_streaming(). *)

\* The command of session s succeeded; its plan goes on with `next`.
Continue(s, next) ==
  /\ Become(s, next)
  /\ outcome' = IF next = "idle" THEN [outcome EXCEPT ![s] = "finished"] ELSE outcome
  /\ UNCHANGED <<tidy, staging>>

\* Mutant of Stop: a failed fetch does not stop the plan.
Bug_MergeAfterFailedFetch(s) ==
  /\ phase[s] = "fetch"
  /\ Continue(s, "merge")
  /\ UNCHANGED <<remoteVars, repoVars, wanted, historyVars>>

\* The command failed (a lock, a refusal, a timeout, no network) or the process
\* running the plan died: the rest of the plan is not run.
Stop(s) ==
  /\ phase[s] \in Commands
  /\ Become(s, "idle")
  /\ outcome' = [outcome EXCEPT ![s] = "stopped"]
  /\ UNCHANGED <<remoteVars, repoVars, tidy, staging, wanted, historyVars>>

Fetch(s) ==
  /\ phase[s] = "fetch"
  /\ fetched' = remote
  /\ Continue(s, IF tidy[s] = "nothing" THEN "merge" ELSE tidy[s])
  /\ UNCHANGED <<remoteVars, merged, head, index, unmerged, work, incoming, wanted, historyVars>>

\* A commit that concludes the pending merge, if there is one.
Land ==
  /\ merged' = IF Merging THEN incoming ELSE merged
  /\ incoming' = 0
  /\ savedMid' = {}

\* git commit --all: stages every tracked file first, unmerged ones included,
\* and refuses an empty commit.
CommitLocal(s) ==
  /\ phase[s] = "commit"
  /\ Merging \/ Dirty
  /\ head' = work /\ index' = work /\ unmerged' = {}
  /\ Land
  /\ Continue(s, "merge")
  /\ UNCHANGED <<remoteVars, fetched, work, wanted, saves, owed, atMerge>>

\* git checkout -- . : refuses while a file is unmerged.
DiscardLocal(s) ==
  /\ phase[s] = "discard"
  /\ unmerged = {}
  /\ work' = index
  /\ owed' = [f \in Files |-> owed[f] \intersect head[f].mine]
  /\ savedMid' = IF Merging THEN savedMid \union {f \in Files : work[f] # index[f]}
                 ELSE savedMid
  /\ Continue(s, "merge")
  /\ UNCHANGED <<remoteVars, fetched, merged, head, index, unmerged, incoming,
                 wanted, saves, atMerge>>

\* git merge @{upstream} without overlapping changes: a merge commit, a
\* fast-forward, or nothing to do.
MergeCleanly(s) ==
  /\ phase[s] = "merge"
  /\ MayMerge(fetched, {})
  /\ LET rewritten == Rewritten(fetched, {})
         update(text) == [f \in Files |-> IF f \in rewritten THEN Result(fetched, f, {})
                                          ELSE text[f]]
     IN  head' = update(head) /\ index' = update(index) /\ work' = update(work)
  /\ merged' = fetched
  /\ Continue(s, "idle")
  /\ UNCHANGED <<remoteVars, fetched, unmerged, incoming, wanted, historyVars>>

\* git merge @{upstream} when it cannot: the files that merged are staged, the
\* others are left unmerged with markers in them, and git exits non-zero.
MergeConflicts(s) ==
  /\ phase[s] = "merge"
  /\ \E conflicts \in (SUBSET BothMoved(fetched)) \ {{}} :
       /\ MayMerge(fetched, conflicts)
       /\ LET rewritten == Rewritten(fetched, conflicts)
          IN  /\ work' = [f \in Files |-> IF f \in rewritten
                                          THEN Result(fetched, f, conflicts) ELSE work[f]]
              /\ index' = [f \in Files |-> IF f \in rewritten \ conflicts
                                           THEN Result(fetched, f, conflicts) ELSE index[f]]
       /\ unmerged' = conflicts
  /\ incoming' = fetched
  /\ atMerge' = work
  /\ savedMid' = {}
  /\ Become(s, "idle")
  /\ outcome' = [outcome EXCEPT ![s] = "stopped"]
  /\ UNCHANGED <<remoteVars, fetched, merged, head, tidy, staging, wanted, saves, owed>>

\* git add -- <conflicted files>
Add(s) ==
  /\ phase[s] = "add"
  /\ index' = [f \in Files |-> IF f \in staging[s] THEN work[f] ELSE index[f]]
  /\ unmerged' = unmerged \ staging[s]
  /\ Continue(s, "conclude")
  /\ UNCHANGED <<remoteVars, fetched, merged, head, work, incoming, wanted, historyVars>>

\* git commit --no-edit: needs a merge to conclude and nothing left unmerged.
Conclude(s) ==
  /\ phase[s] = "conclude"
  /\ Merging
  /\ unmerged = {}
  /\ head' = index
  /\ Land
  /\ Continue(s, "idle")
  /\ UNCHANGED <<remoteVars, fetched, index, unmerged, work, wanted, saves, owed, atMerge>>

\* Mutant of Restored: only the conflicted files are checked out again.
Bug_RestoreConflictedOnly == unmerged

\* What git merge --abort puts back: every file the merge wrote.
Restored == {f \in Files : f \in unmerged \/ index[f] # head[f]}

\* ... which it refuses to do when one it had merged was changed since.
AbortRefused == \E f \in Restored \ unmerged : work[f] # index[f]

Abort(s) ==
  /\ phase[s] = "abort"
  /\ Merging
  /\ ~AbortRefused
  /\ work' = [f \in Files |-> IF f \in Restored THEN head[f] ELSE work[f]]
  /\ index' = head
  /\ unmerged' = {}
  /\ incoming' = 0
  /\ owed' = [f \in Files |-> IF f \in Restored \intersect savedMid THEN atMerge[f].mine
                              ELSE owed[f]]
  /\ savedMid' = {}
  /\ Continue(s, "idle")
  /\ UNCHANGED <<remoteVars, fetched, merged, head, wanted, saves, atMerge>>

-----------------------------------------------------------------------------
Session(s) ==
  \/ PressUpdate(s) \/ PlanUpdate(s) \/ PressResolve(s) \/ PlanResolve(s) \/ PressAbort(s)
  \/ Fetch(s) \/ CommitLocal(s) \/ DiscardLocal(s) \/ MergeCleanly(s) \/ MergeConflicts(s)
  \/ Add(s) \/ Conclude(s) \/ Abort(s) \/ Stop(s)

StoreNext ==
  \/ Publish
  \/ CheckForUpdates
  \/ \E f \in Files : UserSave(f)
  \/ \E s \in Sessions : Session(s)

StoreSpec == StoreInit /\ [][StoreNext]_StoreVars

-----------------------------------------------------------------------------
(* Properties. *)

\* Every variable keeps its type, and a plan is one that update_plan() or resolve_plan()
\* makes: git add is given files, and local edits are committed or discarded by an update
\* that was asked to.
StoreTypeOK ==
  /\ changes \in [1..MaxVersions -> SUBSET Files]
  /\ remote \in Versions /\ fetched \in Versions
  /\ merged \in Versions /\ incoming \in Versions
  /\ head \in [Files -> Text] /\ index \in [Files -> Text] /\ work \in [Files -> Text]
  /\ unmerged \in SUBSET Files
  /\ phase \in [Sessions -> Phases]
  /\ tidy \in [Sessions -> {"nothing", "commit", "discard"}]
  /\ staging \in [Sessions -> SUBSET Files]
  /\ \A s \in Sessions :
       /\ phase[s] = "add" => staging[s] # {}
       /\ phase[s] \in {"commit", "discard"} => tidy[s] = phase[s]
  /\ wanted \in [Sessions -> Versions]
  /\ outcome \in [Sessions -> {"none", "finished", "stopped"}]
  /\ saves \in 0..MaxSaves
  /\ owed \in [Files -> SUBSET Saves]
  /\ atMerge \in [Files -> Text]
  /\ savedMid \in SUBSET Files

\* A file with conflict markers in it is never committed: resolve_plan() refuses
\* while a marker remains, and an update refuses to start on a pending merge.
NoMarkersCommitted == \A f \in Files : ~head[f].mark

\* No edit of the user's is lost by an update: what the user saved, and did not
\* take back or ask to discard, is in the file, whether the update finished,
\* stopped half-way, conflicted, or was undone.  (Undoing drops the edits made
\* during the conflict; Abort takes those off `owed', as todo.md knows of it.)
EditsSurvive == \A f \in Files : owed[f] \subseteq work[f].mine

\* An update that reports it finished did bring in what it fetched: a merge is
\* never run after a failed fetch and taken for an update.
FinishedMeansUpdated ==
  \A s \in Sessions : outcome[s] = "finished" => merged >= wanted[s]

\* Undoing an update puts every file the user left alone during the conflict
\* back exactly as it was when the merge began.
AbortRestores ==
  [][ (Merging /\ incoming' = 0 /\ merged' = merged) =>
        \A f \in Files \ savedMid : work'[f] = atMerge[f] ]_StoreVars

\* An edit once committed stays in the store's history tip until the user
\* takes it back: no merge, resolve or undo drops it from HEAD.
CommittedEditsStay ==
  [][ \A f \in Files : head[f].mine \intersect owed'[f] \subseteq head'[f].mine ]_StoreVars
=============================================================================
