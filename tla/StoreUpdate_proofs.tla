-------------------------- MODULE StoreUpdate_proofs --------------------------
(***************************************************************************)
(* Theorems about StoreUpdate, for any number of files, saves and versions.*)
(***************************************************************************)
EXTENDS StoreUpdate, TLAPS

(* The text a merge leaves in a file is a text. *)
LEMMA ResultIsText ==
  ASSUME StoreTypeOK, NEW v \in Versions, NEW f \in Files, NEW conflicts
  PROVE  Result(v, f, conflicts) \in Text
<1>1. head[f] \in Text
  BY DEF StoreTypeOK
<1>2. {i \in 1..v : f \in changes[i]} \subseteq 1..MaxVersions
  BY BoundsAssumption DEF Versions
<1> QED
  BY <1>1, <1>2 DEF Result, Upstream, Text

(* The type invariant holds in every state of every behaviour. *)
THEOREM TypeCorrect == StoreSpec => []StoreTypeOK
<1>1. StoreInit => StoreTypeOK
  BY BoundsAssumption DEF StoreInit, StoreTypeOK, Text, Versions, Saves, Phases
<1>2. StoreTypeOK /\ [StoreNext]_StoreVars => StoreTypeOK'
  <2> SUFFICES ASSUME StoreTypeOK, [StoreNext]_StoreVars PROVE StoreTypeOK'
    OBVIOUS
  <2> USE BoundsAssumption DEF StoreTypeOK
  <2>1. CASE Publish
    BY <2>1 DEF Publish, repoVars, sessionVars, historyVars, Versions
  <2>2. CASE CheckForUpdates
    BY <2>2 DEF CheckForUpdates, remoteVars, sessionVars, historyVars
  <2>3. ASSUME NEW f \in Files, UserSave(f) PROVE StoreTypeOK'
    <3>1. saves' \in 0..MaxSaves /\ saves' \in Saves
      BY <2>3 DEF UserSave, Saves
    <3>2. work' \in [Files -> Text]
      <4>1. work[f] \in Text
        OBVIOUS
      <4>2. \A mark \in {FALSE, work[f].mark} :
              [mine |-> work[f].mine \union {saves'}, store |-> work[f].store, mark |-> mark] \in Text
        BY <3>1, <4>1 DEF Text
      <4>3. [mine |-> {saves'}, store |-> {}, mark |-> FALSE] \in Text
        BY <3>1 DEF Text
      <4>4. \E text \in Text : work' = [work EXCEPT ![f] = text]
        BY <2>3, <4>2, <4>3, Zenon DEF UserSave, Saved
      <4> QED
        BY <4>4
    <3>3. owed' \in [Files -> SUBSET Saves] /\ savedMid' \in SUBSET Files
      <4>1. \E kept \in SUBSET Saves : owed' = [owed EXCEPT ![f] = kept]
        <5>1. owed[f] \union {saves'} \in SUBSET Saves /\ {saves'} \in SUBSET Saves
          BY <3>1
        <5> QED
          BY <2>3, <5>1, Zenon DEF UserSave, Saved
      <4> QED
        BY <2>3, <4>1 DEF UserSave
    <3> QED
      BY <2>3, <3>1, <3>2, <3>3 DEF UserSave, Saved, remoteVars, sessionVars
  <2>4. ASSUME NEW s \in Sessions, Session(s) PROVE StoreTypeOK'
    <3>1. CASE PressUpdate(s)
      BY <3>1 DEF PressUpdate, Become, Phases, remoteVars, repoVars, historyVars
    <3>2. CASE PlanUpdate(s)
      BY <3>2 DEF PlanUpdate, Become, Phases, remoteVars, repoVars, historyVars
    <3>3. CASE PressResolve(s)
      BY <3>3 DEF PressResolve, Become, Phases, Versions, remoteVars, repoVars, historyVars
    <3>4. CASE PlanResolve(s)
      BY <3>4 DEF PlanResolve, Conflicts, Become, Phases, remoteVars, repoVars, historyVars
    <3>5. CASE PressAbort(s)
      BY <3>5 DEF PressAbort, Become, Phases, Versions, remoteVars, repoVars, historyVars
    <3>6. CASE Fetch(s)
      BY <3>6 DEF Fetch, Continue, Become, Phases, remoteVars, historyVars
    <3>7. CASE CommitLocal(s)
      BY <3>7 DEF CommitLocal, Land, Continue, Become, Phases, Versions, remoteVars
    <3>8. CASE DiscardLocal(s)
      BY <3>8 DEF DiscardLocal, Continue, Become, Phases, remoteVars
    <3>9. CASE MergeCleanly(s)
      <4>1. \A f \in Files : Result(fetched, f, {}) \in Text
        BY ResultIsText
      <4>2. head' \in [Files -> Text] /\ index' \in [Files -> Text] /\ work' \in [Files -> Text]
        BY <3>9, <4>1 DEF MergeCleanly
      <4> QED
        BY <3>9, <4>2 DEF MergeCleanly, Continue, Become, Phases, remoteVars, historyVars
    <3>10. CASE MergeConflicts(s)
      <4>1. \A c, f : f \in Files => Result(fetched, f, c) \in Text
        BY ResultIsText
      <4>2. work' \in [Files -> Text] /\ index' \in [Files -> Text]
        BY <3>10, <4>1 DEF MergeConflicts
      <4>3. unmerged' \in SUBSET Files
        BY <3>10 DEF MergeConflicts, BothMoved
      <4> QED
        BY <3>10, <4>2, <4>3 DEF MergeConflicts, Become, Phases, remoteVars
    <3>11. CASE Add(s)
      BY <3>11 DEF Add, Continue, Become, Phases, remoteVars, historyVars
    <3>12. CASE Conclude(s)
      BY <3>12 DEF Conclude, Land, Continue, Become, Phases, Versions, remoteVars
    <3>13. CASE Abort(s)
      <4>1. \A f \in Files : atMerge[f].mine \in SUBSET Saves
        BY DEF Text
      <4> QED
        BY <3>13, <4>1 DEF Abort, Continue, Become, Phases, Versions, remoteVars
    <3>14. CASE Stop(s)
      BY <3>14 DEF Stop, Become, Phases, remoteVars, repoVars, historyVars
    <3> QED
      BY <2>4, <3>1, <3>2, <3>3, <3>4, <3>5, <3>6, <3>7, <3>8, <3>9, <3>10, <3>11,
         <3>12, <3>13, <3>14 DEF Session
  <2>5. CASE UNCHANGED StoreVars
    BY <2>5 DEF StoreVars, remoteVars, repoVars, sessionVars, historyVars
  <2> QED
    BY <2>1, <2>2, <2>3, <2>4, <2>5 DEF StoreNext
<1> QED
  BY <1>1, <1>2, PTL DEF StoreSpec

-----------------------------------------------------------------------------
(***************************************************************************)
(* An update that reports it finished brought in what it set out to fetch. *)
(* This holds however many sessions run plans on the store at once.        *)
(***************************************************************************)

\* What the clone knows never runs ahead of the remote, nor HEAD -- or the merge
\* that is about to become HEAD -- ahead of what the clone knows.
VersionsInOrder ==
  /\ merged <= fetched /\ fetched <= remote
  /\ incoming <= fetched
  /\ Merging => merged <= incoming

\* A plan past its fetch has fetched what it wanted; a plan that is not an update
\* wants nothing.
FetchedWhatItWanted ==
  \A s \in Sessions :
    /\ wanted[s] <= remote
    /\ phase[s] \in {"commit", "discard", "merge"} => wanted[s] <= fetched
    /\ phase[s] \in {"listing", "add", "conclude", "abort"} => wanted[s] = 0

HonestInv == VersionsInOrder /\ FetchedWhatItWanted /\ FinishedMeansUpdated

(* HonestInv holds initially. *)
LEMMA HonestInit == StoreInit => HonestInv
BY DEF StoreInit, HonestInv, VersionsInOrder, FetchedWhatItWanted, FinishedMeansUpdated, Merging

(* HonestInv is inductive, given the types. *)
LEMMA HonestStep == StoreTypeOK /\ HonestInv /\ [StoreNext]_StoreVars => HonestInv'
<1> SUFFICES ASSUME StoreTypeOK, HonestInv, [StoreNext]_StoreVars PROVE HonestInv'
  OBVIOUS
<1>0. /\ merged \in Nat /\ fetched \in Nat /\ remote \in Nat /\ incoming \in Nat
      /\ wanted \in [Sessions -> Nat]
      /\ phase \in [Sessions -> Phases]
      /\ tidy \in [Sessions -> {"nothing", "commit", "discard"}]
      /\ outcome \in [Sessions -> {"none", "finished", "stopped"}]
  BY BoundsAssumption DEF StoreTypeOK, Versions
<1> USE <1>0 DEF HonestInv, VersionsInOrder, FetchedWhatItWanted, FinishedMeansUpdated, Merging
<1>1. CASE Publish
  BY <1>1 DEF Publish, repoVars, sessionVars
<1>2. CASE CheckForUpdates
  BY <1>2 DEF CheckForUpdates, remoteVars, sessionVars
<1>3. ASSUME NEW f \in Files, UserSave(f) PROVE HonestInv'
  BY <1>3 DEF UserSave, remoteVars, sessionVars
<1>4. ASSUME NEW s \in Sessions, Session(s) PROVE HonestInv'
  <2>1. CASE PressUpdate(s)
    BY <2>1 DEF PressUpdate, Become, remoteVars, repoVars
  <2>2. CASE PlanUpdate(s)
    BY <2>2 DEF PlanUpdate, Become, remoteVars, repoVars
  <2>3. CASE PressResolve(s)
    BY <2>3 DEF PressResolve, Become, remoteVars, repoVars
  <2>4. CASE PlanResolve(s)
    <3>1. phase' = [phase EXCEPT ![s] = "conclude"] \/ phase' = [phase EXCEPT ![s] = "add"]
      BY <2>4 DEF PlanResolve, Become
    <3> QED
      BY <2>4, <3>1 DEF PlanResolve, remoteVars, repoVars
  <2>5. CASE PressAbort(s)
    BY <2>5 DEF PressAbort, Become, remoteVars, repoVars
  <2>6. CASE Fetch(s)
    BY <2>6 DEF Fetch, Continue, Become, remoteVars
  <2>7. CASE CommitLocal(s)
    BY <2>7 DEF CommitLocal, Land, Continue, Become, remoteVars
  <2>8. CASE DiscardLocal(s)
    BY <2>8 DEF DiscardLocal, Continue, Become, remoteVars
  <2>9. CASE MergeCleanly(s)
    BY <2>9 DEF MergeCleanly, MayMerge, Continue, Become, remoteVars
  <2>10. CASE MergeConflicts(s)
    BY <2>10 DEF MergeConflicts, Become, remoteVars
  <2>11. CASE Add(s)
    BY <2>11 DEF Add, Continue, Become, remoteVars
  <2>12. CASE Conclude(s)
    BY <2>12 DEF Conclude, Land, Continue, Become, remoteVars
  <2>13. CASE Abort(s)
    BY <2>13 DEF Abort, Continue, Become, remoteVars
  <2>14. CASE Stop(s)
    BY <2>14 DEF Stop, Become, remoteVars, repoVars
  <2> QED
    BY <1>4, <2>1, <2>2, <2>3, <2>4, <2>5, <2>6, <2>7, <2>8, <2>9, <2>10, <2>11,
       <2>12, <2>13, <2>14 DEF Session
<1>5. CASE UNCHANGED StoreVars
  BY <1>5 DEF StoreVars, remoteVars, repoVars, sessionVars
<1> QED
  BY <1>1, <1>2, <1>3, <1>4, <1>5 DEF StoreNext

(* "Finished" is never reported for an update that did not happen: the dialog *)
(* and the CLI stop at the first command that fails.                          *)
THEOREM UpdatesAreHonest == StoreSpec => []FinishedMeansUpdated
<1>1. StoreInit => HonestInv
  BY HonestInit
<1>2. HonestInv => FinishedMeansUpdated
  BY DEF HonestInv
<1> QED
  BY <1>1, <1>2, HonestStep, TypeCorrect, PTL DEF StoreSpec

-----------------------------------------------------------------------------
(***************************************************************************)
(* An edit once committed is never dropped from HEAD, however many sessions *)
(* update, resolve and undo at once.                                       *)
(***************************************************************************)

\* What HEAD holds of the edits the user still wants is also staged, and what is
\* staged of them is in the working tree, so that no commit, whatever it is made
\* of, leaves it out.  (The last conjunct: a save is new to every copy.)
CommittedEverywhere ==
  \A f \in Files :
    /\ head[f].mine \intersect owed[f] \subseteq index[f].mine
    /\ index[f].mine \intersect owed[f] \subseteq work[f].mine
    /\ head[f].mine \union index[f].mine \union work[f].mine \subseteq 1..saves

(* A merge result keeps what HEAD had of the user's edits. *)
LEMMA ResultKeepsMine ==
  ASSUME NEW v, NEW f, NEW conflicts
  PROVE  Result(v, f, conflicts).mine = head[f].mine
BY DEF Result

(* CommittedEverywhere is inductive, and each step keeps what HEAD holds. *)
LEMMA CommittedStep ==
  StoreTypeOK /\ CommittedEverywhere /\ [StoreNext]_StoreVars =>
    /\ CommittedEverywhere'
    /\ \A f \in Files : head[f].mine \intersect owed'[f] \subseteq head'[f].mine
<1> DEFINE Kept == \A f \in Files : head[f].mine \intersect owed'[f] \subseteq head'[f].mine
<1> SUFFICES ASSUME StoreTypeOK, CommittedEverywhere, [StoreNext]_StoreVars
             PROVE  CommittedEverywhere' /\ Kept
  OBVIOUS
<1>0. /\ head \in [Files -> Text] /\ index \in [Files -> Text] /\ work \in [Files -> Text]
      /\ owed \in [Files -> SUBSET Saves] /\ saves \in Nat
  BY BoundsAssumption DEF StoreTypeOK
<1> USE <1>0 DEF CommittedEverywhere
<1>1. CASE Publish
  BY <1>1 DEF Publish, repoVars, historyVars
<1>2. CASE CheckForUpdates
  BY <1>2 DEF CheckForUpdates, historyVars
<1>3. ASSUME NEW f \in Files, UserSave(f) PROVE CommittedEverywhere' /\ Kept
  <2>1. /\ head' = head /\ index' = index
        /\ saves' = saves + 1 /\ saves' \notin 1..saves /\ 1..saves \subseteq 1..saves'
        /\ saves' \in 1..saves'
    BY <1>3, <1>0 DEF UserSave
  <2>2. PICK text, kept :
          /\ work' = [work EXCEPT ![f] = text] /\ owed' = [owed EXCEPT ![f] = kept]
          /\ \/ text.mine = work[f].mine \union {saves'} /\ kept = owed[f] \union {saves'}
             \/ text.mine = {saves'} /\ kept = {saves'}
    BY <1>3 DEF UserSave, Saved
  <2>3. ASSUME NEW g \in Files, g # f
        PROVE  work'[g] = work[g] /\ owed'[g] = owed[g]
    BY <2>2, <2>3
  <2>4. work'[f] = text /\ owed'[f] = kept
    BY <2>2
  <2>5. ASSUME NEW g \in Files
        PROVE  /\ head[g].mine \intersect owed'[g] \subseteq index[g].mine
               /\ index[g].mine \intersect owed'[g] \subseteq work'[g].mine
               /\ work'[g].mine \subseteq 1..saves'
    <3>1. CASE g = f
      BY <2>1, <2>2, <2>4, <3>1
    <3>2. CASE g # f
      BY <2>1, <2>3, <3>2
    <3> QED
      BY <3>1, <3>2
  <2>6. Kept
    BY <2>1
  <2> QED
    BY <2>1, <2>5, <2>6
<1>4. ASSUME NEW s \in Sessions, Session(s) PROVE CommittedEverywhere' /\ Kept
  <2>1. CASE UNCHANGED <<head, index, work, owed, saves>>
    BY <2>1
  <2>2. CASE CommitLocal(s)
    BY <2>2 DEF CommitLocal
  <2>3. CASE DiscardLocal(s)
    BY <2>3 DEF DiscardLocal
  <2>4. CASE MergeCleanly(s)
    BY <2>4, ResultKeepsMine DEF MergeCleanly, historyVars
  <2>5. CASE MergeConflicts(s)
    <3>1. PICK conflicts \in (SUBSET BothMoved(fetched)) \ {{}} :
            /\ MayMerge(fetched, conflicts)
            /\ work' = [f \in Files |-> IF f \in Rewritten(fetched, conflicts)
                                        THEN Result(fetched, f, conflicts) ELSE work[f]]
            /\ index' = [f \in Files |-> IF f \in Rewritten(fetched, conflicts) \ conflicts
                                         THEN Result(fetched, f, conflicts) ELSE index[f]]
      BY <2>5 DEF MergeConflicts
    <3>2. \A f \in Rewritten(fetched, conflicts) : index[f] = head[f]
      BY <3>1 DEF MayMerge
    <3>3. head' = head /\ owed' = owed /\ saves' = saves
      BY <2>5 DEF MergeConflicts
    <3> QED
      BY <3>1, <3>2, <3>3, ResultKeepsMine
  <2>6. CASE Add(s)
    BY <2>6 DEF Add, historyVars
  <2>7. CASE Conclude(s)
    BY <2>7 DEF Conclude
  <2>8. CASE Abort(s)
    BY <2>8 DEF Abort
  <2> QED
    BY <1>4, <2>1, <2>2, <2>3, <2>4, <2>5, <2>6, <2>7, <2>8
    DEF Session, PressUpdate, PlanUpdate, PressResolve, PlanResolve, PressAbort, Fetch,
        Stop, repoVars, historyVars
<1>5. CASE UNCHANGED StoreVars
  BY <1>5 DEF StoreVars, repoVars, historyVars
<1> QED
  BY <1>1, <1>2, <1>3, <1>4, <1>5 DEF StoreNext

(* No update, resolution or undo drops a committed edit the user still wants. *)
THEOREM CommittedEditsAreKept == StoreSpec => CommittedEditsStay
<1>1. StoreInit => CommittedEverywhere
  BY DEF StoreInit, CommittedEverywhere
<1>2. StoreTypeOK /\ CommittedEverywhere /\ [StoreNext]_StoreVars =>
        [\A f \in Files : head[f].mine \intersect owed'[f] \subseteq head'[f].mine]_StoreVars
  BY CommittedStep
<1>3. StoreTypeOK /\ CommittedEverywhere /\ [StoreNext]_StoreVars => CommittedEverywhere'
  BY CommittedStep
<1> QED
  BY <1>1, <1>2, <1>3, TypeCorrect, PTL DEF StoreSpec, CommittedEditsStay

-----------------------------------------------------------------------------
(***************************************************************************)
(* With one session, and a git that answers, no marker is ever committed.  *)
(***************************************************************************)

SoleSession == \A s, t \in Sessions : s = t

\* Markers are only ever in unmerged files of a pending merge; an update plan
\* never runs during a merge, and a resolve plan runs only without markers.
MarkerInv ==
  /\ \A f \in Files : ~head[f].mark /\ ~index[f].mark
  /\ \A f \in Files : work[f].mark => f \in unmerged
  /\ unmerged # {} => Merging
  /\ \A s \in Sessions :
       /\ phase[s] \in {"asking", "fetch", "commit", "discard", "merge"} => ~Merging
       /\ phase[s] \in {"listing", "add", "conclude"} => \A f \in Files : ~work[f].mark

(* Only a clone that is behind its remote can conflict. *)
LEMMA ConflictIsBehind ==
  ASSUME StoreTypeOK, VersionsInOrder, BothMoved(fetched) # {}
  PROVE  fetched # 0
<1>1. PICK f \in Files : Upstream(fetched, f) # Upstream(merged, f)
  BY DEF BothMoved, TheirsMoved, Base
<1>2. fetched # merged
  BY <1>1
<1> QED
  BY <1>2, BoundsAssumption DEF StoreTypeOK, VersionsInOrder, Versions

(* MarkerInv is inductive, with one session. *)
LEMMA MarkerStep ==
  ASSUME SoleSession, "unmerged" \notin FailingQueries
  PROVE  StoreTypeOK /\ HonestInv /\ MarkerInv /\ [StoreNext]_StoreVars => MarkerInv'
<1> SUFFICES ASSUME StoreTypeOK, VersionsInOrder, MarkerInv, [StoreNext]_StoreVars PROVE MarkerInv'
  BY DEF HonestInv
<1>0. /\ head \in [Files -> Text] /\ index \in [Files -> Text] /\ work \in [Files -> Text]
      /\ phase \in [Sessions -> Phases] /\ unmerged \subseteq Files
      /\ tidy \in [Sessions -> {"nothing", "commit", "discard"}]
  BY DEF StoreTypeOK
<1> USE <1>0 DEF MarkerInv, Merging
<1>1. CASE Publish
  BY <1>1 DEF Publish, repoVars, sessionVars
<1>2. CASE CheckForUpdates
  BY <1>2 DEF CheckForUpdates, sessionVars
<1>3. ASSUME NEW f \in Files, UserSave(f) PROVE MarkerInv'
  <2>1. PICK text : work' = [work EXCEPT ![f] = text] /\ (text.mark => work[f].mark)
    BY <1>3 DEF UserSave, Saved
  <2>2. UNCHANGED <<head, index, unmerged, incoming, phase>>
    BY <1>3 DEF UserSave, sessionVars
  <2> QED
    BY <2>1, <2>2
<1>4. ASSUME NEW s \in Sessions, Session(s) PROVE MarkerInv'
  <2>0. Sessions = {s}
    BY DEF SoleSession
  <2>1. CASE PressUpdate(s)
    BY <2>1 DEF PressUpdate, Become, repoVars
  <2>2. CASE PlanUpdate(s)
    BY <2>2 DEF PlanUpdate, Become, repoVars
  <2>3. CASE PressResolve(s)
    BY <2>3 DEF PressResolve, Conflicts, Become, repoVars
  <2>4. CASE PlanResolve(s)
    <3>1. phase'[s] \in {"add", "conclude"} /\ phase[s] = "listing"
      BY <2>4 DEF PlanResolve, Become
    <3> QED
      BY <2>0, <2>4, <3>1 DEF PlanResolve, repoVars
  <2>5. CASE PressAbort(s)
    BY <2>5 DEF PressAbort, Become, repoVars
  <2>6. CASE Fetch(s)
    <3>1. phase'[s] \in {"merge", "commit", "discard"} /\ phase[s] = "fetch"
      BY <2>6 DEF Fetch, Continue, Become
    <3> QED
      BY <2>0, <2>6, <3>1 DEF Fetch
  <2>7. CASE CommitLocal(s)
    BY <2>0, <2>7 DEF CommitLocal, Land, Continue, Become
  <2>8. CASE DiscardLocal(s)
    BY <2>0, <2>8 DEF DiscardLocal, Continue, Become
  <2>9. CASE MergeCleanly(s)
    <3>1. \A f \in Files : Result(fetched, f, {}).mark = head[f].mark
      BY DEF Result, Text
    <3>2. \A f \in Files : ~head'[f].mark /\ ~index'[f].mark /\ (work'[f].mark => work[f].mark)
      BY <2>9, <3>1 DEF MergeCleanly
    <3> QED
      BY <2>0, <2>9, <3>2 DEF MergeCleanly, Continue, Become
  <2>10. CASE MergeConflicts(s)
    <3>1. PICK conflicts \in (SUBSET BothMoved(fetched)) \ {{}} :
            /\ work' = [f \in Files |-> IF f \in Rewritten(fetched, conflicts)
                                        THEN Result(fetched, f, conflicts) ELSE work[f]]
            /\ index' = [f \in Files |-> IF f \in Rewritten(fetched, conflicts) \ conflicts
                                         THEN Result(fetched, f, conflicts) ELSE index[f]]
            /\ unmerged' = conflicts
      BY <2>10 DEF MergeConflicts
    <3>2. fetched # 0
      BY ConflictIsBehind, <3>1
    <3>3. phase[s] = "merge" /\ phase'[s] = "idle" /\ incoming' = fetched /\ head' = head
      BY <2>10 DEF MergeConflicts, Become
    <3>4. \A f \in Files : ~work[f].mark
      BY <3>3
    <3>5. \A f \in Files : Result(fetched, f, conflicts).mark = (f \in conflicts)
      BY <3>1 DEF Result, Text
    <3> QED
      BY <2>0, <3>1, <3>2, <3>3, <3>4, <3>5
  <2>11. CASE Add(s)
    BY <2>0, <2>11 DEF Add, Continue, Become
  <2>12. CASE Conclude(s)
    BY <2>0, <2>12 DEF Conclude, Land, Continue, Become
  <2>13. CASE Abort(s)
    BY <2>0, <2>13 DEF Abort, Restored, Continue, Become
  <2>14. CASE Stop(s)
    BY <2>0, <2>14 DEF Stop, Become, repoVars
  <2> QED
    BY <1>4, <2>1, <2>2, <2>3, <2>4, <2>5, <2>6, <2>7, <2>8, <2>9, <2>10, <2>11,
       <2>12, <2>13, <2>14 DEF Session
<1>5. CASE UNCHANGED StoreVars
  BY <1>5 DEF StoreVars, repoVars, sessionVars
<1> QED
  BY <1>1, <1>2, <1>3, <1>4, <1>5 DEF StoreNext

(* One session, whose git answers when asked for the conflicts, never commits *)
(* a file with conflict markers in it.  (Two sessions can: store_markers.)    *)
THEOREM SoloNoMarkers ==
  ASSUME SoleSession, "unmerged" \notin FailingQueries
  PROVE  StoreSpec => []NoMarkersCommitted
<1>1. StoreInit => MarkerInv
  BY DEF StoreInit, MarkerInv, Merging
<1>2. MarkerInv => NoMarkersCommitted
  BY DEF MarkerInv, NoMarkersCommitted
<1>3. StoreTypeOK /\ HonestInv /\ MarkerInv /\ [StoreNext]_StoreVars => MarkerInv'
  BY MarkerStep
<1>4. StoreInit => HonestInv
  BY HonestInit
<1> QED
  BY <1>1, <1>2, <1>3, <1>4, HonestStep, TypeCorrect, PTL DEF StoreSpec

-----------------------------------------------------------------------------
(***************************************************************************)
(* With one session, and a git that answers, no update loses an edit and   *)
(* undoing one restores what the user left alone.                          *)
(***************************************************************************)

\* What an undo would put back is what the merge wrote: files that were as committed when
\* it began, and whose text still has HEAD's edits only unless the user saved them since.
RestoreInv ==
  /\ ~Merging => index = head
  /\ \A s \in Sessions : phase[s] = "add" => staging[s] \subseteq unmerged
  /\ Merging =>
       /\ merged # incoming
       /\ \A f \in Restored : atMerge[f] = head[f]
       /\ \A f \in Files \ savedMid :
            IF f \in Restored THEN work[f].mine = head[f].mine ELSE work[f] = atMerge[f]

SurviveInv == RestoreInv /\ EditsSurvive

(* A merge conflicts only in files it writes, when HEAD has no markers. *)
LEMMA ConflictsAreRewritten ==
  ASSUME NEW v, NEW conflicts \in SUBSET BothMoved(v), \A f \in Files : ~head[f].mark
  PROVE  conflicts \subseteq Rewritten(v, conflicts)
<1> SUFFICES ASSUME NEW f \in conflicts PROVE f \in Rewritten(v, conflicts)
  OBVIOUS
<1>1. f \in Files /\ TheirsMoved(v, f)
  BY DEF BothMoved
<1>2. Result(v, f, conflicts).mark
  BY DEF Result
<1> QED
  BY <1>1, <1>2 DEF Rewritten

(* SurviveInv is inductive, with one session. *)
LEMMA SurviveStep ==
  ASSUME SoleSession
  PROVE  StoreTypeOK /\ VersionsInOrder /\ CommittedEverywhere /\ MarkerInv /\ SurviveInv
           /\ [StoreNext]_StoreVars => SurviveInv'
<1> SUFFICES ASSUME StoreTypeOK, VersionsInOrder, CommittedEverywhere, MarkerInv, SurviveInv,
                    [StoreNext]_StoreVars
             PROVE  SurviveInv'
  OBVIOUS
<1>0. /\ head \in [Files -> Text] /\ index \in [Files -> Text] /\ work \in [Files -> Text]
      /\ atMerge \in [Files -> Text] /\ owed \in [Files -> SUBSET Saves]
      /\ phase \in [Sessions -> Phases] /\ unmerged \subseteq Files
      /\ staging \in [Sessions -> SUBSET Files]
      /\ tidy \in [Sessions -> {"nothing", "commit", "discard"}]
      /\ (unmerged # {} => Merging)
      /\ \A s \in Sessions : phase[s] \in {"commit", "discard", "merge"} => ~Merging
  BY DEF StoreTypeOK, MarkerInv
<1> USE <1>0 DEF SurviveInv, RestoreInv, EditsSurvive, Merging, Restored
<1>1. CASE Publish
  BY <1>1 DEF Publish, repoVars, sessionVars, historyVars
<1>2. CASE CheckForUpdates
  BY <1>2 DEF CheckForUpdates, sessionVars, historyVars
<1>3. ASSUME NEW f \in Files, UserSave(f) PROVE SurviveInv'
  <2>1. /\ UNCHANGED <<head, index, unmerged, incoming, merged, phase, staging, atMerge>>
        /\ savedMid' = IF Merging THEN savedMid \union {f} ELSE savedMid
    BY <1>3 DEF UserSave, sessionVars
  <2>2. PICK text, kept :
          /\ work' = [work EXCEPT ![f] = text] /\ owed' = [owed EXCEPT ![f] = kept]
          /\ \/ text.mine = work[f].mine \union {saves'} /\ kept = owed[f] \union {saves'}
             \/ text.mine = {saves'} /\ kept = {saves'}
    BY <1>3 DEF UserSave, Saved
  <2>3. \A g \in Files \ {f} : work'[g] = work[g] /\ owed'[g] = owed[g]
    BY <2>2
  <2>4. owed'[f] \subseteq work'[f].mine
    BY <2>2
  <2>5. EditsSurvive'
    BY <2>3, <2>4
  <2>6. RestoreInv'
    BY <2>1, <2>3
  <2> QED
    BY <2>5, <2>6
<1>4. ASSUME NEW s \in Sessions, Session(s) PROVE SurviveInv'
  <2>0. Sessions = {s}
    BY DEF SoleSession
  <2>1. CASE PressUpdate(s) \/ PlanUpdate(s) \/ PressResolve(s) \/ PressAbort(s)
    BY <2>0, <2>1 DEF PressUpdate, PlanUpdate, PressResolve, PressAbort, Become, repoVars,
       historyVars
  <2>2. CASE PlanResolve(s)
    BY <2>0, <2>2 DEF PlanResolve, Conflicts, Become, repoVars, historyVars
  <2>3. CASE Fetch(s) \/ Stop(s)
    BY <2>0, <2>3 DEF Fetch, Stop, Continue, Become, repoVars, historyVars
  <2>4. CASE CommitLocal(s)
    BY <2>0, <2>4 DEF CommitLocal, Land, Continue, Become
  <2>5. CASE DiscardLocal(s)
    BY <2>0, <2>5 DEF DiscardLocal, Continue, Become, CommittedEverywhere
  <2>6. CASE MergeCleanly(s)
    <3>1. \A f \in Rewritten(fetched, {}) : work[f] = head[f]
      BY <2>6 DEF MergeCleanly, MayMerge
    <3>2. EditsSurvive'
      BY <2>6, <3>1, ResultKeepsMine DEF MergeCleanly, historyVars
    <3>3. index' = head'
      BY <2>6 DEF MergeCleanly
    <3> QED
      BY <2>0, <2>6, <3>2, <3>3 DEF MergeCleanly, Continue, Become
  <2>7. CASE MergeConflicts(s)
    <3>1. PICK conflicts \in (SUBSET BothMoved(fetched)) \ {{}} :
            /\ MayMerge(fetched, conflicts)
            /\ work' = [f \in Files |-> IF f \in Rewritten(fetched, conflicts)
                                        THEN Result(fetched, f, conflicts) ELSE work[f]]
            /\ index' = [f \in Files |-> IF f \in Rewritten(fetched, conflicts) \ conflicts
                                         THEN Result(fetched, f, conflicts) ELSE index[f]]
            /\ unmerged' = conflicts
      BY <2>7 DEF MergeConflicts
    <3>2. /\ phase[s] = "merge" /\ phase' = [phase EXCEPT ![s] = "idle"]
          /\ incoming' = fetched /\ head' = head /\ merged' = merged
          /\ owed' = owed /\ atMerge' = work /\ savedMid' = {}
      BY <2>7 DEF MergeConflicts, Become
    <3>3. fetched # 0 /\ fetched # merged
      <4>1. PICK f \in Files : Upstream(fetched, f) # Upstream(merged, f)
        BY <3>1 DEF BothMoved, TheirsMoved, Base
      <4> QED
        BY <3>1, <4>1, ConflictIsBehind
    <3>4. conflicts \subseteq Rewritten(fetched, conflicts)
      BY <3>1, ConflictsAreRewritten DEF MarkerInv
    <3>5. /\ \A f \in Rewritten(fetched, conflicts) : work[f] = head[f]
          /\ index = head
      BY <3>1, <3>2 DEF MayMerge
    <3>6. \A f \in Rewritten(fetched, conflicts) : Result(fetched, f, conflicts) # head[f]
      BY DEF Rewritten
    <3>7. \A f \in Files : f \in Restored' <=> f \in Rewritten(fetched, conflicts)
      BY <3>1, <3>2, <3>4, <3>5, <3>6
    <3>8. \A f \in Files :
            work'[f].mine = IF f \in Rewritten(fetched, conflicts) THEN head[f].mine
                            ELSE work[f].mine
      BY <3>1, ResultKeepsMine
    <3>9. EditsSurvive'
      BY <3>2, <3>5, <3>8
    <3> QED
      BY <2>0, <3>1, <3>2, <3>3, <3>5, <3>7, <3>8, <3>9
  <2>8. CASE Add(s)
    <3>1. staging[s] \subseteq unmerged /\ phase'[s] = "conclude"
      BY <2>8 DEF Add, Continue, Become
    <3>2. UNCHANGED <<head, work, incoming, merged, atMerge, savedMid, owed, staging>>
      BY <2>8 DEF Add, Continue, historyVars
    <3>3. /\ index' = [f \in Files |-> IF f \in staging[s] THEN work[f] ELSE index[f]]
          /\ unmerged' = unmerged \ staging[s]
      BY <2>8 DEF Add
    <3>4. ~Merging => index' = index
      BY <3>1, <3>3
    <3>5. Merging => /\ Restored' \subseteq Restored
                     /\ \A f \in Restored \ Restored' : work[f] = head[f]
      BY <3>1, <3>2, <3>3
    <3> QED
      BY <2>0, <3>1, <3>2, <3>4, <3>5
  <2>9. CASE Conclude(s)
    BY <2>0, <2>9 DEF Conclude, Land, Continue, Become
  <2>10. CASE Abort(s)
    <3>1. EditsSurvive'
      BY <2>10 DEF Abort
    <3> QED
      BY <2>0, <2>10, <3>1 DEF Abort, Continue, Become
  <2> QED
    BY <1>4, <2>1, <2>2, <2>3, <2>4, <2>5, <2>6, <2>7, <2>8, <2>9, <2>10 DEF Session
<1>5. CASE UNCHANGED StoreVars
  BY <1>5 DEF StoreVars, repoVars, sessionVars, historyVars
<1> QED
  BY <1>1, <1>2, <1>3, <1>4, <1>5 DEF StoreNext

(* SurviveInv holds in every state of every behaviour of one session. *)
LEMMA Survives ==
  ASSUME SoleSession, "unmerged" \notin FailingQueries
  PROVE  StoreSpec => [](StoreTypeOK /\ MarkerInv /\ SurviveInv)
<1>1. StoreInit => HonestInv /\ CommittedEverywhere /\ MarkerInv /\ SurviveInv
  BY HonestInit
  DEF StoreInit, CommittedEverywhere, MarkerInv, SurviveInv, RestoreInv, EditsSurvive, Merging
<1>2. HonestInv => VersionsInOrder
  BY DEF HonestInv
<1>3. StoreTypeOK /\ CommittedEverywhere /\ [StoreNext]_StoreVars => CommittedEverywhere'
  BY CommittedStep
<1> QED
  BY <1>1, <1>2, <1>3, HonestStep, MarkerStep, SurviveStep, TypeCorrect, PTL DEF StoreSpec

(* One session, whose git answers, loses no edit of the user's, however its   *)
(* updates end.                                                               *)
THEOREM SoloEditsSurvive ==
  ASSUME SoleSession, "unmerged" \notin FailingQueries
  PROVE  StoreSpec => []EditsSurvive
BY Survives, PTL DEF SurviveInv

(* Undoing an update puts back what the user left alone since the merge.      *)
THEOREM SoloAbortRestores ==
  ASSUME SoleSession, "unmerged" \notin FailingQueries
  PROVE  StoreSpec => AbortRestores
<1>1. StoreTypeOK /\ MarkerInv /\ SurviveInv /\ [StoreNext]_StoreVars =>
        [ (Merging /\ incoming' = 0 /\ merged' = merged) =>
            \A f \in Files \ savedMid : work'[f] = atMerge[f] ]_StoreVars
  <2> SUFFICES ASSUME StoreTypeOK, MarkerInv, SurviveInv, StoreNext, Merging, incoming' = 0,
                      merged' = merged
               PROVE  \A f \in Files \ savedMid : work'[f] = atMerge[f]
    OBVIOUS
  <2>1. PICK s \in Sessions : Abort(s) \/ Conclude(s) \/ CommitLocal(s)
    <3>1. ~UNCHANGED incoming
      BY DEF Merging
    <3>2. \A s \in Sessions : ~MergeConflicts(s)
      BY DEF MergeConflicts, MayMerge
    <3> QED
      BY <3>1, <3>2
      DEF StoreNext, Publish, CheckForUpdates, UserSave, Session, PressUpdate, PlanUpdate,
          PressResolve, PlanResolve, PressAbort, Fetch, DiscardLocal, MergeCleanly, Add,
          Stop, repoVars
  <2>2. ~CommitLocal(s)
    BY DEF CommitLocal, MarkerInv
  <2>3. ~Conclude(s)
    BY DEF Conclude, Land, Merging, SurviveInv, RestoreInv
  <2>4. Abort(s)
    BY <2>1, <2>2, <2>3
  <2> QED
    BY <2>4 DEF Abort, SurviveInv, RestoreInv, Restored, StoreTypeOK
<1> QED
  BY <1>1, Survives, PTL DEF StoreSpec, AbortRestores
=============================================================================
