---------------------------- MODULE Terminal_proofs ----------------------------
(***************************************************************************)
(* Theorems about Terminal's safety, for any kinds of terminal, however    *)
(* often the socket drops and however much the process says.               *)
(***************************************************************************)
EXTENDS Terminal, FiniteSetTheorems, TLAPS

(* The parts of the inductive invariant. *)

\* TypeOK, but for what bounds unread and shown by said: that rests on the queue.
Typed ==
  /\ kind \in Kinds
  /\ socket \in {"up", "dropped", "gone"}
  /\ handlers \subseteq {"hangup", "close"}
  /\ dialog \in {"none", "open", "closed", "deleted"}
  /\ pump \in {"measuring", "streaming", "waiting", "done"}
  /\ master \in {"none", "open", "closed"}
  /\ proc \in {"none", "running", "exited", "reaped"}
  /\ queue \in Seq({"data", "end"})
  /\ hanger \in [Hangers -> {"none", "called", "reaping", "done", "failed"}]
  /\ reaped \in BOOLEAN
  /\ inner \in {"none", "started", "recorded", "dead"}
  /\ said \in 0..MaxChunks /\ unread \in Nat /\ shown \in Nat
  /\ hungup \in BOOLEAN
  /\ closes \in Nat /\ reaps \in Nat

\* Nothing is open before the process is up, and one close is counted per closing.
Opened ==
  /\ pump = "measuring" => master = "none"
  /\ closes = IF master = "closed" THEN 1 ELSE 0

\* The data that the pump will still show, up to the queue's first "end", was said.
Fits ==
  /\ shown + unread <= said
  /\ pump \in {"measuring", "streaming"} =>
       \A n \in 0..Len(queue) :
         (\A i \in 1..n : queue[i] = "data") => shown + unread + n <= said

\* In a session nobody hung up on, what was said is shown, queued or unread, and the
\* one "end" is the last item of the queue.
Accounted ==
  ~hungup =>
    /\ master = "none" => queue = <<>> /\ said = 0 /\ pump \in {"measuring", "done"}
    /\ master = "open" => /\ pump = "streaming"
                          /\ \A i \in 1..Len(queue) : queue[i] = "data"
                          /\ shown + unread + Len(queue) = said
    /\ master = "closed" /\ pump = "streaming" =>
         /\ queue # <<>>
         /\ \A i \in 1..Len(queue) : queue[i] = "end" <=> i = Len(queue)
         /\ shown + Len(queue) = said + 1
    /\ pump \in {"waiting", "done"} => shown = said

\* The flag is taken by the first hangup(), and only that one ever reaps.
OneReaper ==
  /\ ~reaped => reaps = 0 /\ \A h \in Hangers : hanger[h] # "reaping"
  /\ \A g, h \in Hangers : hanger[g] = "reaping" /\ hanger[h] = "reaping" => g = h
  /\ reaps <= 1
  /\ (\E h \in Hangers : hanger[h] = "reaping") => reaps = 0

Inv == Typed /\ Opened /\ Fits /\ Accounted /\ OneReaper

-----------------------------------------------------------------------------
(* What an action leaves of the queue. *)

(* One item more, at the end. *)
LEMMA Appended ==
  ASSUME NEW q \in Seq({"data", "end"}), NEW x \in {"data", "end"}
  PROVE  /\ Append(q, x) \in Seq({"data", "end"})
         /\ Append(q, x) # <<>>
         /\ Len(q) \in Nat /\ Len(Append(q, x)) = Len(q) + 1
         /\ Append(q, x)[Len(q) + 1] = x
         /\ \A i \in 1..Len(q) : Append(q, x)[i] = q[i]
OBVIOUS

(* One item less, at the front. *)
LEMMA Dequeued ==
  ASSUME NEW q \in Seq({"data", "end"}), q # <<>>
  PROVE  /\ Tail(q) \in Seq({"data", "end"})
         /\ Head(q) = q[1]
         /\ Len(q) \in Nat \ {0} /\ Len(Tail(q)) = Len(q) - 1
         /\ \A i \in 1..Len(q) - 1 : Tail(q)[i] = q[i + 1]
         /\ q[1] \in {"data", "end"}
OBVIOUS

(* close(): what every way of leaving has in common. *)
LEMMA CloseStep ==
  ASSUME Inv, Close, UNCHANGED <<pump, outputVars>>
  PROVE  Opened' /\ Fits' /\ Accounted' /\ master' \in {"none", "closed"}
         /\ queue' \in Seq({"data", "end"}) /\ hungup' \in BOOLEAN /\ closes' \in Nat
<1> USE DEF Inv, Typed, Close, Detach, outputVars
<1>1. queue \in Seq({"data", "end"}) /\ queue' = Append(queue, "end")
  OBVIOUS
<1>2. Opened'
  BY DEF Opened
<1>3. Fits'
  <2>1. ASSUME pump' \in {"measuring", "streaming"},
               NEW n \in 0..Len(queue'), \A i \in 1..n : queue'[i] = "data"
        PROVE  shown' + unread' + n <= said'
    <3>1. n \in 0..Len(queue)
      BY <1>1, <2>1, Appended
    <3>2. \A i \in 1..n : queue[i] = "data"
      BY <1>1, <2>1, <3>1, Appended
    <3> QED
      BY <2>1, <3>1, <3>2 DEF Fits
  <2> QED
    BY <2>1 DEF Fits
<1>4. Accounted'
  BY DEF Accounted
<1> QED
  BY <1>1, <1>2, <1>3, <1>4, Appended

-----------------------------------------------------------------------------
(* The invariant is inductive. *)

\* The invariant holds before the process is started.
LEMMA InitInv == Init => Inv
<1> SUFFICES ASSUME Init PROVE Inv
  OBVIOUS
<1> USE TerminalAssumption DEF Init
<1>1. Typed
  <2>1. hanger \in [Hangers -> {"none", "called", "reaping", "done", "failed"}]
    OBVIOUS
  <2>2. handlers \subseteq {"hangup", "close"} /\ dialog \in {"none", "open", "closed", "deleted"}
    OBVIOUS
  <2>3. queue \in Seq({"data", "end"})
    OBVIOUS
  <2>4. said \in 0..MaxChunks /\ unread \in Nat /\ shown \in Nat
    OBVIOUS
  <2>5. reaped \in BOOLEAN /\ hungup \in BOOLEAN /\ closes \in Nat /\ reaps \in Nat
    OBVIOUS
  <2>6. kind \in Kinds /\ socket \in {"up", "dropped", "gone"}
    OBVIOUS
  <2>7. /\ pump \in {"measuring", "streaming", "waiting", "done"}
        /\ master \in {"none", "open", "closed"}
        /\ proc \in {"none", "running", "exited", "reaped"}
        /\ inner \in {"none", "started", "recorded", "dead"}
    OBVIOUS
  <2> QED
    BY <2>1, <2>2, <2>3, <2>4, <2>5, <2>6, <2>7 DEF Typed
<1>2. Opened /\ Fits /\ Accounted /\ OneReaper
  BY DEF Opened, Fits, Accounted, OneReaper
<1> QED
  BY <1>1, <1>2 DEF Inv

\* Every step of the pump, the session, the process and the browser keeps it.
LEMMA InvStep == Inv /\ [Next]_vars => Inv'
<1> SUFFICES ASSUME Inv, [Next]_vars PROVE Inv'
  OBVIOUS
<1> USE TerminalAssumption DEF Inv
<1>1. CASE ReadData
  <2> USE <1>1 DEF ReadData, hangupVars
  <2>1. queue \in Seq({"data", "end"}) /\ queue' = Append(queue, "data")
    BY DEF Typed
  <2>2. Typed' /\ Opened' /\ OneReaper'
    BY <2>1, Appended DEF Typed, Opened, OneReaper
  <2>3. Fits'
    <3>1. ASSUME pump' \in {"measuring", "streaming"},
                 NEW n \in 0..Len(queue'), \A i \in 1..n : queue'[i] = "data"
          PROVE  shown' + unread' + n <= said'
      <4>1. CASE n = Len(queue) + 1
        <5>1. \A i \in 1..Len(queue) : queue[i] = "data"
          BY <2>1, <3>1, <4>1, Appended
        <5>2. shown + unread + Len(queue) <= said
          BY <2>1, <3>1, <5>1, Appended DEF Fits
        <5> QED
          BY <2>1, <4>1, <5>2, Appended DEF Typed
      <4>2. CASE n \in 0..Len(queue)
        <5>1. \A i \in 1..n : queue[i] = "data"
          BY <2>1, <3>1, <4>2, Appended
        <5> QED
          BY <2>1, <3>1, <4>2, <5>1, Appended DEF Fits, Typed
      <4> QED
        BY <2>1, <3>1, <4>1, <4>2, Appended
    <3> QED
      BY <3>1 DEF Fits, Typed
  <2>4. Accounted'
    <3>1. CASE ~hungup
      <4>1. \A i \in 1..Len(queue') : queue'[i] = "data"
        BY <2>1, <3>1, Appended DEF Accounted
      <4>2. shown' + unread' + Len(queue') = said' /\ pump' = "streaming"
        <5>1. pump = "streaming" /\ shown + unread + Len(queue) = said
          BY <3>1 DEF Accounted
        <5>2. Len(queue) \in Nat /\ Len(queue') = Len(queue) + 1
          BY <2>1, Appended
        <5> QED
          BY <5>1, <5>2 DEF Typed
      <4> QED
        BY <4>1, <4>2 DEF Accounted
    <3> QED
      BY <3>1 DEF Accounted
  <2> QED
    BY <2>2, <2>3, <2>4
<1>2. CASE ReadEnd
  <2> USE <1>2 DEF ReadEnd, Detach, outputVars, hangupVars
  <2>1. queue \in Seq({"data", "end"}) /\ queue' = Append(queue, "end")
    BY DEF Typed
  <2>2. Typed' /\ Opened' /\ OneReaper'
    BY <2>1, Appended DEF Typed, Opened, OneReaper
  <2>3. Fits'
    <3>1. ASSUME pump' \in {"measuring", "streaming"},
                 NEW n \in 0..Len(queue'), \A i \in 1..n : queue'[i] = "data"
          PROVE  n \in 0..Len(queue) /\ \A i \in 1..n : queue[i] = "data"
      BY <2>1, <3>1, Appended
    <3> QED
      BY <3>1 DEF Fits
  <2>4. Accounted'
    <3>1. CASE ~hungup
      <4>1. \A i \in 1..Len(queue) : queue[i] = "data"
        BY <3>1 DEF Accounted
      <4>2. \A i \in 1..Len(queue') : queue'[i] = "end" <=> i = Len(queue')
        BY <2>1, <4>1, Appended
      <4>3. shown' + Len(queue') = said' + 1 /\ queue' # <<>>
        BY <2>1, <3>1, Appended DEF Accounted, Typed
      <4>4. master' = "closed" /\ pump' = "streaming"
        BY <3>1 DEF Accounted
      <4> QED
        BY <4>2, <4>3, <4>4 DEF Accounted
    <3> QED
      BY <3>1 DEF Accounted
  <2> QED
    BY <2>2, <2>3, <2>4
<1>3. CASE Start
  <2> USE <1>3 DEF Start, outputVars, hangupVars
  <2>1. Typed' /\ Opened' /\ Fits' /\ OneReaper'
    BY DEF Typed, Opened, Fits, OneReaper
  <2>2. Accounted'
    BY DEF Accounted, Typed, Opened, Fits
  <2> QED
    BY <2>1, <2>2
<1>4. CASE StartFails
  BY <1>4 DEF StartFails, sessionVars, outputVars, hangupVars, Typed, Opened, Fits,
              Accounted, OneReaper
<1>5. CASE Show
  <2> USE <1>5 DEF Show, hangupVars
  <2>1. queue \in Seq({"data", "end"}) /\ queue # <<>> /\ queue' = Tail(queue)
    BY DEF Typed
  <2>2. Opened' /\ OneReaper'
    BY DEF Opened, OneReaper
  <2>3. CASE queue[1] = "data"
    <3>1. shown' = shown + 1 /\ pump' = "streaming"
      BY <2>1, <2>3, Dequeued
    <3>2. Typed'
      BY <2>1, <3>1, Dequeued DEF Typed
    <3>3. Fits'
      <4>1. ASSUME NEW n \in 0..Len(queue'), \A i \in 1..n : queue'[i] = "data"
            PROVE  shown' + unread' + n <= said'
        <5>1. n + 1 \in 0..Len(queue)
          BY <2>1, <4>1, Dequeued
        <5>2. \A i \in 1..(n + 1) : queue[i] = "data"
          <6>1. ASSUME NEW i \in 1..(n + 1), i # 1 PROVE queue[i] = "data"
            <7>1. i - 1 \in 1..n /\ i - 1 \in 1..Len(queue) - 1 /\ (i - 1) + 1 = i
              BY <2>1, <4>1, <5>1, <6>1, Dequeued
            <7>2. Tail(queue)[i - 1] = queue[(i - 1) + 1]
              BY <2>1, <7>1, Dequeued
            <7> QED
              BY <2>1, <4>1, <7>1, <7>2
          <6> QED
            BY <2>3, <6>1
        <5>3. shown + unread + (n + 1) <= said
          BY <5>1, <5>2 DEF Fits
        <5> QED
          BY <3>1, <4>1, <5>3 DEF Typed
      <4>2. 0 \in 0..Len(queue') /\ \A i \in 1..0 : queue'[i] = "data"
        BY <2>1, Dequeued
      <4> QED
        BY <3>1, <4>1, <4>2, <3>2 DEF Fits, Typed
    <3>4. Accounted'
      BY <2>1, <2>3, <3>1, Dequeued DEF Accounted, Typed
    <3> QED
      BY <2>2, <3>2, <3>3, <3>4
  <2>4. CASE queue[1] = "end"
    <3>1. shown' = shown /\ pump' = "waiting"
      BY <2>1, <2>4, Dequeued
    <3>2. Typed' /\ Fits'
      BY <2>1, <3>1, Dequeued DEF Typed, Fits
    <3>3. Accounted'
      BY <2>1, <2>4, <3>1, Dequeued DEF Accounted, Typed
    <3> QED
      BY <2>2, <3>2, <3>3
  <2> QED
    BY <2>1, <2>3, <2>4, Dequeued
<1>6. CASE Wait
  BY <1>6 DEF Wait, sessionVars, outputVars, hangupVars, Typed, Opened, Fits,
              Accounted, OneReaper
<1>7. CASE DeleteDialog
  BY <1>7 DEF DeleteDialog, sessionVars, outputVars, hangupVars, Typed, Opened, Fits,
              Accounted, OneReaper
<1>8. CASE Say
  <2> USE <1>8 DEF Say, sessionVars, hangupVars
  <2>1. Typed' /\ Opened' /\ OneReaper'
    BY DEF Typed, Opened, OneReaper
  <2>2. Fits'
    BY DEF Fits, Typed
  <2>3. Accounted'
    BY DEF Accounted, Typed
  <2> QED
    BY <2>1, <2>2, <2>3
<1>9. CASE Exit \/ InnerStarts \/ InnerRecords \/ InnerExits
  <2> USE <1>9 DEF Exit, InnerStarts, InnerRecords, InnerExits, sessionVars, outputVars,
                   hangupVars
  <2>1. Typed'
    <3>1. proc' \in {"none", "running", "exited", "reaped"}
          /\ inner' \in {"none", "started", "recorded", "dead"}
      BY DEF Typed
    <3>2. UNCHANGED <<kind, socket, handlers, dialog, pump, sessionVars, outputVars, hangupVars>>
      OBVIOUS
    <3> QED
      BY <3>1, <3>2 DEF Typed
  <2>2. Opened' /\ Fits' /\ Accounted' /\ OneReaper'
    BY DEF Opened, Fits, Accounted, OneReaper
  <2> QED
    BY <2>1, <2>2
<1>10. CASE Reconnect \/ GiveUp
  <2> USE <1>10 DEF Reconnect, GiveUp, sessionVars, outputVars, hangupVars
  <2>1. Typed'
    <3>1. socket' \in {"up", "dropped", "gone"}
      OBVIOUS
    <3>2. UNCHANGED <<kind, handlers, dialog, pump, proc, inner, sessionVars, outputVars, hangupVars>>
      OBVIOUS
    <3> QED
      BY <3>1, <3>2 DEF Typed
  <2>2. Opened' /\ Fits' /\ Accounted' /\ OneReaper'
    BY DEF Opened, Fits, Accounted, OneReaper
  <2> QED
    BY <2>1, <2>2
<1>11. CASE CloseDialog
  <2> USE <1>11 DEF CloseDialog, sessionVars, outputVars
  <2>1. Typed' /\ Opened' /\ Fits' /\ Accounted'
    BY DEF Typed, Opened, Fits, Accounted, Hangers
  <2>2. OneReaper'
    BY DEF OneReaper, Typed, Hangers
  <2> QED
    BY <2>1, <2>2
<1>12. ASSUME NEW d \in Drops, Drop(d) PROVE Inv'
  <2> USE <1>12 DEF Drop
  <2>1. OneReaper'
    BY DEF OneReaper, Typed, Hangers
  <2>2. CASE "close" \in handlers
    <3>1. Opened' /\ Fits' /\ Accounted' /\ master' \in {"none", "closed"}
          /\ queue' \in Seq({"data", "end"}) /\ hungup' \in BOOLEAN /\ closes' \in Nat
      BY <2>2, CloseStep
    <3>2. Typed'
      BY <3>1 DEF Typed, outputVars
    <3> QED
      BY <2>1, <3>1, <3>2
  <2>3. CASE "close" \notin handlers
    BY <2>1, <2>3 DEF sessionVars, outputVars, Typed, Opened, Fits, Accounted, Hangers
  <2> QED
    BY <2>2, <2>3
<1>13. ASSUME NEW h \in Hangers, Hangup(h) PROVE Inv'
  <2> USE <1>13 DEF Hangup
  <2>1. Opened' /\ Fits' /\ Accounted' /\ master' \in {"none", "closed"}
        /\ queue' \in Seq({"data", "end"}) /\ hungup' \in BOOLEAN /\ closes' \in Nat
    BY CloseStep
  <2>2. Typed'
    BY <2>1 DEF Typed, outputVars
  <2>3. OneReaper'
    BY DEF OneReaper, Typed
  <2> QED
    BY <2>1, <2>2, <2>3
<1>14. ASSUME NEW h \in Hangers, Reap(h) \/ ReapFails(h) PROVE Inv'
  <2> USE <1>14 DEF Reap, ReapFails, sessionVars, outputVars
  <2>1. Typed'
    <3>1. hanger' \in [Hangers -> {"none", "called", "reaping", "done", "failed"}]
      BY DEF Typed
    <3>2. reaps' \in Nat /\ inner' \in {"none", "started", "recorded", "dead"}
      BY DEF Typed
    <3>3. UNCHANGED <<kind, socket, handlers, dialog, pump, proc, sessionVars, outputVars, reaped>>
      OBVIOUS
    <3> QED
      BY <3>1, <3>2, <3>3 DEF Typed
  <2>2. Opened' /\ Fits' /\ Accounted'
    BY DEF Opened, Fits, Accounted
  <2>3. OneReaper'
    BY DEF OneReaper, Typed
  <2> QED
    BY <2>1, <2>2, <2>3
<1>15. CASE UNCHANGED vars
  BY <1>15 DEF vars, sessionVars, outputVars, hangupVars, Typed, Opened, Fits, Accounted,
               OneReaper
<1> QED
  BY <1>1, <1>2, <1>3, <1>4, <1>5, <1>6, <1>7, <1>8, <1>9, <1>10, <1>11, <1>12, <1>13,
     <1>14, <1>15
  DEF Next, Loop, Processes, Leaving, HangingUp

\* The inductive invariant holds throughout.
LEMMA Invariance == Spec => []Inv
BY InitInv, InvStep, PTL DEF Spec

-----------------------------------------------------------------------------
(* The theorems. *)

(* The type invariant of PtySession, the pump and the dialog: in particular the pane *)
(* never shows more than the process said. *)
THEOREM TypeCorrect == Spec => []TypeOK
<1>1. Inv => TypeOK
  BY TerminalAssumption DEF Inv, Typed, Fits, TypeOK
<1> QED
  BY <1>1, Invariance, PTL

(* output(): a session nobody hung up on shows all its process said before it says how *)
(* the process ended. *)
THEOREM TranscriptIsComplete == Spec => []CompleteTranscript
<1>1. Inv => CompleteTranscript
  BY DEF Inv, Accounted, CompleteTranscript
<1> QED
  BY <1>1, Invariance, PTL

(* _detach(): the master is closed at most once, whoever ends the session. *)
THEOREM ClosedOnce == Spec => []MasterClosedOnce
<1>1. Inv => MasterClosedOnce
  BY DEF Inv, Opened, MasterClosedOnce
<1> QED
  BY <1>1, Invariance, PTL

(* hangup(): the reap is run at most once, however many ways the session is left. *)
THEOREM OnlyOneReap == Spec => []ReapedOnce
<1>1. ASSUME Inv PROVE ReapedOnce
  <2> DEFINE Reaping == {h \in Hangers : hanger[h] = "reaping"}
  <2>1. CASE Reaping = {}
    <3>1. Cardinality(Reaping) = 0
      BY <2>1, FS_EmptySet
    <3>2. reaps \in {0, 1}
      BY <1>1 DEF Inv, Typed, OneReaper
    <3> QED
      BY <3>1, <3>2 DEF ReapedOnce
  <2>2. CASE Reaping # {}
    <3>1. PICK h \in Hangers : hanger[h] = "reaping"
      BY <2>2
    <3>2. Reaping = {h} /\ reaps = 0
      BY <1>1, <3>1 DEF Inv, OneReaper
    <3>3. Cardinality(Reaping) = 1
      BY <3>2, FS_Singleton
    <3> QED
      BY <3>2, <3>3 DEF ReapedOnce
  <2> QED
    BY <2>1, <2>2
<1> QED
  BY <1>1, Invariance, PTL
=============================================================================
