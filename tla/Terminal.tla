-------------------------------- MODULE Terminal --------------------------------
(***************************************************************************)
(* One terminal in a browser: PtySession, the pump that copies it into the *)
(* pane, and the two ways a user leaves -- the Close button of a dialog,   *)
(* and a socket that goes away.                                            *)
(*                                                                         *)
(* The pump measures the pane (a round trip to the browser), spawns the    *)
(* process on a pty, and copies its output until the queue says "end";     *)
(* then it waits for the process, which is what reaps it.  "page" is the   *)
(* terminal page's shell.  "attach" and "exec" are the docker plugin's     *)
(* dialogs; exec also has a shell inside the container, which no hangup    *)
(* reaches and a second command must kill by the pid it recorded.          *)
(*                                                                         *)
(* Everything but the processes runs on one event loop, so an action is    *)
(* what happens between two awaits.  Output is counted in chunks.          *)
(***************************************************************************)
EXTENDS Naturals, Sequences, FiniteSets

CONSTANTS
  Kinds,       \* the kinds of terminal to consider: "page", "attach", "exec"
  Drops,       \* bound: the times the socket can go away
  Button,      \* the dialog's own hangup, beside those of Drops
  MaxChunks    \* bound: how much the process says

ASSUME TerminalAssumption ==
  /\ Kinds \subseteq {"page", "attach", "exec"}
  /\ Button \notin Drops
  /\ MaxChunks \in Nat

VARIABLES
  kind,         \* which kind of terminal this is
  socket,       \* the browser: "up", "dropped" (may come back), "gone"
  handlers,     \* what client.on_disconnect was given: of "hangup", "close"
  dialog,       \* "none" on the page; "open", "closed", "deleted"
  pump,         \* the pump: "measuring", "streaming", "waiting", "done"
  master,       \* the session's end of the pty: "none", "open", "closed"
  proc,         \* the process: "none", "running", "exited", "reaped"
  queue,        \* the session's queue: "data" and "end" items
  hanger,       \* each hangup() call: "none", "called", "reaping", "done", "failed"
  reaped,       \* hangup()'s own flag
  inner,        \* exec's shell in the container: "none", "started", "recorded", "dead"
  said,         \* history: chunks the process has written
  unread,       \* those still in the pty
  shown,        \* those in the pane
  hungup,       \* history: close() was called
  closes,       \* history: how often the master was closed
  reaps         \* history: how often the reap command was run

sessionVars == <<master, queue, hungup, closes>>
outputVars  == <<said, unread, shown>>
hangupVars  == <<hanger, reaped, reaps>>
vars == <<kind, socket, handlers, dialog, pump, proc, inner,
          sessionVars, outputVars, hangupVars>>

Hangers == Drops \union {Button}

Init ==
  /\ kind \in Kinds
  /\ socket = "up"
  /\ handlers = IF kind = "page" THEN {} ELSE {"hangup"}
  /\ dialog = IF kind = "page" THEN "none" ELSE "open"
  /\ pump = "measuring"
  /\ master = "none" /\ proc = "none" /\ inner = "none"
  /\ queue = <<>>
  /\ hanger = [h \in Hangers |-> "none"] /\ reaped = FALSE
  /\ said = 0 /\ unread = 0 /\ shown = 0
  /\ hungup = FALSE /\ closes = 0 /\ reaps = 0

-----------------------------------------------------------------------------
(* PtySession *)

\* _detach(): safe to call twice.
Detach ==
  /\ master' = IF master = "open" THEN "closed" ELSE master
  /\ closes' = closes + IF master = "open" THEN 1 ELSE 0

\* Mutant of Close: the pump is not woken.
Bug_CloseSilently ==
  /\ Detach
  /\ hungup' = TRUE
  /\ UNCHANGED queue

\* close(): a hangup, and an "end" for whoever iterates output().
Close ==
  /\ Detach
  /\ queue' = Append(queue, "end")
  /\ hungup' = TRUE

\* _readable(), data: called by the loop while the master is registered with it.
ReadData ==
  /\ master = "open" /\ unread > 0
  /\ unread' = unread - 1
  /\ queue' = Append(queue, "data")
  /\ UNCHANGED <<kind, socket, handlers, dialog, pump, proc, inner, master, hungup,
                 closes, said, shown, hangupVars>>

\* Mutant of ReadEnd: the exit is noticed before what was said is read.
Bug_EndAtExit ==
  /\ master = "open" /\ proc # "running"
  /\ Detach
  /\ queue' = Append(queue, "end")
  /\ UNCHANGED <<kind, socket, handlers, dialog, pump, proc, inner, hungup,
                 outputVars, hangupVars>>

\* _readable(), EIO: the other end has gone away, and all it said has been read.
ReadEnd ==
  /\ master = "open" /\ unread = 0 /\ proc # "running"
  /\ Detach
  /\ queue' = Append(queue, "end")
  /\ UNCHANGED <<kind, socket, handlers, dialog, pump, proc, inner, hungup,
                 outputVars, hangupVars>>

-----------------------------------------------------------------------------
(* terminal.pump() *)

\* The browser has said how big the pane is, or the question timed out; start()
\* spawns the process, and only then is close() registered.  No await between.
Start ==
  /\ pump = "measuring"
  /\ master' = "open"
  /\ proc' = "running"
  /\ handlers' = handlers \union {"close"}
  /\ pump' = "streaming"
  /\ UNCHANGED <<kind, socket, dialog, inner, queue, hungup, closes, outputVars, hangupVars>>

\* No such executable.
StartFails ==
  /\ pump = "measuring"
  /\ pump' = "done"
  /\ UNCHANGED <<kind, socket, handlers, dialog, proc, inner,
                 sessionVars, outputVars, hangupVars>>

\* Mutant of Show: the item that ends the stream is written to the pane as well.
Bug_ShowEnd ==
  /\ pump = "streaming" /\ queue # <<>>
  /\ queue' = Tail(queue)
  /\ shown' = shown + 1
  /\ pump' = IF Head(queue) = "data" THEN pump ELSE "waiting"
  /\ UNCHANGED <<kind, socket, handlers, dialog, proc, inner, master, hungup, closes,
                 said, unread, hangupVars>>

\* output() and the loop over it: data goes to the pane, the end to wait().
Show ==
  /\ pump = "streaming" /\ queue # <<>>
  /\ queue' = Tail(queue)
  /\ IF Head(queue) = "data" THEN shown' = shown + 1 /\ UNCHANGED pump
                             ELSE pump' = "waiting" /\ UNCHANGED shown
  /\ UNCHANGED <<kind, socket, handlers, dialog, proc, inner, master, hungup, closes,
                 said, unread, hangupVars>>

\* wait(): a thread blocks until the process exits, and reaps it.
Wait ==
  /\ pump = "waiting" /\ proc = "exited"
  /\ proc' = "reaped"
  /\ pump' = "done"
  /\ UNCHANGED <<kind, socket, handlers, dialog, inner, sessionVars, outputVars, hangupVars>>

-----------------------------------------------------------------------------
(* The process, and the shell docker starts for it in the container. *)

Say ==
  /\ proc = "running" /\ master = "open" /\ said < MaxChunks
  /\ said' = said + 1 /\ unread' = unread + 1
  /\ UNCHANGED <<kind, socket, handlers, dialog, pump, proc, inner, sessionVars, shown, hangupVars>>

\* Because it is told to, because it is done, or because its terminal hung up.
Exit ==
  /\ proc = "running"
  /\ proc' = "exited"
  /\ UNCHANGED <<kind, socket, handlers, dialog, pump, inner, sessionVars, outputVars, hangupVars>>

\* A SIGHUP is not survived.
ExitHungUp == master = "closed" /\ Exit

InnerStarts ==
  /\ kind = "exec" /\ proc = "running" /\ inner = "none"
  /\ inner' = "started"
  /\ UNCHANGED <<kind, socket, handlers, dialog, pump, proc, sessionVars, outputVars, hangupVars>>

\* _RECORD_PID, where the container lets it write.
InnerRecords ==
  /\ inner = "started"
  /\ inner' = "recorded"
  /\ UNCHANGED <<kind, socket, handlers, dialog, pump, proc, sessionVars, outputVars, hangupVars>>

InnerExits ==
  /\ inner \in {"started", "recorded"}
  /\ inner' = "dead"
  /\ UNCHANGED <<kind, socket, handlers, dialog, pump, proc, sessionVars, outputVars, hangupVars>>

-----------------------------------------------------------------------------
(* Leaving. *)

\* Mutant of Drop: the dialog hangs up only on its own session.
Bug_DropOnlyCloses(d) ==
  /\ socket = "up" /\ hanger[d] = "none"
  /\ socket' = "dropped"
  /\ IF handlers # {} THEN Close ELSE UNCHANGED sessionVars
  /\ UNCHANGED <<kind, handlers, dialog, pump, proc, inner, outputVars, hangupVars>>

\* The socket goes away: the handlers registered by now are called.  close() runs at
\* once; hangup() is a coroutine, and runs when the loop gets to it.
Drop(d) ==
  /\ socket = "up" /\ hanger[d] = "none"
  /\ socket' = "dropped"
  /\ hanger' = [hanger EXCEPT ![d] = IF "hangup" \in handlers THEN "called" ELSE "done"]
  /\ IF "close" \in handlers THEN Close ELSE UNCHANGED sessionVars
  /\ UNCHANGED <<kind, handlers, dialog, pump, proc, inner, outputVars, reaped, reaps>>

Reconnect ==
  /\ socket = "dropped"
  /\ socket' = "up"
  /\ UNCHANGED <<kind, handlers, dialog, pump, proc, inner, sessionVars, outputVars, hangupVars>>

GiveUp ==
  /\ socket = "dropped"
  /\ socket' = "gone"
  /\ UNCHANGED <<kind, handlers, dialog, pump, proc, inner, sessionVars, outputVars, hangupVars>>

\* The dialog's Close button: `await dialog' returns, and hangup() is awaited.
CloseDialog ==
  /\ dialog = "open" /\ socket = "up"
  /\ dialog' = "closed"
  /\ hanger' = [hanger EXCEPT ![Button] = "called"]
  /\ UNCHANGED <<kind, socket, handlers, pump, proc, inner, sessionVars, outputVars, reaped, reaps>>

\* Mutant of Hangup: the flag is set after the reap, not before.
Bug_FlagAfterReap(h) ==
  /\ hanger[h] = "called"
  /\ Close
  /\ hanger' = [hanger EXCEPT ![h] = IF kind # "exec" \/ reaps > 0 THEN "done" ELSE "reaping"]
  /\ UNCHANGED <<kind, socket, handlers, dialog, pump, proc, inner, outputVars, reaped, reaps>>

\* hangup(), up to its await: the flag is taken before the reap is run.
Hangup(h) ==
  /\ hanger[h] = "called"
  /\ Close
  /\ IF kind # "exec" \/ reaped
     THEN hanger' = [hanger EXCEPT ![h] = "done"] /\ UNCHANGED reaped
     ELSE hanger' = [hanger EXCEPT ![h] = "reaping"] /\ reaped' = TRUE
  /\ UNCHANGED <<kind, socket, handlers, dialog, pump, proc, inner, outputVars, reaps>>

\* _HANGUP in the container: it kills the pid that is recorded, if one is.
Reap(h) ==
  /\ hanger[h] = "reaping"
  /\ hanger' = [hanger EXCEPT ![h] = "done"]
  /\ reaps' = reaps + 1
  /\ inner' = IF inner = "recorded" THEN "dead" ELSE inner
  /\ UNCHANGED <<kind, socket, handlers, dialog, pump, proc, sessionVars, outputVars, reaped>>

\* docker did not answer: run() raises, and whoever awaited hangup() stops there.
ReapFails(h) ==
  /\ hanger[h] = "reaping"
  /\ hanger' = [hanger EXCEPT ![h] = "failed"]
  /\ reaps' = reaps + 1
  /\ UNCHANGED <<kind, socket, handlers, dialog, pump, proc, inner, sessionVars, outputVars, reaped>>

\* After hangup() the dialog's task awaits the pump, and deletes the dialog.
DeleteDialog ==
  /\ dialog = "closed" /\ hanger[Button] = "done" /\ pump = "done"
  /\ dialog' = "deleted"
  /\ UNCHANGED <<kind, socket, handlers, pump, proc, inner, sessionVars, outputVars, hangupVars>>

-----------------------------------------------------------------------------
Loop == ReadData \/ ReadEnd \/ Start \/ StartFails \/ Show \/ Wait \/ DeleteDialog
Processes == Say \/ Exit \/ InnerStarts \/ InnerRecords \/ InnerExits
Leaving == Reconnect \/ GiveUp \/ CloseDialog \/ \E d \in Drops : Drop(d)
HangingUp(h) == Hangup(h) \/ Reap(h) \/ ReapFails(h)

Next == Loop \/ Processes \/ Leaving \/ \E h \in Hangers : HangingUp(h)

\* The event loop and its threads keep running, a docker command ends or times out,
\* and a process whose terminal is hung up ends.  Nothing makes a process that still
\* has its terminal end, a socket come or go, or a user press a button.
Fairness ==
  /\ WF_vars(ReadData \/ ReadEnd)
  /\ WF_vars(Start \/ StartFails)
  /\ WF_vars(Show)
  /\ WF_vars(Wait)
  /\ WF_vars(DeleteDialog)
  /\ WF_vars(ExitHungUp)
  /\ \A h \in Hangers : WF_vars(HangingUp(h))

Spec == Init /\ [][Next]_vars /\ Fairness

-----------------------------------------------------------------------------
(* Properties. *)

\* Every variable keeps its type; in particular the queue holds nothing but chunks
\* that were said and one "end" for each time the stream was ended.
TypeOK ==
  /\ kind \in Kinds
  /\ socket \in {"up", "dropped", "gone"}
  /\ handlers \subseteq {"hangup", "close"}
  /\ dialog \in {"none", "open", "closed", "deleted"}
  /\ pump \in {"measuring", "streaming", "waiting", "done"}
  /\ master \in {"none", "open", "closed"}
  /\ proc \in {"none", "running", "exited", "reaped"}
  /\ queue \in Seq({"data", "end"})
  /\ hanger \in [Hangers -> {"none", "called", "reaping", "done", "failed"}]
  /\ reaped \in BOOLEAN
  /\ inner \in {"none", "started", "recorded", "dead"}
  /\ said \in 0..MaxChunks /\ unread \in 0..said /\ shown \in 0..said
  /\ hungup \in BOOLEAN
  /\ closes \in Nat /\ reaps \in Nat

\* A session nobody hung up on shows all the process said before it says how the
\* process ended: the exit does not overtake the output.
CompleteTranscript ==
  (pump \in {"waiting", "done"} /\ ~hungup) => shown = said

\* The master is closed once, although the reader, the Close button and every
\* disconnect may each try: a second close would hit whatever file has that number
\* by then.
MasterClosedOnce == closes <= 1

\* The reap runs once, although the dialog and the socket may both end the session
\* and hangup() awaits in between.
ReapedOnce == reaps + Cardinality({h \in Hangers : hanger[h] = "reaping"}) <= 1

\* A session that was open and is closed -- by the process, the button or the socket
\* -- does not linger: its pump ends and its process is reaped.
ClosedSessionEnds == (master = "closed") ~> (pump = "done" /\ proc = "reaped")

Left == socket = "gone" \/ dialog = "closed"
Unanswered == \E h \in Hangers : hanger[h] = "failed"

\* A container shell whose pid is recorded before the one reap has run is killed, in
\* whichever of the ways the user leaves and however many of them meet, unless docker
\* does not answer.
RecordedInTimeDies ==
  (Left /\ inner = "recorded" /\ reaps = 0) ~> (inner = "dead" \/ Unanswered)

\* "A tiny supervisor that records its pid inside the container, and kills it when you
\* close the dialog or the tab" (docs/docker.md): a shell that has recorded its pid when
\* the Close button's hangup() is about to run is killed, also one that was not there yet
\* when an earlier drop reaped.
RecordedShellDies ==
  (hanger[Button] = "called" /\ inner = "recorded") ~> (inner = "dead" \/ Unanswered)

\* A closed tab does not leak a shell: once the browser is gone for good, no process
\* of its terminal goes on.
GoneMeansNoProcess == (socket = "gone") ~> (proc \in {"none", "reaped"})
=============================================================================
