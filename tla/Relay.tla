---------------------------------- MODULE Relay ----------------------------------
(***************************************************************************)
(* One WebSocket through the plugin proxy, proxy._ws(): look the target    *)
(* up, dial it, accept the browser, and let two tasks copy messages until  *)
(* the first of them ends; then the other is cancelled and both ends are   *)
(* closed.                                                                 *)
(*                                                                         *)
(* A message is the number of its turn at the end that said it.  The two   *)
(* incoming queues are what each library has received and not yet handed   *)
(* over; Bye is the close that ends a queue.                               *)
(***************************************************************************)
EXTENDS Naturals, Sequences

CONSTANTS MaxSaid   \* bound: what each end says

ASSUME RelayAssumption == MaxSaid \in Nat

Ways == {"up", "down"}   \* browser to container, container to browser
Back(w) == IF w = "up" THEN "down" ELSE "up"
Bye == 0

VARIABLES
  session,    \* _ws(): "lookup", "dialing", "relaying", "ending", "closing", "closed"
  said,       \* history: how much the sender of each way has said
  left,       \* per way: its sender has closed the connection itself
  inbox,      \* per way: received from the sender, not yet read by the pump
  pump,       \* per way: "idle", "reading", "sending", "done"
  held,       \* per way: the message the pump is sending, as a sequence
  heard,      \* per way: what the receiver has been given
  open        \* per way: our connection to its sender is open

RelayVars == <<session, said, left, inbox, pump, held, heard, open>>

RelayInit ==
  /\ session = "lookup"
  /\ said = [w \in Ways |-> 0]
  /\ left = [w \in Ways |-> FALSE]
  /\ inbox = [w \in Ways |-> <<>>]
  /\ pump = [w \in Ways |-> "idle"]
  /\ held = [w \in Ways |-> <<>>]
  /\ heard = [w \in Ways |-> <<>>]
  /\ open = [w \in Ways |-> w = "up"]

-----------------------------------------------------------------------------
(* The two ends *)

Says(w) ==
  /\ open[w] /\ ~left[w] /\ said[w] < MaxSaid
  /\ w = "up" => session \notin {"lookup", "dialing"}
  /\ said' = [said EXCEPT ![w] = @ + 1]
  /\ inbox' = [inbox EXCEPT ![w] = Append(@, said[w] + 1)]
  /\ UNCHANGED <<session, left, pump, held, heard, open>>

Leaves(w) ==
  /\ open[w] /\ ~left[w]
  /\ left' = [left EXCEPT ![w] = TRUE]
  /\ inbox' = [inbox EXCEPT ![w] = Append(@, Bye)]
  /\ UNCHANGED <<session, said, pump, held, heard, open>>

-----------------------------------------------------------------------------
(* _ws() *)

\* No such target, or no upstream: close(1011), and the browser is never accepted.
Refuse ==
  /\ session \in {"lookup", "dialing"}
  /\ session' = "closed"
  /\ open' = [w \in Ways |-> FALSE]
  /\ UNCHANGED <<said, left, inbox, pump, held, heard>>

Dial ==
  /\ session = "lookup"
  /\ session' = "dialing"
  /\ UNCHANGED <<said, left, inbox, pump, held, heard, open>>

\* The upstream answers, the browser is accepted, and the pumps start.
Accept ==
  /\ session = "dialing"
  /\ session' = "relaying"
  /\ open' = [open EXCEPT !["down"] = TRUE]
  /\ pump' = [w \in Ways |-> "reading"]
  /\ UNCHANGED <<said, left, inbox, held, heard>>

\* FIRST_COMPLETED, and the pending one is cancelled with what it was sending.
First ==
  /\ session = "relaying" /\ \E w \in Ways : pump[w] = "done"
  /\ session' = "ending"
  /\ pump' = [w \in Ways |-> "done"]
  /\ UNCHANGED <<said, left, inbox, held, heard, open>>

\* Leaving "async with upstream" closes it.
CloseUpstream ==
  /\ session = "ending"
  /\ session' = "closing"
  /\ open' = [open EXCEPT !["down"] = FALSE]
  /\ UNCHANGED <<said, left, inbox, pump, held, heard>>

\* Mutant of CloseBrowser: only a browser that is already gone is let go.
Bug_LeaveBrowserOpen ==
  /\ session = "closing"
  /\ session' = "closed"
  /\ open' = [open EXCEPT !["up"] = ~left["up"]]
  /\ UNCHANGED <<said, left, inbox, pump, held, heard>>

\* A browser still connected is closed; one that has gone needs nothing.
CloseBrowser ==
  /\ session = "closing"
  /\ session' = "closed"
  /\ open' = [open EXCEPT !["up"] = FALSE]
  /\ UNCHANGED <<said, left, inbox, pump, held, heard>>

-----------------------------------------------------------------------------
(* _pump_client_to_upstream(), _pump_upstream_to_client() *)

\* Mutant of Read: a close is passed on like a message.
Bug_PassCloseOn(w) ==
  /\ pump[w] = "reading" /\ inbox[w] # <<>>
  /\ inbox' = [inbox EXCEPT ![w] = Tail(@)]
  /\ pump' = [pump EXCEPT ![w] = "sending"]
  /\ held' = [held EXCEPT ![w] = <<Head(inbox[w])>>]
  /\ UNCHANGED <<session, said, left, heard, open>>

\* A message is taken to be sent; a close ends the pump.
Read(w) ==
  /\ pump[w] = "reading" /\ inbox[w] # <<>>
  /\ inbox' = [inbox EXCEPT ![w] = Tail(@)]
  /\ IF Head(inbox[w]) = Bye
       THEN pump' = [pump EXCEPT ![w] = "done"] /\ UNCHANGED held
       ELSE /\ pump' = [pump EXCEPT ![w] = "sending"]
            /\ held' = [held EXCEPT ![w] = <<Head(inbox[w])>>]
  /\ UNCHANGED <<session, said, left, heard, open>>

\* Mutant of Send: the message stays with the pump, to be sent again.
Bug_SendAgain(w) ==
  /\ pump[w] = "sending" /\ Len(heard[w]) <= MaxSaid
  /\ heard' = [heard EXCEPT ![w] = @ \o held[w]]
  /\ \/ pump' = [pump EXCEPT ![w] = "reading"] /\ held' = [held EXCEPT ![w] = <<>>]
     \/ UNCHANGED <<pump, held>>
  /\ UNCHANGED <<session, said, left, inbox, open>>

\* The other end is there to take it.
Send(w) ==
  /\ pump[w] = "sending" /\ ~left[Back(w)]
  /\ pump' = [pump EXCEPT ![w] = "reading"]
  /\ heard' = [heard EXCEPT ![w] = @ \o held[w]]
  /\ held' = [held EXCEPT ![w] = <<>>]
  /\ UNCHANGED <<session, said, left, inbox, open>>

\* The other end has gone: ConnectionClosed ends the pump, or, if its close has
\* not been noticed yet, the message is lost without a word.
SendLost(w) ==
  /\ pump[w] = "sending" /\ left[Back(w)]
  /\ \E next \in {"done", "reading"} : pump' = [pump EXCEPT ![w] = next]
  /\ held' = [held EXCEPT ![w] = <<>>]
  /\ UNCHANGED <<session, said, left, inbox, heard, open>>

Pump(w) == Read(w) \/ Send(w) \/ SendLost(w)
Ws == Refuse \/ Dial \/ Accept \/ First \/ CloseUpstream \/ CloseBrowser

RelayNext ==
  \/ \E w \in Ways : Says(w) \/ Leaves(w) \/ Pump(w)
  \/ Ws

\* The event loop runs every task that can go on.  A send to an end that has
\* stopped reading is finished by the keepalive, which declares it gone.
RelayFairness == WF_RelayVars(Ws) /\ \A w \in Ways : WF_RelayVars(Pump(w))

RelaySpec == RelayInit /\ [][RelayNext]_RelayVars /\ RelayFairness

-----------------------------------------------------------------------------
(* What must hold *)

Spoken(w) == [i \in 1..said[w] |-> i]

\* Type invariant.
RelayTypeOK ==
  /\ session \in {"lookup", "dialing", "relaying", "ending", "closing", "closed"}
  /\ said \in [Ways -> 0..MaxSaid] /\ left \in [Ways -> BOOLEAN]
  /\ inbox \in [Ways -> Seq(0..MaxSaid)]
  /\ pump \in [Ways -> {"idle", "reading", "sending", "done"}]
  /\ held \in [Ways -> {<<>>} \union {<<i>> : i \in 1..MaxSaid}]
  /\ heard \in [Ways -> Seq(1..MaxSaid)] /\ open \in [Ways -> BOOLEAN]

\* Nothing is duplicated, reordered or skipped: what has been heard, what the
\* pump is sending and what waits to be read are what was said, in order, and no
\* more than a close after it, until a send meets an end that has gone.
InOrder ==
  \A w \in Ways :
    /\ ~left[Back(w)] => heard[w] \o held[w] \o inbox[w]
                           \in {Spoken(w), Append(Spoken(w), Bye)}
    /\ \A i, j \in DOMAIN heard[w] : i < j => heard[w][i] < heard[w][j]

\* The last words of an end that leaves arrive, if the other end stays and all
\* that it said was taken: cancelling the slower pump then loses nothing.
LastWordsArrive ==
  \A w \in Ways :
    session = "closed" /\ pump[w] = "done" /\ left[w] /\ ~left[Back(w)]
      /\ heard[Back(w)] = Spoken(Back(w))
    => heard[w] = Spoken(w)

\* Both of them: the two pumps copy what the ends say, and the first to end does not
\* take the other's last words with it.
WordsArrive == InOrder /\ LastWordsArrive

\* Either end leaving closes both connections in the end.
EndsTogether == (\E w \in Ways : left[w]) ~> (\A w \in Ways : ~open[w])

=============================================================================
