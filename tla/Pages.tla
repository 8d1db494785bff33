---------------------------------- MODULE Pages ----------------------------------
(***************************************************************************)
(* The Apps page: a list of cards that refresh() clears and draws again,   *)
(* and what is opened from a card's buttons.                               *)
(*                                                                         *)
(* refresh() starts a one-shot timer; when it fires, render() clears the   *)
(* list, and then awaits docker three times before it fills it again.      *)
(* Nothing keeps two renders apart.  A dialog opened from a card is an     *)
(* element inside that card, so clearing the list deletes it, and the      *)
(* handler that awaits its dismissal is never resumed.                     *)
(***************************************************************************)
EXTENDS Naturals, FiniteSets

CONSTANTS
  Apps,         \* compose projects there can be
  Renders,      \* bound: renders in flight at once
  MaxTimers,    \* bound: refreshes waiting for their timer
  MaxFaults     \* bound: statuses that cannot be read, and renders that raise

ASSUME PagesAssumption == MaxTimers \in Nat \ {0} /\ MaxFaults \in Nat

VARIABLES
  projects,     \* the compose projects on disk
  up,           \* those that are running
  timers,       \* refreshes that have not fired
  render,       \* per render: "none", "discovering", "measuring", "flagging"
  stacks,       \* per render: what discover() found
  status,       \* per render: what it measured, and what its cards show
  cards,        \* what is in the list: pairs of an app and the render that drew it
  filled,       \* the list has been filled since it was last cleared
  handler,      \* the handler a button started: what, on which app, and at which point
  faults,       \* counts statuses that could not be read, and renders that raised
  raised,       \* history: where a render raised since the list was last cleared, or "no"
  overlapped,   \* history: a render began before another had filled the list
  closed,       \* history: apps whose command's output was closed, and that are since
                \* as it left them
  orphans       \* handlers whose command still runs and whose dialog has been deleted

docVars  == <<projects, up, faults>>
drawVars == <<timers, render, stacks, status, cards, filled, raised, overlapped>>
PagesVars == <<docVars, drawVars, handler, closed, orphans>>

Idle == [what |-> "none", app |-> "", at |-> "none"]

\* A page nothing is going on in, drawn or not.
PageAtRest(drawn) ==
  /\ projects \in SUBSET Apps
  /\ up = {}
  /\ timers = (IF drawn THEN 0 ELSE 1)
  /\ render = [r \in Renders |-> "none"]
  /\ stacks = [r \in Renders |-> {}]
  /\ status = [r \in Renders |-> {}]
  /\ cards = {} /\ filled = drawn /\ raised = "no"
  /\ handler = Idle
  /\ faults = 0
  /\ overlapped = FALSE /\ closed = {} /\ orphans = {}

PagesInit == PageAtRest(FALSE)

-----------------------------------------------------------------------------
(* refresh() and render() *)

\* Something is on screen that only its user dismisses.
Dialogs == {"form", "pick", "running", "finished", "terminal"}

\* Mutant of Clear: the timer is a child of the list, and is cleared with it.
Bug_TimerInList(r) ==
  /\ cards' = {} /\ filled' = FALSE /\ raised' = "no"
  /\ render' = [render EXCEPT ![r] = IF handler.what = "none" /\ ~filled
                                       THEN "discovering" ELSE "none"]

\* Mutant of Clear: the list is added to.
Bug_KeepCards(r) ==
  /\ UNCHANGED <<cards, filled, raised>>
  /\ render' = [render EXCEPT ![r] = "discovering"]

\* container.clear(); the timer hangs in the parent's slot, and the render goes on.
Clear(r) ==
  /\ cards' = {} /\ filled' = FALSE /\ raised' = "no"
  /\ render' = [render EXCEPT ![r] = "discovering"]

\* A timer fires.  What lives in a card goes, and its handler waits for ever.
Fire(r) ==
  /\ timers > 0 /\ render[r] = "none"
  /\ timers' = timers - 1
  /\ Clear(r)
  /\ status' = [status EXCEPT ![r] = {}]
  /\ overlapped' = (overlapped \/ \E q \in Renders : render[q] # "none")
  /\ orphans' = orphans \union {h \in {handler} : h.at = "running"}
  /\ handler' = Idle
  /\ UNCHANGED <<docVars, stacks, closed>>

\* An exception ends the render where it is: whatever the list showed, it shows.
Raises(r, point) ==
  /\ faults < MaxFaults /\ faults' = faults + 1
  /\ raised' = point
  /\ render' = [render EXCEPT ![r] = "none"]
  /\ stacks' = [stacks EXCEPT ![r] = {}]
  /\ UNCHANGED <<projects, up, timers, status, cards, filled, overlapped, handler, closed, orphans>>

Discover(r) ==
  /\ render[r] = "discovering"
  /\ stacks' = [stacks EXCEPT ![r] = projects]
  /\ render' = [render EXCEPT ![r] = "measuring"]
  /\ UNCHANGED <<docVars, timers, status, cards, filled, raised, overlapped, handler, closed, orphans>>

\* The compose directory, or one in it, cannot be listed.
DiscoverRaises(r) == render[r] = "discovering" /\ Raises(r, "discover")

\* _statuses(), _usages(): all at once; one that fails says "down" and no numbers.
Measure(r) ==
  /\ render[r] = "measuring"
  /\ \/ status' = [status EXCEPT ![r] = up \intersect stacks[r]] /\ UNCHANGED faults
     \/ /\ faults < MaxFaults /\ faults' = faults + 1
        /\ \E a \in up \intersect stacks[r] :
             status' = [status EXCEPT ![r] = (up \intersect stacks[r]) \ {a}]
  /\ render' = [render EXCEPT ![r] = "flagging"]
  /\ UNCHANGED <<projects, up, timers, stacks, cards, filled, raised, overlapped, handler, closed, orphans>>

\* has_settings() of every stack has been read in one hop, and the list is filled.
Fill(r) ==
  /\ render[r] = "flagging"
  /\ cards' = cards \union {<<a, r>> : a \in stacks[r]}
  /\ filled' = TRUE
  /\ render' = [render EXCEPT ![r] = "none"]
  /\ stacks' = [stacks EXCEPT ![r] = {}]
  /\ UNCHANGED <<docVars, timers, status, raised, overlapped, handler, closed, orphans>>

\* A compose file that is not UTF-8 is not the error has_settings() swallows; nothing
\* has been drawn by then.
FlagsRaise(r) ==
  /\ render[r] = "flagging" /\ stacks[r] # {}
  /\ Raises(r, "flags")

Step(r) == Discover(r) \/ Measure(r) \/ Fill(r) \/ DiscoverRaises(r) \/ FlagsRaise(r)

Refresh == timers' = IF timers < MaxTimers THEN timers + 1 ELSE timers

\* The Refresh button; a dialog that is open is modal.
PressRefresh ==
  /\ handler.at \notin Dialogs
  /\ timers < MaxTimers /\ Refresh
  /\ UNCHANGED <<docVars, render, stacks, status, cards, filled, raised, overlapped, handler, closed, orphans>>

\* _create_dialog() is opened outside the list, so no clear reaches it.
CreateApp(a) ==
  /\ handler.at \notin Dialogs
  /\ a \notin projects
  /\ projects' = projects \union {a}
  /\ Refresh
  /\ UNCHANGED <<up, faults, render, stacks, status, cards, filled, raised, overlapped, handler, closed,
                 orphans>>

-----------------------------------------------------------------------------
(* The card's buttons *)

\* The first thing each opens: act() the command's output, configure() the form, and
\* exec_() and attach() nothing until running_services() has answered.
Opens == [up |-> "running", down |-> "running", settings |-> "form", edit |-> "form", exec |-> "asking"]

Press(a, what) ==
  /\ handler = Idle
  /\ \E r \in Renders : <<a, r>> \in cards
  /\ handler' = [what |-> what, app |-> a, at |-> Opens[what]]
  /\ UNCHANGED <<docVars, drawVars, closed, orphans>>

\* running(): with no service there is nothing to get into, and that is said.
Answer ==
  /\ handler.at = "asking"
  /\ handler' = IF handler.app \in up THEN [handler EXCEPT !.at = "pick"] ELSE Idle
  /\ UNCHANGED <<docVars, drawVars, closed, orphans>>

\* A handler's command ends, one way or the other.
Ends(h) ==
  /\ up' \in {up, IF h.what = "down" THEN up \ {h.app} ELSE up \union {h.app}}
  /\ closed' = {a \in closed : a \in up' <=> a \in up}

\* _run_in_dialog(): and Close is enabled.
CommandEnds ==
  /\ handler.at = "running"
  /\ Ends(handler)
  /\ handler' = [handler EXCEPT !.at = "finished"]
  /\ UNCHANGED <<projects, faults, drawVars, orphans>>

\* A command whose dialog was cleared away still runs to its end.
CommandEndsUnseen(h) ==
  /\ h \in orphans
  /\ Ends(h)
  /\ orphans' = orphans \ {h}
  /\ UNCHANGED <<projects, faults, drawVars, handler>>

\* A dialog in which something is chosen: "Save & apply" brings the app up in the
\* next dialog, and a service leads to a terminal.
Choose ==
  /\ \/ handler.what = "settings" /\ handler.at = "form"
        /\ handler' = [handler EXCEPT !.at = "running"]
     \/ handler.what = "exec" /\ handler.at = "pick"
        /\ handler' = [handler EXCEPT !.at = "terminal"]
  /\ UNCHANGED <<docVars, drawVars, closed, orphans>>

\* Cancel, or a click outside: nothing was done, and nothing is drawn again.
Cancel ==
  /\ handler.at \in {"form", "pick"}
  /\ handler' = Idle
  /\ UNCHANGED <<docVars, drawVars, closed, orphans>>

\* What is closed with something done: an ended command, a terminal, a form saved.
Dismissable ==
  \/ handler.at \in {"finished", "terminal"}
  \/ handler.what \in {"settings", "edit"} /\ handler.at = "form"

\* Mutant of Dismiss: the page is not drawn again.
Bug_DismissOnly ==
  /\ Dismissable
  /\ handler' = Idle
  /\ closed' = closed \union {a \in {handler.app} : handler.at = "finished"}
  /\ UNCHANGED <<docVars, drawVars, orphans>>

\* Closed, and then refresh().
Dismiss ==
  /\ Dismissable
  /\ handler' = Idle
  /\ Refresh
  /\ closed' = closed \union {a \in {handler.app} : handler.at = "finished"}
  /\ UNCHANGED <<docVars, render, stacks, status, cards, filled, raised, overlapped, orphans>>

PagesNext ==
  \/ \E r \in Renders : Fire(r) \/ Step(r)
  \/ PressRefresh
  \/ \E a \in Apps : CreateApp(a) \/ \E what \in DOMAIN Opens : Press(a, what)
  \/ \E h \in orphans : CommandEndsUnseen(h)
  \/ Answer \/ CommandEnds \/ Choose \/ Cancel \/ Dismiss

\* Timers fire and threads answer; users do as they please.
PagesFairness ==
  /\ WF_PagesVars(\E r \in Renders : Fire(r))
  /\ \A r \in Renders : WF_PagesVars(Step(r))

PagesSpec == PagesInit /\ [][PagesNext]_PagesVars /\ PagesFairness

-----------------------------------------------------------------------------
(* What must hold *)

\* What a handler can be.
Handlers == [what : {"none"} \union DOMAIN Opens, app : Apps \union {""},
             at : Dialogs \union {"none", "asking"}]

\* Type invariant.
PagesTypeOK ==
  /\ projects \subseteq Apps /\ up \subseteq projects
  /\ timers \in 0..MaxTimers
  /\ render \in [Renders -> {"none", "discovering", "measuring", "flagging"}]
  /\ stacks \in [Renders -> SUBSET Apps] /\ status \in [Renders -> SUBSET Apps]
  /\ cards \subseteq Apps \X Renders /\ filled \in BOOLEAN
  /\ raised \in {"no", "discover", "flags"}
  /\ handler \in Handlers /\ orphans \subseteq Handlers
  /\ faults \in 0..MaxFaults
  /\ overlapped \in BOOLEAN
  /\ closed \subseteq projects

\* As long as no render has begun before another was done, every app has one card.
\* (Two that overlap both clear first and both fill afterwards.)
OneCardEach ==
  ~overlapped => \A a \in Apps : Cardinality({c \in cards : c[1] = a}) <= 1

\* A cleared list is filled again, whichever button the refresh was asked from and
\* however many renders are in flight, unless a render raised since.
BlankIsTemporary == ~filled ~> filled \/ raised # "no"

\* Once the user has closed the output of a command that brought an app up or down, the
\* list comes to show the app as it is, whatever was in flight before, unless the app is
\* something else again by then, a status could not be read (that shows as "down" until
\* somebody refreshes) or a render raised.
CommandIsShown ==
  \A a \in Apps :
    a \in closed ~>
      \/ faults > 0 \/ a \notin closed
      \/ \E r \in Renders : <<a, r>> \in cards /\ (a \in status[r] <=> a \in up)

=============================================================================
