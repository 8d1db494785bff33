-------------------------------- MODULE Sessions --------------------------------
(***************************************************************************)
(* Who may drive a page of the shell, and the developer mode it is drawn   *)
(* in: the HTTP gate, the guard on the socket, login and logout, and the   *)
(* choice kept in the browser's storage and mirrored into localStorage.    *)
(*                                                                         *)
(* A browser is its session cookie, so it is also its server-side storage  *)
(* (app.storage.user).  A client is one rendered page.  Pages are asked    *)
(* for over HTTP; everything after that is an event on a socket that has   *)
(* joined the client's room.  Handlers run on one event loop, none awaits  *)
(* between its check and its effect, and each is one action.               *)
(***************************************************************************)
EXTENDS Naturals, Sequences, FiniteSets

CONSTANTS
  Browsers,     \* the cookies the storage secret has signed
  NoCookie,     \* what a socket brings whose cookie is missing, forged or expired
  Clients,      \* bound: the pages that can be rendered
  Sockets,      \* the sockets that can be up at once
  Routes,       \* the paths that are asked for, "/login" among them
  Usernames,     \* the names that can be typed
  NoName,        \* nothing typed
  AsRoot,       \* is_root()
  Me,           \* running_user()
  Admins,       \* members of the admin group; empty if it does not exist
  Fallback,      \* SPIRICONFIG_ADVANCED
  MaxQueued,    \* bound: calls waiting in a page's queue when the toggle is clicked
  MaxRestarts   \* bound: restarts of the process

ASSUME SessionsAssumption ==
  /\ NoCookie \notin Browsers
  /\ "/login" \in Routes
  /\ NoName \notin Usernames
  /\ Me \in Usernames /\ Admins \subseteq Usernames
  /\ AsRoot \in BOOLEAN /\ Fallback \in {"on", "off"}
  /\ MaxQueued \in Nat /\ MaxRestarts \in Nat

VARIABLES
  login,        \* SPIRICONFIG_AUTH: "pam" or "none"
  stable,       \* SPIRICONFIG_STORAGE_SECRET is set
  user,         \* storage: the account a browser is logged in as, or NoName
  referrer,     \* storage: referrer_path, "" if there is none
  choice,       \* storage: the "advanced" preference, "unset" if never chosen
  local,        \* the browser's localStorage key
  page,         \* per client: its route, the browser it was rendered for, whether it lives
  live,         \* per client: AdvancedState.enabled, "unset" before state() is called
  outbox,       \* per client: what run_javascript has queued for localStorage
  cookie,       \* per socket: the browser it came from; "" while it is down
  rooms,        \* per socket: the clients whose room it has joined
  verified,     \* history: browsers PAM accepted, while their cookie is good
  alone,        \* history: clients that shared neither their browser nor their room
  restarts      \* counts restarts

configVars  == <<login, stable, restarts>>
storageVars == <<user, referrer, choice>>
clientVars  == <<page, live, outbox>>
socketVars  == <<cookie, rooms>>
SessionsVars == <<configVars, storageVars, local, clientVars, socketVars, verified, alone>>

Unborn == [route |-> "", of |-> NoCookie, lives |-> FALSE]

SessionsInit ==
  /\ login \in {"pam", "none"} /\ stable \in BOOLEAN
  /\ user = [b \in Browsers |-> NoName]
  /\ referrer = [b \in Browsers |-> ""]
  /\ choice = [b \in Browsers |-> "unset"]
  /\ local = [b \in Browsers |-> "unset"]
  /\ page = [c \in Clients |-> Unborn]
  /\ live = [c \in Clients |-> "unset"]
  /\ outbox = [c \in Clients |-> <<>>]
  /\ cookie = [s \in Sockets |-> ""]
  /\ rooms = [s \in Sockets |-> {}]
  /\ verified = {}
  /\ alone = {}
  /\ restarts = 0

-----------------------------------------------------------------------------
(* authenticate() *)

\* The who-may-I-even-check rule: ours alone, or as root the admin group's.
MayTry(name) == IF AsRoot THEN name \in Admins ELSE name = Me

\* authenticate(): PAM is asked last, and must be there to say yes.
Accepts(name, password, pam) ==
  /\ name # NoName
  /\ MayTry(name)
  /\ pam = "loaded"
  /\ password = "right"

-----------------------------------------------------------------------------
(* Pages over HTTP *)

\* AuthMiddleware.dispatch(), mounted only with auth on.
Gated(b, route) == login = "pam" /\ user[b] = NoName /\ route # "/login"

\* Sent to /login, remembering where it meant to go.
Redirect(b, route) ==
  /\ Gated(b, route)
  /\ referrer' = [referrer EXCEPT ![b] = route]
  /\ UNCHANGED <<configVars, user, choice, local, clientVars, socketVars, verified, alone>>

Living(b) == {c \in Clients : page[c].lives /\ page[c].of = b}

\* A socket of this browser is in the room of another browser's page.
Straying(b) == \E s \in Sockets : cookie[s] = b /\ \E c \in rooms[s] : page[c].of # b

\* Mutant of Seeds: no fallback for a browser that has not chosen.
Bug_NoFallback(b) == {choice[b]}

\* state(): the stored choice, or the default, also when the store cannot be read.
Seeds(b) == {Fallback} \union (IF choice[b] = "unset" THEN {} ELSE {choice[b]})

\* Mutant of Seed: the plugins are told only when the toggle is used.
Bug_SeedSilently(c, value) ==
  /\ live' = [live EXCEPT ![c] = value]
  /\ UNCHANGED outbox

\* The first call of state() for a client, which _layout makes through the toggle.
Seed(c, value) ==
  /\ live' = [live EXCEPT ![c] = value]
  /\ outbox' = [outbox EXCEPT ![c] = Append(@, value)]

\* A page is rendered.  The login page has no toggle; opened while logged in it has no form
\* either, only a way on, so that its Submit is one step more than the code can take.
Render(b, route, c) ==
  /\ page[c] = Unborn
  /\ ~Gated(b, route)
  /\ route = "/login" => login = "pam"
  /\ page' = [page EXCEPT ![c] = [route |-> route, of |-> b, lives |-> TRUE]]
  /\ IF route = "/login"
       THEN UNCHANGED <<live, outbox>>
       ELSE \E value \in Seeds(b) : Seed(c, value)
  /\ alone' = (alone \ Living(b)) \union
                (IF Living(b) = {} /\ ~Straying(b) THEN {c} ELSE {})
  /\ UNCHANGED <<configVars, storageVars, local, socketVars, verified>>

\* NiceGUI forgets a page nobody has been connected to for a while.
Forget(c) ==
  /\ page[c].lives
  /\ \A s \in Sockets : c \notin rooms[s]
  /\ page' = [page EXCEPT ![c].lives = FALSE]
  /\ outbox' = [outbox EXCEPT ![c] = <<>>]
  /\ UNCHANGED <<configVars, storageVars, local, live, socketVars, verified, alone>>

-----------------------------------------------------------------------------
(* The socket: install_websocket_guard() *)

\* _session_is_authenticated(): the flag, read from the storage the cookie names.
LoggedIn(b) == b \in Browsers /\ user[b] # NoName

\* _may_attach(): a login, or the login page reaching itself.
MayAttach(b, c) ==
  \/ login = "none"
  \/ LoggedIn(b)
  \/ page[c].lives /\ page[c].route = "/login"

\* guarded_connect(): the client is the one the socket's URL names.
Connect(s, b, c) ==
  /\ cookie[s] = ""
  /\ MayAttach(b, c)
  /\ cookie' = [cookie EXCEPT ![s] = b]
  /\ UNCHANGED <<configVars, storageVars, local, clientVars, rooms, verified, alone>>

\* Mutant of Handshake: what connect checked is not checked again.
Bug_HandshakeTrustsConnect(s, c) ==
  /\ cookie[s] # "" /\ page[c].lives
  /\ rooms' = [rooms EXCEPT ![s] = @ \union {c}]
  /\ alone' = IF cookie[s] = page[c].of THEN alone ELSE alone \ ({c} \union Living(cookie[s]))
  /\ UNCHANGED <<configVars, storageVars, local, clientVars, cookie, verified>>

\* guarded_handshake(): checked again, for the client this message names; then
\* NiceGUI's own handler lets the socket into the room of a client that exists.
Handshake(s, c) ==
  /\ cookie[s] # ""
  /\ MayAttach(cookie[s], c)
  /\ page[c].lives
  /\ rooms' = [rooms EXCEPT ![s] = @ \union {c}]
  /\ alone' = IF cookie[s] = page[c].of THEN alone ELSE alone \ ({c} \union Living(cookie[s]))
  /\ UNCHANGED <<configVars, storageVars, local, clientVars, cookie, verified>>

Disconnect(s) ==
  /\ cookie[s] # ""
  /\ cookie' = [cookie EXCEPT ![s] = ""]
  /\ rooms' = [rooms EXCEPT ![s] = {}]
  /\ UNCHANGED <<configVars, storageVars, local, clientVars, verified, alone>>

\* guard_action(): a socket speaks only for a client whose room it has joined.
\* With auth off the guard is not installed.
Speaks(s, c) ==
  /\ cookie[s] # "" /\ page[c].lives
  /\ login = "none" \/ c \in rooms[s]

-----------------------------------------------------------------------------
(* What an event does: handlers run as the browser the page was rendered for *)

\* _submit(), accepted.  A form may be older than a login in another tab.  The browser is
\* sent to the path it remembers, which is forgotten: storage.pop("referrer_path", "/").
Submit(s, c) ==
  /\ Speaks(s, c)
  /\ page[c].route = "/login"
  /\ \E name \in Usernames \union {NoName}, password \in {"right", "wrong"},
        pam \in {"loaded", "missing"} :
       /\ Accepts(name, password, pam)
       /\ user' = [user EXCEPT ![page[c].of] = name]
  /\ referrer' = [referrer EXCEPT ![page[c].of] = ""]
  /\ verified' = verified \union {page[c].of}
  /\ UNCHANGED <<configVars, choice, local, clientVars, socketVars, alone>>

\* logout(): the whole storage goes, the preference with it.
Logout(s, c) ==
  /\ Speaks(s, c)
  /\ page[c].route # "/login" /\ user[page[c].of] # NoName
  /\ user' = [user EXCEPT ![page[c].of] = NoName]
  /\ referrer' = [referrer EXCEPT ![page[c].of] = ""]
  /\ choice' = [choice EXCEPT ![page[c].of] = "unset"]
  /\ UNCHANGED <<configVars, local, clientVars, socketVars, verified, alone>>

Flip(switch) == IF switch = "on" THEN "off" ELSE "on"

\* set_enabled(): the live state, the mirror, and last the store, which may fail.
Toggle(s, c) ==
  /\ Speaks(s, c)
  /\ live[c] # "unset" /\ Len(outbox[c]) < MaxQueued
  /\ live' = [live EXCEPT ![c] = Flip(@)]
  /\ outbox' = [outbox EXCEPT ![c] = Append(@, Flip(live[c]))]
  /\ \/ choice' = [choice EXCEPT ![page[c].of] = Flip(live[c])]
     \/ UNCHANGED choice
  /\ UNCHANGED <<configVars, user, referrer, local, page, socketVars, verified, alone>>

Listeners(c) == {cookie[s] : s \in {t \in Sockets : c \in rooms[t]}}

\* The queued JavaScript reaches whoever is in the room.
Mirror(c) ==
  /\ outbox[c] # <<>> /\ Listeners(c) # {}
  /\ local' = [b \in Browsers |-> IF b \in Listeners(c) THEN Head(outbox[c]) ELSE local[b]]
  /\ outbox' = [outbox EXCEPT ![c] = Tail(@)]
  /\ UNCHANGED <<configVars, storageVars, page, live, socketVars, verified, alone>>

-----------------------------------------------------------------------------
\* The process is started again.  A cookie signed with a temporary secret is no
\* longer good, so its browser begins with an empty storage.
Restart ==
  /\ restarts < MaxRestarts /\ restarts' = restarts + 1
  /\ page' = [c \in Clients |-> IF page[c].lives THEN [page[c] EXCEPT !.lives = FALSE]
                                                 ELSE page[c]]
  /\ outbox' = [c \in Clients |-> <<>>]
  /\ cookie' = [s \in Sockets |-> ""]
  /\ rooms' = [s \in Sockets |-> {}]
  /\ IF stable
       THEN UNCHANGED <<storageVars, verified>>
       ELSE /\ user' = [b \in Browsers |-> NoName]
            /\ referrer' = [b \in Browsers |-> ""]
            /\ choice' = [b \in Browsers |-> "unset"]
            /\ verified' = {}
  /\ UNCHANGED <<login, stable, local, live, alone>>

SessionsNext ==
  \/ \E b \in Browsers, route \in Routes : Redirect(b, route)
  \/ \E b \in Browsers, route \in Routes, c \in Clients : Render(b, route, c)
  \/ \E c \in Clients : Forget(c) \/ Mirror(c)
  \/ \E s \in Sockets, b \in Browsers \union {NoCookie}, c \in Clients : Connect(s, b, c)
  \/ \E s \in Sockets : Disconnect(s)
  \/ \E s \in Sockets, c \in Clients :
       Handshake(s, c) \/ Submit(s, c) \/ Logout(s, c) \/ Toggle(s, c)
  \/ Restart

SessionsSpec == SessionsInit /\ [][SessionsNext]_SessionsVars

-----------------------------------------------------------------------------
(* What must hold *)

Switch == {"on", "off", "unset"}

\* Type invariant.
SessionsTypeOK ==
  /\ login \in {"pam", "none"} /\ stable \in BOOLEAN
  /\ user \in [Browsers -> Usernames \union {NoName}]
  /\ referrer \in [Browsers -> Routes \union {""}]
  /\ choice \in [Browsers -> Switch] /\ local \in [Browsers -> Switch]
  /\ page \in [Clients -> [route : Routes \union {""}, of : Browsers \union {NoCookie},
                           lives : BOOLEAN]]
  /\ live \in [Clients -> Switch] /\ outbox \in [Clients -> Seq({"on", "off"})]
  /\ cookie \in [Sockets -> Browsers \union {NoCookie, ""}]
  /\ rooms \in [Sockets -> SUBSET Clients]
  /\ verified \subseteq Browsers
  /\ alone \subseteq Clients
  /\ restarts \in 0..MaxRestarts

\* With auth on, only a browser whose cookie PAM has vouched for acts on a page
\* behind the login, in whatever order sockets connect, shake hands for other
\* pages, log out and come back, and across restarts.
OnlyVerifiedAct ==
  [][\A s \in Sockets, c \in Clients :
       login = "pam" /\ (Logout(s, c) \/ Toggle(s, c)) => cookie[s] \in verified]_SessionsVars

\* A page that has had its browser and its room to itself: once the queue is
\* empty, what plugins read in localStorage is what the page shows.
MirrorFollowsLonePage ==
  \A c \in alone :
    /\ page[c].lives /\ live[c] # "unset" /\ outbox[c] = <<>>
    => local[page[c].of] = live[c]

=============================================================================
