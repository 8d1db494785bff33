----------------------------- MODULE Sessions_proofs -----------------------------
(***************************************************************************)
(* Theorems about Sessions, for any browsers, pages, sockets and routes:   *)
(* who acts behind the login, and what plugins read in localStorage.       *)
(***************************************************************************)
EXTENDS Sessions, TLAPS

(* The parts of the inductive invariant. *)

\* A page was rendered for a browser.
Owned == \A c \in Clients : page[c].lives => page[c].of \in Browsers

\* A login is PAM's word for it.
Vouched == \A b \in Browsers : user[b] # NoName => b \in verified

\* A socket that is down is in no room, and a room is that of a living page.
Housed ==
  \A s \in Sockets :
    /\ cookie[s] = "" => rooms[s] = {}
    /\ \A c \in rooms[s] : page[c].lives

\* With auth on, a browser PAM never accepted is in no room but a login page's.
Admitted ==
  login = "pam" =>
    \A s \in Sockets : \A c \in rooms[s] :
      page[c].route = "/login" \/ cookie[s] \in verified

\* Only a page that was rendered, and not the login page, has a live state.
Drawn == \A c \in Clients : live[c] # "unset" => page[c] # Unborn /\ page[c].route # "/login"

Guarded == SessionsTypeOK /\ Owned /\ Vouched /\ Housed /\ Admitted /\ Drawn

\* A lone page is its browser's only living one, its room holds no other browser, ...
Lone(c) ==
  /\ page[c].of \in Browsers
  /\ Living(page[c].of) = {c}
  /\ \A s \in Sockets : c \in rooms[s] => cookie[s] = page[c].of
  /\ \A s \in Sockets : cookie[s] = page[c].of => rooms[s] \subseteq {c}

\* ... and the last word in its queue, or else in localStorage, is its live state.
Mirrored(c) ==
  live[c] # "unset" =>
    IF outbox[c] = <<>> THEN local[page[c].of] = live[c]
                        ELSE outbox[c][Len(outbox[c])] = live[c]

Mirrors == \A c \in alone : page[c] # Unborn /\ (page[c].lives => Lone(c) /\ Mirrored(c))

-----------------------------------------------------------------------------
(* What an action leaves of a queue. *)

\* The empty queue is a queue.
LEMMA Emptied == <<>> \in Seq({"on", "off"})
OBVIOUS

(* One word more, at the end. *)
LEMMA Queued ==
  ASSUME NEW q \in Seq({"on", "off"}), NEW x \in {"on", "off"}
  PROVE  /\ Append(q, x) \in Seq({"on", "off"})
         /\ Append(q, x) # <<>> /\ Append(q, x)[Len(Append(q, x))] = x
OBVIOUS

(* One word less, at the front. *)
LEMMA Dequeued ==
  ASSUME NEW q \in Seq({"on", "off"}), q # <<>>
  PROVE  /\ Head(q) \in {"on", "off"} /\ Tail(q) \in Seq({"on", "off"})
         /\ IF Tail(q) = <<>> THEN Head(q) = q[Len(q)]
                              ELSE Tail(q)[Len(Tail(q))] = q[Len(q)]
<1>1. /\ Len(q) \in Nat \ {0} /\ Tail(q) \in Seq({"on", "off"})
      /\ Len(Tail(q)) = Len(q) - 1 /\ Head(q) = q[1] /\ q[1] \in {"on", "off"}
      /\ \A i \in 1..Len(q) - 1 : Tail(q)[i] = q[i + 1]
  OBVIOUS
<1>2. Tail(q) = <<>> <=> Len(Tail(q)) = 0
  <2>1. ASSUME NEW t \in Seq({"on", "off"}) PROVE t = <<>> <=> Len(t) = 0
    OBVIOUS
  <2> QED
    BY <1>1, <2>1
<1>3. CASE Tail(q) = <<>>
  BY <1>1, <1>2, <1>3
<1>4. CASE Tail(q) # <<>>
  <2>1. Len(q) - 1 \in 1..Len(q) - 1
    BY <1>1, <1>2, <1>4
  <2> QED
    BY <1>1, <1>4, <2>1
<1> QED
  BY <1>3, <1>4

(* A page that is forgotten is a page still. *)
LEMMA Forgotten ==
  ASSUME NEW A, NEW B, NEW r \in [route : A, of : B, lives : BOOLEAN]
  PROVE  [r EXCEPT !.lives = FALSE] \in [route : A, of : B, lives : BOOLEAN]
OBVIOUS

-----------------------------------------------------------------------------
(* Type correctness *)

(* Every action keeps the types. *)
LEMMA SessionsTypeStep == SessionsTypeOK /\ Owned /\ [SessionsNext]_SessionsVars => SessionsTypeOK'
<1> SUFFICES ASSUME SessionsTypeOK, Owned, [SessionsNext]_SessionsVars PROVE SessionsTypeOK'
  OBVIOUS
<1> USE SessionsAssumption DEF SessionsTypeOK, Switch, configVars, storageVars, clientVars, socketVars
<1>1. ASSUME NEW b \in Browsers, NEW route \in Routes, Redirect(b, route) PROVE SessionsTypeOK'
  BY <1>1 DEF Redirect
<1>2. ASSUME NEW b \in Browsers, NEW route \in Routes, NEW c \in Clients, Render(b, route, c)
      PROVE  SessionsTypeOK'
  <2>1. page' \in [Clients -> [route : Routes \union {""}, of : Browsers \union {NoCookie},
                               lives : BOOLEAN]]
    BY <1>2 DEF Render
  <2>2. live' \in [Clients -> {"on", "off", "unset"}] /\ outbox' \in [Clients -> Seq({"on", "off"})]
    <3>1. CASE route = "/login"
      BY <1>2, <3>1 DEF Render
    <3>2. CASE route # "/login"
      <4>1. PICK value \in Seeds(b) : Seed(c, value)
        BY <1>2, <3>2 DEF Render
      <4>2. value \in {"on", "off"}
        BY DEF Seeds
      <4> QED
        <5>1. live' = [live EXCEPT ![c] = value] /\ outbox' = [outbox EXCEPT ![c] = Append(outbox[c], value)]
          BY <4>1 DEF Seed
        <5>2. Append(outbox[c], value) \in Seq({"on", "off"})
          BY <4>2, Queued
        <5> QED
          BY <4>2, <5>1, <5>2
    <3> QED
      BY <3>1, <3>2
  <2>3. alone' \subseteq Clients
    BY <1>2 DEF Render
  <2> QED
    BY <1>2, <2>1, <2>2, <2>3 DEF Render
<1>3. ASSUME NEW c \in Clients, Forget(c) PROVE SessionsTypeOK'
  <2>1. outbox' \in [Clients -> Seq({"on", "off"})]
    <3>1. <<>> \in Seq({"on", "off"})
      BY Emptied
    <3> QED
      BY <1>3, <3>1 DEF Forget
  <2>2. page' \in [Clients -> [route : Routes \union {""}, of : Browsers \union {NoCookie},
                               lives : BOOLEAN]]
    BY <1>3 DEF Forget
  <2> QED
    BY <1>3, <2>1, <2>2 DEF Forget
<1>4. ASSUME NEW c \in Clients, Mirror(c) PROVE SessionsTypeOK'
  <2>1. Head(outbox[c]) \in {"on", "off"} /\ Tail(outbox[c]) \in Seq({"on", "off"})
    BY <1>4, Dequeued DEF Mirror
  <2>2. local' \in [Browsers -> {"on", "off", "unset"}]
    BY <1>4, <2>1 DEF Mirror
  <2>3. outbox' \in [Clients -> Seq({"on", "off"})]
    BY <1>4, <2>1 DEF Mirror
  <2> QED
    BY <1>4, <2>2, <2>3 DEF Mirror
<1>5. ASSUME NEW s \in Sockets, NEW b \in Browsers \union {NoCookie}, NEW c \in Clients, Connect(s, b, c)
      PROVE  SessionsTypeOK'
  BY <1>5 DEF Connect
<1>6. ASSUME NEW s \in Sockets, Disconnect(s) PROVE SessionsTypeOK'
  BY <1>6 DEF Disconnect
<1>7. ASSUME NEW s \in Sockets, NEW c \in Clients, Handshake(s, c) PROVE SessionsTypeOK'
  <2>1. alone' \subseteq Clients
    BY <1>7 DEF Handshake
  <2> QED
    BY <1>7, <2>1 DEF Handshake
<1>8. ASSUME NEW s \in Sockets, NEW c \in Clients, Submit(s, c) PROVE SessionsTypeOK'
  <2>1. user' \in [Browsers -> Usernames \union {NoName}]
    BY <1>8 DEF Submit
  <2>2. page[c].of \in Browsers
    BY <1>8 DEF Submit, Speaks, Owned
  <2> QED
    BY <1>8, <2>1, <2>2 DEF Submit
<1>9. ASSUME NEW s \in Sockets, NEW c \in Clients, Logout(s, c) PROVE SessionsTypeOK'
  BY <1>9 DEF Logout
<1>10. ASSUME NEW s \in Sockets, NEW c \in Clients, Toggle(s, c) PROVE SessionsTypeOK'
  <2>1. Flip(live[c]) \in {"on", "off"}
    BY DEF Flip
  <2>2. live' \in [Clients -> {"on", "off", "unset"}]
    BY <1>10, <2>1 DEF Toggle
  <2>3. outbox' \in [Clients -> Seq({"on", "off"})]
    <3>1. Append(outbox[c], Flip(live[c])) \in Seq({"on", "off"})
      BY <2>1, Queued
    <3> QED
      BY <1>10, <3>1 DEF Toggle
  <2>4. choice' \in [Browsers -> {"on", "off", "unset"}]
    BY <1>10, <2>1 DEF Toggle
  <2> QED
    BY <1>10, <2>2, <2>3, <2>4 DEF Toggle
<1>11. CASE Restart
  <2>1. page' \in [Clients -> [route : Routes \union {""}, of : Browsers \union {NoCookie},
                               lives : BOOLEAN]]
    <3>1. ASSUME NEW c \in Clients PROVE [page[c] EXCEPT !.lives = FALSE] \in
            [route : Routes \union {""}, of : Browsers \union {NoCookie}, lives : BOOLEAN]
      BY Forgotten
    <3> QED
      BY <1>11, <3>1 DEF Restart
  <2>2. outbox' \in [Clients -> Seq({"on", "off"})]
    <3>1. <<>> \in Seq({"on", "off"})
      BY Emptied
    <3> QED
      BY <1>11, <3>1 DEF Restart
  <2>3. /\ user' \in [Browsers -> Usernames \union {NoName}]
        /\ referrer' \in [Browsers -> Routes \union {""}]
        /\ choice' \in [Browsers -> {"on", "off", "unset"}]
        /\ verified' \subseteq Browsers
    <3>1. CASE stable
      BY <1>11, <3>1 DEF Restart
    <3>2. CASE ~stable
      <4>1. /\ user' = [b \in Browsers |-> NoName] /\ referrer' = [b \in Browsers |-> ""]
            /\ choice' = [b \in Browsers |-> "unset"] /\ verified' = {}
        BY <1>11, <3>2 DEF Restart
      <4> HIDE DEF SessionsTypeOK
      <4> QED
        BY <4>1
    <3> QED
      BY <3>1, <3>2
  <2>4. cookie' \in [Sockets -> Browsers \union {NoCookie, ""}]
    BY <1>11 DEF Restart
  <2>5. rooms' \in [Sockets -> SUBSET Clients]
    BY <1>11 DEF Restart
  <2>6. restarts' \in 0..MaxRestarts /\ alone' \subseteq Clients
    <3>1. /\ restarts < MaxRestarts /\ restarts' = restarts + 1 /\ alone' = alone
      BY <1>11 DEF Restart
    <3>2. restarts \in 0..MaxRestarts /\ alone \subseteq Clients
      OBVIOUS
    <3> HIDE DEF SessionsTypeOK
    <3> QED
      BY <3>1, <3>2
  <2> QED
    BY <1>11, <2>1, <2>2, <2>3, <2>4, <2>5, <2>6 DEF Restart
<1>12. CASE UNCHANGED SessionsVars
  BY <1>12 DEF SessionsVars
<1> QED
  BY <1>1, <1>2, <1>3, <1>4, <1>5, <1>6, <1>7, <1>8, <1>9, <1>10, <1>11, <1>12 DEF SessionsNext

-----------------------------------------------------------------------------
(* What the life of a page changes *)

(* An unborn page is of nobody. *)
LEMMA UnbornIs == ~Unborn.lives /\ Unborn.of = NoCookie /\ NoCookie \notin Browsers
BY SessionsAssumption DEF Unborn

\* What rendering a page leaves as it was, and what it makes of the new one.
LEMMA RenderedPage ==
  ASSUME SessionsTypeOK, NEW b \in Browsers, NEW route \in Routes, NEW c \in Clients,
         Render(b, route, c)
  PROVE  /\ ~page[c].lives /\ page[c] = Unborn
         /\ login' = login /\ user' = user /\ cookie' = cookie /\ rooms' = rooms
         /\ verified' = verified /\ local' = local
         /\ page'[c].route = route /\ page'[c].of = b /\ page'[c].lives /\ page'[c] # Unborn
         /\ \A d \in Clients \ {c} :
              page'[d] = page[d] /\ live'[d] = live[d] /\ outbox'[d] = outbox[d]
         /\ IF route = "/login"
              THEN live'[c] = live[c]
              ELSE live'[c] \in {"on", "off"} /\ outbox'[c] = Append(outbox[c], live'[c])
<1>1. page[c] = Unborn /\ page' = [page EXCEPT ![c] = [route |-> route, of |-> b, lives |-> TRUE]]
  BY DEF Render
<1>2. page \in [Clients -> [route : Routes \union {""}, of : Browsers \union {NoCookie}, lives : BOOLEAN]]
      /\ live \in [Clients -> Switch] /\ outbox \in [Clients -> Seq({"on", "off"})]
  BY DEF SessionsTypeOK
<1>3. page'[c] = [route |-> route, of |-> b, lives |-> TRUE]
      /\ \A d \in Clients \ {c} : page'[d] = page[d]
  BY <1>1, <1>2
<1>4. page'[c].route = route /\ page'[c].of = b /\ page'[c].lives
  BY <1>3
<1>5. IF route = "/login"
        THEN live' = live /\ outbox' = outbox
        ELSE \E value \in {"on", "off"} : Seed(c, value)
  BY SessionsAssumption DEF Render, Seeds, SessionsTypeOK, Switch, Seed, clientVars
<1>6. /\ \A d \in Clients \ {c} : live'[d] = live[d] /\ outbox'[d] = outbox[d]
      /\ IF route = "/login"
           THEN live'[c] = live[c]
           ELSE live'[c] \in {"on", "off"} /\ outbox'[c] = Append(outbox[c], live'[c])
  BY <1>2, <1>5 DEF Seed
<1>7. /\ login' = login /\ user' = user /\ cookie' = cookie /\ rooms' = rooms
      /\ verified' = verified /\ local' = local
  BY DEF Render, configVars, storageVars, socketVars
<1> QED
  BY <1>1, <1>3, <1>4, <1>6, <1>7, UnbornIs

\* A page that is forgotten had nobody in its room, and nothing else changes.
LEMMA Forgot ==
  ASSUME SessionsTypeOK, Owned, NEW c \in Clients, Forget(c)
  PROVE  /\ page[c].lives /\ ~page'[c].lives /\ page'[c].route = page[c].route /\ page'[c] # Unborn
         /\ \A s \in Sockets : c \notin rooms[s]
         /\ login' = login /\ user' = user /\ cookie' = cookie /\ rooms' = rooms
         /\ verified' = verified /\ live' = live /\ local' = local /\ alone' = alone
         /\ \A d \in Clients \ {c} : page'[d] = page[d] /\ outbox'[d] = outbox[d]
<1>1. page \in [Clients -> [route : Routes \union {""}, of : Browsers \union {NoCookie}, lives : BOOLEAN]]
      /\ outbox \in [Clients -> Seq({"on", "off"})]
  BY DEF SessionsTypeOK
<1>2. page' = [page EXCEPT ![c].lives = FALSE] /\ outbox' = [outbox EXCEPT ![c] = <<>>]
  BY DEF Forget
<1>3. /\ page[c].lives /\ \A s \in Sockets : c \notin rooms[s]
      /\ login' = login /\ user' = user /\ cookie' = cookie /\ rooms' = rooms
      /\ verified' = verified /\ live' = live /\ local' = local /\ alone' = alone
  BY DEF Forget, configVars, storageVars, socketVars
<1>4. /\ ~page'[c].lives /\ page'[c].route = page[c].route /\ page'[c].of = page[c].of
      /\ \A d \in Clients \ {c} : page'[d] = page[d] /\ outbox'[d] = outbox[d]
  BY <1>1, <1>2
<1>5. page'[c] # Unborn
  BY <1>3, <1>4, UnbornIs DEF Owned
<1> QED
  BY <1>3, <1>4, <1>5

\* A restart ends every page and room, and vouches for nobody it did not before.
LEMMA Restarted ==
  ASSUME SessionsTypeOK, Owned, Restart
  PROVE  /\ \A c \in Clients : ~page'[c].lives /\ page'[c].route = page[c].route
         /\ \A c \in Clients : page'[c] = Unborn => page[c] = Unborn
         /\ \A s \in Sockets : rooms'[s] = {}
         /\ login' = login /\ live' = live
         /\ \A b \in Browsers : user'[b] # NoName => user'[b] = user[b] /\ verified' = verified
<1>1. page \in [Clients -> [route : Routes \union {""}, of : Browsers \union {NoCookie}, lives : BOOLEAN]]
  BY DEF SessionsTypeOK
<1>2. \A c \in Clients : page'[c] = IF page[c].lives THEN [page[c] EXCEPT !.lives = FALSE] ELSE page[c]
  BY DEF Restart
<1>3. ASSUME NEW c \in Clients, page[c].lives
      PROVE  ~page'[c].lives /\ page'[c].route = page[c].route /\ page'[c].of = page[c].of
  BY <1>1, <1>2, <1>3
<1>4. \A c \in Clients : page[c].lives => page'[c] # Unborn
  BY <1>3, UnbornIs DEF Owned
<1>5. /\ \A s \in Sockets : rooms'[s] = {}
      /\ login' = login /\ live' = live
  BY DEF Restart
<1>6. \A b \in Browsers : user'[b] # NoName => user'[b] = user[b] /\ verified' = verified
  BY DEF Restart, storageVars
<1> QED
  BY <1>2, <1>3, <1>4, <1>5, <1>6

-----------------------------------------------------------------------------
(* The guard on the socket *)

\* Both invariants hold before the first page.
LEMMA InitGuarded == SessionsInit => Guarded /\ Mirrors
<1> SUFFICES ASSUME SessionsInit PROVE Guarded /\ Mirrors
  OBVIOUS
<1> USE SessionsAssumption DEF SessionsInit
<1>1. SessionsTypeOK
  <2>1. outbox \in [Clients -> Seq({"on", "off"})]
    <3>1. outbox = [c \in Clients |-> <<>>]
      OBVIOUS
    <3> QED
      BY <3>1, Emptied
  <2>2. page \in [Clients -> [route : Routes \union {""}, of : Browsers \union {NoCookie},
                             lives : BOOLEAN]]
    BY DEF Unborn
  <2>3. rooms \in [Sockets -> SUBSET Clients]
    <3>1. rooms = [s \in Sockets |-> {}]
      OBVIOUS
    <3> QED
      BY <3>1
  <2>4. restarts \in 0..MaxRestarts
    <3>1. restarts = 0 /\ MaxRestarts \in Nat
      OBVIOUS
    <3> HIDE DEF SessionsInit
    <3> QED
      BY <3>1
  <2> QED
    BY <2>1, <2>2, <2>3, <2>4 DEF SessionsTypeOK, Switch
<1>2. Owned /\ Vouched /\ Housed /\ Admitted /\ Drawn
  BY DEF Owned, Vouched, Housed, Admitted, Drawn, Unborn
<1>3. Mirrors
  BY DEF Mirrors
<1> QED
  BY <1>1, <1>2, <1>3 DEF Guarded

(* Every action keeps the guard. *)
LEMMA GuardedStep == Guarded /\ [SessionsNext]_SessionsVars => Guarded'
<1> SUFFICES ASSUME Guarded, [SessionsNext]_SessionsVars PROVE Guarded'
  OBVIOUS
<1>1. SessionsTypeOK'
  BY SessionsTypeStep DEF Guarded
<1> DEFINE Kept == Owned' /\ Vouched' /\ Housed' /\ Admitted' /\ Drawn'
<1>0. SessionsTypeOK /\ Owned /\ \A s \in Sockets : rooms[s] \subseteq Clients
  BY DEF Guarded, SessionsTypeOK
<1>3. ASSUME NEW b \in Browsers, NEW route \in Routes, NEW c \in Clients, Render(b, route, c)
      PROVE  Kept
  <2>1. \A s \in Sockets : c \notin rooms[s]
    BY <1>0, <1>3, RenderedPage DEF Guarded, Housed
  <2>2. Owned' /\ Vouched'
    BY <1>0, <1>3, RenderedPage DEF Guarded, Owned, Vouched
  <2>3. Housed' /\ Admitted'
    <3>1. /\ \A s \in Sockets, d \in Clients : d \in rooms[s] => page'[d] = page[d]
          /\ login' = login /\ cookie' = cookie /\ rooms' = rooms /\ verified' = verified
      BY <1>0, <1>3, <2>1, RenderedPage
    <3> QED
      BY <1>0, <3>1 DEF Guarded, Housed, Admitted
  <2>4. Drawn'
    BY <1>0, <1>3, RenderedPage DEF Guarded, Drawn
  <2> QED
    BY <2>2, <2>3, <2>4
<1>4. ASSUME NEW c \in Clients, Forget(c) PROVE Kept
  <2>1. Owned' /\ Vouched' /\ Drawn'
    BY <1>0, <1>4, Forgot DEF Guarded, Owned, Vouched, Drawn
  <2>2. Housed' /\ Admitted'
    <3>1. /\ \A s \in Sockets, d \in Clients : d \in rooms[s] => page'[d] = page[d]
          /\ login' = login /\ cookie' = cookie /\ rooms' = rooms /\ verified' = verified
      BY <1>0, <1>4, Forgot
    <3> QED
      BY <1>0, <3>1 DEF Guarded, Housed, Admitted
  <2> QED
    BY <2>1, <2>2
<1>12. CASE Restart
  <2>5. /\ \A c \in Clients : ~page'[c].lives /\ page'[c].route = page[c].route
        /\ \A c \in Clients : page'[c] = Unborn => page[c] = Unborn
        /\ live' = live
    BY <1>0, <1>12, Restarted
  <2>1. Owned'
    BY <2>5 DEF Owned
  <2>4. Drawn'
    BY <2>5 DEF Guarded, Drawn
  <2>2. Vouched'
    BY <1>0, <1>12, Restarted DEF Guarded, Vouched
  <2>3. Housed' /\ Admitted'
    BY <1>0, <1>12, Restarted DEF Housed, Admitted
  <2> QED
    BY <1>1, <2>1, <2>2, <2>3, <2>4 DEF Guarded
<1> USE DEF Guarded, SessionsTypeOK, Switch, Owned, Vouched, Housed, Admitted, Drawn,
            configVars, storageVars, clientVars, socketVars
<1>2. ASSUME NEW b \in Browsers, NEW route \in Routes, Redirect(b, route) PROVE Kept
  BY <1>2 DEF Redirect
<1>5. ASSUME NEW c \in Clients, Mirror(c) PROVE Kept
  BY <1>5 DEF Mirror
<1>6. ASSUME NEW s \in Sockets, NEW b \in Browsers \union {NoCookie}, NEW c \in Clients, Connect(s, b, c)
      PROVE  Kept
  BY <1>6 DEF Connect
<1>7. ASSUME NEW s \in Sockets, Disconnect(s) PROVE Kept
  BY <1>7 DEF Disconnect
<1>8. ASSUME NEW s \in Sockets, NEW c \in Clients, Handshake(s, c) PROVE Kept
  BY <1>8 DEF Handshake, MayAttach, LoggedIn
<1>9. ASSUME NEW s \in Sockets, NEW c \in Clients, Submit(s, c) PROVE Kept
  BY <1>9 DEF Submit, Speaks
<1>10. ASSUME NEW s \in Sockets, NEW c \in Clients, Logout(s, c) PROVE Kept
  BY <1>10 DEF Logout
<1>11. ASSUME NEW s \in Sockets, NEW c \in Clients, Toggle(s, c) PROVE Kept
  BY <1>11 DEF Toggle
<1>13. CASE UNCHANGED SessionsVars
  BY <1>13 DEF SessionsVars
<1>14. Kept
  BY <1>2, <1>3, <1>4, <1>5, <1>6, <1>7, <1>8, <1>9, <1>10, <1>11, <1>12, <1>13 DEF SessionsNext
<1> QED
  BY <1>1, <1>14 DEF Guarded

-----------------------------------------------------------------------------
(* The mirror of a lone page *)

(* Every action keeps what localStorage and the queue say of a lone page. *)
LEMMA MirrorsStep == Guarded /\ Mirrors /\ [SessionsNext]_SessionsVars => Mirrors'
<1> DEFINE Good(e) == page[e] # Unborn /\ (page[e].lives => Lone(e) /\ Mirrored(e))
<1> SUFFICES ASSUME Guarded, Mirrors, [SessionsNext]_SessionsVars, NEW e \in alone'
             PROVE  Good(e)'
  BY DEF Mirrors
<1>0. /\ SessionsTypeOK /\ Owned /\ Housed /\ Drawn
      /\ \A s \in Sockets : rooms[s] \subseteq Clients
  BY DEF Guarded, SessionsTypeOK
<1>1. /\ outbox \in [Clients -> Seq({"on", "off"})] /\ live \in [Clients -> Switch]
      /\ local \in [Browsers -> Switch] /\ cookie \in [Sockets -> Browsers \union {NoCookie, ""}]
      /\ alone \subseteq Clients
      /\ rooms \in [Sockets -> SUBSET Clients]
  BY <1>0 DEF SessionsTypeOK
<1>20. SessionsTypeOK' /\ e \in Clients
  BY <1>0, SessionsTypeStep DEF SessionsTypeOK
\* What the actions that touch neither pages, sockets, queues nor localStorage keep.
<1>2. ASSUME page' = page, live' = live, outbox' = outbox, local' = local,
             cookie' = cookie, rooms' = rooms, alone' = alone
      PROVE  Good(e)'
  BY <1>2 DEF Mirrors, Lone, Mirrored, Living
<1>3. ASSUME NEW b \in Browsers, NEW route \in Routes, Redirect(b, route) PROVE Good(e)'
  BY <1>2, <1>3 DEF Redirect, clientVars, socketVars
<1>4. ASSUME NEW b \in Browsers, NEW route \in Routes, NEW c \in Clients, Render(b, route, c)
      PROVE  Good(e)'
  <2>1. alone' = (alone \ Living(b)) \union (IF Living(b) = {} /\ ~Straying(b) THEN {c} ELSE {})
    BY <1>4 DEF Render
  <2>2. \A s \in Sockets : c \notin rooms[s]
    BY <1>0, <1>4, RenderedPage DEF Housed
  <2>3. CASE e = c
    <3>1. c \notin alone
      BY <1>0, <1>4, RenderedPage DEF Mirrors
    <3>2. Living(b) = {} /\ ~Straying(b)
      BY <2>1, <2>3, <3>1
    <3>3. \A s \in Sockets : cookie[s] = b => rooms[s] = {}
      BY <1>0, <3>2 DEF Straying, Housed, Living
    <3>4. Living(b)' = {c}
      BY <1>0, <1>4, <3>2, RenderedPage DEF Living
    <3>5. Lone(c)'
      BY <1>0, <1>4, <2>2, <3>3, <3>4, RenderedPage DEF Lone
    <3>6. Mirrored(c)'
      <4>1. live[c] = "unset"
        BY <1>0, <1>4, RenderedPage DEF Drawn
      <4>2. CASE route = "/login"
        BY <1>0, <1>4, <4>1, <4>2, RenderedPage DEF Mirrored
      <4>3. CASE route # "/login"
        <5>1. live'[c] \in {"on", "off"} /\ outbox'[c] = Append(outbox[c], live'[c])
          BY <1>0, <1>4, <4>3, RenderedPage
        <5>2. outbox[c] \in Seq({"on", "off"})
          BY <1>1
        <5>3. outbox'[c] # <<>> /\ outbox'[c][Len(outbox'[c])] = live'[c]
          BY <5>1, <5>2, Queued
        <5> QED
          BY <5>3 DEF Mirrored
      <4> QED
        BY <4>2, <4>3
    <3> QED
      BY <1>0, <1>4, <2>3, <3>5, <3>6, RenderedPage
  <2>4. CASE e # c
    <3>1. e \in alone \ Living(b) /\ page'[e] = page[e]
      BY <1>0, <1>20, <1>4, <2>1, <2>4, RenderedPage
    <3>2. SUFFICES ASSUME page[e].lives PROVE Lone(e)' /\ Mirrored(e)'
      BY <3>1 DEF Mirrors
    <3>3. page[e].of # b /\ Lone(e) /\ Mirrored(e)
      BY <1>20, <3>1, <3>2 DEF Living, Mirrors
    <3>4. Living(page[e].of)' = Living(page[e].of)
      BY <1>0, <1>4, <3>1, <3>3, RenderedPage DEF Living
    <3>5. Lone(e)'
      BY <1>0, <1>4, <3>1, <3>3, <3>4, RenderedPage DEF Lone
    <3>6. Mirrored(e)'
      BY <1>0, <1>20, <1>4, <2>4, <3>1, <3>3, RenderedPage DEF Mirrored
    <3> QED
      BY <3>5, <3>6
  <2> QED
    BY <2>3, <2>4
<1>5. ASSUME NEW c \in Clients, Forget(c) PROVE Good(e)'
  <2>1. CASE e = c
    BY <1>0, <1>5, <2>1, Forgot
  <2>2. CASE e # c
    <3>1. e \in alone /\ page'[e] = page[e]
      BY <1>0, <1>20, <1>5, <2>2, Forgot
    <3>2. SUFFICES ASSUME page[e].lives PROVE Lone(e)' /\ Mirrored(e)'
      BY <3>1 DEF Mirrors
    <3>3. Lone(e) /\ Mirrored(e)
      BY <3>1, <3>2 DEF Mirrors
    <3>4. Living(page[e].of)' = Living(page[e].of)
      <4>1. c \notin Living(page[e].of)
        BY <2>2, <3>3 DEF Lone
      <4> QED
        BY <1>0, <1>5, <3>1, <4>1, Forgot DEF Living
    <3>5. Lone(e)'
      BY <1>0, <1>5, <3>1, <3>3, <3>4, Forgot DEF Lone
    <3>6. Mirrored(e)'
      BY <1>0, <1>20, <1>5, <2>2, <3>1, <3>3, Forgot DEF Mirrored
    <3> QED
      BY <3>5, <3>6
  <2> QED
    BY <2>1, <2>2
<1>6. ASSUME NEW c \in Clients, Mirror(c) PROVE Good(e)'
  <2>1. /\ page' = page /\ live' = live /\ cookie' = cookie /\ rooms' = rooms /\ alone' = alone
        /\ outbox[c] # <<>> /\ Listeners(c) # {}
        /\ local' = [b \in Browsers |-> IF b \in Listeners(c) THEN Head(outbox[c]) ELSE local[b]]
        /\ outbox' = [outbox EXCEPT ![c] = Tail(outbox[c])]
    BY <1>6 DEF Mirror, socketVars
  <2>2. SUFFICES ASSUME page[e].lives PROVE Lone(e)' /\ Mirrored(e)'
    BY <2>1 DEF Mirrors
  <2>3. Lone(e) /\ Mirrored(e)
    BY <2>1, <2>2 DEF Mirrors
  <2>4. Lone(e)'
    BY <2>1, <2>3 DEF Lone, Living
  <2>5. CASE e = c
    <3>1. page[e].of \in Listeners(c) /\ page[e].of \in Browsers
      BY <2>1, <2>3, <2>5 DEF Lone, Listeners
    <3>2. local'[page[e].of] = Head(outbox[c])
      BY <2>1, <3>1
    <3>3. outbox'[c] = Tail(outbox[c]) /\ outbox[c] \in Seq({"on", "off"})
      BY <1>1, <2>1
    <3>4. Mirrored(e)'
      BY <2>1, <2>3, <2>5, <3>2, <3>3, Dequeued DEF Mirrored
    <3> QED
      BY <2>4, <3>4
  <2>6. CASE e # c
    <3>1. page[e].of \notin Listeners(c)
      BY <2>3, <2>6 DEF Lone, Listeners
    <3>2. local'[page[e].of] = local[page[e].of]
      BY <2>1, <2>3, <3>1 DEF Lone
    <3>3. outbox'[e] = outbox[e]
      BY <1>1, <1>20, <2>1, <2>6
    <3>4. Mirrored(e)'
      BY <2>1, <2>3, <3>2, <3>3 DEF Mirrored
    <3> QED
      BY <2>4, <3>4
  <2> QED
    BY <2>5, <2>6
<1>7. ASSUME NEW s \in Sockets, NEW b \in Browsers \union {NoCookie}, NEW c \in Clients, Connect(s, b, c)
      PROVE  Good(e)'
  <2>1. /\ page' = page /\ live' = live /\ outbox' = outbox /\ local' = local
        /\ rooms' = rooms /\ alone' = alone
        /\ rooms[s] = {} /\ cookie' = [cookie EXCEPT ![s] = b]
    BY <1>0, <1>7 DEF Connect, clientVars, Housed
  <2>2. \A t \in Sockets : rooms[t] # {} => cookie'[t] = cookie[t]
    BY <1>1, <2>1
  <2> QED
    BY <2>1, <2>2 DEF Mirrors, Lone, Mirrored, Living
<1>8. ASSUME NEW s \in Sockets, Disconnect(s) PROVE Good(e)'
  <2>1. /\ page' = page /\ live' = live /\ outbox' = outbox /\ local' = local /\ alone' = alone
        /\ cookie' = [cookie EXCEPT ![s] = ""] /\ rooms' = [rooms EXCEPT ![s] = {}]
    BY <1>8 DEF Disconnect, clientVars
  <2>2. /\ rooms'[s] = {}
        /\ \A t \in Sockets : rooms'[t] # {} => rooms'[t] = rooms[t] /\ cookie'[t] = cookie[t]
    BY <1>1, <2>1
  <2> QED
    BY <2>1, <2>2 DEF Mirrors, Lone, Mirrored, Living
<1>9. ASSUME NEW s \in Sockets, NEW c \in Clients, Handshake(s, c) PROVE Good(e)'
  <2>1. /\ page' = page /\ live' = live /\ outbox' = outbox /\ local' = local /\ cookie' = cookie
        /\ rooms' = [rooms EXCEPT ![s] = rooms[s] \union {c}] /\ page[c].lives
        /\ alone' = IF cookie[s] = page[c].of THEN alone ELSE alone \ ({c} \union Living(cookie[s]))
    BY <1>9 DEF Handshake, clientVars
  <2>2. e \in alone
    BY <2>1
  <2>3. SUFFICES ASSUME page[e].lives PROVE Lone(e)' /\ Mirrored(e)'
    BY <2>1, <2>2 DEF Mirrors
  <2>4. Lone(e) /\ Mirrored(e)
    BY <2>2, <2>3 DEF Mirrors
  <2>5. e = c <=> cookie[s] = page[e].of
    <3>1. CASE cookie[s] = page[c].of
      BY <1>20, <2>1, <2>3, <2>4, <3>1 DEF Lone, Living
    <3>2. CASE cookie[s] # page[c].of
      BY <1>20, <2>1, <2>3, <3>2 DEF Living
    <3> QED
      BY <3>1, <3>2
  <2>6. \A t \in Sockets : rooms'[t] = IF t = s THEN rooms[t] \union {c} ELSE rooms[t]
    BY <1>1, <2>1
  <2>7. Lone(e)'
    BY <2>1, <2>4, <2>5, <2>6 DEF Lone, Living
  <2> QED
    BY <2>1, <2>4, <2>7 DEF Mirrored
<1>10. ASSUME NEW s \in Sockets, NEW c \in Clients, Submit(s, c) PROVE Good(e)'
  BY <1>2, <1>10 DEF Submit, clientVars, socketVars
<1>11. ASSUME NEW s \in Sockets, NEW c \in Clients, Logout(s, c) PROVE Good(e)'
  BY <1>2, <1>11 DEF Logout, clientVars, socketVars
<1>12. ASSUME NEW s \in Sockets, NEW c \in Clients, Toggle(s, c) PROVE Good(e)'
  <2>1. /\ page' = page /\ local' = local /\ cookie' = cookie /\ rooms' = rooms /\ alone' = alone
        /\ live' = [live EXCEPT ![c] = Flip(live[c])]
        /\ outbox' = [outbox EXCEPT ![c] = Append(outbox[c], Flip(live[c]))]
    BY <1>12 DEF Toggle, socketVars
  <2>2. /\ live'[c] \in {"on", "off"} /\ outbox'[c] = Append(outbox[c], live'[c])
        /\ \A d \in Clients \ {c} : live'[d] = live[d] /\ outbox'[d] = outbox[d]
    BY <1>1, <2>1 DEF Flip
  <2>3. SUFFICES ASSUME page[e].lives PROVE Lone(e)' /\ Mirrored(e)'
    BY <2>1 DEF Mirrors
  <2>4. Lone(e) /\ Mirrored(e)
    BY <2>1, <2>3 DEF Mirrors
  <2>5. Lone(e)'
    BY <2>1, <2>4 DEF Lone, Living
  <2>6. Mirrored(e)'
    <3>1. CASE e = c
      <4>1. outbox'[c] # <<>> /\ outbox'[c][Len(outbox'[c])] = live'[c]
        <5>1. outbox[c] \in Seq({"on", "off"})
          BY <1>1
        <5> QED
          BY <2>2, <5>1, Queued
      <4> QED
        BY <3>1, <4>1 DEF Mirrored
    <3>2. CASE e # c
      BY <1>20, <2>1, <2>2, <2>4, <3>2 DEF Mirrored
    <3> QED
      BY <3>1, <3>2
  <2> QED
    BY <2>5, <2>6
<1>13. CASE Restart
  <2>1. alone' = alone
    BY <1>13 DEF Restart
  <2>2. ~page'[e].lives /\ (page'[e] = Unborn => page[e] = Unborn)
    <3>1. \A c \in Clients : ~page'[c].lives /\ (page'[c] = Unborn => page[c] = Unborn)
      BY <1>0, <1>13, Restarted
    <3> QED
      BY <1>20, <3>1
  <2> QED
    BY <2>1, <2>2 DEF Mirrors
<1>14. CASE UNCHANGED SessionsVars
  BY <1>2, <1>14 DEF SessionsVars, clientVars, socketVars
<1> QED
  BY <1>3, <1>4, <1>5, <1>6, <1>7, <1>8, <1>9, <1>10, <1>11, <1>12, <1>13, <1>14 DEF SessionsNext

-----------------------------------------------------------------------------
(* The theorems *)

\* Both invariants hold in every behaviour.
THEOREM SessionsInvariant == SessionsSpec => [](Guarded /\ Mirrors)
<1>1. Guarded /\ Mirrors /\ [SessionsNext]_SessionsVars => (Guarded /\ Mirrors)'
  BY GuardedStep, MirrorsStep
<1> QED
  BY <1>1, InitGuarded, PTL DEF SessionsSpec

\* Every variable of the login and of the pages keeps its type.
THEOREM SessionsTypeCorrect == SessionsSpec => []SessionsTypeOK
<1>1. Guarded => SessionsTypeOK
  BY DEF Guarded
<1> QED
  BY <1>1, SessionsInvariant, PTL

\* However many sockets a browser opens, whichever pages they name and whenever the
\* process restarts: with auth on, what acts behind the login has been vouched for.
THEOREM ActorsAreVerified == SessionsSpec => OnlyVerifiedAct
<1>1. Guarded /\ [SessionsNext]_SessionsVars =>
        [\A s \in Sockets, c \in Clients :
           login = "pam" /\ (Logout(s, c) \/ Toggle(s, c)) => cookie[s] \in verified]_SessionsVars
  <2> SUFFICES ASSUME Guarded, NEW s \in Sockets, NEW c \in Clients, login = "pam",
                      Logout(s, c) \/ Toggle(s, c)
               PROVE  cookie[s] \in verified
    OBVIOUS
  <2>1. c \in rooms[s]
    BY DEF Logout, Toggle, Speaks
  <2>2. page[c].route # "/login"
    BY DEF Logout, Toggle, Guarded, Drawn
  <2> QED
    BY <2>1, <2>2 DEF Guarded, Admitted
<1> QED
  BY <1>1, SessionsInvariant, PTL DEF SessionsSpec, OnlyVerifiedAct

\* However long the queue of a lone page gets: once it is empty, localStorage has what
\* the page shows.
THEOREM MirrorIsTrue == SessionsSpec => []MirrorFollowsLonePage
<1>1. Mirrors => MirrorFollowsLonePage
  BY DEF Mirrors, MirrorFollowsLonePage, Mirrored
<1> QED
  BY <1>1, SessionsInvariant, PTL

=============================================================================
