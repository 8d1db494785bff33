---------------------------------- MODULE Logins ----------------------------------
(***************************************************************************)
(* The logins of private app stores: one user and token per host, kept     *)
(* twice, in git's credential store for the clone and in docker's          *)
(* config.json for the pull.                                               *)
(*                                                                         *)
(* Saving one is two commands, and so is forgetting one, the git half      *)
(* first each time; docker's half asks the registry, which may refuse.     *)
(* The commands run on worker threads: the page and the command line can   *)
(* have several under way for one host.  The credential helper of git and  *)
(* docker are external, modelled by what they do to their files.           *)
(***************************************************************************)
EXTENDS Naturals, Sequences

CONSTANTS
  Hands,   \* who runs a command: buttons of the page, terminals
  Hosts,      \* hosts as git and docker know them
  AsListed(_), \* the name the list has for one: `urlsplit(...).hostname' of its line, in
              \* which git has encoded the colon of a port ("h%3a3000")
  Users,      \* user names; a login is one of them, with its token
  NoUser      \* docker is not logged in

ASSUME LoginsAssumption ==
  /\ NoUser \notin Users
  /\ \A h \in Hosts : AsListed(AsListed(h)) = AsListed(h)

VARIABLES
  store,    \* per host: the users of its lines in ~/.git-credentials, the first one first
  docker,   \* per host: the user docker is logged in as
  running,  \* per session: the operation under way
  sawHosts, \* per session: the hosts its page lists
  told      \* history: the hosts an operation has failed for since the last that did not

LoginsVars == <<store, docker, running, sawHosts, told>>

\* What commands can be given: the hosts, and the names in the list.
Keys == Hosts \union {AsListed(h) : h \in Hosts}
Idle == [op |-> "none", host |-> "", user |-> NoUser]

\* The user git clones as: the first of the host's lines.
GitUser(h) == IF store[h] = <<>> THEN NoUser ELSE Head(store[h])

\* logins(): the names of the hosts that have a line.
Listed == {AsListed(h) : h \in {k \in Keys : store[k] # <<>>}}

LoginsInit ==
  /\ store = [h \in Keys |-> <<>>] /\ docker = [h \in Keys |-> NoUser]
  /\ running = [s \in Hands |-> Idle] /\ sawHosts = [s \in Hands |-> {}]
  /\ told = {}

Begin(s, op, h, u) ==
  /\ running[s] = Idle
  /\ running' = [running EXCEPT ![s] = [op |-> op, host |-> h, user |-> u]]
  /\ UNCHANGED <<store, docker, sawHosts, told>>

\* render_list()
SeeHosts(s) ==
  /\ running[s] = Idle /\ sawHosts' = [sawHosts EXCEPT ![s] = Listed]
  /\ UNCHANGED <<store, docker, running, told>>

\* store_credentials() and forget_credentials() are started: the second from a line of the
\* list, or for any host from the command line.
Login(s, h, u) == Begin(s, "approve", h, u)
ForgetListed(s, h) == h \in sawHosts[s] /\ Begin(s, "reject", h, NoUser)
LogOut(s, h)   == Begin(s, "reject", h, NoUser)

\* The lines of a host but for the user's, which is one at most.
Without(lines, u) ==
  IF \A k \in 1..Len(lines) : lines[k] # u THEN lines
  ELSE LET k == CHOOSE i \in 1..Len(lines) : lines[i] = u
       IN SubSeq(lines, 1, k - 1) \o SubSeq(lines, k + 1, Len(lines))

\* git credential approve: the line of the same host and user is replaced, and put first.
\* git credential reject: every line of the host is dropped.
Lines(op, h, u) ==
  store' = [store EXCEPT ![h] = IF op = "approve" THEN <<u>> \o Without(@, u) ELSE <<>>]

GitDone(s) ==
  /\ running[s].op \in {"approve", "reject"}
  /\ Lines(running[s].op, running[s].host, running[s].user)
  /\ running' = [running EXCEPT ![s].op = IF @ = "approve" THEN "login" ELSE "logout"]
  /\ UNCHANGED <<docker, sawHosts, told>>

\* Mutant of Refused: a registry that refuses is not an error.
Bug_GitWillDo(h) == told \ {h}
Refused(h) == told \union {h}

\* docker login, docker logout: a notification says how it went.  The list is read again
\* when it went well.
DockerDone(s) ==
  /\ running[s].op \in {"login", "logout"}
  /\ docker' = [docker EXCEPT ![running[s].host] = running[s].user]
  /\ running' = [running EXCEPT ![s] = Idle]
  /\ told' = told \ {running[s].host}
  /\ sawHosts' = [sawHosts EXCEPT ![s] = Listed]
  /\ UNCHANGED store

\* Either command fails: CredentialError, and nothing is undone or tried after it.
Fail(s) ==
  /\ running[s] # Idle
  /\ running' = [running EXCEPT ![s] = Idle]
  /\ told' = Refused(running[s].host)
  /\ UNCHANGED <<store, docker, sawHosts>>

Use(s) ==
  \/ SeeHosts(s) \/ GitDone(s) \/ DockerDone(s) \/ Fail(s)
  \/ \E h \in Keys : ForgetListed(s, h) \/ LogOut(s, h)
  \/ \E h \in Hosts, u \in Users : Login(s, h, u)

LoginsNext == \E s \in Hands : Use(s)
LoginsSpec == LoginsInit /\ [][LoginsNext]_LoginsVars

-----------------------------------------------------------------------------
(* Properties *)

\* The type invariant.
LoginsTypeOK ==
  /\ DOMAIN store = Keys /\ \A h \in Keys : store[h] \in Seq(Users)
  /\ docker \in [Keys -> Users \union {NoUser}]
  /\ \A s \in Hands : running[s] = Idle
       \/ /\ running[s].op \in {"approve", "reject", "login", "logout"}
          /\ running[s].host \in Keys /\ running[s].user \in Users \union {NoUser}
  /\ sawHosts \in [Hands -> SUBSET Keys]
  /\ told \subseteq Keys

\* "One user/token written under that host key covers both, and stays in sync because
\* there is only ever one key": when nothing is under way, git and docker are logged in to
\* a host as the same user, or to neither, unless the last operation on it failed and said so.
StoresAgree ==
  (\A s \in Hands : running[s] = Idle) =>
    \A h \in Keys \ told : docker[h] = GitUser(h)

\* "A leaked or over-scoped token has an in-tool way out": when `Log out' of a listed login
\* has said it is done, and nothing else is under way, the list has it no more.
ForgottenIsGone ==
  [][\A s \in Hands :
       running[s].op = "logout" /\ running'[s] = Idle /\ running[s].host \notin told' =>
         \/ running[s].host \notin Listed'
         \/ \E r \in Hands \ {s} : running[r] # Idle]_LoginsVars
=============================================================================
