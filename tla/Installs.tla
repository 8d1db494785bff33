-------------------------------- MODULE Installs --------------------------------
(***************************************************************************)
(* The store list and the compose directory: cloning and removing a store, *)
(* installing, uninstalling and adopting an app, from browser tabs and     *)
(* from the command line.                                                  *)
(*                                                                         *)
(* An installed app is a symlink in the compose directory, and that link   *)
(* is the only record of it.  A tab acts on what its page rendered, the    *)
(* command line on what it reads when it is called; both check first, then *)
(* build a plan of shell commands, maybe ask the user, and run it command  *)
(* by command.  The commands check nothing themselves: what ln, rm and cp  *)
(* do depends on what has the name by then.                                *)
(*                                                                         *)
(* A clone, an rm -rf and a cp -r are one step each, and a page renders in *)
(* one.  Badges, versions, image pulls and sign-ins are left out, and so   *)
(* is a merge in progress, which hides a store's cards.                    *)
(***************************************************************************)
EXTENDS Naturals, Sequences, FiniteSets

CONSTANTS
  Stores,      \* the stores, cloned or only listed as seeds
  Apps,        \* the apps in them
  StoreOf,     \* the store an app is in
  Names,       \* the names an entry of the compose directory can have
  NameOf,      \* the name an app has in its store
  Tabs, Clis,  \* who is at work: browser tabs, and shells with the CLI
  Nothing,     \* no entry
  ByHand,      \* a directory the user made
  Adopted      \* a directory that adopting an app left

Actors == Tabs \union Clis
Entries == Apps \union {Nothing, ByHand, Adopted}

ASSUME InstallsAssumption ==
  /\ StoreOf \in [Apps -> Stores] /\ NameOf \in [Apps -> Names]
  /\ Tabs \intersect Clis = {}
  /\ Apps \intersect {Nothing, ByHand, Adopted} = {}
  /\ Nothing \notin {ByHand, Adopted} /\ ByHand # Adopted

VARIABLES
  cloned,   \* the stores with a checkout
  root,     \* whether the compose directory exists
  entry,    \* what each name in it is: a link to an app, a directory, nothing
  up,       \* the names with containers
  page,     \* what each tab shows: the cloned stores, and the installed apps
  doing,    \* what each session is doing; see Activities
  plan,     \* the commands it has still to run
  spilled,  \* history: the names inside which ln or cp put something
  doubt,    \* history: why an uninstall may not know whether the app is up
  advised   \* history: what the CLI told the user of a link to a removed store

dirVars      == <<cloned, root, entry, spilled, advised>>
actorVars    == <<page, doing, plan, doubt>>
InstallsVars == <<dirVars, up, actorVars>>

\* "asking" docker for the status; "confirming" with the user; running in a
\* streaming "dialog" or "quiet"ly; and re-rendering the page afterwards.
Activities == {"idle", "asking", "confirming", "dialog", "quiet", "refreshing"}
Running(w) == doing[w] \in {"dialog", "quiet"}

\* The commands of a plan.
Mkdir == [op |-> "mkdir"]
Ln(a, n) == [op |-> "ln", app |-> a, name |-> n]
Rm(n) == [op |-> "rm", name |-> n]
Cp(a, n) == [op |-> "cp", app |-> a, name |-> n]
Down(n) == [op |-> "down", name |-> n]
Clone(s) == [op |-> "clone", store |-> s]
RmStore(s, left) == [op |-> "rmstore", store |-> s, left |-> left]

\* What is behind a name is a directory: the user's, or a checkout's.
IsDir(n) == entry[n] \in {ByHand, Adopted}
            \/ (entry[n] \in Apps /\ StoreOf[entry[n]] \in cloned)

\* _resolve(): the app behind a link, if the link is into a configured store.
Resolve(n) ==
  IF entry[n] \in Apps /\ StoreOf[entry[n]] \in cloned THEN entry[n] ELSE Nothing

\* installed()
Installed == [n \in Names |-> Resolve(n)]

Shown == [stores |-> cloned, links |-> Installed]

InstallsInit ==
  /\ cloned = {} /\ root = FALSE
  /\ entry = [n \in Names |-> Nothing]
  /\ up = {} /\ spilled = {}
  /\ page = [t \in Tabs |-> Shown]
  /\ doing = [w \in Actors |-> "idle"]
  /\ plan = [w \in Actors |-> <<>>]
  /\ doubt = [w \in Actors |-> {}]
  /\ advised = [n \in Names |-> "nothing"]

-----------------------------------------------------------------------------
(* Pressing buttons and calling commands *)

\* The page is re-rendered: after an action, and whenever the user reloads it.
Reload(t) ==
  /\ doing[t] \in {"idle", "refreshing"}
  /\ page' = [page EXCEPT ![t] = Shown]
  /\ doing' = [doing EXCEPT ![t] = "idle"]
  /\ UNCHANGED <<dirVars, up, plan, doubt>>

\* Session w, which is idle, has made its checks and decided on a plan.
Decide(w, p, commands) ==
  /\ doing[w] = "idle"
  /\ doing' = [doing EXCEPT ![w] = p]
  /\ plan' = [plan EXCEPT ![w] = commands]
  /\ doubt' = [doubt EXCEPT ![w] = {}]
  /\ UNCHANGED <<cloned, root, entry, spilled, advised, up, page>>

\* install_commands()
InstallPlan(a, n) == IF root THEN <<Ln(a, n)>> ELSE <<Mkdir, Ln(a, n)>>

\* install_command(): refuses if a link or anything else has the name.
MayInstall(n) == entry[n] = Nothing

\* The Install button of an app's card, which shows no link to it.
PressInstall(t, a) ==
  /\ StoreOf[a] \in page[t].stores
  /\ \A n \in Names : page[t].links[n] # a
  /\ MayInstall(NameOf[a])
  /\ Decide(t, "dialog", InstallPlan(a, NameOf[a]))

\* `install APP --as NAME`
CliInstall(c, a, n) ==
  /\ StoreOf[a] \in cloned /\ MayInstall(n)
  /\ Decide(c, "quiet", InstallPlan(a, n))

\* The Uninstall button: asks whether the app is up first.
PressUninstall(t, n) ==
  /\ page[t].links[n] # Nothing
  /\ Decide(t, "asking", <<Rm(n)>>)

\* `uninstall NAME`: documented not to stop the app.
CliUninstall(c, n) ==
  /\ Resolve(n) # Nothing
  /\ Decide(c, "quiet", <<Rm(n)>>)

\* `uninstall NAME` of a link that does not resolve: refused as not a store's.
CliRefuses(c, n) ==
  /\ doing[c] = "idle"
  /\ entry[n] \in Apps /\ Resolve(n) = Nothing
  /\ advised[n] = "left"
  /\ advised' = [advised EXCEPT ![n] = "refused"]
  /\ UNCHANGED <<cloned, root, entry, spilled, up, actorVars>>

\* The commands of adopt_commands(), which the user is asked to confirm.
PressAdopt(t, n) ==
  /\ page[t].links[n] # Nothing
  /\ Decide(t, "confirming", <<Rm(n), Cp(page[t].links[n], n)>>)

CliAdopt(c, n) ==
  /\ Resolve(n) # Nothing
  /\ Decide(c, "confirming", <<Rm(n), Cp(entry[n], n)>>)

\* Clone, on a page that shows the store as not cloned, and `add`.
PressClone(t, s) ==
  /\ s \notin page[t].stores
  /\ Decide(t, "dialog", <<Clone(s)>>)

CliAdd(c, s) ==
  /\ s \notin cloned
  /\ Decide(c, "quiet", <<Clone(s)>>)

\* The names that removing store s will leave dangling, according to some links.
PointInto(links, s) == {n \in Names : links[n] # Nothing /\ StoreOf[links[n]] = s}

PressRemove(t, s) ==
  /\ s \in page[t].stores
  /\ Decide(t, "confirming", <<RmStore(s, {})>>)

\* `remove SLUG`, which tells the user afterwards what it left.
CliRemove(c, s) ==
  /\ s \in cloned
  /\ Decide(c, "confirming", <<RmStore(s, PointInto(Installed, s))>>)

-----------------------------------------------------------------------------
(* Docker's answer and the user's *)

Proceed(w, p, commands, why) ==
  /\ doing' = [doing EXCEPT ![w] = p]
  /\ plan' = [plan EXCEPT ![w] = commands]
  /\ doubt' = [doubt EXCEPT ![w] = why]
  /\ UNCHANGED <<dirVars, up, page>>

\* _is_up() is False: no containers, no compose file to ask about, or a docker
\* that does not answer, which counts as "down".
FoundDown(t) ==
  /\ doing[t] = "asking"
  /\ \E why \in SUBSET {"no file", "no answer"} :
       /\ ("no file" \in why) <=> ~IsDir(Head(plan[t]).name)
       /\ why = {} => Head(plan[t]).name \notin up
       /\ Proceed(t, "quiet", plan[t], why)

\* _is_up() is True: the user is asked to stop it.
FoundUp(t) ==
  /\ doing[t] = "asking"
  /\ Head(plan[t]).name \in up /\ IsDir(Head(plan[t]).name)
  /\ Proceed(t, "confirming", plan[t], {})

Stopping(t) == t \in Tabs /\ Len(plan[t]) = 1 /\ Head(plan[t]).op = "rm"

\* Yes to _confirm_stop(): down comes first, if there still is a compose file.
ConfirmStop(t) ==
  /\ doing[t] = "confirming" /\ Stopping(t)
  /\ LET n == Head(plan[t]).name IN
       IF IsDir(n) THEN Proceed(t, "dialog", <<Down(n), Rm(n)>>, {})
                   ELSE Proceed(t, "quiet", plan[t], {"no file"})

\* Yes to adopting an app or removing a store.
Confirm(w) ==
  /\ doing[w] = "confirming" /\ ~Stopping(w)
  /\ Proceed(w, IF w \in Tabs /\ Head(plan[w]).op = "rmstore" THEN "dialog" ELSE "quiet",
             plan[w], {})

\* Mutant of Decline: a dismissed dialog is left waiting.
Bug_Dismiss(w) ==
  /\ doing[w] = "confirming"
  /\ Proceed(w, "confirming", <<>>, {})

\* No, or the dialog dismissed, which counts as no.
Decline(w) ==
  /\ doing[w] = "confirming"
  /\ Proceed(w, "idle", <<>>, {})

-----------------------------------------------------------------------------
(* The commands *)

\* Session w is about to run command op.
About(w, op) == Running(w) /\ Head(plan[w]).op = op

\* Mutant of Ran: a failed command does not stop the plan.
Bug_RanOn(w, ok) ==
  LET rest == Tail(plan[w]) IN
  /\ plan' = [plan EXCEPT ![w] = rest]
  /\ doing' = [doing EXCEPT ![w] =
       IF rest # <<>> THEN doing[w] ELSE IF w \in Tabs THEN "refreshing" ELSE "idle"]

\* The command succeeded or failed: the plan goes on or stops there.  A tab
\* re-renders after a dialog, and after what it ran quietly and in full.
Ran(w, ok) ==
  LET rest == IF ok THEN Tail(plan[w]) ELSE <<>> IN
  /\ plan' = [plan EXCEPT ![w] = rest]
  /\ doing' = [doing EXCEPT ![w] =
       IF rest # <<>> THEN doing[w]
       ELSE IF w \in Tabs /\ (ok \/ doing[w] = "dialog") THEN "refreshing"
       ELSE "idle"]

\* Any command can fail and change nothing: its precondition does not hold, the
\* disk is full, docker or the network does not answer.
CommandFails(w) ==
  /\ Running(w)
  /\ Ran(w, FALSE)
  /\ UNCHANGED <<dirVars, up, page, doubt>>

MakeRoot(w) ==
  /\ About(w, "mkdir")
  /\ root' = TRUE
  /\ Ran(w, TRUE)
  /\ UNCHANGED <<cloned, entry, spilled, advised, up, page, doubt>>

\* Name n comes to be something, or nothing.
Place(n, e) ==
  /\ entry' = [entry EXCEPT ![n] = e]
  /\ spilled' = spilled \ {n}
  /\ advised' = [advised EXCEPT ![n] = "nothing"]

\* ln -s, or cp -r, put what it makes inside the directory that has the name.
Spill(n) ==
  /\ IsDir(n)
  /\ spilled' = spilled \union {n}
  /\ UNCHANGED <<entry, advised>>

Link(w) ==
  /\ About(w, "ln") /\ root
  /\ LET c == Head(plan[w]) IN
       (entry[c.name] = Nothing /\ Place(c.name, c.app)) \/ Spill(c.name)
  /\ Ran(w, TRUE)
  /\ UNCHANGED <<cloned, root, up, page, doubt>>

\* Mutant of Unlink: rm -rf.
Bug_RmRecursively(w) ==
  /\ About(w, "rm")
  /\ entry[Head(plan[w]).name] # Nothing
  /\ Place(Head(plan[w]).name, Nothing)
  /\ Ran(w, TRUE)
  /\ UNCHANGED <<cloned, root, up, page, doubt>>

\* rm, with no -r: only of a link, whatever it points to by now.
Unlink(w) ==
  /\ About(w, "rm")
  /\ entry[Head(plan[w]).name] \in Apps
  /\ Place(Head(plan[w]).name, Nothing)
  /\ Ran(w, TRUE)
  /\ UNCHANGED <<cloned, root, up, page, doubt>>

\* cp -r: can stop half way, leaving a directory.
Copy(w) ==
  /\ About(w, "cp") /\ StoreOf[Head(plan[w]).app] \in cloned
  /\ LET n == Head(plan[w]).name IN
       (entry[n] = Nothing /\ Place(n, Adopted)) \/ Spill(n)
  /\ \E ok \in BOOLEAN : Ran(w, ok)
  /\ UNCHANGED <<cloned, root, up, page, doubt>>

\* docker compose down, run in the app's directory.
StopApp(w) ==
  /\ About(w, "down") /\ IsDir(Head(plan[w]).name)
  /\ up' = up \ {Head(plan[w]).name}
  /\ Ran(w, TRUE)
  /\ UNCHANGED <<dirVars, page, doubt>>

\* git clone: not into a directory that is there.
GitClone(w) ==
  /\ About(w, "clone") /\ Head(plan[w]).store \notin cloned
  /\ cloned' = cloned \union {Head(plan[w]).store}
  /\ Ran(w, TRUE)
  /\ UNCHANGED <<root, entry, spilled, advised, up, page, doubt>>

\* rm -rf of a checkout.  The CLI then names the links it left.
DeleteStore(w) ==
  /\ About(w, "rmstore")
  /\ cloned' = cloned \ {Head(plan[w]).store}
  /\ advised' = [n \in Names |-> IF n \in Head(plan[w]).left /\ entry[n] \in Apps
                              THEN "left" ELSE advised[n]]
  /\ Ran(w, TRUE)
  /\ UNCHANGED <<root, entry, spilled, up, page, doubt>>

-----------------------------------------------------------------------------
(* What goes on meanwhile *)

\* Up, on the Apps page or in a shell.  A session about to unlink n misses it.
UpApp(n) ==
  /\ IsDir(n) /\ n \notin up
  /\ up' = up \union {n}
  /\ doubt' = [w \in Actors |-> IF Running(w) /\ plan[w] = <<Rm(n)>>
                                  THEN doubt[w] \union {"came up"} ELSE doubt[w]]
  /\ UNCHANGED <<dirVars, page, doing, plan>>

\* Down, on the Apps page or in a shell.
DownApp(n) ==
  /\ IsDir(n) /\ n \in up
  /\ up' = up \ {n}
  /\ UNCHANGED <<dirVars, actorVars>>

\* The user makes an app of their own (a shell, or create() on the Apps page).
UserMakes(n) ==
  /\ entry[n] = Nothing
  /\ root' = TRUE
  /\ Place(n, ByHand)
  /\ UNCHANGED <<cloned, up, actorVars>>

\* The user removes a directory that is theirs.
UserRemoves(n) ==
  /\ entry[n] \in {ByHand, Adopted}
  /\ Place(n, Nothing)
  /\ UNCHANGED <<cloned, root, up, actorVars>>

TabStep(t) ==
  \/ Reload(t)
  \/ \E a \in Apps : PressInstall(t, a)
  \/ \E n \in Names : PressUninstall(t, n) \/ PressAdopt(t, n)
  \/ \E s \in Stores : PressClone(t, s) \/ PressRemove(t, s)
  \/ FoundDown(t) \/ FoundUp(t) \/ ConfirmStop(t)

CliStep(c) ==
  \/ \E a \in Apps, n \in Names : CliInstall(c, a, n)
  \/ \E n \in Names : CliUninstall(c, n) \/ CliRefuses(c, n) \/ CliAdopt(c, n)
  \/ \E s \in Stores : CliAdd(c, s) \/ CliRemove(c, s)

Command(w) ==
  \/ CommandFails(w) \/ MakeRoot(w) \/ Link(w) \/ Unlink(w) \/ Copy(w)
  \/ StopApp(w) \/ GitClone(w) \/ DeleteStore(w)

Others == \E n \in Names : UpApp(n) \/ DownApp(n) \/ UserMakes(n) \/ UserRemoves(n)

InstallsNext ==
  \/ \E t \in Tabs : TabStep(t)
  \/ \E c \in Clis : CliStep(c)
  \/ \E w \in Actors : Confirm(w) \/ Decline(w) \/ Command(w)
  \/ Others

InstallsSpec == InstallsInit /\ [][InstallsNext]_InstallsVars

-----------------------------------------------------------------------------
(* Properties *)

PlanCommands ==
  {Mkdir}
  \union {Ln(a, n) : a \in Apps, n \in Names} \union {Cp(a, n) : a \in Apps, n \in Names}
  \union {Rm(n) : n \in Names} \union {Down(n) : n \in Names}
  \union {Clone(s) : s \in Stores}
  \union {RmStore(s, l) : s \in Stores, l \in SUBSET Names}

\* The type invariant.  A session has commands to run exactly while it asks,
\* confirms or runs them.
InstallsTypeOK ==
  /\ cloned \subseteq Stores /\ root \in BOOLEAN
  /\ entry \in [Names -> Entries]
  /\ up \subseteq Names /\ spilled \subseteq Names
  /\ page \in [Tabs -> [stores : SUBSET Stores, links : [Names -> Apps \union {Nothing}]]]
  /\ doing \in [Actors -> Activities]
  /\ plan \in [Actors -> Seq(PlanCommands)]
  /\ \A w \in Actors : plan[w] = <<>> <=> doing[w] \in {"idle", "refreshing"}
  /\ doubt \in [Actors -> SUBSET {"no file", "no answer", "came up"}]
  /\ advised \in [Names -> {"nothing", "left", "refused"}]

\* What the user made or adopted is removed by the user only, whatever a stale
\* page or an old plan takes it for (installs.uninstall, Install.uninstall_command).
UserDirsKept ==
  [][\A n \in Names : entry[n] \in {ByHand, Adopted} /\ entry'[n] # entry[n]
                      => UserRemoves(n)]_InstallsVars

\* A ln whose name has become a project of the user's since the check does not put
\* its link inside it (install_command: "ln would refuse anyway").
LnRefuses ==
  [][\A w \in Actors, n \in Names :
       /\ About(w, "ln") /\ Head(plan[w]).name = n /\ plan'[w] # plan[w]
       /\ entry[n] \in {ByHand, Adopted}
       => n \notin spilled' \ spilled]_InstallsVars

\* A tab about to unlink an app that is up either got no answer about it, or the
\* app came up after the answer (_is_up's "uninstall refuses until the app is down").
StoppedBeforeUninstall ==
  \A t \in Tabs, n \in Names :
    Running(t) /\ plan[t] = <<Rm(n)>> /\ doubt[t] = {} => n \notin up

\* An `uninstall NAME` that `remove` told the user to run is not refused (cli.py:
\* "Left dangling (remove with `spiriconfig appstore uninstall <name>`)").
AdviceWorks == \A n \in Names : advised[n] # "refused"
=============================================================================
