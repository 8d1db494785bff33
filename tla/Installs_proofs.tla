---------------------------- MODULE Installs_proofs ----------------------------
(***************************************************************************)
(* Theorems about Installs: for any stores, apps and names, and however    *)
(* many tabs and shells are at work at once.                               *)
(***************************************************************************)
EXTENDS Installs, TLAPS

(* The plans there are: a command, or one of three pairs. *)
Plans ==
  {<<>>} \union {<<c>> : c \in PlanCommands}
  \union {<<Mkdir, Ln(a, n)>> : a \in Apps, n \in Names}
  \union {<<Rm(n), Cp(a, n)>> : a \in Apps, n \in Names}
  \union {<<Down(n), Rm(n)>> : n \in Names}

KnownPlans == plan \in [Actors -> Plans]

Inv == InstallsTypeOK /\ KnownPlans /\ StoppedBeforeUninstall

-----------------------------------------------------------------------------
(* A command says which it is, and what it is about. *)
LEMMA CommandFields ==
  ASSUME NEW c \in PlanCommands
  PROVE  /\ c.op \in {"mkdir", "ln", "cp", "rm", "down", "clone", "rmstore"}
         /\ c.op = "mkdir" => c = Mkdir
         /\ c.op = "ln" => c.app \in Apps /\ c.name \in Names /\ c = Ln(c.app, c.name)
         /\ c.op = "cp" => c.app \in Apps /\ c.name \in Names /\ c = Cp(c.app, c.name)
         /\ c.op = "rm" => c.name \in Names /\ c = Rm(c.name)
         /\ c.op = "down" => c.name \in Names /\ c = Down(c.name)
         /\ c.op = "clone" => c.store \in Stores
         /\ c.op = "rmstore" => c.store \in Stores /\ c.left \in SUBSET Names
BY DEF PlanCommands, Mkdir, Ln, Cp, Rm, Down, Clone, RmStore

(* Each constructor's operation. *)
LEMMA Operations ==
  /\ Mkdir.op = "mkdir"
  /\ \A a, n : Ln(a, n).op = "ln" /\ Ln(a, n).name = n
  /\ \A a, n : Cp(a, n).op = "cp" /\ Cp(a, n).name = n
  /\ \A n : Rm(n).op = "rm" /\ Rm(n).name = n
  /\ \A n : Down(n).op = "down" /\ Down(n).name = n
  /\ \A s : Clone(s).op = "clone"
  /\ \A s, l : RmStore(s, l).op = "rmstore"
BY DEF Mkdir, Ln, Cp, Rm, Down, Clone, RmStore

\* The commands are what their definitions say, each with an argument of its own kind.
LEMMA AreCommands ==
  /\ Mkdir \in PlanCommands
  /\ \A a \in Apps, n \in Names : Ln(a, n) \in PlanCommands /\ Cp(a, n) \in PlanCommands
  /\ \A n \in Names : Rm(n) \in PlanCommands /\ Down(n) \in PlanCommands
  /\ \A s \in Stores : Clone(s) \in PlanCommands
  /\ \A s \in Stores : \A l \in SUBSET Names : RmStore(s, l) \in PlanCommands
BY DEF PlanCommands

(* A plan's commands, and what is left of it when the first has succeeded. *)
LEMMA PlanParts ==
  ASSUME NEW p \in Plans
  PROVE  /\ p \in Seq(PlanCommands)
         /\ p # <<>> => Head(p) \in PlanCommands /\ Tail(p) \in Plans
         /\ \A c : p = <<c>> => Head(p) = c /\ Len(p) = 1 /\ Tail(p) = <<>>
         /\ p # <<>> =>
              \/ Tail(p) = <<>> /\ p = <<Head(p)>>
              \/ \E a \in Apps, n \in Names : Head(p) = Mkdir /\ Tail(p) = <<Ln(a, n)>> /\ p = <<Mkdir, Ln(a, n)>>
              \/ \E a \in Apps, n \in Names : Head(p) = Rm(n) /\ Tail(p) = <<Cp(a, n)>> /\ p = <<Rm(n), Cp(a, n)>>
              \/ \E n \in Names : Head(p) = Down(n) /\ Tail(p) = <<Rm(n)>> /\ p = <<Down(n), Rm(n)>>
<1>1. CASE p = <<>>
  BY <1>1
<1>2. CASE \E c \in PlanCommands : p = <<c>>
  <2>1. PICK c \in PlanCommands : p = <<c>>
    BY <1>2
  <2> QED BY <2>1 DEF Plans
<1>3. CASE \E a \in Apps, n \in Names : p = <<Mkdir, Ln(a, n)>>
  <2>1. PICK a \in Apps, n \in Names : p = <<Mkdir, Ln(a, n)>>
    BY <1>3
  <2>2. Head(p) = Mkdir /\ Tail(p) = <<Ln(a, n)>> /\ Len(p) = 2
    BY <2>1
  <2>3. Mkdir \in PlanCommands /\ Ln(a, n) \in PlanCommands
    BY AreCommands
  <2> QED BY <2>1, <2>2, <2>3 DEF Plans
<1>4. CASE \E a \in Apps, n \in Names : p = <<Rm(n), Cp(a, n)>>
  <2>1. PICK a \in Apps, n \in Names : p = <<Rm(n), Cp(a, n)>>
    BY <1>4
  <2>2. Head(p) = Rm(n) /\ Tail(p) = <<Cp(a, n)>> /\ Len(p) = 2
    BY <2>1
  <2>3. Rm(n) \in PlanCommands /\ Cp(a, n) \in PlanCommands
    BY AreCommands
  <2> QED BY <2>1, <2>2, <2>3 DEF Plans
<1>5. CASE \E n \in Names : p = <<Down(n), Rm(n)>>
  <2>1. PICK n \in Names : p = <<Down(n), Rm(n)>>
    BY <1>5
  <2>2. Head(p) = Down(n) /\ Tail(p) = <<Rm(n)>> /\ Len(p) = 2
    BY <2>1
  <2>3. Down(n) \in PlanCommands /\ Rm(n) \in PlanCommands
    BY AreCommands
  <2> QED BY <2>1, <2>2, <2>3 DEF Plans
<1> QED BY <1>1, <1>2, <1>3, <1>4, <1>5 DEF Plans

-----------------------------------------------------------------------------
(* How the three ways to move a session on keep the invariant. *)

(* A session decides on a plan. *)
LEMMA DecideKeeps ==
  ASSUME Inv, NEW w \in Actors, NEW p \in {"asking", "confirming", "dialog", "quiet"},
         NEW commands \in Plans, commands # <<>>, Decide(w, p, commands),
         w \in Tabs /\ p \in {"dialog", "quiet"} => \A n \in Names : commands # <<Rm(n)>>
  PROVE  Inv'
<1>1. InstallsTypeOK'
  <2>1. commands \in Seq(PlanCommands)
    BY PlanParts
  <2> QED BY <2>1 DEF Inv, InstallsTypeOK, Decide, Activities
<1>2. KnownPlans'
  BY DEF Inv, KnownPlans, Decide
<1>4. StoppedBeforeUninstall'
  BY DEF Inv, InstallsTypeOK, KnownPlans, StoppedBeforeUninstall, Decide, Running, Actors
<1> QED BY <1>1, <1>2, <1>4 DEF Inv

(* An answer comes. *)
LEMMA ProceedKeeps ==
  ASSUME Inv, NEW w \in Actors, NEW p \in {"idle", "confirming", "dialog", "quiet"},
         NEW commands \in Plans, commands = <<>> <=> p = "idle",
         NEW why \in SUBSET {"no file", "no answer", "came up"},
         Proceed(w, p, commands, why),
         commands \in {<<>>, plan[w]} \union {<<Down(n), Rm(n)>> : n \in Names},
         w \in Tabs /\ p \in {"dialog", "quiet"} /\ why = {} =>
           \A n \in Names : commands = <<Rm(n)>> => n \notin up
  PROVE  Inv'
<1>1. InstallsTypeOK'
  <2>1. commands \in Seq(PlanCommands)
    BY PlanParts
  <2> QED BY <2>1 DEF Inv, InstallsTypeOK, Proceed, dirVars, Activities
<1>2. KnownPlans'
  BY DEF Inv, KnownPlans, Proceed
<1>4. StoppedBeforeUninstall'
  BY DEF Inv, InstallsTypeOK, KnownPlans, StoppedBeforeUninstall, Proceed, Running, Actors
<1> QED BY <1>1, <1>2, <1>4 DEF Inv

(* A command has run. *)
LEMMA RanKeeps ==
  ASSUME Inv, NEW w \in Actors, NEW ok \in BOOLEAN, Running(w), Ran(w, ok),
         UNCHANGED <<page, doubt>>,
         cloned' \subseteq Stores, root' \in BOOLEAN, entry' \in [Names -> Entries],
         spilled' \subseteq Names,
         advised' \in [Names -> {"nothing", "left", "refused"}], up' \subseteq up,
         ok => \A n \in Names : Head(plan[w]) = Down(n) => n \notin up'
  PROVE  Inv'
<1> DEFINE rest == IF ok THEN Tail(plan[w]) ELSE <<>>
<1>1. plan[w] \in Plans /\ plan[w] # <<>>
  BY DEF Inv, InstallsTypeOK, KnownPlans, Running
<1>2. rest \in Plans
  <2>1. Tail(plan[w]) \in Plans
    BY <1>1, PlanParts
  <2>2. <<>> \in Plans
    BY DEF Plans
  <2> QED BY <2>1, <2>2
<1>3. plan' = [plan EXCEPT ![w] = rest]
  BY DEF Ran
<1>5. \A n \in Names : rest = <<Rm(n)>> => n \notin up'
  <2> SUFFICES ASSUME NEW n \in Names, rest = <<Rm(n)>>
               PROVE  n \notin up'
    OBVIOUS
  <2>0. rest # <<>>
    OBVIOUS
  <2>1. ok /\ rest = Tail(plan[w]) /\ rest # <<>>
    BY <2>0
  <2>2. CASE \E m \in Names : rest = <<Rm(m)>> /\ Head(plan[w]) = Down(m)
    <3>1. PICK m \in Names : rest = <<Rm(m)>> /\ Head(plan[w]) = Down(m)
      BY <2>2
    <3>2. m = n
      BY <3>1, Operations
    <3> QED BY <2>1, <3>1, <3>2
  <2>3. CASE \E b \in Apps, m \in Names : rest = <<Ln(b, m)>> \/ rest = <<Cp(b, m)>>
    BY <2>3, Operations
  <2> QED BY <1>1, <2>1, <2>2, <2>3, PlanParts
<1>6. InstallsTypeOK'
  <2>1. rest \in Seq(PlanCommands)
    BY <1>2, PlanParts
  <2>2. /\ doing' \in [Actors -> Activities]
        /\ plan' \in [Actors -> Seq(PlanCommands)]
        /\ \A v \in Actors : plan'[v] = <<>> <=> doing'[v] \in {"idle", "refreshing"}
    <3>1. doing[w] \in {"dialog", "quiet"} /\ \A v \in Actors : v # w => plan'[v] = plan[v]
      BY <1>3 DEF Inv, InstallsTypeOK, Running
    <3>2. PICK q \in Activities : /\ doing' = [doing EXCEPT ![w] = q]
                                  /\ rest = <<>> <=> q \in {"idle", "refreshing"}
      <4>1. /\ doing' = [doing EXCEPT ![w] =
                 IF rest # <<>> THEN doing[w]
                 ELSE IF w \in Tabs /\ (ok \/ doing[w] = "dialog") THEN "refreshing"
                 ELSE "idle"]
        BY DEF Ran
      <4> HIDE DEF rest
      <4> QED BY <3>1, <4>1 DEF Activities
    <3> HIDE DEF rest
    <3> QED BY <1>3, <2>1, <3>1, <3>2 DEF Inv, InstallsTypeOK, Activities
  <2> QED BY <2>2 DEF Inv, InstallsTypeOK
<1>7. KnownPlans'
  BY <1>2, <1>3 DEF Inv, KnownPlans
<1>9. StoppedBeforeUninstall'
  <2>1. \A v \in Actors : v # w => doing'[v] = doing[v] /\ plan'[v] = plan[v]
    BY <1>3 DEF Ran, Inv, InstallsTypeOK
  <2> QED BY <1>3, <1>5, <2>1 DEF Inv, InstallsTypeOK, KnownPlans, StoppedBeforeUninstall, Running, Actors
<1> QED BY <1>6, <1>7, <1>9 DEF Inv

-----------------------------------------------------------------------------
(* The invariant is inductive. *)

\* The invariant holds before any store is added.
LEMMA InitInv == InstallsInit => Inv
<1> SUFFICES ASSUME InstallsInit PROVE Inv
  OBVIOUS
<1>1. InstallsTypeOK
  <2>1. <<>> \in Seq(PlanCommands)
    OBVIOUS
  <2>2. Installed = [n \in Names |-> Nothing]
    BY InstallsAssumption DEF Installed, Resolve, InstallsInit
  <2> QED BY <2>1, <2>2 DEF InstallsInit, InstallsTypeOK, Entries, Activities, Shown
<1>2. KnownPlans
  BY DEF InstallsInit, KnownPlans, Plans
<1>4. StoppedBeforeUninstall
  BY DEF InstallsInit, StoppedBeforeUninstall
<1> QED BY <1>1, <1>2, <1>4 DEF Inv

(* A tab has something on its page to act on. *)
LEMMA RenderedTypes ==
  ASSUME Inv
  PROVE  /\ Shown \in [stores : SUBSET Stores, links : [Names -> Apps \union {Nothing}]]
         /\ \A n \in Names : Resolve(n) \in Apps \union {Nothing}
BY DEF Inv, InstallsTypeOK, Shown, Installed, Resolve

(* Single commands, pairs and what they are not. *)
LEMMA PlanShapes ==
  /\ \A c \in PlanCommands : <<c>> \in Plans /\ <<c>> # <<>>
  /\ \A a \in Apps, n \in Names :
       <<Mkdir, Ln(a, n)>> \in Plans /\ <<Rm(n), Cp(a, n)>> \in Plans
BY DEF Plans

\* What a tab decides and is told keeps it: its plan is of what its page shows.
LEMMA TabStepInv ==
  ASSUME Inv, NEW t \in Tabs, TabStep(t)
  PROVE  Inv'
<1>0. t \in Actors /\ t \notin Clis
  BY InstallsAssumption DEF Actors
<1>1. CASE Reload(t)
  <2>1. UNCHANGED <<dirVars, up, plan, doubt>>
    BY <1>1 DEF Reload
  <2>2. /\ page' \in [Tabs -> [stores : SUBSET Stores, links : [Names -> Apps \union {Nothing}]]]
        /\ doing' \in [Actors -> Activities]
        /\ \A w \in Actors : \/ doing'[w] = doing[w]
                             \/ {doing[w], doing'[w]} \subseteq {"idle", "refreshing"}
    <3>1. page' = [page EXCEPT ![t] = Shown]
      BY <1>1 DEF Reload
    <3>2. doing[t] \in {"idle", "refreshing"} /\ doing' = [doing EXCEPT ![t] = "idle"]
      BY <1>1 DEF Reload
    <3>3. page' \in [Tabs -> [stores : SUBSET Stores, links : [Names -> Apps \union {Nothing}]]]
      BY <3>1, RenderedTypes DEF Inv, InstallsTypeOK
    <3> QED BY <1>0, <3>2, <3>3 DEF Inv, InstallsTypeOK, Activities
  <2>3. InstallsTypeOK'
    BY <2>1, <2>2 DEF Inv, InstallsTypeOK, dirVars
  <2>4. StoppedBeforeUninstall'
    BY <2>1, <2>2 DEF Inv, StoppedBeforeUninstall, Running, Actors
  <2> QED BY <2>1, <2>3, <2>4 DEF Inv, KnownPlans, dirVars
<1>2. ASSUME NEW a \in Apps, PressInstall(t, a)
      PROVE  Inv'
  <2> DEFINE n == NameOf[a]
  <2>1. n \in Names
    BY InstallsAssumption
  <2>2. InstallPlan(a, n) \in Plans /\ InstallPlan(a, n) # <<>>
    BY <2>1, PlanShapes, AreCommands DEF InstallPlan
  <2>4. \A m \in Names : InstallPlan(a, n) # <<Rm(m)>>
    BY Operations DEF InstallPlan
  <2>5. Decide(t, "dialog", InstallPlan(a, n))
    BY <1>2 DEF PressInstall
  <2> QED BY <1>0, <2>2, <2>4, <2>5, DecideKeeps
<1>3. ASSUME NEW n \in Names, PressUninstall(t, n)
      PROVE  Inv'
  <2>1. <<Rm(n)>> \in Plans /\ <<Rm(n)>> # <<>>
    BY PlanShapes, AreCommands
  <2>3. Decide(t, "asking", <<Rm(n)>>)
    BY <1>3 DEF PressUninstall
  <2> QED BY <1>0, <2>1, <2>3, DecideKeeps
<1>4. ASSUME NEW n \in Names, PressAdopt(t, n)
      PROVE  Inv'
  <2> DEFINE a == page[t].links[n]
  <2>1. a \in Apps
    <3>1. page[t].links \in [Names -> Apps \union {Nothing}]
      BY DEF Inv, InstallsTypeOK
    <3> QED BY <1>4, <3>1 DEF PressAdopt
  <2>2. <<Rm(n), Cp(a, n)>> \in Plans /\ <<Rm(n), Cp(a, n)>> # <<>>
    BY <2>1, PlanShapes
  <2>4. Decide(t, "confirming", <<Rm(n), Cp(a, n)>>)
    BY <1>4 DEF PressAdopt
  <2> QED BY <1>0, <2>2, <2>4, DecideKeeps
<1>5. ASSUME NEW s \in Stores, PressClone(t, s)
      PROVE  Inv'
  <2>1. <<Clone(s)>> \in Plans /\ <<Clone(s)>> # <<>>
    BY PlanShapes, AreCommands
  <2>2. \A m \in Names : <<Clone(s)>> # <<Rm(m)>>
    BY Operations
  <2>3. Decide(t, "dialog", <<Clone(s)>>)
    BY <1>5 DEF PressClone
  <2> QED BY <1>0, <2>1, <2>2, <2>3, DecideKeeps
<1>6. ASSUME NEW s \in Stores, PressRemove(t, s)
      PROVE  Inv'
  <2>1. <<RmStore(s, {})>> \in Plans /\ <<RmStore(s, {})>> # <<>>
    BY PlanShapes, AreCommands
  <2>3. Decide(t, "confirming", <<RmStore(s, {})>>)
    BY <1>6 DEF PressRemove
  <2> QED BY <1>0, <2>1, <2>3, DecideKeeps
<1>7. CASE FoundDown(t)
  <2>1. PICK why \in SUBSET {"no file", "no answer"} :
          /\ why = {} => Head(plan[t]).name \notin up
          /\ Proceed(t, "quiet", plan[t], why)
    BY <1>7 DEF FoundDown
  <2>2. plan[t] \in Plans /\ plan[t] # <<>>
    BY <1>0, <1>7 DEF FoundDown, Inv, InstallsTypeOK, KnownPlans
  <2>3. why = {} => \A n \in Names : plan[t] = <<Rm(n)>> => n \notin up
    BY <2>1, <2>2, PlanParts, Operations
  <2> QED BY <1>0, <2>1, <2>2, <2>3, ProceedKeeps
<1>8. CASE FoundUp(t)
  <2>1. plan[t] \in Plans /\ plan[t] # <<>>
    BY <1>0, <1>8 DEF FoundUp, Inv, InstallsTypeOK, KnownPlans
  <2>2. Proceed(t, "confirming", plan[t], {})
    BY <1>8 DEF FoundUp
  <2> QED BY <1>0, <2>1, <2>2, ProceedKeeps
<1>9. CASE ConfirmStop(t)
  <2> DEFINE n == Head(plan[t]).name
  <2>1. plan[t] \in Plans /\ plan[t] # <<>>
    BY <1>0, <1>9 DEF ConfirmStop, Inv, InstallsTypeOK, KnownPlans
  <2>2. n \in Names
    BY <1>9, <2>1, PlanParts, CommandFields DEF ConfirmStop, Stopping
  <2>3. <<Down(n), Rm(n)>> \in Plans /\ \A m \in Names : <<Down(n), Rm(n)>> # <<Rm(m)>>
    <3>2. <<Down(n), Rm(n)>> \in Plans
      BY <2>2 DEF Plans
    <3>3. Len(<<Down(n), Rm(n)>>) = 2 /\ \A m \in Names : Len(<<Rm(m)>>) = 1
      OBVIOUS
    <3> QED BY <3>2, <3>3
  <2>4. CASE Proceed(t, "dialog", <<Down(n), Rm(n)>>, {})
    <3>1. <<Down(n), Rm(n)>> # <<>>
      OBVIOUS
    <3> HIDE DEF n
    <3> QED BY <1>0, <2>2, <2>3, <2>4, <3>1, ProceedKeeps
  <2>5. CASE Proceed(t, "quiet", plan[t], {"no file"})
    BY <1>0, <2>1, <2>5, ProceedKeeps
  <2> QED BY <1>9, <2>4, <2>5 DEF ConfirmStop
<1> QED BY <1>1, <1>2, <1>3, <1>4, <1>5, <1>6, <1>7, <1>8, <1>9 DEF TabStep

\* What the command line decides keeps it: its plan is of what is there.
LEMMA CliStepInv ==
  ASSUME Inv, NEW c \in Clis, CliStep(c)
  PROVE  Inv'
<1>0. c \in Actors /\ c \notin Tabs
  BY InstallsAssumption DEF Actors
<1>1. ASSUME NEW a \in Apps, NEW n \in Names, CliInstall(c, a, n)
      PROVE  Inv'
  <2>1. InstallPlan(a, n) \in Plans /\ InstallPlan(a, n) # <<>>
    BY PlanShapes, AreCommands DEF InstallPlan
  <2>3. Decide(c, "quiet", InstallPlan(a, n))
    BY <1>1 DEF CliInstall
  <2> QED BY <1>0, <2>1, <2>3, DecideKeeps
<1>2. ASSUME NEW n \in Names, CliUninstall(c, n)
      PROVE  Inv'
  <2>1. <<Rm(n)>> \in Plans /\ <<Rm(n)>> # <<>>
    BY PlanShapes, AreCommands
  <2>3. Decide(c, "quiet", <<Rm(n)>>)
    BY <1>2 DEF CliUninstall
  <2> QED BY <1>0, <2>1, <2>3, DecideKeeps
<1>3. ASSUME NEW n \in Names, CliRefuses(c, n)
      PROVE  Inv'
  BY <1>3 DEF CliRefuses, actorVars, Inv, InstallsTypeOK, KnownPlans,
              StoppedBeforeUninstall, Running
<1>4. ASSUME NEW n \in Names, CliAdopt(c, n)
      PROVE  Inv'
  <2>1. entry[n] \in Apps
    BY <1>4 DEF CliAdopt, Resolve
  <2>2. <<Rm(n), Cp(entry[n], n)>> \in Plans /\ <<Rm(n), Cp(entry[n], n)>> # <<>>
    BY <2>1, PlanShapes
  <2>4. Decide(c, "confirming", <<Rm(n), Cp(entry[n], n)>>)
    BY <1>4 DEF CliAdopt
  <2> QED BY <1>0, <2>2, <2>4, DecideKeeps
<1>5. ASSUME NEW s \in Stores, CliAdd(c, s)
      PROVE  Inv'
  <2>1. <<Clone(s)>> \in Plans /\ <<Clone(s)>> # <<>>
    BY PlanShapes, AreCommands
  <2>3. Decide(c, "quiet", <<Clone(s)>>)
    BY <1>5 DEF CliAdd
  <2> QED BY <1>0, <2>1, <2>3, DecideKeeps
<1>6. ASSUME NEW s \in Stores, CliRemove(c, s)
      PROVE  Inv'
  <2> DEFINE command == RmStore(s, PointInto(Installed, s))
  <2>1. command \in PlanCommands
    BY AreCommands DEF PointInto
  <2>2. <<command>> \in Plans /\ <<command>> # <<>>
    BY <2>1, PlanShapes
  <2>4. Decide(c, "confirming", <<command>>)
    BY <1>6 DEF CliRemove
  <2> QED BY <1>0, <2>2, <2>4, DecideKeeps
<1> QED BY <1>1, <1>2, <1>3, <1>4, <1>5, <1>6 DEF CliStep

(* The command at the head of a running session's plan. *)
LEMMA AboutCommand ==
  ASSUME Inv, NEW w \in Actors, Running(w)
  PROVE  /\ plan[w] \in Plans /\ plan[w] # <<>> /\ Head(plan[w]) \in PlanCommands
BY PlanParts DEF Inv, InstallsTypeOK, KnownPlans, Running

(* What has a name changes. *)
LEMMA PutTypes ==
  ASSUME Inv, NEW n \in Names, NEW e \in Entries, Place(n, e)
  PROVE  /\ entry' \in [Names -> Entries] /\ spilled' \subseteq Names
         /\ advised' \in [Names -> {"nothing", "left", "refused"}]
BY DEF Inv, InstallsTypeOK, Place

\* The commands themselves keep it, on whatever has their name by then.
LEMMA CommandInv ==
  ASSUME Inv, NEW w \in Actors, Command(w)
  PROVE  Inv'
<1>0. /\ cloned \subseteq Stores /\ root \in BOOLEAN /\ entry \in [Names -> Entries]
      /\ spilled \subseteq Names
      /\ advised \in [Names -> {"nothing", "left", "refused"}] /\ up \subseteq Names
      /\ Apps \subseteq Entries /\ {Nothing, Adopted} \subseteq Entries
  BY DEF Inv, InstallsTypeOK, Entries
<1>1. CASE CommandFails(w)
  BY <1>0, <1>1, RanKeeps DEF CommandFails, dirVars
<1>2. CASE MakeRoot(w)
  <2>1. \A n \in Names : Head(plan[w]) # Rm(n) /\ Head(plan[w]) # Down(n)
    BY <1>2, Operations DEF MakeRoot, About
  <2> QED BY <1>0, <1>2, <2>1, RanKeeps DEF MakeRoot, About
<1>3. CASE Link(w)
  <2> DEFINE c == Head(plan[w])
  <2>1. c \in PlanCommands
    BY <1>3, AboutCommand DEF Link, About
  <2>2. c.app \in Entries /\ c.name \in Names
    BY <1>0, <1>3, <2>1, CommandFields DEF Link, About
  <2>3. \A n \in Names : c # Rm(n) /\ c # Down(n)
    BY <1>3, Operations DEF Link, About
  <2>4. CASE Place(c.name, c.app)
    BY <1>0, <1>3, <2>2, <2>3, <2>4, PutTypes, RanKeeps DEF Link, About
  <2>5. CASE Spill(c.name)
    BY <1>0, <1>3, <2>2, <2>3, <2>5, RanKeeps DEF Link, About, Spill
  <2> QED BY <1>3, <2>4, <2>5 DEF Link
<1>4. CASE Unlink(w)
  <2> DEFINE c == Head(plan[w])
  <2>1. c \in PlanCommands
    BY <1>4, AboutCommand DEF Unlink, About
  <2>2. c.name \in Names /\ \A n \in Names : c = Rm(n) => n = c.name
    BY <1>4, <2>1, CommandFields, Operations DEF Unlink, About
  <2>3. \A n \in Names : c # Down(n)
    BY <1>4, Operations DEF Unlink, About
  <2>4. Place(c.name, Nothing)
    BY <1>4 DEF Unlink
  <2> QED BY <1>0, <1>4, <2>2, <2>3, <2>4, PutTypes, RanKeeps DEF Unlink, About
<1>5. CASE Copy(w)
  <2> DEFINE c == Head(plan[w])
  <2>1. c \in PlanCommands
    BY <1>5, AboutCommand DEF Copy, About
  <2>2. c.name \in Names
    BY <1>5, <2>1, CommandFields DEF Copy, About
  <2>3. \A n \in Names : c # Rm(n) /\ c # Down(n)
    BY <1>5, Operations DEF Copy, About
  <2>4. PICK ok \in BOOLEAN : Ran(w, ok)
    BY <1>5 DEF Copy
  <2>5. CASE Place(c.name, Adopted)
    BY <1>0, <1>5, <2>2, <2>3, <2>4, <2>5, PutTypes, RanKeeps DEF Copy, About
  <2>6. CASE Spill(c.name)
    BY <1>0, <1>5, <2>2, <2>3, <2>4, <2>6, RanKeeps DEF Copy, About, Spill
  <2> QED BY <1>5, <2>5, <2>6 DEF Copy
<1>6. CASE StopApp(w)
  <2>1. \A n \in Names : /\ Head(plan[w]) # Rm(n)
                         /\ Head(plan[w]) = Down(n) => n = Head(plan[w]).name
    BY <1>6, Operations DEF StopApp, About
  <2> QED BY <1>0, <1>6, <2>1, RanKeeps DEF StopApp, About, dirVars
<1>7. CASE GitClone(w)
  <2>1. Head(plan[w]).store \in Stores
    BY <1>7, AboutCommand, CommandFields DEF GitClone, About
  <2>2. \A n \in Names : Head(plan[w]) # Rm(n) /\ Head(plan[w]) # Down(n)
    BY <1>7, Operations DEF GitClone, About
  <2> QED BY <1>0, <1>7, <2>1, <2>2, RanKeeps DEF GitClone, About
<1>8. CASE DeleteStore(w)
  <2>1. \A n \in Names : Head(plan[w]) # Rm(n) /\ Head(plan[w]) # Down(n)
    BY <1>8, Operations DEF DeleteStore, About
  <2>2. advised' \in [Names -> {"nothing", "left", "refused"}]
    BY <1>0, <1>8 DEF DeleteStore
  <2>3. cloned' \subseteq Stores
    BY <1>0, <1>8 DEF DeleteStore
  <2> QED BY <1>0, <1>8, <2>1, <2>2, <2>3, RanKeeps DEF DeleteStore, About
<1> QED BY <1>1, <1>2, <1>3, <1>4, <1>5, <1>6, <1>7, <1>8 DEF Command

\* The answers of docker and of the user keep it.
LEMMA AnswerInv ==
  ASSUME Inv, NEW w \in Actors, Confirm(w) \/ Decline(w)
  PROVE  Inv'
<1>1. CASE Confirm(w)
  <2>1. plan[w] \in Plans /\ plan[w] # <<>>
    BY <1>1 DEF Confirm, Inv, InstallsTypeOK, KnownPlans
  <2>2. w \in Tabs => \A n \in Names : plan[w] # <<Rm(n)>>
    <3>1. \A n \in Names : plan[w] = <<Rm(n)>> => Len(plan[w]) = 1 /\ Head(plan[w]) = Rm(n)
      OBVIOUS
    <3> QED BY <1>1, <3>1, Operations DEF Confirm, Stopping
  <2>3. PICK p \in {"dialog", "quiet"} : Proceed(w, p, plan[w], {})
    BY <1>1 DEF Confirm
  <2> QED BY <2>1, <2>2, <2>3, ProceedKeeps
<1>2. CASE Decline(w)
  <2>1. <<>> \in Plans
    BY DEF Plans
  <2> QED BY <1>2, <2>1, ProceedKeeps DEF Decline
<1> QED BY <1>1, <1>2

\* So do pages drawn, apps brought up and directories made meanwhile.
LEMMA OthersInv ==
  ASSUME Inv, NEW n \in Names, UpApp(n) \/ DownApp(n) \/ UserMakes(n) \/ UserRemoves(n)
  PROVE  Inv'
<1>1. CASE UpApp(n)
  <2>1. UNCHANGED <<dirVars, page, doing, plan>> /\ up' = up \union {n}
    BY <1>1 DEF UpApp
  <2>2. /\ doubt' \in [Actors -> SUBSET {"no file", "no answer", "came up"}]
        /\ \A w \in Actors : /\ Running(w) /\ plan[w] = <<Rm(n)>> => doubt'[w] # {}
                             /\ doubt[w] \subseteq doubt'[w]
    BY <1>1 DEF UpApp, Inv, InstallsTypeOK
  <2>3. InstallsTypeOK'
    BY <2>1, <2>2 DEF Inv, InstallsTypeOK, dirVars
  <2>4. StoppedBeforeUninstall'
    BY <2>1, <2>2 DEF Inv, StoppedBeforeUninstall, Running, Actors
  <2> QED BY <2>1, <2>3, <2>4 DEF Inv, KnownPlans, dirVars
<1>2. CASE DownApp(n)
  BY <1>2 DEF DownApp, dirVars, actorVars, Inv, InstallsTypeOK, KnownPlans,
              StoppedBeforeUninstall, Running
<1>3. CASE UserMakes(n) \/ UserRemoves(n)
  <2>1. /\ UNCHANGED <<cloned, up, page, doing, plan, doubt>>
        /\ root' \in BOOLEAN
        /\ \E e \in Entries : Place(n, e)
    BY <1>3 DEF UserMakes, UserRemoves, actorVars, Inv, InstallsTypeOK, Entries
  <2>2. PICK e \in Entries : Place(n, e)
    BY <2>1
  <2>3. InstallsTypeOK'
    BY <2>1, <2>2, PutTypes DEF Inv, InstallsTypeOK
  <2> QED BY <2>1, <2>3 DEF Inv, KnownPlans, StoppedBeforeUninstall, Running
<1> QED BY <1>1, <1>2, <1>3

\* All steps together.
LEMMA NextInv == Inv /\ [InstallsNext]_InstallsVars => Inv'
<1> SUFFICES ASSUME Inv, [InstallsNext]_InstallsVars PROVE Inv'
  OBVIOUS
<1>1. CASE UNCHANGED InstallsVars
  BY <1>1 DEF InstallsVars, dirVars, actorVars, Inv, InstallsTypeOK, KnownPlans,
              StoppedBeforeUninstall, Running
<1>2. CASE InstallsNext
  BY <1>2, TabStepInv, CliStepInv, CommandInv, AnswerInv, OthersInv DEF InstallsNext, Others
<1> QED BY <1>1, <1>2

\* The inductive invariant holds throughout.
LEMMA Invariance == InstallsSpec => []Inv
BY InitInv, NextInv, PTL DEF InstallsSpec

-----------------------------------------------------------------------------
(* Every variable keeps its type, and a session holds a plan exactly while it is
   asking, confirming or running one. *)
THEOREM TypeCorrect == InstallsSpec => []InstallsTypeOK
<1>1. Inv => InstallsTypeOK
  BY DEF Inv
<1> QED BY <1>1, Invariance, PTL

(* However many tabs and shells are at work, a tab about to unlink an app that is up
   had no answer about it, or the app came up after the answer: do_uninstall() never
   goes on to its rm after a failed down, or without having asked. *)
THEOREM StopsFirst == InstallsSpec => []StoppedBeforeUninstall
<1>1. Inv => StoppedBeforeUninstall
  BY DEF Inv
<1> QED BY <1>1, Invariance, PTL

(* A directory the user made or adopted is only ever removed by the user, whatever
   the other tabs and shells make of its name between a check and a command. *)
THEOREM KeepsUserDirs == InstallsSpec => UserDirsKept
<1>1. ASSUME Inv, [InstallsNext]_InstallsVars, NEW n \in Names,
             entry[n] \in {ByHand, Adopted}, entry'[n] # entry[n]
      PROVE  UserRemoves(n)
  <2>0. /\ entry \in [Names -> Entries] /\ entry[n] # Nothing /\ entry[n] \notin Apps
    BY <1>1, InstallsAssumption DEF Inv, InstallsTypeOK
  <2>1. \A m, e : Place(m, e) /\ m # n => entry'[n] = entry[n]
    BY <2>0 DEF Place
  <2>2. ASSUME NEW w \in Actors, Command(w)
        PROVE  FALSE
    <3>1. \E m : (entry[m] = Nothing \/ entry[m] \in Apps) /\ entry' # entry /\ \E e : Place(m, e)
      BY <1>1, <2>2 DEF Command, CommandFails, MakeRoot, Link, Unlink, Copy, StopApp, GitClone,
                        DeleteStore, Spill, dirVars
    <3> QED BY <1>1, <2>0, <2>1, <3>1
  <2>3. ASSUME NEW t \in Tabs, TabStep(t)
        PROVE  FALSE
    BY <1>1, <2>3 DEF TabStep, Reload, PressInstall, PressUninstall, PressAdopt, PressClone,
                      PressRemove, FoundDown, FoundUp, ConfirmStop, Decide, Proceed, dirVars
  <2>4. ASSUME NEW c \in Clis, CliStep(c)
        PROVE  FALSE
    BY <1>1, <2>4 DEF CliStep, CliInstall, CliUninstall, CliRefuses, CliAdopt, CliAdd,
                      CliRemove, Decide
  <2>5. ASSUME NEW w \in Actors, Confirm(w) \/ Decline(w)
        PROVE  FALSE
    BY <1>1, <2>5 DEF Confirm, Decline, Proceed, dirVars
  <2>6. ASSUME NEW m \in Names, UpApp(m) \/ DownApp(m) \/ UserMakes(m)
        PROVE  FALSE
    BY <1>1, <2>0, <2>1, <2>6 DEF UpApp, DownApp, UserMakes, dirVars
  <2>7. ASSUME NEW m \in Names, UserRemoves(m)
        PROVE  UserRemoves(n)
    BY <1>1, <2>1, <2>7 DEF UserRemoves
  <2>8. InstallsNext
    BY <1>1 DEF InstallsVars, dirVars
  <2> QED BY <2>2, <2>3, <2>4, <2>5, <2>6, <2>7, <2>8 DEF InstallsNext, Others
<1>2. Inv /\ [InstallsNext]_InstallsVars =>
        [\A n \in Names : entry[n] \in {ByHand, Adopted} /\ entry'[n] # entry[n]
                          => UserRemoves(n)]_InstallsVars
  BY <1>1
<1> QED BY <1>2, Invariance, PTL DEF InstallsSpec, UserDirsKept
=============================================================================
