------------------------------ MODULE Shell_proofs ------------------------------
(***************************************************************************)
(* Theorems about what runs beside the stores and stacks, one part after   *)
(* the other and then all of them as MCShell composes them: the service    *)
(* keeps its certificate, the proxy reaches the right plugin, the relay    *)
(* loses no word, and the page draws each app once and forgets nothing.    *)
(* They hold for any containers, addresses, apps, renders and versions,    *)
(* and for any number of changes, words, failures, crashes and orders.     *)
(***************************************************************************)
EXTENDS MCShell, FiniteSetTheorems, SequenceTheorems, TLAPS

-----------------------------------------------------------------------------
(* Service *)

Numbers == 0..MaxCrashes + MaxOrders + 1

\* ServiceTypeOK, with the records' fields spelt out.
ServiceTyped ==
  /\ scope \in {"system", "user"} /\ published \in 1..MaxVersion /\ tool \in 0..published
  /\ env \in Configs \union {NoConfig} /\ unit \in {"none", "written", "known"}
  /\ enabled \in BOOLEAN /\ linger \in BOOLEAN /\ loggedIn \in BOOLEAN /\ timer \in BOOLEAN
  /\ torn \in BOOLEAN
  /\ job \in [steps : Seq(Steps), config : Configs \union {NoConfig}]
  /\ word \in {"nothing", "installed", "updated", "failed"} /\ promised \in 0..published
  /\ proc \in [at : {"off", "starting", "keyed", "opened", "up"}, version : 0..published,
               env : Configs \union {NoConfig}, pair : Numbers \X Numbers]
  /\ key \in Numbers /\ cert \in Numbers /\ shown \in Numbers
  /\ failures \in 0..MaxFailures /\ crashes \in 0..MaxCrashes /\ orders \in 0..MaxOrders

\* A certificate on the disk is its key's, also half written, and a program that has just
\* written a key finds no certificate beside it.
Paired ==
  /\ cert # 0 => cert = key
  /\ proc.at = "keyed" => key # 0 /\ cert = 0
  /\ proc.at = "opened" => key # 0 /\ cert = key /\ torn

\* What browsers were shown is on the disk, and whole.
Known == shown # 0 => shown = cert /\ ~torn

\* What is served with a certificate of its own has the key to it.
Matched == proc.at = "up" /\ SelfSigned(proc.env) => proc.pair[1] = proc.pair[2] /\ proc.pair[1] # 0

ServiceInv == ServiceTyped /\ Paired /\ Known /\ Matched

(* The program in each of its beginnings. *)

\* What install() has still to do, from any of its steps on.
InstallRest(sc) ==
  IF sc = "user"
  THEN {<<"tool", "env", "unit", "reload", "enable", "linger">>, <<"env", "unit", "reload", "enable", "linger">>,
        <<"unit", "reload", "enable", "linger">>, <<"reload", "enable", "linger">>, <<"enable", "linger">>,
        <<"linger">>}
  ELSE {<<"tool", "env", "unit", "reload", "enable">>, <<"env", "unit", "reload", "enable">>,
        <<"unit", "reload", "enable">>, <<"reload", "enable">>, <<"enable">>}

\* A command runs for somebody who is logged in, says nothing before its last step, and has
\* systemd read the unit before it enables it.
Underway ==
  job # NoJob =>
    /\ loggedIn /\ word = "nothing"
    /\ \/ job.config = NoConfig /\ job.steps \in {UpdateSteps, <<"restart">>}
       \/ job.config \in Configs /\ job.steps \in InstallRest(scope)
    /\ Head(job.steps) = "enable" => unit = "known"

\* An enabled service runs whenever its manager does.
Upkeep == (enabled => unit = "known") /\ (enabled /\ Managed => proc.at # "off")

\* "Installed and started": until it is disabled it is never off, whoever logs off.
StaysInstalled == word = "installed" => (scope = "system" \/ linger) /\ (enabled => proc.at # "off")

\* "Update applied; the service is restarting": while it is enabled and managed, the version
\* it was updated to has been started, or the restart is still owed.
RestartIsOwed ==
  /\ promised <= tool
  /\ word = "updated" /\ enabled /\ Managed => timer \/ proc.version >= promised

Owed == Underway /\ Upkeep /\ StaysInstalled /\ RestartIsOwed

(* A program that starts holds no key yet, and one that is off none either. *)
LEMMA StartedType ==
  ASSUME NEW top \in Nat, NEW version \in 0..top, NEW config \in Configs \union {NoConfig}
  PROVE  LET Procs == [at : {"off", "starting", "keyed", "opened", "up"}, version : 0..top,
                       env : Configs \union {NoConfig}, pair : Numbers \X Numbers] IN
         /\ Started(version, config) \in Procs /\ Started(version, config).at = "starting"
         /\ Off \in Procs /\ Off.at = "off"
BY ServiceAssumption DEF Started, Off, Numbers

(* The steps of a command are steps. *)
LEMMA StepsType ==
  /\ \A sc : InstallSteps(sc) \in Seq(Steps)
  /\ UpdateSteps \in Seq(Steps) /\ <<>> \in Seq(Steps)
BY DEF InstallSteps, UpdateSteps, Steps

\* The invariant holds of a host nothing is installed on.
LEMMA ServiceInitInv == ServiceInit => ServiceInv
<1> SUFFICES ASSUME ServiceInit PROVE ServiceInv
  OBVIOUS
<1>1. Off \in [at : {"off", "starting", "keyed", "opened", "up"}, version : 0..published,
               env : Configs \union {NoConfig}, pair : Numbers \X Numbers]
  BY StartedType, ServiceAssumption DEF ServiceInit
<1>2. NoJob \in [steps : Seq(Steps), config : Configs \union {NoConfig}]
  BY StepsType DEF NoJob
<1>3. ServiceTyped
  <2>1. /\ published \in 1..MaxVersion /\ tool \in 0..published /\ promised \in 0..published
        /\ key \in Numbers /\ cert \in Numbers /\ shown \in Numbers
        /\ failures \in 0..MaxFailures /\ crashes \in 0..MaxCrashes /\ orders \in 0..MaxOrders
    BY ServiceAssumption DEF ServiceInit, Numbers
  <2>2. job = NoJob /\ proc = Off
    BY DEF ServiceInit
  <2> QED
    BY <1>1, <1>2, <2>1, <2>2 DEF ServiceInit, ServiceTyped
<1>4. Paired /\ Known /\ Matched
  BY DEF ServiceInit, Paired, Known, Matched, Off
<1> QED
  BY <1>3, <1>4 DEF ServiceInv

(* A step that leaves the pair and what is served of it, or starts or stops the program. *)
LEMMA PairKept ==
  ASSUME ServiceInv, UNCHANGED pairVars,
         proc' = proc \/ proc'.at \in {"starting", "off"}
  PROVE  Paired' /\ Known' /\ Matched'
BY DEF pairVars, ServiceInv, Paired, Known, Matched

(* The invariant is inductive. *)

(* What the program is started as, by whatever starts it. *)
LEMMA StartsTyped ==
  ASSUME ServiceTyped
  PROVE  /\ Started(tool, env) \in [at : {"off", "starting", "keyed", "opened", "up"}, version : 0..published,
               env : Configs \union {NoConfig}, pair : Numbers \X Numbers]
         /\ Started(tool, env).at = "starting"
         /\ Off \in [at : {"off", "starting", "keyed", "opened", "up"}, version : 0..published,
               env : Configs \union {NoConfig}, pair : Numbers \X Numbers]
         /\ Off.at = "off"
BY StartedType, ServiceAssumption DEF ServiceTyped

\* Every step of the command line, systemd, the program and the operator keeps it.
LEMMA ServiceInvStep == ServiceInv /\ [ServiceNext]_ServiceVars => ServiceInv'
<1> SUFFICES ASSUME ServiceInv, [ServiceNext]_ServiceVars PROVE ServiceInv'
  OBVIOUS
<1>0. ServiceTyped
  BY DEF ServiceInv
<1> USE DEF hostVars, procVars, pairVars, jobVars, countVars
<1>1. CASE Release
  <2>1. published' \in 1..MaxVersion /\ \A v \in 0..published : v \in 0..published'
    BY <1>0, <1>1, ServiceAssumption DEF Release, ServiceTyped
  <2>2. proc' \in [at : {"off", "starting", "keyed", "opened", "up"}, version : 0..published',
                   env : Configs \union {NoConfig}, pair : Numbers \X Numbers]
    BY <1>0, <1>1, <2>1 DEF Release, ServiceTyped
  <2>3. ServiceTyped'
    BY <1>0, <1>1, <2>1, <2>2 DEF Release, ServiceTyped
  <2> QED
    BY <1>1, <2>3, PairKept DEF Release, ServiceInv
<1>2. ASSUME NEW c \in Configs, Install(c) PROVE ServiceInv'
  <2>1. ServiceTyped'
    BY <1>0, <1>2, StepsType DEF Install, ServiceTyped
  <2> QED
    BY <1>2, <2>1, PairKept DEF Install, ServiceInv
<1>3. ASSUME NEW c \in Configs, EditEnv(c) PROVE ServiceInv'
  <2>1. ServiceTyped'
    BY <1>0, <1>3, ServiceAssumption DEF EditEnv, ServiceTyped
  <2> QED
    BY <1>3, <2>1, PairKept DEF EditEnv, ServiceInv
<1>4. CASE Update
  <2>1. job' \in [steps : Seq(Steps), config : Configs \union {NoConfig}]
    BY <1>4, StepsType DEF Update
  <2>2. orders' \in 0..MaxOrders
    BY <1>0, <1>4, ServiceAssumption DEF Update, ServiceTyped
  <2>3. ServiceTyped'
    BY <1>0, <1>4, <2>1, <2>2 DEF Update, ServiceTyped
  <2> QED
    BY <1>4, <2>3, PairKept DEF Update, ServiceInv
<1>5. CASE DoStep
  <2>1. PICK step : /\ Tool(step) /\ Write(step) /\ Enable(step) /\ Linger(step)
                    /\ timer' = (timer \/ step = "restart")
    BY <1>5 DEF DoStep
  <2>2. published' = published /\ tool' \in 0..published
    BY <1>0, <1>5, <2>1 DEF DoStep, Tool, ServiceTyped
  <2>3. env' \in Configs \union {NoConfig} /\ unit' \in {"none", "written", "known"}
        /\ enabled' \in BOOLEAN /\ linger' \in BOOLEAN /\ timer' \in BOOLEAN
    BY <1>0, <2>1 DEF Write, Enable, Linger, ServiceTyped
  <2>4. proc' = proc \/ proc' = Started(tool, env)
    BY <2>1 DEF Enable
  <2>5. job' \in [steps : Seq(Steps), config : Configs \union {NoConfig}]
    <3>1. CASE Len(job.steps) > 1
      <4>1. job.steps \in Seq(Steps) /\ job.config \in Configs \union {NoConfig}
            /\ job = [steps |-> job.steps, config |-> job.config]
        BY <1>0 DEF ServiceTyped
      <4>2. job' = [job EXCEPT !.steps = Tail(job.steps)]
        BY <1>5, <3>1 DEF DoStep
      <4>3. Tail(job.steps) \in Seq(Steps)
        BY <3>1, <4>1
      <4> QED
        BY <4>1, <4>2, <4>3
    <3>2. CASE ~(Len(job.steps) > 1)
      <4>1. job' = NoJob
        BY <1>5, <3>2 DEF DoStep
      <4> QED
        BY <4>1, StepsType DEF NoJob
    <3> QED
      BY <3>1, <3>2
  <2>6. word' \in {"nothing", "installed", "updated", "failed"} /\ promised' \in 0..published
    BY <1>0, <1>5, <2>2 DEF DoStep, ServiceTyped
  <2>7. proc' \in [at : {"off", "starting", "keyed", "opened", "up"}, version : 0..published,
                   env : Configs \union {NoConfig}, pair : Numbers \X Numbers]
    BY <1>0, <2>4, StartsTyped DEF ServiceTyped
  <2>8. ServiceTyped'
    BY <1>0, <1>5, <2>2, <2>3, <2>5, <2>6, <2>7 DEF DoStep, ServiceTyped
  <2> QED
    BY <1>0, <1>5, <2>4, <2>8, StartsTyped, PairKept DEF DoStep, ServiceInv
<1>6. CASE StepFails
  <2>1. ServiceTyped'
    BY <1>0, <1>6, StepsType, ServiceAssumption DEF StepFails, ServiceTyped, NoJob
  <2> QED
    BY <1>6, <2>1, PairKept DEF StepFails, ServiceInv
<1>7. CASE TimerFires
  <2>0. timer' \in BOOLEAN /\ torn' \in BOOLEAN /\ (proc' = proc \/ proc' = Started(tool, env))
    BY <1>0, <1>7 DEF TimerFires, ServiceTyped
  <2>1. ServiceTyped'
    BY <1>0, <1>7, <2>0, StartsTyped DEF TimerFires, ServiceTyped
  <2> QED
    BY <1>0, <1>7, <2>1, StartsTyped, PairKept DEF TimerFires, ServiceInv
<1>8. ASSUME ServiceTyped, NEW a \in Numbers, NEW b \in Numbers, Serve(<<a, b>>),
             UNCHANGED published
      PROVE  /\ proc' \in [at : {"off", "starting", "keyed", "opened", "up"}, version : 0..published,
                            env : Configs \union {NoConfig}, pair : Numbers \X Numbers]
             /\ proc'.at = "up" /\ proc'.env = proc.env /\ proc'.pair = <<a, b>>
             /\ shown' = IF SelfSigned(proc.env) THEN a ELSE shown
  BY <1>8 DEF Serve, ServiceTyped
<1>9. CASE ServeNow
  <2>1. 0 \in Numbers /\ cert \in Numbers /\ key \in Numbers
    BY <1>0, ServiceAssumption DEF Numbers, ServiceTyped
  <2>2. PICK a \in Numbers, b \in Numbers :
          /\ Serve(<<a, b>>)
          /\ SelfSigned(proc.env) => a = cert /\ b = key
    BY <1>9, <2>1 DEF ServeNow
  <2>3. /\ proc' \in [at : {"off", "starting", "keyed", "opened", "up"}, version : 0..published,
                       env : Configs \union {NoConfig}, pair : Numbers \X Numbers]
        /\ proc'.at = "up" /\ proc'.env = proc.env /\ proc'.pair = <<a, b>>
        /\ shown' = IF SelfSigned(proc.env) THEN a ELSE shown
    BY <1>0, <1>8, <1>9, <2>2 DEF ServeNow
  <2>4. ServiceTyped'
    BY <1>0, <1>9, <2>3 DEF ServeNow, ServiceTyped
  <2>5. Paired' /\ Known'
    BY <1>9, <2>2, <2>3 DEF ServeNow, ServiceInv, Paired, Known
  <2>6. Matched'
    BY <1>9, <2>2, <2>3 DEF ServeNow, ServiceInv, Paired, Matched, Complete
  <2> QED
    BY <2>4, <2>5, <2>6 DEF ServiceInv
<1>10. CASE WriteKey
  <2>1. key' \in Numbers /\ key' # 0
    <3>1. /\ crashes \in 0..MaxCrashes /\ orders \in 0..MaxOrders /\ key' = crashes + orders + 1
          /\ MaxCrashes \in Nat /\ MaxOrders \in Nat
      BY <1>0, <1>10, ServiceAssumption DEF WriteKey, ServiceTyped
    <3> QED
      BY <3>1 DEF Numbers
  <2>2. /\ proc' \in [at : {"off", "starting", "keyed", "opened", "up"}, version : 0..published,
                       env : Configs \union {NoConfig}, pair : Numbers \X Numbers]
        /\ proc'.at = "keyed"
    BY <1>0, <1>10 DEF WriteKey, ServiceTyped
  <2>3. ServiceTyped'
    BY <1>0, <1>10, <2>1, <2>2 DEF WriteKey, ServiceTyped
  <2>4. cert = 0
    BY <1>10 DEF WriteKey, Complete, ServiceInv, Paired
  <2> QED
    BY <1>10, <2>1, <2>2, <2>3, <2>4 DEF WriteKey, ServiceInv, Paired, Known, Matched
<1>11. CASE OpenCert
  <2>1. /\ proc' \in [at : {"off", "starting", "keyed", "opened", "up"}, version : 0..published,
                       env : Configs \union {NoConfig}, pair : Numbers \X Numbers]
        /\ proc'.at = "opened"
    BY <1>0, <1>11 DEF OpenCert, ServiceTyped
  <2>2. ServiceTyped'
    BY <1>0, <1>11, <2>1 DEF OpenCert, ServiceTyped
  <2> QED
    BY <1>11, <2>1, <2>2 DEF OpenCert, ServiceInv, Paired, Known, Matched
<1>20. CASE WriteCert
  <2>1. Serve(<<key, key>>) /\ key \in Numbers /\ UNCHANGED published
    BY <1>0, <1>20 DEF WriteCert, ServiceTyped
  <2>2. /\ proc' \in [at : {"off", "starting", "keyed", "opened", "up"}, version : 0..published,
                       env : Configs \union {NoConfig}, pair : Numbers \X Numbers]
        /\ proc'.at = "up" /\ proc'.env = proc.env /\ proc'.pair = <<key, key>>
        /\ shown' = IF SelfSigned(proc.env) THEN key ELSE shown
    BY <1>0, <1>8, <2>1
  <2>3. ServiceTyped'
    BY <1>0, <1>20, <2>2 DEF WriteCert, ServiceTyped
  <2>4. Paired' /\ Known' /\ Matched'
    BY <1>20, <2>2 DEF WriteCert, ServiceInv, Paired, Known, Matched
  <2> QED
    BY <2>3, <2>4 DEF ServiceInv
<1>21. CASE EndsStuck
  <2>1. ServiceTyped'
    BY <1>0, <1>21, StartsTyped DEF EndsStuck, ServiceTyped
  <2> QED
    BY <1>0, <1>21, <2>1, StartsTyped, PairKept DEF EndsStuck, ServiceInv
<1>12. CASE Crash
  <2>1. crashes' \in 0..MaxCrashes
    BY <1>0, <1>12, ServiceAssumption DEF Crash, ServiceTyped
  <2>2. ServiceTyped'
    BY <1>0, <1>12, <2>1, StartsTyped DEF Crash, ServiceTyped
  <2> QED
    BY <1>0, <1>12, <2>2, StartsTyped, PairKept DEF Crash, ServiceInv
<1>13. CASE Reboot
  <2>1. crashes' \in 0..MaxCrashes
    BY <1>0, <1>13, ServiceAssumption DEF Reboot, ServiceTyped
  <2>2. ServiceTyped'
    BY <1>0, <1>13, <2>1, StartsTyped, StepsType DEF Reboot, ServiceTyped, NoJob
  <2> QED
    BY <1>0, <1>13, <2>2, StartsTyped, PairKept DEF Reboot, ServiceInv
<1>14. CASE LogOff
  <2>0. /\ timer' \in BOOLEAN /\ torn' \in BOOLEAN /\ loggedIn' \in BOOLEAN
        /\ proc' = proc \/ proc' = Off
    BY <1>0, <1>14 DEF LogOff, ServiceTyped
  <2>1. ServiceTyped'
    BY <1>0, <1>14, <2>0, StartsTyped DEF LogOff, ServiceTyped
  <2> QED
    BY <1>0, <1>14, <2>1, StartsTyped, PairKept DEF LogOff, ServiceInv
<1>15. CASE LogOn
  <2>1. ServiceTyped'
    BY <1>0, <1>15, StartsTyped DEF LogOn, ServiceTyped
  <2> QED
    BY <1>0, <1>15, <2>1, StartsTyped, PairKept DEF LogOn, ServiceInv
<1>16. CASE Restart
  <2>1. orders' \in 0..MaxOrders
    BY <1>0, <1>16, ServiceAssumption DEF Restart, ServiceTyped
  <2>2. ServiceTyped'
    BY <1>0, <1>16, <2>1, StartsTyped DEF Restart, ServiceTyped
  <2> QED
    BY <1>0, <1>16, <2>2, StartsTyped, PairKept DEF Restart, ServiceInv
<1>17. CASE Disable
  <2>1. ServiceTyped'
    BY <1>0, <1>17, StartsTyped DEF Disable, ServiceTyped
  <2> QED
    BY <1>0, <1>17, <2>1, StartsTyped, PairKept DEF Disable, ServiceInv
<1>18. CASE RemovePair
  <2>0. orders' \in 0..MaxOrders /\ 0 \in Numbers
    BY <1>0, <1>18, ServiceAssumption DEF RemovePair, ServiceTyped, Numbers
  <2>1. torn' \in BOOLEAN
    BY <1>18 DEF RemovePair
  <2>2. ServiceTyped'
    <3>1. /\ key' = 0 /\ cert' = 0 /\ shown' = 0
          /\ UNCHANGED <<hostVars, proc, jobVars, timer, failures, crashes>>
      BY <1>18 DEF RemovePair
    <3> QED
      BY <1>0, <2>0, <2>1, <3>1 DEF ServiceTyped
  <2> QED
    BY <1>18, <2>1, <2>2 DEF RemovePair, ServiceInv, Paired, Known, Matched
<1>19. CASE UNCHANGED ServiceVars
  BY <1>19 DEF ServiceVars, ServiceInv, ServiceTyped, Paired, Known, Matched
<1> QED
  BY <1>1, <1>2, <1>3, <1>4, <1>5, <1>6, <1>7, <1>9, <1>10, <1>11, <1>12, <1>13, <1>14, <1>15,
     <1>16, <1>17, <1>18, <1>19, <1>20, <1>21 DEF ServiceNext, Systemd


(* Two sequences that differ by one element put behind. *)
LEMMA OneMore ==
  ASSUME NEW S, NEW s \in Seq(S), NEW u \in Seq(S), NEW t \in Seq(S), Len(u) = 1,
         Len(t) = Len(s) + 1, t[Len(s) + 1] = u[1], \A i \in 1..Len(s) : t[i] = s[i]
  PROVE  s \o u = t
<1>0. Len(s) \in Nat
  OBVIOUS
<1>1. /\ s \o u \in Seq(S) /\ Len(s \o u) = Len(s) + 1
      /\ \A i \in 1..Len(s) + 1 : (s \o u)[i] = IF i <= Len(s) THEN s[i] ELSE u[i - Len(s)]
  <2>1. /\ s \o u \in Seq(S) /\ Len(s \o u) = Len(s) + Len(u)
        /\ \A i \in 1..Len(s) + Len(u) : (s \o u)[i] = IF i <= Len(s) THEN s[i] ELSE u[i - Len(s)]
    BY ConcatProperties, Zenon
  <2> QED
    BY <2>1
<1>2. \A i \in 1..Len(s) + 1 : i \in 1..Len(s) \/ (i = Len(s) + 1 /\ ~(i <= Len(s)) /\ i - Len(s) = 1)
  BY <1>0
<1>3. \A i \in 1..Len(s) : i <= Len(s) /\ i \in 1..Len(s) + 1
  BY <1>0
<1>4. \A i \in 1..Len(s) + 1 : (s \o u)[i] = t[i]
  BY <1>1, <1>2, <1>3
<1> QED
  BY <1>1, <1>4, SeqEqual

(* The steps of install() and update(), one after the other. *)
LEMMA StepsSpelt ==
  ASSUME NEW sc
  PROVE  InstallSteps(sc) = IF sc = "user" THEN <<"tool", "env", "unit", "reload", "enable", "linger">>
                            ELSE <<"tool", "env", "unit", "reload", "enable">>
<1>1. CASE sc = "user"
  <2> DEFINE s == <<"tool", "env", "unit", "reload", "enable">>
             t == <<"tool", "env", "unit", "reload", "enable", "linger">>
  <2>1. s \in Seq(Steps) /\ t \in Seq(Steps) /\ <<"linger">> \in Seq(Steps)
    BY DEF Steps
  <2>2. Len(s) = 5 /\ Len(t) = 6 /\ Len(<<"linger">>) = 1
    OBVIOUS
  <2>3. \A i \in 1..5 : s[i] = t[i]
    <3> TAKE i \in 1..5
    <3>1. i \in {1, 2, 3, 4, 5}
      OBVIOUS
    <3> QED
      BY <3>1
  <2>4. t[6] = "linger" /\ <<"linger">>[1] = "linger"
    OBVIOUS
  <2> HIDE DEF s, t
  <2>7. s \o <<"linger">> = t
    <3>1. Len(<<"linger">>) = 1 /\ Len(t) = Len(s) + 1 /\ t[Len(s) + 1] = <<"linger">>[1]
      BY <2>2, <2>4
    <3>2. \A i \in 1..Len(s) : t[i] = s[i]
      BY <2>2, <2>3
    <3> QED
      BY <2>1, <3>1, <3>2, OneMore, Zenon
  <2>8. InstallSteps(sc) = s \o <<"linger">>
    BY <1>1 DEF InstallSteps, s
  <2> QED
    BY <1>1, <2>7, <2>8 DEF t
<1>2. CASE sc # "user"
  BY <1>2 DEF InstallSteps
<1> QED
  BY <1>1, <1>2

(* What every step of install() leaves to do, and which step comes before which. *)
LEMMA RestOfSteps ==
  ASSUME NEW sc, NEW steps \in InstallRest(sc)
  PROVE  /\ Len(steps) > 1 => Tail(steps) \in InstallRest(sc)
         /\ Len(steps) > 1 /\ Head(Tail(steps)) = "enable" => Head(steps) = "reload"
         /\ ~(Len(steps) > 1) => Head(steps) = IF sc = "user" THEN "linger" ELSE "enable"
<1> DEFINE Rest(s) == /\ Len(s) > 1 => Tail(s) \in InstallRest(sc)
                      /\ Len(s) > 1 /\ Head(Tail(s)) = "enable" => Head(s) = "reload"
                      /\ ~(Len(s) > 1) => Head(s) = IF sc = "user" THEN "linger" ELSE "enable"
<1>1. CASE sc = "user"
  <2>1. Rest(<<"tool", "env", "unit", "reload", "enable", "linger">>)
    BY <1>1 DEF InstallRest
  <2>2. Rest(<<"env", "unit", "reload", "enable", "linger">>)
    BY <1>1 DEF InstallRest
  <2>3. Rest(<<"unit", "reload", "enable", "linger">>)
    BY <1>1 DEF InstallRest
  <2>4. Rest(<<"reload", "enable", "linger">>)
    BY <1>1 DEF InstallRest
  <2>5. Rest(<<"enable", "linger">>)
    BY <1>1 DEF InstallRest
  <2>6. Rest(<<"linger">>)
    BY <1>1 DEF InstallRest
  <2> HIDE DEF Rest
  <2>7. Rest(steps)
    BY <1>1, <2>1, <2>2, <2>3, <2>4, <2>5, <2>6 DEF InstallRest
  <2> QED
    BY <2>7 DEF Rest
<1>2. CASE sc # "user"
  <2>1. Rest(<<"tool", "env", "unit", "reload", "enable">>)
    BY <1>2 DEF InstallRest
  <2>2. Rest(<<"env", "unit", "reload", "enable">>)
    BY <1>2 DEF InstallRest
  <2>3. Rest(<<"unit", "reload", "enable">>)
    BY <1>2 DEF InstallRest
  <2>4. Rest(<<"reload", "enable">>)
    BY <1>2 DEF InstallRest
  <2>5. Rest(<<"enable">>)
    BY <1>2 DEF InstallRest
  <2> HIDE DEF Rest
  <2>6. Rest(steps)
    BY <1>2, <2>1, <2>2, <2>3, <2>4, <2>5 DEF InstallRest
  <2> QED
    BY <2>6 DEF Rest
<1> QED
  BY <1>1, <1>2

(* Nothing is owed on a host nothing is installed on. *)
LEMMA OwedInit == ServiceInit => Owed
BY DEF ServiceInit, Owed, Underway, Upkeep, StaysInstalled, RestartIsOwed

(* A step that leaves the command and what it said, and takes neither the service nor its
   manager away, but may start the program again. *)
LEMMA OwedKept ==
  ASSUME ServiceTyped, Owed, UNCHANGED <<scope, tool, unit, enabled, linger, loggedIn, jobVars>>,
         \/ timer' = timer /\ proc'.version = proc.version /\ (proc'.at = "off" <=> proc.at = "off")
         \/ proc' = Started(tool, env)
  PROVE  Owed'
<1>1. Started(tool, env).at = "starting" /\ Started(tool, env).version = tool
  BY DEF Started
<1>2. tool \in Nat /\ promised \in Nat
  BY ServiceAssumption DEF ServiceTyped
<1> QED
  BY <1>1, <1>2 DEF Owed, Underway, Upkeep, StaysInstalled, RestartIsOwed, Managed, Manager, jobVars

(* Every step of the command line, systemd, the program and the operator keeps what is owed. *)
LEMMA OwedStep == ServiceTyped /\ Owed /\ [ServiceNext]_ServiceVars => Owed'
<1> SUFFICES ASSUME ServiceTyped, Owed, [ServiceNext]_ServiceVars PROVE Owed'
  OBVIOUS
<1>0. /\ tool \in Nat /\ promised \in Nat /\ published \in Nat /\ tool <= published
      /\ scope \in {"system", "user"} /\ proc.version \in Nat
      /\ job \in [steps : Seq(Steps), config : Configs \union {NoConfig}]
  BY ServiceAssumption DEF ServiceTyped
<1>00. Started(tool, env).at = "starting" /\ Started(tool, env).version = tool /\ Off.at = "off"
  BY DEF Started, Off
<1> USE DEF hostVars, procVars, pairVars, jobVars, countVars
<1>1. CASE Release
  BY <1>1, OwedKept DEF Release
<1>2. ASSUME NEW c \in Configs, Install(c) PROVE Owed'
  <2>1. /\ loggedIn /\ UNCHANGED <<scope, tool, unit, enabled, linger, loggedIn, promised, timer, proc>>
        /\ word' = "nothing" /\ job' = [steps |-> InstallSteps(scope), config |-> c]
    BY <1>2 DEF Install
  <2>2. job'.config = c /\ job'.steps \in InstallRest(scope) /\ Head(job'.steps) # "enable"
    <3>1. job'.config = c /\ job'.steps = InstallSteps(scope)
      BY <2>1
    <3>2. Head(InstallSteps(scope)) # "enable"
      BY StepsSpelt
    <3>3. InstallSteps(scope) \in InstallRest(scope)
      BY StepsSpelt DEF InstallRest
    <3> QED
      BY <3>1, <3>2, <3>3
  <2> QED
    BY <2>1, <2>2 DEF Owed, Underway, Upkeep, StaysInstalled, RestartIsOwed, Managed
<1>3. CASE Update
  <2>1. /\ loggedIn /\ UNCHANGED <<scope, tool, unit, enabled, linger, loggedIn, promised, timer, proc>>
        /\ word' = "nothing" /\ job' = [steps |-> UpdateSteps, config |-> NoConfig]
    BY <1>3 DEF Update
  <2>2. job'.config = NoConfig /\ job'.steps = UpdateSteps /\ Head(UpdateSteps) # "enable"
    BY <2>1 DEF UpdateSteps
  <2> QED
    BY <2>1, <2>2 DEF Owed, Underway, Upkeep, StaysInstalled, RestartIsOwed, Managed
<1>4. CASE DoStep
  <2>1. PICK step : /\ step = Head(job.steps)
                    /\ Tool(step) /\ Write(step) /\ Enable(step) /\ Linger(step)
                    /\ timer' = (timer \/ step = "restart")
    BY <1>4 DEF DoStep
  <2>2. /\ job # NoJob /\ loggedIn /\ word = "nothing" /\ UNCHANGED <<scope, published, loggedIn>>
        /\ \/ job.config = NoConfig /\ job.steps \in {UpdateSteps, <<"restart">>}
           \/ job.config \in Configs /\ job.steps \in InstallRest(scope)
        /\ step = "enable" => unit = "known"
    BY <1>4, <2>1 DEF DoStep, Owed, Underway
  <2>3. tool' \in Nat /\ tool' >= tool
    BY <1>0, <2>1 DEF Tool
  <2>4. (linger => linger') /\ (unit = "known" => unit' = "known") /\ (step = "reload" => unit' = "known")
        /\ (step = "linger" => linger')
    BY <2>1 DEF Linger, Write
  <2>5. (enabled' <=> enabled \/ step = "enable") /\ (proc' = proc \/ proc' = Started(tool, env))
        /\ (step = "enable" => proc'.at # "off") /\ (timer => timer')
    BY <1>00, <2>1 DEF Enable
  <2>6. Managed /\ Managed'
    BY <2>2 DEF Managed, Manager
  <2>7. enabled' => unit' = "known" /\ proc'.at # "off"
    BY <1>00, <2>2, <2>4, <2>5, <2>6 DEF Owed, Upkeep
  <2>8. CASE Len(job.steps) > 1
    <3>1. job' = [job EXCEPT !.steps = Tail(job.steps)] /\ word' = word /\ promised' = promised
      BY <1>4, <2>8 DEF DoStep
    <3>2. job'.config = job.config /\ job'.steps = Tail(job.steps)
      BY <1>0, <3>1
    <3>3. /\ \/ job'.config = NoConfig /\ job'.steps \in {UpdateSteps, <<"restart">>}
             \/ job'.config \in Configs /\ job'.steps \in InstallRest(scope)
          /\ Head(job'.steps) = "enable" => unit' = "known"
      <4>1. CASE job.config = NoConfig /\ job.steps \in {UpdateSteps, <<"restart">>}
        <5>1. Len(<<"restart">>) = 1 /\ Tail(UpdateSteps) = <<"restart">> /\ Head(<<"restart">>) # "enable"
          BY DEF UpdateSteps
        <5>2. job.steps = <<"restart">> => ~(Len(job.steps) > 1)
          OBVIOUS
        <5>3. job.steps = UpdateSteps
          BY <2>8, <4>1, <5>2, Zenon
        <5> QED
          BY <3>2, <4>1, <5>1, <5>3
      <4>2. CASE job.config \in Configs /\ job.steps \in InstallRest(scope)
        <5>1. job'.config \in Configs /\ job'.steps \in InstallRest(scope)
          BY <2>8, <3>2, <4>2, RestOfSteps
        <5>2. Head(job'.steps) = "enable" => unit' = "known"
          BY <2>1, <2>4, <2>8, <3>2, <4>2, RestOfSteps
        <5> QED
          BY <5>1, <5>2
      <4> QED
        BY <2>2, <4>1, <4>2
    <3>4. Underway'
      BY <2>2, <3>1, <3>3 DEF Underway
    <3>5. Upkeep' /\ StaysInstalled'
      BY <2>2, <2>7, <3>1 DEF Upkeep, StaysInstalled
    <3>6. RestartIsOwed'
      BY <1>0, <2>2, <2>3, <3>1 DEF Owed, RestartIsOwed
    <3> QED
      BY <3>4, <3>5, <3>6 DEF Owed
  <2>9. CASE ~(Len(job.steps) > 1)
    <3>1. /\ job' = NoJob
          /\ job.config = NoConfig => word' = "updated" /\ promised' = tool'
          /\ job.config # NoConfig => word' = "installed" /\ promised' = promised
      BY <1>4, <2>9 DEF DoStep
    <3>2. CASE job.config = NoConfig /\ job.steps \in {UpdateSteps, <<"restart">>}
      <4>1. Len(UpdateSteps) > 1 /\ Head(<<"restart">>) = "restart"
        BY DEF UpdateSteps
      <4>2. timer'
        BY <2>1, <2>9, <3>2, <4>1
      <4> QED
        BY <2>3, <2>7, <3>1, <3>2, <4>2 DEF Owed, Underway, Upkeep, StaysInstalled, RestartIsOwed
    <3>3. CASE job.config \in Configs /\ job.steps \in InstallRest(scope)
      <4>1. job.config # NoConfig
        BY <3>3, ServiceAssumption
      <4>2. step = IF scope = "user" THEN "linger" ELSE "enable"
        BY <2>1, <2>9, <3>3, RestOfSteps
      <4>3. scope' = "system" \/ linger'
        BY <1>0, <2>2, <2>4, <4>2
      <4> QED
        BY <1>0, <2>3, <2>7, <3>1, <4>1, <4>3 DEF Owed, Underway, Upkeep, StaysInstalled, RestartIsOwed
    <3> QED
      BY <2>2, <3>2, <3>3
  <2> QED
    BY <2>8, <2>9
<1>5. CASE StepFails
  BY <1>5 DEF StepFails, Owed, Underway, Upkeep, StaysInstalled, RestartIsOwed, Managed
<1>6. CASE TimerFires
  BY <1>0, <1>00, <1>6 DEF TimerFires, Owed, Underway, Upkeep, StaysInstalled, RestartIsOwed, Managed
<1>7. CASE ServeNow \/ WriteKey \/ OpenCert \/ WriteCert
  <2>1. /\ UNCHANGED <<scope, tool, unit, enabled, linger, loggedIn, jobVars, timer>>
        /\ proc'.version = proc.version /\ proc'.at # "off" /\ proc.at # "off"
    BY <1>7 DEF ServeNow, WriteKey, OpenCert, WriteCert, Serve, ServiceTyped
  <2> QED
    BY <2>1, OwedKept
<1>8. CASE Crash \/ EndsStuck
  BY <1>8, OwedKept DEF Crash, EndsStuck
<1>9. CASE Reboot
  BY <1>0, <1>00, <1>9 DEF Reboot, Owed, Underway, Upkeep, StaysInstalled, RestartIsOwed, Managed, Manager
<1>10. CASE LogOff
  BY <1>0, <1>00, <1>10 DEF LogOff, Owed, Underway, Upkeep, StaysInstalled, RestartIsOwed, Managed, Manager
<1>11. CASE LogOn
  BY <1>0, <1>00, <1>11 DEF LogOn, Owed, Underway, Upkeep, StaysInstalled, RestartIsOwed, Managed, Manager
<1>12. ASSUME NEW c \in Configs, EditEnv(c) PROVE Owed'
  BY <1>12, OwedKept DEF EditEnv
<1>13. CASE Restart
  BY <1>13, OwedKept DEF Restart
<1>14. CASE Disable
  BY <1>14 DEF Disable, Owed, Underway, Upkeep, StaysInstalled, RestartIsOwed
<1>15. CASE RemovePair
  BY <1>15, OwedKept DEF RemovePair
<1>16. CASE UNCHANGED ServiceVars
  BY <1>16, OwedKept DEF ServiceVars
<1> QED
  BY <1>1, <1>2, <1>3, <1>4, <1>5, <1>6, <1>7, <1>8, <1>9, <1>10, <1>11, <1>12, <1>13, <1>14, <1>15,
     <1>16 DEF ServiceNext, Systemd

(* The invariant holds in every behaviour of the service. *)
LEMMA ServiceInvariant == ServiceSpec => []ServiceInv
BY ServiceInitInv, ServiceInvStep, PTL DEF ServiceSpec

(* Every variable has its type. *)
LEMMA ServiceTypes == ServiceInv => ServiceTypeOK
<1> SUFFICES ASSUME ServiceInv PROVE ServiceTypeOK
  OBVIOUS
<1>1. ServiceTyped
  BY DEF ServiceInv
<1>2. job.config \in Configs \union {NoConfig} /\ job.steps \in Seq(Steps)
  BY <1>1 DEF ServiceTyped
<1>3. /\ proc.at \in {"off", "starting", "keyed", "opened", "up"} /\ proc.version \in 0..published
      /\ proc.env \in Configs \union {NoConfig}
      /\ proc.pair[1] \in Numbers /\ proc.pair[2] \in Numbers
  BY <1>1 DEF ServiceTyped
<1> QED
  BY <1>1, <1>2, <1>3 DEF ServiceTyped, ServiceTypeOK, Numbers

(* No step but RemovePair takes a certificate away, and none replaces one. *)
LEMMA CertificateStep ==
  ServiceInv /\ [ServiceNext]_ServiceVars =>
    [ /\ proc'.at = "up" /\ SelfSigned(proc'.env) => proc'.pair[1] = proc'.pair[2] /\ proc'.pair[1] # 0
      /\ shown # 0 /\ shown' # 0 => shown' = shown ]_ServiceVars
<1> SUFFICES ASSUME ServiceInv, [ServiceNext]_ServiceVars
             PROVE  /\ proc'.at = "up" /\ SelfSigned(proc'.env) =>
                         proc'.pair[1] = proc'.pair[2] /\ proc'.pair[1] # 0
                    /\ shown # 0 /\ shown' # 0 => shown' = shown
  OBVIOUS
<1>1. proc'.at = "up" /\ SelfSigned(proc'.env) => proc'.pair[1] = proc'.pair[2] /\ proc'.pair[1] # 0
  BY ServiceInvStep DEF ServiceInv, Matched
<1>2. shown # 0 => shown = cert /\ cert = key /\ key # 0
  BY DEF ServiceInv, Known, Paired
<1>3. shown' # 0 => shown' = cert'
  BY ServiceInvStep DEF ServiceInv, Known
<1>4. cert # 0 /\ cert' # 0 => cert' = cert
  <2> SUFFICES ASSUME cert # 0, cert' # cert PROVE cert' = 0
    OBVIOUS
  <2>1. ~OpenCert
    BY DEF OpenCert, ServiceInv, Paired
  <2>2. RemovePair
    BY <2>1 DEF ServiceNext, Systemd, Release, Install, EditEnv, Update, DoStep, StepFails, TimerFires,
       ServeNow, WriteKey, WriteCert, EndsStuck, Crash, Reboot, LogOff, LogOn, Restart, Disable,
       ServiceVars, hostVars, procVars, pairVars
  <2> QED
    BY <2>2 DEF RemovePair
<1> QED
  BY <1>1, <1>2, <1>3, <1>4

\* Wherever the program or the machine dies, also between the key and the certificate or in
\* the middle of it:
\* a certificate is served with its own key, and once shown it stays until it is removed.
THEOREM CertificateIsKept == ServiceSpec => OneCertificate
BY CertificateStep, ServiceInvariant, PTL DEF ServiceSpec, OneCertificate

(* What is owed is owed in every behaviour. *)
LEMMA OwedInvariant == ServiceSpec => []Owed
<1>1. ServiceInv /\ Owed /\ [ServiceNext]_ServiceVars => Owed'
  BY OwedStep DEF ServiceInv
<1> QED
  BY <1>1, OwedInit, ServiceInvariant, PTL DEF ServiceSpec

\* What install and update said is not taken back by an upgrade, a crash or a log-off: an
\* enabled service runs whenever its manager does, one said to be installed is off only when
\* disabled, and one said to be updated runs that version or has its restart still ordered.
THEOREM ServiceIsOwed == ServiceSpec => [](Upkeep /\ StaysInstalled /\ RestartIsOwed)
<1>1. Owed => Upkeep /\ StaysInstalled /\ RestartIsOwed
  BY DEF Owed
<1> QED
  BY <1>1, OwedInvariant, PTL

-----------------------------------------------------------------------------
(* Plugins *)

\* The types, of what docker and a scan know and of the rest; and what docker promises: no
\* two containers have one address.
ScanTyped ==
  /\ running \subseteq Boxes
  /\ address \in [Boxes -> Addresses \union {NoTarget}]
  /\ listed \subseteq Boxes /\ found \subseteq Names \X Addresses
  /\ discovered \in [Names -> Addresses \union {NoTarget}]
  /\ moved \subseteq Addresses /\ movedScan \subseteq Addresses
FlagsTyped ==
  /\ docker \in BOOLEAN /\ loop \in BOOLEAN /\ booted \in BOOLEAN /\ surprised \in BOOLEAN
  /\ scanning \in {"idle", "ps", "inspect", "found"}
  /\ changes \in 0..MaxChanges
AskTyped ==
  /\ request = <<>> \/ request \in (Names \union Manual) \X (Addresses \union {Demo, NoTarget})
  /\ answer \in Boxes \union {Demo, "", "404", "502"}
OneHolder == \A b, c \in Boxes : address[b] = address[c] /\ address[b] # NoTarget => b = c
PluginsTyped == ScanTyped /\ FlagsTyped /\ AskTyped /\ OneHolder

\* Who holds the address a is a container of the name n, with a port.
Right(n, a) == \A b \in Boxes : address[b] = a => Name[b] = n /\ b \notin Portless

\* What the scan that is going on found, and what is published, is right but for the
\* addresses given out since it was inspected.
FoundRight == \A p \in found : p[2] \in movedScan \/ Right(p[1], p[2])
TableRight == \A n \in Names : discovered[n] \in moved \union {NoTarget} \/ Right(n, discovered[n])

\* What the request looked up is right until its address is given out again; the target of
\* a name registered by hand is its own; and a request without a target has its 404.
RequestRight ==
  /\ request = <<>> => answer = ""
  /\ request # <<>> =>
       /\ request[2] = NoTarget => answer = "404"
       /\ IF request[1] \in Manual THEN request[2] = Demo
          ELSE request[2] # NoTarget => surprised \/ (request[2] # Demo /\ Right(request[1], request[2]))

PluginsInv == PluginsTyped /\ FoundRight /\ TableRight /\ RequestRight /\ RightPlugin

(* The invariant holds before the first scan. *)
LEMMA PluginsInitInv == PluginsInit => PluginsInv
<1> SUFFICES ASSUME PluginsInit PROVE PluginsInv
  OBVIOUS
<1>1. ScanTyped /\ AskTyped /\ OneHolder
  BY PluginsAssumption DEF PluginsInit, ScanTyped, AskTyped, OneHolder
<1>2. FlagsTyped
  <2>1. changes \in 0..MaxChanges
    <3>1. MaxChanges \in Nat
      BY PluginsAssumption
    <3> QED
      <4>1. changes = 0
        BY DEF PluginsInit
      <4> QED
        BY <3>1, <4>1
  <2> QED
    BY <2>1 DEF PluginsInit, FlagsTyped
<1>3. FoundRight /\ TableRight /\ RequestRight /\ RightPlugin
  BY DEF PluginsInit, FoundRight, TableRight, RequestRight, RightPlugin
<1> QED
  BY <1>1, <1>2, <1>3 DEF PluginsInv, PluginsTyped

(* Every container has one name, and every target of a scan is an address. *)
LEMMA TargetsTyped ==
  ASSUME ScanTyped, NEW B \in SUBSET Boxes
  PROVE  Targets(B) \subseteq Names \X Addresses
<1> SUFFICES ASSUME NEW c \in B, address[c] # NoTarget PROVE <<Name[c], address[c]>> \in Names \X Addresses
  BY DEF Targets
<1>1. Name[c] \in Names /\ address[c] \in Addresses
  BY DEF ScanTyped, Names
<1> QED
  BY <1>1

(* The types are kept, and docker gives an address to nobody while another holds it. *)
LEMMA PluginsTypedStep == PluginsTyped /\ [PluginsNext]_PluginsVars => PluginsTyped'
<1> SUFFICES ASSUME PluginsTyped, [PluginsNext]_PluginsVars PROVE PluginsTyped'
  OBVIOUS
<1>0. ScanTyped /\ FlagsTyped /\ AskTyped /\ OneHolder
  BY DEF PluginsTyped
<1> USE PluginsAssumption DEF boxVars, scanVars, askVars, Change
<1>1. ScanTyped'
  <2>1. CASE Inspect
    <3>1. Targets(listed) \subseteq Names \X Addresses
      BY <1>0, TargetsTyped DEF ScanTyped
    <3> QED
      BY <1>0, <2>1, <3>1 DEF Inspect, ScanTyped
  <2>2. CASE Publish
    BY <1>0, <2>2 DEF Publish, Tables, ScanTyped
  <2>3. ASSUME NEW b \in Boxes, BoxStarts(b) \/ BoxStops(b) PROVE ScanTyped'
    BY <1>0, <2>3 DEF BoxStarts, BoxStops, ScanTyped
  <2>4. ASSUME NEW b \in Boxes, NEW a \in Addresses, BoxGetsAddress(b, a) PROVE ScanTyped'
    BY <1>0, <2>4 DEF BoxGetsAddress, ScanTyped
  <2>5. CASE Ps
    BY <1>0, <2>5 DEF Ps, ScanTyped
  <2>6. CASE UNCHANGED <<running, address, listed, found, discovered, moved, movedScan>>
    BY <1>0, <2>6 DEF ScanTyped
  <2> QED
    BY <2>1, <2>2, <2>3, <2>4, <2>5, <2>6 DEF PluginsNext, PluginsVars, DockerFlips, Scan, ScanBegins,
       ScanRaises, Ask, Connected, Done
<1>2. FlagsTyped'
  <2>1. surprised' \in BOOLEAN
    <3>1. surprised \in BOOLEAN
      BY <1>0 DEF FlagsTyped
    <3>2. ASSUME NEW b \in Boxes, NEW a \in Addresses, BoxGetsAddress(b, a) PROVE surprised' \in BOOLEAN
      BY <3>2 DEF BoxGetsAddress
    <3>3. ASSUME NEW n \in Names \union Manual, Ask(n) PROVE surprised' \in BOOLEAN
      <4>1. surprised' = (Get(n) \in moved)
        BY <3>3 DEF Ask
      <4> HIDE PluginsAssumption
      <4>2. \A x, S : (x \in S) \in BOOLEAN
        OBVIOUS
      <4> QED
        BY <4>1, <4>2
    <3>4. CASE surprised' = surprised \/ surprised' = FALSE
      BY <3>1, <3>4
    <3> QED
      BY <3>2, <3>3, <3>4 DEF PluginsNext, PluginsVars, BoxStarts, BoxStops, DockerFlips, Scan,
         ScanBegins, Ps, Inspect, Publish, ScanRaises, Connected, Done
  <2>2. docker' \in BOOLEAN /\ loop' \in BOOLEAN /\ booted' \in BOOLEAN
    <3>1. docker \in BOOLEAN /\ loop \in BOOLEAN /\ booted \in BOOLEAN
      BY <1>0 DEF FlagsTyped
    <3>2. loop' = loop /\ (booted' = booted \/ booted' = TRUE) /\ (docker' = docker \/ docker' = ~docker)
      BY DEF PluginsNext, PluginsVars, BoxStarts, BoxStops, BoxGetsAddress, DockerFlips, Scan,
         ScanBegins, Ps, Inspect, Publish, ScanRaises, Ask, Connected, Done
    <3> QED
      BY <3>1, <3>2
  <2>3. scanning' \in {"idle", "ps", "inspect", "found"}
    BY <1>0 DEF PluginsNext, PluginsVars, BoxStarts, BoxStops, BoxGetsAddress, DockerFlips, Scan,
       ScanBegins, Ps, Inspect, Publish, ScanRaises, Ask, Connected, Done, FlagsTyped
  <2>4. changes' \in 0..MaxChanges
    <3>1. changes \in 0..MaxChanges /\ (changes' = changes \/ (changes < MaxChanges /\ changes' = changes + 1))
      BY <1>0 DEF PluginsNext, PluginsVars, BoxStarts, BoxStops, BoxGetsAddress, DockerFlips, Scan,
         ScanBegins, Ps, Inspect, Publish, ScanRaises, Ask, Connected, Done, FlagsTyped
    <3>2. MaxChanges \in Nat
      BY PluginsAssumption
    <3> HIDE PluginsAssumption
    <3> QED
      BY <3>1, <3>2
  <2> QED
    BY <2>1, <2>2, <2>3, <2>4 DEF FlagsTyped
<1>3. AskTyped'
  <2>1. ASSUME NEW n \in Names \union Manual, Ask(n) PROVE AskTyped'
    <3>1. Get(n) \in Addresses \union {Demo, NoTarget}
      BY <1>0 DEF Get, ScanTyped
    <3>2. request' = <<n, Get(n)>> /\ answer' \in {"", "404"}
      BY <2>1 DEF Ask
    <3> QED
      BY <3>1, <3>2 DEF AskTyped
  <2>2. CASE Connected
    BY <1>0, <2>2 DEF Connected, AskTyped
  <2>3. CASE Done
    BY <2>3 DEF Done, AskTyped
  <2>4. CASE request' = request /\ answer' = answer
    BY <1>0, <2>4 DEF AskTyped
  <2> QED
    BY <2>1, <2>2, <2>3, <2>4 DEF PluginsNext, PluginsVars, BoxStarts, BoxStops, BoxGetsAddress,
       DockerFlips, Scan, ScanBegins, Ps, Inspect, Publish, ScanRaises
<1>4. OneHolder'
  <2>0. address \in [Boxes -> Addresses \union {NoTarget}] /\ NoTarget \notin Addresses
    BY <1>0 DEF ScanTyped
  <2>1. ASSUME NEW b \in Boxes, NEW a \in Addresses, BoxGetsAddress(b, a) PROVE OneHolder'
    <3>1. address' = [address EXCEPT ![b] = a] /\ \A c \in Boxes : address[c] # a
      BY <2>1 DEF BoxGetsAddress
    <3> QED
      BY <1>0, <2>0, <3>1 DEF OneHolder
  <2>2. ASSUME NEW b \in Boxes, BoxStops(b) PROVE OneHolder'
    <3>1. address' = [address EXCEPT ![b] = NoTarget]
      BY <2>2 DEF BoxStops
    <3> QED
      BY <1>0, <2>0, <3>1 DEF OneHolder
  <2>3. CASE address' = address
    BY <1>0, <2>3 DEF OneHolder
  <2> QED
    BY <2>1, <2>2, <2>3 DEF PluginsNext, PluginsVars, BoxStarts, DockerFlips, Scan, ScanBegins, Ps,
       Inspect, Publish, ScanRaises, Ask, Connected, Done
<1> QED
  BY <1>1, <1>2, <1>3, <1>4 DEF PluginsTyped

(* An address stays right while nobody is given it. *)
LEMMA StaysRight ==
  ASSUME PluginsTyped, [PluginsNext]_PluginsVars, NEW n, NEW a \in Addresses \union {NoTarget},
         a # NoTarget, Right(n, a)
  PROVE  Right(n, a)' \/ (\E b \in Boxes : BoxGetsAddress(b, a))
<1>0. address \in [Boxes -> Addresses \union {NoTarget}]
  BY DEF PluginsTyped, ScanTyped
<1>1. CASE \E b \in Boxes, x \in Addresses : BoxGetsAddress(b, x)
  <2>1. PICK b \in Boxes, x \in Addresses : BoxGetsAddress(b, x)
    BY <1>1
  <2>2. address' = [address EXCEPT ![b] = x]
    BY <2>1 DEF BoxGetsAddress
  <2> QED
    BY <1>0, <2>1, <2>2 DEF Right
<1>2. CASE \E b \in Boxes : BoxStops(b)
  <2>1. PICK b \in Boxes : address' = [address EXCEPT ![b] = NoTarget]
    BY <1>2 DEF BoxStops
  <2> QED
    BY <1>0, <2>1 DEF Right
<1>3. CASE ~(\E b \in Boxes, x \in Addresses : BoxGetsAddress(b, x)) /\ ~(\E b \in Boxes : BoxStops(b))
  <2>1. address' = address
    BY <1>3 DEF PluginsNext, BoxStarts, DockerFlips, Scan, ScanBegins, Ps, Inspect, Publish, ScanRaises,
               Ask, Connected, Done, PluginsVars, boxVars
  <2> QED
    BY <2>1 DEF Right
<1> QED
  BY <1>1, <1>2, <1>3

(* One step of docker, a scan or a request keeps the invariant. *)
LEMMA PluginsInvStep == PluginsInv /\ [PluginsNext]_PluginsVars => PluginsInv'
<1> SUFFICES ASSUME PluginsInv, [PluginsNext]_PluginsVars PROVE PluginsInv'
  OBVIOUS
<1>0. /\ PluginsTyped /\ FoundRight /\ TableRight /\ RequestRight /\ RightPlugin
      /\ PluginsTyped' /\ ScanTyped /\ AskTyped /\ OneHolder
  BY PluginsTypedStep DEF PluginsInv, PluginsTyped
<1>a. found \subseteq Names \X Addresses /\ discovered \in [Names -> Addresses \union {NoTarget}]
      /\ NoTarget \notin Addresses
  BY <1>0, PluginsAssumption DEF ScanTyped
<1> USE DEF boxVars, scanVars, askVars
<1>1. FoundRight'
  <2>1. CASE Inspect
    <3>1. address' = address /\ found' \subseteq Targets(listed)
      BY <2>1 DEF Inspect
    <3> SUFFICES ASSUME NEW p \in Targets(listed) PROVE Right(p[1], p[2])
      BY <3>1 DEF FoundRight, Right
    <3>2. PICK c \in listed \ Portless : p = <<Name[c], address[c]>> /\ address[c] # NoTarget
      BY DEF Targets
    <3>3. c \in Boxes /\ c \notin Portless /\ p[1] = Name[c] /\ p[2] = address[c]
      BY <1>0, <3>2 DEF ScanTyped
    <3> QED
      BY <1>0, <3>2, <3>3 DEF Right, OneHolder
  <2>2. CASE Ps /\ found' = {}
    BY <2>2 DEF FoundRight
  <2>3. CASE found' = found /\ movedScan \subseteq movedScan'
    <3> SUFFICES ASSUME NEW p \in found PROVE p[2] \in movedScan' \/ Right(p[1], p[2])'
      BY <2>3 DEF FoundRight
    <3>1. p[2] \in Addresses /\ p[2] # NoTarget
      BY <1>a
    <3>2. CASE p[2] \in movedScan
      BY <2>3, <3>2
    <3>3. CASE Right(p[1], p[2])
      <4>1. CASE \E b \in Boxes : BoxGetsAddress(b, p[2])
        BY <4>1 DEF BoxGetsAddress
      <4>2. CASE Right(p[1], p[2])'
        BY <4>2
      <4> QED
        BY <1>0, <3>1, <3>3, <4>1, <4>2, StaysRight
    <3> QED
      BY <1>0, <3>2, <3>3 DEF FoundRight
  <2> QED
    BY <2>1, <2>2, <2>3 DEF PluginsNext, PluginsVars, BoxStarts, BoxStops, BoxGetsAddress, DockerFlips,
       Scan, ScanBegins, Ps, Publish, ScanRaises, Ask, Connected, Done
<1>2. TableRight'
  <2>1. CASE Publish
    <3>1. address' = address /\ moved' = movedScan
      BY <2>1 DEF Publish
    <3> SUFFICES ASSUME NEW n \in Names, discovered'[n] # NoTarget
                 PROVE  discovered'[n] \in movedScan \/ Right(n, discovered'[n])
      BY <3>1 DEF TableRight, Right
    <3>2. PICK p \in found : p[1] = n /\ p[2] = discovered'[n]
      BY <2>1 DEF Publish, Tables
    <3> QED
      BY <1>0, <3>2 DEF FoundRight
  <2>2. CASE discovered' = discovered /\ moved \subseteq moved'
    <3> SUFFICES ASSUME NEW n \in Names, discovered[n] # NoTarget
                 PROVE  discovered[n] \in moved' \/ Right(n, discovered[n])'
      BY <2>2 DEF TableRight, Right
    <3>1. discovered[n] \in Addresses \union {NoTarget}
      BY <1>a
    <3>2. CASE discovered[n] \in moved
      BY <2>2, <3>2
    <3>3. CASE Right(n, discovered[n])
      <4>1. CASE \E b \in Boxes : BoxGetsAddress(b, discovered[n])
        BY <4>1 DEF BoxGetsAddress
      <4>2. Right(n, discovered[n])' \/ (\E b \in Boxes : BoxGetsAddress(b, discovered[n]))
        <5> DEFINE a == discovered[n]
        <5>1. a \in Addresses \union {NoTarget} /\ a # NoTarget /\ Right(n, a) /\ discovered'[n] = a
          BY <2>2, <3>1, <3>3
        <5> HIDE DEF a
        <5>2. PICK x : x = a
          OBVIOUS
        <5>3. Right(n, x)' \/ \E b \in Boxes : BoxGetsAddress(b, x)
          BY <1>0, <5>1, <5>2, StaysRight
        <5> QED
          BY <2>2, <5>2, <5>3 DEF a, Right
      <4> QED
        BY <4>1, <4>2
    <3> QED
      BY <1>0, <3>2, <3>3 DEF TableRight
  <2> QED
    BY <2>1, <2>2 DEF PluginsNext, PluginsVars, BoxStarts, BoxStops, BoxGetsAddress, DockerFlips,
       Scan, ScanBegins, Ps, Inspect, ScanRaises, Ask, Connected, Done
<1>3. RequestRight' /\ RightPlugin'
  <2>1. ASSUME NEW n \in Names \union Manual, Ask(n) PROVE RequestRight' /\ RightPlugin'
    <3>1. /\ request' = <<n, Get(n)>> /\ request'[1] = n /\ request'[2] = Get(n) /\ request' # <<>>
          /\ answer' = IF Get(n) = NoTarget THEN "404" ELSE ""
          /\ address' = address /\ (surprised' <=> Get(n) \in moved)
      BY <2>1 DEF Ask
    <3>2. answer' \notin Boxes \union {Demo}
      BY <3>1, PluginsAssumption
    <3>3. CASE n \in Manual
      BY <3>1, <3>2, <3>3 DEF RequestRight, RightPlugin, Get
    <3>4. CASE n \notin Manual
      <4>0. PICK g : g = Get(n)
        OBVIOUS
      <4>1. n \in Names /\ g = discovered[n] /\ g \in Addresses \union {NoTarget}
        BY <1>a, <2>1, <3>4, <4>0 DEF Get
      <4>2. g # NoTarget => g # Demo /\ (g \in moved \/ Right(n, g))
        BY <1>0, <4>1, PluginsAssumption DEF TableRight
      <4>3. Right(n, g)' <=> Right(n, g)
        BY <3>1 DEF Right
      <4>4. RequestRight'
        BY <3>1, <3>4, <4>0, <4>2, <4>3 DEF RequestRight, Right
      <4> QED
        BY <3>2, <4>4 DEF RightPlugin
    <3> QED
      BY <3>3, <3>4
  <2>2. CASE Connected
    <3>1. /\ request # <<>> /\ answer = "" /\ request' = request /\ surprised' = surprised
          /\ address' = address
          /\ answer' \in IF request[2] = Demo THEN {Demo}
                         ELSE {"502"} \union {b \in Boxes : address[b] = request[2]}
      BY <2>2 DEF Connected
    <3>2. request[2] # NoTarget
      BY <1>0, <3>1 DEF RequestRight
    <3>3. RightPlugin'
      <4> SUFFICES ASSUME answer' \in Boxes \union {Demo}, ~surprised
                   PROVE  IF request[1] \in Manual THEN answer' = Demo
                          ELSE Name[answer'] = request[1] /\ answer' \notin Portless
        BY <3>1 DEF RightPlugin
      <4>1. CASE request[1] \in Manual
        BY <1>0, <3>1, <4>1 DEF RequestRight
      <4>2. CASE request[1] \notin Manual
        <5>1. request[2] # Demo /\ Right(request[1], request[2])
          BY <1>0, <3>1, <3>2, <4>2 DEF RequestRight
        <5>2. answer' # "502"
          BY PluginsAssumption
        <5> QED
          BY <3>1, <4>2, <5>1, <5>2 DEF Right
      <4> QED
        BY <4>1, <4>2
    <3>4. RequestRight'
      BY <1>0, <3>1, <3>2 DEF RequestRight, Right
    <3> QED
      BY <3>3, <3>4
  <2>3. CASE Done
    BY <2>3 DEF Done, RequestRight, RightPlugin
  <2>4. CASE /\ request' = request /\ answer' = answer /\ surprised' = surprised
             /\ \A b \in Boxes : address'[b] \in {address[b], NoTarget}
    <3>1. RightPlugin'
      BY <1>0, <2>4 DEF RightPlugin
    <3>2. RequestRight'
      BY <1>0, <2>4 DEF RequestRight, Right
    <3> QED
      BY <3>1, <3>2
  <2>5. ASSUME NEW b \in Boxes, NEW a \in Addresses, BoxGetsAddress(b, a) PROVE RequestRight' /\ RightPlugin'
    <3>1. /\ request' = request /\ answer' = answer
          /\ (surprised' <=> surprised \/ (request # <<>> /\ request[2] = a))
          /\ address' = [address EXCEPT ![b] = a]
      BY <2>5 DEF BoxGetsAddress
    <3>2. RightPlugin'
      BY <1>0, <3>1 DEF RightPlugin
    <3>3. RequestRight'
      <4> SUFFICES ASSUME request # <<>>, request[1] \notin Manual, request[2] # NoTarget, ~surprised'
                   PROVE  request[2] # Demo /\ Right(request[1], request[2])'
        BY <1>0, <3>1 DEF RequestRight, Right
      <4>1. ~surprised /\ request[2] # Demo /\ Right(request[1], request[2]) /\ request[2] # a
        BY <1>0, <3>1 DEF RequestRight
      <4>2. address \in [Boxes -> Addresses \union {NoTarget}]
        BY <1>0 DEF ScanTyped
      <4> QED
        BY <3>1, <4>1, <4>2 DEF Right
    <3> QED
      BY <3>2, <3>3
  <2> QED
    <3>1. address \in [Boxes -> Addresses \union {NoTarget}]
      BY <1>0 DEF ScanTyped
    <3> QED
      BY <2>1, <2>2, <2>3, <2>4, <2>5, <3>1 DEF PluginsNext, PluginsVars, BoxStarts, BoxStops, DockerFlips,
         Scan, ScanBegins, Ps, Inspect, Publish, ScanRaises
<1> QED
  BY <1>0, <1>1, <1>2, <1>3 DEF PluginsInv

(* The invariant holds in every behaviour. *)
LEMMA PluginsInvariant == PluginsSpec => []PluginsInv
<1>1. PluginsInit => PluginsInv
  BY PluginsInitInv
<1>2. PluginsInv /\ [PluginsNext]_PluginsVars => PluginsInv'
  BY PluginsInvStep
<1> QED
  BY <1>1, <1>2, PTL DEF PluginsSpec

(* Every variable has its type. *)
LEMMA PluginsTypes == PluginsInv => PluginsTypeOK
BY DEF PluginsInv, PluginsTyped, ScanTyped, FlagsTyped, AskTyped, PluginsTypeOK

\* For any containers, names and addresses: a request for a name reaches a container that
\* carries it, or what was registered by hand, unless docker has given the address to
\* another container since it was inspected.
THEOREM RequestsGoRight == PluginsSpec => []RightPlugin
<1>1. PluginsInv => RightPlugin
  BY DEF PluginsInv
<1> QED
  BY <1>1, PluginsInvariant, PTL

-----------------------------------------------------------------------------
(* Relay *)

RelayTyped ==
  /\ session \in {"lookup", "dialing", "relaying", "ending", "closing", "closed"}
  /\ said \in [Ways -> 0..MaxSaid] /\ left \in [Ways -> BOOLEAN]
  /\ inbox \in [Ways -> Seq(0..MaxSaid)]
  /\ pump \in [Ways -> {"idle", "reading", "sending", "done"}]
  /\ held \in [Ways -> Seq(1..MaxSaid)]
  /\ heard \in [Ways -> Seq(1..MaxSaid)] /\ open \in [Ways -> BOOLEAN]

\* A queue of what was said after the n-th word and up to the s-th, in order, with the
\* close behind it if c.
Queued(q, n, s, c) ==
  /\ n <= s /\ Len(q) = IF c THEN s - n + 1 ELSE s - n
  /\ \A i \in 1..Len(q) : q[i] = IF i <= s - n THEN n + i ELSE Bye

\* Of what was said one way the pump has taken n, and the rest waits; an end that has left
\* is heard of as long as the pump reads.
Waits(w, n) ==
  \E c \in BOOLEAN : /\ Queued(inbox[w], n, said[w], c)
                     /\ c => left[w]
                     /\ left[w] /\ pump[w] # "done" => c

\* Words in the order of their turns, none after the k-th; and every one of them.
Words(h, k) ==
  /\ Len(h) <= k /\ \A i \in 1..Len(h) : h[i] <= k
  /\ \A i, j \in 1..Len(h) : i < j => h[i] < h[j]
EveryWord(h, k) == Len(h) = k /\ \A i \in 1..Len(h) : h[i] = i

\* Of what was taken the n-th is being sent, or has been: what was sent before it has
\* arrived in order, and all of it as long as the receiver is there.
Taken(w, n) ==
  /\ pump[w] = "sending" => held[w] # <<>>
  /\ pump[w] \in {"idle", "reading"} => held[w] = <<>>
  /\ \E k \in Nat : /\ (held[w] = <<>> /\ n = k) \/ (held[w] = <<n>> /\ n = k + 1)
                    /\ Words(heard[w], k)
                    /\ ~left[Back(w)] => EveryWord(heard[w], k)

Flowing == \A w \in Ways : \E n \in Nat : Waits(w, n) /\ Taken(w, n)

\* Why a pump has ended by itself: all that its sender said has been read, and it left; or
\* a message met a receiver that had gone.
Reason(w) ==
  \/ left[w] /\ inbox[w] = <<>> /\ held[w] = <<>>
  \/ left[Back(w)] /\ Len(heard[w]) < said[w]

\* What each point of _ws() means for the pumps and the connections.
Session ==
  /\ session \in {"lookup", "dialing"} => \A w \in Ways : pump[w] = "idle"
  /\ session = "relaying" => \A w \in Ways : pump[w] # "idle" /\ (pump[w] = "done" => Reason(w))
  /\ session \in {"ending", "closing", "closed"} =>
       \/ \A w \in Ways : pump[w] = "idle"
       \/ (\A w \in Ways : pump[w] = "done") /\ \E w \in Ways : Reason(w)
  /\ session = "closing" => ~open["down"]
  /\ session = "closed" => \A w \in Ways : ~open[w]

RelayInv == RelayTyped /\ Flowing /\ Session


(* There are two ways, one the other's back. *)
LEMMA BackIs == /\ \A w \in Ways : Back(w) \in Ways /\ Back(Back(w)) = w /\ Back(w) # w
                /\ \A v, w \in Ways : v = w \/ v = Back(w)
BY DEF Ways, Back

(* The invariant holds before the target is looked up. *)
LEMMA RelayInitInv == RelayInit => RelayInv
<1> SUFFICES ASSUME RelayInit PROVE RelayInv
  OBVIOUS
<1>1. RelayTyped
  BY RelayAssumption DEF RelayInit, RelayTyped
<1>2. Flowing
  <2>1. ASSUME NEW w \in Ways PROVE Waits(w, 0) /\ Taken(w, 0)
    <3>1. said[w] = 0 /\ inbox[w] = <<>> /\ ~left[w] /\ held[w] = <<>> /\ heard[w] = <<>>
          /\ pump[w] = "idle"
      BY DEF RelayInit
    <3>2. Queued(<<>>, 0, 0, FALSE) /\ Words(<<>>, 0) /\ EveryWord(<<>>, 0)
      BY DEF Queued, Words, EveryWord
    <3>3. Waits(w, 0)
      BY <3>1, <3>2 DEF Waits
    <3>4. Taken(w, 0)
      BY <3>1, <3>2 DEF Taken
    <3> QED
      BY <3>3, <3>4
  <2> QED
    BY <2>1 DEF Flowing
<1>3. Session
  BY DEF RelayInit, Session
<1> QED
  BY <1>1, <1>2, <1>3 DEF RelayInv

(* A word or a close that arrives goes to the end of the queue. *)
LEMMA QueueGrows ==
  ASSUME NEW q \in Seq(Nat), NEW n \in Nat, NEW s \in Nat, Queued(q, n, s, FALSE)
  PROVE  Queued(Append(q, s + 1), n, s + 1, FALSE) /\ Queued(Append(q, Bye), n, s, TRUE)
<1>1. Len(q) = s - n /\ n <= s /\ \A i \in 1..Len(q) : q[i] = n + i
  BY DEF Queued
<1>2. ASSUME NEW x \in Nat
      PROVE  /\ Len(Append(q, x)) = Len(q) + 1 /\ Append(q, x)[Len(q) + 1] = x
             /\ \A i \in 1..Len(q) : Append(q, x)[i] = q[i]
  BY AppendProperties
<1>3. Queued(Append(q, s + 1), n, s + 1, FALSE)
  <2> DEFINE r == Append(q, s + 1)
  <2>1. Len(r) = s + 1 - n /\ n <= s + 1 /\ r[Len(q) + 1] = s + 1 /\ \A i \in 1..Len(q) : r[i] = n + i
    BY <1>1, <1>2
  <2> HIDE DEF r
  <2>2. ASSUME NEW i \in 1..Len(r) PROVE r[i] = n + i /\ i <= s + 1 - n
    BY <1>1, <2>1
  <2>3. Queued(r, n, s + 1, FALSE)
    BY <2>1, <2>2 DEF Queued
  <2> QED
    BY <2>3 DEF r
<1>4. Queued(Append(q, Bye), n, s, TRUE)
  <2> DEFINE r == Append(q, Bye)
  <2>1. Len(r) = s - n + 1 /\ r[Len(q) + 1] = Bye /\ \A i \in 1..Len(q) : r[i] = n + i
    BY <1>1, <1>2 DEF Bye
  <2> HIDE DEF r
  <2>2. ASSUME NEW i \in 1..Len(r) PROVE r[i] = IF i <= s - n THEN n + i ELSE Bye
    BY <1>1, <2>1
  <2>3. Queued(r, n, s, TRUE)
    BY <1>1, <2>1, <2>2 DEF Queued
  <2> QED
    BY <2>3 DEF r
<1> QED
  BY <1>3, <1>4

(* What is read is the next word, or the close when there is none. *)
LEMMA QueueShrinks ==
  ASSUME NEW q \in Seq(Nat), NEW n \in Nat, NEW s \in Nat, NEW c \in BOOLEAN,
         Queued(q, n, s, c), q # <<>>
  PROVE  /\ Head(q) = Bye => c /\ n = s /\ Tail(q) = <<>>
         /\ Head(q) # Bye => Head(q) = n + 1 /\ n + 1 <= s /\ Queued(Tail(q), n + 1, s, c)
<1>1. /\ Len(q) \in Nat /\ Len(q) > 0 /\ Head(q) = q[1]
      /\ Tail(q) \in Seq(Nat) /\ Len(Tail(q)) = Len(q) - 1
      /\ \A i \in 1..(Len(q) - 1) : Tail(q)[i] = q[i + 1]
  BY EmptySeq, HeadTailProperties
<1>2. /\ n <= s /\ Len(q) = IF c THEN s - n + 1 ELSE s - n
      /\ \A i \in 1..Len(q) : q[i] = IF i <= s - n THEN n + i ELSE Bye
  BY DEF Queued
<1>3. CASE n = s
  <2>1. c /\ Len(q) = 1 /\ q[1] = Bye
    BY <1>1, <1>2, <1>3
  <2>2. Len(Tail(q)) = 0
    BY <1>1, <2>1
  <2>3. Tail(q) = <<>>
    BY <1>1, <2>2, EmptySeq
  <2> QED
    BY <1>1, <1>3, <2>1, <2>3
<1>4. CASE n # s
  <2>1. q[1] = n + 1 /\ n + 1 # Bye /\ n + 1 <= s
    BY <1>1, <1>2, <1>4 DEF Bye
  <2> DEFINE r == Tail(q)
  <2>2. Len(r) = (IF c THEN s - (n + 1) + 1 ELSE s - (n + 1)) /\ Len(r) = Len(q) - 1
        /\ \A i \in 1..(Len(q) - 1) : r[i] = q[i + 1]
    BY <1>1, <1>2
  <2> HIDE DEF r
  <2>3. ASSUME NEW i \in 1..Len(r) PROVE r[i] = IF i <= s - (n + 1) THEN (n + 1) + i ELSE Bye
    <3>1. i + 1 \in 1..Len(q) /\ r[i] = q[i + 1] /\ (i + 1 <= s - n <=> i <= s - (n + 1))
      BY <1>1, <2>2
    <3> QED
      BY <1>2, <3>1
  <2>4. Queued(r, n + 1, s, c)
    BY <2>1, <2>2, <2>3 DEF Queued
  <2> QED
    BY <1>1, <2>1, <2>4 DEF r
<1> QED
  BY <1>3, <1>4

(* The next word behind all the others. *)
LEMMA WordsGrow ==
  ASSUME NEW h \in Seq(Nat), NEW k \in Nat, EveryWord(h, k)
  PROVE  EveryWord(h \o <<k + 1>>, k + 1) /\ Words(h \o <<k + 1>>, k + 1)
<1> DEFINE r == h \o <<k + 1>>
<1>1. Len(r) = k + 1 /\ \A i \in 1..Len(h) : r[i] = i
  BY ConcatProperties DEF EveryWord
<1>2. r[Len(h) + 1] = k + 1
  BY ConcatProperties
<1> HIDE DEF r
<1>3. ASSUME NEW i \in 1..Len(r) PROVE r[i] = i
  BY <1>1, <1>2 DEF EveryWord
<1>4. EveryWord(r, k + 1) /\ Words(r, k + 1)
  BY <1>1, <1>3 DEF EveryWord, Words
<1> QED
  BY <1>4 DEF r

(* What a pump reads is the next word of those said, or the close when it has had them all. *)
LEMMA ReadsTheNext ==
  ASSUME RelayTyped, NEW w \in Ways, NEW n \in Nat, Waits(w, n), inbox[w] # <<>>
  PROVE  /\ inbox[w] \in Seq(Nat) /\ Tail(inbox[w]) \in Seq(0..MaxSaid)
         /\ Head(inbox[w]) = Bye => left[w] /\ n = said[w] /\ Tail(inbox[w]) = <<>>
         /\ Head(inbox[w]) # Bye => Head(inbox[w]) = n + 1 /\ n + 1 \in 1..MaxSaid
<1>1. /\ inbox[w] \in Seq(0..MaxSaid) /\ 0..MaxSaid \subseteq Nat /\ said[w] \in 0..MaxSaid
  BY RelayAssumption DEF RelayTyped
<1>2. inbox[w] \in Seq(Nat) /\ Tail(inbox[w]) \in Seq(0..MaxSaid)
  <2>1. \A S, T, q : S \subseteq T /\ q \in Seq(S) => q \in Seq(T)
    OBVIOUS
  <2>2. Tail(inbox[w]) \in Seq(0..MaxSaid)
    BY <1>1, HeadTailProperties
  <2> QED
    BY <1>1, <2>1, <2>2
<1>3. PICK c \in BOOLEAN : Queued(inbox[w], n, said[w], c) /\ (c => left[w])
  BY DEF Waits
<1>4. said[w] \in Nat
  BY <1>1
<1>5. /\ Head(inbox[w]) = Bye => c /\ n = said[w] /\ Tail(inbox[w]) = <<>>
      /\ Head(inbox[w]) # Bye => Head(inbox[w]) = n + 1 /\ n + 1 <= said[w]
  BY <1>2, <1>3, <1>4, QueueShrinks
<1> QED
  BY <1>1, <1>2, <1>3, <1>5, RelayAssumption

(* The types are kept. *)
LEMMA RelayTypedStep == RelayInv /\ [RelayNext]_RelayVars => RelayTyped'
<1> SUFFICES ASSUME RelayInv, [RelayNext]_RelayVars PROVE RelayTyped'
  OBVIOUS
<1> USE RelayAssumption DEF RelayTyped
<1>0. RelayTyped /\ Flowing
  BY DEF RelayInv
<1>1. ASSUME NEW w \in Ways, Says(w) PROVE RelayTyped'
  <2>1. said[w] + 1 \in 0..MaxSaid /\ inbox[w] \in Seq(0..MaxSaid)
    BY <1>0, <1>1 DEF Says
  <2>2. Append(inbox[w], said[w] + 1) \in Seq(0..MaxSaid)
    BY <2>1
  <2> QED
    BY <1>0, <1>1, <2>1, <2>2 DEF Says
<1>2. ASSUME NEW w \in Ways, Leaves(w) PROVE RelayTyped'
  <2>1. Append(inbox[w], Bye) \in Seq(0..MaxSaid)
    BY <1>0 DEF Bye
  <2> QED
    BY <1>0, <1>2, <2>1 DEF Leaves
<1>3. ASSUME NEW w \in Ways, Read(w) PROVE RelayTyped'
  <2>1. PICK n \in Nat : Waits(w, n)
    BY <1>0 DEF Flowing
  <2>2. Tail(inbox[w]) \in Seq(0..MaxSaid)
    BY <1>0, <1>3, <2>1, ReadsTheNext DEF Read
  <2>3. Head(inbox[w]) # Bye => <<Head(inbox[w])>> \in Seq(1..MaxSaid)
    <3> SUFFICES ASSUME Head(inbox[w]) # Bye PROVE Head(inbox[w]) \in 1..MaxSaid
      OBVIOUS
    <3> QED
      BY <1>0, <1>3, <2>1, ReadsTheNext DEF Read
  <2> QED
    BY <1>0, <1>3, <2>2, <2>3 DEF Read
<1>4. ASSUME NEW w \in Ways, Send(w) PROVE RelayTyped'
  <2>1. heard[w] \o held[w] \in Seq(1..MaxSaid)
    BY <1>0
  <2> QED
    BY <1>0, <1>4, <2>1 DEF Send
<1>5. ASSUME NEW w \in Ways, SendLost(w) PROVE RelayTyped'
  <2>1. <<>> \in Seq(1..MaxSaid)
    OBVIOUS
  <2> QED
    BY <1>0, <1>5, <2>1 DEF SendLost
<1>6. CASE Ws
  BY <1>0, <1>6 DEF Ws, Refuse, Dial, Accept, First, CloseUpstream, CloseBrowser
<1>7. CASE UNCHANGED RelayVars
  BY <1>0, <1>7 DEF RelayVars
<1> QED
  BY <1>1, <1>2, <1>3, <1>4, <1>5, <1>6, <1>7 DEF RelayNext, Pump

(* One way is as it was when nothing on it has changed but that the receiver left. *)
LEMMA OtherWay ==
  ASSUME NEW w \in Ways, NEW n,
         said'[w] = said[w], inbox'[w] = inbox[w], held'[w] = held[w], heard'[w] = heard[w],
         left'[w] = left[w], left[Back(w)] => left'[Back(w)],
         pump'[w] = pump[w] \/ (pump'[w] = "reading" /\ pump[w] = "idle") \/ pump'[w] = "done",
         Waits(w, n), Taken(w, n)
  PROVE  Waits(w, n)' /\ Taken(w, n)'
BY DEF Waits, Taken

(* Each way is followed by the words: said, read, sent, or lost with an end that left. *)
LEMMA FlowingStep == RelayInv /\ [RelayNext]_RelayVars => Flowing'
<1> SUFFICES ASSUME RelayInv, [RelayNext]_RelayVars PROVE Flowing'
  OBVIOUS
<1>0. RelayTyped /\ Flowing /\ Session /\ RelayTyped'
  BY RelayTypedStep DEF RelayInv
<1>00. \A w \in Ways : said[w] \in Nat /\ inbox[w] \in Seq(Nat) /\ heard[w] \in Seq(Nat)
  <2>1. \A S, T, q : S \subseteq T /\ q \in Seq(S) => q \in Seq(T)
    OBVIOUS
  <2>2. 0..MaxSaid \subseteq Nat /\ 1..MaxSaid \subseteq Nat
    BY RelayAssumption
  <2>3. \A w \in Ways : /\ said[w] \in 0..MaxSaid /\ inbox[w] \in Seq(0..MaxSaid)
                        /\ heard[w] \in Seq(1..MaxSaid)
    BY <1>0 DEF RelayTyped
  <2> QED
    BY <2>1, <2>2, <2>3
<1>1. ASSUME NEW w \in Ways, NEW n \in Nat, Waits(w, n), Taken(w, n),
             Says(w) \/ Leaves(w) \/ Pump(w)
      PROVE  \E m \in Nat : Waits(w, m)' /\ Taken(w, m)'
  <2>0. Back(w) # w /\ Back(w) \in Ways
    BY BackIs
  <2>c. PICK c \in BOOLEAN : /\ Queued(inbox[w], n, said[w], c) /\ (c => left[w])
                             /\ (left[w] /\ pump[w] # "done" => c)
    BY <1>1 DEF Waits
  <2>k. PICK k \in Nat : /\ (held[w] = <<>> /\ n = k) \/ (held[w] = <<n>> /\ n = k + 1)
                         /\ Words(heard[w], k)
                         /\ ~left[Back(w)] => EveryWord(heard[w], k)
    BY <1>1 DEF Taken
  <2>1. CASE Says(w)
    <3>1. /\ ~left[w] /\ left' = left /\ pump' = pump /\ held' = held /\ heard' = heard
          /\ said'[w] = said[w] + 1 /\ inbox'[w] = Append(inbox[w], said[w] + 1)
      BY <1>0, <2>1 DEF Says, RelayTyped
    <3>2. Queued(inbox'[w], n, said'[w], FALSE)
      <4>1. Queued(inbox[w], n, said[w], FALSE)
        BY <2>c, <3>1
      <4> QED
        BY <1>00, <3>1, <4>1, QueueGrows
    <3>3. Waits(w, n)'
      BY <3>1, <3>2 DEF Waits
    <3>4. Taken(w, n)'
      BY <1>1, <3>1 DEF Taken
    <3> QED
      BY <3>3, <3>4
  <2>2. CASE Leaves(w)
    <3>1. /\ ~left[w] /\ left'[w] /\ said' = said /\ pump' = pump /\ held' = held /\ heard' = heard
          /\ left'[Back(w)] = left[Back(w)] /\ inbox'[w] = Append(inbox[w], Bye)
      BY <1>0, <2>0, <2>2 DEF Leaves, RelayTyped
    <3>2. Queued(inbox'[w], n, said'[w], TRUE)
      <4>1. Queued(inbox[w], n, said[w], FALSE)
        BY <2>c, <3>1
      <4> QED
        BY <1>00, <3>1, <4>1, QueueGrows
    <3>3. Waits(w, n)'
      BY <3>1, <3>2 DEF Waits
    <3>4. Taken(w, n)'
      BY <1>1, <3>1 DEF Taken
    <3> QED
      BY <3>3, <3>4
  <2>3. CASE Read(w)
    <3>1. /\ pump[w] = "reading" /\ inbox[w] # <<>> /\ inbox'[w] = Tail(inbox[w])
          /\ said' = said /\ left' = left /\ heard' = heard
      BY <1>0, <2>3 DEF Read, RelayTyped
    <3>2. held[w] = <<>> /\ n = k
      <4>1. held[w] = <<>> /\ <<>> # <<n>>
        BY <1>1, <3>1 DEF Taken
      <4> QED
        BY <2>k, <4>1
    <3>3. /\ Head(inbox[w]) = Bye => c /\ n = said[w] /\ Tail(inbox[w]) = <<>>
          /\ Head(inbox[w]) # Bye => /\ Head(inbox[w]) = n + 1
                                     /\ Queued(Tail(inbox[w]), n + 1, said[w], c)
      BY <1>1, <1>00, <2>c, <3>1, QueueShrinks
    <3>4. CASE Head(inbox[w]) = Bye
      <4>1. pump'[w] = "done" /\ held' = held
        BY <1>0, <2>3, <3>4 DEF Read, RelayTyped
      <4>2. Queued(inbox'[w], n, said'[w], FALSE)
        <5>1. Queued(<<>>, n, n, FALSE)
          BY DEF Queued
        <5> QED
          BY <3>1, <3>3, <3>4, <5>1
      <4>3. Waits(w, n)'
        BY <4>1, <4>2 DEF Waits
      <4>4. Taken(w, n)'
        BY <2>k, <3>1, <3>2, <4>1 DEF Taken
      <4> QED
        BY <4>3, <4>4
    <3>5. CASE Head(inbox[w]) # Bye
      <4>1. pump'[w] = "sending" /\ held'[w] = <<n + 1>>
        BY <1>0, <2>3, <3>3, <3>5 DEF Read, RelayTyped
      <4>2. Queued(inbox'[w], n + 1, said'[w], c)
        BY <3>1, <3>3, <3>5
      <4>3. Waits(w, n + 1)'
        BY <2>c, <3>1, <4>1, <4>2 DEF Waits
      <4>4. Taken(w, n + 1)'
        BY <2>k, <3>1, <3>2, <4>1 DEF Taken
      <4> QED
        BY <4>3, <4>4
    <3> QED
      BY <3>4, <3>5
  <2>4. CASE Send(w)
    <3>1. /\ pump[w] = "sending" /\ pump'[w] = "reading" /\ held'[w] = <<>>
          /\ heard'[w] = heard[w] \o held[w] /\ ~left[Back(w)]
          /\ said' = said /\ left' = left /\ inbox' = inbox
      BY <1>0, <2>4 DEF Send, RelayTyped
    <3>2. held[w] = <<n>> /\ n = k + 1
      BY <1>1, <2>k, <3>1 DEF Taken
    <3>3. EveryWord(heard'[w], n) /\ Words(heard'[w], n)
      BY <1>00, <2>k, <3>1, <3>2, WordsGrow
    <3>4. Waits(w, n)'
      BY <2>c, <3>1 DEF Waits
    <3>5. Taken(w, n)'
      BY <3>1, <3>3 DEF Taken
    <3> QED
      BY <3>4, <3>5
  <2>5. CASE SendLost(w)
    <3>1. /\ pump[w] = "sending" /\ pump'[w] \in {"done", "reading"} /\ held'[w] = <<>>
          /\ left[Back(w)]
          /\ said' = said /\ left' = left /\ inbox' = inbox /\ heard' = heard
      BY <1>0, <2>5 DEF SendLost, RelayTyped
    <3>2. held[w] = <<n>> /\ n = k + 1
      BY <1>1, <2>k, <3>1 DEF Taken
    <3>3. Words(heard[w], n)
      <4> DEFINE h == heard[w]
      <4>1. h \in Seq(Nat) /\ Len(h) \in Nat /\ \A i \in 1..Len(h) : h[i] \in Nat
        BY <1>00
      <4>2. Words(h, k)
        BY <2>k
      <4> HIDE DEF h
      <4>3. Words(h, n)
        BY <3>2, <4>1, <4>2 DEF Words
      <4> QED
        BY <4>3 DEF h
    <3>4. Waits(w, n)'
      BY <2>c, <3>1 DEF Waits
    <3>5. Taken(w, n)'
      BY <3>1, <3>3 DEF Taken
    <3> QED
      BY <3>4, <3>5
  <2> QED
    BY <1>1, <2>1, <2>2, <2>3, <2>4, <2>5 DEF Pump
<1>2. ASSUME NEW w \in Ways, NEW n \in Nat, Waits(w, n), Taken(w, n),
             NEW v \in Ways, v # w, Says(v) \/ Leaves(v) \/ Pump(v)
      PROVE  Waits(w, n)' /\ Taken(w, n)'
  <2>1. /\ said'[w] = said[w] /\ inbox'[w] = inbox[w] /\ held'[w] = held[w] /\ heard'[w] = heard[w]
        /\ left'[w] = left[w] /\ pump'[w] = pump[w] /\ (left[Back(w)] => left'[Back(w)])
    <3>1. CASE Says(v) \/ Leaves(v)
      BY <1>0, <1>2, <3>1, BackIs DEF Says, Leaves, RelayTyped
    <3>2. CASE Read(v)
      BY <1>0, <1>2, <3>2 DEF Read, RelayTyped
    <3>3. CASE Send(v) \/ SendLost(v)
      BY <1>0, <1>2, <3>3 DEF Send, SendLost, RelayTyped
    <3> QED
      BY <1>2, <3>1, <3>2, <3>3 DEF Pump
  <2> QED
    BY <1>2, <2>1, OtherWay
<1>3. ASSUME NEW w \in Ways, NEW n \in Nat, Waits(w, n), Taken(w, n), Ws \/ UNCHANGED RelayVars
      PROVE  Waits(w, n)' /\ Taken(w, n)'
  <2>1. /\ said' = said /\ inbox' = inbox /\ held' = held /\ heard' = heard /\ left' = left
        /\ pump'[w] = pump[w] \/ (pump'[w] = "reading" /\ pump[w] = "idle") \/ pump'[w] = "done"
    BY <1>0, <1>3 DEF Ws, Refuse, Dial, Accept, First, CloseUpstream, CloseBrowser, RelayVars, Session
  <2> QED
    BY <1>3, <2>1, OtherWay
<1> QED
  BY <1>0, <1>1, <1>2, <1>3 DEF RelayNext, Flowing

(* Each point of _ws() goes on meaning what it means; a pump that ends by itself has its
   reason, and keeps it. *)
LEMMA SessionStep == RelayInv /\ [RelayNext]_RelayVars => Session'
<1> SUFFICES ASSUME RelayInv, [RelayNext]_RelayVars PROVE Session'
  OBVIOUS
<1>0. RelayTyped /\ Flowing /\ Session
  BY DEF RelayInv
<1>1. ASSUME NEW v \in Ways, Says(v) \/ Leaves(v)
      PROVE  /\ session' = session /\ pump' = pump /\ open' = open /\ held' = held /\ heard' = heard
             /\ \A w \in Ways : /\ left[w] => left'[w] /\ inbox'[w] = inbox[w]
                                /\ said'[w] \in Nat /\ said[w] \in Nat /\ said[w] <= said'[w]
  <2>1. CASE Says(v)
    BY <1>0, <2>1, RelayAssumption DEF Says, RelayTyped
  <2>2. CASE Leaves(v)
    BY <1>0, <2>2, RelayAssumption DEF Leaves, RelayTyped
  <2> QED
    BY <1>1, <2>1, <2>2
<1>2. ASSUME NEW v \in Ways, Says(v) \/ Leaves(v) PROVE Session'
  <2>1. ASSUME NEW w \in Ways, Reason(w) PROVE Reason(w)'
    <3>1. Len(heard[w]) \in Nat /\ Back(w) \in Ways
      BY <1>0, BackIs DEF RelayTyped
    <3> QED
      BY <1>1, <1>2, <2>1, <3>1 DEF Reason
  <2> QED
    BY <1>0, <1>1, <1>2, <2>1 DEF Session
<1>3. ASSUME NEW v \in Ways, Pump(v) PROVE Session'
  <2>1. pump[v] \in {"reading", "sending"} /\ session = "relaying"
    BY <1>0, <1>3 DEF Pump, Read, Send, SendLost, Session, RelayTyped
  <2>2. /\ session' = session /\ said' = said /\ left' = left
        /\ \A w \in Ways : w # v => pump'[w] = pump[w] /\ inbox'[w] = inbox[w] /\ held'[w] = held[w]
                                    /\ heard'[w] = heard[w]
        /\ pump'[v] # "idle"
    BY <1>0, <1>3 DEF Pump, Read, Send, SendLost, RelayTyped
  <2>3. ASSUME pump'[v] = "done" PROVE Reason(v)'
    <3>1. PICK n \in Nat : Waits(v, n) /\ Taken(v, n)
      BY <1>0 DEF Flowing
    <3>2. CASE Read(v)
      <4>1. inbox[v] # <<>> /\ Head(inbox[v]) = Bye /\ held' = held /\ inbox'[v] = Tail(inbox[v])
        BY <1>0, <2>3, <3>2 DEF Read, RelayTyped
      <4>2. left[v] /\ Tail(inbox[v]) = <<>>
        BY <1>0, <3>1, <4>1, ReadsTheNext
      <4>3. held[v] = <<>>
        BY <3>1, <3>2 DEF Taken, Read
      <4> QED
        BY <2>2, <4>1, <4>2, <4>3 DEF Reason
    <3>3. CASE Send(v)
      BY <1>0, <2>3, <3>3 DEF Send, RelayTyped
    <3>4. CASE SendLost(v)
      <4>1. left[Back(v)] /\ heard' = heard /\ held[v] # <<>>
        BY <3>1, <3>4 DEF SendLost, Taken
      <4>2. PICK k \in Nat : /\ (held[v] = <<>> /\ n = k) \/ (held[v] = <<n>> /\ n = k + 1)
                             /\ Len(heard[v]) <= k
        BY <3>1 DEF Taken, Words
      <4>3. n <= said[v]
        BY <3>1 DEF Waits, Queued
      <4>4. said[v] \in Nat /\ Len(heard[v]) \in Nat
        BY <1>0, RelayAssumption DEF RelayTyped
      <4>5. Len(heard[v]) < said[v]
        BY <4>1, <4>2, <4>3, <4>4
      <4> QED
        BY <2>2, <4>1, <4>5 DEF Reason
    <3> QED
      BY <1>3, <3>2, <3>3, <3>4 DEF Pump
  <2>4. ASSUME NEW w \in Ways, w # v, Reason(w) PROVE Reason(w)'
    BY <2>2, <2>4 DEF Reason
  <2>5. ASSUME NEW w \in Ways PROVE pump'[w] # "idle" /\ (pump'[w] = "done" => Reason(w)')
    BY <1>0, <2>1, <2>2, <2>3, <2>4 DEF Session
  <2> QED
    BY <2>1, <2>2, <2>5 DEF Session
<1>4. ASSUME Ws \/ UNCHANGED RelayVars PROVE Session'
  <2>1. /\ said' = said /\ left' = left /\ inbox' = inbox /\ held' = held /\ heard' = heard
    BY <1>4 DEF Ws, Refuse, Dial, Accept, First, CloseUpstream, CloseBrowser, RelayVars
  <2>2. \A w \in Ways : Reason(w)' <=> Reason(w)
    BY <2>1 DEF Reason
  <2>3. CASE Refuse
    BY <1>0, <2>2, <2>3 DEF Refuse, Session
  <2>4. CASE Dial
    BY <1>0, <2>2, <2>4 DEF Dial, Session
  <2>5. CASE Accept
    BY <1>0, <2>2, <2>5 DEF Accept, Session
  <2>6. CASE First
    BY <1>0, <2>2, <2>6 DEF First, Session
  <2>7. CASE CloseUpstream
    BY <1>0, <2>2, <2>7 DEF CloseUpstream, Session, RelayTyped, Ways
  <2>8. CASE CloseBrowser
    BY <1>0, <2>2, <2>8 DEF CloseBrowser, Session, RelayTyped, Ways
  <2>9. CASE UNCHANGED RelayVars
    BY <1>0, <2>2, <2>9 DEF RelayVars, Session
  <2> QED
    BY <1>4, <2>3, <2>4, <2>5, <2>6, <2>7, <2>8, <2>9 DEF Ws
<1> QED
  BY <1>2, <1>3, <1>4 DEF RelayNext

(* One step keeps the whole invariant. *)
LEMMA RelayInvStep == RelayInv /\ [RelayNext]_RelayVars => RelayInv'
BY RelayTypedStep, FlowingStep, SessionStep DEF RelayInv

(* The invariant holds in every behaviour of a session. *)
LEMMA RelayInvariant == RelaySpec => []RelayInv
<1>1. RelayInit => RelayInv
  BY RelayInitInv
<1>2. RelayInv /\ [RelayNext]_RelayVars => RelayInv'
  BY RelayInvStep
<1> QED
  BY <1>1, <1>2, PTL DEF RelaySpec

(* Every variable has its type. *)
LEMMA RelayTypes == RelayInv => RelayTypeOK
<1> SUFFICES ASSUME RelayInv PROVE RelayTypeOK
  OBVIOUS
<1>1. ASSUME NEW w \in Ways PROVE held[w] \in {<<>>} \union {<<i>> : i \in 1..MaxSaid}
  <2>1. PICK n \in Nat : held[w] = <<>> \/ held[w] = <<n>>
    BY DEF RelayInv, Flowing, Taken
  <2>2. held[w] \in Seq(1..MaxSaid)
    BY DEF RelayInv, RelayTyped
  <2>3. CASE held[w] = <<n>>
    <3>1. Len(held[w]) = 1 /\ held[w][1] = n
      BY <2>3
    <3>2. held[w][1] \in 1..MaxSaid
      <4>1. 1 \in 1..Len(held[w])
        BY <3>1
      <4> QED
        BY <2>2, <4>1, ElementOfSeq
    <3> QED
      BY <2>3, <3>1, <3>2
  <2> QED
    BY <2>1, <2>3
<1>2. held \in [Ways -> {<<>>} \union {<<i>> : i \in 1..MaxSaid}]
  BY <1>1 DEF RelayInv, RelayTyped
<1> QED
  BY <1>2 DEF RelayInv, RelayTyped, RelayTypeOK

(* The words that arrived and those that wait, put together, are those that were said. *)
LEMMA Joined ==
  ASSUME NEW h \in Seq(Nat), NEW q \in Seq(Nat), NEW n \in Nat, NEW w \in Ways, said[w] \in Nat,
         NEW c \in BOOLEAN, EveryWord(h, n), Queued(q, n, said[w], c)
  PROVE  h \o q = IF c THEN Append(Spoken(w), Bye) ELSE Spoken(w)
<1> DEFINE r == h \o q
           s == said[w]
           t == Spoken(w)
           u == Append(t, Bye)
<1>1. /\ r \in Seq(Nat) /\ Len(r) = Len(h) + Len(q)
      /\ \A i \in 1..Len(r) : r[i] = IF i <= Len(h) THEN h[i] ELSE q[i - Len(h)]
  BY ConcatProperties
<1>2. t \in Seq(Nat) /\ Len(t) = s /\ \A i \in 1..s : t[i] = i
  BY IsASeq DEF Spoken
<1>3. /\ u \in Seq(Nat) /\ Len(u) = s + 1 /\ u[s + 1] = Bye
      /\ \A i \in 1..s : u[i] = i
  BY <1>2, AppendProperties DEF Bye
<1>4. /\ Len(h) = n /\ \A i \in 1..n : h[i] = i
      /\ n <= s /\ Len(q) = (IF c THEN s - n + 1 ELSE s - n)
      /\ \A i \in 1..Len(q) : q[i] = IF i <= s - n THEN n + i ELSE Bye
  BY DEF EveryWord, Queued
<1> HIDE DEF r, t, u
<1>5. Len(r) = (IF c THEN s + 1 ELSE s)
  BY <1>1, <1>4
<1>6. ASSUME NEW i \in 1..Len(r) PROVE r[i] = IF i <= s THEN i ELSE Bye
  <2>1. CASE i <= n
    BY <1>1, <1>4, <2>1
  <2>2. CASE i > n
    <3>1. i - n \in 1..Len(q) /\ (i - n <= s - n <=> i <= s) /\ n + (i - n) = i
      BY <1>1, <1>4, <2>2
    <3>2. r[i] = q[i - n]
      BY <1>1, <1>4, <2>2
    <3> QED
      BY <1>4, <3>1, <3>2
  <2> QED
    BY <2>1, <2>2
<1>7. c => r = u
  <2> SUFFICES ASSUME c PROVE r = u
    OBVIOUS
  <2>1. Len(r) = Len(u) /\ r \in Seq(Nat) /\ u \in Seq(Nat)
    BY <1>1, <1>3, <1>5
  <2>2. \A i \in 1..Len(r) : r[i] = u[i]
    BY <1>2, <1>3, <1>5, <1>6
  <2> QED
    BY <2>1, <2>2, SeqEqual
<1>8. ~c => r = t
  <2> SUFFICES ASSUME ~c PROVE r = t
    OBVIOUS
  <2>1. Len(r) = Len(t) /\ r \in Seq(Nat) /\ t \in Seq(Nat)
    BY <1>1, <1>2, <1>5
  <2>2. \A i \in 1..Len(r) : r[i] = t[i]
    BY <1>2, <1>5, <1>6
  <2> QED
    BY <2>1, <2>2, SeqEqual
<1> QED
  BY <1>7, <1>8 DEF r, t, u

(* What the invariant says of the words that were heard. *)
LEMMA RelayWords == RelayInv => WordsArrive
<1> SUFFICES ASSUME RelayInv PROVE WordsArrive
  OBVIOUS
<1>0. RelayTyped /\ Flowing /\ Session
  BY DEF RelayInv
<1>00. \A w \in Ways : said[w] \in Nat /\ inbox[w] \in Seq(Nat) /\ heard[w] \in Seq(Nat)
                       /\ DOMAIN heard[w] = 1..Len(heard[w])
  <2>1. \A S, T, q : S \subseteq T /\ q \in Seq(S) => q \in Seq(T)
    OBVIOUS
  <2>2. 0..MaxSaid \subseteq Nat /\ 1..MaxSaid \subseteq Nat
    BY RelayAssumption
  <2>3. \A w \in Ways : /\ said[w] \in 0..MaxSaid /\ inbox[w] \in Seq(0..MaxSaid)
                        /\ heard[w] \in Seq(1..MaxSaid)
    BY <1>0 DEF RelayTyped
  <2> QED
    BY <2>1, <2>2, <2>3, LenProperties
<1>1. InOrder
  <2> SUFFICES ASSUME NEW w \in Ways
               PROVE  /\ ~left[Back(w)] => heard[w] \o held[w] \o inbox[w]
                                             \in {Spoken(w), Append(Spoken(w), Bye)}
                      /\ \A i, j \in DOMAIN heard[w] : i < j => heard[w][i] < heard[w][j]
    BY DEF InOrder
  <2>1. PICK n \in Nat : Waits(w, n) /\ Taken(w, n)
    BY <1>0 DEF Flowing
  <2>2. PICK c \in BOOLEAN : Queued(inbox[w], n, said[w], c)
    BY <2>1 DEF Waits
  <2>3. PICK k \in Nat : /\ (held[w] = <<>> /\ n = k) \/ (held[w] = <<n>> /\ n = k + 1)
                         /\ Words(heard[w], k)
                         /\ ~left[Back(w)] => EveryWord(heard[w], k)
    BY <2>1 DEF Taken
  <2>4. ASSUME ~left[Back(w)]
        PROVE  heard[w] \o held[w] \o inbox[w] \in {Spoken(w), Append(Spoken(w), Bye)}
    <3>1. EveryWord(heard[w] \o held[w], n) /\ heard[w] \o held[w] \in Seq(Nat)
      <4>1. CASE held[w] = <<>> /\ n = k
        <5>1. heard[w] \o held[w] = heard[w]
          BY <1>00, <4>1, ConcatEmptySeq
        <5> QED
          BY <1>00, <2>3, <2>4, <4>1, <5>1
      <4>2. CASE held[w] = <<n>> /\ n = k + 1
        BY <1>00, <2>3, <2>4, <4>2, WordsGrow
      <4> QED
        BY <2>3, <4>1, <4>2
    <3>2. heard[w] \o held[w] \o inbox[w] = IF c THEN Append(Spoken(w), Bye) ELSE Spoken(w)
      <4> DEFINE h == heard[w] \o held[w]
                 q == inbox[w]
      <4>1. h \in Seq(Nat) /\ q \in Seq(Nat) /\ said[w] \in Nat /\ EveryWord(h, n)
            /\ Queued(q, n, said[w], c)
        BY <1>00, <2>2, <3>1
      <4> HIDE DEF h, q
      <4>2. h \o q = IF c THEN Append(Spoken(w), Bye) ELSE Spoken(w)
        BY <4>1, Joined
      <4> QED
        BY <4>2 DEF h, q
    <3> QED
      BY <3>2
  <2> QED
    BY <1>00, <2>3, <2>4 DEF Words
<1>2. LastWordsArrive
  <2> SUFFICES ASSUME NEW w \in Ways, session = "closed", pump[w] = "done", left[w], ~left[Back(w)],
                      heard[Back(w)] = Spoken(Back(w))
               PROVE  heard[w] = Spoken(w)
    BY DEF LastWordsArrive
  <2>1. PICK v \in Ways : Reason(v)
    BY <1>0 DEF Session
  <2>2. Len(heard[Back(w)]) = said[Back(w)] /\ said[Back(w)] \in Nat
    BY <1>00, BackIs DEF Spoken
  <2>3. v = w /\ inbox[w] = <<>> /\ held[w] = <<>>
    BY <2>1, <2>2, BackIs DEF Reason
  <2>4. PICK n \in Nat : Waits(w, n) /\ Taken(w, n)
    BY <1>0 DEF Flowing
  <2>5. PICK c \in BOOLEAN : Queued(inbox[w], n, said[w], c)
    BY <2>4 DEF Waits
  <2>6. ~c
    BY <1>00, <2>3, <2>5 DEF Queued
  <2>7. EveryWord(heard[w], n)
    <3>1. <<>> # <<n>>
      OBVIOUS
    <3> QED
      BY <2>3, <2>4, <3>1 DEF Taken
  <2>8. heard[w] \o inbox[w] = Spoken(w)
    <3> DEFINE h == heard[w]
               q == inbox[w]
    <3>1. h \in Seq(Nat) /\ q \in Seq(Nat) /\ said[w] \in Nat /\ EveryWord(h, n)
          /\ Queued(q, n, said[w], c)
      BY <1>00, <2>5, <2>7
    <3> HIDE DEF h, q
    <3>2. h \o q = IF c THEN Append(Spoken(w), Bye) ELSE Spoken(w)
      BY <3>1, Joined
    <3> QED
      BY <2>6, <3>2 DEF h, q
  <2> QED
    BY <1>00, <2>3, <2>8, ConcatEmptySeq
<1> QED
  BY <1>1, <1>2 DEF WordsArrive

\* An end that has left has its close behind everything it said, until its pump has read
\* it; and a session that is over holds no connection.
LeavingWaits ==
  /\ \A w \in Ways : left[w] /\ pump[w] # "done" =>
       inbox[w] # <<>> /\ inbox[w][Len(inbox[w])] = Bye
  /\ session = "closed" => \A w \in Ways : ~open[w]

(* The close waits where Waits says. *)
LEMMA RelayCloses == RelayInv => LeavingWaits
<1> SUFFICES ASSUME RelayInv PROVE LeavingWaits
  OBVIOUS
<1>0. RelayTyped /\ Flowing /\ Session
  BY DEF RelayInv
<1>1. ASSUME NEW w \in Ways, left[w], pump[w] # "done"
      PROVE  inbox[w] # <<>> /\ inbox[w][Len(inbox[w])] = Bye
  <2>1. PICK n \in Nat : Waits(w, n)
    BY <1>0, <1>1 DEF Flowing
  <2>2. Queued(inbox[w], n, said[w], TRUE)
    BY <1>1, <2>1 DEF Waits
  <2>3. said[w] \in Nat /\ inbox[w] \in Seq(Nat)
    BY <1>0, <1>1, RelayAssumption DEF RelayTyped
  <2>4. Len(inbox[w]) = said[w] - n + 1 /\ n <= said[w]
    BY <2>2 DEF Queued
  <2>5. Len(inbox[w]) \in 1..Len(inbox[w]) /\ ~(Len(inbox[w]) <= said[w] - n)
    BY <2>3, <2>4
  <2>6. inbox[w][Len(inbox[w])] = Bye
    BY <2>2, <2>5 DEF Queued
  <2> QED
    BY <2>3, <2>5, <2>6
<1> QED
  BY <1>0, <1>1 DEF LeavingWaits, Session

\* However much the ends say, and whenever they leave: what is heard is what was said, in
\* order, and the first pump to end takes no last words of the other with it.
THEOREM NoWordIsLost == RelaySpec => []WordsArrive
BY RelayInvariant, RelayWords, PTL

\* An end that leaves is never forgotten: until its pump has read the close it is there to
\* be read, and a session that is over has closed both connections.
THEOREM LeavingIsNoticed == RelaySpec => []LeavingWaits
BY RelayInvariant, RelayCloses, PTL

-----------------------------------------------------------------------------
(* Pages *)

Busy(r) == render[r] # "none"

\* PagesTypeOK, and that whatever is drawn, found or opened is of an app there is.
PagesTyped ==
  /\ projects \subseteq Apps /\ up \subseteq projects /\ timers \in 0..MaxTimers
  /\ render \in [Renders -> {"none", "discovering", "measuring", "flagging"}]
  /\ stacks \in [Renders -> SUBSET projects] /\ status \in [Renders -> SUBSET Apps]
  /\ cards \subseteq projects \X Renders /\ filled \in BOOLEAN
  /\ raised \in {"no", "discover", "flags"}
  /\ handler \in Handlers /\ orphans \subseteq Handlers
  /\ handler.at # "none" => handler.app \in projects
  /\ \A h \in orphans : h.app \in projects
  /\ faults \in 0..MaxFaults /\ overlapped \in BOOLEAN
  /\ closed \subseteq projects

\* Without an overlap one render at most is going on, over an empty list, and what is in
\* the list was drawn by one render.
DrawnOnce ==
  ~overlapped =>
    /\ \A q, r \in Renders : Busy(q) /\ Busy(r) => q = r
    /\ (\E r \in Renders : Busy(r)) => cards = {}
    /\ \A c, d \in cards : c[2] = d[2]

\* A list that is not filled is about to be, unless a render raised since it was cleared.
BlankIsDrawn == ~filled => timers > 0 \/ raised # "no" \/ \E r \in Renders : Busy(r)

\* A render that shows app a as it is, or has found a and will ask.
AsItIs(r, a) == a \in status[r] <=> a \in up
Asking(r, a) == render[r] = "discovering" \/ (render[r] = "measuring" /\ a \in stacks[r])
Knows(r, a)  == render[r] = "flagging" /\ a \in stacks[r] /\ AsItIs(r, a)
Shows(r, a)  == render[r] = "none" /\ <<a, r>> \in cards /\ AsItIs(r, a)

\* What the user has seen a command do is shown, or a render that will show it is to come,
\* unless a status could not be read or a render raised.
NewsIsComing ==
  faults = 0 => \A a \in closed :
    timers > 0 \/ \E r \in Renders : Asking(r, a) \/ Knows(r, a) \/ Shows(r, a)

PagesInv == PagesTyped /\ DrawnOnce /\ BlankIsDrawn /\ NewsIsComing


(* What a handler becomes, at each of its points. *)
LEMMA HandlerType ==
  ASSUME handler \in Handlers
  PROVE  /\ Idle \in Handlers /\ Idle.at = "none"
         /\ \A at \in Dialogs : /\ [handler EXCEPT !.at = at] \in Handlers
                                /\ [handler EXCEPT !.at = at].app = handler.app
         /\ \A a \in Apps, what \in DOMAIN Opens :
              [what |-> what, app |-> a, at |-> Opens[what]] \in Handlers
<1>1. Idle \in Handlers /\ Idle.at = "none"
  BY DEF Handlers, Idle
<1>2. \A at : [handler EXCEPT !.at = at].app = handler.app
  BY DEF Handlers
<1>3. \A at \in Dialogs : [handler EXCEPT !.at = at] \in Handlers
  BY DEF Handlers
<1>4. \A what \in DOMAIN Opens : Opens[what] \in {"running", "form", "asking"}
  BY DEF Opens
<1>5. ASSUME NEW a \in Apps, NEW what \in DOMAIN Opens
      PROVE  [what |-> what, app |-> a, at |-> Opens[what]] \in Handlers
  BY <1>4 DEF Handlers, Dialogs
<1> QED
  BY <1>1, <1>2, <1>3, <1>5

(* A page at rest, drawn or not yet. *)
LEMMA PagesInitInv ==
  ASSUME NEW drawn \in BOOLEAN, PageAtRest(drawn)
  PROVE  PagesInv
<1>1. Idle \in Handlers /\ Idle.at = "none"
  BY DEF Handlers, Idle
<1>2. PagesTyped
  <2>1. filled \in BOOLEAN /\ overlapped \in BOOLEAN
    BY DEF PageAtRest
  <2>2. timers \in 0..MaxTimers /\ faults \in 0..MaxFaults
    BY PagesAssumption DEF PageAtRest
  <2>3. /\ render \in [Renders -> {"none", "discovering", "measuring", "flagging"}]
        /\ stacks \in [Renders -> SUBSET projects] /\ status \in [Renders -> SUBSET Apps]
    BY DEF PageAtRest
  <2>4. handler \in Handlers /\ handler.at = "none"
    BY <1>1 DEF PageAtRest
  <2> QED
    BY <2>1, <2>2, <2>3, <2>4 DEF PageAtRest, PagesTyped
<1>3. DrawnOnce /\ BlankIsDrawn /\ NewsIsComing
  BY PagesAssumption DEF PageAtRest, DrawnOnce, BlankIsDrawn, NewsIsComing, Busy
<1> QED
  BY <1>2, <1>3 DEF PagesInv

(* The types are kept. *)
LEMMA PagesTypedStep == PagesTyped /\ [PagesNext]_PagesVars => PagesTyped'
<1> SUFFICES ASSUME PagesTyped, [PagesNext]_PagesVars PROVE PagesTyped'
  OBVIOUS
<1>0. /\ Idle \in Handlers /\ Idle.at = "none"
      /\ \A at \in Dialogs : /\ [handler EXCEPT !.at = at] \in Handlers
                             /\ [handler EXCEPT !.at = at].app = handler.app
      /\ \A a \in Apps, what \in DOMAIN Opens :
           [what |-> what, app |-> a, at |-> Opens[what]] \in Handlers
  BY HandlerType DEF PagesTyped
<1> USE PagesAssumption DEF PagesTyped
<1>1. ASSUME NEW r \in Renders, Fire(r) PROVE PagesTyped'
  <2>1. overlapped' \in BOOLEAN /\ filled' \in BOOLEAN
    BY <1>1 DEF Fire, Clear
  <2>2. orphans' \subseteq Handlers /\ \A h \in orphans' : h.app \in projects
    BY <1>1 DEF Fire
  <2>3. timers' \in 0..MaxTimers
    BY <1>1 DEF Fire
  <2> QED
    BY <1>1, <1>0, <2>1, <2>2, <2>3 DEF Fire, Clear, docVars
<1>2. ASSUME NEW r \in Renders, Step(r) PROVE PagesTyped'
  <2>1. CASE Discover(r)
    BY <2>1 DEF Discover, docVars
  <2>2. CASE Measure(r)
    BY <2>2 DEF Measure, docVars
  <2>3. CASE Fill(r)
    BY <2>3 DEF Fill, docVars
  <2>4. CASE DiscoverRaises(r) \/ FlagsRaise(r)
    BY <2>4 DEF DiscoverRaises, FlagsRaise, Raises
  <2> QED
    BY <1>2, <2>1, <2>2, <2>3, <2>4 DEF Step
<1>3. CASE PressRefresh
  BY <1>3 DEF PressRefresh, Refresh, docVars
<1>4. ASSUME NEW a \in Apps, CreateApp(a) PROVE PagesTyped'
  BY <1>4 DEF CreateApp, Refresh
<1>50. ASSUME NEW h \in Handlers, h.app \in projects, Ends(h), projects' = projects
       PROVE  up' \subseteq projects' /\ closed' \subseteq projects'
  BY <1>50 DEF Ends
<1>5. ASSUME NEW h \in orphans, CommandEndsUnseen(h) PROVE PagesTyped'
  BY <1>5, <1>50 DEF CommandEndsUnseen, drawVars
<1>6. ASSUME NEW a \in Apps, NEW what \in DOMAIN Opens, Press(a, what) PROVE PagesTyped'
  <2>1. handler' \in Handlers /\ handler'.app = a /\ a \in projects
    BY <1>6, <1>0 DEF Press
  <2> QED
    BY <1>6, <2>1 DEF Press, docVars, drawVars
<1>7. CASE Answer
  <2>1. handler' \in Handlers /\ (handler'.at # "none" => handler'.app = handler.app)
    BY <1>7, <1>0 DEF Answer, Dialogs
  <2> QED
    BY <1>7, <2>1 DEF Answer, docVars, drawVars
<1>8. CASE CommandEnds
  <2>1. handler' \in Handlers /\ handler'.app = handler.app /\ handler.app \in projects
    BY <1>8, <1>0 DEF CommandEnds, Dialogs
  <2> QED
    BY <1>8, <1>50, <2>1 DEF CommandEnds, drawVars
<1>9. CASE Choose
  <2>1. handler' \in Handlers /\ handler'.app = handler.app
    BY <1>9, <1>0 DEF Choose, Dialogs
  <2> QED
    BY <1>9, <2>1 DEF Choose, docVars, drawVars
<1>10. CASE Cancel \/ Dismiss
  BY <1>10, <1>0 DEF Cancel, Dismiss, Refresh, docVars, drawVars
<1>11. CASE UNCHANGED PagesVars
  BY <1>11 DEF PagesVars, docVars, drawVars
<1> QED
  BY <1>1, <1>2, <1>3, <1>4, <1>5, <1>6, <1>7, <1>8, <1>9, <1>10, <1>11 DEF PagesNext

(* What is drawn, and what is to be drawn, is kept. *)
LEMMA PagesInvStep == PagesInv /\ [PagesNext]_PagesVars => PagesInv'
<1> SUFFICES ASSUME PagesInv, [PagesNext]_PagesVars PROVE PagesInv'
  OBVIOUS
<1> DEFINE Drawn == DrawnOnce /\ BlankIsDrawn /\ NewsIsComing
<1>0. PagesTyped /\ PagesTyped' /\ Drawn
  BY PagesTypedStep DEF PagesInv
<1> SUFFICES Drawn'
  BY <1>0 DEF PagesInv
<1> USE <1>0 DEF DrawnOnce, BlankIsDrawn, NewsIsComing, Busy, Asking, Knows, Shows
<1>1. ASSUME NEW r \in Renders, Fire(r) PROVE Drawn'
  <2>1. /\ render'[r] = "discovering" /\ cards' = {}
        /\ \A q \in Renders \ {r} : render'[q] = render[q]
        /\ overlapped' = (overlapped \/ \E q \in Renders : render[q] # "none")
    BY <1>1 DEF Fire, Clear, PagesTyped
  <2> QED
    BY <2>1
<1>2. ASSUME NEW r \in Renders, Discover(r) PROVE Drawn'
  <2>1. /\ render[r] = "discovering" /\ render' = [render EXCEPT ![r] = "measuring"]
        /\ stacks' = [stacks EXCEPT ![r] = projects]
        /\ UNCHANGED <<timers, status, cards, filled, raised, overlapped, closed, faults, up>>
    BY <1>2 DEF Discover, docVars
  <2>2. closed \subseteq projects
    BY DEF PagesTyped
  <2>3. render'[r] = "measuring" /\ stacks'[r] = projects
    BY <2>1 DEF PagesTyped
  <2>4. \A q \in Renders \ {r} : render'[q] = render[q] /\ stacks'[q] = stacks[q]
    BY <2>1 DEF PagesTyped
  <2> QED
    BY <2>1, <2>2, <2>3, <2>4 DEF AsItIs
<1>3. ASSUME NEW r \in Renders, Measure(r) PROVE Drawn'
  <2>1. /\ render[r] = "measuring" /\ render' = [render EXCEPT ![r] = "flagging"]
        /\ UNCHANGED <<timers, stacks, cards, filled, raised, overlapped, closed, up>>
        /\ \/ status' = [status EXCEPT ![r] = up \intersect stacks[r]] /\ faults' = faults
           \/ faults' = faults + 1
        /\ \E s : status' = [status EXCEPT ![r] = s]
    BY <1>3 DEF Measure
  <2>2. faults \in Nat
    BY DEF PagesTyped
  <2>3. render'[r] = "flagging"
    BY <2>1 DEF PagesTyped
  <2>4. \A q \in Renders \ {r} : render'[q] = render[q] /\ status'[q] = status[q]
    BY <2>1 DEF PagesTyped
  <2>5. faults' = 0 => faults = 0 /\ status'[r] = up \intersect stacks[r]
    BY <2>1, <2>2 DEF PagesTyped
  <2>6. DrawnOnce' /\ BlankIsDrawn'
    BY <2>1, <2>3, <2>4
  <2>7. ASSUME faults' = 0, NEW a \in closed
        PROVE  timers > 0 \/ \E q \in Renders : (Asking(q, a) \/ Knows(q, a) \/ Shows(q, a))'
    <3>1. CASE timers > 0
      BY <3>1
    <3>2. ASSUME NEW q \in Renders \ {r}, Asking(q, a) \/ Knows(q, a) \/ Shows(q, a)
          PROVE  (Asking(q, a) \/ Knows(q, a) \/ Shows(q, a))'
      BY <2>1, <2>4, <3>2 DEF AsItIs
    <3>3. ASSUME Asking(r, a) \/ Knows(r, a) \/ Shows(r, a)
          PROVE  Knows(r, a)'
      <4>1. a \in stacks[r] /\ stacks'[r] = stacks[r] /\ up' = up
        BY <2>1, <3>3
      <4>2. a \in status'[r] <=> a \in up
        BY <2>5, <2>7, <4>1
      <4> QED
        BY <2>3, <4>1, <4>2 DEF AsItIs
    <3> QED
      BY <2>5, <2>7, <3>1, <3>2, <3>3
  <2>8. NewsIsComing'
    BY <2>1, <2>7
  <2> QED
    BY <2>6, <2>8
<1>4. ASSUME NEW r \in Renders, Fill(r) PROVE Drawn'
  <2>1. /\ render[r] = "flagging" /\ render' = [render EXCEPT ![r] = "none"]
        /\ stacks' = [stacks EXCEPT ![r] = {}] /\ filled'
        /\ cards' = cards \union {<<a, r>> : a \in stacks[r]}
        /\ UNCHANGED <<timers, status, raised, overlapped, closed, faults, up>>
    BY <1>4 DEF Fill, docVars
  <2>2. render'[r] = "none"
    BY <2>1 DEF PagesTyped
  <2>3. \A q \in Renders \ {r} : render'[q] = render[q] /\ stacks'[q] = stacks[q]
    BY <2>1 DEF PagesTyped
  <2>4. ASSUME faults = 0, NEW a \in closed
        PROVE  timers > 0 \/ \E q \in Renders : (Asking(q, a) \/ Knows(q, a) \/ Shows(q, a))'
    <3>1. CASE timers > 0
      BY <3>1
    <3>2. ASSUME NEW q \in Renders \ {r}, Asking(q, a) \/ Knows(q, a) \/ Shows(q, a)
          PROVE  (Asking(q, a) \/ Knows(q, a) \/ Shows(q, a))'
      BY <2>1, <2>3, <3>2 DEF AsItIs
    <3>3. ASSUME Asking(r, a) \/ Knows(r, a) \/ Shows(r, a)
          PROVE  Shows(r, a)'
      BY <2>1, <2>2, <3>3 DEF AsItIs
    <3> QED
      BY <2>4, <3>1, <3>2, <3>3
  <2>6. NewsIsComing'
    BY <2>1, <2>4
  <2>5. DrawnOnce'
    BY <2>1, <2>2, <2>3
  <2> QED
    BY <2>1, <2>5, <2>6
<1>40. ASSUME NEW r \in Renders, DiscoverRaises(r) \/ FlagsRaise(r) PROVE Drawn'
  <2>1. /\ render' = [render EXCEPT ![r] = "none"] /\ raised' # "no" /\ faults' = faults + 1
        /\ UNCHANGED <<cards, filled, overlapped>>
    BY <1>40 DEF DiscoverRaises, FlagsRaise, Raises
  <2>2. faults' # 0 /\ \A q \in Renders : render'[q] # "none" => render[q] # "none"
    BY <2>1 DEF PagesTyped
  <2> QED
    BY <2>1, <2>2
<1>5. ASSUME timers' \in Nat, timers' >= timers, timers' > 0,
             UNCHANGED <<render, stacks, status, cards, filled, raised, overlapped, faults>>
      PROVE  Drawn'
  BY <1>5
<1>6. ASSUME UNCHANGED <<drawVars, faults>>, closed' \subseteq closed,
             \A a \in closed' : a \in up' <=> a \in up
      PROVE  Drawn'
  <2>1. UNCHANGED <<timers, render, stacks, status, cards, filled, raised, overlapped>>
    BY <1>6 DEF drawVars
  <2>2. \A a \in closed', r \in Renders :
          /\ Asking(r, a)' = Asking(r, a)
          /\ Knows(r, a)' = Knows(r, a) /\ Shows(r, a)' = Shows(r, a)
    BY <1>6, <2>1 DEF AsItIs
  <2>3. NewsIsComing'
    BY <1>6, <2>1, <2>2
  <2> QED
    BY <2>1, <2>3
<1>7. CASE PressRefresh \/ (\E a \in Apps : CreateApp(a)) \/ Dismiss
  BY <1>5, <1>7, PagesAssumption DEF PressRefresh, CreateApp, Dismiss, Refresh, docVars, PagesTyped
<1>8. CASE \/ \E a \in Apps, what \in DOMAIN Opens : Press(a, what)
           \/ Answer \/ Choose \/ Cancel
  BY <1>6, <1>8 DEF Press, Answer, Choose, Cancel, docVars
<1>80. CASE CommandEnds \/ \E h \in orphans : CommandEndsUnseen(h)
  <2>1. \E h : Ends(h)
    BY <1>80 DEF CommandEnds, CommandEndsUnseen
  <2>2. closed' \subseteq closed /\ \A a \in closed' : a \in up' <=> a \in up
    BY <2>1 DEF Ends
  <2> QED
    BY <1>6, <1>80, <2>2 DEF CommandEnds, CommandEndsUnseen
<1>9. CASE UNCHANGED PagesVars
  BY <1>6, <1>9 DEF PagesVars, docVars
<1> QED
  BY <1>1, <1>2, <1>3, <1>4, <1>40, <1>7, <1>8, <1>80, <1>9 DEF PagesNext, Step

\* The invariant holds in every behaviour.
LEMMA PagesInvariant == PagesSpec => []PagesInv
<1>1. PagesInit => PagesInv
  BY PagesInitInv DEF PagesInit
<1> QED
  BY <1>1, PagesInvStep, PTL DEF PagesSpec

\* Every variable keeps its type.
LEMMA PagesTypes == PagesInv => PagesTypeOK
BY DEF PagesInv, PagesTyped, PagesTypeOK, Handlers

\* One render draws at most one card of an app.
LEMMA PagesOnce == PagesInv => OneCardEach
<1> SUFFICES ASSUME PagesInv, ~overlapped, NEW a \in Apps
             PROVE  Cardinality({c \in cards : c[1] = a}) <= 1
  BY DEF OneCardEach
<1> DEFINE Of == {c \in cards : c[1] = a}
<1>1. \A c, d \in Of : c = d
  BY DEF PagesInv, PagesTyped, DrawnOnce
<1>2. CASE Of = {}
  BY <1>2, FS_EmptySet
<1>3. ASSUME NEW c \in Of PROVE Cardinality(Of) <= 1
  <2>1. Of = {c}
    BY <1>1
  <2> QED
    BY <2>1, FS_Singleton
<1> QED
  BY <1>2, <1>3

\* However clicks, renders and commands interleave, and whatever is counted: but for
\* renders that overlap, no app has two cards.
THEOREM CardsAreDrawnOnce == PagesSpec => []OneCardEach
BY PagesInvariant, PagesOnce, PTL

\* The safety behind BlankIsTemporary and CommandIsShown, at every moment: a list that is
\* empty is about to be filled, unless a render raised, and what the user saw a command do
\* is on screen, or a render that will show it is to come, as long as every status could
\* be read and no render raised.
THEOREM NothingIsForgotten == PagesSpec => [](BlankIsDrawn /\ NewsIsComing)
<1>1. PagesInv => BlankIsDrawn /\ NewsIsComing
  BY DEF PagesInv
<1> QED
  BY <1>1, PagesInvariant, PTL

-----------------------------------------------------------------------------
(* The parts together *)

ShellInv == part \in Parts /\ ServiceInv /\ PluginsInv /\ RelayInv /\ PagesInv

(* Each part begins as it does by itself, or at rest. *)
LEMMA ShellInit == Init => ShellInv
<1> SUFFICES ASSUME Init PROVE ShellInv
  OBVIOUS
<1>1. part \in Parts /\ ServiceInv /\ PluginsInv /\ RelayInv
  BY ServiceInitInv, PluginsInitInv, RelayInitInv DEF Init
<1>2. \E drawn \in BOOLEAN : PageAtRest(drawn)
  BY DEF Init, PagesInit
<1> QED
  BY <1>1, <1>2, PagesInitInv DEF ShellInv

(* A turn is a step of one part, and the others stand still. *)
LEMMA ShellTurn ==
  ASSUME [Next]_vars
  PROVE  /\ part' = part /\ [ServiceNext]_ServiceVars /\ [PluginsNext]_PluginsVars
         /\ [RelayNext]_RelayVars /\ [PagesNext]_PagesVars
BY DEF Next, vars, PluginsTurn, RelayTurn, PagesTurn, ServiceTurn

(* So the invariants of the parts are kept. *)
LEMMA ShellStep == ShellInv /\ [Next]_vars => ShellInv'
<1> SUFFICES ASSUME ShellInv, [Next]_vars PROVE ShellInv'
  OBVIOUS
<1>1. /\ part' = part /\ [ServiceNext]_ServiceVars /\ [PluginsNext]_PluginsVars
      /\ [RelayNext]_RelayVars /\ [PagesNext]_PagesVars
  BY ShellTurn
<1> QED
  BY <1>1, ServiceInvStep, PluginsInvStep, RelayInvStep, PagesInvStep DEF ShellInv

(* The invariants of the parts hold in every behaviour of them together. *)
LEMMA ShellInvariant == Spec => []ShellInv
BY ShellInit, ShellStep, PTL DEF Spec

\* Every variable of every part keeps its type.
THEOREM TypeCorrect == Spec => []TypeOK
<1>1. ShellInv => TypeOK
  BY ServiceTypes, PluginsTypes, RelayTypes, PagesTypes DEF ShellInv, TypeOK
<1> QED
  BY <1>1, ShellInvariant, PTL

\* And the promises of the parts hold of them together: the right plugin, no lost word,
\* one card of each app, one certificate.
THEOREM PromisesAreKept == Spec => [](RightPlugin /\ WordsArrive /\ OneCardEach) /\ OneCertificate
<1>1. ShellInv => RightPlugin /\ WordsArrive /\ OneCardEach
  BY RelayWords, PagesOnce DEF ShellInv, PluginsInv
<1>2. Spec => [][ServiceNext]_ServiceVars
  <2>1. [Next]_vars => [ServiceNext]_ServiceVars
    BY ShellTurn
  <2> QED
    BY <2>1, PTL DEF Spec
<1>3. ShellInv => ServiceInv
  BY DEF ShellInv
<1> QED
  BY <1>1, <1>2, <1>3, ShellInvariant, CertificateStep, PTL DEF OneCertificate

=============================================================================
