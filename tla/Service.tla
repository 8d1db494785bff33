--------------------------------- MODULE Service ---------------------------------
(***************************************************************************)
(* `spiriconfig install' and `spiriconfig update', and the service they    *)
(* leave to systemd: which version of the program runs, with which         *)
(* settings, and behind which certificate.                                 *)
(*                                                                         *)
(* The command line only writes two files and gives uv and systemctl their *)
(* orders; what comes of them happens later, in systemd (external: modelled*)
(* by what the orders mean) and in the starting program, which makes its   *)
(* own certificate the first time it is reachable from other hosts.        *)
(***************************************************************************)
EXTENDS Naturals, Sequences

CONSTANTS
  Configs,      \* answers to install's questions: records of host, auth and tls
  NoConfig,     \* there is no config.env
  MaxVersion,   \* bound: versions published
  MaxFailures,  \* bound: commands that fail
  MaxCrashes,   \* bound: times the program dies, or the machine
  MaxOrders     \* bound: updates, and things done by hand: config.env edited, the service
                \* restarted, the certificates removed

ASSUME ServiceAssumption ==
  /\ \A c \in Configs : /\ c.host \in {"loopback", "all"} /\ c.auth \in {"pam", "none"}
                        /\ c.tls \in {"auto", "off", "provided"}
  /\ NoConfig \notin Configs
  /\ MaxVersion \in Nat \ {0} /\ MaxFailures \in Nat /\ MaxCrashes \in Nat /\ MaxOrders \in Nat

VARIABLES
  scope,      \* Scope: "system" (installed by root) or "user"
  published,  \* the newest version uv can get
  tool,       \* the version uv has installed, 0 if none
  env,        \* config.env
  unit,       \* "none", "written", or "known": systemd has read it
  enabled,    \* the unit is started with its target
  linger,     \* the user's services run without a session
  loggedIn,    \* somebody is logged in
  job,        \* the command line at work: the steps it still has to do, and its config
  word,       \* what it said last: "installed", "updated", "failed" or "nothing"
  promised,   \* the version the last update said would be running
  timer,      \* systemd has a restart to do
  proc,       \* the program: how far it has come, its version, settings and key pair
  key, cert,  \* key.pem and cert.pem: which of the generated ones, 0 if none
  torn,       \* cert.pem is there, and is not written to its end
  shown,      \* history: the certificate last served and not removed since, 0 if none
  failures, crashes, orders  \* counters

hostVars    == <<scope, published, tool, env, unit, enabled, linger, loggedIn>>
pairVars    == <<key, cert, torn, shown>>
procVars    == <<proc, pairVars>>
jobVars     == <<job, word, promised>>
countVars   == <<failures, crashes, orders>>
ServiceVars == <<hostVars, procVars, jobVars, timer, countVars>>

NoJob == [steps |-> <<>>, config |-> NoConfig]
Off   == [at |-> "off", version |-> 0, env |-> NoConfig, pair |-> <<0, 0>>]
\* The program is started: it is whatever uv has installed, and reads config.env.
Started(version, config) == [at |-> "starting", version |-> version, env |-> config, pair |-> <<0, 0>>]

\* check_exposure()
Exposed(c) == c.auth = "none" /\ c.host # "loopback"

\* tls.resolve(): a certificate of its own, when it is exposed and was given none.
SelfSigned(c) == c.tls = "auto" /\ c.host # "loopback"

\* systemd --user is there for a session, or for the linger; the system's always is.
Manager(sc, li, se) == sc = "system" \/ li \/ se
Managed == Manager(scope, linger, loggedIn)

InstallSteps(sc) == <<"tool", "env", "unit", "reload", "enable">>
                    \o IF sc = "user" THEN <<"linger">> ELSE <<>>
UpdateSteps == <<"upgrade", "restart">>
Steps == {"tool", "env", "unit", "reload", "enable", "linger", "upgrade", "restart"}

-----------------------------------------------------------------------------
ServiceInit ==
  /\ scope \in {"system", "user"} /\ published = 1 /\ tool = 0
  /\ env = NoConfig /\ unit = "none" /\ enabled = FALSE /\ linger = FALSE /\ loggedIn = TRUE
  /\ job = NoJob /\ word = "nothing" /\ promised = 0 /\ timer = FALSE
  /\ proc = Off /\ key = 0 /\ cert = 0 /\ torn = FALSE /\ shown = 0
  /\ failures = 0 /\ crashes = 0 /\ orders = 0

Release ==
  /\ published < MaxVersion /\ published' = published + 1
  /\ UNCHANGED <<scope, tool, env, unit, enabled, linger, loggedIn, procVars, jobVars, timer, countVars>>

\* install(): nothing is touched for a config that is refused.
Install(c) ==
  /\ loggedIn /\ job = NoJob /\ ~Exposed(c)
  /\ job' = [steps |-> InstallSteps(scope), config |-> c]
  /\ word' = "nothing" /\ UNCHANGED promised
  /\ UNCHANGED <<hostVars, procVars, timer, countVars>>

\* Mutant of Update: the restart is ordered first.
Bug_RestartFirst ==
  /\ loggedIn /\ job = NoJob /\ tool # 0
  /\ orders < MaxOrders /\ orders' = orders + 1
  /\ job' = [steps |-> <<"restart", "upgrade">>, config |-> NoConfig]
  /\ word' = "nothing" /\ UNCHANGED promised
  /\ UNCHANGED <<hostVars, procVars, timer, failures, crashes>>

\* update()
Update ==
  /\ loggedIn /\ job = NoJob /\ tool # 0
  /\ orders < MaxOrders /\ orders' = orders + 1
  /\ job' = [steps |-> UpdateSteps, config |-> NoConfig]
  /\ word' = "nothing" /\ UNCHANGED promised
  /\ UNCHANGED <<hostVars, procVars, timer, failures, crashes>>

\* `uv tool install' leaves a tool that is there as it is; `uv tool upgrade' does not.
Tool(step) ==
  tool' = IF step = "upgrade" \/ (step = "tool" /\ tool = 0) THEN published ELSE tool

Write(step) ==
  /\ env' = IF step = "env" THEN job.config ELSE env
  /\ unit' = CASE step = "unit" -> IF unit = "none" THEN "written" ELSE unit
               [] step = "reload" -> "known"
               [] OTHER -> unit

\* `systemctl enable --now' starts a service that is not running, and no other.
Enable(step) ==
  /\ enabled' = (enabled \/ step = "enable")
  /\ proc' = IF step = "enable" /\ proc.at = "off" THEN Started(tool, env) ELSE proc

\* Mutant of Linger: the order is left out.
Bug_NoLinger(step) == UNCHANGED linger
Linger(step) == linger' = (linger \/ step = "linger")

DoStep ==
  /\ job # NoJob
  /\ LET step == Head(job.steps) IN
       /\ Tool(step) /\ Write(step) /\ Enable(step) /\ Linger(step)
       /\ timer' = (timer \/ step = "restart")
  /\ IF Len(job.steps) > 1
     THEN job' = [job EXCEPT !.steps = Tail(@)] /\ UNCHANGED <<word, promised>>
     ELSE /\ job' = NoJob
          /\ IF job.config = NoConfig THEN word' = "updated" /\ promised' = tool'
                                      ELSE word' = "installed" /\ UNCHANGED promised
  /\ UNCHANGED <<scope, published, loggedIn, pairVars, countVars>>

\* A command fails, .check() raises, and what was done stays done.
StepFails ==
  /\ job # NoJob /\ Head(job.steps) \notin {"env", "unit"}
  /\ failures < MaxFailures /\ failures' = failures + 1
  /\ job' = NoJob /\ word' = "failed"
  /\ UNCHANGED <<hostVars, procVars, promised, timer, crashes, orders>>

-----------------------------------------------------------------------------
(* systemd, and the program it starts: serve() down to ui.run(). *)

\* The restart that was handed to systemd; it starts a stopped service too.
TimerFires ==
  /\ timer /\ timer' = FALSE
  /\ proc' = IF unit = "known" THEN Started(tool, env) ELSE proc
  /\ UNCHANGED <<hostVars, pairVars, jobVars, countVars>>

Serve(pair) ==
  /\ proc' = [proc EXCEPT !.at = "up", !.pair = pair]
  /\ shown' = IF SelfSigned(proc.env) THEN pair[1] ELSE shown

\* Mutant of Complete: half a pair will do.
Bug_EitherFile == cert # 0 \/ key # 0
Complete == cert # 0 /\ key # 0

\* ensure_selfsigned(): a pair that is there is used, else openssl writes another one, ...
ServeNow ==
  /\ proc.at = "starting" /\ (SelfSigned(proc.env) => Complete /\ ~torn)
  /\ Serve(IF SelfSigned(proc.env) THEN <<cert, key>> ELSE <<0, 0>>)
  /\ UNCHANGED <<hostVars, key, cert, torn, jobVars, timer, countVars>>

\* ... the key first (another one: the number is not that of any certificate before), ...
WriteKey ==
  /\ proc.at = "starting" /\ SelfSigned(proc.env) /\ ~Complete
  /\ key' = crashes + orders + 1
  /\ proc' = [proc EXCEPT !.at = "keyed"]
  /\ UNCHANGED <<hostVars, cert, torn, shown, jobVars, timer, countVars>>

\* ... then the certificate, whose file is there before what is in it.
OpenCert ==
  /\ proc.at = "keyed"
  /\ cert' = key /\ torn' = TRUE
  /\ proc' = [proc EXCEPT !.at = "opened"]
  /\ UNCHANGED <<hostVars, key, shown, jobVars, timer, countVars>>

WriteCert ==
  /\ proc.at = "opened"
  /\ torn' = FALSE /\ Serve(<<key, key>>)
  /\ UNCHANGED <<hostVars, key, cert, jobVars, timer, countVars>>

\* A pair that is there, and whose certificate was left half written: the program cannot
\* serve with it and ends, and Restart=on-failure starts it again.
Stuck == torn /\ proc.at = "starting" /\ SelfSigned(proc.env)
EndsStuck ==
  /\ Stuck /\ Complete
  /\ proc' = Started(tool, env)
  /\ UNCHANGED <<hostVars, pairVars, jobVars, timer, countVars>>

\* The program dies, and Restart=on-failure brings it back.
Crash ==
  /\ proc.at # "off" /\ crashes < MaxCrashes /\ crashes' = crashes + 1
  /\ proc' = Started(tool, env)
  /\ UNCHANGED <<hostVars, pairVars, jobVars, timer, failures, orders>>

\* The machine does, with the command line and the timer.  At boot the enabled services
\* start; a user's only with the linger.
Reboot ==
  /\ crashes < MaxCrashes /\ crashes' = crashes + 1
  /\ job' = NoJob /\ timer' = FALSE /\ loggedIn' = FALSE
  /\ proc' = IF enabled /\ Manager(scope, linger, FALSE) THEN Started(tool, env) ELSE Off
  /\ unit' = IF unit = "written" THEN "known" ELSE unit
  /\ UNCHANGED <<scope, published, tool, env, enabled, linger, pairVars, word, promised,
                 failures, orders>>

\* The end of the last session is the end of a user's services, but for the linger.
LogOff ==
  /\ loggedIn /\ job = NoJob /\ loggedIn' = FALSE
  /\ IF Manager(scope, linger, FALSE) THEN UNCHANGED <<proc, timer>> ELSE proc' = Off /\ timer' = FALSE
  /\ UNCHANGED <<scope, published, tool, env, unit, enabled, linger, pairVars, jobVars, countVars>>

LogOn ==
  /\ ~loggedIn /\ loggedIn' = TRUE
  /\ proc' = IF ~Managed /\ enabled THEN Started(tool, env) ELSE proc
  /\ UNCHANGED <<scope, published, tool, env, unit, enabled, linger, pairVars, jobVars, timer, countVars>>

-----------------------------------------------------------------------------
(* By hand, as config.env's own first line suggests. *)

EditEnv(c) ==
  /\ env # NoConfig /\ c # env /\ orders < MaxOrders
  /\ orders' = orders + 1 /\ env' = c
  /\ UNCHANGED <<scope, published, tool, unit, enabled, linger, loggedIn, procVars, jobVars, timer, failures, crashes>>

Restart ==
  /\ loggedIn /\ unit = "known" /\ env # NoConfig /\ proc' = Started(tool, env)
  /\ orders < MaxOrders /\ orders' = orders + 1
  /\ UNCHANGED <<hostVars, pairVars, jobVars, timer, failures, crashes>>

\* systemctl disable --now
Disable ==
  /\ loggedIn /\ enabled /\ enabled' = FALSE /\ proc' = Off
  /\ UNCHANGED <<scope, published, tool, env, unit, linger, loggedIn, pairVars, jobVars, timer, countVars>>

\* The pair is removed while no program is making one.
RemovePair ==
  /\ Complete /\ proc.at \notin {"keyed", "opened"} /\ orders < MaxOrders /\ orders' = orders + 1
  /\ key' = 0 /\ cert' = 0 /\ torn' = FALSE /\ shown' = 0
  /\ UNCHANGED <<hostVars, proc, jobVars, timer, failures, crashes>>

Systemd == TimerFires \/ ServeNow \/ WriteKey \/ OpenCert \/ WriteCert \/ EndsStuck
ServiceNext ==
  \/ Release \/ (\E c \in Configs : Install(c) \/ EditEnv(c)) \/ Update \/ DoStep \/ StepFails
  \/ Systemd \/ Crash \/ Reboot \/ LogOff \/ LogOn \/ Restart \/ Disable \/ RemovePair

ServiceFairness == WF_ServiceVars(Systemd)
ServiceSpec == ServiceInit /\ [][ServiceNext]_ServiceVars /\ ServiceFairness

-----------------------------------------------------------------------------
(* Properties *)

\* The type invariant.
ServiceTypeOK ==
  /\ scope \in {"system", "user"} /\ published \in 1..MaxVersion /\ tool \in 0..published
  /\ env \in Configs \union {NoConfig} /\ unit \in {"none", "written", "known"}
  /\ {enabled, linger, loggedIn, timer, torn} \subseteq BOOLEAN
  /\ job.config \in Configs \union {NoConfig} /\ job.steps \in Seq(Steps)
  /\ word \in {"nothing", "installed", "updated", "failed"} /\ promised \in 0..published
  /\ proc.at \in {"off", "starting", "keyed", "opened", "up"} /\ proc.version \in 0..published
  /\ proc.env \in Configs \union {NoConfig}
  /\ {key, cert, shown, proc.pair[1], proc.pair[2]} \subseteq 0..MaxCrashes + MaxOrders + 1
  /\ failures \in 0..MaxFailures /\ crashes \in 0..MaxCrashes /\ orders \in 0..MaxOrders

\* "A restart keeps the same cert (and the operator does not re-approve a new one every
\* boot)": wherever the program or the machine dies, also between the two files of the
\* pair, a certificate is served with its own key, and the one browsers were shown stays
\* the one they are shown until somebody removes it.
OneCertificate ==
  [][/\ proc'.at = "up" /\ SelfSigned(proc'.env) => proc'.pair[1] = proc'.pair[2] /\ proc'.pair[1] # 0
     /\ shown # 0 /\ shown' # 0 => shown' = shown]_ServiceVars

\* "Update applied; the service is restarting": the version it was updated to, or a later
\* one, ends up running, although the restart comes after the command is gone, unless
\* the service is disabled, its manager ends with the session, or it is stuck.
UpdateTakesEffect ==
  \A v \in 1..MaxVersion :
    word = "updated" /\ promised = v ~> \/ proc.at = "up" /\ proc.version >= v
                                        \/ ~enabled \/ ~Managed \/ Stuck

\* "Installed and started": from then on, whoever logs off, and whatever dies, the
\* service is running again in the end until it is disabled, or stuck with half a
\* certificate.
InstalledComesBack == word = "installed" ~> proc.at = "up" \/ ~enabled \/ Stuck

\* "Will come back on every boot" (install.md), wherever the boot before it ended.
EveryBootComesBack == word = "installed" ~> proc.at = "up" \/ ~enabled
=============================================================================
