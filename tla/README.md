# SpiriConfig in TLA+

SpiriConfig is a web page and a command line over `docker compose`, `git` and a
few system commands. It keeps no database: a compose project is a directory, an
installed app is a symlink, an app store is a git checkout, and everything the
program knows it reads back from disk. Whatever the user does, it does by
building shell commands and running them, in view.

That makes for little state and many hands on it. Browser tabs (handlers on one
asyncio loop, blocking work in threads), CLI processes, the user's own shell and
docker all change the same files, and nothing locks anything. A handler reads,
decides, awaits -- a person's answer, a network fetch, a thread -- and then acts
on what it read. This project models the places where that can go wrong.

Paths below are relative to the repository; `src/` is its Python source.

## Inventory

| Part | Code | State | Operations | What is hard | What makes it correct |
|---|---|---|---|---|---|
| Store updates | `spiriconfig_appstore/stores.py` | git checkout: HEAD, index, work tree, pending merge | check, update, discard, resolve, undo | plans computed at the press and run command by command; user edits meanwhile; a second session; queries that fail | no markers in HEAD, no edit lost, undo restores, "finished" is true |
| Stack files | `spiriconfig_docker/stacks.py`, `settings.py`, `env.py` | `compose.yaml`, `.env` | save compose, save raw `.env`, save form, create | validate-after-write with restore; two savers; truncation; crashes | a save is atomic and honest; other keys kept; only own directories removed |
| Terminals | `spiriconfig/commands.py`, `terminal.py`, `spiriconfig_docker/web.py` | pty, queue, process, shell in a container, disconnect handlers | start, output, detach, close, wait, hang up, reap | output against exit; three ways out; awaits inside hangup; sockets that drop and come back | one close, one reap, complete output, nothing left running |
| Store list and installs | `spiriconfig_appstore/installs.py`, `stores.py`, `web.py`, `cli.py` | checkouts, links in the compose directory, running projects | add, remove, install, uninstall, adopt | stale pages, checks long before commands, what `ln`/`cp` do to a directory | users' directories untouched; running apps not orphaned; links stay removable |
| Stack commands and listing | `spiriconfig_docker/stacks.py`, `cli.py`, `web.py` | docker's | up, down, restart, pull, status | "cannot tell" counts as "down" | a command's result comes to be shown |
| Settings schema, widgets | `spiriconfig_docker/settings.py`, `widgets.py`, `web.py` | a form and a text panel per dialog | declare, open, answer, show the file, save, `settings` command | forms open while the file changes; two doors into one file | only what was touched changes; what is shown is what is written |
| `.env` text | `spiriconfig_docker/env.py` | none | scan, encode, patch | duplicates, removals, spans, quoting | patch then scan gives the updates; patching twice changes nothing |
| Logins | `spiriconfig_appstore/credentials.py` | git's credential file, docker's config | save, forget, list | two stores, one may fail | the two agree, or the user was told |
| Apps page | `spiriconfig_docker/web.py` | a list of cards, timers, a dialog inside a card | render, refresh, the cards' buttons | clear, await, refill, twice at once; dialogs that die with their card | one card per app; blank is temporary; results are shown |
| Advanced mode, preferences | `spiriconfig/advanced.py`, `preferences.py` | a per-browser switch, its mirror in localStorage | toggle, seed, mirror | shared by tabs, queued JavaScript | the mirror says what the page says |
| Login and sessions | `spiriconfig/auth.py`, `web.py` | user storage, socket rooms | login, logout, HTTP gate, socket guard | a room is checked once and kept | no event without a login |
| Plugin proxy | `spiriconfig/proxy.py` | targets, relayed sockets | HTTP relay, WebSocket relay | addresses that move; two pumps, either end closing | the right container answers; words arrive; both ends close |
| Discovery | `spiriconfig/discovery.py` | discovered targets | scan, publish | a failed scan looks like an empty one | targets become what is running |
| Users | `spiriconfig_users/` | passwd, group, shadow | add, remove, password, groups | add succeeds, password fails; boxes typed into meanwhile | what is reported is what happened |
| Service and TLS | `spiriconfig/service.py`, `cli.py`, `tls.py` | config.env, the unit, the tool, a key pair | install, update, start | steps that fail, a restart after the command is gone, deaths between two files | installed comes back; an update takes effect; one certificate |
| Plugins, config, logging | `spiriconfig/` | read once | start-up | -- | sequential |
| System page | `spiriconfig_system/` | none | read vitals | -- | changes nothing |

How they meet: the web pages and the CLI call the same functions to build
commands; installs and stores meet in the compose directory and in the
checkouts it links into, because an edit to an installed app is an edit to the
store's work tree; the stack files are what docker runs, and what installs
looks for before it stops an app; terminals run any of those commands; the
proxy serves what discovery finds, behind the session guard; the settings form
writes the `.env` line by line, value by value, through the write path of the
stack files; and all of it runs in the process that the service module starts.

## Modules

Conventions: one operator per handler or command, named after it; a session is
a tab or a CLI process; a plan runs one command per step; `Bug_...` operators
are mutants, defined beside the definition they change and used by nothing.
"history" variables record what happened for the properties' sake.

### StoreUpdate -- one store, its checkout and the sessions that update it

`PressUpdate`/`PlanUpdate` are `update_plan()`: the conflict check, then the
dirty check (each a git query that may fail), then the plan. `Fetch`,
`CommitLocal`, `DiscardLocal`, `MergeCleanly`, `MergeConflicts`, `Add`,
`Conclude` and `Abort` are the commands, `Stop` a command that fails, which
ends the plan as `_run_in_dialog()` and `_execute_streaming()` do.
`PressResolve`/`PlanResolve` are `resolve_plan()`, `PressAbort` the undo button,
`CheckForUpdates` the fetch of `check_plan()`. A text is which of the user's
saves and of the store's versions are in it, and whether it has markers. git is
external: its merge, and when it refuses, is described beside the commands.

### StackFiles, and AtomicSave above it

`StackFiles` is the write path of a compose project. A save is `Ask`, `Render`
(form only), `Read`, `Truncate`, `Write`, then `Accepted` or `Rejected`, and
`Undo`/`UndoPut`; `write_text()` is two steps because it truncates first.
`create()` is `PressCreate`, `MakeDirectory`, `Fill`, `Created`/`NotCreated`.
`WriteFails` and `Crash` are the faults nothing undoes. With "edit" among the
`Faults`, `HandEdit` -- the user at a shell, who changes anything but removes
nothing -- may come at any time, between a form's two reads of the `.env` too.
`dir` records who made the directory: nobody, a hand, or the saver whose
`create()` did. What `docker compose config` accepts is the constant `Works`.
`AtomicSave` is the promise: a save replaces its file and compose accepts the
result, or nothing changes, and the saver is told which. `SavesAreAtomic` is the
refinement: under the mapping `Settled`, a file being saved still shows its
original. It is promised to savers who take turns: `disturbed` becomes true when
somebody acts during another's save, or a save is cut off, and from then on the
promise is off, and `StartableInTurn` with it. `overtaken` says of a form's save
that the `.env` has been changed by somebody else since it was read.

### Terminal -- one terminal in a browser

The pump (`Start`, `Show`, `Wait`) of `terminal.pump()`, the session (`ReadData`,
`ReadEnd`, `Detach`, `Close`) of `PtySession`, the process and exec's shell in
the container, and the ways out: `Drop`, `Reconnect`, `GiveUp` for the socket,
`CloseDialog`, and `hangup()` as `Hangup` (up to its await), `Reap`/`ReapFails`,
one instance per call. An action is what the event loop runs between awaits.

### Installs -- stores, links and running apps

`Decide` is a button or a CLI command that has made its checks and holds a
plan; tabs check against `page`, what they last rendered, the CLI against what
is there. `FoundDown`/`FoundUp` are `_is_up()`'s answer, `ConfirmStop`,
`Confirm`, `Decline` the user's. `Link`, `Unlink`, `Copy`, `StopApp`, `GitClone`,
`DeleteStore`, `MakeRoot` do what `ln -s`, `rm`, `cp -r`, `docker compose down`,
`git clone`, `rm -rf` and `mkdir -p` do to whatever has the name by then
-- onto a directory, `ln -s` and `cp -r` succeed and put their result inside it
(`Spill`). `CommandFails` is any of them failing; `Ran` stops the plan there.
Apps come up and down and directories are made by hand at any time.

### Sessions -- who may drive a page, and in which mode

A browser is its cookie and so its storage; a client is a rendered page; a
socket joins clients' rooms. `Redirect` and `Render` are the HTTP gate and
`_layout()`, `Connect`, `Handshake` and `Speaks` the three places of the socket
guard, `Submit` and `Logout` the login page and the header. `Seeds`, `Seed`,
`Toggle` and `Mirror` are `advanced.state()`, `set_enabled()` and the queued
JavaScript. `Restart` keeps storage only under a lasting secret. NiceGUI's rooms
and the deletion of clients are external.

### SettingsForm, EnvFile, EnvValue -- settings at three scales

`SettingsForm` has the dialogs (`OpenForm`, `Answer`, `Reset`, `OpenPanel`,
`TypeText`, `SaveDialog`), the declaration they come from and the command line,
over a `.env` that is one value per key, with what a widget makes of a value
(`Through`). `EnvFile` has that file as lines: `Scan`, `PatchLines` and
`Rendered` are `scan()`, `patch()` and `_rendered()`. `EnvValue` has one value
as characters: `Encode` is `encode()`, read back by ours (`WeRead`) and by
compose (`ComposeReads`, external). `AsLines` is what the file's text is by the
time `_read_quoted()` sees it: Python has made newlines of carriage returns (one
of a CRLF), and `splitlines()` has ended lines at characters like a form feed, of
which `scan()` joins the pieces with newlines. Any file of a few lines and any
value of a few characters is reached by typing it, and then saved to.

### Accounts, Logins -- commands that half succeed

`Accounts` is the Users page. `Create`, `AddWorks`/`AddFails`, `AddAsks`,
`AddSets` and `AddEnds` are `do_create()` between its awaits; the boxes stay open
to typing (`TypeBox`, `TypeName`). The shell changes accounts too. `Logins` is
`store_credentials()` and `forget_credentials()`: `GitDone`, then `DockerDone`,
either of which may `Fail`, and the list they are started from.

### Plugins, Relay -- the proxy

`Ps`, `Inspect` and `Publish` are `scan()` and `refresh()` on their thread, with
containers and docker changing between them; `Ask` looks a target up and
`Connected` reaches whoever has the address by then. `Relay` is `_ws()`: `Dial`,
`Accept`, two `Pump`s (`Read`, `Send`, `SendLost`), `First`, `CloseUpstream`,
`CloseBrowser`.

### Pages -- the Apps page

`Fire` is a timer calling `render()`, which clears; `Discover`, `Measure` and
`Fill` are what comes between its awaits, and `DiscoverRaises` and `FlagsRaise`
are `discover()` and `has_settings()` raising there, which ends the render with
the list empty (all cards' flags are asked for in one thread before any card is
drawn, so the list is never half filled). `handler` is what a card's button
started, and dies when the list is cleared; a command it was running, Up or Down,
goes on (`CommandEndsUnseen`).

### Service -- the service and its certificate

`Install` and `Update` make a list of steps, `DoStep` and `StepFails` run it;
`TimerFires`, `ServeNow`, `WriteKey` and `WriteCert` are systemd and `serve()`,
with `tls.ensure_selfsigned()`; `Crash`, `Reboot`, `LogOff` and `LogOn` are what
happens to them. The certificate is a file (`OpenCert`) before there is anything
in it (`WriteCert`); a program that takes such a file for a certificate cannot
serve with it (`EndsStuck`). systemd, uv and openssl are external.

### MCDisk, MCConsole, MCShell

These parts share no variable, so their product would only multiply states. A
behaviour of `MCDisk`, `MCConsole` or `MCShell` is one of one `part`, chosen in
`Init`; the others rest in one initial state. What is on the disk -- StoreUpdate,
StackFiles and Installs -- is in the first, the rest of what an operator does in
the second; the parts with something that must happen in the end are in the
shell, where each part's fairness is asked of that part's turn only. The
violated runs of StoreUpdate, StackFiles, Installs and Logins are of the module
alone.

## Runs

| Run | Instance | Question | Result |
|---|---|---|---|
| `disk` | store: 1 session, 2 files, 3 saves, 2 versions; stack: 2 savers, 2 compose texts, 2 keys, 1 edit by hand at any time, disk full, crashes; installs: 1 tab, 1 CLI, 2 stores with an app of one name | markers, lost edits, undo, honest outcomes; atomic saves, startable projects, whose directory is removed, whose keys are lost; users' directories, running apps | holds |
| `store_markers` | 2 sessions, 1 save, 1 version | is HEAD free of markers with two sessions? | no |
| `stack_pair` | 2 savers, no fault | is the project startable when nobody saves? | no |
| `terminal_all` | 3 kinds, 2 drops, a button, 2 chunks | safety and liveness of every way out | holds |
| `terminal_leak` | the page, 1 drop | does a closed tab leave no process? | no |
| `terminal_orphan` | a shell in a container, 1 drop, a button | is a shell that has recorded its pid killed by Close? | no |
| `installs_dangling` | 1 CLI | does the uninstall that `remove` prints work? | no |
| `installs_race` | 1 tab, the user in a shell | does `ln` refuse a name that has become a directory? | no |
| `console` | sessions: 2 browsers, 2 pages, 1 socket, 1 restart; form: 2 tabs; file: 3 typed lines; value: 4 characters; accounts: 1 tab, 2 names, 1 fault; logins: 2 hosts, 2 users, 1 hand | who acts, what the mirror says, what a save writes, what a file and a value read back as, what became of an account or a login | holds |
| `shell` | plugins: 4 containers, 2 addresses, 3 changes; relay: 2 messages each way; pages: 1 app, 2 renders, 2 timers, 1 fault; service: 2 versions, 1 failure, 1 crash, 1 order | who answers, whether words arrive, cards, certificates, and what must happen in the end | holds |
| `logins_port` | 1 hand, a host on a port | is a login that was logged out gone from the list? | no |
| `service_torn` | the service, 1 crash | is an installed service back after every boot? | no |

The honest outcome and the committed edits of the store in `disk` are proved for any
number of sessions, which is why no run repeats them with two.

Bounds. Two files are needed for a merge that is clean in one and conflicts in
the other; two savers, two sessions, or a tab and a CLI are the least that
interleave, and each keeps at most one plan, so a third adds only further
interleavings of the same pairs (the theorems below do not bound them). Saves
and versions are what a conflict needs -- one each -- and one more of each, so
that there is one after and one during it. Two drops and a button give three
concurrent hangups, one more than reaping twice takes. Two chunks make one
chunk that is queued while another is unread. A stack needs a text that compose accepts only with a
certain key in the `.env` and one it never accepts, a key of the form's and one
that is not, and one edit by hand, which may come anywhere in a save.
In `Installs` one name shared by
two stores is where all the races are; two names would be two copies of it,
but for `install --as`, which then has a name of its own to use.
In `console`, two pages of two browsers are what a socket can mix up, and two
tabs what can make a form stale; three lines are a duplicate around another, or
a value over two lines beside one; four characters are a quote, an escape and
what it escapes. Two names are what a retyped name box can confuse. In `shell`,
three containers of one name, one without a port, and two addresses let an address be taken
over by the wrong container; two renders are the least that overlap; one fault is a
status that cannot be read, or a render that raises, at any point;
one death and one order are a death on either side of everything. The form has
one setting of a number's kind that must have a value: whatever its widget does
to a value, the property is about one field at a time, and the theorem has any.

What each property is for is said at its definition, and the hazard list in
`PROJECT.json` ties them to lines.

Fairness. *Terminal*: the event loop serves its reader and its tasks, a command
in a thread ends or times out (`run()`'s timeout), and a process whose terminal
is hung up ends. *Plugins*: the scan thread's commands have timeouts and the
loop sleeps a finite interval (`Scan`), and docker attaches what it starts.
*Relay*: `_ws()` and each pump are tasks of the loop; a send to an end that
stopped reading ends with the keepalive. *Pages*: one-shot timers fire and
threads answer. *Service*: systemd's timer fires, and a program that was started
comes to serve. All of it is weak fairness of what the loop, a thread or systemd
does on its own; there is none for users, sockets, commands of the command line,
docker coming back or a process that still has its terminal. Users may press
Refresh for ever, log off and never return. The other modules state safety only.

`CHECK_DEADLOCK FALSE` is in the configurations of Terminal, where a terminal
that has been left and reaped really is over, of `disk`, where a `create()` that
dies after its mkdir leaves an empty directory that every later `create()` and
save refuses, of `logins_port` and `service_torn`, and of `console` and `shell`,
where a value of the greatest length has no next character, a relayed socket
that is closed stays closed, and pages and restarts are used up.

## What the violated runs show

* `store_markers`: `update_plan()`'s comment says the dirty check cannot go
  stale between it and the merge. Another session's merge can conflict in
  between, and `commit --all` then commits the markers.
* `stack_pair`: "a bad save cannot leave a stack that will not start" holds for
  one saver. With two, a save can be accepted because of a text the other has
  written and not answered for; when the other is rejected (or its check times
  out) and restored, what is left was never checked together. The trace is a
  project just created beside a `.env` being saved.
* `terminal_leak`: closing is registered after the start, so a browser that
  leaves while its pane is measured leaves a shell behind.
* `terminal_orphan`: a drop's `hangup()` reaps before the shell in the container
  has recorded its pid, and kills nothing; the flag it has set makes the Close
  button's `hangup()` return at once, and the shell, recorded by then, lives on.
* `installs_dangling`: the uninstall that `remove` tells the user to run is
  refused, because a dangling link does not resolve.
* `installs_race`: `install_command()` says that `ln` would refuse a name that is
  the user's own project. `ln -s` onto a directory succeeds and puts the link
  inside it, so a project made between the check and the command gets a stray
  link, and the app is not installed.
* `logins_port`: git writes a port's colon as `%3a`, the list shows the host so,
  and Log out then rejects a host git does not know: both commands succeed, the
  page says it is done, and the token stays.
* `service_torn`: a program that ends while openssl has `cert.pem` open leaves a
  file that `ensure_selfsigned()` takes for a certificate at every later start.
  None can serve with it, and none replaces it.

## Proofs

| Theorem | Says | Assumes |
|---|---|---|
| `StoreUpdate_proofs!TypeCorrect` | types | -- |
| `StoreUpdate_proofs!UpdatesAreHonest` | a finished update brought in what it set out for | -- |
| `StoreUpdate_proofs!CommittedEditsAreKept` | committed edits stay in HEAD, any number of sessions | -- |
| `StoreUpdate_proofs!SoloNoMarkers` | no markers in HEAD | one session, and the conflicts query does not fail |
| `StoreUpdate_proofs!SoloEditsSurvive` | no edit is lost, however an update ends | same |
| `StoreUpdate_proofs!SoloAbortRestores` | an undo puts back what was left alone | same |
| `StackFiles_proofs!TypeCorrect` | types | -- |
| `StackFiles_proofs!SavesInTurnAreAtomic` | a save implements `AtomicSave`, until savers disturb one another or one is cut off | -- |
| `StackFiles_proofs!RemovesOnlyItsOwn` | a directory is removed only by the run of `create()` that made it | -- |
| `StackFiles_proofs!SavesInTurnStart` | docker accepts what rests on the disk, until the same | -- |
| `StackFiles_proofs!FormsKeepOthersKeys` | a form loses a key it does not declare only to a change since its save read the file | -- |
| `Terminal_proofs!TypeCorrect`, `TranscriptIsComplete`, `OnlyOneReap` | the safety of `terminal_all` | -- |
| `Terminal_proofs!ClosedOnce` | the master descriptor is closed at most once; no run repeats it | -- |
| `Installs_proofs!TypeCorrect`, `StopsFirst`, `KeepsUserDirs` | the properties of the installs in `disk` | -- |
| `Sessions_proofs!SessionsTypeCorrect`, `ActorsAreVerified`, `MirrorIsTrue` | types; only verified browsers act; a lone page's mirror is true | -- |
| `Settings_proofs!SettingsTypeCorrect`, `PanelTells`, `UntouchedStay` | types; typed text wins, a fresh panel is the write; a save changes only what was touched | -- |
| `Settings_proofs!EnvFileTypeCorrect`, `SavesAreExact` | types; a save into a `.env` of any length is read back, is idempotent and keeps every other line | the file's quotes close (in `SaveIsExact` itself) |
| `Settings_proofs!ValueReadsBack` | a value of any length, in any characters, comes back from the file to both readers | -- |
| `Console_proofs!NewAccountIsWhole` | an add ends with what it said | -- |
| `Console_proofs!StoresStayInSync` | git and docker are logged in as the same user | one hand |
| `Console_proofs!LoggedOutIsGone` | what was logged out is off the list | one hand, and the list names hosts as git does |
| `Console_proofs!EveryPartIsItself`, `TypeCorrect`, `PromisesAreKept`, `ConsoleStaysInSync` | each part of `MCConsole` behaves as by itself; its types; the properties above, of the console | -- (the last: one hand) |
| `Shell_proofs!CertificateIsKept` | one matching certificate until it is removed | -- |
| `Shell_proofs!ServiceIsOwed` | what install and update said is not taken back | -- |
| `Shell_proofs!RequestsGoRight` | the right plugin answers | -- |
| `Shell_proofs!NoWordIsLost`, `LeavingIsNoticed` | words arrive once and in order; a close is never lost | -- |
| `Shell_proofs!CardsAreDrawnOnce`, `NothingIsForgotten` | one card per app; a render is still to come for what is blank or new | -- |
| `Shell_proofs!TypeCorrect`, `PromisesAreKept` | the types of `MCShell`; the properties above, of the shell | -- |

Each module's `ASSUME` (the constants' types) is evaluated by its runs. The
assumptions in the table are hypotheses of the theorem, and the violated runs
show why they are needed: without "one session" `store_markers` is a
counterexample, once two saves meet (`disturbed`) `stack_pair` is, and without the
list naming hosts as git does `logins_port` is. "One hand" is what the `console` run has: a
login and a logout of one host that overlap may leave git and docker apart.

The arguments. *StoreUpdate*: honesty rests on the order of versions
(`VersionsInOrder`: HEAD and the pending merge never run ahead of what is
fetched, nor that ahead of the remote) and on a plan past its fetch having
fetched what it wanted (`FetchedWhatItWanted`). Committed edits stay because
what HEAD has of them is staged, and what is staged is in the work tree
(`CommittedEverywhere`), so that no commit, whatever it is made of, leaves one
out. Markers are only in unmerged files of a pending merge, and with one
session an update never runs during one (`MarkerInv`). So, with one session,
nothing is staged when a merge begins, and what an undo puts back is exactly what
the merge wrote (`RestoreInv`): files that were as committed, with no edit but
HEAD's in them unless the user saved them since.
*StackFiles*: a saver in flight has in hand a text of the kind its
job needs (`InHand`). Until something disturbs, a step is of the only saver in
flight (`Undisturbed`, `OthersRest`), the other file is unchanged since it read
(`SoloInv`), and each step is a step or a stutter of `AtomicSave`; what it leaves
is a project that docker accepts once the file it is writing is put back
(`StartInv`). With any number of savers and any faults, a directory that is being
filled is that of the one who fills it (`OwnInv`), so the one it removes is its
own; and the text a form is about to write agrees with the file as it is on every
key that is not the form's, unless the form was overtaken (`FormInv`).
*Terminal*:
`Accounted` counts chunks -- unread, queued and shown add up to what was said
as long as nobody hung up, and the one "end" is the queue's last item;
`OneReaper` ties the flag to the one hangup that may reap. *Installs*:
`KnownPlans` says a plan is one command or one of three pairs, so that a lone
`rm` of a tab either was decided on an answer or follows a `down` that
succeeded (`StoppedBeforeUninstall`, itself inductive with it).
*Sessions*: `Vouched` says a storage with a login is of a verified browser, and
`Admitted` carries that to rooms: whoever has joined the room of a page behind
the login is verified, because it was when it attached and a restart, the only
end of a verification, empties the rooms. The mirror is a second invariant over
the first (`Mirrors`): the last word queued for a lone page is what the page
shows, and once the queue is empty the browser has it.
*SettingsForm*: `Remembered` ties the history to the widgets -- typed text is in
the editor and differs from what was seeded, an untouched field holds what the
dialog opened with -- `UpToDate` says a fresh panel is what a save would write,
and `Found` what an open form was filled from. Each holds of one tab and a step
of one tab leaves the others' alone (`OtherTabs`).
*EnvValue*: the induction is over the value. The prover cannot instantiate an
induction rule with a property, but a rule about sets has nothing to
instantiate: every set of numbers has a least (from the well-foundedness the
library proves), so a set of texts that has the empty one, and with a text every
text one character longer, has them all (`StringInduction`). The functions that
`Replaced`, `Reading` and `AsLines` are defined by exist, take a step a character
(`MadeByExists`, `StepsAgree`), and so each is known by what one character more
does to it (`ReplacedAppend`, `ReadingAppend`, `AsLinesAppend`). The five
replacements of `encode()`, one over the other, then escape each character by
itself (`EscapedAppend`), and the reader undoes that a character at a time
(`ReadEscaped`).
*EnvFile*: a file whose quotes close is a row of blocks (`Block`: a line, or the
lines of one quoted value), and what stands on a line means the same whatever is
above it (`Behind`). So the four walks of the file -- `Scan`, `Walk`, `Kept` and
what `Value` finds -- are each known by what a block does in front of a file
(`ScanAhead`, `WalkAhead`, `KeptAhead`, `ValueAhead`); that `patch()` cuts spans
out of the list it walks backwards over, and yet never out of place, is `WalkIs`.
`Settled` is the strengthening: the file says each of the answers in one
assignment, keeps what it should, and another save would leave it. The empty file
is settled, other lines in front of a settled file keep it so (`OthersSettled`),
and so does an assignment of a key it does not have (`AnswerSettled`). What is
appended is settled, and then what `Walk` leaves in front of it, block by block
(`WalkedSettled`, by `BlockInduction`).
*Accounts*: `Halfway` says what is known between the two commands: the account
of the name in the box at the press is locked unless somebody else has touched
it since, and the name chpasswd gets is that one.
*Logins*: `HalfWay` -- while docker's half is under way git's is done and says the
operation's user, and on a host nobody is at, and no failure was told of, the two
agree already. That git's first line is the user it was last given, and that a
user has one line at most, is `WithoutIs` about the credential file.
*Service*: `Paired` -- a certificate on the disk is its key's, and a program that
has just written a key has at most a certificate of that key's half written
beside it -- and `Known`, that what browsers were shown is what is on the disk,
and whole, make every later start serve the
same pair; `Matched` says that what is served has its key. `Owed` follows a
command by what it has still to do (`InstallRest`): the unit is known to systemd
when it is enabled, linger is on before "installed" is said, and a restart is
ordered before "updated" is.
*Plugins*: the invariant follows an address from the inspection that saw it to
the connection that uses it. What a scan in flight has found, what the table
holds and what a request was given are each an address that only a container of
that name with a port can hold (`Right`), or one given out again since
(`movedScan`, `moved`, `surprised`); the last is the exception the property names.
*Relay*: `Flowing` splits what was said one way at the n-th word: those up to n
have been taken and are heard, in the pump's hand or lost with an end that left
(`Taken`), the rest waits in order with the close behind it (`Waits`). `Reason`
is why a pump ended by itself, which is what the last words of the other way
need.
*Pages*: `DrawnOnce` says that a list is drawn by one render only as long as none
overlapped: the cards are that render's, and empty while it is busy.
`BlankIsDrawn` and `NewsIsComing` say that a render is to come wherever one is
needed, after an Up or a Down, unless one raised.

Of some liveness properties the safe half is proved: that what must happen is
still due in every state. `ServiceIsOwed` has it for `InstalledComesBack` and
`UpdateTakesEffect`, `LeavingIsNoticed` for `EndsTogether`, `NothingIsForgotten`
for `BlankIsTemporary` and `CommandIsShown`. That what is due happens needs
fairness, and is TLC's.

The compositions. The parts of `MCConsole` state safety only, so that a
behaviour of it is one of each part's specification (`EveryPartIsItself`), and
the parts' theorems carry over. The parts of `MCShell` have fairness that is
asked of a part's own turn; there the parts' invariants, put side by side
(`ShellInv`), are shown to be kept by every turn. For `MCDisk` neither is spelt
out: the theorems are of its three parts, whose specifications have no fairness
and whose behaviours are the behaviours of `MCDisk`, as in the console. Every theorem holds for all
values of the constants, with the modules' named assumptions only.

Only model-checked: liveness (`ClosedSessionEnds`, `RecordedInTimeDies`,
`TableCatchesUp`, `EndsTogether`, `BlankIsTemporary`, `CommandIsShown`,
`UpdateTakesEffect`, `InstalledComesBack`), which the prover does not reach.
Every invariant and every action property of a passing run is a theorem (`TypeOK`
of `disk` as the three parts' own).

## What is left out

Wording, layout, logging, timing, versions and badges. git is one atomic step
per command, `cp -r`, `rm -rf` and `git clone` too; the store page renders in one
step. `EditsSurvive` and `AbortRestores` are stated for one session: with two, an
abort by one can drop what the other has just staged. Undoing a conflicted
update is not always possible: git refuses `merge --abort` once the user has
saved a file that merged cleanly. Edits the user makes to a conflicted file and
then undoes with the whole update are taken as given up (`todo.md` knows of it).
A pty's other users, signals other than the hangup, keystrokes and window sizes
are not modelled.

What the properties deliberately do not promise, because the code does not:

* a browser that has logged out keeps the rooms its sockets have joined, so its
  open pages still act until they are left (`OnlyVerifiedAct` is about browsers
  that were let in once, not about ones that still are);
* two renders that overlap show every app twice (`OneCardEach` asks for none
  that do), and a refresh deletes a dialog that lives in a card;
* a scan that fails publishes an empty table for one interval (`TableCatchesUp`
  is about the end), and a request within a scan's stale window can reach the
  new holder of an address (`RightPlugin` excepts it);
* a login and a logout for one host that overlap may leave git and docker apart
  (`StoresAgree` is checked with one hand), and a program that dies between the
  two halves leaves one;
* a form saves every field it was opened with (`UntouchedAsOpened` says what
  that undoes, not that it undoes nothing), and patches the text it has read: a
  key somebody adds between that read and the write is lost, although save()
  says that everything else comes through (`OthersKeysKept` excepts that alone);
* `create()` removes its own directory when compose says no, with whatever
  somebody else saved there while compose was asked (`OnlyOwnRemoved` is about
  whose directory it is);
* a conflicts query that fails reads as "no conflicts": a resolve that asks twice
  and is answered the second time only commits the markers (`FailingQueries`
  leaves that query out of `disk`);
* a render of the Apps page that raises -- a compose file that is not UTF-8 is
  enough -- leaves the page empty until somebody refreshes (`BlankIsTemporary`
  and `CommandIsShown` except it);
* a shell that records its pid after a drop's reap is not killed
  (`RecordedInTimeDies` is about those recorded before; `terminal_orphan` has the
  others), and a certificate left half written stays (`service_torn`).

Left out of the parts that are modelled: header filtering and bodies in the
proxy, and an accept that raises; the rules of single field types in a schema;
logins over ssh, which git does not keep; home directories; Create
pressed twice; reinstalling the tool and the storage secret an install rotates;
HSTS; restart, pull and logs of a stack. `commands.run()` and its siblings, the
loading of plugins and configuration, and the System page are not modelled; the
components in `PROJECT.json` say why.

Compositions: Installs and StoreUpdate share the checkout, and an uninstall
during a merge is where they meet; that is worth a module only if a property
spans both, and none found does. EnvFile and EnvValue refine the one-step
patches of StackFiles and SettingsForm by their meaning: `SaveIsExact` is what
those two take for granted.
