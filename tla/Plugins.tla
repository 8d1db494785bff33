--------------------------------- MODULE Plugins ---------------------------------
(***************************************************************************)
(* Container plugins: the scan that finds them, the table of targets it    *)
(* publishes, and a request that is proxied to one of them.                *)
(*                                                                         *)
(* A scan is two docker commands on a worker thread, so containers come    *)
(* and go between them, and between the second and the publication.  An    *)
(* address is given to another container once its holder has stopped.      *)
(***************************************************************************)
EXTENDS Naturals, FiniteSets

CONSTANTS
  Boxes,        \* the containers that carry the name label
  Name,         \* the plugin name each carries; two may carry the same
  Portless,     \* those without a port label
  Addresses,    \* what docker hands out
  Manual,       \* names registered by hand (SPIRICONFIG_PROXY_DEMO)
  Demo,         \* their upstream
  NoTarget,     \* no entry, and no container
  MaxChanges    \* bound: what happens to containers and to docker

ASSUME PluginsAssumption ==
  /\ Portless \subseteq Boxes
  /\ NoTarget \notin Boxes \union Addresses /\ Demo \notin Boxes \union Addresses
  /\ {"", "404", "502"} \intersect (Boxes \union {Demo}) = {}
  /\ MaxChanges \in Nat

Names == {Name[b] : b \in Boxes}

VARIABLES
  running,      \* the containers docker ps shows
  address,      \* of each container; NoTarget while it has none
  docker,       \* the daemon answers
  loop,         \* SPIRICONFIG_PLUGIN_DISCOVERY_INTERVAL is above 0
  scanning,     \* the scan thread: "idle", "ps", "inspect", "found"
  booted,       \* the server is up
  listed,       \* what docker ps said
  found,        \* the targets made of docker inspect: pairs of a name and an address
  discovered,   \* proxy._DISCOVERED
  request,      \* one proxied request: its name, the target it looked up
  answer,       \* who answered it: a container, or 404, 502
  changes,      \* counts changes outside
  moved,        \* history: addresses given out since what is published was inspected
  movedScan,    \* history: the same, since the inspection of the scan that is going on
  surprised     \* history: the request's address changed hands since it was inspected

boxVars  == <<running, address, docker, changes>>
scanVars == <<scanning, booted, listed, found>>
askVars  == <<request, answer, surprised>>
PluginsVars == <<boxVars, loop, scanVars, discovered, askVars, moved, movedScan>>

PluginsInit ==
  /\ running = {} /\ address = [b \in Boxes |-> NoTarget]
  /\ docker = TRUE
  /\ loop \in BOOLEAN
  /\ scanning = "idle" /\ booted = FALSE
  /\ listed = {} /\ found = {}
  /\ discovered = [n \in Names |-> NoTarget]
  /\ request = <<>> /\ answer = ""
  /\ changes = 0
  /\ moved = {} /\ movedScan = {} /\ surprised = FALSE

-----------------------------------------------------------------------------
(* Outside *)

Change == changes < MaxChanges /\ changes' = changes + 1

\* A container is listed before it has an address.
BoxStarts(b) ==
  /\ Change
  /\ b \notin running
  /\ running' = running \union {b}
  /\ UNCHANGED <<address, docker, loop, scanVars, discovered, askVars, moved, movedScan>>

BoxGetsAddress(b, a) ==
  /\ b \in running /\ address[b] = NoTarget
  /\ \A c \in Boxes : address[c] # a
  /\ address' = [address EXCEPT ![b] = a]
  /\ moved' = moved \union {a} /\ movedScan' = movedScan \union {a}
  /\ surprised' = (surprised \/ (request # <<>> /\ request[2] = a))
  /\ UNCHANGED <<running, docker, changes, loop, scanVars, discovered, request, answer>>

BoxStops(b) ==
  /\ Change
  /\ b \in running
  /\ running' = running \ {b}
  /\ address' = [address EXCEPT ![b] = NoTarget]
  /\ UNCHANGED <<docker, loop, scanVars, discovered, askVars, moved, movedScan>>

DockerFlips ==
  /\ Change
  /\ docker' = ~docker
  /\ UNCHANGED <<running, address, loop, scanVars, discovered, askVars, moved, movedScan>>

-----------------------------------------------------------------------------
(* discovery.scan(), refresh() and run_forever() *)

\* The first scan is made before the server starts; the loop is made by its startup.
ScanBegins ==
  /\ scanning = "idle" /\ (booted => loop)
  /\ scanning' = "ps"
  /\ UNCHANGED <<boxVars, loop, booted, listed, found, discovered, askVars, moved, movedScan>>

\* docker ps; nothing listed, or no docker, is an empty result.
Ps ==
  /\ scanning = "ps"
  /\ listed' = IF docker THEN running ELSE {}
  /\ found' = {}
  /\ scanning' = IF docker /\ running # {} THEN "inspect" ELSE "found"
  /\ movedScan' = IF docker /\ running # {} THEN movedScan ELSE {}
  /\ UNCHANGED <<boxVars, loop, booted, discovered, askVars, moved>>

\* Mutant of Targets: the port label is not asked for.
Bug_AnyContainer(boxes) ==
  {<<Name[b], address[b]>> : b \in boxes}

\* _to_target(): a container without a port or an address yet is skipped.
Targets(boxes) ==
  {<<Name[b], address[b]>> : b \in {c \in boxes \ Portless : address[c] # NoTarget}}

\* docker inspect of the ids listed: one that has stopped has no address left, and one
\* that has been removed fails it for all of them.
Inspect ==
  /\ scanning = "inspect"
  /\ \/ docker /\ found' = Targets(listed)
     \/ ~(docker /\ listed \subseteq running) /\ found' = {}
  /\ scanning' = "found"
  /\ movedScan' = {}
  /\ UNCHANGED <<boxVars, loop, booted, listed, discovered, askVars, moved>>

\* The table a list of targets makes: of two with one name, one remains.
Tables(pairs) ==
  {t \in [Names -> Addresses \union {NoTarget}] :
     \A n \in Names : LET here == {p[2] : p \in {q \in pairs : q[1] = n}}
                      IN IF here = {} THEN t[n] = NoTarget ELSE t[n] \in here}

\* set_discovered(): the table is replaced wholesale.
Publish ==
  /\ scanning = "found"
  /\ discovered' \in Tables(found)
  /\ scanning' = "idle" /\ booted' = TRUE
  /\ moved' = movedScan
  /\ UNCHANGED <<boxVars, loop, listed, found, askVars, movedScan>>

\* Mutant of ScanRaises: the exception ends the loop.
Bug_LoopDies ==
  /\ booted /\ scanning \in {"ps", "inspect"}
  /\ scanning' = "idle" /\ loop' = FALSE
  /\ UNCHANGED <<boxVars, booted, listed, found, discovered, askVars, moved, movedScan>>

\* An exception scan() does not expect leaves the table as it is until the next tick.
ScanRaises ==
  /\ Change
  /\ booted /\ scanning \in {"ps", "inspect"}
  /\ scanning' = "idle"
  /\ UNCHANGED <<running, address, docker, loop, booted, listed, found, discovered,
                 askVars, moved, movedScan>>

-----------------------------------------------------------------------------
(* proxy.get() and _http() *)

\* get(): a target registered by hand shadows a discovered one.
Get(n) ==
  IF n \in Manual THEN Demo
  ELSE IF n \in Names THEN discovered[n] ELSE NoTarget

\* The target is looked up when the request arrives ...
Ask(n) ==
  /\ booted /\ request = <<>>
  /\ request' = <<n, Get(n)>>
  /\ answer' = IF Get(n) = NoTarget THEN "404" ELSE ""
  /\ surprised' = (Get(n) \in moved)
  /\ UNCHANGED <<boxVars, loop, scanVars, discovered, moved, movedScan>>

\* ... and connected to after an await.
Connected ==
  /\ request # <<>> /\ answer = ""
  /\ LET there == {b \in Boxes : address[b] = request[2]}
     IN answer' \in IF request[2] = Demo THEN {Demo} ELSE IF there = {} THEN {"502"} ELSE there
  /\ UNCHANGED <<boxVars, loop, scanVars, discovered, request, surprised, moved, movedScan>>

Done ==
  /\ request # <<>> /\ answer # ""
  /\ request' = <<>> /\ answer' = "" /\ surprised' = FALSE
  /\ UNCHANGED <<boxVars, loop, scanVars, discovered, moved, movedScan>>

Scan == ScanBegins \/ Ps \/ Inspect \/ Publish

PluginsNext ==
  \/ \E b \in Boxes : BoxStarts(b) \/ BoxStops(b)
                      \/ \E a \in Addresses : BoxGetsAddress(b, a)
  \/ DockerFlips
  \/ Scan \/ ScanRaises
  \/ \E n \in Names \union Manual : Ask(n)
  \/ Connected \/ Done

\* The scan thread goes on, the loop wakes up, and docker attaches what it starts.
PluginsFairness ==
  /\ WF_PluginsVars(Scan)
  /\ \A b \in Boxes : WF_PluginsVars(\E a \in Addresses : BoxGetsAddress(b, a))

PluginsSpec == PluginsInit /\ [][PluginsNext]_PluginsVars /\ PluginsFairness

-----------------------------------------------------------------------------
(* What must hold *)

\* Type invariant.
PluginsTypeOK ==
  /\ running \subseteq Boxes
  /\ address \in [Boxes -> Addresses \union {NoTarget}]
  /\ docker \in BOOLEAN /\ loop \in BOOLEAN /\ booted \in BOOLEAN
  /\ scanning \in {"idle", "ps", "inspect", "found"}
  /\ listed \subseteq Boxes /\ found \subseteq Names \X Addresses
  /\ discovered \in [Names -> Addresses \union {NoTarget}]
  /\ request = <<>> \/ request \in (Names \union Manual) \X (Addresses \union {Demo, NoTarget})
  /\ answer \in Boxes \union {Demo, "", "404", "502"}
  /\ changes \in 0..MaxChanges
  /\ moved \subseteq Addresses /\ movedScan \subseteq Addresses /\ surprised \in BOOLEAN

\* A request for a name is answered by a container that carries it and has a port,
\* or by what was registered by hand, although scans, publications and the
\* connection interleave with containers that come and go.  The exception is an
\* address docker has given to another container since it was inspected.
RightPlugin ==
  request # <<>> /\ answer \in Boxes \union {Demo} /\ ~surprised =>
    IF request[1] \in Manual THEN answer = Demo
    ELSE Name[answer] = request[1] /\ answer \notin Portless

Serving == {b \in running \ Portless : address[b] # NoTarget}

\* With the loop on, once containers and docker are left alone the table becomes
\* what is running and stays so: an app installed while we run appears, one that
\* is gone disappears, and no failed scan stops the next.
TableCatchesUp ==
  loop => <>[](docker => \A n \in Names :
                 IF \E b \in Serving : Name[b] = n
                   THEN \E b \in Serving : Name[b] = n /\ discovered[n] = address[b]
                   ELSE discovered[n] = NoTarget)

=============================================================================
