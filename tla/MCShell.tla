--------------------------------- MODULE MCShell ---------------------------------
(***************************************************************************)
(* What runs beside the stores and stacks: the plugin table and its proxy, *)
(* the relay of one WebSocket, the drawing of the Apps page, and the       *)
(* service itself.  They share no state; a behaviour is one of one part,   *)
(* and what is said to happen in the end is asked of the part it is of.    *)
(***************************************************************************)
EXTENDS Plugins, Relay, Pages, Service, TLC

CONSTANTS p1, p2, p3, p4, maps, logs
NameOf == p1 :> maps @@ p2 :> maps @@ p3 :> maps @@ p4 :> logs

MCConfigs == {[host |-> "all", auth |-> "pam", tls |-> "auto"],
              [host |-> "loopback", auth |-> "none", tls |-> "auto"]}

VARIABLE part
Parts == {"plugins", "relay", "pages", "service"}
vars == <<part, PluginsVars, RelayVars, PagesVars, ServiceVars>>

\* The parts that do not run stay in one initial state, or at rest.
Init ==
  /\ part \in Parts
  /\ part # "plugins" => loop = FALSE
  /\ part # "pages" => projects = {}
  /\ part # "service" => scope = "user"
  /\ PluginsInit /\ RelayInit /\ ServiceInit
  /\ IF part = "pages" THEN PagesInit ELSE PageAtRest(TRUE)

PluginsTurn == part = "plugins" /\ PluginsNext /\ UNCHANGED <<RelayVars, PagesVars, ServiceVars>>
RelayTurn   == part = "relay" /\ RelayNext /\ UNCHANGED <<PluginsVars, PagesVars, ServiceVars>>
PagesTurn   == part = "pages" /\ PagesNext /\ UNCHANGED <<PluginsVars, RelayVars, ServiceVars>>
ServiceTurn == part = "service" /\ ServiceNext /\ UNCHANGED <<PluginsVars, RelayVars, PagesVars>>

Next == UNCHANGED part /\ (PluginsTurn \/ RelayTurn \/ PagesTurn \/ ServiceTurn)

\* The fairness of each part, asked only where the part runs.
Fairness ==
  /\ WF_PluginsVars(part = "plugins" /\ Scan)
  /\ \A b \in Boxes : WF_PluginsVars(part = "plugins" /\ \E a \in Addresses : BoxGetsAddress(b, a))
  /\ WF_RelayVars(part = "relay" /\ Ws)
  /\ \A w \in Ways : WF_RelayVars(part = "relay" /\ Pump(w))
  /\ WF_PagesVars(part = "pages" /\ \E r \in Renders : Fire(r))
  /\ \A r \in Renders : WF_PagesVars(part = "pages" /\ Step(r))
  /\ WF_ServiceVars(part = "service" /\ Systemd)

Spec == Init /\ [][Next]_vars /\ Fairness

\* The type invariants of the parts.
TypeOK == part \in Parts /\ PluginsTypeOK /\ RelayTypeOK /\ PagesTypeOK /\ ServiceTypeOK
=============================================================================
