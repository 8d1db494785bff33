\* One crash of the service; the other parts as small as they go.
SPECIFICATION Spec
CONSTANTS
  p1 = p1
  p2 = p2
  p3 = p3
  p4 = p4
  maps = maps
  logs = logs
  Boxes = {p4}
  Name <- NameOf
  Portless = {}
  Addresses = {a1}
  Manual = {logs}
  Demo = demo
  NoTarget = none
  MaxChanges = 0
  MaxSaid = 1
  Apps = {x1}
  Renders = {r1}
  MaxTimers = 1
  MaxFaults = 0
  Configs <- MCConfigs
  NoConfig = noconfig
  MaxVersion = 1
  MaxFailures = 0
  MaxCrashes = 1
  MaxOrders = 0
PROPERTIES EveryBootComesBack
CHECK_DEADLOCK FALSE
