\* Each part with the smallest instance its cases need.
SPECIFICATION Spec
CONSTANTS
  p1 = p1
  p2 = p2
  p3 = p3
  p4 = p4
  maps = maps
  logs = logs
  Boxes = {p1, p2, p3, p4}
  Name <- NameOf
  Portless = {p1}
  Addresses = {a1, a2}
  Manual = {logs}
  Demo = demo
  NoTarget = none
  MaxChanges = 3
  MaxSaid = 2
  Apps = {x1}
  Renders = {r1, r2}
  MaxTimers = 2
  MaxFaults = 1
  Configs <- MCConfigs
  NoConfig = noconfig
  MaxVersion = 2
  MaxFailures = 1
  MaxCrashes = 1
  MaxOrders = 1
INVARIANTS TypeOK RightPlugin WordsArrive OneCardEach
PROPERTIES TableCatchesUp EndsTogether BlankIsTemporary CommandIsShown OneCertificate UpdateTakesEffect InstalledComesBack
CHECK_DEADLOCK FALSE
