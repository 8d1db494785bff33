\* Two sessions press Update while the tree is dirty.
SPECIFICATION StoreSpec
CONSTANTS
  f1 = f1
  f2 = f2
  tab = tab
  cli = cli
  Files = {f1, f2}
  Sessions = {tab, cli}
  MaxSaves = 1
  MaxVersions = 1
  FailingQueries = {}
SYMMETRY StoreSymmetry
INVARIANT NoMarkersCommitted
