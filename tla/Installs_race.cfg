\* A tab alone, and the user in a shell of their own.
SPECIFICATION InstallsSpec
CONSTANTS
  s1 = s1
  s2 = s2
  n1 = n1
  theirs = theirs
  ours = ours
  Stores = {s1, s2}
  Apps = {theirs, ours}
  StoreOf <- MCStoreOf
  Names = {n1}
  NameOf <- MCNameOf
  Tabs = {tab}
  Clis = {}
  Nothing = Nothing
  ByHand = ByHand
  Adopted = Adopted
PROPERTIES LnRefuses
