\* A shell alone.
SPECIFICATION InstallsSpec
CONSTANTS
  s1 = s1
  s2 = s2
  n1 = n1
  theirs = theirs
  ours = ours
  Stores = {s1, s2}
  Apps = {theirs, ours}
  StoreOf <- MCStoreOf
  Names = {n1}
  NameOf <- MCNameOf
  Tabs = {}
  Clis = {cli}
  Nothing = Nothing
  ByHand = ByHand
  Adopted = Adopted
INVARIANTS AdviceWorks
