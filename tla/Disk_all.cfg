\* One session that updates a store and a user who edits the checkout; two savers on a
\* project, a disk that fills up, processes that die, and a user who edits the files at any
\* time; a tab and a shell over two stores with an app of one name each.
SPECIFICATION Spec
CONSTANTS
  f1 = f1
  f2 = f2
  Files = {f1, f2}
  Sessions = {session}
  MaxSaves = 3
  MaxVersions = 2
  FailingQueries = {"dirty"}
  blank = blank
  plain = plain
  needy = needy
  port = port
  token = token
  unset = unset
  v1 = v1
  ComposeTexts = {blank, needy}
  Blank = blank
  Keys = {port, token}
  Declared = {port}
  Values = {unset, v1}
  Unset = unset
  Missing = Missing
  Works <- MCWorks
  Savers = {saver1, saver2}
  Faults = {"crash", "disk_full", "edit"}
  MaxHand = 1
  s1 = s1
  s2 = s2
  n1 = n1
  theirs = theirs
  ours = ours
  Stores = {s1, s2}
  Apps = {theirs, ours}
  StoreOf <- MCStoreOf
  Names = {n1}
  NameOf <- MCNameOf
  Tabs = {tab}
  Clis = {cli}
  Nothing = Nothing
  ByHand = ByHand
  Adopted = Adopted
SYMMETRY Symmetry
\* A create() that dies after its mkdir leaves an empty directory, which every later
\* create() and save refuses: only the user gets it out of there, and MaxHand bounds that.
CHECK_DEADLOCK FALSE
INVARIANTS TypeOK NoMarkersCommitted EditsSurvive FinishedMeansUpdated StartableInTurn StoppedBeforeUninstall
PROPERTIES AbortRestores CommittedEditsStay SavesAreAtomic OnlyOwnRemoved  UserDirsKept
