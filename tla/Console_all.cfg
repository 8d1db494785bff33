\* Each part with the smallest instance its cases need; the initial states that matter
\* to no part but one are fixed for the others.
SPECIFICATION Spec
CONSTANTS
  Browsers = {b1, b2}
  NoCookie = nobody
  Clients = {c1, c2}
  Sockets = {s1}
  Routes = {"/login", "/docker"}
  Usernames = {ann, bob}
  NoName = noname
  AsRoot = TRUE
  Me = ann
  Admins = {ann}
  Fallback = "off"
  MaxQueued = 2
  MaxRestarts = 1
  Tabs = {t1, t2}
  Settings = {"PORT"}
  Extra = {"TOKEN"}
  EnvValues = {"8080", "true", "false", ""}
  Blank = ""
  Unset = unset
  Kind <- MCKind
  Plainly <- MCPlainly
  Truthy = {"true"}
  Default <- MCDefault
  Allowed <- MCAllowed
  Required = {"PORT"}
  Drafts <- MCDrafts
  Sayings <- MCSayings
  NoText = notext
  MaxByHand = 1
  port = port
  name = name
  token = token
  Fields <- FieldKeys
  Mine = {token}
  Texts = {plain, long, empty}
  Quoted = {long}
  Long = long
  Empty = empty
  NoFile = nofile
  MaxTyped = 3
  Letters = {"n", "r", "t", "a"}
  MaxChars = 4
  Operators = {o1}
  Names = {n1, n2}
  Groups = {g1}
  Passwords = {w1}
  Locked = locked
  Absent = absent
  NoPassword = nopassword
  MaxFaults = 1
  MaxShells = 1
  Hands = {h1}
  Hosts = {"gitea.example.com", "git.example.com"}
  AsListed <- AsItIs
  Users = {u1, u2}
  NoUser = nouser
SYMMETRY Same
INVARIANTS TypeOK MirrorFollowsLonePage ReadsBack StoresAgree
PROPERTIES OnlyVerifiedAct PanelIsTheWrite UntouchedAsOpened SaveIsExact AddIsWhole
CHECK_DEADLOCK FALSE
