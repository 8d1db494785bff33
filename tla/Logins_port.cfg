\* One page, and a registry on a port.
SPECIFICATION LoginsSpec
CONSTANTS
  Hands = {page}
  Hosts = {"gitea.example.com:3000"}
  AsListed <- Encoded
  Users = {ann}
  NoUser = nouser
PROPERTY ForgottenIsGone
CHECK_DEADLOCK FALSE
