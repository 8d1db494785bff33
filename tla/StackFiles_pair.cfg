\* Two savers on one project.
SPECIFICATION StackSpec
CONSTANTS
  blank = blank
  plain = plain
  needy = needy
  port = port
  token = token
  unset = unset
  v1 = v1
  ComposeTexts = {blank, plain, needy}
  Blank = blank
  Keys = {port, token}
  Declared = {port}
  Values = {unset, v1}
  Unset = unset
  Missing = Missing
  Works <- MCWorks
  tab = tab
  cli = cli
  Savers = {tab, cli}
  Faults = {}
  MaxHand = 0
INVARIANT Startable
