\* Two tasks and two players; two commands on the bans, of which there may be one, two
\* on permissions, two on settings; one crash and one failing save.
CONSTANTS
  default = default
  staff = staff
  bot = bot
  User = {x1, x2}
  Ip = {i1}
  Conn = {c1, c2}
  Worker = {t1, t2}
  IpOf <- OneAddress
  Nothing = Nothing
  Torn = Torn
  StartBans <- AtMostOne
  MaxJobs = 2
  Person = {u}
  Group = {default, staff}
  Default = default
  Path <- Nodes
  Raw <- Rules
  StartGroups <- Groups
  Hand = {t1, t2}
  Absent = Absent
  MaxChanges = 2
  Player = {p, bot}
  Headless = {bot}
  Lock = {x1, x2}
  Doer = {t1, t2}
  MaxOrders = 2
SPECIFICATION MCSpec
SYMMETRY Symmetry
INVARIANTS AdminTypeOK BansInForce FilesCurrent DenyWins SettingsInForce
\* Every command ends.
CHECK_DEADLOCK FALSE
