SPECIFICATION GatewaySpec
CONSTANTS
  Kinds <- ServedKinds
  Slots = {s1, s2}
  Users = {u1, u2}
  Projects = {p1, p2}
  Items = {x, y}
  NoUser = NoUser
  NotMember = NotMember
  Limit = 1
  LimiterFailOpen = TRUE
  MaxRequests = 3
  MaxFaults = 1
SYMMETRY Sym
INVARIANTS AnswersEntitled OwnSubject WritesSeen
PROPERTIES LimitPerIdentity
