SPECIFICATION FairSpec
CONSTANTS
  Clients = {c1, c2}
  UserIds = {u1, u2}
  PostIds = {p1}
  CommentIds = {k1}
  Emails = {e1}
  Texts = {x1}
  Titles = {t1}
  Suffixes = {d1}
  Passwords = {pw}
  LongPasswords = {}
  Salts = {sA}
  Roles = {"admin"}
  RoleArgs = {"admin", "ghost"}
  StatusArgs = {"bogus"}
  PageArgs <- Defaults
  PerPageArgs <- Defaults
  Ops <- LongOps
  Seed <- OneSeed
  DefaultPerPage = 2
  MaxPerPage = 2
  MaxInt = 7
  None = None
  Fresh = Fresh
  Gone = Gone
  u1 = u1
  u2 = u2
  e1 = e1
  e2 = e2
  pw = pw
  sA = sA
  sB = sB
  c1 = c1
  c2 = c2
INVARIANTS
  AnswersFitTheirCalls
  StatementsAreAdmitted
PROPERTIES
  EveryRequestAnswered
