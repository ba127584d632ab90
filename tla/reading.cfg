SPECIFICATION Spec
CONSTANTS
  Clients = {c1, c2}
  UserIds = {u1}
  PostIds = {p1, p2}
  CommentIds = {k1}
  Emails = {e1, e2}
  Texts = {x1}
  Titles = {t1}
  Suffixes = {d1, d2}
  Passwords = {pw, long}
  LongPasswords = {long}
  Salts = {sA, sB}
  Roles = {"admin"}
  RoleArgs = {"admin", "ghost"}
  StatusArgs = {"published"}
  PageArgs <- FirstOrFar
  PerPageArgs <- OneOrTwo
  Ops <- ReadingOps
  Seed <- OneSeed
  DefaultPerPage = 1
  MaxPerPage = 2
  MaxInt = 7
  None = None
  Fresh = Fresh
  Gone = Gone
  u1 = u1
  u2 = u2
  e1 = e1
  e2 = e2
  pw = pw
  sA = sA
  sB = sB
  c1 = c1
  c2 = c2
SYMMETRY ClientSymmetry
INVARIANTS
  AnswersFitTheirCalls
PROPERTIES
  BehavesAtomically
