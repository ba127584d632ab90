SPECIFICATION Spec
CONSTANTS
  Clients = {c1, c2}
  UserIds = {u1, u2}
  PostIds = {p1}
  CommentIds = {k1}
  Emails = {e1, e2}
  Texts = {x1}
  Titles = {t1}
  Suffixes = {d1}
  Passwords = {pw, long}
  LongPasswords = {long}
  Salts = {sA, sB}
  Roles = {"admin"}
  RoleArgs = {"admin"}
  StatusArgs = {"draft"}
  PageArgs <- Defaults
  PerPageArgs <- Defaults
  Ops <- AccountOps
  Seed <- OneSeed
  DefaultPerPage = 2
  MaxPerPage = 2
  MaxInt = 7
  None = None
  Fresh = Fresh
  Gone = Gone
  u1 = u1
  u2 = u2
  e1 = e1
  e2 = e2
  pw = pw
  sA = sA
  sB = sB
  c1 = c1
  c2 = c2
SYMMETRY ClientSymmetry
INVARIANTS
  AnswersFitTheirCalls
  TypeOK
  StatementsAreAdmitted
  UniqueKeys
  CredentialsUsable
PROPERTIES
  RefusalsLeaveNoTrace
  BehavesAtomically
