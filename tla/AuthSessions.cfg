\* Two requests at a time on one account.
SPECIFICATION MCSpec
CONSTANTS
  t1 = t1
  t2 = t2
  t3 = t3
  t4 = t4
  k1 = k1
  k2 = k2
  p1 = p1
  p2 = p2
  p3 = p3
  a = a
  b = b
  Requests = {a, b}
  Tokens = {t1, t2, t3, t4}
  Links = {k1, k2}
  Passwords = {p1, p2, p3}
  NoAccount = NoAccount
  Deleted = Deleted
  NoSession = NoSession
  Fresh = Fresh
  Form = Form
SYMMETRY Interchange
CHECK_DEADLOCK FALSE
INVARIANTS
  TypeOK
  OneSessionPerLogin
  NothingOutlivesAccount
  SessionsFollowPasswordAlone
PROPERTIES
  ResetLinkOnce
