\* Two requests at a time on one installment plan and one subscription.
SPECIFICATION Spec
CONSTANTS
  p1 = p1
  u1 = u1
  x1 = x1
  x2 = x2
  s1 = s1
  s2 = s2
  NoRow = NoRow
  Plans = {p1}
  Subs = {u1}
  Txs = {x1, x2}
  Sessions = {s1, s2}
  Half = 4
  Amounts = {1, 3}
  Tenors = {2, 3}
  DueDates <- LateJanuary
  Months = 4
  MonthStart <- FourMonths
SYMMETRY Interchange
INVARIANTS
  TypeOK
  PlansStayValid
  EveryPaymentCounts
PROPERTIES
  ChargesAreAgreed
