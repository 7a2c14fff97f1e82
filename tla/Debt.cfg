\* Two requests at a time on the debts of one user.
SPECIFICATION MCSpec
CONSTANTS
  d1 = d1
  d2 = d2
  t1 = t1
  t2 = t2
  t3 = t3
  s1 = s1
  s2 = s2
  NoRow = NoRow
  Debts = {d1, d2}
  Txs = {t1, t2, t3}
  Sessions = {s1, s2}
  Amounts = {1, 2}
  Half = 8
  UpdateStatuses <- AnyStatus
  EditAmounts = {1}
  UpcomingLimit = 1
  Positions = {1, 2}
  MaxSplits = 2
SYMMETRY Interchange
CHECK_DEADLOCK FALSE
INVARIANTS
  TypeOK
  PaidIsSumOfPayments
  StatusMatchesPaymentAlone
  OutstandingIsCashUnedited
PROPERTIES
  OnlyOpenDebtsArePaid
