\* The deletion of an account after somebody edited the transaction of a debt.
SPECIFICATION Spec
CONSTANTS
  Explored = {"accounts"}
  None = None
  Absent = Absent
  ann = ann
  bob = bob
  a1 = a1
  b1 = b1
  b2 = b2
  food = food
  snacks = snacks
  dining = dining
  pay = pay
  i1 = i1
  i2 = i2
  Twins = {t1, t2}
  Nodes = {n1, n2, n3}
  NoParent = None
  Items = {i1, i2}
  UserOf <- MCUserOf
  LastDay = 3
  WeekDays = 2
  MaxEdits = 2
  Budgeted = {food, snacks}
  Parent <- MCParent
  Limits = {5}
  Amounts = {4}
  MaxSpent = 4
  Users = {ann, bob}
  Wallets = {a1, b1, b2}
  OwnerOf <- MCOwnerOf
  Goals = {g1}
  Debts = {d1}
  MaxJoined = 1
  MaxRows = 2
  Reported = {a1, b1}
  Categories = {food, snacks, dining, pay}
  CategoryOf <- MCCategoryOf
  Dates = {1, 2, 3}
  MonthOf <- MCMonthOf
  WeekOf <- MCWeekOf
  DaysIn <- MCDaysIn
  ThisMonth = 2
  ThisDay = 20
  Clients = {ann}
  Burst = 2
  Keys = {ann}
  Window = 2
  MaxTime = 6
  Exchanges = {x1}
  Cap = 2
  MaxBody = 4
  Retention = 1
  LastFile = 3
  Limiters = {l1, l2, l3, l4}
INVARIANTS
  AccountsDeletable
