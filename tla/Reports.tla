------------------------------ MODULE Reports -------------------------------
(***************************************************************************)
(* The read side of the application: reports, dashboard, budget views,     *)
(* wallet analytics, the transaction list and the export.  Each is a query *)
(* of its own over the same tables, with its own copy of the condition     *)
(* that says what a user may see; the state is what the queries read, and  *)
(* changes by committed operations.                                        *)
(*                                                                         *)
(* Amounts are exact, and the database session works in UTC.               *)
(***************************************************************************)
EXTENDS Integers, FiniteSetsExt, Functions

CONSTANTS Users,
          Wallets, OwnerOf,      \* wallets.user_id
          Categories, CategoryOf,\* a row of categories for each
          Ids,                   \* transactions
          Dates,                 \* days, with their month and their ISO week
          MonthOf, WeekOf,
          DaysIn,                \* of each month
          ThisMonth, ThisDay,    \* time.Now()
          Amounts,
          Limits,                \* what a budget may be set to
          None                   \* no row, no wallet, no category

(* What the constants are expected to be: a category has the user and the  *)
(* type of its parent (categories_user_parent_type_fk).                    *)
ReportsConstants ==
  /\ IsFiniteSet(Wallets) /\ IsFiniteSet(Categories) /\ IsFiniteSet(Ids)
  /\ None \notin Categories
  /\ OwnerOf \in [Wallets -> Users]
  /\ \A c \in Categories :
       LET p == CategoryOf[c].parent IN
       /\ CategoryOf[c].user \in Users
       /\ CategoryOf[c].type \in {"income", "expense"}
       /\ p # None => /\ p \in Categories
                      /\ CategoryOf[p].user = CategoryOf[c].user
                      /\ CategoryOf[p].type = CategoryOf[c].type
  /\ MonthOf \in [Dates -> Nat] /\ WeekOf \in [Dates -> 1 .. 53]
  /\ Amounts \cup Limits \subseteq Nat \ {0}

VARIABLES
  tx,       \* transactions
  joined,   \* joined rows of wallet_shares, pairs of a wallet and a user
  limit     \* category_budgets of ThisMonth: the limit of a category

repVars == <<tx, joined, limit>>

Months == {MonthOf[d] : d \in Dates}

(* The row a request may ask for: an income or an expense has a category   *)
(* of its user and its type, a transfer has a second wallet.               *)
Rows ==
  LET Row(u, k, w, t, c, d, n) == [user |-> u, type |-> k, wallet |-> w, to |-> t,
                                   category |-> c, date |-> d, amount |-> n] IN
  {Row(CategoryOf[c].user, CategoryOf[c].type, w, None, c, d, n) :
     c \in Categories, w \in Wallets, d \in Dates, n \in Amounts}
  \cup {Row(u, "transfer", p[1], p[2], None, d, n) :
          u \in Users, p \in {q \in Wallets \X Wallets : q[1] # q[2]}, d \in Dates, n \in Amounts}
  \cup {Row(u, "adjustment", w, None, None, d, n) :
          u \in Users, w \in Wallets, d \in Dates, n \in Amounts}

TypeOK ==
  /\ tx \in [Ids -> Rows \cup {None}]
  /\ joined \subseteq {s \in Wallets \X Users : OwnerOf[s[1]] # s[2]}
  /\ limit \in [Categories -> Limits \cup {None}]

Init ==
  /\ tx = [i \in Ids |-> None]
  /\ joined = {}
  /\ limit = [c \in Categories |-> None]
-----------------------------------------------------------------------------
HasAccess(u, w) == w # None /\ (OwnerOf[w] = u \/ <<w, u>> \in joined)

MayMove(t) == \A w \in {t.wallet, t.to} \ {None} : HasAccess(t.user, w)

Record(i, t) ==
  /\ tx[i] = None /\ MayMove(t)
  /\ tx' = [tx EXCEPT ![i] = t]
  /\ UNCHANGED <<joined, limit>>

Edit(i, t) ==
  /\ tx[i] # None /\ tx[i].user = t.user
  /\ MayMove(tx[i]) /\ MayMove(t)
  /\ tx' = [tx EXCEPT ![i] = t]
  /\ UNCHANGED <<joined, limit>>

Remove(i) ==
  /\ tx[i] # None /\ MayMove(tx[i])
  /\ tx' = [tx EXCEPT ![i] = None]
  /\ UNCHANGED <<joined, limit>>

(* A share becomes joined, or stops being so.                              *)
Share(w, u) ==
  /\ OwnerOf[w] # u
  /\ joined' = IF <<w, u>> \in joined THEN joined \ {<<w, u>>} ELSE joined \cup {<<w, u>>}
  /\ UNCHANGED <<tx, limit>>

(* Create, Update and Delete of a budget: an expense category's.           *)
SetBudget(c, l) ==
  /\ CategoryOf[c].type = "expense" /\ l # limit[c]
  /\ limit' = [limit EXCEPT ![c] = l]
  /\ UNCHANGED <<tx, joined>>
-----------------------------------------------------------------------------
(* What a query selects.                                                   *)

OpenRows == {i \in Ids : tx[i] # None}

SumOf(S) == SumFunction([i \in S |-> tx[i].amount])

In(m)       == {i \in OpenRows : MonthOf[tx[i].date] = m}
OfType(k, S) == {i \in S : tx[i].type = k}

Income(S)  == SumOf(OfType("income", S))
Expense(S) == SumOf(OfType("expense", S))

(* The reports, the list and the export look at both wallets of a row ...  *)
Accessible(u) ==
  {i \in OpenRows : tx[i].user = u \/ HasAccess(u, tx[i].wallet) \/ HasAccess(u, tx[i].to)}

(* A faulty variant: the wallets shared with the user are left out.        *)
OwnOnDashboard(u) == {i \in OpenRows : tx[i].user = u \/ OwnerOf[tx[i].wallet] = u}

(* ... the dashboard at the first one.                                     *)
OnDashboard(u) == {i \in OpenRows : tx[i].user = u \/ HasAccess(u, tx[i].wallet)}

(* Categories below a category, itself included (at most three levels).    *)
Subtree(c) ==
  LET Up(d) == IF d = None THEN None ELSE CategoryOf[d].parent
  IN {d \in Categories : c \in {d, Up(d), Up(Up(d))}}
-----------------------------------------------------------------------------
(* internal/report.                                                        *)

(* calculateChangePercent against the 5% the rows are judged by.           *)
Change(now, before) ==
  LET grown == 20 * (now - before) IN
  CASE before > 0 /\ grown > before        -> "up"
    [] before > 0 /\ grown < 0 - before    -> "down"
    [] before < 0 /\ grown < before        -> "up"
    [] before < 0 /\ grown > 0 - before    -> "down"
    [] OTHER                               -> "flat"

(* The query groups by the name of the category, whoever's it is.          *)
GetIncomeExpenseAggregation(u, k, m) ==
  LET S    == OfType(k, Accessible(u) \cap In(m))
      N(i) == CategoryOf[tx[i].category].name
  IN [n \in {N(i) : i \in S} |-> SumOf({i \in S : N(i) = n})]

Lookup(f, n) == IF n \in DOMAIN f THEN f[n] ELSE 0

(* IncomeReport and ExpenseReport.                                         *)
Report(u, k, m) ==
  LET now    == GetIncomeExpenseAggregation(u, k, m)
      before == GetIncomeExpenseAggregation(u, k, m - 1)
  IN [total |-> SumFunction(now),
      count |-> Cardinality(DOMAIN now),
      rows  |-> {[name |-> n, amount |-> now[n], previous |-> Lookup(before, n),
                  change |-> Change(now[n], Lookup(before, n))] : n \in DOMAIN now}]

GetWeeklyCashflow(u, m) ==
  LET S == Accessible(u) \cap In(m) IN
  [w \in {WeekOf[tx[i].date] : i \in OfType("income", S) \cup OfType("expense", S)} |->
     LET W == {i \in S : WeekOf[tx[i].date] = w}
     IN [income |-> Income(W), expense |-> Expense(W)]]

(* Four rows: the weeks of this month with the same remainder are added,   *)
(* of the previous month the last such week counts; the weeks divisible by *)
(* five have no row.                                                       *)
CashflowReport(u, m) ==
  LET now      == GetWeeklyCashflow(u, m)
      before   == GetWeeklyCashflow(u, m - 1)
      Net(f, w)  == f[w].income - f[w].expense
      Like(f, r) == {w \in DOMAIN f : w % 5 = r}
      income   == SumFunction([w \in DOMAIN now |-> now[w].income])
      expense  == SumFunction([w \in DOMAIN now |-> now[w].expense])
  IN [income |-> income, expense |-> expense,
      rows   |-> [r \in 1 .. 4 |->
        LET net      == SumFunction([w \in Like(now, r) |-> Net(now, w)])
            previous == IF Like(before, r) = {} THEN 0 ELSE Net(before, Max(Like(before, r)))
        IN [net |-> net, previous |-> previous, change |-> Change(net, previous)]]]

(* OverviewReport: the first row of each report, the largest.              *)
Overview(u, m) ==
  LET Top(k) == {r \in Report(u, k, m).rows : \A s \in Report(u, k, m).rows : s.amount <= r.amount}
  IN [income |-> CashflowReport(u, m).income, expense |-> CashflowReport(u, m).expense,
      top |-> [k \in {"income", "expense"} |-> Top(k)]]
-----------------------------------------------------------------------------
(* internal/budget.  A budget counts its user's own expenses in the        *)
(* category and below, on whatever wallet.                                 *)

BudgetsOf(u) == {c \in Categories : CategoryOf[c].user = u /\ limit[c] # None}

(* A faulty variant: the categories below are left out.                    *)
SpentDirectlyOn(c) ==
  SumOf({i \in OfType("expense", In(ThisMonth)) :
           tx[i].user = CategoryOf[c].user /\ tx[i].category = c})

(* The sum every budget query computes.                                    *)
SpentOn(c) ==
  SumOf({i \in OfType("expense", In(ThisMonth)) :
           tx[i].user = CategoryOf[c].user /\ tx[i].category \in Subtree(c)})

BudgetList(u) == [c \in BudgetsOf(u) |-> [limit |-> limit[c], spent |-> SpentOn(c)]]

(* The thresholds of ListAlerts, of the alert feed and of ListReport.      *)
Near(b) == 100 * b.spent >= 80 * b.limit
Over(b) == b.spent >= b.limit

ListAlerts(u) ==
  {[category |-> c, severity |-> IF Over(BudgetList(u)[c]) THEN "danger" ELSE "warning"] :
     c \in {d \in BudgetsOf(u) : Near(BudgetList(u)[d])}}

FeedAlerts(u) ==
  LET b == BudgetList(u) IN
  {[category |-> c, severity |-> "warning"] : c \in {d \in BudgetsOf(u) : Near(b[d]) /\ ~Over(b[d])}}
  \cup {[category |-> c, severity |-> "danger"] : c \in {d \in BudgetsOf(u) : Over(b[d])}}

ListReport(u) ==
  LET b        == BudgetList(u)
      left     == DaysIn[ThisMonth] - ThisDay
      Allow(c) == IF left > 0 /\ b[c].limit > b[c].spent
                  THEN (b[c].limit - b[c].spent) \div left ELSE 0
      total    == SumFunction([c \in BudgetsOf(u) |-> b[c].spent])
  IN [exceeded |-> {c \in BudgetsOf(u) : Over(b[c])},
      warning  |-> {c \in BudgetsOf(u) : Near(b[c]) /\ ~Over(b[c])},
      limit    |-> SumFunction([c \in BudgetsOf(u) |-> b[c].limit]),
      spent    |-> total,
      daily    |-> SumFunction([c \in BudgetsOf(u) |-> Allow(c)]),
      forecast |-> total + (total * left) \div ThisDay]
-----------------------------------------------------------------------------
(* internal/dashboard.                                                     *)

(* budgetSummary: one statement for all budgets.                           *)
DashboardBudget(u) ==
  [limit |-> SumFunction([c \in BudgetsOf(u) |-> limit[c]]),
   spent |-> SumFunction([c \in BudgetsOf(u) |-> SpentOn(c)])]

Summary(u, m) ==
  LET S == OnDashboard(u) \cap In(m)
  IN [income |-> Income(S), expense |-> Expense(S)]

CashflowTrend(u) ==
  [m \in Months |-> LET S == OnDashboard(u) \cap In(m)
                    IN [income |-> Income(S), expense |-> Expense(S)]]

(* By the root of the user's own category tree; what is in no tree of the  *)
(* user's is uncategorized.                                                *)
ExpenseDistribution(u, m) ==
  LET S       == OfType("expense", OnDashboard(u) \cap In(m))
      Root(i) == {c \in Categories : /\ CategoryOf[c].user = u /\ CategoryOf[c].parent = None
                                     /\ tx[i].category \in Subtree(c)}
  IN [r \in {Root(i) : i \in S} |-> SumOf({i \in S : Root(i) = r})]

(* For this month: the daily average is rounded down first.                *)
Forecast(u) ==
  LET spent    == Expense(OnDashboard(u) \cap In(ThisMonth))
      forecast == (spent \div ThisDay) * DaysIn[ThisMonth]
      most     == DashboardBudget(u).limit
  IN [spent |-> spent, forecast |-> forecast,
      status |-> IF most > 0 /\ forecast > most THEN "overbudget" ELSE "safe"]
-----------------------------------------------------------------------------
(* wallet.GetAnalytics: the second query, for transfers into the wallet,   *)
(* is read into the same fields as the first.                              *)
GetAnalytics(w, m) ==
  LET out  == {i \in In(m) : tx[i].wallet = w}
      into == {i \in OfType("transfer", In(m)) : tx[i].to = w}
  IN [inflow |-> SumOf(into), outflow |-> Expense(out), count |-> Cardinality(into)]

(* transaction.List and export.GetCSVRows.                                 *)
List(u, m)       == Accessible(u) \cap In(m)
ListUnder(u, c)  == {i \in Accessible(u) : tx[i].category \in Subtree(c) /\ CategoryOf[c].user = u}
GetCSVRows(u, m) == {[id |-> i, row |-> tx[i]] : i \in Accessible(u) \cap In(m)}
-----------------------------------------------------------------------------
Next ==
  \/ \E i \in Ids, t \in Rows : Record(i, t) \/ Edit(i, t)
  \/ \E i \in Ids : Remove(i)
  \/ \E w \in Wallets, u \in Users : Share(w, u)
  \/ \E c \in Categories, l \in Limits \cup {None} : SetBudget(c, l)

Spec == Init /\ [][Next]_repVars
-----------------------------------------------------------------------------
(* What a user earned and spent in a month is the same figure wherever it  *)
(* is shown: income and expense report, cash flow report and overview,     *)
(* dashboard and its trend, distribution and forecast, the list and the    *)
(* export; and it is what left the wallets the user may look into, plus    *)
(* the user's own rows on wallets that have become inaccessible.           *)
ReportsAgree ==
  \A u \in Users, m \in Months :
    LET s == Summary(u, m)
        d == ExpenseDistribution(u, m)
        c == CashflowReport(u, m)
        mine == {w \in Wallets : HasAccess(u, w)}
        lost == {i \in In(m) : tx[i].user = u /\ tx[i].wallet \notin mine}
        Exported(k) == LET R == {r \in GetCSVRows(u, m) : r.row.type = k}
                       IN SumFunction([r \in R |-> r.row.amount])
    IN /\ s = CashflowTrend(u)[m]
       /\ s = [income |-> Report(u, "income", m).total, expense |-> Report(u, "expense", m).total]
       /\ s = [income |-> c.income, expense |-> c.expense]
       /\ s = [income |-> Overview(u, m).income, expense |-> Overview(u, m).expense]
       /\ s = [income |-> Exported("income"), expense |-> Exported("expense")]
       /\ s = [income |-> Income(List(u, m)), expense |-> Expense(List(u, m))]
       /\ s.expense = SumFunction(d)
       /\ m = ThisMonth => s.expense = Forecast(u).spent
       /\ s.expense = SumFunction([w \in mine |-> GetAnalytics(w, m).outflow]) + Expense(lost)

(* Budget list, budget report, dashboard, alert list and alert feed judge  *)
(* the same budgets by the same spending, which is what the transaction    *)
(* list shows under the category, and for a root category its slice of the *)
(* distribution.                                                           *)
BudgetViewsAgree ==
  \A u \in Users :
    LET r == ListReport(u)
        d == ExpenseDistribution(u, ThisMonth)
    IN /\ DashboardBudget(u) = [limit |-> r.limit, spent |-> r.spent]
       /\ ListAlerts(u) = FeedAlerts(u)
       /\ ListAlerts(u) = {[category |-> c, severity |-> "danger"] : c \in r.exceeded}
                          \cup {[category |-> c, severity |-> "warning"] : c \in r.warning}
       /\ \A c \in BudgetsOf(u) :
            /\ SpentOn(c) = Expense(ListUnder(u, c) \cap In(ThisMonth))
            /\ CategoryOf[c].parent = None => SpentOn(c) = Lookup(d, {c})
=============================================================================
