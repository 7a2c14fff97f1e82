------------------------------ MODULE DebtViews ------------------------------
(***************************************************************************)
(* What is shown of the debts of a user: the split bills                   *)
(* (internal/splitbill), the debt report (internal/report), the upcoming   *)
(* debts of the dashboard and the overdue debts of the alert feed.  Each   *)
(* has a query of its own over the rows of Debt.                           *)
(*                                                                         *)
(* Due dates are the argument of the two views that select by them; names, *)
(* other dates, and the orders and pages of the other lists are left out.  *)
(***************************************************************************)
EXTENDS Debt

CONSTANTS
  UpcomingLimit,   \* the LIMIT of the dashboard's query, 10
  Positions        \* in the order of its ORDER BY

ASSUME ViewsAssumption == UpcomingLimit \in Nat /\ Positions \subseteq Nat

Opened     == {d \in Debts : debt[d] # NoRow}
StillOwed  == {d \in Opened : debt[d].status \in {"open", "partial"}}
Cancelled  == {d \in Opened : debt[d].status = "cancelled"}
TotalLeft(ds) == SumFunctionOnSet(Remaining, ds)
-----------------------------------------------------------------------------
(* Split bills: there is no table of them, every transaction that debts    *)
(* name as their origination is one.                                       *)

SplitBills == {t \in Txs : OpenedBy(t) # {}}

(* bool_or over the debts of a bill, and its label.                        *)
StatusLabel(t) == IF OpenedBy(t) \cap StillOwed # {} THEN "ongoing" ELSE "settled"

Summary(t) ==
  [participants |-> Cardinality(OpenedBy(t)),
   settled      |-> Cardinality(OpenedBy(t) \ StillOwed),
   owed         |-> SumFunctionOnSet(Principal, OpenedBy(t)),
   remaining    |-> TotalLeft(OpenedBy(t) \cap StillOwed),
   status       |-> StatusLabel(t)]

(* List, with the bills that havingForStatus keeps for a status ("": all). *)
HavingForStatus(filter) == {t \in SplitBills : filter \in {"", StatusLabel(t)}}

SplitBillList(filter) == [t \in HavingForStatus(filter) |-> Summary(t)]

(* A faulty variant: a cancelled participant keeps what was left.          *)
SplitBillDetailAll(t) == [d \in OpenedBy(t) |-> Remaining[d]]

(* Get: what each participant still owes, nothing once cancelled.          *)
SplitBillDetail(t) ==
  [d \in OpenedBy(t) |-> IF debt[d].status = "cancelled" THEN 0 ELSE Remaining[d]]
-----------------------------------------------------------------------------
(* GetDebts: every debt of the user, whatever its status and month.        *)
GetDebts == [d \in Opened |->
  [type |-> debt[d].type, remaining |-> Remaining[d], status |-> debt[d].status]]

(* The totals count what was left of cancelled debts, and open_count all   *)
(* debts: no debt has the status "closed" or "overdue" that the code       *)
(* compares with.                                                          *)
DebtReport ==
  LET rows == GetDebts
      of(type) == {d \in DOMAIN rows : rows[d].type = type} IN
  [payable    |-> TotalLeft(of("payable")),
   receivable |-> TotalLeft(of("receivable")),
   open       |-> Cardinality(DOMAIN rows),
   watch      |-> {d \in DOMAIN rows : rows[d].status \in {"open", "partial"}}]

(* The debts that fall due this month, each with its position by due date  *)
(* and, on one day, with the newest first.                                 *)
DueOrders == UNION {Injection(S, Positions) : S \in SUBSET Debts}

(* A faulty variant: the limit comes before the status.                    *)
UpcomingDebtsLimitFirst(order) ==
  LET Before(d) == {e \in DOMAIN order : order[e] < order[d]}
  IN [d \in {e \in DOMAIN order \cap StillOwed : Cardinality(Before(e)) < UpcomingLimit} |-> Remaining[d]]

(* The dashboard's: the first of them that are still owed.                 *)
UpcomingDebts(order) ==
  LET owed == DOMAIN order \cap StillOwed
      Before(d) == {e \in owed : order[e] < order[d]}
  IN [d \in {e \in owed : Cardinality(Before(e)) < UpcomingLimit} |-> Remaining[d]]

(* The alert feed's: only what the user owes.                              *)
ListOverdueDebts(due) == {d \in due \cap StillOwed : debt[d].type = "payable"}
-----------------------------------------------------------------------------
(* "A split is ongoing while any participant debt is open/partial, else    *)
(* settled" (docs/API_CONTRACT.md:106): a bill is ongoing exactly while a  *)
(* participant is shown to owe something, and its list entry and its page  *)
(* name the same sum.                                                      *)
BillsAgree ==
  LET bills == SplitBillList("") IN
  \A t \in SplitBills :
    LET left == SplitBillDetail(t) IN
    /\ bills[t].remaining = SumFunction(left)
    /\ (bills[t].status = "ongoing") = (\E d \in OpenedBy(t) : left[d] > 0)

(* What is owed is told by statuses in some views and by amounts in others *)
(* and is the same: the ongoing bills add up to the rows that the report   *)
(* watches, which are those with something left unless they are cancelled; *)
(* the feed warns of those the user has to pay, and the dashboard names    *)
(* them as the report does and leaves one out only when it shows           *)
(* UpcomingLimit that are due before.  Until a debt is cancelled (see      *)
(* CancelledIsInactive) the totals of the report are that sum, too.        *)
OwedAgree ==
  LET bills == SplitBillList("ongoing")
      rows  == GetDebts
      owed  == DebtReport.watch
      total == SumFunction([d \in owed |-> rows[d].remaining]) IN
  /\ SumFunction([t \in DOMAIN bills |-> bills[t].remaining]) = total
  /\ \A d \in DOMAIN rows :
       rows[d].status # "cancelled" => (d \in owed <=> rows[d].remaining > 0)
  /\ ListOverdueDebts(Debts) = {d \in owed : rows[d].type = "payable"}
  /\ \A order \in DueOrders :
       LET upcoming == UpcomingDebts(order)
           due      == DOMAIN order \cap owed IN
       /\ DOMAIN upcoming \subseteq due
       /\ \A d \in DOMAIN upcoming : upcoming[d] = rows[d].remaining
       /\ \A d \in due \ DOMAIN upcoming :
            /\ Cardinality(DOMAIN upcoming) = UpcomingLimit
            /\ \A e \in DOMAIN upcoming : order[e] < order[d]
  /\ Cancelled = {} => DebtReport.payable + DebtReport.receivable = total

DebtViewsAgree == BillsAgree /\ OwedAgree

(* "Cannot be paid or counted as active debt" (docs/API_CONTRACT.md:191):  *)
(* a cancelled debt is neither among the report's active debts nor in its  *)
(* totals of what is left to be paid and received (DebtReport).            *)
CancelledIsInactive ==
  LET active == Opened \ Cancelled IN
  /\ DebtReport.open <= Cardinality(active)
  /\ DebtReport.payable + DebtReport.receivable = TotalLeft(active)
=============================================================================
