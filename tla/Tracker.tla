------------------------------- MODULE Tracker -------------------------------
(***************************************************************************)
(* Installment plans and subscriptions (internal/tracker): what a user     *)
(* pays month by month or week by week.                                    *)
(*                                                                         *)
(* A payment is a database transaction that locks the row first; req[s]    *)
(* holds what it read.  Its transaction (TransactionStore), its entry in   *)
(* the payment history and the advanced row become visible together at     *)
(* COMMIT, in one step.  An update or removal is one statement, which      *)
(* waits for the row and looks at nothing that it replaces.                *)
(*                                                                         *)
(* The wallet and the category are abstracted: one that is missing or not  *)
(* writable makes a request fail.                                          *)
(***************************************************************************)
EXTENDS CalDate

CONSTANTS
  Plans,      \* identifiers of installment plans
  Subs,       \* identifiers of subscriptions
  Txs,        \* identifiers of the transactions that payments make
  Sessions,
  Half,       \* 2^63, the end of int64
  Amounts,    \* the amounts that requests name
  Tenors,     \* the tenors that requests name
  DueDates,   \* the due dates that requests name
  NoRow       \* a row that is not in its table

Trackers == Plans \cup Subs

ASSUME TrackerAssumption ==
  /\ Plans \cap Subs = {}
  /\ Half \in Nat \ {0}
  /\ Amounts \subseteq 1 .. Half - 1
  /\ Tenors \subseteq Nat \ {0}
  /\ DueDates \subseteq Date

Money        == 1 .. Half - 1
PlanStatuses == {"active", "paid_off", "cancelled"}
SubStatuses  == {"active", "paused", "cancelled"}
Cycles       == {"weekly", "monthly"}

(* The CHECKs of the tables; a plan's amount is monthly_amount_minor.      *)
PlanRow == {r \in [total : Money, amount : Money, tenor : Tenors, remaining : Nat,
                   status : PlanStatuses] : r.remaining <= r.tenor}
SubRow  == [amount : Money, cycle : Cycles, due : Date, status : SubStatuses]
Row     == PlanRow \cup SubRow

RowOf(t) == IF t \in Plans THEN PlanRow ELSE SubRow

ASSUME NoRowAssumption == NoRow \notin Row \cup Money \cup Trackers

Idle    == [kind |-> "none"]
Request == {Idle} \cup [kind : {"pay"}, tracker : Trackers, row : Row]

VARIABLES
  row,       \* committed rows of installments and subscriptions
  tx,        \* the amounts of the transactions that payments made
  record,    \* the plan or subscription in whose history a transaction is
  req,       \* the request of a session
  written,   \* the row as its owner last wrote it
  paid       \* how many payments were made since

vars == <<row, tx, record, req, written, paid>>

TypeOK ==
  /\ row     \in [Trackers -> Row \cup {NoRow}]
  /\ tx      \in [Txs -> Money \cup {NoRow}]
  /\ record  \in [Txs -> Trackers \cup {NoRow}]
  /\ req     \in [Sessions -> Request]
  /\ written \in [Trackers -> Row \cup {NoRow}]
  /\ paid    \in [Trackers -> Nat]
  /\ \A t \in Trackers : {row[t], written[t]} \subseteq RowOf(t) \cup {NoRow}

Init ==
  /\ row     = [t \in Trackers |-> NoRow]
  /\ tx      = [x \in Txs |-> NoRow]
  /\ record  = [x \in Txs |-> NoRow]
  /\ req     = [s \in Sessions |-> Idle]
  /\ written = [t \in Trackers |-> NoRow]
  /\ paid    = [t \in Trackers |-> 0]
-----------------------------------------------------------------------------
(* What the handlers accept.                                               *)

(* int64 multiplication wraps around.                                      *)
Wrap(n) == ((n + Half) % (2 * Half)) - Half

(* A faulty variant for the mutation checks: the product may wrap around.  *)
ValidPlanWrapped(total, monthly, tenor) == Wrap(monthly * tenor) = total

ValidateInstallmentPlan(total, monthly, tenor) ==
  /\ monthly <= (Half - 1) \div tenor
  /\ Wrap(monthly * tenor) = total

ResolveInstallmentRemainingAndStatus(tenor, remaining, status) ==
  /\ remaining \in 0 .. tenor
  /\ status = "active" => remaining # 0
  /\ status = "paid_off" => remaining = 0

(* bindInstallment and bindSubscription; what a request leaves out stands  *)
(* for a value that another request names.                                 *)
BoundPlans ==
  {r \in UNION {[total : Money, amount : Amounts, tenor : {n}, remaining : 0 .. n,
                 status : PlanStatuses] : n \in Tenors} :
    /\ ValidateInstallmentPlan(r.total, r.amount, r.tenor)
    /\ ResolveInstallmentRemainingAndStatus(r.tenor, r.remaining, r.status)}
BoundSubs == [amount : Amounts, cycle : Cycles, due : DueDates, status : SubStatuses]

Bound(t) == IF t \in Plans THEN BoundPlans ELSE BoundSubs
-----------------------------------------------------------------------------
(* Payments.                                                               *)

(* A faulty variant: the last payment does not close the plan.             *)
ApplyPaymentStillActive(r) == [r EXCEPT !.remaining = @ - 1]

ApplyInstallmentPayment(r) ==
  [r EXCEPT !.remaining = @ - 1, !.status = IF r.remaining = 1 THEN "paid_off" ELSE @]

AdvanceSubscriptionDueDate(due, cycle) ==
  IF cycle = "weekly" THEN due + 7 ELSE AddMonthsClamped(due, 1)

(* A faulty variant: only cancelled ones are refused.                      *)
PayableUnlessCancelled(t, r) == r.status # "cancelled"

(* ApplyInstallmentPayment and Pay refuse the others.                      *)
Payable(t, r) == r.status = "active" /\ (t \in Plans => r.remaining > 0)

(* The row lock of SELECT ... FOR UPDATE, held until COMMIT or ROLLBACK.   *)
Locked(t) == \E s \in Sessions : req[s].kind = "pay" /\ req[s].tracker = t

(* A faulty variant: Pay reads without FOR UPDATE.                         *)
PayUnlocked(s, t) ==
  /\ req[s] = Idle
  /\ row[t] # NoRow
  /\ Payable(t, row[t])
  /\ req' = [req EXCEPT ![s] = [kind |-> "pay", tracker |-> t, row |-> row[t]]]
  /\ UNCHANGED <<row, tx, record, written, paid>>

(* Pay locks the row and refuses one that is not active; ...               *)
PayLock(s, t) ==
  /\ req[s] = Idle
  /\ row[t] # NoRow
  /\ ~ Locked(t)
  /\ Payable(t, row[t])
  /\ req' = [req EXCEPT ![s] = [kind |-> "pay", tracker |-> t, row |-> row[t]]]
  /\ UNCHANGED <<row, tx, record, written, paid>>

(* ... makes the transaction and its entry in the history, ...             *)
Charge(x, t, amount) ==
  /\ tx[x] = NoRow
  /\ tx'     = [tx EXCEPT ![x] = amount]
  /\ record' = [record EXCEPT ![x] = t]
  /\ paid'   = [paid EXCEPT ![t] = @ + 1]

(* ... and writes the months that remain and the status of a plan, ...     *)
AdvancePlan(t, r) ==
  LET next == ApplyInstallmentPayment(r) IN
  /\ t \in Plans
  /\ row' = [row EXCEPT ![t].remaining = next.remaining, ![t].status = next.status]

(* ... or the next due date of a subscription, as far as the calendar goes.*)
AdvanceSub(t, r) ==
  LET due == AdvanceSubscriptionDueDate(r.due, r.cycle) IN
  /\ t \in Subs
  /\ r.cycle = "monthly" => MonthOf(r.due) < Months
  /\ due \in Date
  /\ row' = [row EXCEPT ![t].due = due]

PayCommit(s, x) ==
  LET t == req[s].tracker
      r == req[s].row
  IN
  /\ req[s] # Idle
  /\ row[t] # NoRow
  /\ Charge(x, t, r.amount)
  /\ AdvancePlan(t, r) \/ AdvanceSub(t, r)
  /\ req' = [req EXCEPT ![s] = Idle]
  /\ UNCHANGED written

(* An error, a lost client or a crash: the transaction is rolled back.     *)
PayFail(s) ==
  /\ req[s] # Idle
  /\ req' = [req EXCEPT ![s] = Idle]
  /\ UNCHANGED <<row, tx, record, written, paid>>
-----------------------------------------------------------------------------
(* What owners write.                                                      *)

Write(t, r) ==
  /\ row'     = [row EXCEPT ![t] = r]
  /\ written' = [written EXCEPT ![t] = r]
  /\ paid'    = [paid EXCEPT ![t] = 0]

Create(t, r) ==
  /\ row[t] = NoRow
  /\ Write(t, r)
  /\ UNCHANGED <<tx, record, req>>

(* Update replaces every column, those that payments advance included.     *)
Update(t, r) ==
  /\ row[t] # NoRow
  /\ ~ Locked(t)
  /\ Write(t, r)
  /\ UNCHANGED <<tx, record, req>>

(* The history goes with the row, the transactions stay.                   *)
Delete(t) ==
  /\ row[t] # NoRow
  /\ ~ Locked(t)
  /\ Write(t, NoRow)
  /\ record' = [x \in Txs |-> IF record[x] = t THEN NoRow ELSE record[x]]
  /\ UNCHANGED <<tx, req>>

(* Transactions have an endpoint of their own (TransactionStore); the      *)
(* entry in the history goes with the transaction.                         *)
DeleteTransaction(x) ==
  /\ tx[x] # NoRow
  /\ tx'     = [tx EXCEPT ![x] = NoRow]
  /\ record' = [record EXCEPT ![x] = NoRow]
  /\ UNCHANGED <<row, req, written, paid>>

Next ==
  \/ \E t \in Trackers :
       \/ \E r \in Bound(t) : Create(t, r) \/ Update(t, r)
       \/ Delete(t)
       \/ \E s \in Sessions : PayLock(s, t)
  \/ \E s \in Sessions : PayFail(s) \/ \E x \in Txs : PayCommit(s, x)
  \/ \E x \in Txs : DeleteTransaction(x)

Spec == Init /\ [][Next]_vars
-----------------------------------------------------------------------------
(* Properties.                                                             *)

(* What ValidateInstallmentPlan and ResolveInstallmentRemainingAndStatus   *)
(* demand of a request stays true of the row, however payments and updates *)
(* follow each other: the total is the monthly amount times the tenor      *)
(* (and not their product in 64 bits), a plan that can be paid has months  *)
(* left, and one that is paid off has none.                                *)
PlansStayValid ==
  \A t \in Plans : row[t] # NoRow =>
    /\ row[t].total = row[t].amount * row[t].tenor
    /\ ResolveInstallmentRemainingAndStatus(row[t].tenor, row[t].remaining, row[t].status)

(* Between two writes of the owner every payment that was made advances    *)
(* the row by exactly one month or cycle, and nothing else does: payments  *)
(* that arrive together are not merged, one that fails leaves nothing, and *)
(* no month of a monthly subscription is left out (AddMonthsClamped).      *)
EveryPaymentCounts ==
  \A t \in Trackers : row[t] # NoRow =>
    LET w == written[t] IN
      IF t \in Plans THEN row[t].remaining = w.remaining - paid[t]
      ELSE IF w.cycle = "weekly" THEN row[t].due = w.due + 7 * paid[t]
      ELSE MonthOf(row[t].due) = MonthOf(w.due) + paid[t]

(* Money moves only for a plan or subscription that is active and costs    *)
(* that amount at the moment the money moves, not merely when Pay looked,  *)
(* even if it is cancelled or gets a new price meanwhile.                  *)
ChargesAreAgreed ==
  [][\A x \in Txs : tx[x] = NoRow /\ tx'[x] # NoRow =>
       LET r == row[record'[x]] IN r.status = "active" /\ tx'[x] = r.amount]_vars
-----------------------------------------------------------------------------
(* What the proofs need besides.                                           *)

(* At most one request holds a row, and what it read is what is committed. *)
OneHolder ==
  \A s, r \in Sessions :
    s # r /\ req[s] # Idle /\ req[r] # Idle => req[s].tracker # req[r].tracker

HeldRowIsCurrent ==
  \A s \in Sessions : req[s] # Idle =>
    /\ row[req[s].tracker] = req[s].row
    /\ Payable(req[s].tracker, req[s].row)

(* Payments do not change how often a subscription is paid.                *)
CyclesAreWritten ==
  \A t \in Trackers : row[t] # NoRow =>
    written[t] # NoRow /\ (t \in Subs => row[t].cycle = written[t].cycle)

IInv ==
  /\ TypeOK
  /\ OneHolder
  /\ HeldRowIsCurrent
  /\ CyclesAreWritten
  /\ PlansStayValid
  /\ EveryPaymentCounts
=============================================================================
