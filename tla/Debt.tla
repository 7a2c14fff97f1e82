-------------------------------- MODULE Debt --------------------------------
(***************************************************************************)
(* Debts and their payments (internal/debt), and the split bills that      *)
(* open several debts over one expense (internal/splitbill).               *)
(*                                                                         *)
(* req[s] is the request that session s serves, where it is more than one  *)
(* statement: an update reads the debt and writes it later, with nothing   *)
(* held in between; a payment is a transaction that locks the debt's row.  *)
(* Opening a debt or a split bill only inserts rows, which nobody sees     *)
(* before COMMIT, and is one step.                                         *)
(*                                                                         *)
(* The wallet and the categories are abstracted: one that is missing or    *)
(* not writable makes the request fail, which Fail does at any point.      *)
(***************************************************************************)
EXTENDS Integers, SequencesExt

CONSTANTS
  Debts, Txs,       \* identifiers of debts and of transactions
  Sessions,
  Amounts,          \* the amounts that requests name
  Half,             \* 2^63, the end of int64
  UpdateStatuses,   \* the statuses that updates name; "" keeps the status read
  EditAmounts,      \* the amounts that edits of transactions name
  MaxSplits,
  NoRow             \* a row that is not in its table

Statuses == {"open", "partial", "paid_off", "cancelled"}

ASSUME DebtAssumption ==
  /\ Half \in Nat \ {0}
  /\ Amounts \subseteq 1 .. Half - 1
  /\ EditAmounts \subseteq 1 .. Half - 1
  /\ UpdateStatuses \subseteq Statuses \cup {""}
  /\ MaxSplits \in Nat

Money == 0 .. Half - 1

DebtRow ==
  {r \in [type : {"receivable", "payable"}, principal : Money \ {0}, paid : Money,
          status : Statuses, origin : Txs] : r.paid <= r.principal}
TxRow      == [type : {"income", "expense"}, amount : Money \ {0}]
PaymentRow == [debt : Debts, amount : Money \ {0}]

ASSUME NoRowAssumption == NoRow \notin DebtRow \cup TxRow \cup PaymentRow

Idle == [kind |-> "none"]

Request ==
       {Idle}
  \cup [kind : {"update"}, debt : Debts, status : Statuses]
  \cup [kind : {"pay"}, debt : Debts, amount : Money \ {0}, paid : Money, status : Statuses]

VARIABLES
  debt,      \* committed rows of debts
  tx,        \* committed rows of transactions
  payment,   \* committed rows of debt_payments, by their transaction_id
  req        \* the request of a session

vars == <<debt, tx, payment, req>>

TypeOK ==
  /\ debt    \in [Debts -> DebtRow \cup {NoRow}]
  /\ tx      \in [Txs -> TxRow \cup {NoRow}]
  /\ payment \in [Txs -> PaymentRow \cup {NoRow}]
  /\ req     \in [Sessions -> Request]

Init ==
  /\ debt    = [d \in Debts |-> NoRow]
  /\ tx      = [t \in Txs |-> NoRow]
  /\ payment = [t \in Txs |-> NoRow]
  /\ req     = [s \in Sessions |-> Idle]
-----------------------------------------------------------------------------
(* The arithmetic of service.go.                                           *)

StatusForAmounts(principal, paid) ==
  IF paid = 0 THEN "open" ELSE IF paid = principal THEN "paid_off" ELSE "partial"

(* ResolveStatus accepts status st for the amounts of row r.               *)
Resolves(r, st) == st \in {"cancelled", StatusForAmounts(r.principal, r.paid)}

(* A faulty variant for the mutation checks: overpayments are accepted.    *)
PayableAnyAmount(r, a) ==
  /\ Resolves(r, r.status)
  /\ r.status \notin {"cancelled", "paid_off"}

(* ApplyPayment accepts amount a.                                          *)
Payable(r, a) ==
  /\ Resolves(r, r.status)
  /\ r.status \notin {"cancelled", "paid_off"}
  /\ a <= r.principal - r.paid

(* A faulty variant: paying back looks like lending again.                 *)
TransactionTypeForSwapped(type, action) ==
  IF type = "receivable" THEN "expense" ELSE "income"

TransactionTypeFor(type, action) ==
  IF (type = "receivable") = (action = "origination") THEN "expense" ELSE "income"

(* The total of the splits as Go's int64 adds them up: modulo 2^64.        *)
SplitTotal(amounts) ==
  ((SumFunction(amounts) + Half) % (2 * Half)) - Half

(* A faulty variant: only the splits one by one are compared.              *)
ValidSplitEach(amounts, total) == \A i \in DOMAIN amounts : amounts[i] <= total

ValidSplit(amounts, total) == SplitTotal(amounts) <= total
-----------------------------------------------------------------------------
UnusedTx(t)   == tx[t] = NoRow /\ payment[t] = NoRow
NewDebt(type, principal, t) ==
  [type |-> type, principal |-> principal, paid |-> 0, status |-> "open", origin |-> t]

(* The row lock of SELECT ... FOR UPDATE, held until COMMIT or ROLLBACK.   *)
Locked(d) == \E s \in Sessions : req[s].kind = "pay" /\ req[s].debt = d

Begin(s, r) == req[s] = Idle /\ req' = [req EXCEPT ![s] = r]

Finish(s) == req' = [req EXCEPT ![s] = Idle]

(* Create: the origination transaction and the debt.                       *)
Create(d, t, type, principal) ==
  /\ debt[d] = NoRow /\ UnusedTx(t)
  /\ tx'   = [tx EXCEPT ![t] = [type   |-> TransactionTypeFor(type, "origination"),
                                amount |-> principal]]
  /\ debt' = [debt EXCEPT ![d] = NewDebt(type, principal, t)]
  /\ UNCHANGED <<payment, req>>

(* SplitExpense: one expense, and a receivable over it for each split.     *)
SplitExpense(t, total, amounts, ds) ==
  /\ UnusedTx(t)
  /\ \A i \in DOMAIN ds : debt[ds[i]] = NoRow
  /\ ValidSplit(amounts, total)
  /\ tx'   = [tx EXCEPT ![t] = [type |-> "expense", amount |-> total]]
  /\ debt' = [d \in Debts |->
       IF \E i \in DOMAIN ds : ds[i] = d
       THEN NewDebt("receivable", amounts[CHOOSE i \in DOMAIN ds : ds[i] = d], t)
       ELSE debt[d]]
  /\ UNCHANGED <<payment, req>>

(* Update reads the debt without a lock and checks the status ...          *)
UpdateRead(s, d, st) ==
  /\ debt[d] # NoRow
  /\ LET next == IF st = "" THEN debt[d].status ELSE st IN
       /\ Resolves(debt[d], next)
       /\ Begin(s, [kind |-> "update", debt |-> d, status |-> next])
  /\ UNCHANGED <<debt, tx, payment>>

(* ... and writes it in a statement of its own.                            *)
UpdateWrite(s) ==
  LET d == req[s].debt IN
  /\ req[s].kind = "update"
  /\ ~ Locked(d)
  /\ debt' = [debt EXCEPT ![d].status = req[s].status]
  /\ Finish(s)
  /\ UNCHANGED <<tx, payment>>

(* Delete cancels, whatever the debt's status and payments.                *)
Delete(d) ==
  /\ debt[d] # NoRow
  /\ ~ Locked(d)
  /\ debt' = [debt EXCEPT ![d].status = "cancelled"]
  /\ UNCHANGED <<tx, payment, req>>

(* A faulty variant: SELECT without FOR UPDATE.                            *)
PayReadUnlocked(s, d, a) ==
  /\ debt[d] # NoRow
  /\ Payable(debt[d], a)
  /\ LET paid == debt[d].paid + a IN
       Begin(s, [kind |-> "pay", debt |-> d, amount |-> a, paid |-> paid,
                 status |-> StatusForAmounts(debt[d].principal, paid)])
  /\ UNCHANGED <<debt, tx, payment>>

(* Pay locks the debt, checks the amount and computes the row to write ... *)
PayLock(s, d, a) ==
  /\ debt[d] # NoRow
  /\ ~ Locked(d)
  /\ Payable(debt[d], a)
  /\ LET paid == debt[d].paid + a IN
       Begin(s, [kind |-> "pay", debt |-> d, amount |-> a, paid |-> paid,
                 status |-> StatusForAmounts(debt[d].principal, paid)])
  /\ UNCHANGED <<debt, tx, payment>>

(* A faulty variant: the status is left as it was.                         *)
PayCommitAmountOnly(s, t) ==
  LET r == req[s] IN
  /\ r.kind = "pay"
  /\ UnusedTx(t)
  /\ tx'      = [tx EXCEPT ![t] = [type   |-> TransactionTypeFor(debt[r.debt].type, "payment"),
                                   amount |-> r.amount]]
  /\ payment' = [payment EXCEPT ![t] = [debt |-> r.debt, amount |-> r.amount]]
  /\ debt'    = [debt EXCEPT ![r.debt].paid = r.paid]
  /\ Finish(s)

(* ... then inserts the transaction and the payment, and updates the debt. *)
PayCommit(s, t) ==
  LET r == req[s] IN
  /\ r.kind = "pay"
  /\ UnusedTx(t)
  /\ tx'      = [tx EXCEPT ![t] = [type   |-> TransactionTypeFor(debt[r.debt].type, "payment"),
                                   amount |-> r.amount]]
  /\ payment' = [payment EXCEPT ![t] = [debt |-> r.debt, amount |-> r.amount]]
  /\ debt'    = [debt EXCEPT ![r.debt].paid = r.paid, ![r.debt].status = r.status]
  /\ Finish(s)

(* An error, a lost client or a crash: the transaction is rolled back.     *)
Fail(s) ==
  /\ req[s] # Idle
  /\ Finish(s)
  /\ UNCHANGED <<debt, tx, payment>>

(* Transactions have their own endpoints (TransactionStore), which do not  *)
(* know of debts.  The foreign keys of debts and debt_payments refuse to   *)
(* delete a transaction made here, so only an edit reaches it.             *)
EditTransaction(t, type, a) ==
  /\ tx[t] # NoRow
  /\ tx' = [tx EXCEPT ![t] = [type |-> type, amount |-> a]]
  /\ UNCHANGED <<debt, payment, req>>

CreateSplit(t, total) ==
  \E n \in 1 .. MaxSplits :
    \E amounts \in [1 .. n -> Amounts], ds \in [1 .. n -> Debts] :
      /\ IsInjective(ds)
      /\ SplitExpense(t, total, amounts, ds)

Next ==
  \/ \E d \in Debts, t \in Txs, a \in Amounts :
       \E type \in {"receivable", "payable"} : Create(d, t, type, a)
  \/ \E t \in Txs, a \in Amounts : CreateSplit(t, a)
  \/ \E s \in Sessions, d \in Debts :
       \/ \E st \in UpdateStatuses : UpdateRead(s, d, st)
       \/ \E a \in Amounts : PayLock(s, d, a)
  \/ \E d \in Debts : Delete(d)
  \/ \E s \in Sessions : UpdateWrite(s) \/ Fail(s) \/ \E t \in Txs : PayCommit(s, t)
  \/ \E t \in Txs, type \in {"income", "expense"}, a \in EditAmounts :
       EditTransaction(t, type, a)

Spec == Init /\ [][Next]_vars
-----------------------------------------------------------------------------
(* Properties.                                                             *)

Paid(d)    == {t \in Txs : payment[t] # NoRow /\ payment[t].debt = d}
OpenedBy(t) == {d \in Debts : debt[d] # NoRow /\ debt[d].origin = t}

(* The columns that are added up; nothing where there is no row.           *)
Amount    == [t \in Txs |-> IF payment[t] = NoRow THEN 0 ELSE payment[t].amount]
Principal == [d \in Debts |-> IF debt[d] = NoRow THEN 0 ELSE debt[d].principal]
Remaining == [d \in Debts |-> IF debt[d] = NoRow THEN 0 ELSE debt[d].principal - debt[d].paid]

(* debts.paid_amount_minor is the sum of the payments that debt_payments   *)
(* records: no payment is lost or counted twice when several arrive, fail  *)
(* or meet edits of the same debt.  (That it is never more than was owed   *)
(* is part of DebtRow, as it is a CHECK of the table.)                     *)
PaidIsSumOfPayments ==
  \A d \in Debts : debt[d] # NoRow => debt[d].paid = SumFunctionOnSet(Amount, Paid(d))

(* ApplyPayment's errInactiveDebt: a payment is recorded only against a    *)
(* debt that is still open, at the moment it is recorded and not merely at *)
(* the moment it was checked, even if the debt is cancelled, settled or    *)
(* edited by another request in between.                                   *)
OnlyOpenDebtsArePaid ==
  [][\A t \in Txs : payment[t] = NoRow /\ payment'[t] # NoRow =>
       debt[payment'[t].debt].status \in {"open", "partial"}]_vars

(* ResolveStatus: "debt status does not match payment progress" is what    *)
(* the code refuses, so a debt that is not cancelled has the status of its *)
(* amounts; a debt with any other can no longer be paid.                   *)
StatusMatchesPayment ==
  \A d \in Debts : debt[d] # NoRow => Resolves(debt[d], debt[d].status)

(* What is owed is what the wallet misses, or holds too much: the cash     *)
(* moved by the transactions of the debts opened over t is what these      *)
(* debts still owe, and the user's own share of a split bill, which is     *)
(* what its debts leave of the expense: they never ask for more than that. *)
Cash == [t \in Txs |-> IF tx[t] = NoRow THEN 0
                       ELSE IF tx[t].type = "income" THEN tx[t].amount ELSE -tx[t].amount]
TxsAround(t) == {t} \cup UNION {Paid(d) : d \in OpenedBy(t)}

OutstandingIsCash(t) ==
  LET ownShare == tx[t].amount - SumFunctionOnSet(Principal, OpenedBy(t))
      owed     == SumFunctionOnSet(Remaining, OpenedBy(t)) + ownShare
      lent     == \A d \in OpenedBy(t) : debt[d].type = "receivable"
  IN /\ ownShare >= 0
     /\ SumFunctionOnSet(Cash, TxsAround(t)) = (IF lent THEN -owed ELSE owed)
-----------------------------------------------------------------------------
(* The rest of the inductive invariant.                                    *)

(* A payment holds its debt alone.                                         *)
OneHolder ==
  \A s, r \in Sessions :
    req[s].kind = "pay" /\ req[r].kind = "pay" /\ req[s].debt = req[r].debt => s = r

(* What a payment is about to write follows from the row as it stands.     *)
HeldRowIsCurrent ==
  \A s \in Sessions : req[s].kind = "pay" =>
    LET row == debt[req[s].debt] IN
    /\ row # NoRow
    /\ row.status \in {"open", "partial"}
    /\ req[s].paid = row.paid + req[s].amount
    /\ req[s].paid <= row.principal
    /\ req[s].status = StatusForAmounts(row.principal, req[s].paid)

(* Requests and payments name debts that exist, and these are never gone.  *)
RowsExist ==
  /\ \A s \in Sessions : req[s].kind = "update" => debt[req[s].debt] # NoRow
  /\ \A t \in Txs : payment[t] # NoRow => debt[payment[t].debt] # NoRow

(* Only finitely many payments can be added up.                            *)
FinitePayments == \A d \in Debts : IsFiniteSet(Paid(d))

IInv ==
  /\ TypeOK
  /\ OneHolder
  /\ HeldRowIsCurrent
  /\ RowsExist
  /\ FinitePayments
  /\ PaidIsSumOfPayments
=============================================================================
