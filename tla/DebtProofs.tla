----------------------------- MODULE DebtProofs -----------------------------
(***************************************************************************)
(* Proofs about Debt, DebtViews and MCDebt, for any debts, transactions,   *)
(* requests and amounts.                                                   *)
(*                                                                         *)
(* The inductive invariant IInv adds to the properties what the row lock   *)
(* gives: one payment holds a debt (OneHolder), and what it is about to    *)
(* write follows from the row that is there (HeldRowIsCurrent).            *)
(***************************************************************************)
EXTENDS MCDebt, Sums

LEMMA NoRowIsNoRow == NoRow \notin DebtRow /\ NoRow \notin TxRow /\ NoRow \notin PaymentRow
BY NoRowAssumption

LEMMA MoneyParts ==
  /\ Half \in Nat /\ Half > 0
  /\ \A a \in Money : a \in Nat /\ a >= 0 /\ a < Half
<1>1. Half \in Nat \ {0}
  BY DebtAssumption
<1>2. Half > 0
  BY <1>1
<1>. QED  BY <1>1, <1>2 DEF Money

LEMMA SplitCount ==
  ASSUME NEW n \in 1 .. MaxSplits
  PROVE  n \in Nat /\ IsFiniteSet(1 .. n)
<1>1. MaxSplits \in Nat
  BY DebtAssumption
<1>2. n \in Nat
  BY <1>1
<1>. QED  BY <1>2, FS_Interval

(* The amounts of requests are money.                                      *)
LEMMA AmountsAreMoney ==
  /\ Amounts \subseteq Money \ {0}
  /\ EditAmounts \subseteq Money \ {0}
  /\ 0 \in Money
<1>1. Half \in Nat \ {0}
  BY DebtAssumption
<1>2. Half > 0 /\ 0 \in Money
  BY <1>1 DEF Money
<1>3. \A a \in 1 .. Half - 1 : a \in Money \ {0}
  BY <1>1 DEF Money
<1>4. Amounts \subseteq 1 .. Half - 1 /\ EditAmounts \subseteq 1 .. Half - 1
  BY DebtAssumption
<1>. QED  BY <1>2, <1>3, <1>4

(* What is known of a request in flight.                                   *)
LEMMA RequestParts ==
  ASSUME TypeOK, NEW s \in Sessions
  PROVE  /\ req[s].kind = "none" <=> req[s] = Idle
         /\ req[s].kind = "update" => req[s].debt \in Debts /\ req[s].status \in Statuses
         /\ req[s].kind = "pay" => /\ req[s].debt \in Debts
                                   /\ req[s].amount \in Money \ {0}
                                   /\ req[s].paid \in Money
                                   /\ req[s].status \in Statuses
BY DEF TypeOK, Request, Idle

(* The row of a debt that exists.                                          *)
LEMMA RowParts ==
  ASSUME TypeOK, NEW d \in Debts, debt[d] # NoRow
  PROVE  /\ debt[d] \in DebtRow
         /\ debt[d].type \in {"receivable", "payable"}
         /\ debt[d].principal \in Nat \ {0} /\ debt[d].principal < Half
         /\ debt[d].paid \in Nat /\ debt[d].paid <= debt[d].principal
         /\ debt[d].status \in Statuses
         /\ debt[d].origin \in Txs
<1>1. debt[d] \in DebtRow
  BY DEF TypeOK
<1>2. Half \in Nat
  BY DebtAssumption
<1>. QED  BY <1>1, <1>2 DEF DebtRow, Money

LEMMA InitInv == Init => IInv
<1>. SUFFICES ASSUME Init PROVE IInv
  OBVIOUS
<1>1. TypeOK /\ OneHolder /\ HeldRowIsCurrent
  BY DEF Init, TypeOK, OneHolder, HeldRowIsCurrent, Idle, Request
<1>2. RowsExist /\ PaidIsSumOfPayments
  BY DEF Init, RowsExist, PaidIsSumOfPayments, Idle
<1>3. \A d \in Debts : Paid(d) = {}
  BY DEF Init, Paid
<1>4. FinitePayments
  BY <1>3, FS_EmptySet DEF FinitePayments
<1>. QED  BY <1>1, <1>2, <1>4 DEF IInv

(* A step that records no payment keeps the sums: the debts it opens have  *)
(* none, and the others keep what is paid.                                 *)
LEMMA SumsStay ==
  ASSUME IInv, payment' = payment,
         \A d \in Debts : debt'[d] # NoRow =>
           debt'[d].paid = IF debt[d] = NoRow THEN 0 ELSE debt[d].paid
  PROVE  FinitePayments' /\ PaidIsSumOfPayments'
<1>1. Amount' = Amount /\ \A d \in Debts : Paid(d)' = Paid(d)
  BY DEF Amount, Paid
<1>2. FinitePayments'
  BY <1>1 DEF IInv, FinitePayments
<1>3. \A d \in Debts : debt[d] = NoRow => Paid(d) = {}
  BY DEF IInv, RowsExist, Paid
<1>4. PaidIsSumOfPayments'
  BY <1>1, <1>3, SumEmpty DEF IInv, PaidIsSumOfPayments
<1>. QED  BY <1>2, <1>4

(* No row is ever gone.                                                    *)
LEMMA RowsStay ==
  ASSUME IInv, payment' = payment,
         \A s \in Sessions : req'[s].kind = "update" => req'[s] = req[s],
         \A d \in Debts : debt[d] # NoRow => debt'[d] # NoRow
  PROVE  RowsExist'
<1>1. \A s \in Sessions : req[s].kind = "update" => req[s].debt \in Debts
  BY RequestParts DEF IInv
<1>2. \A t \in Txs : payment[t] # NoRow => payment[t].debt \in Debts
  BY DEF IInv, TypeOK, PaymentRow
<1>. QED  BY <1>1, <1>2 DEF IInv, RowsExist

(* The held rows are still what their payments read, if the step changes   *)
(* no held row and locks none.                                             *)
LEMMA LocksStay ==
  ASSUME IInv,
         \A s \in Sessions : req'[s].kind = "pay" => req'[s] = req[s],
         \A d \in Debts : Locked(d) => debt'[d] = debt[d]
  PROVE  OneHolder' /\ HeldRowIsCurrent'
<1>1. OneHolder'
  BY DEF IInv, OneHolder
<1>2. \A s \in Sessions : req[s].kind = "pay" => req[s].debt \in Debts /\ Locked(req[s].debt)
  BY RequestParts DEF IInv, Locked
<1>3. HeldRowIsCurrent'
  BY <1>2 DEF IInv, HeldRowIsCurrent
<1>. QED  BY <1>1, <1>3

LEMMA NewDebtParts ==
  ASSUME NEW type \in {"receivable", "payable"}, NEW a \in Amounts, NEW t \in Txs
  PROVE  NewDebt(type, a, t) \in DebtRow /\ NewDebt(type, a, t).paid = 0
<1>1. a \in Money \ {0} /\ 0 \in Money /\ 0 <= a
  BY AmountsAreMoney, MoneyParts
<1>. QED  BY <1>1 DEF NewDebt, DebtRow, Statuses

LEMMA CreateKeepsInv ==
  ASSUME IInv, NEW d \in Debts, NEW t \in Txs, NEW a \in Amounts,
         NEW type \in {"receivable", "payable"}, Create(d, t, type, a)
  PROVE  IInv'
<1>1. TypeOK
  BY DEF IInv
<1>2. NewDebt(type, a, t) \in DebtRow
  BY NewDebtParts
<1>3. TypeOK'
  BY <1>1, <1>2, AmountsAreMoney DEF Create, TypeOK, TxRow, TransactionTypeFor
<1>4. ~ Locked(d)
  BY DEF IInv, HeldRowIsCurrent, Locked, Create
<1>5. /\ \A e \in Debts \ {d} : debt'[e] = debt[e]
      /\ debt'[d] = NewDebt(type, a, t) /\ debt'[d] # NoRow /\ debt[d] = NoRow
      /\ payment' = payment /\ req' = req
  BY <1>1, <1>2, NoRowIsNoRow DEF Create, TypeOK
<1>6. FinitePayments' /\ PaidIsSumOfPayments'
  BY <1>5, SumsStay DEF NewDebt
<1>7. OneHolder' /\ HeldRowIsCurrent'
  BY <1>4, <1>5, LocksStay
<1>8. RowsExist'
  BY <1>1, <1>5, RowsStay DEF IInv
<1>. QED  BY <1>3, <1>6, <1>7, <1>8 DEF IInv

LEMMA SplitKeepsInv ==
  ASSUME IInv, NEW t \in Txs, NEW total \in Amounts, NEW n \in 1 .. MaxSplits,
         NEW amounts \in [1 .. n -> Amounts], NEW ds \in [1 .. n -> Debts], IsInjective(ds),
         SplitExpense(t, total, amounts, ds)
  PROVE  IInv'
<1>1. TypeOK
  BY DEF IInv
<1>. DEFINE opened == {ds[i] : i \in 1 .. n}
<1>2. \A d \in opened : /\ debt[d] = NoRow
                        /\ \E a \in Amounts : debt'[d] = NewDebt("receivable", a, t)
  BY <1>1 DEF SplitExpense, TypeOK
<1>3. \A d \in Debts \ opened : debt'[d] = debt[d]
  BY <1>1 DEF SplitExpense, TypeOK
<1>4. \A a \in Amounts : NewDebt("receivable", a, t) \in DebtRow
  BY NewDebtParts
<1>5. payment' = payment /\ req' = req /\ tx' = [tx EXCEPT ![t] = [type |-> "expense", amount |-> total]]
  BY DEF SplitExpense
<1>6. DOMAIN debt' = Debts /\ debt' = [d \in Debts |-> debt'[d]]
  BY DEF SplitExpense
<1>7. TypeOK'
  <2>1. debt' \in [Debts -> DebtRow \cup {NoRow}]
    BY <1>1, <1>2, <1>3, <1>4, <1>6 DEF TypeOK
  <2>. QED  BY <1>1, <1>5, <2>1, AmountsAreMoney DEF TypeOK, TxRow
<1>8. \A d \in opened : debt'[d] # NoRow /\ debt'[d].paid = 0
  BY <1>2, <1>4, NoRowIsNoRow, NewDebtParts
<1>9. FinitePayments' /\ PaidIsSumOfPayments'
  BY <1>2, <1>3, <1>5, <1>8, SumsStay
<1>10. \A d \in Debts : Locked(d) => d \notin opened
  BY <1>2 DEF IInv, HeldRowIsCurrent, Locked
<1>11. OneHolder' /\ HeldRowIsCurrent'
  BY <1>3, <1>5, <1>10, LocksStay
<1>12. RowsExist'
  BY <1>3, <1>5, <1>8, RowsStay
<1>. QED  BY <1>7, <1>9, <1>11, <1>12 DEF IInv

LEMMA StatusLeavesRow ==
  ASSUME TypeOK, NEW d \in Debts, debt[d] # NoRow, NEW st \in Statuses,
         debt' = [debt EXCEPT ![d].status = st]
  PROVE  debt'[d] \in DebtRow /\ debt'[d] # NoRow
<1>1. debt[d] \in DebtRow /\ debt'[d] = [debt[d] EXCEPT !.status = st]
  BY RowParts DEF TypeOK
<1>2. debt'[d] \in DebtRow
  BY <1>1 DEF DebtRow
<1>. QED  BY <1>2, NoRowIsNoRow

(* UpdateWrite, Delete: the status of one debt that no payment holds.      *)
LEMMA StatusKeepsInv ==
  ASSUME IInv, NEW d \in Debts, debt[d] # NoRow, NEW st \in Statuses, ~ Locked(d),
         debt' = [debt EXCEPT ![d].status = st], UNCHANGED <<tx, payment>>,
         \A s \in Sessions : req'[s] \in {req[s], Idle}, req' \in [Sessions -> Request]
  PROVE  IInv'
<1>1. TypeOK
  BY DEF IInv
<1>2. /\ \A e \in Debts \ {d} : debt'[e] = debt[e]
      /\ debt'[d] = [debt[d] EXCEPT !.status = st]
  BY <1>1 DEF TypeOK
<1>3. /\ debt'[d] \in DebtRow /\ debt'[d].paid = debt[d].paid
  BY <1>1, <1>2, RowParts DEF DebtRow
<1>4. TypeOK'
  BY <1>1, <1>2, <1>3 DEF TypeOK
<1>5. debt'[d] # NoRow
  BY <1>3, NoRowIsNoRow
<1>6. FinitePayments' /\ PaidIsSumOfPayments'
  BY <1>2, <1>3, <1>5, SumsStay
<1>7. OneHolder' /\ HeldRowIsCurrent'
  BY <1>2, LocksStay DEF Idle
<1>8. RowsExist'
  BY <1>2, <1>5, RowsStay DEF Idle
<1>. QED  BY <1>4, <1>6, <1>7, <1>8 DEF IInv

(* A session that begins or ends, and nothing else.                        *)
LEMMA TablesStay ==
  ASSUME IInv, UNCHANGED <<debt, payment>>
  PROVE  FinitePayments' /\ PaidIsSumOfPayments'
<1>1. \A d \in Debts : debt'[d] # NoRow =>
        debt'[d].paid = IF debt[d] = NoRow THEN 0 ELSE debt[d].paid
  OBVIOUS
<1>. QED  BY <1>1, SumsStay

LEMMA UpdateReadKeepsInv ==
  ASSUME IInv, NEW s \in Sessions, NEW d \in Debts, NEW st \in UpdateStatuses,
         UpdateRead(s, d, st)
  PROVE  IInv'
<1>1. TypeOK
  BY DEF IInv
<1>. DEFINE next == IF st = "" THEN debt[d].status ELSE st
<1>2. next \in Statuses
  BY <1>1, RowParts, DebtAssumption DEF UpdateRead
<1>3. /\ UNCHANGED <<debt, tx, payment>> /\ debt[d] # NoRow
      /\ req' = [req EXCEPT ![s] = [kind |-> "update", debt |-> d, status |-> next]]
  BY DEF UpdateRead, Begin
<1>. HIDE DEF next
<1>4. TypeOK'
  BY <1>1, <1>2, <1>3 DEF TypeOK, Request
<1>5. /\ req'[s] = [kind |-> "update", debt |-> d, status |-> next]
      /\ \A r \in Sessions \ {s} : req'[r] = req[r]
  BY <1>1, <1>3 DEF TypeOK
<1>6. OneHolder' /\ HeldRowIsCurrent'
  BY <1>3, <1>5, LocksStay
<1>7. RowsExist'
  BY <1>3, <1>5 DEF IInv, RowsExist
<1>. QED  BY <1>3, <1>4, <1>6, <1>7, TablesStay DEF IInv

LEMMA PayLockKeepsInv ==
  ASSUME IInv, NEW s \in Sessions, NEW d \in Debts, NEW a \in Amounts, PayLock(s, d, a)
  PROVE  IInv'
<1>1. TypeOK
  BY DEF IInv
<1>. DEFINE row  == debt[d]
            paid == row.paid + a
            st   == StatusForAmounts(row.principal, paid)
            r    == [kind |-> "pay", debt |-> d, amount |-> a, paid |-> paid, status |-> st]
<1>2. /\ UNCHANGED <<debt, tx, payment>> /\ row # NoRow /\ ~ Locked(d) /\ Payable(row, a)
      /\ req' = [req EXCEPT ![s] = r]
  BY DEF PayLock, Begin
<1>3. a \in Nat /\ a > 0 /\ a \in Money \ {0}
  BY AmountsAreMoney, MoneyParts
<1>4. /\ row.paid \in Nat /\ row.principal \in Nat /\ row.principal < Half
      /\ row.status \in {"open", "partial"}
  BY <1>1, <1>2, RowParts DEF Payable, Statuses
<1>5. /\ paid \in Nat /\ paid <= row.principal /\ paid \in Money
  BY <1>2, <1>3, <1>4, MoneyParts DEF Payable, Money
<1>6. st \in Statuses
  BY DEF StatusForAmounts, Statuses
<1>. HIDE DEF row, paid, st
<1>7. r \in Request
  BY <1>3, <1>5, <1>6 DEF Request
<1>8. req'[s] = r /\ \A q \in Sessions \ {s} : req'[q] = req[q]
  BY <1>1, <1>2 DEF TypeOK
<1>9. TypeOK'
  BY <1>1, <1>2, <1>7 DEF TypeOK
<1>10. OneHolder'
  <2>1. \A q \in Sessions \ {s} : req[q].kind = "pay" => req[q].debt # d
    BY <1>2 DEF Locked
  <2>. QED  BY <1>8, <2>1 DEF IInv, OneHolder
<1>11. HeldRowIsCurrent'
  BY <1>2, <1>4, <1>5, <1>8 DEF IInv, HeldRowIsCurrent, row, paid, st
<1>12. RowsExist'
  BY <1>2, <1>8 DEF IInv, RowsExist
<1>. QED  BY <1>2, <1>9, <1>10, <1>11, <1>12, TablesStay DEF IInv

LEMMA UpdateWriteKeepsInv ==
  ASSUME IInv, NEW s \in Sessions, UpdateWrite(s)
  PROVE  IInv'
<1>1. TypeOK
  BY DEF IInv
<1>2. req[s].debt \in Debts /\ req[s].status \in Statuses /\ debt[req[s].debt] # NoRow
  BY <1>1, RequestParts DEF IInv, RowsExist, UpdateWrite
<1>3. req' \in [Sessions -> Request] /\ \A r \in Sessions : req'[r] \in {req[r], Idle}
  BY <1>1 DEF TypeOK, UpdateWrite, Finish, Request
<1>. QED  BY <1>2, <1>3, StatusKeepsInv DEF UpdateWrite

LEMMA DeleteKeepsInv ==
  ASSUME IInv, NEW d \in Debts, Delete(d)
  PROVE  IInv'
<1>1. req' \in [Sessions -> Request] /\ req' = req
  BY DEF IInv, TypeOK, Delete
<1>2. "cancelled" \in Statuses
  BY DEF Statuses
<1>. QED  BY <1>1, <1>2, StatusKeepsInv DEF Delete

(* PayCommit: one more payment, and its amount on the debt it names.       *)
LEMMA PaidGrows ==
  ASSUME IInv, NEW s \in Sessions, NEW t \in Txs, PayCommit(s, t),
         NEW d, d = req[s].debt, NEW a, a = req[s].amount
  PROVE  /\ d \in Debts /\ debt[d] # NoRow
         /\ payment' = [payment EXCEPT ![t] = [debt |-> d, amount |-> a]]
         /\ Paid(d)' = Paid(d) \cup {t} /\ t \notin Paid(d)
         /\ \A e \in Debts \ {d} : Paid(e)' = Paid(e) /\ t \notin Paid(e)
<1>1. TypeOK
  BY DEF IInv
<1>2. d \in Debts /\ debt[d] # NoRow /\ a \in Money \ {0}
  BY <1>1, RequestParts DEF IInv, HeldRowIsCurrent, PayCommit
<1>3. /\ payment' = [payment EXCEPT ![t] = [debt |-> d, amount |-> a]]
      /\ payment[t] = NoRow
  BY DEF PayCommit, UnusedTx
<1>4. [debt |-> d, amount |-> a] # NoRow
  BY <1>2, NoRowIsNoRow DEF PaymentRow
<1>5. /\ payment'[t] = [debt |-> d, amount |-> a]
      /\ \A u \in Txs \ {t} : payment'[u] = payment[u]
  BY <1>1, <1>3 DEF TypeOK
<1>. QED  BY <1>2, <1>3, <1>4, <1>5 DEF Paid

LEMMA PaidRow ==
  ASSUME IInv, NEW s \in Sessions, NEW t \in Txs, PayCommit(s, t), NEW d, d = req[s].debt
  PROVE  /\ debt'[d] \in DebtRow /\ debt'[d] # NoRow
         /\ debt'[d].type = debt[d].type /\ debt'[d].principal = debt[d].principal
         /\ debt'[d].origin = debt[d].origin
         /\ debt'[d].paid = req[s].paid /\ debt'[d].status = req[s].status
         /\ \A e \in Debts \ {d} : debt'[e] = debt[e]
<1>1. TypeOK /\ req[s].kind = "pay"
  BY DEF IInv, PayCommit
<1>2. /\ d \in Debts /\ debt[d] # NoRow /\ debt[d] \in DebtRow
      /\ req[s].paid \in Money /\ req[s].status \in Statuses
      /\ req[s].paid <= debt[d].principal
  BY <1>1, RequestParts, RowParts DEF IInv, HeldRowIsCurrent
<1>3. debt' = [debt EXCEPT ![d].paid = req[s].paid, ![d].status = req[s].status]
  BY DEF PayCommit
<1>4. /\ debt'[d] = [debt[d] EXCEPT !.paid = req[s].paid, !.status = req[s].status]
      /\ \A e \in Debts \ {d} : debt'[e] = debt[e]
  BY <1>1, <1>2, <1>3 DEF TypeOK
<1>5. /\ debt'[d].type = debt[d].type /\ debt'[d].principal = debt[d].principal
      /\ debt'[d].origin = debt[d].origin
      /\ debt'[d].paid = req[s].paid /\ debt'[d].status = req[s].status
  BY <1>2, <1>4 DEF DebtRow
<1>6. debt'[d] \in DebtRow
  BY <1>2, <1>4 DEF DebtRow
<1>. QED  BY <1>4, <1>5, <1>6, NoRowIsNoRow

LEMMA AmountType == TypeOK => Amount \in [Txs -> Int]
<1>. SUFFICES ASSUME TypeOK PROVE \A t \in Txs : payment[t] # NoRow => payment[t].amount \in Int
  BY DEF Amount
<1>. QED  BY MoneyParts DEF TypeOK, PaymentRow

LEMMA PayCommitKeepsInv ==
  ASSUME IInv, NEW s \in Sessions, NEW t \in Txs, PayCommit(s, t)
  PROVE  IInv'
<1>1. TypeOK
  BY DEF IInv
<1>. SUFFICES ASSUME NEW d, d = req[s].debt, NEW a, a = req[s].amount PROVE IInv'
  OBVIOUS
<1>. DEFINE new == [debt |-> d, amount |-> a]
<1>2. /\ d \in Debts /\ debt[d] # NoRow /\ req[s].kind = "pay"
      /\ a \in Money \ {0} /\ a \in Nat /\ req[s].paid \in Money /\ req[s].status \in Statuses
      /\ req[s].paid = debt[d].paid + a /\ req[s].paid <= debt[d].principal
  BY <1>1, RequestParts, MoneyParts DEF IInv, HeldRowIsCurrent, PayCommit
<1>3. /\ payment' = [payment EXCEPT ![t] = new] /\ payment[t] = NoRow
      /\ debt' = [debt EXCEPT ![d].paid = req[s].paid, ![d].status = req[s].status]
      /\ req' = [req EXCEPT ![s] = Idle]
      /\ tx' = [tx EXCEPT ![t] = [type   |-> TransactionTypeFor(debt[d].type, "payment"),
                                  amount |-> a]]
  BY DEF PayCommit, UnusedTx, Finish
<1>4. new \in PaymentRow /\ new # NoRow
  BY <1>2, NoRowIsNoRow DEF PaymentRow
<1>5. /\ Paid(d)' = Paid(d) \cup {t} /\ t \notin Paid(d)
      /\ \A e \in Debts \ {d} : Paid(e)' = Paid(e) /\ t \notin Paid(e)
  BY PaidGrows
<1>. HIDE DEF new
<1>6. \A e \in Debts \ {d} : debt'[e] = debt[e]
  BY PaidRow
<1>7. debt'[d] \in DebtRow /\ debt'[d].paid = debt[d].paid + a /\ debt'[d] # NoRow
  BY <1>2, PaidRow
<1>8. TypeOK'
  <2>1. debt' \in [Debts -> DebtRow \cup {NoRow}]
    BY <1>1, <1>3, <1>6, <1>7 DEF TypeOK
  <2>2. req' \in [Sessions -> Request] /\ payment' \in [Txs -> PaymentRow \cup {NoRow}]
    BY <1>1, <1>3, <1>4 DEF TypeOK, Request
  <2>3. tx' \in [Txs -> TxRow \cup {NoRow}]
    BY <1>1, <1>2, <1>3 DEF TypeOK, TxRow, TransactionTypeFor
  <2>. QED  BY <2>1, <2>2, <2>3 DEF TypeOK
<1>9. /\ req'[s] = Idle /\ \A q \in Sessions \ {s} : req'[q] = req[q]
      /\ Idle.kind = "none"
  BY <1>1, <1>3 DEF TypeOK, Idle
<1>10. OneHolder'
  BY <1>9 DEF IInv, OneHolder
<1>11. HeldRowIsCurrent'
  <2>1. \A q \in Sessions \ {s} : req[q].kind = "pay" => req[q].debt \in Debts \ {d}
    BY <1>1, <1>2, RequestParts DEF IInv, OneHolder
  <2>. QED  BY <1>6, <1>9, <2>1 DEF IInv, HeldRowIsCurrent
<1>12. RowsExist'
  <2>1. \A e \in Debts : debt[e] # NoRow => debt'[e] # NoRow
    BY <1>6, <1>7
  <2>2. \A q \in Sessions : req'[q].kind = "update" => debt'[req'[q].debt] # NoRow
    BY <1>1, <1>9, <2>1, RequestParts DEF IInv, RowsExist
  <2>3. \A u \in Txs \ {t} : payment'[u] = payment[u]
    BY <1>1, <1>3 DEF TypeOK
  <2>4. payment'[t].debt = d
    BY <1>1, <1>3 DEF TypeOK, new
  <2>5. \A u \in Txs : payment'[u] # NoRow => debt'[payment'[u].debt] # NoRow
    BY <1>1, <1>2, <1>7, <2>1, <2>3, <2>4 DEF IInv, RowsExist, TypeOK, PaymentRow
  <2>. QED  BY <2>2, <2>5 DEF RowsExist
<1>13. FinitePayments'
  <2>1. \A e \in Debts : IsFiniteSet(Paid(e))
    BY DEF IInv, FinitePayments
  <2>2. IsFiniteSet(Paid(d)')
    BY <1>2, <1>5, <2>1, FS_AddElement
  <2>3. \A e \in Debts \ {d} : IsFiniteSet(Paid(e)')
    BY <1>5, <2>1
  <2>. QED  BY <2>2, <2>3 DEF FinitePayments
<1>14. PaidIsSumOfPayments'
  <2>1. Amount' \in [Txs -> Int] /\ Amount \in [Txs -> Int]
    <3>1. \A u \in Txs : payment'[u] # NoRow => payment'[u].amount \in Int
      BY <1>8, MoneyParts DEF TypeOK, PaymentRow
    <3>. QED  BY <1>1, <3>1, AmountType DEF Amount
  <2>2. /\ Amount'[t] = a
        /\ \A u \in Txs \ {t} : Amount'[u] = Amount[u]
    BY <1>1, <1>3, <1>4 DEF Amount, TypeOK, new
  <2>3. \A e \in Debts : IsFiniteSet(Paid(e)) /\ Paid(e) \subseteq Txs
    BY DEF IInv, FinitePayments, Paid
  <2>4. \A e \in Debts : SumFunctionOnSet(Amount', Paid(e) \ {t}) = SumFunctionOnSet(Amount, Paid(e) \ {t})
    BY <2>1, <2>2, <2>3, SumAgree, FS_Subset
  <2>5. \A e \in Debts : t \notin Paid(e) /\ Paid(e) \ {t} = Paid(e)
    BY <1>5
  <2>6. \A e \in Debts : SumFunctionOnSet(Amount', Paid(e)) = SumFunctionOnSet(Amount, Paid(e))
    BY <2>4, <2>5
  <2>7. SumFunctionOnSet(Amount', Paid(d) \cup {t}) = Amount'[t] + SumFunctionOnSet(Amount', Paid(d))
    <3>1. \A u \in Paid(d) \cup {t} : Amount'[u] \in Int
      BY <1>2, <2>1, <2>3
    <3>2. IsFiniteSet(Paid(d)) /\ t \notin Paid(d)
      BY <1>2, <1>5, <2>3
    <3>. QED  BY <3>1, <3>2, SumAdd
  <2>8. SumFunctionOnSet(Amount, Paid(d)) = debt[d].paid
    BY <1>2 DEF IInv, PaidIsSumOfPayments
  <2>9. SumFunctionOnSet(Amount', Paid(d)') = debt'[d].paid
    <3>1. debt[d].paid \in Nat
      BY <1>1, <1>2, RowParts
    <3>2. SumFunctionOnSet(Amount', Paid(d)') = a + debt[d].paid
      BY <1>2, <1>5, <2>2, <2>6, <2>7, <2>8
    <3>. QED  BY <1>2, <1>7, <3>1, <3>2
  <2>10. \A e \in Debts \ {d} : debt'[e] # NoRow => debt'[e].paid = SumFunctionOnSet(Amount', Paid(e)')
    BY <1>5, <1>6, <2>6 DEF IInv, PaidIsSumOfPayments
  <2>. QED  BY <2>9, <2>10 DEF PaidIsSumOfPayments
<1>. QED  BY <1>8, <1>10, <1>11, <1>12, <1>13, <1>14 DEF IInv

LEMMA FailKeepsInv ==
  ASSUME IInv, NEW s \in Sessions, Fail(s)
  PROVE  IInv'
<1>1. /\ UNCHANGED <<debt, tx, payment>> /\ Idle.kind = "none"
      /\ req' \in [Sessions -> Request] /\ \A r \in Sessions : req'[r] \in {req[r], Idle}
  BY DEF IInv, TypeOK, Fail, Finish, Request, Idle
<1>2. OneHolder' /\ HeldRowIsCurrent'
  BY <1>1, LocksStay
<1>3. RowsExist'
  BY <1>1, RowsStay
<1>. QED  BY <1>1, <1>2, <1>3, TablesStay DEF IInv, TypeOK

LEMMA EditTransactionKeepsInv ==
  ASSUME IInv, NEW t \in Txs, NEW type \in {"income", "expense"}, NEW a \in EditAmounts,
         EditTransaction(t, type, a)
  PROVE  IInv'
<1>1. /\ UNCHANGED <<debt, payment, req>>
      /\ tx' \in [Txs -> TxRow \cup {NoRow}]
  BY AmountsAreMoney DEF IInv, TypeOK, EditTransaction, TxRow
<1>2. OneHolder' /\ HeldRowIsCurrent'
  BY <1>1, LocksStay
<1>3. RowsExist'
  BY <1>1, RowsStay
<1>. QED  BY <1>1, <1>2, <1>3, TablesStay DEF IInv, TypeOK

LEMMA NextKeepsInv == IInv /\ [Next]_vars => IInv'
<1>. SUFFICES ASSUME IInv, [Next]_vars PROVE IInv'
  OBVIOUS
<1>1. CASE \E d \in Debts, t \in Txs, a \in Amounts :
             \E type \in {"receivable", "payable"} : Create(d, t, type, a)
  BY <1>1, CreateKeepsInv
<1>2. CASE \E t \in Txs, a \in Amounts : CreateSplit(t, a)
  BY <1>2, SplitKeepsInv DEF CreateSplit
<1>3. CASE \E s \in Sessions, d \in Debts : \E st \in UpdateStatuses : UpdateRead(s, d, st)
  BY <1>3, UpdateReadKeepsInv
<1>4. CASE \E s \in Sessions, d \in Debts : \E a \in Amounts : PayLock(s, d, a)
  BY <1>4, PayLockKeepsInv
<1>5. CASE \E d \in Debts : Delete(d)
  BY <1>5, DeleteKeepsInv
<1>6. CASE \E s \in Sessions : UpdateWrite(s) \/ Fail(s)
  BY <1>6, UpdateWriteKeepsInv, FailKeepsInv
<1>7. CASE \E s \in Sessions, t \in Txs : PayCommit(s, t)
  BY <1>7, PayCommitKeepsInv
<1>8. CASE \E t \in Txs, type \in {"income", "expense"}, a \in EditAmounts :
             EditTransaction(t, type, a)
  BY <1>8, EditTransactionKeepsInv
<1>9. CASE UNCHANGED vars
  BY <1>9, FailKeepsInv DEF vars, IInv, TypeOK, OneHolder, HeldRowIsCurrent, RowsExist,
     FinitePayments, PaidIsSumOfPayments, Paid, Amount
<1>. QED  BY <1>1, <1>2, <1>3, <1>4, <1>5, <1>6, <1>7, <1>8, <1>9 DEF Next

LEMMA Invariance == Spec => []IInv
BY InitInv, NextKeepsInv, PTL DEF Spec

(* The rows have the types and the bounds that the tables check, and no    *)
(* debt is paid beyond its principal (ApplyPayment, debt.usecase.go).      *)
THEOREM RowsWellTyped == Spec => []TypeOK
<1>1. IInv => TypeOK
  BY DEF IInv
<1>. QED  BY Invariance, <1>1, PTL

(* For any numbers of debts, payments and requests, paid_amount_minor is   *)
(* the sum of the recorded payments: none is lost or counted twice.        *)
THEOREM PaymentsAddUp == Spec => []PaidIsSumOfPayments
<1>1. IInv => PaidIsSumOfPayments
  BY DEF IInv
<1>. QED  BY Invariance, <1>1, PTL

(* A payment is recorded only against a debt that is open at that moment:  *)
(* the row lock keeps what the payment checked true until it commits.      *)
THEOREM ClosedDebtsAreNotPaid == Spec => OnlyOpenDebtsArePaid
<1>. DEFINE Recorded == \A t \in Txs : payment[t] = NoRow /\ payment'[t] # NoRow =>
              debt[payment'[t].debt].status \in {"open", "partial"}
<1>1. IInv /\ [Next]_vars => [Recorded]_vars
  <2>. SUFFICES ASSUME IInv, Next PROVE Recorded
    OBVIOUS
  <2>1. ASSUME NEW s \in Sessions, NEW t \in Txs, PayCommit(s, t) PROVE Recorded
    <3>1. /\ debt[req[s].debt].status \in {"open", "partial"}
          /\ payment' = [payment EXCEPT ![t] = [debt |-> req[s].debt, amount |-> req[s].amount]]
          /\ payment \in [Txs -> PaymentRow \cup {NoRow}]
      BY <2>1 DEF IInv, TypeOK, HeldRowIsCurrent, PayCommit
    <3>. QED  BY <3>1
  <2>2. CASE UNCHANGED payment
    BY <2>2
  <2>. QED  BY <2>1, <2>2 DEF Next, Create, CreateSplit, SplitExpense, UpdateRead, UpdateWrite,
                              PayLock, Delete, Fail, EditTransaction
<1>. QED  BY Invariance, <1>1, PTL DEF Spec, OnlyOpenDebtsArePaid
-----------------------------------------------------------------------------
(* Steps that change no type, principal or origin and open no debt.        *)
RowsKept == \A d \in Debts :
  /\ debt'[d] = NoRow <=> debt[d] = NoRow
  /\ debt[d] # NoRow => /\ debt'[d].type      = debt[d].type
                        /\ debt'[d].principal = debt[d].principal
                        /\ debt'[d].origin    = debt[d].origin

LEMMA KeptRows ==
  ASSUME RowsKept
  PROVE  /\ Principal' = Principal /\ Opened' = Opened
         /\ \A t \in Txs : OpenedBy(t)' = OpenedBy(t)
BY DEF RowsKept, Principal, Opened, OpenedBy

LEMMA OriginOf ==
  ASSUME TypeOK, NEW t \in Txs, NEW d \in OpenedBy(t)
  PROVE  d \in Debts /\ debt[d] # NoRow /\ debt[d].origin = t
BY DEF OpenedBy

(* The status of one debt changes, and no amount.                          *)
LEMMA StatusKeepsRows ==
  ASSUME TypeOK, NEW d \in Debts, debt[d] # NoRow, NEW st,
         debt' = [debt EXCEPT ![d].status = st], debt'[d] # NoRow
  PROVE  /\ RowsKept
         /\ debt'[d] = [debt[d] EXCEPT !.status = st]
         /\ \A e \in Debts \ {d} : debt'[e] = debt[e]
         /\ \A s : Resolves(debt'[d], s) <=> Resolves(debt[d], s)
         /\ debt'[d].status = st
<1>1. debt[d] \in DebtRow /\ debt \in [Debts -> DebtRow \cup {NoRow}]
  BY RowParts DEF TypeOK
<1>2. /\ debt'[d] = [debt[d] EXCEPT !.status = st]
      /\ \A e \in Debts \ {d} : debt'[e] = debt[e]
  BY <1>1
<1>3. /\ debt'[d].type = debt[d].type /\ debt'[d].principal = debt[d].principal
      /\ debt'[d].origin = debt[d].origin /\ debt'[d].paid = debt[d].paid
      /\ debt'[d].status = st
  BY <1>1, <1>2 DEF DebtRow
<1>. QED  BY <1>2, <1>3 DEF RowsKept, Resolves

LEMMA PaymentKeepsRows ==
  ASSUME IInv, NEW s \in Sessions, NEW t \in Txs, PayCommit(s, t), NEW d, d = req[s].debt
  PROVE  /\ RowsKept
         /\ \A e \in Debts \ {d} : debt'[e] = debt[e]
         /\ Resolves(debt'[d], debt'[d].status)
<1>1. /\ d \in Debts /\ debt[d] # NoRow
      /\ req[s].status = StatusForAmounts(debt[d].principal, req[s].paid)
  BY RequestParts DEF IInv, HeldRowIsCurrent, PayCommit
<1>2. RowsKept
  BY <1>1, PaidRow DEF RowsKept
<1>3. debt'[d].status = StatusForAmounts(debt'[d].principal, debt'[d].paid)
  BY <1>1, PaidRow
<1>. QED  BY <1>2, <1>3, PaidRow DEF Resolves

(* The debts that Create and SplitExpense open.                            *)
Opens(new, type, t) ==
  /\ \A d \in new : debt[d] = NoRow /\ \E a \in Amounts : debt'[d] = NewDebt(type, a, t)
  /\ \A d \in Debts \ new : debt'[d] = debt[d]

LEMMA OpenedRows ==
  ASSUME NEW t \in Txs, NEW type \in {"receivable", "payable"}, NEW new \in SUBSET Debts,
         Opens(new, type, t),
         OpenedBy(t) = {}
  PROVE  /\ Opened' = Opened \cup new /\ new \cap Opened = {}
         /\ OpenedBy(t)' = new
         /\ \A u \in Txs \ {t} : OpenedBy(u)' = OpenedBy(u)
         /\ \A d \in new : debt'[d].type = type /\ debt'[d].origin = t /\ debt'[d].status = "open"
                           /\ debt'[d].paid = 0 /\ debt'[d].principal \in Amounts
                           /\ Principal'[d] = debt'[d].principal
         /\ \A d \in Debts \ new : Principal'[d] = Principal[d]
<1>1. \A d \in new : /\ debt'[d] # NoRow
                     /\ debt'[d].type = type /\ debt'[d].origin = t /\ debt'[d].status = "open"
                     /\ debt'[d].paid = 0 /\ debt'[d].principal \in Amounts
  <2>. SUFFICES ASSUME NEW d \in new
       PROVE  /\ debt'[d] # NoRow
              /\ debt'[d].type = type /\ debt'[d].origin = t /\ debt'[d].status = "open"
              /\ debt'[d].paid = 0 /\ debt'[d].principal \in Amounts
    OBVIOUS
  <2>1. PICK a \in Amounts : debt'[d] = NewDebt(type, a, t)
    BY DEF Opens
  <2>2. NewDebt(type, a, t) # NoRow
    BY NewDebtParts, NoRowIsNoRow
  <2>. QED  BY <2>1, <2>2 DEF NewDebt
<1>2. Opened' = Opened \cup new /\ new \cap Opened = {}
  BY <1>1 DEF Opened, Opens
<1>3. OpenedBy(t)' = new
  BY <1>1 DEF OpenedBy, Opens
<1>4. \A u \in Txs \ {t} : OpenedBy(u)' = OpenedBy(u)
  BY <1>1 DEF OpenedBy, Opens
<1>5. /\ \A d \in new : Principal'[d] = debt'[d].principal
      /\ \A d \in Debts \ new : Principal'[d] = Principal[d]
  BY <1>1 DEF Principal, Opens
<1>. QED  BY <1>1, <1>2, <1>3, <1>4, <1>5

(* Create and SplitExpense leave the cash books of other debts alone, and  *)
(* the debts they open ask for no more than was spent.                     *)
LEMMA OpeningKeepsBooks ==
  ASSUME MCIInv, MCNext, NEW t \in Txs, UnusedTx(t),
         NEW type \in {"receivable", "payable"}, NEW a, NEW new \in SUBSET Debts,
         IsFiniteSet(new), payment' = payment,
         tx' = [tx EXCEPT ![t] = [type   |-> TransactionTypeFor(type, "origination"),
                                  amount |-> a]],
         [type |-> TransactionTypeFor(type, "origination"), amount |-> a] # NoRow,
         Opens(new, type, t),
         SplitsFit => SumFunctionOnSet(Principal', new) <= a
  PROVE  FiniteOpened' /\ PaymentsHaveTx' /\ OriginsHaveTx'
<1>1. TypeOK
  BY DEF MCIInv, IInv
<1>2. OpenedBy(t) = {}
  BY DEF MCIInv, OriginsHaveTx, UnusedTx
<1>3. /\ Opened' = Opened \cup new
      /\ OpenedBy(t)' = new
      /\ \A u \in Txs \ {t} : OpenedBy(u)' = OpenedBy(u)
      /\ \A d \in new : debt'[d].type = type
      /\ \A d \in Debts \ new : Principal'[d] = Principal[d]
      /\ new \cap Opened = {}
  <2>1. /\ Opened' = Opened \cup new /\ new \cap Opened = {} /\ OpenedBy(t)' = new
        /\ \A u \in Txs \ {t} : OpenedBy(u)' = OpenedBy(u)
    BY <1>2, OpenedRows
  <2>2. \A d \in new : debt'[d].type = type
    BY <1>2, OpenedRows
  <2>3. \A d \in Debts \ new : Principal'[d] = Principal[d]
    BY <1>2, OpenedRows
  <2>. QED  BY <2>1, <2>2, <2>3
<1>4. /\ tx'[t] = [type |-> TransactionTypeFor(type, "origination"), amount |-> a]
      /\ tx'[t] # NoRow
      /\ \A u \in Txs \ {t} : tx'[u] = tx[u]
  BY <1>1 DEF TypeOK
<1>5. edited' = edited
  BY <1>4 DEF MCNext, UnusedTx
<1>6. FiniteOpened'
  BY <1>3, FS_Union DEF MCIInv, FiniteOpened
<1>7. PaymentsHaveTx'
  <2>. SUFFICES ASSUME NEW u \in Txs, payment'[u] # NoRow
       PROVE  /\ tx'[u] # NoRow /\ OpenedBy(u)' = {}
              /\ u \notin edited' =>
                   tx'[u] = [type   |-> TransactionTypeFor(debt'[payment'[u].debt].type, "payment"),
                             amount |-> payment'[u].amount]
    BY DEF PaymentsHaveTx
  <2>1. u \in Txs \ {t} /\ payment[u] # NoRow /\ payment[u].debt \in Debts
    BY <1>1 DEF UnusedTx, TypeOK, PaymentRow
  <2>2. debt[payment[u].debt] # NoRow /\ payment[u].debt \in Debts \ new
    BY <2>1 DEF MCIInv, IInv, RowsExist, Opens
  <2>. QED  BY <1>3, <1>4, <1>5, <2>1, <2>2 DEF MCIInv, PaymentsHaveTx, Opens
<1>8. OriginsHaveTx'
  <2>. SUFFICES ASSUME NEW u \in Txs, OpenedBy(u)' # {}
       PROVE  /\ tx'[u] # NoRow
              /\ \A d, e \in OpenedBy(u)' : debt'[d].type = debt'[e].type
              /\ u \notin edited' =>
                   /\ \A d \in OpenedBy(u)' :
                        tx'[u].type = TransactionTypeFor(debt'[d].type, "origination")
                   /\ SplitsFit => SumFunctionOnSet(Principal', OpenedBy(u)') <= tx'[u].amount
    BY DEF OriginsHaveTx
  <2>1. CASE u = t
    BY <1>3, <1>4, <2>1
  <2>2. CASE u # t
    <3>1. OpenedBy(u)' = OpenedBy(u) /\ OpenedBy(u) # {} /\ tx'[u] = tx[u]
      BY <1>3, <1>4, <2>2
    <3>2. OpenedBy(u) \subseteq Opened /\ Opened \subseteq Debts
      BY DEF OpenedBy, Opened
    <3>3. \A d \in OpenedBy(u) : debt'[d] = debt[d] /\ Principal'[d] = Principal[d]
      BY <1>3, <3>2 DEF Opens
    <3>4. SumFunctionOnSet(Principal', OpenedBy(u)) = SumFunctionOnSet(Principal, OpenedBy(u))
      BY <3>2, <3>3, SumAgree, FS_Subset DEF MCIInv, FiniteOpened
    <3>. QED  BY <1>5, <3>1, <3>3, <3>4 DEF MCIInv, OriginsHaveTx
  <2>. QED  BY <2>1, <2>2
<1>. QED  BY <1>6, <1>7, <1>8

(* So do the steps that open no debt: only an edit changes a transaction,  *)
(* and it is remembered.                                                   *)
LEMMA KeepingRowsKeepsBooks ==
  ASSUME MCIInv, MCNext, RowsKept, payment' = payment,
         \A t \in Txs : tx'[t] # tx[t] => tx[t] # NoRow /\ tx'[t] # NoRow
  PROVE  FiniteOpened' /\ PaymentsHaveTx' /\ OriginsHaveTx'
<1>1. TypeOK
  BY DEF MCIInv, IInv
<1>2. /\ Principal' = Principal /\ Opened' = Opened
      /\ \A t \in Txs : OpenedBy(t)' = OpenedBy(t)
  BY KeptRows
<1>3. \A t \in Txs : /\ t \notin edited' => t \notin edited /\ tx'[t] = tx[t]
                     /\ tx[t] # NoRow => tx'[t] # NoRow
  BY DEF MCNext
<1>4. \A t \in Txs : payment[t] # NoRow =>
        payment[t].debt \in Debts /\ debt'[payment[t].debt].type = debt[payment[t].debt].type
  BY <1>1 DEF RowsKept, TypeOK, PaymentRow, MCIInv, IInv, RowsExist
<1>5. \A t \in Txs : \A d \in OpenedBy(t) : debt'[d].type = debt[d].type
  BY DEF RowsKept, OpenedBy
<1>6. FiniteOpened'
  BY <1>2 DEF MCIInv, FiniteOpened
<1>7. PaymentsHaveTx'
  BY <1>2, <1>3, <1>4 DEF MCIInv, PaymentsHaveTx
<1>8. OriginsHaveTx'
  BY <1>2, <1>3, <1>5 DEF MCIInv, OriginsHaveTx
<1>. QED  BY <1>6, <1>7, <1>8

LEMMA PaymentKeepsBooks ==
  ASSUME MCIInv, MCNext, NEW s \in Sessions, NEW t \in Txs, PayCommit(s, t)
  PROVE  FiniteOpened' /\ PaymentsHaveTx' /\ OriginsHaveTx'
<1>. SUFFICES ASSUME NEW d, d = req[s].debt, NEW a, a = req[s].amount
     PROVE  FiniteOpened' /\ PaymentsHaveTx' /\ OriginsHaveTx'
  OBVIOUS
<1>1. IInv /\ TypeOK /\ UnusedTx(t)
  BY DEF MCIInv, IInv, PayCommit
<1>2. /\ d \in Debts /\ debt[d] # NoRow
      /\ payment' = [payment EXCEPT ![t] = [debt |-> d, amount |-> a]]
  BY <1>1, PaidGrows
<1>3. RowsKept
  BY <1>1, PaymentKeepsRows
<1>4. /\ Principal' = Principal /\ Opened' = Opened
      /\ \A u \in Txs : OpenedBy(u)' = OpenedBy(u)
  BY <1>3, KeptRows
<1>5. tx' = [tx EXCEPT ![t] = [type   |-> TransactionTypeFor(debt[d].type, "payment"),
                               amount |-> a]]
  BY DEF PayCommit
<1>6. /\ tx'[t] = [type |-> TransactionTypeFor(debt[d].type, "payment"), amount |-> a]
      /\ payment'[t] = [debt |-> d, amount |-> a]
      /\ \A u \in Txs \ {t} : tx'[u] = tx[u] /\ payment'[u] = payment[u]
  BY <1>1, <1>2, <1>5 DEF TypeOK
<1>7. tx'[t] # NoRow
  <2>1. a \in Money \ {0}
    BY <1>1, RequestParts DEF PayCommit
  <2>. QED  BY <1>6, <2>1, NoRowIsNoRow DEF TxRow, TransactionTypeFor
<1>8. edited' = edited
  BY <1>1, <1>6 DEF MCNext, UnusedTx
<1>9. OpenedBy(t) = {}
  BY <1>1 DEF MCIInv, OriginsHaveTx, UnusedTx
<1>10. FiniteOpened'
  BY <1>4 DEF MCIInv, FiniteOpened
<1>11. \A e \in Debts : debt[e] # NoRow => debt'[e].type = debt[e].type
  BY <1>3 DEF RowsKept
<1>12. PaymentsHaveTx'
  <2>. SUFFICES ASSUME NEW u \in Txs, payment'[u] # NoRow
       PROVE  /\ tx'[u] # NoRow /\ OpenedBy(u)' = {}
              /\ u \notin edited' =>
                   tx'[u] = [type   |-> TransactionTypeFor(debt'[payment'[u].debt].type, "payment"),
                             amount |-> payment'[u].amount]
    BY DEF PaymentsHaveTx
  <2>1. CASE u = t
    <3>1. payment'[u].debt = d /\ payment'[u].amount = a /\ debt'[d].type = debt[d].type
      BY <1>2, <1>6, <1>11, <2>1
    <3>. QED  BY <1>4, <1>6, <1>7, <1>9, <2>1, <3>1
  <2>2. CASE u # t
    <3>1. payment'[u] = payment[u] /\ tx'[u] = tx[u] /\ payment[u].debt \in Debts
      BY <1>1, <1>6, <2>2 DEF TypeOK, PaymentRow
    <3>2. debt'[payment[u].debt].type = debt[payment[u].debt].type
      BY <1>1, <1>11, <3>1 DEF IInv, RowsExist
    <3>. QED  BY <1>4, <1>8, <3>1, <3>2 DEF MCIInv, PaymentsHaveTx
  <2>. QED  BY <2>1, <2>2
<1>13. OriginsHaveTx'
  <2>1. \A u \in Txs : OpenedBy(u) # {} => u # t
    BY <1>9
  <2>2. \A u \in Txs : \A e \in OpenedBy(u) : debt'[e].type = debt[e].type
    BY <1>11 DEF OpenedBy
  <2>. QED  BY <1>4, <1>6, <1>8, <2>1, <2>2 DEF MCIInv, OriginsHaveTx
<1>. QED  BY <1>10, <1>12, <1>13

(* With one request at a time, what an update read is still so.            *)
LEMMA OneAtATimeStays ==
  ASSUME MCIInv, MCNext, ~ raced',
         \A s \in Sessions : req'[s].kind = "update" =>
           Resolves(debt'[req'[s].debt], req'[s].status),
         \A d \in Debts : debt'[d] # NoRow => Resolves(debt'[d], debt'[d].status)
  PROVE  OneAtATime'
BY DEF MCNext, OneAtATime, StatusMatchesPayment

LEMMA NotRacedBefore ==
  ASSUME MCIInv, MCNext, ~ raced'
  PROVE  /\ ~ raced
         /\ \A s, r \in Sessions : req[s] # Idle /\ req[r] # Idle => s = r
         /\ \A s, r \in Sessions : req'[s] # Idle /\ req'[r] # Idle => s = r
         /\ \A s \in Sessions : req[s].kind = "update" =>
              /\ req[s].debt \in Debts /\ debt[req[s].debt] # NoRow
              /\ Resolves(debt[req[s].debt], req[s].status)
         /\ \A d \in Debts : debt[d] # NoRow => Resolves(debt[d], debt[d].status)
BY RequestParts DEF MCIInv, IInv, RowsExist, MCNext, OneAtATime, StatusMatchesPayment

(* A new debt is open, with nothing paid.                                  *)
LEMMA OpeningOneAtATime ==
  ASSUME MCIInv, MCNext, UNCHANGED req, NEW t \in Txs, UnusedTx(t),
         NEW type \in {"receivable", "payable"}, NEW new \in SUBSET Debts, Opens(new, type, t)
  PROVE  OneAtATime'
<1>. SUFFICES ASSUME ~ raced' PROVE OneAtATime'
  BY DEF OneAtATime
<1>1. OpenedBy(t) = {}
  BY DEF MCIInv, OriginsHaveTx, UnusedTx
<1>2. \A d \in new : Resolves(debt'[d], debt'[d].status)
  <2>1. \A d \in new : debt'[d].status = "open" /\ debt'[d].paid = 0
    BY <1>1, OpenedRows
  <2>. QED  BY <2>1 DEF Resolves, StatusForAmounts
<1>3. \A d \in Debts : debt[d] # NoRow => debt'[d] = debt[d]
  BY DEF Opens
<1>4. \A d \in Debts : debt'[d] # NoRow => Resolves(debt'[d], debt'[d].status)
  BY <1>2, NotRacedBefore DEF Opens
<1>. QED  BY <1>3, <1>4, NotRacedBefore, OneAtATimeStays

(* Steps that change the status of d alone, to one that suits its amounts. *)
LEMMA StatusOneAtATime ==
  ASSUME MCIInv, MCNext, NEW d \in Debts, debt[d] # NoRow, NEW st \in Statuses,
         debt' = [debt EXCEPT ![d].status = st], debt'[d] # NoRow,
         \A s \in Sessions : req'[s].kind = "update" => req'[s] = req[s],
         ~ raced => Resolves(debt[d], st)
  PROVE  OneAtATime' /\ RowsKept
<1>1. TypeOK
  BY DEF MCIInv, IInv
<1>2. /\ RowsKept
      /\ \A e \in Debts \ {d} : debt'[e] = debt[e]
      /\ \A x : Resolves(debt'[d], x) <=> Resolves(debt[d], x)
      /\ debt'[d].status = st
  BY <1>1, StatusKeepsRows
<1>3. ASSUME ~ raced' PROVE OneAtATime'
  <2>1. \A e \in Debts : debt'[e] # NoRow => Resolves(debt'[e], debt'[e].status)
    BY <1>2, <1>3, NotRacedBefore
  <2>2. \A s \in Sessions : req'[s].kind = "update" =>
          Resolves(debt'[req'[s].debt], req'[s].status)
    BY <1>2, <1>3, NotRacedBefore
  <2>. QED  BY <1>3, <2>1, <2>2, OneAtATimeStays
<1>. QED  BY <1>2, <1>3 DEF OneAtATime

LEMMA SplitFits ==
  ASSUME SplitsFit, NEW total \in Amounts, NEW n \in 1 .. MaxSplits,
         NEW amounts \in [1 .. n -> Amounts], ValidSplit(amounts, total)
  PROVE  SumFunctionOnSet(amounts, 1 .. n) <= total
<1>1. n \in Nat /\ IsFiniteSet(1 .. n)
  BY SplitCount
<1>2. \A i \in 1 .. n : amounts[i] \in Nat
  BY AmountsAreMoney, MoneyParts
<1>3. SumFunctionOnSet(amounts, 1 .. n) \in Nat
  BY <1>1, <1>2, SumNat
<1>4. SumFunctionOnSet(amounts, 1 .. n) < Half
  BY DEF SplitsFit, SumFunction
<1>5. SplitTotal(amounts) = SumFunctionOnSet(amounts, 1 .. n)
  <2>. DEFINE S == SumFunctionOnSet(amounts, 1 .. n)
  <2>1. SplitTotal(amounts) = ((S + Half) % (2 * Half)) - Half
    BY DEF SplitTotal, SumFunction
  <2>. HIDE DEF S
  <2>2. Half \in Nat /\ Half > 0
    BY MoneyParts
  <2>3. (S + Half) % (2 * Half) = S + Half
    <3>1. S + Half \in Nat /\ S + Half < 2 * Half /\ 2 * Half \in Nat
      BY <1>3, <1>4, <2>2 DEF S
    <3>. QED  BY <3>1
  <2>. QED  BY <1>3, <2>1, <2>2, <2>3 DEF S
<1>. QED  BY <1>5 DEF ValidSplit

(* The principals of the debts of a split bill are its splits.             *)
LEMMA SplitOpens ==
  ASSUME IInv, NEW t \in Txs, NEW total \in Amounts, NEW n \in 1 .. MaxSplits,
         NEW amounts \in [1 .. n -> Amounts], NEW ds \in [1 .. n -> Debts], IsInjective(ds),
         SplitExpense(t, total, amounts, ds), OpenedBy(t) = {},
         NEW new, new = {ds[i] : i \in 1 .. n}
  PROVE  /\ new \in SUBSET Debts /\ IsFiniteSet(new)
         /\ Opens(new, "receivable", t)
         /\ SplitsFit => SumFunctionOnSet(Principal', new) <= total
<1>1. new \in SUBSET Debts
  OBVIOUS
<1>2. n \in Nat /\ IsFiniteSet(1 .. n)
  BY SplitCount
<1>3. IsFiniteSet(new)
  BY <1>2, FiniteImage
<1>4. \A i, j \in 1 .. n : ds[i] = ds[j] => i = j
  BY DEF IsInjective
<1>5. \A i \in 1 .. n : /\ debt[ds[i]] = NoRow
                        /\ debt'[ds[i]] = NewDebt("receivable", amounts[i], t)
  <2>. SUFFICES ASSUME NEW i \in 1 .. n
       PROVE  /\ debt[ds[i]] = NoRow
              /\ debt'[ds[i]] = NewDebt("receivable", amounts[i], t)
    OBVIOUS
  <2>1. (CHOOSE j \in DOMAIN ds : ds[j] = ds[i]) = i
    BY <1>4
  <2>. QED  BY <2>1 DEF SplitExpense
<1>6. \A d \in Debts \ new : debt'[d] = debt[d]
  BY DEF SplitExpense
<1>7. Opens(new, "receivable", t)
  BY <1>5, <1>6 DEF Opens
<1>8. \A i \in 1 .. n : amounts[i] \in Int /\ Principal'[ds[i]] = amounts[i]
  <2>1. \A i \in 1 .. n : amounts[i] \in Int
    BY AmountsAreMoney, MoneyParts
  <2>2. \A i \in 1 .. n : debt'[ds[i]] # NoRow
    BY <1>5, NewDebtParts, NoRowIsNoRow
  <2>3. \A i \in 1 .. n : debt'[ds[i]].principal = amounts[i]
    <3>1. \A i \in 1 .. n : NewDebt("receivable", amounts[i], t).principal = amounts[i]
      BY DEF NewDebt
    <3>. QED  BY <1>5, <3>1
  <2>4. \A d \in Debts : debt'[d] # NoRow => Principal'[d] = debt'[d].principal
    BY DEF Principal
  <2>. QED  BY <2>1, <2>2, <2>3, <2>4
<1>9. SumFunctionOnSet(Principal', new) = SumFunctionOnSet(amounts, 1 .. n)
  <2>1. Reindexes(ds, 1 .. n, new, amounts, Principal')
    BY <1>4, <1>8 DEF Reindexes
  <2>. QED  BY <1>2, <2>1, SumReindex
<1>10. SplitsFit => SumFunctionOnSet(amounts, 1 .. n) <= total
  BY SplitFits DEF SplitExpense
<1>. QED  BY <1>1, <1>3, <1>7, <1>9, <1>10

LEMMA MCInitInv == MCInit => MCIInv
<1>. SUFFICES ASSUME MCInit PROVE MCIInv
  OBVIOUS
<1>1. IInv
  BY InitInv DEF MCInit
<1>2. Opened = {} /\ \A t \in Txs : OpenedBy(t) = {} /\ payment[t] = NoRow
  BY DEF MCInit, Init, Opened, OpenedBy
<1>3. FiniteOpened
  BY <1>2, FS_EmptySet DEF FiniteOpened
<1>4. OneAtATime
  BY DEF MCInit, Init, OneAtATime, StatusMatchesPayment, Idle
<1>5. PaymentsHaveTx /\ OriginsHaveTx
  BY <1>2 DEF PaymentsHaveTx, OriginsHaveTx
<1>. QED  BY <1>1, <1>3, <1>4, <1>5 DEF MCIInv

(* What a step adds to IInv for the properties of MCDebt.                  *)
Extra == FiniteOpened /\ OneAtATime /\ PaymentsHaveTx /\ OriginsHaveTx

LEMMA CreateKeepsExtra ==
  ASSUME MCIInv, MCNext, NEW d \in Debts, NEW t \in Txs, NEW a \in Amounts,
         NEW type \in {"receivable", "payable"}, Create(d, t, type, a)
  PROVE  Extra'
<1>1. /\ UnusedTx(t) /\ debt[d] = NoRow /\ payment' = payment /\ req' = req
      /\ tx' = [tx EXCEPT ![t] = [type |-> TransactionTypeFor(type, "origination"), amount |-> a]]
      /\ debt' = [debt EXCEPT ![d] = NewDebt(type, a, t)]
  BY DEF Create
<1>2. debt'[d] = NewDebt(type, a, t) /\ \A e \in Debts \ {d} : debt'[e] = debt[e]
  BY <1>1 DEF MCIInv, IInv, TypeOK
<1>3. Opens({d}, type, t) /\ {d} \in SUBSET Debts /\ IsFiniteSet({d})
  BY <1>1, <1>2, FS_Singleton DEF Opens
<1>4. [type |-> TransactionTypeFor(type, "origination"), amount |-> a] # NoRow
  BY AmountsAreMoney, NoRowIsNoRow DEF TxRow, TransactionTypeFor
<1>5. SumFunctionOnSet(Principal', {d}) <= a
  <2>1. Principal'[d] = a /\ a \in Int
    <3>1. debt'[d] # NoRow /\ debt'[d].principal = a
      BY <1>2, NewDebtParts, NoRowIsNoRow DEF NewDebt
    <3>. QED  BY <3>1, AmountsAreMoney, MoneyParts DEF Principal
  <2>2. \A f : SumFunctionOnSet(f, {}) = 0
    BY SumEmpty
  <2>3. IsFiniteSet({}) /\ d \notin {} /\ {} \cup {d} = {d}
    BY FS_EmptySet
  <2>4. SumFunctionOnSet(Principal', {} \cup {d}) = Principal'[d] + SumFunctionOnSet(Principal', {})
    BY <2>1, <2>3, SumAdd
  <2>. QED  BY <2>1, <2>2, <2>3, <2>4
<1>6. FiniteOpened' /\ PaymentsHaveTx' /\ OriginsHaveTx'
  BY <1>1, <1>3, <1>4, <1>5, OpeningKeepsBooks
<1>7. OneAtATime'
  BY <1>1, <1>3, OpeningOneAtATime
<1>. QED  BY <1>6, <1>7 DEF Extra

LEMMA SplitKeepsExtra ==
  ASSUME MCIInv, MCNext, NEW t \in Txs, NEW total \in Amounts,
         NEW n \in 1 .. MaxSplits,
         NEW amounts \in [1 .. n -> Amounts], NEW ds \in [1 .. n -> Debts], IsInjective(ds),
         SplitExpense(t, total, amounts, ds)
  PROVE  Extra'
<1>1. /\ UnusedTx(t) /\ payment' = payment /\ req' = req
      /\ tx' = [tx EXCEPT ![t] = [type |-> "expense", amount |-> total]]
      /\ TransactionTypeFor("receivable", "origination") = "expense"
  BY DEF SplitExpense, TransactionTypeFor
<1>2. IInv /\ OpenedBy(t) = {}
  BY <1>1 DEF MCIInv, OriginsHaveTx, UnusedTx
<1>. SUFFICES ASSUME NEW new, new = {ds[i] : i \in 1 .. n} PROVE Extra'
  OBVIOUS
<1>3. /\ new \in SUBSET Debts /\ IsFiniteSet(new) /\ Opens(new, "receivable", t)
      /\ SplitsFit => SumFunctionOnSet(Principal', new) <= total
  BY <1>2, SplitOpens
<1>4. [type |-> "expense", amount |-> total] # NoRow
  BY AmountsAreMoney, NoRowIsNoRow DEF TxRow
<1>5. FiniteOpened' /\ PaymentsHaveTx' /\ OriginsHaveTx'
  BY <1>1, <1>3, <1>4, OpeningKeepsBooks
<1>6. OneAtATime'
  BY <1>1, <1>3, OpeningOneAtATime
<1>. QED  BY <1>5, <1>6 DEF Extra

(* UpdateRead, PayLock, Fail and EditTransaction leave the debts alone.    *)
LEMMA SameDebtsKeepExtra ==
  ASSUME MCIInv, MCNext, debt' = debt, payment' = payment,
         \A t \in Txs : tx'[t] # tx[t] => tx[t] # NoRow /\ tx'[t] # NoRow,
         \A s \in Sessions : req'[s].kind = "update" =>
           \/ req'[s] = req[s]
           \/ Resolves(debt[req'[s].debt], req'[s].status)
  PROVE  Extra'
<1>1. RowsKept
  BY DEF RowsKept
<1>2. FiniteOpened' /\ PaymentsHaveTx' /\ OriginsHaveTx'
  BY <1>1, KeepingRowsKeepsBooks
<1>3. ASSUME ~ raced' PROVE OneAtATime'
  <2>1. \A s \in Sessions : req'[s].kind = "update" =>
          Resolves(debt'[req'[s].debt], req'[s].status)
    BY <1>3, NotRacedBefore
  <2>. QED  BY <1>3, <2>1, NotRacedBefore, OneAtATimeStays
<1>4. OneAtATime'
  BY <1>3 DEF OneAtATime
<1>. QED  BY <1>2, <1>4 DEF Extra

LEMMA UpdateWriteKeepsExtra ==
  ASSUME MCIInv, MCNext, NEW s \in Sessions, UpdateWrite(s), IInv'
  PROVE  Extra'
<1>. SUFFICES ASSUME NEW d, d = req[s].debt, NEW st, st = req[s].status PROVE Extra'
  OBVIOUS
<1>1. TypeOK /\ req[s].kind = "update"
  BY DEF MCIInv, IInv, UpdateWrite
<1>2. d \in Debts /\ st \in Statuses /\ debt[d] # NoRow
  BY <1>1, RequestParts DEF MCIInv, IInv, RowsExist
<1>3. /\ debt' = [debt EXCEPT ![d].status = st] /\ UNCHANGED <<tx, payment>>
      /\ req' = [req EXCEPT ![s] = Idle]
  BY DEF UpdateWrite, Finish
<1>4. \A r \in Sessions : req'[r].kind = "update" => req'[r] = req[r]
  BY <1>1, <1>3 DEF TypeOK, Idle
<1>5. ~ raced => Resolves(debt[d], st)
  BY <1>1 DEF MCIInv, OneAtATime
<1>6. debt'[d] # NoRow
  BY <1>1, <1>2, <1>3, StatusLeavesRow
<1>7. OneAtATime' /\ RowsKept
  BY <1>2, <1>3, <1>4, <1>5, <1>6, StatusOneAtATime
<1>8. FiniteOpened' /\ PaymentsHaveTx' /\ OriginsHaveTx'
  BY <1>3, <1>7, KeepingRowsKeepsBooks
<1>. QED  BY <1>7, <1>8 DEF Extra

LEMMA DeleteKeepsExtra ==
  ASSUME MCIInv, MCNext, NEW d \in Debts, Delete(d), IInv'
  PROVE  Extra'
<1>1. /\ debt[d] # NoRow /\ debt' = [debt EXCEPT ![d].status = "cancelled"]
      /\ UNCHANGED <<tx, payment, req>>
  BY DEF Delete
<1>2. "cancelled" \in Statuses /\ Resolves(debt[d], "cancelled")
  BY DEF Statuses, Resolves
<1>3. debt'[d] # NoRow
  BY <1>1, <1>2, StatusLeavesRow DEF MCIInv, IInv
<1>4. OneAtATime' /\ RowsKept
  BY <1>1, <1>2, <1>3, StatusOneAtATime
<1>5. FiniteOpened' /\ PaymentsHaveTx' /\ OriginsHaveTx'
  BY <1>1, <1>4, KeepingRowsKeepsBooks
<1>. QED  BY <1>4, <1>5 DEF Extra

LEMMA PaymentKeepsExtra ==
  ASSUME MCIInv, MCNext, NEW s \in Sessions, NEW t \in Txs, PayCommit(s, t)
  PROVE  Extra'
<1>. SUFFICES ASSUME NEW d, d = req[s].debt PROVE Extra'
  OBVIOUS
<1>1. FiniteOpened' /\ PaymentsHaveTx' /\ OriginsHaveTx'
  BY PaymentKeepsBooks
<1>2. IInv /\ TypeOK /\ req[s] # Idle /\ req' = [req EXCEPT ![s] = Idle]
  BY DEF MCIInv, IInv, PayCommit, Finish, Idle
<1>3. /\ \A e \in Debts \ {d} : debt'[e] = debt[e]
      /\ Resolves(debt'[d], debt'[d].status)
  BY <1>2, PaymentKeepsRows
<1>4. ASSUME ~ raced' PROVE OneAtATime'
  <2>1. \A r \in Sessions \ {s} : req[r] = Idle
    BY <1>2, <1>4, NotRacedBefore
  <2>2. \A r \in Sessions : req'[r] = Idle
    BY <1>2, <2>1 DEF TypeOK
  <2>3. \A r \in Sessions : req'[r].kind # "update"
    BY <2>2 DEF Idle
  <2>4. \A e \in Debts : debt'[e] # NoRow => Resolves(debt'[e], debt'[e].status)
    BY <1>3, <1>4, NotRacedBefore
  <2>. QED  BY <1>4, <2>3, <2>4, OneAtATimeStays
<1>5. OneAtATime'
  BY <1>4 DEF OneAtATime
<1>. QED  BY <1>1, <1>5 DEF Extra

LEMMA MCNextKeepsInv ==
  ASSUME MCIInv, [MCNext]_<<vars, raced, edited>>
  PROVE  MCIInv'
<1>1. CASE UNCHANGED <<vars, raced, edited>>
  <2>1. IInv'
    BY <1>1, NextKeepsInv DEF MCIInv, vars
  <2>2. /\ Opened' = Opened /\ Principal' = Principal
        /\ \A t \in Txs : OpenedBy(t)' = OpenedBy(t)
    BY <1>1 DEF vars, Opened, Principal, OpenedBy
  <2>3. FiniteOpened' /\ PaymentsHaveTx' /\ OriginsHaveTx'
    BY <1>1, <2>2 DEF vars, MCIInv, FiniteOpened, PaymentsHaveTx, OriginsHaveTx
  <2>4. OneAtATime'
    BY <1>1 DEF vars, MCIInv, OneAtATime, StatusMatchesPayment
  <2>. QED  BY <2>1, <2>3, <2>4 DEF MCIInv
<1>2. CASE MCNext
  <2>1. IInv'
    BY <1>2, NextKeepsInv DEF MCIInv, MCNext
  <2>. SUFFICES Extra'
    BY <2>1 DEF Extra, MCIInv
  <2>2. CASE \E d \in Debts, t \in Txs, a \in Amounts :
               \E type \in {"receivable", "payable"} : Create(d, t, type, a)
    BY <1>2, <2>2, CreateKeepsExtra
  <2>3. CASE \E t \in Txs, a \in Amounts : CreateSplit(t, a)
    BY <1>2, <2>3, SplitKeepsExtra DEF CreateSplit
  <2>4. CASE \E s \in Sessions, d \in Debts : \E st \in UpdateStatuses : UpdateRead(s, d, st)
    <3>. PICK s \in Sessions, d \in Debts, st \in UpdateStatuses : UpdateRead(s, d, st)
      BY <2>4
    <3>. PICK next : /\ Resolves(debt[d], next)
                     /\ req' = [req EXCEPT ![s] = [kind |-> "update", debt |-> d, status |-> next]]
      BY DEF UpdateRead, Begin
    <3>1. \A r \in Sessions : \/ req'[r] = req[r]
                              \/ Resolves(debt[req'[r].debt], req'[r].status)
      BY DEF MCIInv, IInv, TypeOK
    <3>2. UNCHANGED <<debt, tx, payment>>
      BY DEF UpdateRead
    <3>. QED  BY <1>2, <3>1, <3>2, SameDebtsKeepExtra
  <2>5. CASE \E s \in Sessions, d \in Debts : \E a \in Amounts : PayLock(s, d, a)
    <3>. PICK s \in Sessions, d \in Debts, a \in Amounts : PayLock(s, d, a)
      BY <2>5
    <3>1. \A r \in Sessions : req'[r].kind = "update" => req'[r] = req[r]
      BY DEF PayLock, Begin, MCIInv, IInv, TypeOK
    <3>2. UNCHANGED <<debt, tx, payment>>
      BY DEF PayLock
    <3>. QED  BY <1>2, <3>1, <3>2, SameDebtsKeepExtra
  <2>6. CASE \E d \in Debts : Delete(d)
    BY <1>2, <2>1, <2>6, DeleteKeepsExtra
  <2>7. CASE \E s \in Sessions : UpdateWrite(s)
    BY <1>2, <2>1, <2>7, UpdateWriteKeepsExtra
  <2>8. CASE \E s \in Sessions : Fail(s)
    <3>. PICK s \in Sessions : Fail(s)
      BY <2>8
    <3>1. \A r \in Sessions : req'[r].kind = "update" => req'[r] = req[r]
      BY DEF Fail, Finish, Idle, MCIInv, IInv, TypeOK
    <3>2. UNCHANGED <<debt, tx, payment>>
      BY DEF Fail
    <3>. QED  BY <1>2, <3>1, <3>2, SameDebtsKeepExtra
  <2>9. CASE \E s \in Sessions, t \in Txs : PayCommit(s, t)
    BY <1>2, <2>9, PaymentKeepsExtra
  <2>10. CASE \E t \in Txs, type \in {"income", "expense"}, a \in EditAmounts :
                EditTransaction(t, type, a)
    <3>. PICK t \in Txs, type \in {"income", "expense"}, a \in EditAmounts :
                EditTransaction(t, type, a)
      BY <2>10
    <3>1. [type |-> type, amount |-> a] # NoRow
      BY AmountsAreMoney, NoRowIsNoRow DEF TxRow
    <3>2. \A u \in Txs : tx'[u] # tx[u] => tx[u] # NoRow /\ tx'[u] # NoRow
      BY <3>1 DEF EditTransaction, MCIInv, IInv, TypeOK
    <3>3. UNCHANGED <<debt, payment, req>>
      BY DEF EditTransaction
    <3>. QED  BY <1>2, <3>2, <3>3, SameDebtsKeepExtra
  <2>. QED
    BY <1>2, <2>2, <2>3, <2>4, <2>5, <2>6, <2>7, <2>8, <2>9, <2>10 DEF MCNext, Next
<1>. QED  BY <1>1, <1>2

LEMMA MCInvariance == MCSpec => []MCIInv
<1>1. MCIInv /\ [MCNext]_<<vars, raced, edited>> => MCIInv'
  BY MCNextKeepsInv
<1>. QED  BY <1>1, MCInitInv, PTL DEF MCSpec

(* What the books of the debts over t add up to.                           *)
PaymentsOf(ds) == UNION {Paid(d) : d \in ds}
Lent(ds)       == \A d \in ds : debt[d].type = "receivable"

LEMMA PaymentsOfBill ==
  ASSUME MCIInv, NEW t \in Txs, OpenedBy(t) # {}, NEW O, O = OpenedBy(t),
         NEW P, P = PaymentsOf(O)
  PROVE  /\ IsFiniteSet(O) /\ IsFiniteSet(P) /\ P \subseteq Txs /\ t \notin P
         /\ \A u \in P : Amount[u] \in Int
         /\ SumFunctionOnSet(Principal, O)
              = SumFunctionOnSet(Remaining, O) + SumFunctionOnSet(Amount, P)
         /\ SumFunctionOnSet(Remaining, O) \in Int /\ SumFunctionOnSet(Amount, P) \in Int
<1>. DEFINE F == [d \in O |-> debt[d].paid]
            A == [d \in O |-> Paid(d)]
<1>1. TypeOK /\ IInv
  BY DEF MCIInv, IInv
<1>2. \A d \in O : /\ d \in Debts /\ debt[d] # NoRow
                   /\ debt[d].paid \in Nat /\ debt[d].principal \in Nat
  BY <1>1, OriginOf, RowParts
<1>3. IsFiniteSet(O)
  <2>1. O \subseteq Opened
    BY DEF OpenedBy, Opened
  <2>. QED  BY <2>1, FS_Subset DEF MCIInv, FiniteOpened
<1>4. P \subseteq Txs /\ t \notin P
  BY DEF PaymentsOf, Paid, MCIInv, PaymentsHaveTx
<1>5. Amount \in [Txs -> Int]
  BY <1>1, AmountType
<1>6. Groups(A, O, P, Amount, F)
  <2>1. \A d, e \in O : d # e => A[d] \cap A[e] = {}
    BY DEF Paid
  <2>2. \A d \in O : IsFiniteSet(Paid(d)) /\ F[d] = SumFunctionOnSet(Amount, Paid(d))
    BY <1>1, <1>2 DEF IInv, FinitePayments, PaidIsSumOfPayments
  <2>. QED  BY <1>4, <1>5, <2>1, <2>2 DEF Groups, PaymentsOf
<1>7. \A d \in O : /\ Remaining[d] \in Int /\ F[d] \in Int
                   /\ Principal[d] = Remaining[d] + F[d]
  BY <1>2 DEF Remaining, Principal
<1>. HIDE DEF A, F
<1>8. IsFiniteSet(P) /\ SumFunctionOnSet(Amount, P) = SumFunctionOnSet(F, O)
  BY <1>3, <1>6, SumOfSums
<1>9. SumFunctionOnSet(Principal, O) = SumFunctionOnSet(Remaining, O) + SumFunctionOnSet(F, O)
  BY <1>3, <1>7, SumPlus
<1>10. SumFunctionOnSet(Remaining, O) \in Int /\ SumFunctionOnSet(F, O) \in Int
  BY <1>3, <1>7, SumInt
<1>. QED  BY <1>3, <1>4, <1>5, <1>8, <1>9, <1>10

(* The cash that these books moved.                                        *)
LEMMA CashOfBill ==
  ASSUME SplitsFit, MCIInv, NEW t \in Txs, OpenedBy(t) # {}, TxsAround(t) \cap edited = {},
         NEW O, O = OpenedBy(t), NEW P, P = PaymentsOf(O)
  PROVE  /\ tx[t].amount \in Int /\ SumFunctionOnSet(Principal, O) <= tx[t].amount
         /\ Lent(O) => Cash[t] = -tx[t].amount /\ \A u \in P : Cash[u] = Amount[u]
         /\ ~ Lent(O) => Cash[t] = tx[t].amount /\ \A u \in P : Cash[u] = -Amount[u]
<1>1. TypeOK
  BY DEF MCIInv, IInv
<1>2. \A d \in O : /\ d \in Debts /\ debt[d] # NoRow
                   /\ debt[d].type \in {"receivable", "payable"}
  BY <1>1, OriginOf, RowParts
<1>3. t \notin edited /\ \A u \in P : u \notin edited
  BY DEF TxsAround, PaymentsOf
<1>4. /\ tx[t] # NoRow
      /\ \A d, e \in O : debt[d].type = debt[e].type
      /\ \A d \in O : tx[t].type = TransactionTypeFor(debt[d].type, "origination")
      /\ SumFunctionOnSet(Principal, O) <= tx[t].amount
  BY <1>3 DEF MCIInv, OriginsHaveTx
<1>5. tx[t].amount \in Int
  BY <1>1, <1>4, MoneyParts DEF TypeOK, TxRow
<1>6. \A u \in P : /\ u \in Txs /\ payment[u] # NoRow /\ payment[u].debt \in O
                   /\ tx[u] # NoRow
                   /\ tx[u].type = TransactionTypeFor(debt[payment[u].debt].type, "payment")
                   /\ tx[u].amount = payment[u].amount
  <2>. SUFFICES ASSUME NEW u \in P
       PROVE  /\ u \in Txs /\ payment[u] # NoRow /\ payment[u].debt \in O
              /\ tx[u] # NoRow
              /\ tx[u].type = TransactionTypeFor(debt[payment[u].debt].type, "payment")
              /\ tx[u].amount = payment[u].amount
    OBVIOUS
  <2>1. u \in Txs /\ payment[u] # NoRow /\ payment[u].debt \in O
    BY DEF PaymentsOf, Paid
  <2>2. /\ tx[u] # NoRow
        /\ tx[u] = [type   |-> TransactionTypeFor(debt[payment[u].debt].type, "payment"),
                    amount |-> payment[u].amount]
    BY <1>3, <2>1 DEF MCIInv, PaymentsHaveTx
  <2>. QED  BY <2>1, <2>2
<1>7. \A u \in P : Amount[u] = payment[u].amount
  BY <1>6 DEF Amount
<1>8. CASE Lent(O)
  <2>1. tx[t].type = "expense" /\ \A u \in P : tx[u].type = "income"
    BY <1>4, <1>6, <1>8 DEF TransactionTypeFor, Lent
  <2>. QED  BY <1>4, <1>5, <1>6, <1>7, <1>8, <2>1 DEF Cash
<1>9. CASE ~ Lent(O)
  <2>1. \A d \in O : debt[d].type = "payable"
    BY <1>2, <1>4, <1>9 DEF Lent
  <2>2. tx[t].type = "income" /\ \A u \in P : tx[u].type = "expense"
    BY <1>4, <1>6, <2>1 DEF TransactionTypeFor
  <2>. QED  BY <1>4, <1>5, <1>6, <1>7, <1>9, <2>2 DEF Cash
<1>. QED  BY <1>8, <1>9

LEMMA CashFollowsBooks ==
  ASSUME SplitsFit, MCIInv, NEW t \in Txs, OpenedBy(t) # {}, TxsAround(t) \cap edited = {}
  PROVE  OutstandingIsCash(t)
<1>. SUFFICES ASSUME NEW O, O = OpenedBy(t), NEW P, P = PaymentsOf(O)
     PROVE  OutstandingIsCash(t)
  OBVIOUS
<1>. DEFINE principals == SumFunctionOnSet(Principal, O)
            remaining  == SumFunctionOnSet(Remaining, O)
            payments   == SumFunctionOnSet(Amount, P)
            cash       == SumFunctionOnSet(Cash, {t} \cup P)
            spent      == tx[t].amount
            owed       == remaining + (spent - principals)
<1>1. /\ IsFiniteSet(O) /\ IsFiniteSet(P) /\ t \notin P /\ \A u \in P : Amount[u] \in Int
      /\ principals = remaining + payments /\ remaining \in Int /\ payments \in Int
  BY PaymentsOfBill
<1>2. /\ spent \in Int /\ principals <= spent
      /\ Lent(O) => Cash[t] = -spent /\ \A u \in P : Cash[u] = Amount[u]
      /\ ~ Lent(O) => Cash[t] = spent /\ \A u \in P : Cash[u] = -Amount[u]
  BY CashOfBill
<1>3. cash = Cash[t] + SumFunctionOnSet(Cash, P)
  <2>1. \A u \in P \cup {t} : Cash[u] \in Int
    BY <1>1, <1>2
  <2>2. {t} \cup P = P \cup {t}
    OBVIOUS
  <2>3. SumFunctionOnSet(Cash, P \cup {t}) = Cash[t] + SumFunctionOnSet(Cash, P)
    BY <1>1, <2>1, SumAdd
  <2>. QED  BY <2>2, <2>3
<1>4. cash = IF Lent(O) THEN -owed ELSE owed
  <2>1. CASE Lent(O)
    <3>1. SumFunctionOnSet(Cash, P) = payments
      BY <1>1, <1>2, <2>1, SumAgree
    <3>. QED  BY <1>1, <1>2, <1>3, <2>1, <3>1
  <2>2. CASE ~ Lent(O)
    <3>1. SumFunctionOnSet(Cash, P) = -payments
      BY <1>1, <1>2, <2>2, SumNegative
    <3>. QED  BY <1>1, <1>2, <1>3, <2>2, <3>1
  <2>. QED  BY <2>1, <2>2
<1>5. TxsAround(t) = {t} \cup P
  BY DEF TxsAround, PaymentsOf
<1>6. spent - principals >= 0
  BY <1>1, <1>2
<1>. QED  BY <1>4, <1>5, <1>6 DEF OutstandingIsCash, Lent

(* For any numbers of debts, participants, payments and requests: what the *)
(* debts over a transaction still owe is the cash that the user misses     *)
(* (Create, SplitExpense, Pay), and a split bill never asks for more than  *)
(* was spent, as long as no edit changed the transactions and the splits   *)
(* of a request do not wrap around in int64.                               *)
THEOREM OutstandingMatchesCash ==
  ASSUME SplitsFit
  PROVE  MCSpec => []OutstandingIsCashUnedited
<1>1. MCIInv => OutstandingIsCashUnedited
  BY CashFollowsBooks DEF OutstandingIsCashUnedited
<1>. QED  BY MCInvariance, <1>1, PTL
-----------------------------------------------------------------------------
(* The views agree on any rows whose statuses suit their amounts.          *)
Consistent == TypeOK /\ FiniteOpened /\ StatusMatchesPayment

(* A debt still owes something exactly if it is shown as open or partial,  *)
(* or if it was cancelled before it was paid.                              *)
LEMMA OwedByStatus ==
  ASSUME Consistent, NEW d \in Opened
  PROVE  /\ d \in Debts /\ Remaining[d] \in Nat
         /\ debt[d].type \in {"receivable", "payable"}
         /\ d \in StillOwed => Remaining[d] > 0 /\ d \notin Cancelled
         /\ d \notin StillOwed /\ d \notin Cancelled => Remaining[d] = 0
<1>1. d \in Debts /\ debt[d] # NoRow /\ TypeOK
  BY DEF Opened, Consistent
<1>2. /\ debt[d].type \in {"receivable", "payable"}
      /\ debt[d].principal \in Nat /\ debt[d].principal # 0
      /\ debt[d].paid \in Nat /\ debt[d].paid <= debt[d].principal
  BY <1>1, RowParts
<1>3. Remaining[d] = debt[d].principal - debt[d].paid
  BY <1>1 DEF Remaining
<1>4. debt[d].status \in {"cancelled", StatusForAmounts(debt[d].principal, debt[d].paid)}
  BY <1>1 DEF Consistent, StatusMatchesPayment, Resolves
<1>. QED  BY <1>1, <1>2, <1>3, <1>4 DEF StillOwed, Cancelled, StatusForAmounts

LEMMA OpenedAreFinite ==
  ASSUME Consistent, NEW S \in SUBSET Opened
  PROVE  IsFiniteSet(S) /\ \A d \in S : Remaining[d] \in Int
BY OwedByStatus, FS_Subset DEF Consistent, FiniteOpened

(* What is left of debts that are neither owed nor cancelled is nothing.   *)
LEMMA LeftIsOwedOrCancelled ==
  ASSUME Consistent, NEW S \in SUBSET Opened
  PROVE  /\ TotalLeft(S) = TotalLeft(S \cap StillOwed) + TotalLeft(S \cap Cancelled)
         /\ TotalLeft(S) = TotalLeft(S \cap (StillOwed \cup Cancelled))
<1>. DEFINE T == S \cap (StillOwed \cup Cancelled)
            A == S \cap StillOwed
            B == S \cap Cancelled
<1>1. IsFiniteSet(S) /\ IsFiniteSet(T) /\ \A d \in S : Remaining[d] \in Int
  BY OpenedAreFinite
<1>2. T \subseteq S /\ \A d \in S \ T : Remaining[d] = 0
  BY OwedByStatus
<1>3. A \cup B = T /\ A \cap B = {}
  BY OwedByStatus
<1>. HIDE DEF T, A, B
<1>4. SumFunctionOnSet(Remaining, S) = SumFunctionOnSet(Remaining, T)
  BY <1>1, <1>2, SumRestrict
<1>5. SumFunctionOnSet(Remaining, T)
        = SumFunctionOnSet(Remaining, A) + SumFunctionOnSet(Remaining, B)
  BY <1>1, <1>2, <1>3, SumSplit
<1>. QED  BY <1>4, <1>5 DEF TotalLeft, T, A, B

LEMMA BillsOfConsistentRows ==
  ASSUME Consistent
  PROVE  BillsAgree
<1>1. SplitBillList("") = [t \in SplitBills |-> Summary(t)]
  BY DEF SplitBillList, HavingForStatus
<1>. SUFFICES ASSUME NEW t \in SplitBills
     PROVE  /\ Summary(t).remaining = SumFunction(SplitBillDetail(t))
            /\ (Summary(t).status = "ongoing")
                 = (\E d \in OpenedBy(t) : SplitBillDetail(t)[d] > 0)
  BY <1>1 DEF BillsAgree
<1>. DEFINE O    == OpenedBy(t)
            left == SplitBillDetail(t)
<1>2. O \subseteq Opened /\ IsFiniteSet(O)
  <2>1. O \subseteq Opened
    BY DEF OpenedBy, Opened
  <2>. QED  BY <2>1, OpenedAreFinite
<1>3. /\ DOMAIN left = O
      /\ \A d \in O : left[d] = IF debt[d].status = "cancelled" THEN 0 ELSE Remaining[d]
  BY DEF SplitBillDetail
<1>4. \A d \in O : /\ d \in StillOwed => left[d] = Remaining[d] /\ left[d] \in Int /\ left[d] > 0
                   /\ d \notin StillOwed => left[d] = 0
  BY <1>2, <1>3, OwedByStatus DEF StillOwed, Cancelled
<1>5. Summary(t).remaining = SumFunctionOnSet(Remaining, O \cap StillOwed)
  BY DEF Summary, TotalLeft
<1>6. (Summary(t).status = "ongoing") = (O \cap StillOwed # {})
  BY DEF Summary, StatusLabel
<1>. HIDE DEF O, left
<1>7. SumFunctionOnSet(left, O) = SumFunctionOnSet(left, O \cap StillOwed)
  <2>1. O \cap StillOwed \subseteq O
    OBVIOUS
  <2>. QED  BY <1>2, <1>4, <2>1, SumRestrict
<1>8. SumFunctionOnSet(left, O \cap StillOwed) = SumFunctionOnSet(Remaining, O \cap StillOwed)
  <2>1. IsFiniteSet(O \cap StillOwed)
    BY <1>2, FS_Subset
  <2>. QED  BY <1>4, <2>1, SumAgree
<1>9. SumFunction(left) = SumFunctionOnSet(left, O)
  BY <1>3 DEF SumFunction
<1>10. (O \cap StillOwed # {}) = (\E d \in O : left[d] > 0)
  <2>1. ASSUME O \cap StillOwed # {} PROVE \E d \in O : left[d] > 0
    BY <1>4, <2>1
  <2>2. ASSUME NEW d \in O, left[d] > 0 PROVE O \cap StillOwed # {}
    <3>1. left[d] # 0
      BY <2>2
    <3>. QED  BY <1>4, <3>1
  <2>. QED  BY <2>1, <2>2
<1>. QED  BY <1>5, <1>6, <1>7, <1>8, <1>9, <1>10 DEF O, left

(* The ongoing bills split what is still owed among them.                  *)
LEMMA OngoingBillsAddUp ==
  ASSUME Consistent, NEW K, K = {t \in Txs : OpenedBy(t) \cap StillOwed # {}},
         NEW F, \A t \in K : F[t] = TotalLeft(OpenedBy(t) \cap StillOwed)
  PROVE  SumFunctionOnSet(F, K) = TotalLeft(StillOwed)
<1>. DEFINE A == [t \in K |-> OpenedBy(t) \cap StillOwed]
            h == [d \in StillOwed |-> debt[d].origin]
<1>1. StillOwed \subseteq Opened /\ IsFiniteSet(StillOwed) /\ Opened \subseteq Debts
  <2>1. StillOwed \subseteq Opened /\ Opened \subseteq Debts
    BY DEF StillOwed, Opened
  <2>. QED  BY <2>1, OpenedAreFinite
<1>2. \A d \in StillOwed : debt[d].origin \in K /\ d \in OpenedBy(debt[d].origin)
  <2>1. \A d \in StillOwed : d \in Debts /\ debt[d] # NoRow
    BY DEF StillOwed, Opened
  <2>2. \A d \in StillOwed : debt[d].origin \in Txs
    BY <2>1, RowParts DEF Consistent
  <2>. QED  BY <2>1, <2>2 DEF OpenedBy
<1>3. IsFiniteSet(K)
  <2>1. IsFiniteSet({h[d] : d \in StillOwed})
    <3>. HIDE DEF h
    <3>. QED  BY <1>1, FiniteImage
  <2>2. K \subseteq {h[d] : d \in StillOwed}
    BY DEF OpenedBy
  <2>. QED  BY <2>1, <2>2, FS_Subset
<1>4. Groups(A, K, StillOwed, Remaining, F)
  <2>1. \A t, u \in K : t # u => A[t] \cap A[u] = {}
    BY DEF OpenedBy
  <2>2. \A t \in K : A[t] \subseteq StillOwed
    OBVIOUS
  <2>3. \A d \in StillOwed : \E t \in K : d \in A[t]
    BY <1>2
  <2>4. \A d \in StillOwed : Remaining[d] \in Int
    BY <1>1, OpenedAreFinite
  <2>5. \A t \in K : IsFiniteSet(A[t]) /\ F[t] = SumFunctionOnSet(Remaining, A[t])
    BY <1>1, FS_Subset DEF TotalLeft
  <2>. HIDE DEF A
  <2>. QED  BY <2>1, <2>2, <2>3, <2>4, <2>5 DEF Groups
<1>. HIDE DEF A
<1>5. SumFunctionOnSet(Remaining, StillOwed) = SumFunctionOnSet(F, K)
  BY <1>3, <1>4, SumOfSums
<1>. QED  BY <1>5 DEF TotalLeft

(* The members of an order that have fewer than `limit` others before them *)
(* are the first `limit`, or all.                                          *)
LEMMA FirstOfOrder ==
  ASSUME NEW S, IsFiniteSet(S), NEW limit \in Nat,
         NEW rank, \A x \in S : rank[x] \in Nat, \A x, y \in S : rank[x] = rank[y] => x = y,
         NEW before, \A x \in S : before[x] = {y \in S : rank[y] < rank[x]},
         NEW first, first = {x \in S : Cardinality(before[x]) < limit},
         NEW z \in S \ first
  PROVE  Cardinality(first) = limit /\ \A x \in first : rank[x] < rank[z]
<1>1. \A x \in S : /\ before[x] \subseteq S /\ IsFiniteSet(before[x])
                   /\ Cardinality(before[x]) \in Nat
  BY FS_Subset, FS_CardinalityType
<1>2. ASSUME NEW x \in S, NEW y \in S, rank[x] < rank[y]
      PROVE  Cardinality(before[x]) < Cardinality(before[y])
  <2>1. before[x] \subseteq before[y] /\ x \in before[y] /\ x \notin before[x]
    BY <1>2
  <2>2. IsFiniteSet(before[y]) /\ before[x] \in SUBSET before[y]
    BY <1>1, <2>1
  <2>3. /\ Cardinality(before[x]) <= Cardinality(before[y])
        /\ Cardinality(before[y]) = Cardinality(before[x]) => before[y] = before[x]
    BY <2>2, FS_Subset
  <2>. QED  BY <1>1, <2>1, <2>3
<1>3. \A x, y \in S : x = y \/ rank[x] < rank[y] \/ rank[y] < rank[x]
  OBVIOUS
<1>4. \A x \in first : rank[x] < rank[z]
  BY <1>1, <1>2, <1>3
<1>5. IsFiniteSet(first) /\ Cardinality(first) \in Nat /\ Cardinality(first) <= limit
  <2>. DEFINE place == [x \in first |-> Cardinality(before[x])]
  <2>1. \A x \in first : place[x] \in 0 .. (limit - 1)
    BY <1>1
  <2>2. \A x, y \in first : place[x] = place[y] => x = y
    <3>. SUFFICES ASSUME NEW x \in first, NEW y \in first, x # y PROVE place[x] # place[y]
      OBVIOUS
    <3>1. x \in S /\ y \in S /\ (rank[x] < rank[y] \/ rank[y] < rank[x])
      BY <1>3
    <3>. QED  BY <1>1, <1>2, <3>1
  <2>3. place \in Injection(first, 0 .. (limit - 1))
    BY <2>1, <2>2 DEF Injection, IsInjective
  <2>4. IsFiniteSet(0 .. (limit - 1)) /\ Cardinality(0 .. (limit - 1)) = limit
    BY FS_Interval
  <2>. HIDE DEF place
  <2>5. IsFiniteSet(first) /\ Cardinality(first) <= Cardinality(0 .. (limit - 1))
    BY <2>3, <2>4, FS_Injection
  <2>. QED  BY <2>4, <2>5, FS_CardinalityType
<1>6. Cardinality(first) >= limit
  <2>. DEFINE ranks == {rank[x] : x \in S \ first}
  <2>1. ranks \in SUBSET Nat /\ ranks # {}
    OBVIOUS
  <2>2. PICK least \in ranks : \A n \in ranks : least <= n
    <3>. HIDE DEF ranks
    <3>. QED  BY <2>1, LeastNatural
  <2>3. PICK w \in S \ first : rank[w] = least
    BY <2>2
  <2>4. \A x \in S \ first : rank[w] <= rank[x]
    BY <2>2, <2>3
  <2>5. before[w] \in SUBSET first
    <3>. SUFFICES ASSUME NEW x \in before[w] PROVE x \in first
      OBVIOUS
    <3>1. x \in S /\ rank[x] < rank[w] /\ rank[x] \in Nat /\ rank[w] \in Nat
      BY <2>3
    <3>. QED  BY <2>4, <3>1
  <2>6. Cardinality(before[w]) <= Cardinality(first)
    BY <1>5, <2>5, FS_Subset
  <2>7. Cardinality(before[w]) >= limit
    BY <1>1, <2>3
  <2>. QED  BY <1>1, <1>5, <2>3, <2>6, <2>7
<1>. QED  BY <1>4, <1>5, <1>6

(* The dashboard leaves out what is due after the limit, and nothing else. *)
LEMMA UpcomingOfConsistentRows ==
  ASSUME Consistent, NEW order \in DueOrders
  PROVE  LET shown == DOMAIN UpcomingDebts(order)
             due   == DOMAIN order \cap StillOwed IN
         /\ shown \subseteq due
         /\ \A d \in shown : UpcomingDebts(order)[d] = Remaining[d]
         /\ \A d \in due \ shown : /\ Cardinality(shown) = UpcomingLimit
                                  /\ \A e \in shown : order[e] < order[d]
<1>. DEFINE due    == DOMAIN order \cap StillOwed
            before == [d \in due |-> {e \in due : order[e] < order[d]}]
            shown  == {d \in due : Cardinality(before[d]) < UpcomingLimit}
<1>1. UpcomingLimit \in Nat /\ Positions \subseteq Nat
  BY ViewsAssumption
<1>2. UpcomingDebts(order) = [d \in shown |-> Remaining[d]]
  BY DEF UpcomingDebts
<1>3. /\ \A d \in due : order[d] \in Nat
      /\ \A d, e \in due : order[d] = order[e] => d = e
  <2>1. PICK D \in SUBSET Debts : order \in Injection(D, Positions)
    BY DEF DueOrders
  <2>2. order \in [D -> Positions] /\ \A d, e \in DOMAIN order : order[d] = order[e] => d = e
    BY <2>1 DEF Injection, IsInjective
  <2>. QED  BY <1>1, <2>2
<1>4. IsFiniteSet(due)
  <2>1. due \in SUBSET Opened
    BY DEF StillOwed
  <2>. HIDE DEF due
  <2>. QED  BY <2>1, OpenedAreFinite
<1>5. \A d \in due : before[d] = {e \in due : order[e] < order[d]}
  OBVIOUS
<1>6. shown = {d \in due : Cardinality(before[d]) < UpcomingLimit}
  OBVIOUS
<1>. HIDE DEF due, before, shown
<1>7. \A d \in due \ shown : Cardinality(shown) = UpcomingLimit /\ \A e \in shown : order[e] < order[d]
  BY <1>1, <1>3, <1>4, <1>5, <1>6, FirstOfOrder
<1>. QED  BY <1>2, <1>6, <1>7 DEF due

LEMMA OwedOfConsistentRows ==
  ASSUME Consistent
  PROVE  OwedAgree
<1>. DEFINE P     == {d \in Opened : debt[d].type = "payable"}
            R     == {d \in Opened : debt[d].type = "receivable"}
            bills == SplitBillList("ongoing")
            shown == [t \in DOMAIN bills |-> bills[t].remaining]
            rows  == GetDebts
            left  == [d \in DebtReport.watch |-> rows[d].remaining]
<1>1. StillOwed \subseteq Debts /\ StillOwed \subseteq Opened /\ Cancelled \subseteq Opened
  BY DEF StillOwed, Cancelled, Opened
<1>2. IsFiniteSet(StillOwed) /\ \A d \in StillOwed : Remaining[d] \in Int
  BY <1>1, OpenedAreFinite
<1>3. /\ DOMAIN rows = Opened
      /\ \A d \in Opened : /\ rows[d].remaining = Remaining[d] /\ rows[d].type = debt[d].type
                            /\ rows[d].status = debt[d].status
  BY DEF GetDebts
<1>4. /\ DebtReport.payable = TotalLeft(P) /\ DebtReport.receivable = TotalLeft(R)
      /\ DebtReport.watch = StillOwed
  BY DEF DebtReport, GetDebts, StillOwed
<1>5. SumFunction(left) = TotalLeft(StillOwed)
  <2>1. DOMAIN left = StillOwed /\ \A d \in StillOwed : left[d] = Remaining[d]
    BY <1>1, <1>3, <1>4
  <2>. HIDE DEF left
  <2>2. SumFunctionOnSet(left, StillOwed) = SumFunctionOnSet(Remaining, StillOwed)
    BY <1>2, <2>1, SumAgree
  <2>. QED  BY <2>1, <2>2 DEF SumFunction, TotalLeft
<1>6. SumFunction(shown) = TotalLeft(StillOwed)
  <2>. DEFINE K == {t \in Txs : OpenedBy(t) \cap StillOwed # {}}
  <2>1. HavingForStatus("ongoing") = K
    BY DEF HavingForStatus, SplitBills, StatusLabel
  <2>2. bills = [t \in K |-> Summary(t)]
    BY <2>1 DEF SplitBillList
  <2>3. /\ DOMAIN shown = K
        /\ \A t \in K : shown[t] = TotalLeft(OpenedBy(t) \cap StillOwed)
    <3>. HIDE DEF K, bills
    <3>1. DOMAIN bills = K /\ \A t \in K : bills[t] = Summary(t)
      BY <2>2
    <3>2. \A t \in K : Summary(t).remaining = TotalLeft(OpenedBy(t) \cap StillOwed)
      BY DEF Summary
    <3>. QED  BY <3>1, <3>2
  <2>. HIDE DEF shown
  <2>4. SumFunctionOnSet(shown, K) = TotalLeft(StillOwed)
    BY <2>3, OngoingBillsAddUp
  <2>. QED  BY <2>3, <2>4 DEF SumFunction
<1>7. \A d \in DOMAIN rows :
        rows[d].status # "cancelled" => (d \in StillOwed <=> rows[d].remaining > 0)
  <2>. SUFFICES ASSUME NEW d \in Opened, debt[d].status # "cancelled"
       PROVE  d \in StillOwed <=> Remaining[d] > 0
    BY <1>3
  <2>1. d \notin Cancelled
    BY DEF Cancelled
  <2>. QED  BY <2>1, OwedByStatus
<1>8. ListOverdueDebts(Debts) = {d \in StillOwed : rows[d].type = "payable"}
  BY <1>1, <1>3 DEF ListOverdueDebts
<1>9. Cancelled = {} => TotalLeft(P) + TotalLeft(R) = TotalLeft(StillOwed)
  <2>. SUFFICES ASSUME Cancelled = {} PROVE TotalLeft(P) + TotalLeft(R) = TotalLeft(StillOwed)
    OBVIOUS
  <2>1. IsFiniteSet(Opened) /\ \A d \in Opened : Remaining[d] \in Int
    BY OpenedAreFinite
  <2>2. P \cup R = Opened /\ P \cap R = {}
    BY OwedByStatus
  <2>3. TotalLeft(Opened) = TotalLeft(P) + TotalLeft(R)
    <3>. HIDE DEF P, R
    <3>. QED  BY <2>1, <2>2, SumSplit DEF TotalLeft
  <2>4. Opened \cap (StillOwed \cup Cancelled) = StillOwed
    BY <1>1
  <2>5. TotalLeft(Opened) = TotalLeft(Opened \cap (StillOwed \cup Cancelled))
    BY LeftIsOwedOrCancelled
  <2>. QED  BY <2>3, <2>4, <2>5
<1>10. \A order \in DueOrders :
         LET upcoming == UpcomingDebts(order)
             due      == DOMAIN order \cap StillOwed IN
         /\ DOMAIN upcoming \subseteq due
         /\ \A d \in DOMAIN upcoming : upcoming[d] = rows[d].remaining
         /\ \A d \in due \ DOMAIN upcoming :
              /\ Cardinality(DOMAIN upcoming) = UpcomingLimit
              /\ \A e \in DOMAIN upcoming : order[e] < order[d]
  <2>. TAKE order \in DueOrders
  <2>. HIDE DEF rows
  <2>. QED  BY <1>1, <1>3, UpcomingOfConsistentRows
<1>. HIDE DEF P, R, shown, left, bills, rows
<1>11. /\ SumFunction(shown) = SumFunction(left)
       /\ Cancelled = {} => DebtReport.payable + DebtReport.receivable = SumFunction(left)
  BY <1>4, <1>5, <1>6, <1>9
<1>. QED  BY <1>4, <1>7, <1>8, <1>10, <1>11 DEF OwedAgree, shown, left, bills, rows

(* As long as no two requests overlapped, no debt is left with a status    *)
(* that its amounts contradict (ResolveStatus), and the split bills, the   *)
(* rows of the debt report, the dashboard up to its limit and the alert    *)
(* feed tell the same of what is owed; the report's totals add up to it,   *)
(* too, as long as no debt is cancelled.  For any numbers of debts, bills, *)
(* participants and payments, any due dates and any limit.                 *)
THEOREM StatusFollowsPayments == MCSpec => []StatusMatchesPaymentAlone
<1>1. MCIInv => StatusMatchesPaymentAlone
  <2>. SUFFICES ASSUME MCIInv, ~ raced PROVE StatusMatchesPayment /\ DebtViewsAgree
    BY DEF StatusMatchesPaymentAlone
  <2>1. Consistent
    BY DEF MCIInv, IInv, OneAtATime, Consistent
  <2>2. DebtViewsAgree
    BY <2>1, BillsOfConsistentRows, OwedOfConsistentRows DEF DebtViewsAgree
  <2>. QED  BY <2>1, <2>2 DEF Consistent
<1>. QED  BY MCInvariance, <1>1, PTL
=============================================================================
