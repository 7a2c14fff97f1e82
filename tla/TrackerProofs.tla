---------------------------- MODULE TrackerProofs ----------------------------
(***************************************************************************)
(* Proofs about Tracker, for any plans, subscriptions, requests, amounts   *)
(* and calendar.                                                           *)
(*                                                                         *)
(* The inductive invariant IInv adds to the properties what the row lock   *)
(* gives: at most one request holds a row (OneHolder), and what it read is *)
(* still committed (HeldRowIsCurrent), so that the months or the date it   *)
(* writes count from the row that is there.                                *)
(***************************************************************************)
EXTENDS Tracker, TLAPS
-----------------------------------------------------------------------------
(* The calendar.                                                           *)

LEMMA MonthOfDate ==
  ASSUME NEW d \in Date
  PROVE  MonthOf(d) \in 1 .. Months /\ d \in DaysOf(MonthOf(d))
<1>1. \E m \in 1 .. Months : d \in DaysOf(m)
  BY DEF Date
<1> QED  BY <1>1 DEF MonthOf

LEMMA MonthIsUnique ==
  ASSUME NEW m \in 1 .. Months, NEW d \in DaysOf(m)
  PROVE  d \in Date /\ MonthOf(d) = m
<1>1. d \in Date
  BY DEF Date
<1>2. ASSUME NEW a \in 1 .. Months, NEW b \in 1 .. Months, a < b,
             d \in DaysOf(a), d \in DaysOf(b)
      PROVE  FALSE
  <2>1. /\ MonthStart[a + 1] <= MonthStart[b]
        /\ MonthStart[a + 1] \in Nat /\ MonthStart[b] \in Nat
        /\ MonthStart[a] \in Nat /\ MonthStart[b + 1] \in Nat
    BY <1>2, CalendarAssumption
  <2> QED  BY <1>2, <2>1 DEF DaysOf
<1>3. MonthOf(d) \in 1 .. Months /\ d \in DaysOf(MonthOf(d))
  BY <1>1, MonthOfDate
<1>4. CASE MonthOf(d) < m
  BY <1>2, <1>3, <1>4
<1>5. CASE m < MonthOf(d)
  BY <1>2, <1>3, <1>5
<1> QED  BY <1>1, <1>3, <1>4, <1>5, CalendarAssumption

(* No month is left out: AddMonthsClamped never runs over into the month   *)
(* after the next.                                                         *)
LEMMA NextMonth ==
  ASSUME NEW d \in Date, MonthOf(d) < Months
  PROVE  /\ AddMonthsClamped(d, 1) \in Date
         /\ MonthOf(AddMonthsClamped(d, 1)) = MonthOf(d) + 1
<1> DEFINE m == MonthOf(d) + 1
<1>1. MonthOf(d) \in 1 .. Months /\ d \in DaysOf(MonthOf(d))
  BY MonthOfDate
<1>2. m \in 1 .. Months
  BY <1>1, CalendarAssumption
<1>3. /\ MonthStart[MonthOf(d)] \in Nat
      /\ MonthStart[m] \in Nat /\ MonthStart[m + 1] \in Nat
      /\ MonthLength(m) \in 28 .. 31
  BY <1>1, <1>2, CalendarAssumption DEF MonthLength
<1>4. DayOf(d) \in Nat \ {0}
  BY <1>1, <1>3 DEF DayOf, DaysOf
<1>5. \A day \in 1 .. MonthLength(m) : DateOf(m, day) \in DaysOf(m)
  BY <1>3 DEF DateOf, DaysOf, MonthLength
<1>6. AddMonthsClamped(d, 1) \in DaysOf(m)
  BY <1>3, <1>4, <1>5 DEF AddMonthsClamped
<1> QED  BY <1>2, <1>6, MonthIsUnique
-----------------------------------------------------------------------------
(* What the handlers accept.                                               *)

LEMMA ProductFits ==
  ASSUME NEW total \in Money, NEW monthly \in Money, NEW tenor \in Nat \ {0},
         ValidateInstallmentPlan(total, monthly, tenor)
  PROVE  total = monthly * tenor
<1>1. Half \in Nat \ {0}
  BY TrackerAssumption
<1>2. PICK q \in Nat : q = (Half - 1) \div tenor
  BY <1>1
<1>3. q * tenor <= Half - 1
  BY <1>1, <1>2
<1>4. monthly <= q /\ monthly \in Nat
  BY <1>2, <1>1 DEF ValidateInstallmentPlan, Money
<1>5. monthly * tenor <= q * tenor /\ monthly * tenor \in Nat
  BY <1>4
<1>6. PICK n \in 0 .. Half - 1 : n = monthly * tenor
  BY <1>1, <1>3, <1>5
<1>7. Wrap(n) = n
  <2>1. (n + Half) % (2 * Half) = n + Half
    BY <1>1
  <2> QED  BY <1>1, <2>1 DEF Wrap
<1> QED  BY <1>6, <1>7 DEF ValidateInstallmentPlan

(* The rows that requests may write.                                       *)
ValidPlan(r) ==
  /\ r.total = r.amount * r.tenor
  /\ ResolveInstallmentRemainingAndStatus(r.tenor, r.remaining, r.status)

LEMMA BoundIsValid ==
  ASSUME NEW t \in Trackers, NEW r \in Bound(t)
  PROVE  r \in RowOf(t) /\ (t \in Plans => ValidPlan(r))
<1>1. Amounts \subseteq Money /\ Tenors \subseteq Nat \ {0} /\ DueDates \subseteq Date
  BY TrackerAssumption DEF Money
<1>2. CASE t \in Plans
  <2>1. r \in BoundPlans
    BY <1>2 DEF Bound
  <2>2. PICK n \in Tenors :
          r \in [total : Money, amount : Amounts, tenor : {n}, remaining : 0 .. n,
                 status : PlanStatuses]
    BY <2>1 DEF BoundPlans
  <2>3. /\ ValidateInstallmentPlan(r.total, r.amount, r.tenor)
        /\ ResolveInstallmentRemainingAndStatus(r.tenor, r.remaining, r.status)
    BY <2>1 DEF BoundPlans
  <2>4. r.total \in Money /\ r.amount \in Money /\ r.tenor \in Nat \ {0}
    BY <1>1, <2>2
  <2>5. r \in PlanRow
    BY <1>1, <2>2 DEF PlanRow
  <2> QED  BY <1>2, <2>3, <2>4, <2>5, ProductFits DEF ValidPlan, RowOf
<1>3. CASE t \notin Plans
  BY <1>1, <1>3 DEF Bound, BoundSubs, RowOf, SubRow
<1> QED  BY <1>2, <1>3

LEMMA AdvancedPlan ==
  ASSUME NEW r \in PlanRow, ValidPlan(r), r.status = "active", r.remaining > 0
  PROVE  LET next == ApplyInstallmentPayment(r) IN
           /\ next = [r EXCEPT !.remaining = next.remaining, !.status = next.status]
           /\ next \in PlanRow /\ ValidPlan(next)
           /\ next.remaining = r.remaining - 1
<1> DEFINE left == r.remaining - 1
           st   == IF r.remaining = 1 THEN "paid_off" ELSE r.status
           next == ApplyInstallmentPayment(r)
<1>1. /\ r.total \in Money /\ r.amount \in Money /\ r.tenor \in Tenors
      /\ r.remaining \in Nat /\ r.remaining <= r.tenor /\ r.tenor \in Nat
  BY TrackerAssumption DEF PlanRow
<1>2. next = [r EXCEPT !.remaining = left, !.status = st]
  BY DEF ApplyInstallmentPayment
<1>3. r = [total |-> r.total, amount |-> r.amount, tenor |-> r.tenor,
           remaining |-> r.remaining, status |-> r.status]
  BY DEF PlanRow
<1>4. next = [total |-> r.total, amount |-> r.amount, tenor |-> r.tenor,
              remaining |-> left, status |-> st]
  BY <1>2, <1>3
<1>5. left \in Nat /\ left <= r.tenor /\ st \in PlanStatuses
  BY <1>1 DEF PlanStatuses
<1>6. ResolveInstallmentRemainingAndStatus(r.tenor, left, st) /\ r.total = r.amount * r.tenor
  BY <1>1 DEF ResolveInstallmentRemainingAndStatus, ValidPlan
<1> HIDE DEF left, st, next
<1>7. next \in PlanRow /\ ValidPlan(next)
  BY <1>1, <1>4, <1>5, <1>6 DEF PlanRow, ValidPlan
<1>8. next.remaining = left /\ next.status = st
  BY <1>4
<1> QED  BY <1>2, <1>7, <1>8 DEF left, next
-----------------------------------------------------------------------------
(* What the rows have to satisfy, one by one: r is the row, w the row as   *)
(* its owner last wrote it, n the payments since.                          *)
GoodRow(t, r, w, n) ==
  /\ r \in RowOf(t) /\ w \in RowOf(t) /\ n \in Nat
  /\ t \in Plans => ValidPlan(r) /\ r.remaining = w.remaining - n
  /\ t \in Subs  => /\ r.cycle = w.cycle
                    /\ w.cycle = "weekly"  => r.due = w.due + 7 * n
                    /\ w.cycle # "weekly" => MonthOf(r.due) = MonthOf(w.due) + n

GoodRows ==
  /\ row     \in [Trackers -> Row \cup {NoRow}]
  /\ written \in [Trackers -> Row \cup {NoRow}]
  /\ paid    \in [Trackers -> Nat]
  /\ \A t \in Trackers : {row[t], written[t]} \subseteq RowOf(t) \cup {NoRow}
  /\ \A t \in Trackers : row[t] # NoRow => GoodRow(t, row[t], written[t], paid[t])

Types ==
  /\ tx      \in [Txs -> Money \cup {NoRow}]
  /\ record  \in [Txs -> Trackers \cup {NoRow}]
  /\ req     \in [Sessions -> Request]

Locks == OneHolder /\ HeldRowIsCurrent

LEMMA RowsOfTrackers ==
  ASSUME NEW t \in Trackers
  PROVE  /\ RowOf(t) \subseteq Row /\ NoRow \notin RowOf(t)
         /\ t \in Plans <=> t \notin Subs
  BY TrackerAssumption, NoRowAssumption DEF RowOf, Row, Trackers

LEMMA IInvParts == IInv <=> GoodRows /\ Types /\ Locks
<1>1. ASSUME IInv PROVE GoodRows
  <2>1. ASSUME NEW t \in Trackers, row[t] # NoRow
        PROVE  GoodRow(t, row[t], written[t], paid[t])
    BY <1>1, <2>1, RowsOfTrackers
    DEF IInv, TypeOK, CyclesAreWritten, PlansStayValid, EveryPaymentCounts, GoodRow, ValidPlan
  <2> QED  BY <1>1, <2>1 DEF IInv, TypeOK, GoodRows
<1>2. ASSUME GoodRows, Types, Locks PROVE IInv
  <2>1. TypeOK
    BY <1>2 DEF GoodRows, Types, TypeOK
  <2>2. CyclesAreWritten
    BY <1>2, RowsOfTrackers DEF GoodRows, GoodRow, CyclesAreWritten
  <2>3. PlansStayValid
    BY <1>2, RowsOfTrackers DEF GoodRows, GoodRow, PlansStayValid, ValidPlan, Trackers
  <2>4. EveryPaymentCounts
    BY <1>2, RowsOfTrackers DEF GoodRows, GoodRow, EveryPaymentCounts
  <2> QED  BY <1>2, <2>1, <2>2, <2>3, <2>4 DEF IInv, Locks
<1> QED  BY <1>1, <1>2 DEF IInv, TypeOK, Types, Locks

LEMMA InitInv == Init => IInv
<1> SUFFICES ASSUME Init PROVE IInv
  OBVIOUS
<1>1. GoodRows
  BY DEF Init, GoodRows
<1>2. Types /\ Locks
  BY DEF Init, Types, Locks, OneHolder, HeldRowIsCurrent, Request
<1> QED  BY <1>1, <1>2, IInvParts
-----------------------------------------------------------------------------
(* The steps.                                                              *)

(* What owners write.                                                      *)
LEMMA WriteKeepsRows ==
  ASSUME GoodRows, NEW t \in Trackers, NEW r \in Bound(t) \cup {NoRow}, Write(t, r)
  PROVE  GoodRows'
<1>1. /\ row \in [Trackers -> Row \cup {NoRow}]
      /\ written \in [Trackers -> Row \cup {NoRow}]
      /\ paid \in [Trackers -> Nat]
  BY DEF GoodRows
<1>2. r \in RowOf(t) \cup {NoRow} /\ r \in Row \cup {NoRow}
  BY BoundIsValid, RowsOfTrackers
<1>3. /\ row' \in [Trackers -> Row \cup {NoRow}]
      /\ written' \in [Trackers -> Row \cup {NoRow}]
      /\ paid' \in [Trackers -> Nat]
  BY <1>1, <1>2 DEF Write
<1>4. /\ row'[t] = r /\ written'[t] = r /\ paid'[t] = 0
      /\ \A u \in Trackers \ {t} :
           row'[u] = row[u] /\ written'[u] = written[u] /\ paid'[u] = paid[u]
  BY <1>1 DEF Write
<1>5. ASSUME r # NoRow PROVE GoodRow(t, r, r, 0)
  <2>1. r \in RowOf(t) /\ (t \in Plans => ValidPlan(r))
    BY <1>5, BoundIsValid
  <2>2. CASE t \in Plans
    <3>1. r.remaining \in Nat
      BY <2>1, <2>2 DEF RowOf, PlanRow
    <3> QED  BY <2>1, <2>2, <3>1, RowsOfTrackers DEF GoodRow
  <2>3. CASE t \in Subs
    <3>1. r.due \in Date
      BY <2>1, <2>3, RowsOfTrackers DEF RowOf, SubRow
    <3>2. r.due \in Int /\ MonthOf(r.due) \in Int
      <4>1. PICK m \in 1 .. Months : r.due \in DaysOf(m)
        BY <3>1 DEF Date
      <4> QED  BY <3>1, <4>1, MonthOfDate DEF DaysOf
    <3> QED  BY <2>1, <2>3, <3>2, RowsOfTrackers DEF GoodRow
  <2> QED  BY <2>2, <2>3 DEF Trackers
<1>6. \A u \in Trackers : {row'[u], written'[u]} \subseteq RowOf(u) \cup {NoRow}
  BY <1>2, <1>4 DEF GoodRows
<1>7. \A u \in Trackers : row'[u] # NoRow => GoodRow(u, row'[u], written'[u], paid'[u])
  BY <1>4, <1>5 DEF GoodRows
<1> QED  BY <1>3, <1>6, <1>7 DEF GoodRows, GoodRow

(* What a payment makes of the row that it holds.                          *)
LEMMA PaymentAdvancesRow ==
  ASSUME GoodRows, NEW t \in Trackers, row[t] # NoRow, Payable(t, row[t]),
         AdvancePlan(t, row[t]) \/ AdvanceSub(t, row[t])
  PROVE  \E r \in RowOf(t) : /\ row' = [row EXCEPT ![t] = r]
                             /\ GoodRow(t, r, written[t], paid[t] + 1)
<1>1. GoodRow(t, row[t], written[t], paid[t])
  BY DEF GoodRows
<1>2. CASE AdvancePlan(t, row[t])
  <2>1. /\ t \in Plans /\ t \notin Subs
        /\ row[t] \in PlanRow /\ written[t] \in PlanRow /\ paid[t] \in Nat
        /\ ValidPlan(row[t]) /\ row[t].remaining = written[t].remaining - paid[t]
    BY <1>1, <1>2, RowsOfTrackers DEF AdvancePlan, GoodRow, RowOf
  <2>2. row[t].status = "active" /\ row[t].remaining > 0
    BY <2>1 DEF Payable
  <2>3. PICK next \in PlanRow :
          /\ next = ApplyInstallmentPayment(row[t])
          /\ next = [row[t] EXCEPT !.remaining = next.remaining, !.status = next.status]
          /\ ValidPlan(next)
          /\ next.remaining = row[t].remaining - 1
    BY <2>1, <2>2, AdvancedPlan
  <2>4. row' = [row EXCEPT ![t] = next]
    BY <1>2, <2>3 DEF AdvancePlan
  <2>5. next.remaining = written[t].remaining - (paid[t] + 1)
    <3>1. written[t].remaining \in Nat
      BY <2>1 DEF PlanRow
    <3> QED  BY <2>1, <2>3, <3>1
  <2>6. GoodRow(t, next, written[t], paid[t] + 1)
    BY <2>1, <2>3, <2>5 DEF GoodRow, RowOf
  <2> QED  BY <2>1, <2>4, <2>6 DEF RowOf
<1>3. CASE AdvanceSub(t, row[t])
  <2> DEFINE due == AdvanceSubscriptionDueDate(row[t].due, row[t].cycle)
             next == [row[t] EXCEPT !.due = due]
  <2>1. /\ t \in Subs /\ t \notin Plans
        /\ row[t] \in SubRow /\ written[t] \in SubRow /\ paid[t] \in Nat
        /\ row[t].cycle = written[t].cycle
        /\ due \in Date
        /\ row[t].cycle = "monthly" => MonthOf(row[t].due) < Months
        /\ row' = [row EXCEPT ![t].due = due]
    BY <1>1, <1>3, RowsOfTrackers DEF AdvanceSub, GoodRow, RowOf
  <2>2. row' = [row EXCEPT ![t] = next]
    BY <2>1
  <2>3. next \in SubRow /\ next.due = due /\ next.cycle = row[t].cycle
    BY <2>1 DEF SubRow
  <2>4. CASE row[t].cycle = "weekly"
    <3>1. written[t].due \in Int /\ row[t].due = written[t].due + 7 * paid[t]
      <4>1. PICK m \in 1 .. Months : written[t].due \in DaysOf(m)
        BY <2>1 DEF SubRow, Date
      <4> QED  BY <1>1, <2>1, <2>4, <4>1 DEF GoodRow, DaysOf
    <3>2. due = written[t].due + 7 * (paid[t] + 1)
      BY <2>1, <2>4, <3>1 DEF AdvanceSubscriptionDueDate
    <3>3. GoodRow(t, next, written[t], paid[t] + 1)
      BY <2>1, <2>3, <2>4, <3>2 DEF GoodRow, RowOf
    <3> QED  BY <2>1, <2>2, <2>3, <3>3 DEF RowOf
  <2>5. CASE row[t].cycle # "weekly"
    <3>1. row[t].cycle = "monthly" /\ row[t].due \in Date /\ written[t].due \in Date
      BY <2>1, <2>5 DEF SubRow, Cycles
    <3>2. MonthOf(due) = MonthOf(row[t].due) + 1
      BY <2>1, <2>5, <3>1, NextMonth DEF AdvanceSubscriptionDueDate
    <3>3. /\ MonthOf(row[t].due) = MonthOf(written[t].due) + paid[t]
          /\ MonthOf(written[t].due) \in Int
      BY <1>1, <2>1, <2>5, <3>1, MonthOfDate DEF GoodRow
    <3>4. MonthOf(due) = MonthOf(written[t].due) + (paid[t] + 1)
      BY <2>1, <3>2, <3>3
    <3>5. GoodRow(t, next, written[t], paid[t] + 1)
      BY <2>1, <2>3, <2>5, <3>4 DEF GoodRow, RowOf
    <3> QED  BY <2>1, <2>2, <2>3, <3>5 DEF RowOf
  <2> QED  BY <2>4, <2>5
<1> QED  BY <1>2, <1>3

LEMMA HeldRow ==
  ASSUME Types, Locks, NEW s \in Sessions, req[s] # Idle
  PROVE  /\ req[s].tracker \in Trackers /\ req[s].kind = "pay"
         /\ row[req[s].tracker] = req[s].row
         /\ req[s].row # NoRow
         /\ Payable(req[s].tracker, req[s].row)
<1>1. req[s].tracker \in Trackers /\ req[s].row \in Row /\ req[s].kind = "pay"
  BY DEF Types, Request
<1> QED  BY <1>1, NoRowAssumption DEF Locks, HeldRowIsCurrent

LEMMA PayKeepsRows ==
  ASSUME IInv, NEW s \in Sessions, NEW x \in Txs, PayCommit(s, x)
  PROVE  GoodRows'
<1>1. GoodRows /\ Types /\ Locks
  BY IInvParts
<1>2. PICK t \in Trackers :
        /\ t = req[s].tracker
        /\ row[t] = req[s].row /\ row[t] # NoRow /\ Payable(t, row[t])
  BY <1>1, HeldRow DEF PayCommit
<1>3. /\ AdvancePlan(t, row[t]) \/ AdvanceSub(t, row[t])
      /\ paid' = [paid EXCEPT ![t] = @ + 1] /\ written' = written
  BY <1>2 DEF PayCommit, Charge
<1>4. PICK r \in RowOf(t) : /\ row' = [row EXCEPT ![t] = r]
                            /\ GoodRow(t, r, written[t], paid[t] + 1)
  BY <1>1, <1>2, <1>3, PaymentAdvancesRow
<1>5. /\ row \in [Trackers -> Row \cup {NoRow}] /\ paid \in [Trackers -> Nat]
      /\ r \in Row
  BY <1>1, RowsOfTrackers DEF GoodRows
<1>6. /\ row' \in [Trackers -> Row \cup {NoRow}] /\ paid' \in [Trackers -> Nat]
      /\ row'[t] = r /\ paid'[t] = paid[t] + 1
      /\ \A u \in Trackers \ {t} : row'[u] = row[u] /\ paid'[u] = paid[u]
  BY <1>3, <1>4, <1>5
<1>7. \A u \in Trackers : {row'[u], written'[u]} \subseteq RowOf(u) \cup {NoRow}
  BY <1>1, <1>3, <1>6 DEF GoodRows
<1>8. \A u \in Trackers : row'[u] # NoRow => GoodRow(u, row'[u], written'[u], paid'[u])
  BY <1>1, <1>3, <1>4, <1>6 DEF GoodRows
<1> QED  BY <1>1, <1>3, <1>6, <1>7, <1>8 DEF GoodRows, GoodRow
-----------------------------------------------------------------------------
(* The locks.                                                              *)

(* A row that nobody holds may change.                                     *)
LEMMA WriteKeepsLocks ==
  ASSUME IInv, NEW t \in Trackers, NEW r, ~ Locked(t), Write(t, r), UNCHANGED req
  PROVE  Locks'
<1>1. GoodRows /\ Types /\ Locks
  BY IInvParts
<1>2. \A u \in Trackers \ {t} : row'[u] = row[u]
  BY <1>1 DEF Write, GoodRows
<1>3. \A s \in Sessions : req[s] # Idle => req[s].tracker \in Trackers \ {t}
  BY <1>1, HeldRow DEF Locked
<1> QED  BY <1>1, <1>2, <1>3 DEF Locks, OneHolder, HeldRowIsCurrent, Payable

(* The request that gives up its row leaves the others with theirs.        *)
LEMMA FinishKeepsLocks ==
  ASSUME IInv, NEW s \in Sessions, req[s] # Idle, req' = [req EXCEPT ![s] = Idle],
         \A u \in Trackers \ {req[s].tracker} : row'[u] = row[u]
  PROVE  Locks'
<1>1. GoodRows /\ Types /\ Locks
  BY IInvParts
<1>2. req'[s] = Idle /\ \A r \in Sessions \ {s} : req'[r] = req[r]
  BY <1>1 DEF Types
<1>3. OneHolder'
  BY <1>1, <1>2 DEF Locks, OneHolder
<1>4. ASSUME NEW r \in Sessions, req'[r] # Idle
      PROVE  /\ row'[req'[r].tracker] = req'[r].row
             /\ Payable(req'[r].tracker, req'[r].row)
  <2>1. r # s /\ req'[r] = req[r] /\ req[r] # Idle
    BY <1>2, <1>4
  <2>2. req[r].tracker \in Trackers \ {req[s].tracker}
    BY <1>1, <2>1, HeldRow DEF Locks, OneHolder
  <2> QED  BY <1>1, <2>1, <2>2 DEF Locks, HeldRowIsCurrent
<1>5. HeldRowIsCurrent'
  BY <1>4 DEF HeldRowIsCurrent, Payable
<1> QED  BY <1>3, <1>5 DEF Locks

LEMMA PayLockKeepsLocks ==
  ASSUME IInv, NEW s \in Sessions, NEW t \in Trackers, PayLock(s, t)
  PROVE  Locks' /\ Types'
<1>1. GoodRows /\ Types /\ Locks
  BY IInvParts
<1>2. row[t] \in Row
  BY <1>1 DEF PayLock, GoodRows
<1> DEFINE new == [kind |-> "pay", tracker |-> t, row |-> row[t]]
<1>3. new \in Request /\ new # Idle
  BY <1>2 DEF Request, Idle
<1>4. req'[s] = new /\ \A r \in Sessions \ {s} : req'[r] = req[r]
  BY <1>1 DEF Types, PayLock
<1>5. \A r \in Sessions : req[r] # Idle => req[r].tracker # t
  BY <1>1, HeldRow DEF PayLock, Locked
<1>6. OneHolder'
  BY <1>1, <1>4, <1>5 DEF Locks, OneHolder
<1>7. row' = row /\ Payable(t, row[t])
  BY DEF PayLock
<1>8. HeldRowIsCurrent'
  BY <1>1, <1>4, <1>7 DEF Locks, HeldRowIsCurrent, Payable
<1>9. Types'
  BY <1>1, <1>3 DEF PayLock, Types
<1> QED  BY <1>6, <1>8, <1>9 DEF Locks

LEMMA StepKeepsParts == IInv /\ [Next]_vars => GoodRows' /\ Types' /\ Locks'
<1> SUFFICES ASSUME IInv, [Next]_vars PROVE GoodRows' /\ Types' /\ Locks'
  OBVIOUS
<1>1. GoodRows /\ Types /\ Locks
  BY IInvParts
<1>2. ASSUME UNCHANGED <<row, written, paid>> PROVE GoodRows'
  BY <1>1, <1>2 DEF GoodRows, GoodRow
<1>3. ASSUME NEW t \in Trackers, NEW r \in Bound(t), Create(t, r)
      PROVE  GoodRows' /\ Types' /\ Locks'
  <2>1. ~ Locked(t)
    <3>1. \A s \in Sessions : req[s].kind = "pay" => req[s] # Idle
      BY DEF Idle
    <3> QED  BY <1>1, <1>3, <3>1, HeldRow DEF Create, Locked
  <2>2. Types'
    BY <1>1, <1>3 DEF Create, Types
  <2> QED  BY <1>1, <1>3, <2>1, <2>2, WriteKeepsRows, WriteKeepsLocks DEF Create
<1>4. ASSUME NEW t \in Trackers, NEW r \in Bound(t), Update(t, r)
      PROVE  GoodRows' /\ Types' /\ Locks'
  <2>1. Types'
    BY <1>1, <1>4 DEF Update, Types
  <2> QED  BY <1>1, <1>4, <2>1, WriteKeepsRows, WriteKeepsLocks DEF Update
<1>5. ASSUME NEW t \in Trackers, Delete(t) PROVE GoodRows' /\ Types' /\ Locks'
  <2>1. Types'
    BY <1>1, <1>5 DEF Delete, Types
  <2> QED  BY <1>1, <1>5, <2>1, WriteKeepsRows, WriteKeepsLocks DEF Delete
<1>6. ASSUME NEW s \in Sessions, NEW t \in Trackers, PayLock(s, t)
      PROVE  GoodRows' /\ Types' /\ Locks'
  BY <1>2, <1>6, PayLockKeepsLocks DEF PayLock
<1>7. ASSUME NEW s \in Sessions, PayFail(s) PROVE GoodRows' /\ Types' /\ Locks'
  <2>1. Types'
    BY <1>1, <1>7 DEF PayFail, Types, Request
  <2> QED  BY <1>2, <1>7, <2>1, FinishKeepsLocks DEF PayFail
<1>8. ASSUME NEW s \in Sessions, NEW x \in Txs, PayCommit(s, x)
      PROVE  GoodRows' /\ Types' /\ Locks'
  <2>1. PICK t \in Trackers : t = req[s].tracker /\ row[t] = req[s].row /\ row[t] # NoRow
    BY <1>1, <1>8, HeldRow DEF PayCommit
  <2>2. req[s].row.amount \in Money
    BY <1>1, <2>1, RowsOfTrackers DEF GoodRows, RowOf, PlanRow, SubRow
  <2>3. Types'
    BY <1>1, <1>8, <2>1, <2>2 DEF PayCommit, Charge, Types, Request
  <2>4. \A u \in Trackers \ {t} : row'[u] = row[u]
    BY <1>1, <1>8, <2>1 DEF PayCommit, AdvancePlan, AdvanceSub, GoodRows
  <2>5. req[s] # Idle /\ req' = [req EXCEPT ![s] = Idle]
    BY <1>8 DEF PayCommit
  <2> QED  BY <1>8, <2>1, <2>3, <2>4, <2>5, PayKeepsRows, FinishKeepsLocks
<1>9. ASSUME NEW x \in Txs, DeleteTransaction(x) PROVE GoodRows' /\ Types' /\ Locks'
  <2>1. Types'
    BY <1>1, <1>9 DEF DeleteTransaction, Types
  <2>2. Locks'
    BY <1>1, <1>9 DEF DeleteTransaction, Locks, OneHolder, HeldRowIsCurrent, Payable
  <2> QED  BY <1>2, <1>9, <2>1, <2>2 DEF DeleteTransaction
<1>10. ASSUME UNCHANGED vars PROVE GoodRows' /\ Types' /\ Locks'
  <2>1. Types' /\ Locks'
    BY <1>1, <1>10 DEF vars, Types, Locks, OneHolder, HeldRowIsCurrent, Payable
  <2> QED  BY <1>2, <1>10, <2>1 DEF vars
<1> QED  BY <1>3, <1>4, <1>5, <1>6, <1>7, <1>8, <1>9, <1>10 DEF Next

LEMMA Invariance == Spec => []IInv
  BY InitInv, StepKeepsParts, IInvParts, PTL DEF Spec
-----------------------------------------------------------------------------
(* Rows, histories and requests keep their shape.                          *)
THEOREM TypeCorrect == Spec => []TypeOK
<1>1. IInv => TypeOK
  BY DEF IInv
<1> QED  BY <1>1, Invariance, PTL

(* A plan keeps what its handlers demanded of it, whatever payments and    *)
(* updates follow each other (ApplyInstallmentPayment, Update).            *)
THEOREM PlansRemainValid == Spec => []PlansStayValid
<1>1. IInv => PlansStayValid
  BY DEF IInv
<1> QED  BY <1>1, Invariance, PTL

(* Between two writes of its owner a row advances once per payment, by one *)
(* month or cycle, for any number of concurrent requests (Pay).            *)
THEOREM PaymentsAreCounted == Spec => []EveryPaymentCounts
<1>1. IInv => EveryPaymentCounts
  BY DEF IInv
<1> QED  BY <1>1, Invariance, PTL

(* What is charged is the price of an active row at that moment (Pay).     *)
THEOREM NoStaleCharge == Spec => ChargesAreAgreed
<1> DEFINE Agreed == \A x \in Txs : tx[x] = NoRow /\ tx'[x] # NoRow =>
                       LET r == row[record'[x]] IN r.status = "active" /\ tx'[x] = r.amount
<1>1. ASSUME IInv, [Next]_vars PROVE [Agreed]_vars
  <2>1. GoodRows /\ Types /\ Locks
    BY <1>1, IInvParts
  <2>2. ASSUME NEW s \in Sessions, NEW x \in Txs, PayCommit(s, x) PROVE Agreed
    <3>1. /\ req[s].tracker \in Trackers
          /\ row[req[s].tracker] = req[s].row /\ req[s].row.status = "active"
      BY <2>1, <2>2, HeldRow DEF PayCommit, Payable
    <3>2. /\ tx' = [tx EXCEPT ![x] = req[s].row.amount]
          /\ record' = [record EXCEPT ![x] = req[s].tracker]
      BY <2>2 DEF PayCommit, Charge
    <3> QED  BY <2>1, <3>1, <3>2 DEF Types
  <2>3. CASE \E s \in Sessions, x \in Txs : PayCommit(s, x)
    BY <2>2, <2>3
  <2>4. CASE \E x \in Txs : DeleteTransaction(x)
    BY <2>1, <2>4 DEF DeleteTransaction, Types
  <2>5. CASE UNCHANGED tx
    BY <2>5
  <2> QED  BY <1>1, <2>3, <2>4, <2>5 DEF Next, Create, Update, Delete, PayLock, PayFail, vars
<1> QED  BY <1>1, Invariance, PTL DEF Spec, ChargesAreAgreed
=============================================================================
