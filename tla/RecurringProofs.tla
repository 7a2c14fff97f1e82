-------------------------- MODULE RecurringProofs --------------------------
(***************************************************************************)
(* Proofs about Recurring, for any number of rules, schedulers, requests,  *)
(* intervals and updates.                                                  *)
(*                                                                         *)
(* The inductive invariant is IInv.  The argument is the row lock: what a  *)
(* session read of a rule stays true of it until the session lets go       *)
(* (HeldRowIsCurrent), since nobody else may write the row (OneHolder, and *)
(* the guards of Update and Delete).  So the occurrence it charges is the  *)
(* one the rule is at, and the unique key of the run records does the rest.*)
(***************************************************************************)
EXTENDS Recurring, TLAPS

(* Rows as the actions use them.                                           *)
LEMMA RowShape ==
  ASSUME NEW row \in Row
  PROVE  /\ row.next \in Times /\ row.every \in Intervals /\ row.every \in Nat \ {0}
         /\ row.end \in Ends /\ row.status \in Statuses
         /\ row.next \in Nat /\ row.end \in Nat
<1>1. row.next \in Times /\ row.every \in Intervals /\ row.end \in Ends /\ row.status \in Statuses
  BY DEF Row
<1>2. Intervals \subseteq Nat \ {0} /\ Times \subseteq Nat
  BY RecurringAssumption DEF Times
<1>3. Ends \subseteq Nat
  BY RecurringAssumption DEF Never
<1> QED  BY <1>1, <1>2, <1>3

(* The row that advanceLockedRule writes is a row, later, and cancelled if *)
(* it is past its end.                                                     *)
LEMMA AdvancedRow ==
  ASSUME NEW row \in Row, row.next <= MaxTime
  PROVE  /\ NextStateAfterRun(row) \in Row
         /\ NextStateAfterRun(row) = [row EXCEPT !.next   = NextStateAfterRun(row).next,
                                                 !.status = NextStateAfterRun(row).status]
         /\ NextStateAfterRun(row).next = row.next + row.every
         /\ NextStateAfterRun(row).next > row.end =>
              NextStateAfterRun(row).status = "cancelled"
         /\ NextStateAfterRun(row).end = row.end
<1> DEFINE next == row.next + row.every
           st   == IF next > row.end THEN "cancelled" ELSE row.status
<1>1. /\ next \in Times
      /\ st \in Statuses
  BY RowShape, RecurringAssumption DEF Times, Statuses
<1>2. NextStateAfterRun(row) = [row EXCEPT !.next = next, !.status = st]
  BY DEF NextStateAfterRun
<1>3. row = [next |-> row.next, every |-> row.every, end |-> row.end, status |-> row.status]
  BY DEF Row
<1>4. NextStateAfterRun(row) =
        [next |-> next, every |-> row.every, end |-> row.end, status |-> st]
  BY <1>2, <1>3
<1> HIDE DEF next, st
<1>5. /\ NextStateAfterRun(row).next = next /\ NextStateAfterRun(row).status = st
      /\ NextStateAfterRun(row).end = row.end
      /\ NextStateAfterRun(row) \in Row
  BY <1>1, <1>4, RowShape DEF Row
<1>6. NextStateAfterRun(row) = [row EXCEPT !.next = next, !.status = st]
  BY <1>2 
<1> QED  BY <1>5, <1>6 DEF next, st

(* What a session holds: the rule exists, as the session read it.          *)
LEMMA HeldRow ==
  ASSUME TypeOK, HeldRowIsCurrent, NEW s \in Sessions, InRun(s)
  PROVE  /\ req[s].rule \in Rules /\ req[s].row \in Row
         /\ rule[req[s].rule] = req[s].row
         /\ Exists(req[s].rule) /\ Locked(req[s].rule)
         /\ Runnable(req[s].row)
         /\ req[s].row.next <= MaxTime
<1>1. req[s].rule \in Rules /\ req[s].row \in Row
  BY DEF TypeOK, Request, InRun, Idle
<1> QED  BY <1>1, NoRuleAssumption DEF HeldRowIsCurrent, Exists, Locked

(* advanceLockedRule by the session that holds the rule.                   *)
LEMMA AdvanceHeld ==
  ASSUME TypeOK, HeldRowIsCurrent, NEW s \in Sessions, InRun(s),
         Advance(req[s].rule, req[s].row)
  PROVE  /\ rule' = [rule EXCEPT ![req[s].rule] = NextStateAfterRun(req[s].row)]
         /\ NextStateAfterRun(req[s].row) \in Row
<1> DEFINE r == req[s].rule  row == req[s].row
<1>1. /\ r \in Rules /\ row \in Row /\ rule[r] = row /\ row.next <= MaxTime
  BY HeldRow
<1>2. rule \in [Rules -> Row \cup {NoRule, Gone}]
  BY DEF TypeOK
<1>3. rule' = [rule EXCEPT ![r] = [rule[r] EXCEPT !.next   = NextStateAfterRun(row).next,
                                                  !.status = NextStateAfterRun(row).status]]
  BY <1>1, <1>2 DEF Advance, Row
<1> HIDE DEF r, row
<1>4. rule' = [rule EXCEPT ![r] = NextStateAfterRun(row)]
  BY <1>1, <1>3, AdvancedRow
<1> QED  BY <1>1, <1>4, AdvancedRow DEF r, row
-----------------------------------------------------------------------------
(* The steps of Next, as what they do to the locks and to the books.       *)

(* Every session but s goes on as it was.                                  *)
OthersKeep(s) == \A u \in Sessions \ {s} : req'[u] = req[u]

(* s holds nothing any more.                                               *)
Releases(s) == OthersKeep(s) /\ ~ InRun(s)'

(* s locks rule r.                                                         *)
Acquires(s, r) ==
  /\ OthersKeep(s)
  /\ InRun(s)' /\ req'[s].rule = r /\ req'[s].row = rule[r]
  /\ r \in Rules /\ Exists(r) /\ ~ Locked(r) /\ Runnable(rule[r])
  /\ rule[r].next <= MaxTime

(* A session that lets go, or locks a rule nobody holds, keeps the locks.  *)
LEMMA ReleaseKeepsLocks ==
  ASSUME IInv, NEW s \in Sessions, Releases(s), UNCHANGED rule
  PROVE  HeldRowIsCurrent' /\ OneHolder'
<1>1. \A u \in Sessions : InRun(u)' => InRun(u) /\ req'[u] = req[u]
  BY DEF Releases, OthersKeep, InRun
<1> QED  BY <1>1 DEF IInv, HeldRowIsCurrent, OneHolder, Runnable

LEMMA AcquireKeepsLocks ==
  ASSUME IInv, NEW s \in Sessions, NEW r, Acquires(s, r), UNCHANGED rule
  PROVE  HeldRowIsCurrent' /\ OneHolder'
<1>1. \A u \in Sessions \ {s} : InRun(u)' => /\ InRun(u) /\ req'[u] = req[u]
                                             /\ req[u].rule # r
  BY DEF Acquires, OthersKeep, InRun, Locked
<1>2. HeldRowIsCurrent'
  BY <1>1 DEF IInv, HeldRowIsCurrent, Runnable, Acquires
<1>3. OneHolder'
  BY <1>1 DEF IInv, OneHolder, Acquires
<1> QED  BY <1>2, <1>3

(* The holder of a rule writes its row and lets go.                        *)
LEMMA WriteHeldKeepsLocks ==
  ASSUME IInv, NEW s \in Sessions, InRun(s), Releases(s),
         NEW row, rule' = [rule EXCEPT ![req[s].rule] = row]
  PROVE  HeldRowIsCurrent' /\ OneHolder'
<1>1. \A u \in Sessions : InRun(u)' => /\ InRun(u) /\ req'[u] = req[u]
                                       /\ req[u].rule # req[s].rule
                                       /\ req[u].rule \in Rules
  BY HeldRow DEF Releases, OthersKeep, InRun, IInv, OneHolder
<1>2. rule \in [Rules -> Row \cup {NoRule, Gone}]
  BY DEF IInv, TypeOK
<1>3. \A u \in Sessions : InRun(u)' => rule'[req'[u].rule] = rule[req[u].rule]
  BY <1>1, <1>2
<1> QED  BY <1>1, <1>3 DEF IInv, HeldRowIsCurrent, OneHolder, Runnable

(* Somebody writes the row of a rule that nobody holds.                    *)
LEMMA WriteUnlockedKeepsLocks ==
  ASSUME IInv, NEW r \in Rules, ~ Locked(r), UNCHANGED req,
         NEW row, rule' = [rule EXCEPT ![r] = row]
  PROVE  HeldRowIsCurrent' /\ OneHolder'
<1>1. \A u \in Sessions : InRun(u)' => /\ InRun(u) /\ req'[u] = req[u]
                                       /\ req[u].rule # r
                                       /\ req[u].rule \in Rules
  BY HeldRow DEF InRun, IInv, Locked
<1>2. rule \in [Rules -> Row \cup {NoRule, Gone}]
  BY DEF IInv, TypeOK
<1>3. \A u \in Sessions : InRun(u)' => rule'[req'[u].rule] = rule[req[u].rule]
  BY <1>1, <1>2
<1> QED  BY <1>1, <1>3 DEF IInv, HeldRowIsCurrent, OneHolder, Runnable
-----------------------------------------------------------------------------
(* The books: what runs and charged say about the rules.                   *)
Books == NewRulesUncharged /\ RunsHaveRules /\ ChargedOnce

(* Which rules there are.                                                  *)
SameRules == \A q \in Rules : /\ Exists(q)' <=> Exists(q)
                              /\ rule'[q] = NoRule <=> rule[q] = NoRule

LEMMA SameKeepsBooks ==
  ASSUME Books, SameRules, UNCHANGED <<runs, charged>>
  PROVE  Books'
  BY DEF Books, SameRules, NewRulesUncharged, RunsHaveRules, ChargedOnce, Exists

(* The occurrence that is charged had no run record, so it was not charged *)
(* before.                                                                 *)
LEMMA ChargeKeepsBooks ==
  ASSUME TypeOK, Books, SameRules, NEW r \in Rules, NEW t \in Times,
         Exists(r), Charge(r, t)
  PROVE  Books'
<1>1. /\ charged \in [Rules -> [Times -> Nat]]
      /\ charged' = [charged EXCEPT ![r][t] = @ + 1]
      /\ runs' = runs \cup {<<r, t>>}
      /\ <<r, t>> \notin runs
  BY DEF TypeOK, Charge, AlreadyExecuted
<1>2. charged[r][t] = 0
  <2>1. charged[r][t] \in Nat
    BY <1>1
  <2>2. charged[r][t] <= 1 /\ charged[r][t] # 1
    BY <1>1 DEF Books, ChargedOnce
  <2> QED  BY <2>1, <2>2
<1>3. charged'[r][t] = 1
  BY <1>1, <1>2
<1>4. \A q \in Rules, u \in Times : <<q, u>> # <<r, t>> =>
        /\ charged'[q][u] = charged[q][u]
        /\ <<q, u>> \in runs' <=> <<q, u>> \in runs
  BY <1>1
<1>5. NewRulesUncharged'
  <2>1. \A q \in Rules : rule'[q] = NoRule => rule[q] = NoRule /\ q # r
    BY DEF SameRules, Exists
  <2> QED  BY <1>4, <2>1 DEF Books, NewRulesUncharged
<1>6. RunsHaveRules'
  BY <1>4 DEF Books, SameRules, RunsHaveRules, Exists
<1>7. ChargedOnce'
  <2>1. SUFFICES ASSUME NEW q \in Rules, NEW u \in Times
                 PROVE  /\ charged'[q][u] <= 1
                        /\ Exists(q)' => (<<q, u>> \in runs' <=> charged'[q][u] = 1)
    BY DEF ChargedOnce
  <2>2. CASE q = r /\ u = t
    BY <1>1, <1>3, <2>2
  <2>3. CASE ~ (q = r /\ u = t)
    BY <1>4, <2>3 DEF Books, SameRules, ChargedOnce, Exists
  <2> QED  BY <2>2, <2>3
<1> QED  BY <1>5, <1>6, <1>7 DEF Books

(* A rule that is written where there was one, and not taken away.         *)
LEMMA WriteSameRules ==
  ASSUME TypeOK, NEW r \in Rules, Exists(r),
         NEW row \in Row, rule' = [rule EXCEPT ![r] = row]
  PROVE  SameRules
  BY NoRuleAssumption DEF TypeOK, SameRules, Exists
-----------------------------------------------------------------------------
(* A session of Next, by what it does.                                     *)

LEMMA SessionKinds ==
  ASSUME TypeOK
  PROVE  /\ req \in [Sessions -> Request]
         /\ Schedulers \subseteq Sessions /\ Clients \subseteq Sessions
  BY DEF TypeOK, Sessions

(* The steps that let go of whatever they held and write nothing.          *)
LEMMA LettingGo ==
  ASSUME IInv, NEW s \in Sessions,
         StartPass(s) \/ NothingDue(s) \/ Fail(s) \/ \E r \in Rules : RefuseDue(s, r)
  PROVE  Releases(s)
<1>1. req \in [Sessions -> Request]
  BY SessionKinds DEF IInv
<1>2. CASE StartPass(s)
  BY <1>1, <1>2 DEF StartPass, Releases, OthersKeep, InRun
<1>3. CASE NothingDue(s) \/ Fail(s) \/ \E r \in Rules : RefuseDue(s, r)
  BY <1>1, <1>3 DEF NothingDue, Fail, RefuseDue, Releases, OthersKeep, InRun, Idle
<1> QED  BY <1>2, <1>3

(* The steps that lock a rule.                                             *)
LEMMA Locking ==
  ASSUME IInv, NEW s \in Sessions, NEW r \in Rules, PickDue(s, r) \/ RunManual(s, r)
  PROVE  Acquires(s, r)
<1>1. req \in [Sessions -> Request]
  BY SessionKinds DEF IInv
<1>2. CASE PickDue(s, r)
  <2>1. req[s].at \in 0 .. MaxTime
    BY <1>1, <1>2 DEF PickDue, Request, Idle
  <2>2. rule[r].next <= MaxTime
    <3>1. rule[r] \in Row
      BY <1>2 DEF PickDue, Due, Exists, IInv, TypeOK
    <3>2. rule[r].next \in Nat /\ rule[r].next <= req[s].at
      BY <1>2, <3>1, RowShape DEF PickDue, Due
    <3> QED  BY <2>1, <3>2, RecurringAssumption
  <2> QED  BY <1>1, <1>2, <2>2 DEF PickDue, Due, Acquires, OthersKeep, InRun
<1>3. CASE RunManual(s, r)
  BY <1>1, <1>3 DEF RunManual, Acquires, OthersKeep, InRun
<1> QED  BY <1>2, <1>3

(* The steps that execute an occurrence, or pass over one that was         *)
(* executed before.                                                        *)
Executes(s) ==
  /\ InRun(s)
  /\ \/ Charge(req[s].rule, req[s].row.next)
     \/ UNCHANGED <<runs, charged>> /\ AlreadyExecuted(req[s].rule, req[s].row.next)
  /\ Advance(req[s].rule, req[s].row)
  /\ Releases(s)
  /\ UNCHANGED updates

LEMMA Executing ==
  ASSUME IInv, NEW s \in Sessions,
         ExecuteManual(s) \/ \E r \in Rules : ExecuteDue(s, r) \/ SkipDue(s, r)
  PROVE  Executes(s)
<1>1. req \in [Sessions -> Request]
  BY SessionKinds DEF IInv
<1>2. CASE ExecuteManual(s)
  BY <1>1, <1>2 DEF ExecuteManual, Executes, Releases, OthersKeep, InRun, Idle
<1>3. ASSUME NEW n, Continue(s, n) PROVE Releases(s)
  BY <1>1, <1>3 DEF Continue, Releases, OthersKeep, InRun, Idle
<1>4. ASSUME NEW r \in Rules, ExecuteDue(s, r) PROVE Executes(s)
  BY <1>3, <1>4 DEF ExecuteDue, Executes, InRun
<1>5. ASSUME NEW r \in Rules, SkipDue(s, r) PROVE Executes(s)
  BY <1>3, <1>5 DEF SkipDue, Executes, InRun
<1> QED  BY <1>2, <1>4, <1>5
-----------------------------------------------------------------------------
(* The types.                                                              *)

(* Every step leaves the sessions with requests of the declared shapes.    *)
LEMMA RequestsTyped ==
  ASSUME IInv, Next
  PROVE  req' \in [Sessions -> Request]
<1>1. /\ req \in [Sessions -> Request]
      /\ Schedulers \subseteq Sessions /\ Clients \subseteq Sessions
  BY SessionKinds DEF IInv
<1>2. Idle \in Request
  BY DEF Request
<1>3. ASSUME NEW s \in Schedulers, StartPass(s) PROVE req' \in [Sessions -> Request]
  <2>1. [kind |-> "due", at |-> now, left |-> BatchSize] \in Request
    BY RecurringAssumption DEF Request, IInv, TypeOK
  <2> QED  BY <1>1, <1>3, <2>1 DEF StartPass
<1>4. ASSUME NEW s \in Sessions, NothingDue(s) \/ Fail(s) \/ \E r \in Rules : RefuseDue(s, r)
      PROVE  req' \in [Sessions -> Request]
  BY <1>1, <1>2, <1>4 DEF NothingDue, Fail, RefuseDue
<1>5. ASSUME NEW s \in Schedulers, NEW r \in Rules, PickDue(s, r)
      PROVE  req' \in [Sessions -> Request]
  <2>1. rule[r] \in Row
    BY <1>5 DEF PickDue, Due, Exists, IInv, TypeOK
  <2>2. req[s].at \in 0 .. MaxTime /\ req[s].left \in 1 .. BatchSize
    BY <1>1, <1>5 DEF PickDue, Request, Idle
  <2>3. [kind |-> "run", at |-> req[s].at, left |-> req[s].left, rule |-> r, row |-> rule[r]]
          \in Request
    BY <2>1, <2>2 DEF Request
  <2> QED  BY <1>1, <1>5, <2>3 DEF PickDue
<1>6. ASSUME NEW s \in Schedulers, NEW r \in Rules, ExecuteDue(s, r) \/ SkipDue(s, r)
      PROVE  req' \in [Sessions -> Request]
  <2>1. req[s].at \in 0 .. MaxTime /\ req[s].left \in 1 .. BatchSize
    BY <1>1, <1>6 DEF ExecuteDue, SkipDue, Request, Idle
  <2>2. ASSUME NEW n \in 0 .. BatchSize, Continue(s, n) PROVE req' \in [Sessions -> Request]
    <3>1. n # 0 => [kind |-> "due", at |-> req[s].at, left |-> n] \in Request
      BY <2>1, RecurringAssumption DEF Request
    <3> QED  BY <1>1, <1>2, <2>2, <3>1 DEF Continue
  <2>3. req[s].left - 1 \in 0 .. BatchSize /\ req[s].left \in 0 .. BatchSize
    BY <2>1, RecurringAssumption
  <2> QED  BY <1>6, <2>2, <2>3 DEF ExecuteDue, SkipDue
<1>7. ASSUME NEW s \in Clients, NEW r \in Rules, RunManual(s, r)
      PROVE  req' \in [Sessions -> Request]
  <2>1. rule[r] \in Row
    BY <1>7 DEF RunManual, Exists, IInv, TypeOK
  <2>2. [kind |-> "manual", rule |-> r, row |-> rule[r]] \in Request
    BY <2>1 DEF Request
  <2> QED  BY <1>1, <1>7, <2>2 DEF RunManual
<1>8. ASSUME NEW s \in Clients, ExecuteManual(s) PROVE req' \in [Sessions -> Request]
  BY <1>1, <1>2, <1>8 DEF ExecuteManual
<1>9. ASSUME NEW r \in Rules, \/ Delete(r) \/ LoseWallet(r)
                              \/ \E row \in UserRow : Create(r, row) \/ Update(r, row)
      PROVE  req' \in [Sessions -> Request]
  BY <1>1, <1>9 DEF Create, Update, Delete, LoseWallet
<1>10. CASE Tick
  BY <1>1, <1>10 DEF Tick
<1> QED  BY <1>1, <1>3, <1>4, <1>5, <1>6, <1>7, <1>8, <1>9, <1>10 DEF Next
-----------------------------------------------------------------------------
(* The four kinds of steps keep the invariant.                             *)

(* Nothing but requests, the clock and access to wallets changes.          *)
LEMMA QuietKeeps ==
  ASSUME IInv, req' \in [Sessions -> Request],
         UNCHANGED <<rule, runs, charged, updates>>,
         writable' \in [Rules -> BOOLEAN], now' \in 0 .. MaxTime,
         HeldRowIsCurrent', OneHolder'
  PROVE  IInv'
<1>1. TypeOK'
  BY DEF IInv, TypeOK
<1>2. Books'
  BY SameKeepsBooks DEF IInv, Books, SameRules, Exists
<1>3. PastEndIsCancelled'
  BY DEF IInv, PastEndIsCancelled, Exists
<1> QED  BY <1>1, <1>2, <1>3 DEF IInv, Books

(* A rule that stays is given a row that is valid or cancelled.            *)
LEMMA WriteKeeps ==
  ASSUME IInv, req' \in [Sessions -> Request],
         NEW r \in Rules, Exists(r),
         NEW row \in Row, row.next > row.end => row.status = "cancelled",
         rule' = [rule EXCEPT ![r] = row],
         \/ UNCHANGED <<runs, charged>>
         \/ \E t \in Times : Charge(r, t),
         UNCHANGED <<writable, now>>, updates' \in 0 .. MaxUpdates,
         HeldRowIsCurrent', OneHolder'
  PROVE  IInv'
<1>1. SameRules
  BY WriteSameRules DEF IInv
<1>2. Books'
  BY <1>1, SameKeepsBooks, ChargeKeepsBooks DEF IInv, Books
<1>3. rule' \in [Rules -> Row \cup {NoRule, Gone}]
  BY DEF IInv, TypeOK
<1>4. runs' \subseteq Rules \X Times /\ charged' \in [Rules -> [Times -> Nat]]
  <2>1. CASE UNCHANGED <<runs, charged>>
    BY <2>1 DEF IInv, TypeOK
  <2>2. ASSUME NEW t \in Times, Charge(r, t)
        PROVE  runs' \subseteq Rules \X Times /\ charged' \in [Rules -> [Times -> Nat]]
    BY <2>2 DEF IInv, TypeOK, Charge
  <2> QED  BY <2>1, <2>2
<1>5. TypeOK'
  BY <1>3, <1>4 DEF IInv, TypeOK
<1>6. PastEndIsCancelled'
  BY DEF IInv, TypeOK, PastEndIsCancelled, Exists
<1> QED  BY <1>2, <1>5, <1>6 DEF IInv, Books

(* An execution.                                                           *)
LEMMA ExecuteKeeps ==
  ASSUME IInv, req' \in [Sessions -> Request], NEW s \in Sessions, Executes(s),
         UNCHANGED <<writable, now>>
  PROVE  IInv'
<1> DEFINE r == req[s].rule  row == req[s].row  new == NextStateAfterRun(row)
<1>1. /\ r \in Rules /\ row \in Row /\ rule[r] = row /\ Exists(r)
      /\ row.next <= MaxTime
  BY HeldRow DEF IInv, Executes
<1>2. rule' = [rule EXCEPT ![r] = new] /\ new \in Row
  BY AdvanceHeld DEF IInv, Executes
<1>3. new.next > new.end => new.status = "cancelled"
  BY <1>1, AdvancedRow
<1>4. row.next \in Times
  BY <1>1, RowShape
<1>5. UNCHANGED <<runs, charged>> \/ \E t \in Times : Charge(r, t)
  BY <1>4 DEF Executes
<1>6. HeldRowIsCurrent' /\ OneHolder'
  BY <1>2, WriteHeldKeepsLocks DEF Executes
<1>7. updates' \in 0 .. MaxUpdates
  BY DEF Executes, IInv, TypeOK
<1> HIDE DEF r, row, new
<1> QED  BY <1>1, <1>2, <1>3, <1>5, <1>6, <1>7, WriteKeeps

(* Creating and deleting a rule, which nobody holds.                       *)
LEMMA CreateKeeps ==
  ASSUME IInv, NEW r \in Rules, NEW row \in UserRow, Create(r, row)
  PROVE  IInv'
<1>1. /\ row \in Row /\ ValidRow(row)
      /\ rule[r] = NoRule /\ ~ Exists(r)
      /\ rule' = [rule EXCEPT ![r] = row]
      /\ UNCHANGED <<runs, charged, now, updates, req>>
      /\ writable' = [writable EXCEPT ![r] = TRUE]
  BY DEF Create, UserRow, Exists
<1>2. ~ Locked(r)
  BY <1>1, HeldRow DEF IInv, Locked
<1>3. HeldRowIsCurrent' /\ OneHolder'
  BY <1>1, <1>2, WriteUnlockedKeepsLocks
<1>4. TypeOK'
  BY <1>1 DEF IInv, TypeOK
<1>5. \A q \in Rules : rule'[q] = IF q = r THEN row ELSE rule[q]
  BY <1>1 DEF IInv, TypeOK
<1>6. \A t \in Times : charged[r][t] = 0 /\ <<r, t>> \notin runs
  BY <1>1 DEF IInv, NewRulesUncharged, RunsHaveRules
<1>7. NewRulesUncharged' /\ RunsHaveRules' /\ ChargedOnce'
  BY <1>1, <1>5, <1>6, NoRuleAssumption
     DEF IInv, NewRulesUncharged, RunsHaveRules, ChargedOnce, Exists
<1>8. PastEndIsCancelled'
  <2>1. ~ row.next > row.end
    BY <1>1, RowShape DEF ValidRow
  <2> QED  BY <1>5, <2>1 DEF IInv, PastEndIsCancelled, Exists
<1> QED  BY <1>3, <1>4, <1>7, <1>8 DEF IInv

LEMMA DeleteKeeps ==
  ASSUME IInv, NEW r \in Rules, Delete(r)
  PROVE  IInv'
<1>1. /\ rule' = [rule EXCEPT ![r] = Gone]
      /\ runs' = {k \in runs : k[1] # r}
      /\ ~ Locked(r)
      /\ UNCHANGED <<charged, writable, now, updates, req>>
  BY DEF Delete
<1>2. HeldRowIsCurrent' /\ OneHolder'
  BY <1>1, WriteUnlockedKeepsLocks
<1>3. TypeOK'
  BY <1>1 DEF IInv, TypeOK
<1>4. \A q \in Rules : rule'[q] = IF q = r THEN Gone ELSE rule[q]
  BY <1>1 DEF IInv, TypeOK
<1>5. \A q \in Rules, t \in Times : <<q, t>> \in runs' <=> <<q, t>> \in runs /\ q # r
  BY <1>1
<1>6. NewRulesUncharged' /\ RunsHaveRules' /\ ChargedOnce'
  BY <1>1, <1>4, <1>5, NoRuleAssumption
     DEF IInv, NewRulesUncharged, RunsHaveRules, ChargedOnce, Exists
<1>7. PastEndIsCancelled'
  BY <1>4 DEF IInv, PastEndIsCancelled, Exists
<1> QED  BY <1>2, <1>3, <1>6, <1>7 DEF IInv
-----------------------------------------------------------------------------
(* The inductive invariant.                                                *)

LEMMA InitInv == Init => IInv
<1> SUFFICES ASSUME Init PROVE IInv
  OBVIOUS
<1>1. TypeOK
  BY RecurringAssumption DEF Init, TypeOK, Request
<1>2. \A s \in Sessions : ~ InRun(s)
  BY DEF Init, InRun, Idle
<1>3. \A r \in Rules : ~ Exists(r)
  BY DEF Init, Exists
<1> QED  BY <1>1, <1>2, <1>3 DEF Init, IInv, NewRulesUncharged, HeldRowIsCurrent, OneHolder,
                                 RunsHaveRules, ChargedOnce, PastEndIsCancelled

LEMMA NextInv == IInv /\ [Next]_vars => IInv'
<1> SUFFICES ASSUME IInv, [Next]_vars PROVE IInv'
  OBVIOUS
<1>1. CASE UNCHANGED vars
  BY <1>1 DEF vars, IInv, TypeOK, NewRulesUncharged, HeldRowIsCurrent, OneHolder, InRun,
              RunsHaveRules, ChargedOnce, PastEndIsCancelled, Exists, Runnable
<1>2. CASE Next
  <2>1. req' \in [Sessions -> Request]
    BY <1>2, RequestsTyped
  <2>2. /\ Schedulers \subseteq Sessions /\ Clients \subseteq Sessions
        /\ writable \in [Rules -> BOOLEAN] /\ now \in 0 .. MaxTime
    BY SessionKinds DEF IInv, TypeOK
  <2>3. ASSUME NEW s \in Sessions,
               StartPass(s) \/ NothingDue(s) \/ Fail(s) \/ \E r \in Rules : RefuseDue(s, r)
        PROVE  IInv'
    <3>1. UNCHANGED <<rule, runs, charged, writable, now, updates>>
      BY <2>3 DEF StartPass, NothingDue, Fail, RefuseDue
    <3> QED  BY <2>1, <2>2, <2>3, <3>1, LettingGo, ReleaseKeepsLocks, QuietKeeps
  <2>4. ASSUME NEW s \in Sessions, NEW r \in Rules, PickDue(s, r) \/ RunManual(s, r)
        PROVE  IInv'
    <3>1. UNCHANGED <<rule, runs, charged, writable, now, updates>>
      BY <2>4 DEF PickDue, RunManual
    <3> QED  BY <2>1, <2>2, <2>4, <3>1, Locking, AcquireKeepsLocks, QuietKeeps
  <2>5. ASSUME NEW s \in Sessions,
               ExecuteManual(s) \/ \E r \in Rules : ExecuteDue(s, r) \/ SkipDue(s, r)
        PROVE  IInv'
    <3>1. UNCHANGED <<writable, now>>
      BY <2>5 DEF ExecuteManual, ExecuteDue, SkipDue
    <3> QED  BY <2>1, <2>5, <3>1, Executing, ExecuteKeeps
  <2>6. ASSUME NEW r \in Rules, NEW row \in UserRow, Create(r, row) PROVE IInv'
    BY <2>6, CreateKeeps
  <2>7. ASSUME NEW r \in Rules, NEW row \in UserRow, Update(r, row) PROVE IInv'
    <3>1. /\ row \in Row /\ ValidRow(row) /\ Exists(r) /\ ~ Locked(r)
          /\ rule' = [rule EXCEPT ![r] = row]
          /\ UNCHANGED <<runs, charged, writable, now, req>>
      BY <2>7 DEF Update, UserRow
    <3>2. updates' \in 0 .. MaxUpdates
      BY <2>7, RecurringAssumption DEF Update, IInv, TypeOK
    <3>3. ~ row.next > row.end
      BY <3>1, RowShape DEF ValidRow
    <3>4. HeldRowIsCurrent' /\ OneHolder'
      BY <3>1, WriteUnlockedKeepsLocks
    <3> QED  BY <2>1, <3>1, <3>2, <3>3, <3>4, WriteKeeps
  <2>8. ASSUME NEW r \in Rules, Delete(r) PROVE IInv'
    BY <2>8, DeleteKeeps
  <2>9. ASSUME (\E r \in Rules : LoseWallet(r)) \/ Tick PROVE IInv'
    <3>1. UNCHANGED <<rule, runs, charged, updates, req>>
      BY <2>9 DEF LoseWallet, Tick
    <3>2. writable' \in [Rules -> BOOLEAN]
      BY <2>2, <2>9 DEF LoseWallet, Tick
    <3>3. now' \in 0 .. MaxTime
      BY <2>2, <2>9, RecurringAssumption DEF LoseWallet, Tick
    <3>4. HeldRowIsCurrent' /\ OneHolder'
      BY <3>1 DEF IInv, HeldRowIsCurrent, OneHolder, InRun, Runnable
    <3> QED  BY <2>1, <3>1, <3>2, <3>3, <3>4, QuietKeeps
  <2> QED  BY <1>2, <2>2, <2>3, <2>4, <2>5, <2>6, <2>7, <2>8, <2>9 DEF Next
<1> QED  BY <1>1, <1>2

LEMMA Invariance == Spec => []IInv
  BY InitInv, NextInv, PTL DEF Spec
-----------------------------------------------------------------------------
(* Every row, run record and request keeps its shape, dates and counters   *)
(* their bounds, whatever interleaves.                                     *)
THEOREM TypeCorrect == Spec => []TypeOK
<1>1. IInv => TypeOK
  BY DEF IInv
<1> QED  BY <1>1, Invariance, PTL

(* "Scheduler races cannot double-charge the same scheduled occurrence"    *)
(* (README.md:478): an occurrence of a rule makes at most one transaction, *)
(* and has a run record exactly if it made one.                            *)
THEOREM NeverChargedTwice == Spec => []ChargedOnce
<1>1. IInv => ChargedOnce
  BY DEF IInv
<1> QED  BY <1>1, Invariance, PTL

(* A rule that ran past its end is cancelled (NextStateAfterRun).          *)
THEOREM EndsAreKept == Spec => []PastEndIsCancelled
<1>1. IInv => PastEndIsCancelled
  BY DEF IInv
<1> QED  BY <1>1, Invariance, PTL

(* What a step charges: one occurrence, by a session that executes it.     *)
LEMMA StepsOf ==
  ASSUME IInv, Next
  PROVE  \/ \E s \in Sessions : Executes(s)
         \/ UNCHANGED charged /\ \A r \in Rules :
              \/ UNCHANGED updates => rule'[r] = rule[r]
              \/ ~ Exists(r)
              \/ ~ Exists(r)'
<1>1. rule \in [Rules -> Row \cup {NoRule, Gone}] /\ updates \in 0 .. MaxUpdates
      /\ Schedulers \subseteq Sessions /\ Clients \subseteq Sessions
  BY SessionKinds DEF IInv, TypeOK
<1> DEFINE Quiet == UNCHANGED charged /\ \A r \in Rules :
                      \/ UNCHANGED updates => rule'[r] = rule[r]
                      \/ ~ Exists(r)
                      \/ ~ Exists(r)'
<1>2. ASSUME NEW s \in Sessions,
             ExecuteManual(s) \/ \E r \in Rules : ExecuteDue(s, r) \/ SkipDue(s, r)
      PROVE  Executes(s)
  BY <1>2, Executing
<1>3. ASSUME NEW s \in Sessions,
             \/ StartPass(s) \/ NothingDue(s) \/ Fail(s)
             \/ \E r \in Rules : RefuseDue(s, r) \/ PickDue(s, r) \/ RunManual(s, r)
      PROVE  Quiet
  BY <1>3 DEF StartPass, NothingDue, Fail, RefuseDue, PickDue, RunManual
<1>4. ASSUME NEW q \in Rules, NEW row \in UserRow, Create(q, row) PROVE Quiet
  BY <1>1, <1>4 DEF Create, Exists
<1>5. ASSUME NEW q \in Rules, NEW row \in UserRow, Update(q, row) PROVE Quiet
  BY <1>1, <1>5 DEF Update
<1>6. ASSUME NEW q \in Rules, Delete(q) PROVE Quiet
  BY <1>1, <1>6 DEF Delete, Exists
<1>7. ASSUME (\E q \in Rules : LoseWallet(q)) \/ Tick PROVE Quiet
  BY <1>7 DEF LoseWallet, Tick
<1> HIDE DEF Quiet
<1>8. (\E s \in Sessions : Executes(s)) \/ Quiet
  BY <1>1, <1>2, <1>3, <1>4, <1>5, <1>6, <1>7 DEF Next
<1> QED  BY <1>8 DEF Quiet

(* Money moves only for the next occurrence of a rule that is active and   *)
(* not past its end when it moves (FOR UPDATE, executeLocked).             *)
THEOREM NoStaleCharge == Spec => ChargesFollowRule
<1> DEFINE Follows == \A r \in Rules, t \in Times : charged'[r][t] # charged[r][t] =>
                         Exists(r) /\ Runnable(rule[r]) /\ rule[r].next = t
<1>1. ASSUME IInv, [Next]_vars PROVE [Follows]_vars
  <2>1. CASE \E s \in Sessions : Executes(s)
    <3>1. PICK s \in Sessions : Executes(s)
      BY <2>1
    <3>2. /\ req[s].rule \in Rules /\ rule[req[s].rule] = req[s].row
          /\ Exists(req[s].rule) /\ Runnable(rule[req[s].rule])
      BY <1>1, <3>1, HeldRow DEF IInv, Executes
    <3>3. \A r \in Rules, t \in Times : charged'[r][t] # charged[r][t] =>
            r = req[s].rule /\ t = req[s].row.next
      BY <1>1, <3>1 DEF IInv, TypeOK, Executes, Charge
    <3> QED  BY <3>2, <3>3
  <2>2. CASE UNCHANGED charged
    BY <2>2
  <2> QED  BY <1>1, <2>1, <2>2, StepsOf DEF vars
<1> QED  BY <1>1, Invariance, PTL DEF Spec, ChargesFollowRule

(* A rule is moved past an occurrence by its owner, or because it was      *)
(* charged; a failure leaves it where it is.                               *)
THEOREM NoLostOccurrence == Spec => NothingPassedOver
<1> DEFINE Kept == \A r \in Rules :
                     LET t == rule[r].next IN
                     /\ Exists(r) /\ Exists(r)' /\ updates' = updates
                     /\ rule'[r].next # t
                     => charged'[r][t] = 1 /\ rule'[r].next = t + rule[r].every
<1>1. ASSUME IInv, IInv', [Next]_vars PROVE [Kept]_vars
  <2>1. CASE \E s \in Sessions : Executes(s)
    <3>1. PICK s \in Sessions : Executes(s)
      BY <2>1
    <3>2. PICK q \in Rules, row \in Row :
            /\ q = req[s].rule /\ row = req[s].row
            /\ rule[q] = row /\ Exists(q) /\ row.next <= MaxTime
      BY <1>1, <3>1, HeldRow DEF IInv, Executes
    <3>3. rule' = [rule EXCEPT ![q] = NextStateAfterRun(row)]
      BY <1>1, <3>1, <3>2, AdvanceHeld DEF IInv, Executes
    <3>4. /\ \A r \in Rules : r # q => rule'[r] = rule[r]
          /\ rule'[q].next = row.next + row.every
          /\ rule'[q] \in Row
      BY <1>1, <3>2, <3>3, AdvancedRow DEF IInv, TypeOK
    <3>5. <<q, row.next>> \in runs'
      BY <3>1, <3>2 DEF Executes, Charge, AlreadyExecuted
    <3>6. Exists(q)'
      BY <3>4, NoRuleAssumption DEF Exists
    <3>7. charged'[q][row.next] = 1
      BY <1>1, <3>2, <3>5, <3>6, RowShape DEF IInv, ChargedOnce
    <3> QED  BY <3>2, <3>4, <3>7
  <2>2. CASE \A r \in Rules : \/ UNCHANGED updates => rule'[r] = rule[r]
                              \/ ~ Exists(r)
                              \/ ~ Exists(r)'
    BY <2>2
  <2> QED  BY <1>1, <2>1, <2>2, StepsOf DEF vars
<1> QED  BY <1>1, Invariance, PTL DEF Spec, NothingPassedOver
=============================================================================
