------------------------------ MODULE Recurring ------------------------------
(***************************************************************************)
(* Recurring transactions (internal/recurring): rules that are executed by *)
(* the scheduler of every API process and by hand, while their owners      *)
(* edit, pause and delete them.                                            *)
(*                                                                         *)
(* Executing an occurrence is a database transaction that locks the rule's *)
(* row first; req[s] holds what it read.  The run record, the transaction  *)
(* (TransactionStore) and the advanced rule become visible together at     *)
(* COMMIT, in one step.                                                    *)
(*                                                                         *)
(* Time is counted in the weeks or months that an interval counts; amounts *)
(* and categories are left out, and of the wallet only whether the rule's  *)
(* user may still record a transaction in it.                              *)
(***************************************************************************)
EXTENDS Integers

CONSTANTS
  Rules,
  Schedulers,    \* one per API process
  Clients,       \* requests to run a rule by hand
  MaxTime,       \* the clock stops here, and requests name no later time
  Horizon,       \* no rule is advanced further
  Intervals,     \* values of interval_count
  Ends,          \* values of end_at, Never for NULL
  BatchSize,
  MaxUpdates,    \* how many updates the owners make
  NoRule, Gone   \* a rule that is not in the table yet, and not any more

Never == Horizon + 1

ASSUME RecurringAssumption ==
  /\ MaxTime \in Nat
  /\ Horizon \in Nat
  /\ Intervals \subseteq Nat \ {0}
  /\ \A i \in Intervals : MaxTime + i <= Horizon
  /\ Ends \subseteq 0 .. Never
  /\ BatchSize \in Nat \ {0}
  /\ MaxUpdates \in Nat

Times    == 0 .. Horizon
Statuses == {"active", "paused", "cancelled"}
Row      == [next : Times, every : Intervals, end : Ends, status : Statuses]

ASSUME NoRuleAssumption == NoRule \notin Row /\ Gone \notin Row /\ Gone # NoRule

Sessions == Schedulers \cup Clients

Idle == [kind |-> "none"]

(* "due": a pass of RunDue between two rules; "run": it holds a rule.      *)
Request ==
       {Idle}
  \cup [kind : {"due"}, at : 0 .. MaxTime, left : 1 .. BatchSize]
  \cup [kind : {"run"}, at : 0 .. MaxTime, left : 1 .. BatchSize, rule : Rules, row : Row]
  \cup [kind : {"manual"}, rule : Rules, row : Row]

VARIABLES
  rule,       \* committed rows of recurring_transaction_rules
  runs,       \* keys (rule, scheduled_for) of recurring_transaction_runs
  charged,    \* how many transactions an occurrence of a rule has made
  writable,   \* whether the rule's user may write to its wallets
  now,
  updates,    \* how many updates were made, up to MaxUpdates
  req

vars == <<rule, runs, charged, writable, now, updates, req>>

TypeOK ==
  /\ rule     \in [Rules -> Row \cup {NoRule, Gone}]
  /\ runs     \subseteq Rules \X Times
  /\ charged  \in [Rules -> [Times -> Nat]]
  /\ writable \in [Rules -> BOOLEAN]
  /\ now      \in 0 .. MaxTime
  /\ updates  \in 0 .. MaxUpdates
  /\ req      \in [Sessions -> Request]

Init ==
  /\ rule     = [r \in Rules |-> NoRule]
  /\ runs     = {}
  /\ charged  = [r \in Rules |-> [t \in Times |-> 0]]
  /\ writable = [r \in Rules |-> FALSE]
  /\ now      = 0
  /\ updates  = 0
  /\ req      = [s \in Sessions |-> Idle]
-----------------------------------------------------------------------------
Exists(r) == rule[r] \notin {NoRule, Gone}

InRun(s) == req[s].kind \in {"run", "manual"}

(* A faulty variant for the mutation checks: runOneDue does not lock.      *)
LockedByHand(r) == \E s \in Sessions : req[s].kind = "manual" /\ req[s].rule = r

(* The row lock of SELECT ... FOR UPDATE, held until COMMIT or ROLLBACK.   *)
Locked(r) == \E s \in Sessions : InRun(s) /\ req[s].rule = r

(* executeLocked refuses the others.                                       *)
Runnable(row) == row.status = "active" /\ row.next <= row.end

Due(r, t) == Exists(r) /\ Runnable(rule[r]) /\ rule[r].next <= t

NextStateAfterRun(row) ==
  LET next == row.next + row.every IN
    [row EXCEPT !.next = next, !.status = IF next > row.end THEN "cancelled" ELSE @]

(* advanceLockedRule writes the new date and status computed from the row  *)
(* that was read.                                                          *)
Advance(r, row) ==
  rule' = [rule EXCEPT ![r].next   = NextStateAfterRun(row).next,
                       ![r].status = NextStateAfterRun(row).status]

(* A faulty variant: the run record has no unique key.                     *)
NeverExecuted(r, t) == FALSE

(* INSERT ... ON CONFLICT (rule_id, scheduled_for) DO NOTHING finds a row. *)
AlreadyExecuted(r, t) == <<r, t>> \in runs

(* The run record and the transaction of an occurrence.                    *)
Charge(r, t) ==
  /\ ~ AlreadyExecuted(r, t)
  /\ writable[r]
  /\ runs'    = runs \cup {<<r, t>>}
  /\ charged' = [charged EXCEPT ![r][t] = @ + 1]
-----------------------------------------------------------------------------
(* The scheduler.                                                          *)

(* scheduler.run: a pass with the time it starts at.                       *)
StartPass(s) ==
  /\ req[s] = Idle
  /\ req' = [req EXCEPT ![s] = [kind |-> "due", at |-> now, left |-> BatchSize]]
  /\ UNCHANGED <<rule, runs, charged, writable, now, updates>>

(* A faulty variant: next_run_at = now instead of <=.                      *)
PickDueOnTime(s, r) ==
  /\ req[s].kind = "due"
  /\ Due(r, req[s].at) /\ ~ Locked(r)
  /\ rule[r].next = req[s].at
  /\ req' = [req EXCEPT ![s] = [kind |-> "run", at |-> @.at, left |-> @.left,
                                rule |-> r, row |-> rule[r]]]
  /\ UNCHANGED <<rule, runs, charged, writable, now, updates>>

(* runOneDue: the earliest due rule that nobody has locked.                *)
PickDue(s, r) ==
  /\ req[s].kind = "due"
  /\ Due(r, req[s].at) /\ ~ Locked(r)
  /\ \A q \in Rules : Due(q, req[s].at) /\ ~ Locked(q) => rule[r].next <= rule[q].next
  /\ req' = [req EXCEPT ![s] = [kind |-> "run", at |-> @.at, left |-> @.left,
                                rule |-> r, row |-> rule[r]]]
  /\ UNCHANGED <<rule, runs, charged, writable, now, updates>>

NothingDue(s) ==
  /\ req[s].kind = "due"
  /\ \A r \in Rules : Due(r, req[s].at) => Locked(r)
  /\ req' = [req EXCEPT ![s] = Idle]
  /\ UNCHANGED <<rule, runs, charged, writable, now, updates>>

(* A faulty variant: the batch size is not compared.                       *)
ContinueUnlimited(s, n) ==
  req' = [req EXCEPT ![s] = [kind |-> "due", at |-> @.at, left |-> n]]

(* The pass goes on with n more rules to execute.                          *)
Continue(s, n) ==
  req' = [req EXCEPT ![s] =
            IF n = 0 THEN Idle ELSE [kind |-> "due", at |-> @.at, left |-> n]]

ExecuteDue(s, r) ==
  LET row == req[s].row IN
  /\ req[s].kind = "run" /\ req[s].rule = r
  /\ Charge(r, row.next)
  /\ Advance(r, row)
  /\ Continue(s, req[s].left - 1)
  /\ UNCHANGED <<writable, now, updates>>

(* An occurrence that was executed before is passed over and not counted.  *)
SkipDue(s, r) ==
  LET row == req[s].row IN
  /\ req[s].kind = "run" /\ req[s].rule = r
  /\ AlreadyExecuted(r, row.next)
  /\ Advance(r, row)
  /\ Continue(s, req[s].left)
  /\ UNCHANGED <<runs, charged, writable, now, updates>>

(* A faulty variant: the occurrence is given up instead of the pass.       *)
RefuseDueAdvances(s, r) ==
  LET row == req[s].row IN
  /\ req[s].kind = "run" /\ req[s].rule = r
  /\ ~ AlreadyExecuted(r, row.next)
  /\ ~ writable[r]
  /\ Advance(r, row)
  /\ Continue(s, req[s].left)
  /\ UNCHANGED <<runs, charged, writable, now, updates>>

(* CreateInTx fails, and RunDue gives the whole pass up.                   *)
RefuseDue(s, r) ==
  /\ req[s].kind = "run" /\ req[s].rule = r
  /\ ~ AlreadyExecuted(r, req[s].row.next)
  /\ ~ writable[r]
  /\ req' = [req EXCEPT ![s] = Idle]
  /\ UNCHANGED <<rule, runs, charged, writable, now, updates>>

(* A statement fails, or the process stops: the open transaction rolls     *)
(* back and the pass or request is over.                                   *)
Fail(s) ==
  /\ req[s] # Idle
  /\ req' = [req EXCEPT ![s] = Idle]
  /\ UNCHANGED <<rule, runs, charged, writable, now, updates>>
-----------------------------------------------------------------------------
(* Requests of users.                                                      *)

(* RunManual executes the next occurrence, due or not.                     *)
RunManual(s, r) ==
  /\ req[s] = Idle
  /\ Exists(r) /\ ~ Locked(r)
  /\ Runnable(rule[r])
  /\ rule[r].next <= MaxTime   \* bound
  /\ req' = [req EXCEPT ![s] = [kind |-> "manual", rule |-> r, row |-> rule[r]]]
  /\ UNCHANGED <<rule, runs, charged, writable, now, updates>>

(* An occurrence that was executed before makes it fail (Fail).            *)
ExecuteManual(s) ==
  LET r == req[s].rule   row == req[s].row IN
  /\ req[s].kind = "manual"
  /\ Charge(r, row.next)
  /\ Advance(r, row)
  /\ req' = [req EXCEPT ![s] = Idle]
  /\ UNCHANGED <<writable, now, updates>>

ValidRow(row) == row.next <= row.end

Create(r, row) ==
  /\ rule[r] = NoRule
  /\ ValidRow(row)
  /\ rule'     = [rule EXCEPT ![r] = row]
  /\ writable' = [writable EXCEPT ![r] = TRUE]
  /\ UNCHANGED <<runs, charged, now, updates, req>>

(* Update overwrites date and status with what the client sent, which may  *)
(* be from before the last run; ensureRefs wants the wallets writable.     *)
Update(r, row) ==
  /\ updates < MaxUpdates /\ updates' = updates + 1
  /\ Exists(r) /\ ~ Locked(r)
  /\ ValidRow(row)
  /\ writable[r]
  /\ rule' = [rule EXCEPT ![r] = row]
  /\ UNCHANGED <<runs, charged, writable, now, req>>

(* Run records go with their rule, transactions stay.                      *)
Delete(r) ==
  /\ Exists(r) /\ ~ Locked(r)
  /\ rule' = [rule EXCEPT ![r] = Gone]
  /\ runs' = {k \in runs : k[1] # r}
  /\ UNCHANGED <<charged, writable, now, updates, req>>

(* The owner of a shared wallet takes the rule's user off it (Sharing).    *)
LoseWallet(r) ==
  /\ Exists(r) /\ writable[r]
  /\ writable' = [writable EXCEPT ![r] = FALSE]
  /\ UNCHANGED <<rule, runs, charged, now, updates, req>>

Tick ==
  /\ now < MaxTime
  /\ now' = now + 1
  /\ UNCHANGED <<rule, runs, charged, writable, updates, req>>
-----------------------------------------------------------------------------
UserRow == {row \in Row : row.next <= MaxTime}

Next ==
  \/ \E s \in Schedulers :
       \/ StartPass(s) \/ NothingDue(s)
       \/ \E r \in Rules : PickDue(s, r) \/ ExecuteDue(s, r) \/ SkipDue(s, r) \/ RefuseDue(s, r)
  \/ \E s \in Clients : ExecuteManual(s) \/ \E r \in Rules : RunManual(s, r)
  \/ \E s \in Sessions : Fail(s)
  \/ \E r \in Rules : \/ \E row \in UserRow : Create(r, row) \/ Update(r, row)
                      \/ Delete(r)
                      \/ LoseWallet(r)
  \/ Tick

(* The ticker of every scheduler goes on, a pass goes on to its next rule, *)
(* and the failures of an execution that could succeed do not go on for    *)
(* ever: they are lost connections and restarts.                           *)
Fairness ==
  \A s \in Schedulers :
    /\ WF_vars(StartPass(s) \/ NothingDue(s))
    /\ \A r \in Rules : /\ SF_vars(PickDue(s, r))
                        /\ SF_vars(ExecuteDue(s, r))
                        /\ SF_vars(SkipDue(s, r))
                        /\ WF_vars(RefuseDue(s, r))

Spec     == Init /\ [][Next]_vars
FairSpec == Spec /\ Fairness
-----------------------------------------------------------------------------
(* Properties.                                                             *)

(* "Scheduler races cannot double-charge the same scheduled occurrence"    *)
(* (README.md:478), whoever executes it and however often updates move the *)
(* rule back to it; and a run record stands for exactly one transaction,   *)
(* however executions fail.                                                *)
ChargedOnce ==
  \A r \in Rules, t \in Times :
    /\ charged[r][t] <= 1
    /\ Exists(r) => (<<r, t>> \in runs <=> charged[r][t] = 1)

(* Money moves only for the next occurrence of a rule that is active and   *)
(* not past its end at that moment, and not merely when the scheduler      *)
(* looked: a rule that was paused, edited or deleted in between is left    *)
(* alone (FOR UPDATE in runOneDue and get, executeLocked).                 *)
ChargesFollowRule ==
  [][\A r \in Rules, t \in Times : charged'[r][t] # charged[r][t] =>
       Exists(r) /\ Runnable(rule[r]) /\ rule[r].next = t]_vars

(* Only its owner makes a rule pass over an occurrence: an execution moves *)
(* the rule on only from an occurrence that is charged, now or before.     *)
NothingPassedOver ==
  [][\A r \in Rules :
       LET t == rule[r].next IN
       /\ Exists(r) /\ Exists(r)' /\ updates' = updates
       /\ rule'[r].next # t
       => charged'[r][t] = 1 /\ rule'[r].next = t + rule[r].every]_vars

(* A rule that ran past its end is cancelled, and no interleaving of runs  *)
(* and updates leaves it active or paused there (NextStateAfterRun).       *)
PastEndIsCancelled ==
  \A r \in Rules :
    Exists(r) /\ rule[r].next > rule[r].end => rule[r].status = "cancelled"

(* A due rule is executed, or stops being due, as long as every rule can   *)
(* be executed: batches, skipped locks and failures only delay it.         *)
DueRulesRun ==
  \A r \in Rules :
    Due(r, now) ~> ~ Due(r, now) \/ \E q \in Rules : Exists(q) /\ ~ writable[q]

(* The same for every rule that can be executed, whatever the others are:  *)
(* a pass takes the next rule, up to its batch size, every interval        *)
(* (docs/system_map.md:587-593).                                           *)
ExecutableRulesRun ==
  \A r \in Rules :
    Due(r, now) /\ writable[r] ~> ~ (Due(r, now) /\ writable[r])
-----------------------------------------------------------------------------
(* The rest of the inductive invariant.                                    *)

(* What an execution read is still the row it holds locked.                *)
HeldRowIsCurrent ==
  \A s \in Sessions : InRun(s) =>
    /\ rule[req[s].rule] = req[s].row
    /\ Runnable(req[s].row)
    /\ req[s].row.next <= MaxTime

OneHolder ==
  \A s, u \in Sessions : InRun(s) /\ InRun(u) /\ req[s].rule = req[u].rule => s = u

(* A deleted rule has left no run records.                                 *)
RunsHaveRules == \A r \in Rules, t \in Times : <<r, t>> \in runs => Exists(r)

(* A rule that is not there yet has charged nothing.                       *)
NewRulesUncharged == \A r \in Rules, t \in Times : rule[r] = NoRule => charged[r][t] = 0

IInv ==
  /\ TypeOK
  /\ NewRulesUncharged
  /\ HeldRowIsCurrent
  /\ OneHolder
  /\ RunsHaveRules
  /\ ChargedOnce
  /\ PastEndIsCancelled
=============================================================================
