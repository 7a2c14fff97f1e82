# Affluena API: TLA+ models and proofs

This directory holds TLA+ models of the core logic of the Affluena API (a Go
HTTP service over one PostgreSQL database), the TLC configurations that check
them on small instances, and TLAPS proofs of the results that matter most.
Every definition is translated from the source. `PROJECT.json` gives the lines
each definition stands for (`map`), the places where this code is hard to test
(`hazards`), what every run checks (`runs`), a plausible bug that each property
catches (`mutants`), the disagreements between code and documents that the runs
demonstrate (`findings`) and the theorems (`theorems`).

Contents: 1 the system, 2 inventory, 3 how the code is modelled, 4 modules,
5 runs, 6 bounds and fairness, 7 proofs, 8 findings and other divergences,
9 what is not modelled, 10 plan, 11 how to run the checks.

## 1. The system

One or more server processes run the same binary (`cmd/api`). Each serves HTTP
requests, every request in a goroutine of its own, and runs background
schedulers: recurring rules, reminders with weekly summaries, pruning of
request logs. All durable state is in PostgreSQL. The processes share nothing
else; each keeps a rate limiter and an activity-deduplication map in memory.

A component is a package under `internal/` with a handler (parsing and
validation), a use case (checks, calls to other components) and a repository
(SQL). Components interact in three ways:

- by calls inside one database transaction: `debt`, `recurring`, `tracker` and
  `splitbill` make their money movements with `transaction.CreateInTx`;
- by rows they share: `wallet_shares` is written by `wallet` (manual shares)
  and `partner` (links), and read by everything that touches a wallet;
- by foreign keys: deleting a wallet, a transaction, a rule or an account
  cascades into, or is refused by, the tables of other components.

The hard behaviour is therefore that of concurrent transactions at READ
COMMITTED: which statements run inside one transaction, which rows they lock,
what was read before a lock was taken, and what is left when a step fails or
the process stops between two commits.

## 2. Inventory

For each component: its state, its operations, what is hard about it, and what
makes it correct.

**Transactions** (`internal/transaction`; `TransactionStore`, `Ledger`,
`Deltas`). State: `wallets.balance_minor`, `transactions`. Operations: create,
update and delete an income, expense, adjustment or transfer; each applies or
reverses balance deltas wallet by wallet. Hard: lost updates on balances,
reversing a row somebody else edited, opposite transfers that deadlock,
overflow, wallets deleted or un-shared under a request. Correct when every
balance is its opening value plus the deltas of the rows that exist now, and
concurrent requests look as if each happened at once.

**Wallet sharing** (`internal/partner`, `internal/wallet`; `Sharing`). State:
`wallets`, `wallet_shares`, `wallet_share_links`. Operations: invite, answer
and revoke a link that shares all wallets of an owner; invite to, answer and
leave one wallet; create and delete wallets. Hard: invitations are three
statements without a transaction, the fan-out after the creation of a wallet is
a statement whose error is dropped, links and manual shares write the same
rows. Correct when access needs the consent of the invited, revoking a link
removes exactly the shares it made, and no share outlives its wallet.

**Debts and split bills** (`internal/debt`, `internal/splitbill`; `Debt`).
State: `debts`, `debt_payments`, and the transactions they made. Operations:
open, split an expense, pay, update, cancel. Hard: payments that race each
other or an update that validated against amounts it read without a lock.
Correct when the paid amount is the sum of the payments, closed debts take no
payment, and what is owed equals the cash that moved.

**Recurring transactions** (`internal/recurring`; `Recurring`). State: rules
with their next date, run records. Operations: the schedulers' passes, manual
runs, and create, update, pause and delete by the owner. Hard: several
processes and a request pick the same occurrence; an owner edits the rule in
between; a process stops half-way; one rule keeps failing. Correct when no
occurrence is charged twice or passed over, nothing is charged for a rule that
is no longer active, and every due rule is executed eventually.

**Accounts and sessions** (`internal/auth`; `AuthSessions`). State: the
password hash, `refresh_tokens`, `password_reset_tokens`. Operations: register,
login, refresh, sign out, change and reset the password, delete the account.
Hard: every statement commits by itself, so a refresh sent twice, a link opened
twice, or a deletion in between meet half-finished requests. Correct when a
sign-in never becomes two sessions, a link works once, nothing outlives the
account, and a new password ends earlier sessions.

**Installments and subscriptions** (`internal/tracker`, `internal/caldate`;
`Tracker`, `CalDate`). State: plans, subscriptions and their payment history.
Operations: create, update, delete, pay, and the removal of a payment's
transaction. Hard: payments that race each other or an update, 64-bit products,
due dates at the end of a month. Correct when every payment advances the row
exactly once and charges the price agreed at that moment.

**Notifications** (`internal/notification`; `Reminders`). State:
`notification_rules`, `notification_deliveries`. Operations: a tick lists the
users of a rule, reads what falls due in three days and in one, decides,
records and mails, and does the same for the summary of the past week; users
open and change their settings. Hard: several processes tick at once, each
database call and each e-mail may fail, and a process may stop in between.
Correct when nothing is mailed twice and a tick without trouble leaves a
delivery for everything that is wanted.

**Budgets and their alerts** (`internal/budget`, `internal/alert`; `Alerts`).
State: `category_budgets`, `sent_alerts`. After an expense is committed a
goroutine lists the budgets, consults the user's rule, stores a marker, mails,
and takes the marker back if the mail fails. Hard: goroutines for the same
budget, failures between marker and mail, budgets that change meanwhile.
Correct when a level is alerted once and overspending is alerted at all.

**Categories** (`internal/category`; `Categories`). State: the tree. Hard: the
checks for cycles and depth are queries of their own before the write. Correct
when the tree stays a forest.

**Goals and account deletion** (`internal/goal`, `auth.DeleteUser`,
`internal/quickentry`; `Accounts`). State: goals, their members and wallets,
and every row that hangs on a wallet. Hard: invitations answered again and
again; ten statements that rely on cascades and meet restrictions of other
users' rows. Correct when a member has one wallet per goal, the money of a goal
is shown to members only, an account can be deleted, and what the others have
in wallets of their own stays.

**The read side** (`internal/report`, `internal/dashboard`, `internal/budget`,
`internal/alert` feed, `internal/export`, `wallet.GetAnalytics`,
`internal/splitbill` lists; `Reports`, `DebtViews`, part of `Accounts`). No
state. Hard: every view has its own copy of the conditions it must share with
the others. Correct when they agree.

**In memory** (`internal/httpx`, `internal/activity`, `internal/apilog`;
`RateLimit`, `ActivityLog`, `RequestLog`). State: token buckets per client, the
deduplication map, request and response bodies on their way to the log. Hard:
maps read under one lock and written under another, cleanup beside requests,
goroutines that never run. Correct when no client exceeds its rate, an activity
is logged once in its window, and a logged body is whole or marked as cut.

**Process start and stop** (`cmd/api`, `internal/db`; `Startup`). State:
`schema_migrations`, the advisory lock. Hard: processes of several builds start
together and stop anywhere. Correct when every file is executed once, in order,
and all of a build's files before it serves.

**Not modelled**: tags, configuration, routing, formatting, mail transport and
demonstration data; section 9 says why.

## 3. How the code is modelled

- A *session* (`Sessions`, `Requests`) is one request or scheduler pass in
  flight. What it has read or still has to do is its `req` (in
  `TransactionStore`: `pc`, `op`, `idx`, `waiting`, `pending`).
- Statements that run outside a transaction commit one by one and are one
  action each. A transaction is split where another request can tell: where it
  takes a row lock (`SELECT ... FOR UPDATE`), and where it commits. Nobody sees
  its other statements before COMMIT, so these are one step with it.
- A row lock is a guard: `Locked(x)` holds while some session holds the row,
  and statements that write the row wait for it. What a session read under its
  lock is kept in `req`, so that a missing lock would be noticed.
- Errors, lost connections and crashes are an action (`Fail`, `Abort`,
  `PayFail`) that is possible at any point of a request and keeps what was
  committed. Wallets, categories or tags that are missing make a request fail
  and are not represented where nothing else depends on them.
- Amounts are small integers and `Half` stands for 2^63: what leaves
  `-Half .. Half - 1` wraps around in Go and is refused by a `bigint` column.
- Identifiers (UUIDs, tokens) are model values and are never drawn twice; where
  an identifier is reused to keep the instance small, a guard says so.
- Definitions marked "a faulty variant" are not used by the specifications. They
  are the mutated forms that `PROJECT.json` names: with one of them in place of
  the definition, TLC finds the property violated.

Variables that are not columns are history: `opening` (TransactionStore),
`charged` (Recurring), `login`, `under` and `replaced` (AuthSessions),
`written` and `paid` (Tracker), `mails` and `edits` (Reminders), `spent`,
`sentMails` and `unusual` (Alerts), `overlap` (Categories), `edited` (Accounts),
`allowance` and `disturbed` (RateLimit), `doubled` (ActivityLog), `executed`
(Startup). MC modules add three: `raced` (two requests
have overlapped), `failed` (a request failed half-way), `edited` (a transaction
was edited through its own endpoint). Where the code keeps a promise only in
the absence of one of these, the property says so in its name (`...Alone`,
`...Unedited`), and where the stronger property is documented a violation run
shows the difference.

## 4. Modules

| Module | Models | Correspondence |
| --- | --- | --- |
| `Deltas` | `transaction/service.go` | input validation, `BalanceDeltas`, `ReverseDeltas`, 64-bit wrap-around |
| `Ledger` | what the transaction component promises | abstract: open and close wallets; `Record`, `Amend` and `Remove` whole entries at once |
| `TransactionStore` | `transaction` repository and use case | one action per statement that can wait or fail: `LockEntry` (`getForUpdate`), `EnsureRefs`, `IssueDelta` and `ApplyDelta` (the UPDATEs of `applyDeltas`), `Commit`, deadlock victims, wallet creation and deletion, changing shares |
| `Sharing` | `partner`, `wallet` | `Invite` as count, re-open and insert; `Accept` and `Revoke` as a locked transaction with the rows its snapshot showed; the fan-out as a statement of its own |
| `Debt` | `debt`, `splitbill` | `UpdateRead` and `UpdateWrite` with nothing held in between; `PayLock` and `PayCommit` under the row lock; the int64 sum of the splits |
| `Recurring` | `recurring` | `PickDue` (`runOneDue`, FOR UPDATE SKIP LOCKED, earliest first), `ExecuteDue`, `SkipDue`, `RefuseDue`, `RunManual`, the owner's writes, the clock |
| `AuthSessions` | `auth` | one action per statement of `Refresh`, `ChangePassword`, `ResetPassword` and `DeleteAccount` |
| `CalDate` | `caldate/month.go` | a calendar is a table of first days of months; `AddMonthsClamped` |
| `Tracker` | `tracker` | `PayLock` and `PayCommit` under the row lock; `Update` replaces every column; what the handlers accept (`Bound`) |
| `DebtViews` | lists and pages of `splitbill`, `report.DebtReport`, `dashboard.upcomingDebts`, `alert.ListOverdueDebts` | views over the rows of `Debt`, one operator per query |
| `Reminders` | `notification` scheduler, notifier, rules | one action per database call and e-mail of a tick; a calendar of days and weeks; `Stop` at any point |
| `Alerts` | `alert.CheckBudgetAndAlert`, the spending query of `budget` | one action per call, from the committed expense to the retracted marker; the goroutine may die |
| `Categories` | `category` use case and repository | `BeginCreate` / `BeginUpdate`, `CheckCycle`, `CheckParent`, `CheckDepth`, `Write` with nothing held in between; `Delete` |
| `Accounts` | `goal`, `auth.DeleteUser`, `quickentry`, wallets and rows on them | each operation one transaction; `DeleteUser` with its ten statements as sets (`Detached`, `DebtsOn`, ...) and what aborts it (`Blocked`); the views of goals |
| `Reports` | `report`, `dashboard`, `budget`, `export`, `wallet.GetAnalytics` | one operator per query or report, over transactions, shares and budgets that change |
| `RateLimit` | `httpx/ratelimit.go` | load, store, allow; the cleanup's two steps; time as tokens |
| `ActivityLog` | `activity/usecase.go` | `Read` and `Write` under their two locks, `Clean`, the goroutine's `Save`, `Restart` |
| `RequestLog` | `apilog` | body lengths through the middleware, `Save`, `Prune` |
| `Startup` | `cmd/api/main.go`, `db/migrate.go` | `Lock`, `Check`, `Apply`, `Serve`, `Signal`, `Exit`; builds with the first so many files |
| `Parts` | the nine modules from `Reminders` to `Startup` side by side | constants stay parameters, so that theorems about it hold for all of them; section 5 |
| `MCParts` | the instance of `Parts` for TLC | small sets, calendars and settings |
| `Sums` | lemmas about sums over the rows of a table | section 7 |
| `MC*` | instances for TLC | constants, symmetry, history variables |
| `*Proofs` | theorems | section 7 |

`TransactionStore` instantiates `Ledger` (`L == INSTANCE Ledger`) with the
committed rows as refinement mapping and has `L!Spec` as a property. The other
modules refer to `TransactionStore` for the transaction they make inside theirs:
it is atomic there because it is part of one database transaction.

## 5. Runs

| Run (`.cfg`) | Asks | Shows |
| --- | --- | --- |
| `TransactionStore` | two requests with transfers and corrections that lock two wallets in both orders | they implement `Ledger`, which also refuses to delete a wallet that rows name; balances match the rows; no lost update, no stale reversal (`WritersAreIsolated`); with fairness, every request is answered in spite of deadlocks |
| `Sharing` | two requests among links, manual shares and wallets | no share without its wallet and, without overlap, none of a link without the link (`SharesHaveGrounds`); no access without consent; no acceptance or manual share taken back (`SettledSharesStay`); without overlap, fan-outs are complete |
| `Debt` | two requests on two debts, with edits of transactions | no payment lost, doubled or taken by a closed debt; cash and debt agree; without overlap statuses follow amounts and the views of the debts tell the same of what is owed |
| `DebtStatusRace` (violation) | does a status match the amounts? | an update writes a status that a payment has outdated |
| `DebtCancelled` (violation) | is a cancelled debt left out of what is active? | the debt report counts it and adds what was left of it |
| `Recurring` | two processes, a manual run, updates, lost wallets | charged once, nothing passed over, nothing charged for an inactive rule |
| `RecurringLive` | fairness | with rules that can all be executed every due rule is, though executions fail |
| `RecurringBlocked` (violation) | are executable rules executed? | one rule that cannot be executed stops all later ones |
| `AuthSessions` | two requests on one account | one session per sign-in, links work once, deletion is final; without overlap and failure a new password ends earlier sessions |
| `Tracker` | two requests on a plan and a subscription at the end of January | rows stay valid, every payment counts once, charges are agreed |
| `Parts` | nine parts, below | nobody is mailed twice; due things are noticed; overspending is alerted; categories are a forest; accounts can be deleted and the others keep theirs; all views agree; rates hold; logs are faithful; the schema is migrated once and whole before anybody serves |
| `AccountBlocked` (violation) | can every account be deleted? | another member's edited debt transaction blocks it |

`Parts` explores nine specifications that share no process: the variable `part`,
chosen in `Init`, says which one a behaviour is about, and the others stay as
they begin, so the state spaces add up instead of multiplying. Each property
names the part it is about. The read side is checked for states, not for
queries that overlap writes: every view is one statement or a few, and what is
asked is whether they agree on the same rows.

`CHECK_DEADLOCK FALSE` is set in the instances where identifiers run out and
every row may be in a final state (Sharing, Debt, AuthSessions). The others
check for deadlock: a system that waits for itself would be reported.

## 6. Bounds and fairness

The interesting events need two requests in flight at a time (all races listed
in section 8 do) and two rows of a kind: two wallets locked in opposite order,
two rules of which one blocks the other, two payments of one debt. Three
transactions suffice for a debt that is opened and paid twice; four tokens for
a sign-in, its refresh sent twice, and a second sign-in. `Half` is small
enough that legal sequences leave the 64-bit range: 4 with opening balances of
2 and transfers of 2 with a fee of 1, 4 with plans of three times 3. In `Debt.cfg` it is 8 and
the sums stay inside, see section 8; the dashboard shows one debt of two
(`UpcomingLimit`, 10 in the code), over every order of their due dates
(`Positions`). The calendar of `Tracker` is January to April of a
common year with due dates on the 28th and 31st, which meets the clamping of
February and the growth after it.

The parts need two of what races (processes, goroutines, requests, callers:
`Twins`) and little else. `Reminders`: three days, of two-day weeks, reach a
first and a second notice of one occurrence and the week after (`LastDay`,
`WeekDays`); two changes of settings (`MaxEdits`). `Alerts`: a category below
another one, a limit of 5 and expenses of 4, so that the second one crosses it
(`MaxSpent`). `Categories`: three of them, enough for a cycle of two or three
and one bystander. `Accounts`: two users, three wallets, one goal, one debt, two
rows and one share at a time (`MaxRows`, `MaxJoined`): a row of one user on the
other's wallet and a second that depends on it. `Reports`: two transactions on
three days in two months and two weeks, with a shared wallet and a category
tree. `RateLimit`: a burst of 2 and two requests. `ActivityLog`: a window of 2
in a time of 6 (`Window`, `MaxTime`). `RequestLog`: a buffer of 2 and bodies up
to 4 (`Cap`, `MaxBody`), a `Retention` of a day. `Startup`: three files, so that
builds with one, two, three or none meet (`LastFile`). Symmetry (`Permutations`)
is used where nothing in a specification orders or names the permuted values,
and never in the liveness runs.

Every bound is a CONSTANT and is named in the module
that has it (`MaxTime`, `Horizon`, `MaxUpdates`, `MaxSplits`, `Months`).

No invariant or action property needs fairness. Liveness does:

- `RequestsEnd` (TransactionStore): a goroutine that can go on does, and the
  deadlock detector always runs (WF). PostgreSQL serves lock waiters in order,
  so a wait for a row that is released again and again ends (SF on `LockEntry`
  and `ApplyDelta`). A client's `Abort` is never assumed.
- `DueRulesRun`, `ExecutableRulesRun` (Recurring): the ticker of every
  scheduler goes on, and a pass goes on to its next rule (WF). An execution
  that keeps being possible is not lost for ever to connection errors (SF).
  Nothing is assumed of clients and owners, and `ExecutableRulesRun` fails
  with this fairness: the blocked rule is not a matter of a stopped scheduler.

## 7. Proofs

TLC looks at the instances above; the theorems hold for every value of the
constants that the named ASSUMEs of the modules allow. Every module has an
inductive invariant `IInv`, which TLC checked on the instances before it was
proved. In each proof module `InitInv`, `NextInv` (or `StepKeepsParts`) and
`Invariance` are its three facts. Proofs about history variables and
observations are made in a second layer, with an invariant of its own over the
`MC` module (`MCSpec`) that rests on the first.

**TransactionStoreProofs.** `IInv` = types, what is known of a request in flight
(`OpInv`), one writer per row (`RowLocks`), which wallets a request about to
commit has written (`WrittenInv`), `WritersAreIsolated`,
`EntriesNameOpenWallets`. The heart is
`WritesBuildOnCommitted`: what a session would commit to a wallet is the
balance committed *now* plus its own deltas. It survives another session's
COMMIT because that one can only have changed wallets it holds, which by
`RowLocks` this one does not. `WrittenInv` is what makes the foreign key hold:
a wallet named by a row about to be committed is locked, so it cannot be
deleted. Theorems: `TypeCorrect`, `Isolation` (of both halves of
`WritersAreIsolated`), `NoDanglingWallet`, `StoreImplementsLedger`, a
refinement (`Commit` maps to one atomic change of the books, every other step of
a request to a stutter), and `BalancesAreExplained`: every balance is its
opening balance plus the deltas of the rows in the table. The last two need
`AllMoneyFits`, that no input's amount plus fee leaves int64; section 8 says
what happens otherwise.

**Sums.** A balance, a paid amount or a report is a sum over the rows of a table,
and the theorems about them need what a sum does when a row is added, removed,
changed, or when rows are grouped. That is an induction over sets. The library's
induction rules take an operator as parameter, which the provers cannot
instantiate, so the module goes another way: `SetInduction` takes a *set* of
finite sets instead of a predicate, and rests on the smallest counterexample
that `WFMin` with `NatLessThanWellFounded` provides, both first-order facts. From it follow that the
recursive function behind `SumFunctionOnSet` exists and is unique, and then the
lemmas the other proofs cite. Nothing of this is bounded.

**SharingProofs.** `IInv` adds to the types `OneLinkHolder` (an acceptance and a
revocation of one link exclude each other by its row lock),
`HeldSharesAreCurrent` (of the shares a lock holder read, those it will write
are as it read them) and `SharesNameOpenWallets`. The second layer ties shares
to what they were made for (`SharesHaveGrounds`): while no two requests have
overlapped, the single request in flight is described exactly, so that its
write lands on what it read. Theorems: `SharesWellTyped`, `AccessIsConsented`
and `SettledStaysSettled` (action properties, with requests overlapping at
will), `SharesAreGrounded`, `ViewersSeeAll`.

**DebtProofs.** `OneHolder` and `HeldRowIsCurrent` again: what a payment is about
to write follows from the row that is there. `RowsExist` and `FinitePayments`
make `PaidIsSumOfPayments` inductive through `Sums`. For `OutstandingMatchesCash` the
second layer knows, of each transaction that was never edited, that the principals over it
add up to what it moved, or to less for a split bill. `StatusFollowsPayments`
proves in one formula that statuses follow amounts and that split bills (over
all pages of their list), the rows of the debt report, dashboard and alert feed
tell the same of what is owed, each view unfolded from its query. The dashboard
has a LIMIT: what it leaves out is due after the full number that it shows
(`FirstOfOrder`, by counting what is due before each debt). The totals of the
report are part of it only until a debt is cancelled, see section 8.
Theorems: `RowsWellTyped`, `PaymentsAddUp`, `ClosedDebtsAreNotPaid`,
`OutstandingMatchesCash`, `StatusFollowsPayments`. `OutstandingMatchesCash`
assumes `SplitsFit`, that no choice of splits adds up to more than int64 holds:
`SplitExpense` compares a sum that may wrap (`splitbill/usecase.go:70`), and
with wrapping the claim is false of the code.

**RecurringProofs.** The row-lock argument: `OneHolder` (two executions never
hold one rule) and `HeldRowIsCurrent` (what an execution read is what is
committed) make every execution act on the present row; `RunsHaveRules` and
`NewRulesUncharged` tie the run records to the charges, which `ChargedOnce`
alone does not. Theorems: `TypeCorrect`, `NeverChargedTwice`, `EndsAreKept`,
and the action properties `NoStaleCharge` and `NoLostOccurrence`.

**AuthSessionsProofs.** No locks here: the argument is that the single UPDATE
that consumes a token or a link is the only way to go on. `OneSessionPerLogin`
counts the pending issue of a refresh with the live tokens of the sign-in;
`ReplacedIsOver`, `UsableLinksAreNew` and `OneHolderOfLink` do the same for
links. Theorems: `TypeCorrect`, `RefreshNeverForks`, `DeletionIsFinal`,
`ResetLinksAreSpent`, and over the history variables `SessionsFollow`.

**TrackerProofs.** Again `OneHolder` and `HeldRowIsCurrent`, with
`CyclesAreWritten` so that payments keep the cycle they count in. Two lemmas
carry the data: `ProductFits` (the guard on the product means that 64-bit and
exact product agree) and `NextMonth` (the clamped date lies in the next month,
for any calendar with months of 28 to 31 days). Theorems: `TypeCorrect`,
`PlansRemainValid`, `PaymentsAreCounted`, `NoStaleCharge`.

**PartsProofs.** One invariant per part, side by side as the parts are:

- *Startup* (`SchemasAreReady`): a process migrates if and only if it holds the
  advisory lock, so between its check of a file and the COMMIT nobody else
  records it, and the files before its present one are all there.
- *Rate limiter* (`WithinRate`): until a first request overlaps another or the
  cleanup drops a limiter, all requests of a client count in one bucket
  (`OneBucketEach`), whose tokens and grants obey the rate.
- *Activity log* (`LogsFaithful`): without overlap the latest entry of each key
  is remembered, so a call that is about to write found the window passed.
- *Request log* (`LogsFaithful`): a request in flight carries a prefix of its
  body and the mark that goes with it; rows are copies of that.
- *Budget alerts* (`Overspending`, and with the reminders `NothingMailedTwice`):
  the committed marker is what the second check finds. `Shaped` says what a
  check in flight knows; without failure the level whose marker exists covers
  what is spent or a check that will see it is still running (`NoticedIfOver`).
- *Reminders* (`NothingMailedTwice`, `NothingDueIsLeftOut`): the unique key of a
  delivery is inserted before the e-mail (`RecordedOnce`: an e-mail that is
  about to be sent has its record, and has not been sent). A clean tick is
  described by what it still has to look at and what it listed (`Listed`):
  everything due is in one of the two or delivered.
- *Accounts* (`DeletionIsPossible`, `OthersAreSpared`, and the goals of
  `ViewsTellTheSame`): until somebody edits one, the transactions of a debt are its user's and on the wallet
  the debt names (`DebtsFit`), and a joined membership and a wallet in the goal
  are the same thing (`GoalRows`, `GoalWallets`). So every statement of
  `DeleteUser` finds what it needs gone, and the cascade of a goal reaches no
  wallet of another user, since those were detached before.
- *Categories* (`ForestStays`): "no category is below itself" is a statement
  about paths of any length. It follows from `NoLoop`, that every nonempty set
  of categories has one whose parent is outside it. A move that has passed
  `CheckCycle` keeps a witness: a set with the new parent and everything above
  it that leaves the moved category out (`Apart`); creations, edits and
  deletions preserve it. That the recursive query of the check collects such a
  set is `LineIsClosed`, a pigeonhole argument on its levels.
- *Reports* (`ViewsTellTheSame`, all of `ViewsAgree`): incomes and expenses have
  one wallet, so the conditions of all queries select the same rows
  (`RepShown`); `RepGroups` says that grouping them by names, weeks, trees or
  wallets does not change their sum (`Sums`). That a budget counts what the
  list shows needs the foreign key by which a category has its parent's user.

`PartsWellTyped` adds the types of all nine. All of these rest on one
`PartsInvariance` over the composed specification.

**Only model-checked.** Liveness (`RequestsEnd`, `DueRulesRun`), since fairness
and ENABLED are beyond the prover. Every safety and action property of the runs
is a theorem. The violations of section 8 are TLC's counterexamples.

## 8. Findings and other divergences

Each violation run demonstrates one disagreement between the code and a
statement in the repository; `PROJECT.json` quotes both.

1. *Debt status* (`DebtStatusRace`): an update validated before a payment can
   leave a status that makes the debt impossible to pay.
2. *Blocked scheduler* (`RecurringBlocked`): a rule whose user lost the wallet
   is first in every pass, and ends it.
3. *Blocked deletion* (`AccountBlocked`): a member edits the transaction of a
   debt of their own so that it names a shared wallet; the owner's account can
   then not be deleted (`docs/API_CONTRACT.md:41`).
4. *Cancelled debts* (`DebtCancelled`): the debt report counts a cancelled debt
   among the active ones and adds what was left of it to what is to be paid
   (`report/usecase.go:278`, `docs/API_CONTRACT.md:191`).

Met while modelling, in the models, and without a run of their own:

- `BalanceDeltas` adds amount and fee in int64 (`transaction/service.go:91`);
  a sum that wraps credits the sender. Hence `AllMoneyFits` in the refinement.
- `SplitExpense` adds the splits in int64 (`splitbill/usecase.go:70`), so that
  splits whose sum wraps can exceed what was spent. Hence `SplitsFit` in
  `OutstandingMatchesCash`; `Half` in `Debt.cfg` is above what two splits reach.
- The share limit (`partner/repository.go:35`, `docs/API_CONTRACT.md:76`) is
  passed by a viewer who declined and accepts after the slot was given away,
  since `Respond` (`:106`) looks neither at the status nor at the limit, and by
  concurrent invitations, since count (`:44`) and insert are separate statements.
- A wallet created while a link is being revoked keeps its link share
  (`partner/repository.go:185`, `docs/API_CONTRACT.md:79`): hence the `raced`
  in `SharesHaveGrounds`.
- `AddMember` on a share that a link made keeps its source, so revoking the link
  removes what has become a manual membership (`docs/API_CONTRACT.md:79`).
- Wallets that back goals are not fanned out to joined viewers
  (`docs/API_CONTRACT.md:74`); `ViewerSeesEveryWallet` leaves them out.
- A session issued by a request that overlaps a change of the password survives
  it; hence `SessionsFollowPasswordAlone`.
- Cancelling a debt works on paid debts too (`docs/API_CONTRACT.md:191`), and a
  stale update can reopen a cancelled debt.
- Editing the expense of a split bill, or the transaction of a debt or payment,
  does not reach the debt; hence the `...Unedited` properties.
- Removing the transaction of a payment leaves the plan or subscription
  advanced (migration 000033 removes only the history entry).
- A monthly due date that was clamped stays there: the 31st of January becomes
  the 28th of February and then of March. `EveryPaymentCounts` therefore speaks
  of months, not of days.
- Split bills are the debts that share an origination, whatever their kind: a
  plain loan, given or taken, is listed as a split bill of one participant
  (`splitbill/repository.go:13` says an expense with receivables).
- `DebtReport` compares with the statuses "closed" and "overdue" that no debt
  has: `open_count` is the number of all debts, paid ones included, and nothing
  is ever overdue.
- `GoalReport` multiplies the money of a goal, for its owner, by the number of
  rows in `goal_members` (`docs/API_CONTRACT.md:243`); `GoalViewsAgree` says it
  of the other members only.
- `GetAnalytics` overwrites inflow and count with those of the transfers in
  (comment at `wallet/repository.go:308`).
- `CashflowReport` leaves out the rows of weeks whose number is divisible by
  five, lets a week of the previous month stand in for another one, and a
  negative previous total turns the sign of the change. `Forecast` rounds the
  daily average first, so that a month that is over may be forecast below what
  was spent. Nested budgets count twice in the totals.
- Budget alerts follow only expenses created through `/transactions`: not
  updates, recurring rules, debts, trackers or split bills; an expense in a
  child category never alerts the parent's budget; only the newest 100 budgets
  are looked at, here and in the alert feed (`alert/feed_usecase.go:34`; the
  models have fewer). A failure reported after the e-mail went out sends it again.
- Rows of notification rules appear when the settings are opened: nobody is
  reminded before. Reminders of installments ignore months paid ahead. A stop
  between the record and the e-mail loses the e-mail.
- Two concurrent moves of categories can close a cycle, after which the
  recursive checks of its members do not end; moving a category with children
  can exceed the depth of three (`docs/API_CONTRACT.md:89`).
- The deletion of an account removes the others' transactions between its
  wallets and theirs without taking them back from the balances that stay.
- The rate limiter's cleanup drops a limiter that has any token left
  (`httpx/ratelimit.go:75`), and two first requests make two limiters.
- The deduplication of activities ignores the description: of two invitations to
  one goal within five minutes the second is not logged; a failed save still
  counts as logged.
- An edited migration file is not noticed (as `README.md:82` says).

## 9. What is not modelled, and why

Tags (single statements whose effect nothing else depends on), parsing and
validation beyond what the models' inputs say, formatting, routing,
configuration, the transport of mail and demonstration data have no behaviour a
model checker could add to. The default categories of the onboarding, upcoming
subscriptions and installments, listings with their orders and pages (but the
limit of the upcoming debts), and the masking of fields inside logged bodies are
left out. Access tokens are signed and not stored. Names and looks of wallets,
categories and goals appear only where two of them must differ.

Within the modelled components: `TransactionStore` has members as a set that
may change at any time, and `Sharing` is where they come from; `Recurring`
counts time in intervals and reduces wallets to whether they can be written;
`Debt` and `Tracker` reduce the transaction to its type and amount; `Accounts`
has no amounts, and its standing rows stand for templates, recurring rules,
installments and subscriptions alike; `Reports` has amounts without fees.

## 10. Plan

Order of the modules, most important behaviour first. Done: 1. `Deltas`,
`Ledger`, `TransactionStore` with proofs; 2. `Sharing`; 3. `Debt`;
4. `Recurring` with proofs; 5. `AuthSessions` with proofs; 6. `CalDate`,
`Tracker` with proofs; 7. `Reminders` and `Alerts`; 8. `Categories`;
9. `Accounts` (goals, deletion); 10. `RateLimit`, `ActivityLog`, `RequestLog`;
11. `Reports`, `DebtViews`; 12. `Startup`; 13. `Parts`, which composes 7 to 12;
14. `Sums` and the proofs of `Sharing`, `Debt`, the sums of `TransactionStore`
and the parts.

Every safety and action property has its theorem. To come: properties of the
lists and templates that are not modelled yet, and what they need of the proofs.

## 11. Running the checks

In this directory, `tlc -config X.cfg M` checks a configuration with its module:
`MCTransactionStore` for `TransactionStore.cfg`, `MCDebt` for the three
`Debt*.cfg`, `MCParts` for `Parts.cfg` and `AccountBlocked.cfg`, and so on.
`tlapm M.tla` checks the proofs of a proof module.
