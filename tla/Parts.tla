-------------------------------- MODULE Parts --------------------------------
(***************************************************************************)
(* The parts that have no process in common with another one, side by side *)
(* in one specification: `part` says which one a behaviour is about, and   *)
(* the others stay as they begin.  The state spaces add up.                *)
(***************************************************************************)
EXTENDS Naturals

CONSTANTS Explored,    \* the parts to explore
          Twins,       \* requests, goroutines, processes or rows without order
          None, Absent, NoParent

CONSTANTS Items, UserOf, LastDay, WeekDays, MaxEdits,        \* reminders
          Budgeted, Parent, Limits, Amounts, MaxSpent,       \* alerts
          Nodes,                                             \* categories
          Users, Wallets, OwnerOf, Goals, Debts, MaxJoined, MaxRows,   \* accounts
          Reported, Categories, CategoryOf,                  \* reports
          Dates, MonthOf, WeekOf, DaysIn, ThisMonth, ThisDay,
          Clients, Limiters, Burst,                          \* limiter
          Keys, Window, MaxTime,                             \* activities
          Exchanges, Cap, MaxBody, Retention,                \* requests
          LastFile                                           \* startup

VARIABLES part,
  day, due, rule, delivered, mails, job, edits,
  spent, alertLimit, gate, marks, sentMails, check, unusual,
  tree, change, overlap,
  alive, wallet, goal, member, shares, entry, debt, standing, edited,
  tx, joined, limit,
  limiters, tokens, request, sweeping, allowance, disturbed,
  now, dedupe, call, saving, activities, doubled,
  today, exchange, logs,
  phase, build, file, holder, executed, recorded

Rem == INSTANCE Reminders WITH Processes <- Twins
Alr == INSTANCE Alerts WITH
       Categories <- Budgeted, Checks <- Twins, limit <- alertLimit, disturbed <- unusual
Cat == INSTANCE Categories WITH Ids <- Nodes, Requests <- Twins, request <- change
Acc == INSTANCE Accounts WITH Entries <- Twins, joined <- shares
Rep == INSTANCE Reports WITH
       Wallets <- Reported, OwnerOf <- [w \in Reported |-> OwnerOf[w]], Ids <- Twins
Lim == INSTANCE RateLimit WITH Requests <- Twins, due <- allowance
Act == INSTANCE ActivityLog WITH Callers <- Twins, rows <- activities
Log == INSTANCE RequestLog WITH Requests <- Exchanges, request <- exchange, rows <- logs
Sta == INSTANCE Startup WITH Processes <- Twins, Nobody <- None

ASSUME PartsAssumption ==
  /\ Rem!RemindersConstants
  /\ Alr!AlertsConstants
  /\ Cat!CategoriesConstants
  /\ Acc!AccountsConstants
  /\ Rep!ReportsConstants
  /\ Lim!RateLimitConstants
  /\ Act!ActivityLogConstants
  /\ Log!RequestLogConstants
  /\ Sta!StartupConstants

remindersVars == <<day, due, rule, delivered, mails, job, edits>>
alertsVars == <<spent, alertLimit, gate, marks, sentMails, check, unusual>>
categoriesVars == <<tree, change, overlap>>
accountsVars == <<alive, wallet, goal, member, shares, entry, debt, standing, edited>>
reportsVars == <<tx, joined, limit>>
limiterVars == <<limiters, tokens, request, sweeping, allowance, disturbed>>
activitiesVars == <<now, dedupe, call, saving, activities, doubled>>
requestsVars == <<today, exchange, logs>>
startupVars == <<phase, build, file, holder, executed, recorded>>

Init ==
  /\ part \in Explored
  /\ Rem!Init /\ Alr!Init /\ Cat!Init /\ Acc!Init /\ Rep!Init /\ Lim!Init /\ Act!Init /\ Log!Init
  /\ Sta!Init
  /\ part # "alerts" => gate = "email"

Next ==
  /\ UNCHANGED part
  /\ IF part = "reminders" THEN Rem!Next ELSE UNCHANGED remindersVars
  /\ IF part = "alerts" THEN Alr!Next ELSE UNCHANGED alertsVars
  /\ IF part = "categories" THEN Cat!Next ELSE UNCHANGED categoriesVars
  /\ IF part = "accounts" THEN Acc!Next ELSE UNCHANGED accountsVars
  /\ IF part = "reports" THEN Rep!Next ELSE UNCHANGED reportsVars
  /\ IF part = "limiter" THEN Lim!Next ELSE UNCHANGED limiterVars
  /\ IF part = "activities" THEN Act!Next ELSE UNCHANGED activitiesVars
  /\ IF part = "requests" THEN Log!Next ELSE UNCHANGED requestsVars
  /\ IF part = "startup" THEN Sta!Next ELSE UNCHANGED startupVars

vars == <<part, remindersVars, alertsVars, categoriesVars, accountsVars, reportsVars, limiterVars,
          activitiesVars, requestsVars, startupVars>>

Spec == Init /\ [][Next]_vars
-----------------------------------------------------------------------------
TypeOK ==
  /\ part \in Explored
  /\ part = "reminders" => Rem!TypeOK
  /\ part = "alerts" => Alr!TypeOK
  /\ part = "categories" => Cat!TypeOK
  /\ part = "accounts" => Acc!TypeOK
  /\ part = "reports" => Rep!TypeOK
  /\ part = "limiter" => Lim!TypeOK
  /\ part = "activities" => Act!TypeOK
  /\ part = "requests" => Log!TypeOK
  /\ part = "startup" => Sta!TypeOK

(* The properties of the parts; each is stated with its part.              *)

(* Nobody is e-mailed the same thing twice: a reminder of one occurrence,  *)
(* an alert of one category and level, however many processes and          *)
(* goroutines are at it (Notifier.Send, Alerter.CheckBudgetAndAlert).      *)
NoMailTwice ==
  /\ part = "reminders" => Rem!MailedOnce
  /\ part = "alerts" => Alr!AlertedOnce

(* A tick of the scheduler that nothing disturbed leaves a delivery for    *)
(* everything that its users want to be reminded of (Scheduler.runOnce).   *)
DueItemsNoticed == part = "reminders" => Rem!DueItemsNoticed

(* What is over a threshold of its budget has been alerted, unless the     *)
(* checks overlapped or something the code does not look at happened.      *)
OverspendingAlertedAlone == part = "alerts" => Alr!OverspendingAlertedAlone

(* No category is below itself, unless two moves overlapped (CheckCycle).  *)
ForestAlone == part = "categories" => Cat!ForestAlone

(* "Delete account" (docs/API_CONTRACT.md:41) works for every account.     *)
AccountsDeletable == part = "accounts" => Acc!AccountsDeletable

(* So it does as long as nobody edits the transaction of a debt.           *)
AccountsDeletableUnedited == part = "accounts" => Acc!AccountsDeletableUnedited

(* The deletion of an account leaves what the others have in wallets of    *)
(* their own (Repository.DeleteUser).                                      *)
ContributionsSurvive == [][part = "accounts" => Acc!OthersKeepTheirs]_vars

(* What a user is shown about a month is the same wherever it is shown:    *)
(* the totals of the reports, the dashboard, the wallets and the export,   *)
(* and the spending that the budget views judge the same budgets by.  The  *)
(* money of a goal, one wallet for each member (RespondInvite), is shown   *)
(* to its members only and the same by its list, its page and, to all but  *)
(* the goal's owner (GoalReport), by the report.                           *)
ViewsAgree ==
  /\ part = "reports" => Rep!ReportsAgree /\ Rep!BudgetViewsAgree
  /\ part = "accounts" => Acc!GoalsAddUp

(* No client exceeds its rate, unless it had two limiters or the cleanup   *)
(* dropped one that was not full (RateLimiter).                            *)
WithinRateAlone == part = "limiter" => Lim!WithinRateAlone

(* The logs say what happened: an activity is logged once in a window,     *)
(* unless calls overlapped (Logger.Log), and a logged body is complete or  *)
(* says that it is not (APILogMiddleware).                                 *)
LogsAreFaithful ==
  /\ part = "activities" => Act!LoggedOncePerWindowAlone
  /\ part = "requests" => Log!LogsAreWholeOrMarked

(* However processes start, migrate, crash and are replaced, the schema is *)
(* migrated once, in order, and whole before anybody serves on it          *)
(* (db.Migrate, main).                                                     *)
SchemaReady == part = "startup" => Sta!SchemaReady

(* The inductive invariants of the parts.                                  *)
IInv ==
  /\ part \in Explored
  /\ part = "reminders" => Rem!IInv
  /\ part = "alerts" => Alr!IInv
  /\ part = "categories" => Cat!IInv
  /\ part = "accounts" => Acc!IInv
  /\ part = "reports" => Rep!TypeOK
  /\ part = "limiter" => Lim!IInv
  /\ part = "activities" => Act!IInv
  /\ part = "requests" => Log!IInv
  /\ part = "startup" => Sta!IInv
=============================================================================
