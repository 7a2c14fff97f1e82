------------------------------ MODULE Reminders ------------------------------
(***************************************************************************)
(* The notification scheduler (internal/notification): at every tick it    *)
(* reads who wants reminders, reads what is due three days and one day     *)
(* ahead, and sends each notice at most once; then the summary of the      *)
(* finished week in the same way.  Several API processes run it at once,   *)
(* users change their rules and pay what is due while it runs, every       *)
(* database call may fail, and a process may stop anywhere.                *)
(*                                                                         *)
(* Subscriptions, instalments and payable debts differ only in how the     *)
(* query finds the day they fall due; an item here has the day the query   *)
(* finds, or None while it is paid, paused or cancelled.  Days are         *)
(* numbered from a Monday.                                                 *)
(***************************************************************************)
EXTENDS Integers, Bags

CONSTANTS Users, Items, Processes,
          UserOf,     \* [Items -> Users]
          LastDay,    \* bound on the calendar
          WeekDays,   \* days of a week
          MaxEdits,   \* bound on what users change
          None        \* no due day, no rule row, no notice

Days     == 0 .. LastDay
Channels == {"email", "in-app", "both"}
RuleKeys == {"due-reminder", "weekly-summary"}
RuleRow  == [enabled : BOOLEAN, channel : Channels]
Windows  == {3, 1}   \* days ahead, the loop takes 3 first

(* A faulty variant: the dedupe key does not name the window.              *)
ReminderOnce(i, ahead, d) == [rule |-> "due-reminder", user |-> UserOf[i],
                              item |-> i, ahead |-> 3, date |-> d]

(* The unique keys of notification_deliveries.                             *)
Reminder(i, ahead, d) == [rule |-> "due-reminder", user |-> UserOf[i],
                          item |-> i, ahead |-> ahead, date |-> d]

Summary(u, week) == [rule |-> "weekly-summary", user |-> u, week |-> week]
Notice == {Reminder(i, a, d) : i \in Items, a \in Windows, d \in 0 .. LastDay + 3}
          \cup {Summary(u, w) : u \in Users, w \in -1 .. LastDay}

(* What the constants are expected to be.                                  *)
RemindersConstants ==
  /\ UserOf \in [Items -> Users]
  /\ LastDay \in Nat /\ MaxEdits \in Nat /\ WeekDays \in Nat \ {0}
  /\ None \notin Days \cup RuleRow \cup Notice

VARIABLES
  day,        \* today
  due,        \* the day an item falls due
  rule,       \* the rows of notification_rules
  delivered,  \* the rows of notification_deliveries
  mails,      \* the e-mails that left, a bag of notices
  job,        \* where the tick of a process is
  edits       \* changes users have made

tables == <<day, due, rule, delivered, edits>>
remVars == <<day, due, rule, delivered, mails, job, edits>>

(* todo: the queries still to make, each a user and a window; batch: rows  *)
(* of the last query still to send; sending: the notice in Send; clean: no *)
(* call has failed and no user has changed anything since the tick began.  *)
Job == [phase : {"idle", "due", "weekly"}, now : Days, todo : SUBSET (Users \X {0, 1, 3}),
        batch : SUBSET Notice, sending : Notice \cup {None}, email : BOOLEAN,
        recorded : BOOLEAN, clean : BOOLEAN]

(* A tick between two notices, and one that is sending one of them.        *)
Tick(phase, now, todo, batch, clean) ==
  [phase |-> phase, now |-> now, todo |-> todo, batch |-> batch, sending |-> None,
   email |-> FALSE, recorded |-> FALSE, clean |-> clean]
Sending(q, batch, notice, email, recorded, clean) ==
  [phase |-> q.phase, now |-> q.now, todo |-> q.todo, batch |-> batch, sending |-> notice,
   email |-> email, recorded |-> recorded, clean |-> clean]
Sent(q, batch, clean) == Tick(q.phase, q.now, q.todo, batch, clean)
Idle == Tick("idle", 0, {}, {}, FALSE)

TypeOK ==
  /\ day \in Days /\ edits \in 0 .. MaxEdits
  /\ due \in [Items -> Days \cup {None}]
  /\ rule \in [Users -> [RuleKeys -> RuleRow \cup {None}]]
  /\ delivered \subseteq Notice
  /\ IsABag(mails) /\ BagToSet(mails) \subseteq Notice
  /\ job \in [Processes -> Job]

(* The rows EnsureDefaults inserts.                                        *)
Default == [k \in RuleKeys |-> IF k = "due-reminder" THEN [enabled |-> TRUE, channel |-> "both"]
                               ELSE [enabled |-> FALSE, channel |-> "email"]]

Init ==
  /\ day = 0 /\ edits = 0
  /\ due = [i \in Items |-> None]
  /\ rule = [u \in Users |-> [k \in RuleKeys |-> None]]
  /\ delivered = {}
  /\ mails = EmptyBag
  /\ job = [p \in Processes |-> Idle]
-----------------------------------------------------------------------------
(* decisionFor: a missing or disabled rule sends nothing.                  *)
Sends(u, k)  == rule[u][k] # None /\ rule[u][k].enabled
Emails(u, k) == rule[u][k].channel \in {"email", "both"}

RuleOwners(k) == {u \in Users : Sends(u, k)}

DueItems(u, now, ahead) ==
  {Reminder(i, ahead, now + ahead) : i \in {j \in Items : UserOf[j] = u /\ due[j] = now + ahead}}

PreviousWeek(now) == now \div WeekDays - 1

Goto(p, q) == job' = [job EXCEPT ![p] = q]

Drained(p) == job[p].todo = {} /\ job[p].batch = {} /\ job[p].sending = None
-----------------------------------------------------------------------------
(* One tick: runOnce.  A call that fails is logged and the loop goes on.   *)

(* The query has no ORDER BY: users in any order, of each three days ahead *)
(* and then one.                                                           *)
NextQueries(todo) ==
  LET begun == {q \in todo : q[2] = 1 /\ <<q[1], 3>> \notin todo}
  IN  IF begun # {} THEN begun ELSE {q \in todo : q[2] # 1}

ListReminderUsers(p) ==
  /\ job[p].phase = "idle"
  /\ \/ Goto(p, Tick("due", day, RuleOwners("due-reminder") \X Windows, {}, TRUE))
     \/ Goto(p, Tick("due", day, {}, {}, FALSE))
  /\ UNCHANGED <<tables, mails>>

ReadDueItems(p) ==
  /\ job[p].phase = "due" /\ job[p].batch = {} /\ job[p].sending = None
  /\ \E q \in NextQueries(job[p].todo) :
       LET now  == job[p].now
           rest == job[p].todo \ {q}
       IN
         \/ Goto(p, Tick("due", now, rest, DueItems(q[1], now, q[2]), job[p].clean))
         \/ Goto(p, Tick("due", now, rest, {}, FALSE))
  /\ UNCHANGED <<tables, mails>>

ListSummaryUsers(p) ==
  /\ job[p].phase = "due" /\ Drained(p)
  /\ \/ Goto(p, Tick("weekly", day, RuleOwners("weekly-summary") \X {0}, {}, job[p].clean))
     \/ Goto(p, Tick("weekly", day, {}, {}, FALSE))
  /\ UNCHANGED <<tables, mails>>

ReadWeek(p) ==
  /\ job[p].phase = "weekly" /\ job[p].batch = {} /\ job[p].sending = None
  /\ \E q \in NextQueries(job[p].todo) :
       LET now  == job[p].now
           rest == job[p].todo \ {q}
       IN
         \/ Goto(p, Tick("weekly", now, rest, {Summary(q[1], PreviousWeek(now))}, job[p].clean))
         \/ Goto(p, Tick("weekly", now, rest, {}, FALSE))
  /\ UNCHANGED <<tables, mails>>

EndTick(p) ==
  /\ job[p].phase = "weekly" /\ Drained(p)
  /\ Goto(p, Idle)
  /\ UNCHANGED <<tables, mails>>

(* The context is cancelled, or the process dies.                          *)
Stop(p) ==
  /\ job[p].phase # "idle"
  /\ Goto(p, Idle)
  /\ UNCHANGED <<tables, mails>>
-----------------------------------------------------------------------------
(* Notifier.Send, one database call or e-mail at a time.                   *)

(* The rule is read again for every notice.                                *)
Decide(p) ==
  /\ job[p].sending = None
  /\ \E n \in job[p].batch :
       LET rest == job[p].batch \ {n}
           q    == job[p]
       IN
         \/ /\ Sends(n.user, n.rule)
            /\ Goto(p, Sending(q, rest, n, Emails(n.user, n.rule), FALSE, q.clean))
         \/ ~Sends(n.user, n.rule) /\ Goto(p, Sent(q, rest, q.clean))
         \/ Goto(p, Sent(q, rest, FALSE))
  /\ UNCHANGED <<tables, mails>>

(* After the row: the e-mail, if the rule wants one.                       *)
Go(p) ==
  LET q == job[p] IN
  Goto(p, IF q.email THEN Sending(q, q.batch, q.sending, TRUE, TRUE, q.clean)
          ELSE Sent(q, q.batch, q.clean))

(* A faulty variant: nobody looks whether the row was inserted.            *)
RecordBlindly(p) ==
  /\ job[p].sending # None /\ ~job[p].recorded
  /\ delivered' = delivered \cup {job[p].sending}
  /\ Go(p)
  /\ UNCHANGED <<day, due, rule, edits, mails>>

(* RecordDelivery: INSERT ... ON CONFLICT DO NOTHING.                      *)
Record(p) ==
  /\ job[p].sending # None /\ ~job[p].recorded
  /\ LET q == job[p] IN
       \/ /\ q.sending \notin delivered
          /\ delivered' = delivered \cup {q.sending}
          /\ Go(p)
       \/ q.sending \in delivered /\ Goto(p, Sent(q, q.batch, q.clean)) /\ UNCHANGED delivered
       \/ Goto(p, Sent(q, q.batch, FALSE)) /\ UNCHANGED delivered
  /\ UNCHANGED <<day, due, rule, edits, mails>>

(* UserEmail and the mailer; a failure is only logged, the delivery stays. *)
Mail(p) ==
  /\ job[p].recorded
  /\ LET q == job[p] IN
       \/ /\ mails' = mails (+) SetToBag({q.sending})
          /\ Goto(p, Sent(q, q.batch, q.clean))
       \/ Goto(p, Sent(q, q.batch, FALSE)) /\ UNCHANGED mails
  /\ UNCHANGED tables
-----------------------------------------------------------------------------
(* What users and time do meanwhile.                                       *)

Edit ==
  /\ edits < MaxEdits
  /\ edits' = edits + 1
  /\ job' = [p \in Processes |->
               LET q == job[p]
               IN  Sending(q, q.batch, q.sending, q.email, q.recorded, FALSE)]
  /\ UNCHANGED <<day, delivered, mails>>

(* A payment, an edit or a new item moves the day something falls due.     *)
SetDue(i, d) == Edit /\ due[i] # d /\ due' = [due EXCEPT ![i] = d] /\ UNCHANGED rule

(* EnsureDefaults, when the settings are opened: missing rows only.        *)
OpenSettings(u) ==
  /\ Edit
  /\ rule' = [rule EXCEPT ![u] = [k \in RuleKeys |->
               IF rule[u][k] = None THEN Default[k] ELSE rule[u][k]]]
  /\ UNCHANGED due

(* UPDATE ... SET enabled = COALESCE(..), channel = COALESCE(..): what the *)
(* request leaves out keeps its value.                                     *)
UpdateRule(u, k, enabled, channel) ==
  /\ Edit
  /\ rule[u][k] # None
  /\ rule' = [rule EXCEPT ![u][k] =
       [enabled |-> IF enabled = None THEN rule[u][k].enabled ELSE enabled,
        channel |-> IF channel = None THEN rule[u][k].channel ELSE channel]]
  /\ UNCHANGED due

NextDay ==
  /\ day < LastDay
  /\ day' = day + 1
  /\ UNCHANGED <<due, rule, delivered, mails, job, edits>>

Next ==
  \/ \E p \in Processes :
       \/ ListReminderUsers(p) \/ ReadDueItems(p) \/ ListSummaryUsers(p) \/ ReadWeek(p)
       \/ EndTick(p) \/ Stop(p) \/ Decide(p) \/ Record(p) \/ Mail(p)
  \/ \E i \in Items, d \in Days \cup {None} : SetDue(i, d)
  \/ \E u \in Users :
       \/ OpenSettings(u)
       \/ \E k \in RuleKeys, e \in BOOLEAN \cup {None}, c \in Channels \cup {None} :
            UpdateRule(u, k, e, c)
  \/ NextDay

Spec == Init /\ [][Next]_remVars
-----------------------------------------------------------------------------
(* No notice is e-mailed twice, whatever fails and however many processes  *)
(* tick at once (the comment at RecordDelivery: de-dupe, record first).    *)
MailedOnce == \A n \in BagToSet(mails) : mails[n] <= 1

(* A tick that was neither interrupted, nor failed, nor overtaken by an    *)
(* edit leaves a delivery for everything due three days and one day after  *)
(* it began, of every user whose rule is on, and in the same way for the   *)
(* summary of the week before.                                             *)
DueItemsNoticed ==
  \A p \in Processes : job[p].clean /\ Drained(p) =>
    /\ job[p].phase = "due" =>
         \A u \in RuleOwners("due-reminder"), a \in Windows :
           \A i \in Items : UserOf[i] = u /\ due[i] = job[p].now + a
                              => \E n \in delivered : n.rule = "due-reminder" /\ n.item = i
                                                       /\ n.ahead = a /\ n.date = due[i]
    /\ job[p].phase = "weekly" =>
         \A u \in RuleOwners("weekly-summary") :
           Summary(u, PreviousWeek(job[p].now)) \in delivered

(* The rest of the inductive invariant.  What was mailed has its row, what *)
(* is about to be mailed has one that only its process inserted; and what  *)
(* a clean tick has listed is still to be read, read, in Send or recorded. *)
RecordedOnce ==
  /\ \A n \in BagToSet(mails) : n \in delivered /\ mails[n] = 1
  /\ \A p \in Processes : job[p].recorded =>
       job[p].sending \in delivered /\ job[p].sending \notin BagToSet(mails)
  /\ \A p, q \in Processes : job[p].recorded /\ job[q].recorded
                             /\ job[p].sending = job[q].sending => p = q

(* What the queries a tick has made so far would find now.                 *)
Wanted(q) ==
  IF q.phase = "due"
  THEN UNION {DueItems(x[1], q.now, x[2]) : x \in (RuleOwners("due-reminder") \X Windows) \ q.todo}
  ELSE IF q.phase = "weekly"
  THEN {Summary(u, PreviousWeek(q.now)) : u \in {v \in RuleOwners("weekly-summary") : <<v, 0>> \notin q.todo}}
  ELSE {}

Listed(q) == \A n \in Wanted(q) : n \in q.batch \/ n = q.sending \/ n \in delivered

IInv ==
  /\ TypeOK
  /\ \A p \in Processes : job[p].phase = "due" => job[p].todo \subseteq Users \X Windows
  /\ RecordedOnce
  /\ \A p \in Processes : job[p].clean => Listed(job[p])
=============================================================================
