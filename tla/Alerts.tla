------------------------------- MODULE Alerts -------------------------------
(***************************************************************************)
(* Budgets and their alerts (internal/budget, internal/alert): one user    *)
(* and one month.  After an expense has been created a goroutine lists     *)
(* the budgets, compares the one of the expense's category with its limit, *)
(* consults the user's rule, stores the marker that keeps an alert from    *)
(* being sent twice, and sends an e-mail; if sending fails it takes the    *)
(* marker back.  Goroutines of several expenses run at once; every call    *)
(* may fail; the process may stop.                                         *)
(*                                                                         *)
(* Expenses that come from updates, debts, trackers or recurring rules     *)
(* start no check.  The page of 100 budgets the check lists is taken to    *)
(* hold them all.                                                          *)
(***************************************************************************)
EXTENDS Integers, FiniteSetsExt, Bags

CONSTANTS Categories,
          Parent,      \* [Categories -> Categories or NoParent], a forest
          NoParent,
          Limits,      \* limits a user may set
          Amounts,     \* of an expense
          MaxSpent,    \* bound on a category's own expenses
          Checks       \* goroutines that may run at once

Levels == {"WARNING", "EXCEEDED"}
Gates  == {"off", "in-app", "email"}   \* the budget-alert rule, as decided

(* What the constants are expected to be.                                  *)
AlertsConstants ==
  /\ Parent \in [Categories -> Categories \cup {NoParent}]
  /\ NoParent \notin Categories
  /\ Limits \cup Amounts \subseteq Nat \ {0} /\ MaxSpent \in Nat

VARIABLES
  spent,      \* what the expenses of a category add up to
  limit,      \* the limit of its budget, 0 without one
  gate,       \* the user's rule
  marks,      \* the rows of sent_alerts
  sentMails,  \* the e-mails SendEmail reported as sent
  check,      \* where each goroutine is
  disturbed   \* a call failed, or a budget, the rule or an unchecked expense changed

alertVars == <<spent, limit, gate, marks, sentMails, check, disturbed>>

Steps == {"idle", "list", "gate", "mark", "mail", "undo"}
Check == [step : Steps, category : Categories \cup {NoParent},
          level : Levels \cup {"none"}, email : BOOLEAN]
At(s, c, l, e) == [step |-> s, category |-> c, level |-> l, email |-> e]
NoCheck == At("idle", NoParent, "none", FALSE)

TypeOK ==
  /\ spent \in [Categories -> 0 .. MaxSpent]
  /\ limit \in [Categories -> Limits \cup {0}]
  /\ gate \in Gates
  /\ marks \subseteq Categories \X Levels
  /\ IsABag(sentMails) /\ BagToSet(sentMails) \subseteq Categories \X Levels
  /\ check \in [Checks -> Check]
  /\ disturbed \in BOOLEAN

Init ==
  /\ spent = [c \in Categories |-> 0]
  /\ limit \in [Categories -> Limits]
  /\ gate \in Gates
  /\ marks = {}
  /\ sentMails = EmptyBag
  /\ check = [k \in Checks |-> NoCheck]
  /\ disturbed = FALSE
-----------------------------------------------------------------------------
(* The category and everything below it (category_tree in the queries).    *)
Below[c \in Categories] == {c} \cup UNION {Below[d] : d \in {e \in Categories : Parent[e] = c}}

(* spent_minor of a budget: List sums over the whole subtree.              *)
SpentUnder(c) == MapThenSumSet(LAMBDA d : spent[d], Below[c])

(* ratio >= 1.0, ratio >= 0.8.                                             *)
LevelOf(c) ==
  IF limit[c] = 0 THEN "none"
  ELSE IF SpentUnder(c) >= limit[c] THEN "EXCEEDED"
  ELSE IF 10 * SpentUnder(c) >= 8 * limit[c] THEN "WARNING" ELSE "none"

Goto(k, fields) == check' = [check EXCEPT ![k] = fields]
Fail(k) == Goto(k, NoCheck) /\ disturbed' = TRUE

books == <<spent, limit, gate>>
-----------------------------------------------------------------------------
(* A faulty variant: the totals are read before the expense is committed.  *)
CreateExpenseAfterCheck(k, c, n) ==
  /\ check[k] = NoCheck
  /\ spent[c] + n <= MaxSpent
  /\ spent' = [spent EXCEPT ![c] = @ + n]
  /\ Goto(k, IF LevelOf(c) = "none" THEN NoCheck
             ELSE At("gate", c, LevelOf(c), FALSE))
  /\ UNCHANGED <<limit, gate, marks, sentMails, disturbed>>

(* Create commits the expense and starts the check.                        *)
CreateExpense(k, c, n) ==
  /\ check[k] = NoCheck
  /\ spent[c] + n <= MaxSpent
  /\ spent' = [spent EXCEPT ![c] = @ + n]
  /\ Goto(k, At("list", c, "none", FALSE))
  /\ UNCHANGED <<limit, gate, marks, sentMails, disturbed>>

ListBudgets(k) ==
  /\ check[k].step = "list"
  /\ LET c     == check[k].category
         level == LevelOf(c)
     IN
       \/ /\ Goto(k, IF level = "none" THEN NoCheck ELSE At("gate", c, level, FALSE))
          /\ UNCHANGED disturbed
       \/ Fail(k)
  /\ UNCHANGED <<books, marks, sentMails>>

ConsultRule(k) ==
  /\ check[k].step = "gate"
  /\ \/ /\ Goto(k, IF gate = "off" THEN NoCheck
                   ELSE At("mark", check[k].category, check[k].level, gate = "email"))
        /\ UNCHANGED disturbed
     \/ Fail(k)
  /\ UNCHANGED <<books, marks, sentMails>>

Key(k) == <<check[k].category, check[k].level>>

(* A faulty variant: MarkAlertSent, which overwrites an existing marker.   *)
MarkAlertSent(k) ==
  /\ check[k].step = "mark"
  /\ marks' = marks \cup {Key(k)}
  /\ Goto(k, IF check[k].email THEN [check[k] EXCEPT !.step = "mail"] ELSE NoCheck)
  /\ UNCHANGED <<books, sentMails, disturbed>>

(* INSERT ... ON CONFLICT DO NOTHING; only the inserter goes on.           *)
TryInsertSentAlert(k) ==
  /\ check[k].step = "mark"
  /\ \/ /\ marks' = marks \cup {Key(k)}
        /\ Goto(k, IF Key(k) \notin marks /\ check[k].email
                   THEN [check[k] EXCEPT !.step = "mail"] ELSE NoCheck)
        /\ UNCHANGED disturbed
     \/ Fail(k) /\ UNCHANGED marks
  /\ UNCHANGED <<books, sentMails>>

(* SendEmail works, or reports a failure (having delivered or not) and the *)
(* marker is to be taken back; or the address cannot be read and it stays. *)
SendEmail(k) ==
  /\ check[k].step = "mail"
  /\ \/ sentMails' = sentMails (+) SetToBag({Key(k)}) /\ Goto(k, NoCheck) /\ UNCHANGED disturbed
     \/ Goto(k, [check[k] EXCEPT !.step = "undo"]) /\ disturbed' = TRUE /\ UNCHANGED sentMails
     \/ Fail(k) /\ UNCHANGED sentMails
  /\ UNCHANGED <<books, marks>>

DeleteSentAlert(k) ==
  /\ check[k].step = "undo"
  /\ marks' \in {marks \ {Key(k)}, marks}
  /\ Goto(k, NoCheck)
  /\ UNCHANGED <<books, sentMails, disturbed>>

(* The goroutine panics or its process stops.                              *)
Die(k) ==
  /\ check[k].step # "idle"
  /\ Fail(k)
  /\ UNCHANGED <<books, marks, sentMails>>
-----------------------------------------------------------------------------
(* An expense that no check follows: an update, a payment, a recurring run.*)
UncheckedExpense(c, n) ==
  /\ spent[c] + n <= MaxSpent
  /\ spent' = [spent EXCEPT ![c] = @ + n]
  /\ disturbed' = TRUE
  /\ UNCHANGED <<limit, gate, marks, sentMails, check>>

RemoveExpense(c, n) ==
  /\ spent[c] >= n
  /\ spent' = [spent EXCEPT ![c] = @ - n]
  /\ UNCHANGED <<limit, gate, marks, sentMails, check, disturbed>>

(* Create, Update and Delete of a budget: each is one statement.           *)
SetBudget(c, l) ==
  /\ limit[c] # l
  /\ limit' = [limit EXCEPT ![c] = l]
  /\ disturbed' = TRUE
  /\ UNCHANGED <<spent, gate, marks, sentMails, check>>

SetRule(g) ==
  /\ gate # g
  /\ gate' = g
  /\ disturbed' = TRUE
  /\ UNCHANGED <<spent, limit, marks, sentMails, check>>

Next ==
  \/ \E k \in Checks :
       \/ \E c \in Categories, n \in Amounts : CreateExpense(k, c, n)
       \/ ListBudgets(k) \/ ConsultRule(k) \/ TryInsertSentAlert(k)
       \/ SendEmail(k) \/ DeleteSentAlert(k) \/ Die(k)
  \/ \E c \in Categories :
       \/ \E n \in Amounts : UncheckedExpense(c, n) \/ RemoveExpense(c, n)
       \/ \E l \in Limits \cup {0} : SetBudget(c, l)
  \/ \E g \in Gates : SetRule(g)

Spec == Init /\ [][Next]_alertVars
-----------------------------------------------------------------------------
(* SendEmail succeeds at most once for a category and a level, although    *)
(* markers of failed e-mails are taken back and later expenses try again.  *)
AlertedOnce == \A m \in BagToSet(sentMails) : sentMails[m] <= 1

(* Once no check is running, a category without subcategories that is over *)
(* a threshold has been alerted at that level or above, provided no call   *)
(* failed and only created expenses raised the total.  (The total of a     *)
(* category with subcategories also rises by expenses whose check looks at *)
(* the subcategory's budget alone.)                                        *)
OverspendingAlertedAlone ==
  (~disturbed /\ gate # "off" /\ \A k \in Checks : check[k] = NoCheck) =>
    \A c \in Categories : (Below[c] = {c} /\ LevelOf(c) # "none") =>
      \/ <<c, "EXCEEDED">> \in marks
      \/ LevelOf(c) = "WARNING" /\ <<c, "WARNING">> \in marks

(* The rest of the inductive invariant.  Of an alert that has been sent    *)
(* the marker stays, and while a check is sending it no other one is; what *)
(* is over a threshold has a marker or a check on its way to one.          *)
Sending(k) == check[k].step \in {"mail", "undo"}

SentOnce ==
  /\ \A m \in BagToSet(sentMails) : m \in marks /\ sentMails[m] = 1
  /\ \A k \in Checks : Sending(k) => Key(k) \in marks /\ Key(k) \notin BagToSet(sentMails)
  /\ \A j, k \in Checks : Sending(j) /\ Sending(k) /\ Key(j) = Key(k) => j = k

Enough(c) == {LevelOf(c), "EXCEEDED"}

Noticed(c) ==
  \/ \E l \in Enough(c) : <<c, l>> \in marks
  \/ \E k \in Checks : /\ check[k].category = c
                       /\ \/ check[k].step = "list"
                          \/ check[k].step \in {"gate", "mark"} /\ check[k].level \in Enough(c)

NoticedIfOver(c) == Below[c] = {c} /\ LevelOf(c) # "none" => Noticed(c)

Shaped(q) ==
  /\ q.step # "idle" => q.category \in Categories
  /\ q.step \in {"gate", "mark", "mail", "undo"} => q.level \in Levels

IInv ==
  /\ TypeOK
  /\ \A k \in Checks : Shaped(check[k])
  /\ SentOnce
  /\ disturbed \/ \A k \in Checks : check[k].step # "undo"
  /\ disturbed \/ gate = "off" \/ \A c \in Categories : NoticedIfOver(c)
=============================================================================
