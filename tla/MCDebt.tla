------------------------------- MODULE MCDebt -------------------------------
(***************************************************************************)
(* Instances of Debt for TLC.  Two history variables tell the properties   *)
(* that hold of every interleaving from those that a stale update or an    *)
(* edit of a transaction breaks.                                           *)
(***************************************************************************)
EXTENDS DebtViews

CONSTANTS d1, d2, t1, t2, t3, s1, s2

VARIABLES
  raced,    \* two requests have been in flight at the same time
  edited    \* the transactions that were edited

AnyStatus   == Statuses \cup {""}
Interchange == Permutations(Debts) \cup Permutations(Txs) \cup Permutations(Sessions)

MCInit == Init /\ raced = FALSE /\ edited = {}
MCNext ==
  /\ Next
  /\ raced'  = (raced \/ \E s, r \in Sessions : s # r /\ req'[s] # Idle /\ req'[r] # Idle)
  /\ edited' = edited \cup {t \in Txs : tx[t] # NoRow /\ tx'[t] # tx[t]}
MCSpec == MCInit /\ [][MCNext]_<<vars, raced, edited>>

(* As long as no two requests overlapped, no debt has a status that        *)
(* contradicts its amounts, which would make it impossible to pay          *)
(* (ResolveStatus), and the split bills, the rows of the debt report, the  *)
(* dashboard up to its limit and the alert feed tell the same of what is   *)
(* owed, whether by status or by amount (List, Get, DebtReport,            *)
(* upcomingDebts, ListOverdueDebts).  The totals of the report are in it   *)
(* until a debt is cancelled.                                              *)
StatusMatchesPaymentAlone == ~ raced => StatusMatchesPayment /\ DebtViewsAgree

(* Whatever races, fails or is cancelled, the cash that the transactions   *)
(* of a debt moved is what the debt still owes, and a split bill asks for  *)
(* no more than was spent (Create, SplitExpense, Pay), as long as nobody   *)
(* edits them.                                                             *)
OutstandingIsCashUnedited ==
  \A t \in Txs : OpenedBy(t) # {} /\ TxsAround(t) \cap edited = {} => OutstandingIsCash(t)
-----------------------------------------------------------------------------
(* The inductive invariants of the two properties.                         *)

FiniteOpened == IsFiniteSet(Opened)

(* One request at a time: what an update is about to write is still right. *)
OneAtATime ==
  ~ raced =>
    /\ \A s, r \in Sessions : req[s] # Idle /\ req[r] # Idle => s = r
    /\ \A s \in Sessions :
         req[s].kind = "update" => Resolves(debt[req[s].debt], req[s].status)
    /\ StatusMatchesPayment

(* Payments and originations are different transactions, and what an       *)
(* unedited one says of its debt is still so.                              *)
PaymentsHaveTx ==
  \A t \in Txs : payment[t] # NoRow =>
    /\ tx[t] # NoRow /\ OpenedBy(t) = {}
    /\ t \notin edited =>
         tx[t] = [type   |-> TransactionTypeFor(debt[payment[t].debt].type, "payment"),
                  amount |-> payment[t].amount]

(* No split bill adds up to more than int64 holds.                         *)
SplitsFit ==
  \A n \in 1 .. MaxSplits : \A amounts \in [1 .. n -> Amounts] : SumFunction(amounts) < Half

OriginsHaveTx ==
  \A t \in Txs : OpenedBy(t) # {} =>
    /\ tx[t] # NoRow
    /\ \A d, e \in OpenedBy(t) : debt[d].type = debt[e].type
    /\ t \notin edited =>
         /\ \A d \in OpenedBy(t) : tx[t].type = TransactionTypeFor(debt[d].type, "origination")
         /\ SplitsFit => SumFunctionOnSet(Principal, OpenedBy(t)) <= tx[t].amount

MCIInv == IInv /\ FiniteOpened /\ OneAtATime /\ PaymentsHaveTx /\ OriginsHaveTx
=============================================================================
