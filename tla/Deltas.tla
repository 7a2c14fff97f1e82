------------------------------- MODULE Deltas -------------------------------
(***************************************************************************)
(* The arithmetic of a transaction: what recording it does to the balances *)
(* of the wallets it names (internal/transaction/service.go), and how an   *)
(* edit or a removal takes that back (reverseDeltas in repository.go).     *)
(*                                                                         *)
(* Money is an int64 in Go and a bigint in PostgreSQL.  Half stands for    *)
(* 2^63, so that TLC can meet both ends of the range with small numbers.   *)
(***************************************************************************)
EXTENDS Integers, Sequences

CONSTANTS
  Half,       \* int64 and bigint range over -Half .. Half-1
  NoWallet    \* the empty to_wallet_id

ASSUME HalfAssumption == Half \in Nat \ {0}

InRange(x) == -Half <= x /\ x < Half

(* What Go's int64 keeps of a sum or a negation of int64 values: such a     *)
(* result is out of range by less than the size of the range, so this is x *)
(* modulo 2^64.                                                            *)
Wrap(x) ==
  IF x >= Half THEN x - 2 * Half
  ELSE IF x < -Half THEN x + 2 * Half
  ELSE x

Types == {"income", "expense", "transfer", "adjustment"}

(* The part of a TransactionInput that money depends on.                   *)
InputRecord(W) ==
  [type : Types, wallet : W, to : W \cup {NoWallet},
   amount : -Half .. Half - 1, fee : -Half .. Half - 1]

(* The checks of BalanceDeltas, the fee and to_wallet_id checks of the     *)
(* handler, and the CHECK constraints of the transactions table.           *)
ValidInput(in) ==
  /\ in.amount # 0
  /\ in.type # "adjustment" => in.amount > 0
  /\ in.type = "transfer"   => in.fee >= 0 /\ in.to \notin {NoWallet, in.wallet}
  /\ in.type # "transfer"   => in.fee = 0 /\ in.to = NoWallet

Delta(w, a) == [wallet |-> w, amount |-> a]

(* One delta per wallet the transaction moves, in the order in which the   *)
(* UPDATE statements are sent: the source first.                           *)
BalanceDeltas(in) ==
  IF in.type = "transfer"
  THEN <<Delta(in.wallet, Wrap(-Wrap(in.amount + in.fee))), Delta(in.to, in.amount)>>
  ELSE <<Delta(in.wallet, IF in.type = "expense" THEN Wrap(-in.amount) ELSE in.amount)>>

(* A faulty variant: only the source of a transfer is taken back.          *)
ReverseDeltasSourceOnly(ds) == <<Delta(ds[1].wallet, Wrap(-ds[1].amount))>>

ReverseDeltas(ds) ==
  [i \in DOMAIN ds |-> Delta(ds[i].wallet, Wrap(-ds[i].amount))]

-----------------------------------------------------------------------------
(* What the first n deltas of ds do to wallet w.                           *)
Leg(ds, i, w) == IF i \in DOMAIN ds /\ ds[i].wallet = w THEN ds[i].amount ELSE 0

Applied(ds, n, w) ==
  (IF n >= 1 THEN Leg(ds, 1, w) ELSE 0) + (IF n >= 2 THEN Leg(ds, 2, w) ELSE 0)

NetDelta(ds, w) == Applied(ds, 2, w)

(* Sums and reversals of this input's amounts stay inside int64.  The code *)
(* does not enforce it: the handler puts no upper bound on an amount.      *)
MoneyFits(in) == in.amount > -Half /\ in.amount + in.fee < Half
=============================================================================
