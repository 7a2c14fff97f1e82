------------------------- MODULE MCTransactionStore -------------------------
(***************************************************************************)
(* Instances of TransactionStore for TLC.  Two users, two wallets of       *)
(* alice that bob may be a member of, two requests in flight at a time.    *)
(***************************************************************************)
EXTENDS TransactionStore

CONSTANTS alice, bob, w1, w2

MCUsers   == {alice, bob}
MCWallets == {w1, w2}
MCOwner   == [w \in {w1, w2} |-> alice]

In(type, w, v, a, f) == [type |-> type, wallet |-> w, to |-> v, amount |-> a, fee |-> f]

Transfer(w, v, a, f) == In("transfer", w, v, a, f)

(* An edit that turns the correction of w2 into the transfer out of w1     *)
(* locks w2 first, a new transfer w1 first.                                *)
MCInputs == {Transfer(w1, w2, 2, 1), In("adjustment", w2, NoWallet, -2, 0)}

ASSUME \A in \in MCInputs : MoneyFits(in)
=============================================================================
