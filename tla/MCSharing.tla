------------------------------ MODULE MCSharing ------------------------------
(* Instances of Sharing for TLC: one owner.                                *)
EXTENDS Sharing

CONSTANTS alice, w1, w2, w3

VARIABLES
  raced,    \* two requests have been in flight at the same time
  failed    \* the creation of a wallet has failed half-way

OneWallet    == {w1}
TwoWallets   == {w1, w2}
ThreeWallets == {w1, w2, w3}
MCOwner      == [w \in Wallets |-> alice]

MCInit == Init /\ raced = FALSE /\ failed = FALSE
MCNext ==
  /\ Next
  /\ raced'  = (raced \/ \E s, r \in Sessions : s # r /\ req'[s] # Idle /\ req'[r] # Idle)
  /\ failed' = (failed \/ \E s \in Sessions : req[s].kind = "fan out" /\ Fail(s))
MCSpec == MCInit /\ [][MCNext]_<<vars, raced, failed>>

(* A share lives no longer than what it was made for.  It never outlives   *)
(* its wallet, whatever overlaps; and with requests one at a time revoking *)
(* a link removes every share it made, whatever answers, invitations and   *)
(* failures came before (AddPartnerViewerShares, Revoke).                  *)
SharesHaveGrounds ==
  /\ SharesNameOpenWallets
  /\ ~ raced => LinkSharesHaveLink

(* Requests one at a time, none of which lost its fan-out: whatever order  *)
(* wallets, invitations, answers and revocations come in, a joined viewer  *)
(* has a share of every ordinary wallet (Respond, AddPartnerViewerShares). *)
ViewerSeesEveryWalletAlone == ~ raced /\ ~ failed => ViewerSeesEveryWallet
-----------------------------------------------------------------------------
(* The inductive invariants of the two properties.                         *)

OneAtATime == \A s, r \in Sessions : req[s] # Idle /\ req[r] # Idle => s = r

(* A revocation is about to remove every share that its link made.         *)
RevokeTakesAll ==
  \A s \in Sessions : req[s].kind = "revoke" =>
    \A w \in Wallets :
      LET row == share[w][req[s].viewer] IN
      Owner[w] = req[s].owner /\ row # NoShare /\ row.source = "link" => w \in req[s].rows

FanningOut(w) == \E s \in Sessions : req[s].kind = "fan out" /\ req[s].wallet = w

(* What a viewer of a joined link has no share of is being fanned out, and *)
(* an acceptance is about to give its viewer all the rest.                 *)
FanOutsReachAll ==
  \A w \in Wallets \ GoalWallets : status[w] = "open" /\ ~ FanningOut(w) =>
    /\ \A v \in Viewers : link[Owner[w]][v] = "joined" => share[w][v] # NoShare
    /\ \A s \in Sessions : req[s].kind = "accept" /\ req[s].owner = Owner[w] =>
         share[w][req[s].viewer] # NoShare \/ w \in req[s].rows

MCIInv ==
  /\ IInv
  /\ ~ raced => OneAtATime /\ LinkSharesHaveLink /\ RevokeTakesAll
  /\ ~ raced /\ ~ failed => FanOutsReachAll
=============================================================================
