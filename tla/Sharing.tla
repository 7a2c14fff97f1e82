------------------------------- MODULE Sharing -------------------------------
(***************************************************************************)
(* Who may see or use a wallet: the manual shares of one wallet            *)
(* (internal/wallet) and the account-level links that share every wallet   *)
(* of an owner with a viewer (internal/partner), with the wallets that     *)
(* come and go under them (internal/wallet, internal/goal).                *)
(*                                                                         *)
(* req[s] is the request that session s serves, where it is more than one  *)
(* statement: an invitation is three statements without a transaction, the *)
(* creation of a wallet two; accepting and revoking a link are             *)
(* transactions that keep the rows they wrote locked until they commit.    *)
(***************************************************************************)
EXTENDS FiniteSets, Integers

CONSTANTS
  Owners, Viewers,   \* users that have wallets, users these are shared with
  Wallets, Owner,    \* Owner \in [Wallets -> Owners]: wallets.user_id
  GoalWallets,       \* the wallets created by internal/goal
  MaxActiveShares,
  Sessions,
  NoShare            \* share[w][v] where wallet_shares has no row

Statuses == {"pending", "joined", "rejected"}
Roles    == {"member", "viewer"}
Share    == [status : Statuses, role : Roles, source : {"manual", "link"}]

ASSUME SharingAssumption ==
  /\ Owner \in [Wallets -> Owners]
  /\ GoalWallets \subseteq Wallets
  /\ MaxActiveShares \in Nat \ {0}
  /\ NoShare \notin Share

Request ==
       [kind : {"none"}]
  \cup [kind : {"reopen", "insert"}, owner : Owners, viewer : Viewers]
  \cup [kind : {"accept", "revoke"}, owner : Owners, viewer : Viewers, rows : SUBSET Wallets]
  \cup [kind : {"fan out"}, wallet : Wallets]

Idle == [kind |-> "none"]

VARIABLES
  status,   \* of a wallet: "unborn", "open" or "closed"
  share,    \* the committed rows of wallet_shares
  link,     \* wallet_share_links.status, "none" where there is no row
  req       \* the request of a session

vars == <<status, share, link, req>>

TypeOK ==
  /\ status \in [Wallets -> {"unborn", "open", "closed"}]
  /\ share  \in [Wallets -> [Viewers -> Share \cup {NoShare}]]
  /\ link   \in [Owners -> [Viewers -> Statuses \cup {"none"}]]
  /\ req    \in [Sessions -> Request]

Init ==
  /\ status = [w \in Wallets |-> "unborn"]
  /\ share  = [w \in Wallets |-> [v \in Viewers |-> NoShare]]
  /\ link   = [o \in Owners |-> [v \in Viewers |-> "none"]]
  /\ req    = [s \in Sessions |-> Idle]
-----------------------------------------------------------------------------
WalletsOf(o) == {w \in Wallets : Owner[w] = o /\ status[w] = "open"}

Active(o) == {v \in Viewers : link[o][v] \in {"pending", "joined"}}

(* A share granted through a link.                                         *)
LinkShare == [status |-> "joined", role |-> "viewer", source |-> "link"]

LinkLocked(o, v) ==
  \E s \in Sessions : /\ req[s].kind \in {"accept", "revoke"}
                      /\ req[s].owner = o /\ req[s].viewer = v

(* Rows of wallet_shares that a transaction inserted or deleted and has    *)
(* not committed.                                                          *)
ShareLocked(w, v) ==
  \E s \in Sessions : /\ req[s].kind \in {"accept", "revoke"}
                      /\ req[s].viewer = v /\ w \in req[s].rows

(* The foreign key checks of the rows a link inserts lock their wallets.   *)
WalletLocked(w) ==
  \E s \in Sessions : req[s].kind = "accept" /\ w \in req[s].rows

Begin(s, r) == req[s] = Idle /\ req' = [req EXCEPT ![s] = r]

Finish(s) == req' = [req EXCEPT ![s] = Idle]
-----------------------------------------------------------------------------
(* partner.Repository.Invite: count the active links, re-open a rejected   *)
(* one, insert a new one; each statement commits by itself.                *)
InviteCount(s, o, v) ==
  /\ o # v
  /\ v \notin Active(o)
  /\ Cardinality(Active(o)) < MaxActiveShares
  /\ Begin(s, [kind |-> "reopen", owner |-> o, viewer |-> v])
  /\ UNCHANGED <<status, share, link>>

(* A faulty variant: the UPDATE does not look at the status again.         *)
InviteReopenAny(s) ==
  LET o == req[s].owner   v == req[s].viewer IN
  /\ req[s].kind = "reopen"
  /\ ~ LinkLocked(o, v)
  /\ IF link[o][v] # "none"
     THEN /\ link' = [link EXCEPT ![o][v] = "pending"]
          /\ Finish(s)
     ELSE /\ req' = [req EXCEPT ![s].kind = "insert"]
          /\ UNCHANGED link
  /\ UNCHANGED <<status, share>>

InviteReopen(s) ==
  LET o == req[s].owner   v == req[s].viewer IN
  /\ req[s].kind = "reopen"
  /\ link[o][v] = "rejected" => ~ LinkLocked(o, v)
  /\ IF link[o][v] = "rejected"
     THEN /\ link' = [link EXCEPT ![o][v] = "pending"]
          /\ Finish(s)
     ELSE /\ req' = [req EXCEPT ![s].kind = "insert"]
          /\ UNCHANGED link
  /\ UNCHANGED <<status, share>>

(* UNIQUE (owner_id, viewer_id): the second of two inserts fails.          *)
InviteInsert(s) ==
  LET o == req[s].owner   v == req[s].viewer IN
  /\ req[s].kind = "insert"
  /\ ~ LinkLocked(o, v)
  /\ link' = [link EXCEPT ![o][v] = IF @ = "none" THEN "pending" ELSE @]
  /\ Finish(s)
  /\ UNCHANGED <<status, share>>

(* Respond with "rejected": one update under the lock of the link.  The    *)
(* status the link has does not matter, and no share is removed.           *)
Decline(o, v) ==
  /\ link[o][v] # "none"
  /\ ~ LinkLocked(o, v)
  /\ link' = [link EXCEPT ![o][v] = "rejected"]
  /\ UNCHANGED <<status, share, req>>

(* A faulty variant: only the first acceptance fans out.                   *)
AcceptPending(s, o, v) ==
  /\ link[o][v] # "none"
  /\ ~ LinkLocked(o, v)
  /\ Begin(s, [kind |-> "accept", owner |-> o, viewer |-> v,
               rows |-> {w \in WalletsOf(o) : share[w][v] = NoShare /\ link[o][v] = "pending"}])
  /\ UNCHANGED <<status, share, link>>

(* Respond with "joined": the fan-out inserts a share for every wallet its *)
(* snapshot shows, ON CONFLICT DO NOTHING.                                 *)
Accept(s, o, v) ==
  /\ link[o][v] # "none"
  /\ ~ LinkLocked(o, v)
  /\ Begin(s, [kind |-> "accept", owner |-> o, viewer |-> v,
               rows |-> {w \in WalletsOf(o) : share[w][v] = NoShare}])
  /\ UNCHANGED <<status, share, link>>

CommitAccept(s) ==
  LET o == req[s].owner   v == req[s].viewer IN
  /\ req[s].kind = "accept"
  /\ link'  = [link EXCEPT ![o][v] = "joined"]
  /\ share' = [w \in Wallets |->
                IF w \in req[s].rows THEN [share[w] EXCEPT ![v] = LinkShare] ELSE share[w]]
  /\ Finish(s)
  /\ UNCHANGED status

(* A faulty variant: shares the viewer has declined since are kept.        *)
RevokeJoined(s, o, v) ==
  /\ link[o][v] # "none"
  /\ ~ LinkLocked(o, v)
  /\ Begin(s, [kind |-> "revoke", owner |-> o, viewer |-> v,
               rows |-> {w \in WalletsOf(o) :
                           /\ share[w][v] # NoShare
                           /\ share[w][v].source = "link" /\ share[w][v].status = "joined"}])
  /\ UNCHANGED <<status, share, link>>

(* A faulty variant: the source of a share is not compared.                *)
RevokeAny(s, o, v) ==
  /\ link[o][v] # "none"
  /\ ~ LinkLocked(o, v)
  /\ Begin(s, [kind |-> "revoke", owner |-> o, viewer |-> v,
               rows |-> {w \in WalletsOf(o) : share[w][v] # NoShare}])
  /\ UNCHANGED <<status, share, link>>

(* Revoke, by either party: the shares the link made, then the link.       *)
Revoke(s, o, v) ==
  /\ link[o][v] # "none"
  /\ ~ LinkLocked(o, v)
  /\ Begin(s, [kind |-> "revoke", owner |-> o, viewer |-> v,
               rows |-> {w \in WalletsOf(o) :
                           share[w][v] # NoShare /\ share[w][v].source = "link"}])
  /\ UNCHANGED <<status, share, link>>

CommitRevoke(s) ==
  LET o == req[s].owner   v == req[s].viewer IN
  /\ req[s].kind = "revoke"
  /\ link'  = [link EXCEPT ![o][v] = "none"]
  /\ share' = [w \in Wallets |->
                IF w \in req[s].rows THEN [share[w] EXCEPT ![v] = NoShare] ELSE share[w]]
  /\ Finish(s)
  /\ UNCHANGED status

(* An error or a crash between two statements; a transaction rolls back.   *)
Fail(s) == req[s] # Idle /\ Finish(s) /\ UNCHANGED <<status, share, link>>
-----------------------------------------------------------------------------
(* wallet.UseCase.Create: the insert, and then AddPartnerViewerShares in a *)
(* statement of its own whose failure is ignored.                          *)
CreateWallet(s, w) ==
  /\ w \notin GoalWallets
  /\ status[w] = "unborn"
  /\ status' = [status EXCEPT ![w] = "open"]
  /\ Begin(s, [kind |-> "fan out", wallet |-> w])
  /\ UNCHANGED <<share, link>>

(* A faulty variant: the foreign key on wallet_id is not enforced.         *)
AddPartnerViewerSharesUnchecked(s) ==
  LET w == req[s].wallet
      joined == {v \in Viewers : link[Owner[w]][v] = "joined"}
  IN
  /\ req[s].kind = "fan out"
  /\ \A v \in joined : ~ ShareLocked(w, v)
  /\ share' = [share EXCEPT ![w] = [v \in Viewers |->
                IF v \in joined /\ @[v] = NoShare THEN LinkShare ELSE @[v]]]
  /\ Finish(s)
  /\ UNCHANGED <<status, link>>

AddPartnerViewerShares(s) ==
  LET w == req[s].wallet
      joined == {v \in Viewers : link[Owner[w]][v] = "joined"}
  IN
  /\ req[s].kind = "fan out"
  /\ \A v \in joined : ~ ShareLocked(w, v)
  /\ share' = [share EXCEPT ![w] = [v \in Viewers |->
                IF status[w] = "open" /\ v \in joined /\ @[v] = NoShare
                THEN LinkShare ELSE @[v]]]
  /\ Finish(s)
  /\ UNCHANGED <<status, link>>

(* goal.createGoalWallet, in the transaction that creates or joins a goal. *)
CreateGoalWallet(w) ==
  /\ w \in GoalWallets
  /\ status[w] = "unborn"
  /\ status' = [status EXCEPT ![w] = "open"]
  /\ UNCHANGED <<share, link, req>>

(* wallet.UseCase.Delete; wallet_shares go with the row (ON DELETE         *)
(* CASCADE), and goal wallets are read-only.                               *)
DeleteWallet(w) ==
  /\ w \notin GoalWallets
  /\ status[w] = "open"
  /\ ~ WalletLocked(w) /\ \A v \in Viewers : ~ ShareLocked(w, v)
  /\ status' = [status EXCEPT ![w] = "closed"]
  /\ share'  = [share EXCEPT ![w] = [v \in Viewers |-> NoShare]]
  /\ UNCHANGED <<link, req>>

(* A faulty variant: InviteMember does not default the role.               *)
AddMemberWithoutRole(w, v, role) ==
  /\ status[w] = "open"
  /\ v # Owner[w]
  /\ ~ ShareLocked(w, v)
  /\ share' = [share EXCEPT ![w][v] =
                IF @ = NoShare THEN [status |-> "pending", role |-> "", source |-> "manual"]
                ELSE [status |-> IF @.status = "joined" THEN "joined" ELSE "pending",
                      role |-> role, source |-> @.source]]
  /\ UNCHANGED <<status, link, req>>

(* wallet.InviteMember and AddMember: an upsert that keeps "joined" and    *)
(* the source of an existing row, and takes the role of the invitation.    *)
AddMember(w, v, role) ==
  /\ status[w] = "open"
  /\ v # Owner[w]
  /\ ~ ShareLocked(w, v)
  /\ share' = [share EXCEPT ![w][v] =
                IF @ = NoShare THEN [status |-> "pending", role |-> role, source |-> "manual"]
                ELSE [status |-> IF @.status = "joined" THEN "joined" ELSE "pending",
                      role |-> role, source |-> @.source]]
  /\ UNCHANGED <<status, link, req>>

(* A faulty variant: a declined invitation may be accepted later.          *)
RespondInviteAgain(w, v, answer) ==
  /\ status[w] = "open" /\ ~ WalletLocked(w)
  /\ share[w][v] # NoShare /\ ~ ShareLocked(w, v)
  /\ share[w][v].status = "joined" => answer = "rejected"
  /\ share' = [share EXCEPT ![w][v].status = answer]
  /\ UNCHANGED <<status, link, req>>

(* wallet.Repository.RespondInvite: one transaction that locks the wallet  *)
(* and the share.  A joined member may still leave.                        *)
RespondInvite(w, v, answer) ==
  /\ status[w] = "open" /\ ~ WalletLocked(w)
  /\ share[w][v] # NoShare /\ ~ ShareLocked(w, v)
  /\ share[w][v].status = "joined" => answer = "rejected"
  /\ share[w][v].status # "rejected"
  /\ share' = [share EXCEPT ![w][v].status = answer]
  /\ UNCHANGED <<status, link, req>>
-----------------------------------------------------------------------------
Next ==
  \/ \E s \in Sessions, o \in Owners, v \in Viewers :
        InviteCount(s, o, v) \/ Accept(s, o, v) \/ Revoke(s, o, v)
  \/ \E o \in Owners, v \in Viewers : Decline(o, v)
  \/ \E s \in Sessions :
        \/ InviteReopen(s) \/ InviteInsert(s)
        \/ CommitAccept(s) \/ CommitRevoke(s)
        \/ AddPartnerViewerShares(s)
        \/ Fail(s)
  \/ \E s \in Sessions, w \in Wallets : CreateWallet(s, w)
  \/ \E w \in Wallets : CreateGoalWallet(w) \/ DeleteWallet(w)
  \/ \E w \in Wallets, v \in Viewers, role \in Roles : AddMember(w, v, role)
  \/ \E w \in Wallets, v \in Viewers, answer \in {"joined", "rejected"} :
        RespondInvite(w, v, answer)

Spec == Init /\ [][Next]_vars
-----------------------------------------------------------------------------
Joined(w, v) == share[w][v] # NoShare /\ share[w][v].status = "joined"

(* A share never outlives its wallet, although a wallet may be deleted     *)
(* between its creation and the fan-out, or while a link is accepted.      *)
SharesNameOpenWallets ==
  \A w \in Wallets, v \in Viewers : share[w][v] # NoShare => status[w] = "open"

(* Nobody is given access by the owner alone: a share becomes joined when  *)
(* its invitee accepts a pending one, or read-only through a link that its *)
(* viewer has accepted; a declined share stays declined until it is        *)
(* offered again (RespondInvite, Respond, AddPartnerViewerShares).         *)
AccessNeedsConsent ==
  [][\A w \in Wallets, v \in Viewers :
       ~ Joined(w, v) /\ Joined(w, v)' =>
         \/ share[w][v] # NoShare /\ share[w][v].status = "pending"
         \/ /\ share'[w][v] = LinkShare
            /\ "joined" \in {link[Owner[w]][v], link'[Owner[w]][v]}]_vars

(* Revoking a link "removes the auto-granted viewer access"                *)
(* (docs/API_CONTRACT.md:79): a share made by a link needs the link.       *)
LinkSharesHaveLink ==
  \A w \in Wallets, v \in Viewers :
    share[w][v] # NoShare /\ share[w][v].source = "link" => link[Owner[w]][v] # "none"

(* No writer undoes what another one settled.  An invitation that races an *)
(* acceptance never takes it back: neither a joined link nor a joined      *)
(* share becomes pending (the status test of Invite's UPDATE, the CASE of  *)
(* AddMember).  And "manual wallet shares are untouched" by a revocation   *)
(* (docs/API_CONTRACT.md:79): a share that a manual invitation made stays  *)
(* manual as long as its wallet is open, however links to the same viewer  *)
(* are accepted, revoked and made again around it.                         *)
SettledSharesStay ==
  [][/\ \A o \in Owners, v \in Viewers :
          link[o][v] = "joined" => link'[o][v] # "pending"
     /\ \A w \in Wallets, v \in Viewers :
          share[w][v] # NoShare =>
            /\ Joined(w, v) /\ share'[w][v] # NoShare => share'[w][v].status # "pending"
            /\ share[w][v].source = "manual" /\ status'[w] = "open" =>
                 share'[w][v] # NoShare /\ share'[w][v].source = "manual"]_vars

(* "Once accepted, the invited person gets viewer access to all of the     *)
(* owner's wallets, current and any created later"                         *)
(* (docs/API_CONTRACT.md:74): whenever no request is in flight, a joined   *)
(* viewer has a share of every open wallet.  Goal wallets are excepted:    *)
(* createGoalWallet does not fan out.                                      *)
ViewerSeesEveryWallet ==
  (\A s \in Sessions : req[s] = Idle) =>
    \A w \in Wallets \ GoalWallets, v \in Viewers :
      status[w] = "open" /\ link[Owner[w]][v] = "joined" => share[w][v] # NoShare
-----------------------------------------------------------------------------
(* The rest of the inductive invariant.                                    *)

Holding(s) == req[s].kind \in {"accept", "revoke"}

(* One transaction at a time holds a link.                                 *)
OneLinkHolder ==
  \A s, r \in Sessions :
    Holding(s) /\ Holding(r) /\ req[s].owner = req[r].owner /\ req[s].viewer = req[r].viewer
      => s = r

(* The shares that a transaction is about to insert are still missing, and *)
(* those that it is about to delete are still there and made by a link.    *)
HeldSharesAreCurrent ==
  \A s \in Sessions : Holding(s) =>
    \A w \in req[s].rows :
      LET row == share[w][req[s].viewer] IN
      /\ Owner[w] = req[s].owner /\ status[w] = "open"
      /\ req[s].kind = "accept" => row = NoShare
      /\ req[s].kind = "revoke" => row # NoShare /\ row.source = "link"

IInv == TypeOK /\ OneLinkHolder /\ HeldSharesAreCurrent /\ SharesNameOpenWallets
=============================================================================
