---------------------------- MODULE SharingProofs ----------------------------
(***************************************************************************)
(* Proofs about Sharing and MCSharing, for any owners, viewers, wallets    *)
(* and sessions.                                                           *)
(*                                                                         *)
(* The inductive invariant IInv adds to the properties what the locks      *)
(* give: one transaction holds a link (OneLinkHolder), and the shares it   *)
(* is about to write are as it read them (HeldSharesAreCurrent).           *)
(***************************************************************************)
EXTENDS MCSharing, TLAPS

LEMMA ShareParts ==
  /\ NoShare \notin Share
  /\ LinkShare \in Share /\ LinkShare # NoShare
  /\ LinkShare.source = "link" /\ LinkShare.status = "joined"
<1>1. LinkShare \in Share
  BY DEF LinkShare, Share, Statuses, Roles
<1>. QED  BY <1>1, SharingAssumption DEF LinkShare

LEMMA IdleKind == Idle.kind = "none"
BY DEF Idle

(* What is known of a request in flight.                                   *)
LEMMA RequestParts ==
  ASSUME TypeOK, NEW s \in Sessions
  PROVE  /\ req[s].kind = "none" <=> req[s] = Idle
         /\ req[s].kind \in {"reopen", "insert", "accept", "revoke"} =>
              req[s].owner \in Owners /\ req[s].viewer \in Viewers
         /\ Holding(s) => req[s].rows \subseteq Wallets
         /\ req[s].kind = "fan out" => req[s].wallet \in Wallets
<1>1. req[s] \in Request
  BY DEF TypeOK
<1>2. Idle.kind = "none"
  BY IdleKind
<1>3. CASE req[s] \in [kind : {"none"}]
  BY <1>3 DEF Idle, Holding
<1>4. CASE req[s] \in [kind : {"reopen", "insert"}, owner : Owners, viewer : Viewers]
  <2>1. req[s].kind \in {"reopen", "insert"} /\ req[s].owner \in Owners /\ req[s].viewer \in Viewers
    BY <1>4
  <2>. QED  BY <1>2, <2>1 DEF Holding
<1>5. CASE req[s] \in [kind : {"accept", "revoke"}, owner : Owners, viewer : Viewers,
                       rows : SUBSET Wallets]
  <2>1. /\ req[s].kind \in {"accept", "revoke"} /\ req[s].rows \in SUBSET Wallets
        /\ req[s].owner \in Owners /\ req[s].viewer \in Viewers
    BY <1>5
  <2>. QED  BY <1>2, <2>1
<1>6. CASE req[s] \in [kind : {"fan out"}, wallet : Wallets]
  <2>1. req[s].kind = "fan out" /\ req[s].wallet \in Wallets
    BY <1>6
  <2>. QED  BY <1>2, <2>1 DEF Holding
<1>. QED  BY <1>1, <1>3, <1>4, <1>5, <1>6 DEF Request

LEMMA RowParts ==
  ASSUME TypeOK, NEW w \in Wallets, NEW v \in Viewers
  PROVE  share[w][v] # NoShare =>
           /\ share[w][v] \in Share
           /\ share[w][v].status \in Statuses /\ share[w][v].role \in Roles
           /\ share[w][v].source \in {"manual", "link"}
BY DEF TypeOK, Share

LEMMA InitInv == Init => IInv
<1>. SUFFICES ASSUME Init PROVE IInv
  OBVIOUS
<1>1. TypeOK
  BY DEF Init, TypeOK, Request, Idle
<1>2. OneLinkHolder /\ HeldSharesAreCurrent /\ SharesNameOpenWallets
  BY DEF Init, OneLinkHolder, HeldSharesAreCurrent, SharesNameOpenWallets, Holding, Idle
<1>. QED  BY <1>1, <1>2 DEF IInv

(* A step that begins no transaction and changes no held row keeps what    *)
(* the locks give.                                                         *)
LEMMA HoldersStay ==
  ASSUME IInv,
         \A s \in Sessions : Holding(s)' => req'[s] = req[s],
         \A s \in Sessions : Holding(s) /\ Holding(s)' =>
           \A w \in req[s].rows :
             /\ share'[w][req[s].viewer] = share[w][req[s].viewer]
             /\ status[w] = "open" => status'[w] = "open"
  PROVE  OneLinkHolder' /\ HeldSharesAreCurrent'
<1>1. \A s \in Sessions : Holding(s)' => Holding(s)
  BY DEF Holding
<1>2. OneLinkHolder'
  BY <1>1 DEF IInv, OneLinkHolder
<1>3. HeldSharesAreCurrent'
  <2>. SUFFICES ASSUME NEW s \in Sessions, Holding(s)', NEW w \in req'[s].rows
                PROVE  /\ Owner[w] = req'[s].owner /\ status'[w] = "open"
                       /\ req'[s].kind = "accept" => share'[w][req'[s].viewer] = NoShare
                       /\ req'[s].kind = "revoke" =>
                            /\ share'[w][req'[s].viewer] # NoShare
                            /\ share'[w][req'[s].viewer].source = "link"
    BY DEF HeldSharesAreCurrent
  <2>1. Holding(s) /\ req'[s] = req[s]
    BY <1>1
  <2>. QED  BY <2>1 DEF IInv, HeldSharesAreCurrent
<1>. QED  BY <1>2, <1>3

(* A held row is locked.                                                   *)
LEMMA HeldIsLocked ==
  ASSUME IInv, NEW s \in Sessions, Holding(s), NEW w \in req[s].rows
  PROVE  /\ req[s].viewer \in Viewers
         /\ ShareLocked(w, req[s].viewer)
         /\ LinkLocked(req[s].owner, req[s].viewer)
BY RequestParts DEF IInv, Holding, ShareLocked, LinkLocked

(* A step that touches no wallet and no share, and begins no transaction.  *)
LEMMA RowsUntouched ==
  ASSUME IInv, TypeOK', share' = share, status' = status,
         \A s \in Sessions : Holding(s)' => req'[s] = req[s]
  PROVE  IInv'
<1>1. OneLinkHolder' /\ HeldSharesAreCurrent'
  BY HoldersStay
<1>2. SharesNameOpenWallets'
  BY DEF IInv, SharesNameOpenWallets
<1>. QED  BY <1>1, <1>2 DEF IInv

LEMMA InviteCountKeepsInv ==
  ASSUME IInv, NEW s \in Sessions, NEW o \in Owners, NEW v \in Viewers, InviteCount(s, o, v)
  PROVE  IInv'
<1>1. [kind |-> "reopen", owner |-> o, viewer |-> v] \in Request
  BY DEF Request
<1>2. TypeOK'
  BY <1>1 DEF IInv, TypeOK, InviteCount, Begin
<1>3. \A r \in Sessions : Holding(r)' => req'[r] = req[r]
  BY DEF IInv, TypeOK, InviteCount, Begin, Holding
<1>. QED  BY <1>2, <1>3, RowsUntouched DEF InviteCount

(* The request that goes on from the update to the insert.                 *)
LEMMA ReopenToInsert ==
  ASSUME TypeOK, NEW s \in Sessions, req[s].kind = "reopen"
  PROVE  [req[s] EXCEPT !.kind = "insert"]
           = [kind |-> "insert", owner |-> req[s].owner, viewer |-> req[s].viewer]
<1>1. req[s] \in [kind : {"reopen", "insert"}, owner : Owners, viewer : Viewers]
  BY DEF TypeOK, Request
<1>. QED  BY <1>1

LEMMA InviteReopenKeepsInv ==
  ASSUME IInv, NEW s \in Sessions, InviteReopen(s)
  PROVE  IInv'
<1>. DEFINE o == req[s].owner
            v == req[s].viewer
            next == [kind |-> "insert", owner |-> o, viewer |-> v]
<1>1. o \in Owners /\ v \in Viewers
  BY RequestParts DEF IInv, InviteReopen
<1>2. next \in Request /\ Idle \in Request
  BY <1>1 DEF Request, Idle
<1>3. \/ req' = [req EXCEPT ![s] = Idle]
      \/ req' = [req EXCEPT ![s] = next]
  BY ReopenToInsert DEF IInv, TypeOK, InviteReopen, Finish
<1>4. link' \in [Owners -> [Viewers -> Statuses \cup {"none"}]]
  <2>1. link' = [link EXCEPT ![o][v] = "pending"] \/ link' = link
    BY DEF InviteReopen
  <2>2. link \in [Owners -> [Viewers -> Statuses \cup {"none"}]] /\ "pending" \in Statuses
    BY DEF IInv, TypeOK, Statuses
  <2>. QED  BY <1>1, <2>1, <2>2
<1>5. TypeOK'
  BY <1>2, <1>3, <1>4 DEF IInv, TypeOK, InviteReopen
<1>6. \A r \in Sessions : Holding(r)' => req'[r] = req[r]
  BY <1>3 DEF IInv, TypeOK, Holding, Idle
<1>. QED  BY <1>5, <1>6, RowsUntouched DEF InviteReopen

(* A request that ends.                                                    *)
LEMMA FinishParts ==
  ASSUME TypeOK, NEW s \in Sessions, Finish(s)
  PROVE  /\ req' \in [Sessions -> Request]
         /\ req'[s] = Idle
         /\ \A r \in Sessions \ {s} : req'[r] = req[r]
         /\ \A r \in Sessions : Holding(r)' => Holding(r) /\ r # s /\ req'[r] = req[r]
<1>1. Idle \in Request
  BY DEF Idle, Request
<1>2. /\ req' \in [Sessions -> Request]
      /\ req'[s] = Idle
      /\ \A r \in Sessions \ {s} : req'[r] = req[r]
  BY <1>1 DEF TypeOK, Finish
<1>. QED  BY <1>2 DEF Holding, Idle

LEMMA InviteInsertKeepsInv ==
  ASSUME IInv, NEW s \in Sessions, InviteInsert(s)
  PROVE  IInv'
<1>1. req[s].owner \in Owners /\ req[s].viewer \in Viewers
  BY RequestParts DEF IInv, InviteInsert
<1>2. link' \in [Owners -> [Viewers -> Statuses \cup {"none"}]]
  BY <1>1 DEF IInv, TypeOK, InviteInsert, Statuses
<1>3. TypeOK'
  BY <1>2, FinishParts DEF IInv, TypeOK, InviteInsert
<1>. QED  BY <1>3, FinishParts, RowsUntouched DEF IInv, InviteInsert

LEMMA DeclineKeepsInv ==
  ASSUME IInv, NEW o \in Owners, NEW v \in Viewers, Decline(o, v)
  PROVE  IInv'
<1>1. TypeOK'
  BY DEF IInv, TypeOK, Decline, Statuses
<1>. QED  BY <1>1, RowsUntouched DEF Decline

LEMMA FailKeepsInv ==
  ASSUME IInv, NEW s \in Sessions, Fail(s)
  PROVE  IInv'
<1>1. TypeOK'
  BY FinishParts DEF IInv, TypeOK, Fail
<1>. QED  BY <1>1, FinishParts, RowsUntouched DEF IInv, Fail

(* A transaction that begins holds a link nobody holds.                    *)
LEMMA BeginKeepsInv ==
  ASSUME IInv, NEW s \in Sessions, NEW o \in Owners, NEW v \in Viewers,
         NEW kind \in {"accept", "revoke"}, NEW rows \in SUBSET WalletsOf(o),
         ~ LinkLocked(o, v),
         Begin(s, [kind |-> kind, owner |-> o, viewer |-> v, rows |-> rows]),
         \A w \in rows : /\ kind = "accept" => share[w][v] = NoShare
                         /\ kind = "revoke" => share[w][v] # NoShare /\ share[w][v].source = "link",
         UNCHANGED <<status, share, link>>
  PROVE  IInv'
<1>. DEFINE new == [kind |-> kind, owner |-> o, viewer |-> v, rows |-> rows]
<1>1. rows \in SUBSET Wallets /\ \A w \in rows : Owner[w] = o /\ status[w] = "open"
  BY DEF WalletsOf
<1>2. new \in Request
  BY <1>1 DEF Request
<1>3. req' = [req EXCEPT ![s] = new]
  BY DEF Begin
<1>4. req'[s] = new /\ \A r \in Sessions \ {s} : req'[r] = req[r]
  BY <1>3 DEF IInv, TypeOK
<1>5. TypeOK'
  BY <1>2, <1>3 DEF IInv, TypeOK
<1>6. \A r \in Sessions \ {s} : Holding(r)' => Holding(r) /\ ~ (req[r].owner = o /\ req[r].viewer = v)
  BY <1>4 DEF LinkLocked, Holding
<1>7. OneLinkHolder'
  BY <1>4, <1>6 DEF IInv, OneLinkHolder
<1>8. HeldSharesAreCurrent'
  <2>. SUFFICES ASSUME NEW r \in Sessions, Holding(r)', NEW w \in req'[r].rows
                PROVE  /\ Owner[w] = req'[r].owner /\ status[w] = "open"
                       /\ req'[r].kind = "accept" => share[w][req'[r].viewer] = NoShare
                       /\ req'[r].kind = "revoke" =>
                            /\ share[w][req'[r].viewer] # NoShare
                            /\ share[w][req'[r].viewer].source = "link"
    BY DEF HeldSharesAreCurrent
  <2>1. CASE r = s
    BY <2>1, <1>1, <1>4
  <2>2. CASE r # s
    BY <2>2, <1>4, <1>6 DEF IInv, HeldSharesAreCurrent
  <2>. QED  BY <2>1, <2>2
<1>9. SharesNameOpenWallets'
  BY DEF IInv, SharesNameOpenWallets
<1>. QED  BY <1>5, <1>7, <1>8, <1>9 DEF IInv

LEMMA AcceptKeepsInv ==
  ASSUME IInv, NEW s \in Sessions, NEW o \in Owners, NEW v \in Viewers, Accept(s, o, v)
  PROVE  IInv'
<1>. DEFINE rows == {w \in WalletsOf(o) : share[w][v] = NoShare}
<1>1. rows \in SUBSET WalletsOf(o) /\ \A w \in rows : share[w][v] = NoShare
  OBVIOUS
<1>2. Begin(s, [kind |-> "accept", owner |-> o, viewer |-> v, rows |-> rows])
  BY DEF Accept
<1>3. ~ LinkLocked(o, v) /\ UNCHANGED <<status, share, link>>
  BY DEF Accept
<1>. HIDE DEF rows
<1>. QED  BY <1>1, <1>2, <1>3, BeginKeepsInv

LEMMA RevokeKeepsInv ==
  ASSUME IInv, NEW s \in Sessions, NEW o \in Owners, NEW v \in Viewers, Revoke(s, o, v)
  PROVE  IInv'
<1>. DEFINE rows == {w \in WalletsOf(o) : share[w][v] # NoShare /\ share[w][v].source = "link"}
<1>1. /\ rows \in SUBSET WalletsOf(o)
      /\ \A w \in rows : share[w][v] # NoShare /\ share[w][v].source = "link"
  OBVIOUS
<1>2. Begin(s, [kind |-> "revoke", owner |-> o, viewer |-> v, rows |-> rows])
  BY DEF Revoke
<1>3. ~ LinkLocked(o, v) /\ UNCHANGED <<status, share, link>>
  BY DEF Revoke
<1>. HIDE DEF rows
<1>. QED  BY <1>1, <1>2, <1>3, BeginKeepsInv

(* Two transactions that hold the same share hold the same link.           *)
LEMMA HeldOnce ==
  ASSUME IInv, NEW s \in Sessions, NEW r \in Sessions, Holding(s), Holding(r),
         NEW w \in Wallets, w \in req[s].rows, w \in req[r].rows,
         req[s].viewer = req[r].viewer
  PROVE  s = r
BY DEF IInv, OneLinkHolder, HeldSharesAreCurrent

(* The rows that s holds become `new`.                                     *)
Writes(s, new) ==
  share' = [w \in Wallets |->
             IF w \in req[s].rows THEN [share[w] EXCEPT ![req[s].viewer] = new] ELSE share[w]]

LEMMA CommitParts ==
  ASSUME IInv, NEW s \in Sessions, Holding(s), NEW new, Writes(s, new)
  PROVE  /\ req[s].owner \in Owners /\ req[s].viewer \in Viewers
         /\ req[s].rows \subseteq Wallets
         /\ \A w \in Wallets, v \in Viewers :
              share'[w][v] = IF w \in req[s].rows /\ v = req[s].viewer THEN new ELSE share[w][v]
<1>1. /\ req[s].owner \in Owners /\ req[s].viewer \in Viewers
      /\ req[s].rows \subseteq Wallets
  BY RequestParts DEF IInv, Holding
<1>2. share \in [Wallets -> [Viewers -> Share \cup {NoShare}]]
  BY DEF IInv, TypeOK
<1>. QED  BY <1>1, <1>2 DEF Writes

(* A commit changes no row that another transaction holds.                 *)
LEMMA CommitKeepsHeld ==
  ASSUME IInv, NEW s \in Sessions, Holding(s), NEW new, Writes(s, new),
         Finish(s), status' = status
  PROVE  OneLinkHolder' /\ HeldSharesAreCurrent'
<1>1. \A r \in Sessions : Holding(r)' => Holding(r) /\ r # s /\ req'[r] = req[r]
  BY FinishParts DEF IInv
<1>2. ASSUME NEW r \in Sessions, Holding(r), r # s, NEW w \in req[r].rows
      PROVE  share'[w][req[r].viewer] = share[w][req[r].viewer]
  <2>1. req[r].viewer \in Viewers /\ w \in Wallets
    BY <1>2, RequestParts DEF IInv, Holding
  <2>2. ~ (w \in req[s].rows /\ req[r].viewer = req[s].viewer)
    BY <1>2, <2>1, HeldOnce
  <2>. QED  BY <2>1, <2>2, CommitParts
<1>. QED  BY <1>1, <1>2, HoldersStay

LEMMA CommitAcceptKeepsInv ==
  ASSUME IInv, NEW s \in Sessions, CommitAccept(s)
  PROVE  IInv'
<1>1. Holding(s) /\ Finish(s) /\ status' = status
  BY DEF CommitAccept, Holding
<1>. DEFINE o == req[s].owner
            v == req[s].viewer
<1>2. Writes(s, LinkShare)
  BY DEF CommitAccept, Writes
<1>3. o \in Owners /\ v \in Viewers
  BY <1>1, <1>2, CommitParts
<1>4. share' \in [Wallets -> [Viewers -> Share \cup {NoShare}]]
  BY <1>2, <1>3, ShareParts DEF IInv, TypeOK, Writes
<1>5. link' \in [Owners -> [Viewers -> Statuses \cup {"none"}]]
  <2>1. link' = [link EXCEPT ![o][v] = "joined"]
    BY DEF CommitAccept
  <2>. QED  BY <1>3, <2>1 DEF IInv, TypeOK, Statuses
<1>6. TypeOK'
  BY <1>1, <1>4, <1>5, FinishParts DEF IInv, TypeOK
<1>7. OneLinkHolder' /\ HeldSharesAreCurrent'
  BY <1>1, <1>2, CommitKeepsHeld
<1>8. SharesNameOpenWallets'
  <2>1. \A w \in req[s].rows : status[w] = "open"
    BY <1>1 DEF IInv, HeldSharesAreCurrent
  <2>2. \A w \in Wallets, u \in Viewers : share'[w][u] # NoShare =>
          w \in req[s].rows \/ share[w][u] # NoShare
    BY <1>1, <1>2, CommitParts
  <2>. QED  BY <1>1, <2>1, <2>2 DEF IInv, SharesNameOpenWallets
<1>. QED  BY <1>6, <1>7, <1>8 DEF IInv

LEMMA CommitRevokeKeepsInv ==
  ASSUME IInv, NEW s \in Sessions, CommitRevoke(s)
  PROVE  IInv'
<1>1. Holding(s) /\ Finish(s) /\ status' = status
  BY DEF CommitRevoke, Holding
<1>. DEFINE o == req[s].owner
            v == req[s].viewer
<1>2. Writes(s, NoShare)
  BY DEF CommitRevoke, Writes
<1>3. o \in Owners /\ v \in Viewers
  BY <1>1, <1>2, CommitParts
<1>4. share' \in [Wallets -> [Viewers -> Share \cup {NoShare}]]
  BY <1>2, <1>3 DEF IInv, TypeOK, Writes
<1>5. link' \in [Owners -> [Viewers -> Statuses \cup {"none"}]]
  <2>1. link' = [link EXCEPT ![o][v] = "none"]
    BY DEF CommitRevoke
  <2>. QED  BY <1>3, <2>1 DEF IInv, TypeOK
<1>6. TypeOK'
  BY <1>1, <1>4, <1>5, FinishParts DEF IInv, TypeOK
<1>7. OneLinkHolder' /\ HeldSharesAreCurrent'
  BY <1>1, <1>2, CommitKeepsHeld
<1>8. \A w \in Wallets, u \in Viewers : share'[w][u] # NoShare => share[w][u] # NoShare
  BY <1>1, <1>2, CommitParts
<1>9. SharesNameOpenWallets'
  BY <1>1, <1>8 DEF IInv, SharesNameOpenWallets
<1>. QED  BY <1>6, <1>7, <1>9 DEF IInv

(* The fan-out of a wallet gives LinkShare to the viewers of joined links  *)
(* who have no share of it.                                                *)
LEMMA FanOutParts ==
  ASSUME IInv, NEW s \in Sessions, AddPartnerViewerShares(s)
  PROVE  /\ req[s].kind = "fan out" /\ req[s].wallet \in Wallets /\ Owner[req[s].wallet] \in Owners
         /\ Finish(s) /\ status' = status /\ link' = link
         /\ \A v \in Viewers : link[Owner[req[s].wallet]][v] = "joined" =>
              ~ ShareLocked(req[s].wallet, v)
         /\ share' \in [Wallets -> [Viewers -> Share \cup {NoShare}]]
         /\ \A w \in Wallets, v \in Viewers :
              share'[w][v] =
                IF /\ w = req[s].wallet /\ status[w] = "open"
                   /\ link[Owner[w]][v] = "joined" /\ share[w][v] = NoShare
                THEN LinkShare ELSE share[w][v]
<1>1. /\ req[s].kind = "fan out" /\ Finish(s) /\ status' = status /\ link' = link
      /\ \A v \in Viewers : link[Owner[req[s].wallet]][v] = "joined" =>
              ~ ShareLocked(req[s].wallet, v)
  BY DEF AddPartnerViewerShares
<1>2. req[s].wallet \in Wallets
  BY <1>1, RequestParts DEF IInv
<1>3. Owner[req[s].wallet] \in Owners
  BY <1>2, SharingAssumption
<1>. DEFINE row == [v \in Viewers |->
                IF status[req[s].wallet] = "open"
                   /\ v \in {u \in Viewers : link[Owner[req[s].wallet]][u] = "joined"}
                   /\ share[req[s].wallet][v] = NoShare
                THEN LinkShare ELSE share[req[s].wallet][v]]
<1>4. share' = [share EXCEPT ![req[s].wallet] = row]
  BY DEF AddPartnerViewerShares
<1>5. share \in [Wallets -> [Viewers -> Share \cup {NoShare}]]
  BY DEF IInv, TypeOK
<1>6. row \in [Viewers -> Share \cup {NoShare}]
  BY <1>2, <1>5, ShareParts
<1>7. share' \in [Wallets -> [Viewers -> Share \cup {NoShare}]]
  BY <1>2, <1>4, <1>5, <1>6
<1>8. \A w \in Wallets, v \in Viewers :
        share'[w][v] = IF w = req[s].wallet THEN row[v] ELSE share[w][v]
  BY <1>2, <1>4, <1>5
<1>9. ASSUME NEW w \in Wallets, NEW v \in Viewers
      PROVE  share'[w][v] =
               IF /\ w = req[s].wallet /\ status[w] = "open"
                  /\ link[Owner[w]][v] = "joined" /\ share[w][v] = NoShare
               THEN LinkShare ELSE share[w][v]
  <2>1. CASE w = req[s].wallet
    BY <1>8, <2>1
  <2>2. CASE w # req[s].wallet
    BY <1>8, <2>2
  <2>. QED  BY <2>1, <2>2
<1>. HIDE DEF row
<1>. QED  BY <1>1, <1>2, <1>3, <1>7, <1>9

LEMMA FanOutKeepsInv ==
  ASSUME IInv, NEW s \in Sessions, AddPartnerViewerShares(s)
  PROVE  IInv'
<1>1. /\ Finish(s) /\ status' = status /\ link' = link
      /\ share' \in [Wallets -> [Viewers -> Share \cup {NoShare}]]
  BY FanOutParts
<1>2. TypeOK'
  BY <1>1, FinishParts DEF IInv, TypeOK
<1>3. ASSUME NEW r \in Sessions, Holding(r), NEW w \in req[r].rows
      PROVE  share'[w][req[r].viewer] = share[w][req[r].viewer]
  <2>1. w \in Wallets
    BY <1>3, RequestParts DEF IInv
  <2>2. req[r].viewer \in Viewers /\ ShareLocked(w, req[r].viewer)
    BY <1>3, HeldIsLocked
  <2>3. ~ (w = req[s].wallet /\ link[Owner[w]][req[r].viewer] = "joined")
    BY <2>2, FanOutParts
  <2>. QED  BY <2>1, <2>2, <2>3, FanOutParts
<1>4. OneLinkHolder' /\ HeldSharesAreCurrent'
  BY <1>1, <1>3, FinishParts, HoldersStay DEF IInv
<1>5. SharesNameOpenWallets'
  BY <1>1, FanOutParts DEF IInv, SharesNameOpenWallets
<1>. QED  BY <1>2, <1>4, <1>5 DEF IInv

LEMMA CreateWalletKeepsInv ==
  ASSUME IInv, NEW s \in Sessions, NEW w \in Wallets, CreateWallet(s, w)
  PROVE  IInv'
<1>1. [kind |-> "fan out", wallet |-> w] \in Request
  BY DEF Request
<1>2. /\ status' = [status EXCEPT ![w] = "open"] /\ share' = share /\ link' = link
      /\ req' = [req EXCEPT ![s] = [kind |-> "fan out", wallet |-> w]]
  BY DEF CreateWallet, Begin
<1>3. TypeOK'
  BY <1>1, <1>2 DEF IInv, TypeOK
<1>4. \A x \in Wallets : status[x] = "open" => status'[x] = "open"
  BY <1>2 DEF IInv, TypeOK
<1>5. \A r \in Sessions : Holding(r)' => req'[r] = req[r]
  BY <1>2 DEF IInv, TypeOK, Holding
<1>6. \A r \in Sessions : Holding(r) => req[r].rows \subseteq Wallets
  BY RequestParts DEF IInv
<1>7. OneLinkHolder' /\ HeldSharesAreCurrent'
  BY <1>2, <1>4, <1>5, <1>6, HoldersStay
<1>8. SharesNameOpenWallets'
  BY <1>2, <1>4 DEF IInv, SharesNameOpenWallets
<1>. QED  BY <1>3, <1>7, <1>8 DEF IInv

LEMMA CreateGoalWalletKeepsInv ==
  ASSUME IInv, NEW w \in Wallets, CreateGoalWallet(w)
  PROVE  IInv'
<1>1. status' = [status EXCEPT ![w] = "open"] /\ share' = share /\ link' = link /\ req' = req
  BY DEF CreateGoalWallet
<1>2. TypeOK'
  BY <1>1 DEF IInv, TypeOK
<1>3. \A x \in Wallets : status[x] = "open" => status'[x] = "open"
  BY <1>1 DEF IInv, TypeOK
<1>4. \A r \in Sessions : Holding(r) => req[r].rows \subseteq Wallets
  BY RequestParts DEF IInv
<1>5. OneLinkHolder' /\ HeldSharesAreCurrent'
  BY <1>1, <1>3, <1>4, HoldersStay
<1>6. SharesNameOpenWallets'
  BY <1>1, <1>3 DEF IInv, SharesNameOpenWallets
<1>. QED  BY <1>2, <1>5, <1>6 DEF IInv

LEMMA DeleteWalletParts ==
  ASSUME IInv, NEW w \in Wallets, DeleteWallet(w)
  PROVE  /\ req' = req /\ link' = link
         /\ \A x \in Wallets : status'[x] = IF x = w THEN "closed" ELSE status[x]
         /\ \A x \in Wallets, v \in Viewers :
              share'[x][v] = IF x = w THEN NoShare ELSE share[x][v]
<1>1. /\ status' = [status EXCEPT ![w] = "closed"] /\ link' = link /\ req' = req
      /\ share' = [share EXCEPT ![w] = [v \in Viewers |-> NoShare]]
  BY DEF DeleteWallet
<1>. QED  BY <1>1 DEF IInv, TypeOK

LEMMA DeleteWalletKeepsInv ==
  ASSUME IInv, NEW w \in Wallets, DeleteWallet(w)
  PROVE  IInv'
<1>1. TypeOK'
  <2>1. /\ status' = [status EXCEPT ![w] = "closed"] /\ link' = link /\ req' = req
        /\ share' = [share EXCEPT ![w] = [v \in Viewers |-> NoShare]]
    BY DEF DeleteWallet
  <2>. QED  BY <2>1 DEF IInv, TypeOK
<1>2. \A v \in Viewers : ~ ShareLocked(w, v)
  BY DEF DeleteWallet
<1>3. ASSUME NEW r \in Sessions, Holding(r), NEW x \in req[r].rows
      PROVE  /\ share'[x][req[r].viewer] = share[x][req[r].viewer]
             /\ status'[x] = status[x]
  <2>1. x \in Wallets
    BY <1>3, RequestParts DEF IInv
  <2>2. x # w /\ req[r].viewer \in Viewers
    BY <1>2, <1>3, HeldIsLocked
  <2>. QED  BY <2>1, <2>2, DeleteWalletParts
<1>4. OneLinkHolder' /\ HeldSharesAreCurrent'
  BY <1>3, DeleteWalletParts, HoldersStay
<1>5. SharesNameOpenWallets'
  BY DeleteWalletParts DEF IInv, SharesNameOpenWallets
<1>. QED  BY <1>1, <1>4, <1>5 DEF IInv

(* An update of one share of an open wallet that no transaction holds.     *)
LEMMA OneRowKeepsInv ==
  ASSUME IInv, NEW w \in Wallets, NEW v \in Viewers, NEW new \in Share,
         status[w] = "open", ~ ShareLocked(w, v),
         share' = [share EXCEPT ![w][v] = new],
         UNCHANGED <<status, link, req>>
  PROVE  /\ IInv'
         /\ \A x \in Wallets, u \in Viewers :
              share'[x][u] = IF x = w /\ u = v THEN new ELSE share[x][u]
<1>1. TypeOK' /\ \A x \in Wallets, u \in Viewers :
        share'[x][u] = IF x = w /\ u = v THEN new ELSE share[x][u]
  BY DEF IInv, TypeOK
<1>2. ASSUME NEW r \in Sessions, Holding(r), NEW x \in req[r].rows
      PROVE  share'[x][req[r].viewer] = share[x][req[r].viewer]
  <2>1. x \in Wallets
    BY <1>2, RequestParts DEF IInv
  <2>. QED  BY <1>1, <1>2, <2>1, HeldIsLocked
<1>3. OneLinkHolder' /\ HeldSharesAreCurrent'
  BY <1>2, HoldersStay
<1>4. SharesNameOpenWallets'
  BY <1>1 DEF IInv, SharesNameOpenWallets
<1>. QED  BY <1>1, <1>3, <1>4 DEF IInv

(* What the upsert of an invitation leaves.                                *)
LEMMA AddMemberParts ==
  ASSUME IInv, NEW w \in Wallets, NEW v \in Viewers, NEW role \in Roles, AddMember(w, v, role)
  PROVE  \E new \in Share :
           /\ share' = [share EXCEPT ![w][v] = new]
           /\ share[w][v] = NoShare => new.status = "pending" /\ new.source = "manual"
           /\ share[w][v] # NoShare =>
                /\ new.source = share[w][v].source
                /\ new.status = IF share[w][v].status = "joined" THEN "joined" ELSE "pending"
<1>. DEFINE old == share[w][v]
            first == [status |-> "pending", role |-> role, source |-> "manual"]
            again == [status |-> IF old.status = "joined" THEN "joined" ELSE "pending",
                      role |-> role, source |-> old.source]
<1>1. first \in Share
  BY DEF Share, Statuses
<1>2. old # NoShare => old \in Share
  BY RowParts DEF IInv
<1>3. old # NoShare => again \in Share
  BY <1>2 DEF Share, Statuses
<1>6. share' = [share EXCEPT ![w][v] = IF old = NoShare THEN first ELSE again]
  BY DEF AddMember
<1>7. CASE old = NoShare
  <2>1. share' = [share EXCEPT ![w][v] = first]
    BY <1>6, <1>7
  <2>. QED  BY <1>1, <1>7, <2>1
<1>8. CASE old # NoShare
  <2>1. share' = [share EXCEPT ![w][v] = again]
    BY <1>6, <1>8
  <2>. QED  BY <1>3, <1>8, <2>1
<1>. QED  BY <1>7, <1>8

(* What an answer to an invitation leaves.                                 *)
LEMMA RespondInviteParts ==
  ASSUME IInv, NEW w \in Wallets, NEW v \in Viewers, NEW answer \in {"joined", "rejected"},
         RespondInvite(w, v, answer)
  PROVE  \E new \in Share :
           /\ share' = [share EXCEPT ![w][v] = new]
           /\ share[w][v] # NoShare
           /\ new.status = answer /\ new.source = share[w][v].source
           /\ answer = "joined" => share[w][v].status = "pending"
<1>. DEFINE old == share[w][v]
            new == [status |-> answer, role |-> old.role, source |-> old.source]
<1>1. old # NoShare /\ old \in Share
  BY RowParts DEF IInv, RespondInvite
<1>2. new \in Share
  BY <1>1 DEF Share, Statuses
<1>3. [old EXCEPT !.status = answer] = new
  BY <1>1 DEF Share
<1>4. share' = [share EXCEPT ![w][v] = [old EXCEPT !.status = answer]]
  BY DEF RespondInvite, IInv, TypeOK
<1>5. share' = [share EXCEPT ![w][v] = new]
  BY <1>3, <1>4
<1>6. answer = "joined" => old.status = "pending"
  <2>1. old.status \in {"pending", "joined", "rejected"}
    BY <1>1 DEF Share, Statuses
  <2>. QED  BY <2>1 DEF RespondInvite
<1>. QED  BY <1>1, <1>2, <1>5, <1>6

LEMMA AddMemberKeepsInv ==
  ASSUME IInv, NEW w \in Wallets, NEW v \in Viewers, NEW role \in Roles, AddMember(w, v, role)
  PROVE  IInv'
<1>1. PICK new \in Share : share' = [share EXCEPT ![w][v] = new]
  BY AddMemberParts
<1>2. status[w] = "open" /\ ~ ShareLocked(w, v) /\ UNCHANGED <<status, link, req>>
  BY DEF AddMember
<1>. QED  BY <1>1, <1>2, OneRowKeepsInv

LEMMA RespondInviteKeepsInv ==
  ASSUME IInv, NEW w \in Wallets, NEW v \in Viewers, NEW answer \in {"joined", "rejected"},
         RespondInvite(w, v, answer)
  PROVE  IInv'
<1>1. PICK new \in Share : share' = [share EXCEPT ![w][v] = new]
  BY RespondInviteParts
<1>2. status[w] = "open" /\ ~ ShareLocked(w, v) /\ UNCHANGED <<status, link, req>>
  BY DEF RespondInvite
<1>. QED  BY <1>1, <1>2, OneRowKeepsInv

LEMMA StutterKeepsInv == IInv /\ UNCHANGED vars => IInv'
BY DEF IInv, vars, TypeOK, OneLinkHolder, HeldSharesAreCurrent, SharesNameOpenWallets, Holding

LEMMA NextKeepsInv == IInv /\ Next => IInv'
<1>. SUFFICES ASSUME IInv, Next PROVE IInv'
  OBVIOUS
<1>1. CASE \E s \in Sessions, o \in Owners, v \in Viewers :
             InviteCount(s, o, v) \/ Accept(s, o, v) \/ Revoke(s, o, v)
  BY <1>1, InviteCountKeepsInv, AcceptKeepsInv, RevokeKeepsInv
<1>2. CASE \E o \in Owners, v \in Viewers : Decline(o, v)
  BY <1>2, DeclineKeepsInv
<1>3. CASE \E s \in Sessions : InviteReopen(s) \/ InviteInsert(s)
  BY <1>3, InviteReopenKeepsInv, InviteInsertKeepsInv
<1>4. CASE \E s \in Sessions : CommitAccept(s) \/ CommitRevoke(s)
  BY <1>4, CommitAcceptKeepsInv, CommitRevokeKeepsInv
<1>5. CASE \E s \in Sessions : AddPartnerViewerShares(s) \/ Fail(s)
  BY <1>5, FanOutKeepsInv, FailKeepsInv
<1>6. CASE \E s \in Sessions, w \in Wallets : CreateWallet(s, w)
  BY <1>6, CreateWalletKeepsInv
<1>7. CASE \E w \in Wallets : CreateGoalWallet(w) \/ DeleteWallet(w)
  BY <1>7, CreateGoalWalletKeepsInv, DeleteWalletKeepsInv
<1>8. CASE \E w \in Wallets, v \in Viewers, role \in Roles : AddMember(w, v, role)
  BY <1>8, AddMemberKeepsInv
<1>9. CASE \E w \in Wallets, v \in Viewers, answer \in {"joined", "rejected"} :
             RespondInvite(w, v, answer)
  BY <1>9, RespondInviteKeepsInv
<1>. QED  BY <1>1, <1>2, <1>3, <1>4, <1>5, <1>6, <1>7, <1>8, <1>9 DEF Next

LEMMA Invariance == Spec => []IInv
<1>1. IInv /\ [Next]_vars => IInv'
  BY NextKeepsInv, StutterKeepsInv
<1>. QED  BY InitInv, <1>1, PTL DEF Spec

(* Every row of wallet_shares and wallet_share_links, and every request    *)
(* that is served, is well formed.                                         *)
THEOREM SharesWellTyped == Spec => []TypeOK
<1>1. IInv => TypeOK
  BY DEF IInv
<1>. QED  BY Invariance, <1>1, PTL
-----------------------------------------------------------------------------
(* A share that becomes joined was pending, or it is read-only and its     *)
(* link is joined.                                                         *)
LEMMA StepNeedsConsent ==
  ASSUME IInv, Next, NEW w \in Wallets, NEW v \in Viewers, ~ Joined(w, v), Joined(w, v)'
  PROVE  \/ share[w][v] # NoShare /\ share[w][v].status = "pending"
         \/ /\ share'[w][v] = LinkShare
            /\ "joined" \in {link[Owner[w]][v], link'[Owner[w]][v]}
<1>1. share'[w][v] # share[w][v] /\ share'[w][v] # NoShare /\ share'[w][v].status = "joined"
  BY DEF Joined
<1>2. share' # share
  BY <1>1
<1>3. CASE \E s \in Sessions : CommitAccept(s)
  <2>1. PICK s \in Sessions : CommitAccept(s)
    BY <1>3
  <2>2. /\ Holding(s) /\ Writes(s, LinkShare)
        /\ link' = [link EXCEPT ![req[s].owner][req[s].viewer] = "joined"]
    BY <2>1 DEF CommitAccept, Holding, Writes
  <2>3. /\ req[s].owner \in Owners
        /\ share'[w][v] = IF w \in req[s].rows /\ v = req[s].viewer THEN LinkShare ELSE share[w][v]
    BY <2>2, CommitParts
  <2>4. w \in req[s].rows /\ v = req[s].viewer /\ share'[w][v] = LinkShare
    BY <1>1, <2>3
  <2>5. Owner[w] = req[s].owner
    BY <2>2, <2>4 DEF IInv, HeldSharesAreCurrent
  <2>6. link'[Owner[w]][v] = "joined"
    BY <2>2, <2>3, <2>4, <2>5 DEF IInv, TypeOK
  <2>. QED  BY <2>4, <2>6
<1>4. CASE \E s \in Sessions : CommitRevoke(s)
  <2>1. PICK s \in Sessions : CommitRevoke(s)
    BY <1>4
  <2>2. Holding(s) /\ Writes(s, NoShare)
    BY <2>1 DEF CommitRevoke, Holding, Writes
  <2>. QED  BY <1>1, <2>2, CommitParts
<1>5. CASE \E s \in Sessions : AddPartnerViewerShares(s)
  BY <1>1, <1>5, FanOutParts
<1>6. CASE \E x \in Wallets : DeleteWallet(x)
  BY <1>1, <1>6, DeleteWalletParts
<1>7. CASE \E x \in Wallets, u \in Viewers, role \in Roles : AddMember(x, u, role)
  <2>1. PICK x \in Wallets, u \in Viewers, role \in Roles : AddMember(x, u, role)
    BY <1>7
  <2>2. PICK new \in Share :
           /\ share' = [share EXCEPT ![x][u] = new]
           /\ share[x][u] = NoShare => new.status = "pending"
           /\ share[x][u] # NoShare =>
                new.status = IF share[x][u].status = "joined" THEN "joined" ELSE "pending"
    BY <2>1, AddMemberParts
  <2>3. x = w /\ u = v /\ share'[w][v] = new
    BY <1>1, <2>2 DEF IInv, TypeOK
  <2>. QED  BY <1>1, <2>2, <2>3 DEF Joined
<1>8. CASE \E x \in Wallets, u \in Viewers, answer \in {"joined", "rejected"} :
             RespondInvite(x, u, answer)
  <2>1. PICK x \in Wallets, u \in Viewers, answer \in {"joined", "rejected"} :
           RespondInvite(x, u, answer)
    BY <1>8
  <2>2. PICK new \in Share :
           /\ share' = [share EXCEPT ![x][u] = new]
           /\ share[x][u] # NoShare
           /\ new.status = answer
           /\ answer = "joined" => share[x][u].status = "pending"
    BY <2>1, RespondInviteParts
  <2>3. x = w /\ u = v /\ share'[w][v] = new
    BY <1>1, <2>2 DEF IInv, TypeOK
  <2>. QED  BY <1>1, <2>2, <2>3
<1>9. CASE share' = share
  BY <1>2, <1>9
<1>. QED
  BY <1>3, <1>4, <1>5, <1>6, <1>7, <1>8, <1>9
  DEF Next, InviteCount, Accept, Revoke, Decline, InviteReopen, InviteInsert, Fail,
      CreateWallet, CreateGoalWallet

(* Nobody is given access by the owner alone, whatever requests overlap.   *)
THEOREM AccessIsConsented == Spec => AccessNeedsConsent
<1>. DEFINE Step == \A w \in Wallets, v \in Viewers :
       ~ Joined(w, v) /\ Joined(w, v)' =>
         \/ share[w][v] # NoShare /\ share[w][v].status = "pending"
         \/ /\ share'[w][v] = LinkShare
            /\ "joined" \in {link[Owner[w]][v], link'[Owner[w]][v]}
<1>1. IInv /\ [Next]_vars => [Step]_vars
  BY StepNeedsConsent
<1>2. Spec => [][Step]_vars
  <2>. HIDE DEF Step
  <2>. QED  BY Invariance, <1>1, PTL DEF Spec
<1>. QED  BY <1>2 DEF AccessNeedsConsent
-----------------------------------------------------------------------------
(* No step takes a joined link back to pending.                            *)
LEMMA LinkStaysSettled ==
  ASSUME IInv, Next, NEW o \in Owners, NEW v \in Viewers, link[o][v] = "joined"
  PROVE  link'[o][v] # "pending"
<1>1. CASE \E s \in Sessions : InviteReopen(s)
  <2>1. PICK s \in Sessions : InviteReopen(s)
    BY <1>1
  <2>2. req[s].owner \in Owners /\ req[s].viewer \in Viewers
    BY <2>1, RequestParts DEF IInv, InviteReopen
  <2>. QED  BY <2>1, <2>2 DEF IInv, TypeOK, InviteReopen
<1>2. CASE \E s \in Sessions : InviteInsert(s)
  <2>1. PICK s \in Sessions : InviteInsert(s)
    BY <1>2
  <2>2. req[s].owner \in Owners /\ req[s].viewer \in Viewers
    BY <2>1, RequestParts DEF IInv, InviteInsert
  <2>. QED  BY <2>1, <2>2 DEF IInv, TypeOK, InviteInsert
<1>3. CASE \E p \in Owners, u \in Viewers : Decline(p, u)
  BY <1>3 DEF IInv, TypeOK, Decline
<1>4. CASE \E s \in Sessions : CommitAccept(s)
  <2>1. PICK s \in Sessions : CommitAccept(s)
    BY <1>4
  <2>2. req[s].owner \in Owners /\ req[s].viewer \in Viewers
    BY <2>1, RequestParts DEF IInv, CommitAccept
  <2>. QED  BY <2>1, <2>2 DEF IInv, TypeOK, CommitAccept
<1>5. CASE \E s \in Sessions : CommitRevoke(s)
  <2>1. PICK s \in Sessions : CommitRevoke(s)
    BY <1>5
  <2>2. req[s].owner \in Owners /\ req[s].viewer \in Viewers
    BY <2>1, RequestParts DEF IInv, CommitRevoke
  <2>. QED  BY <2>1, <2>2 DEF IInv, TypeOK, CommitRevoke
<1>6. CASE link' = link
  BY <1>6
<1>. QED
  BY <1>1, <1>2, <1>3, <1>4, <1>5, <1>6
  DEF Next, InviteCount, Accept, Revoke, Fail, CreateWallet, CreateGoalWallet, DeleteWallet,
      AddMember, RespondInvite, AddPartnerViewerShares

(* A share that is there, and what a step may do with it.                  *)
Settled(w, v) ==
  /\ share[w][v].status = "joined" /\ share'[w][v] # NoShare => share'[w][v].status # "pending"
  /\ share[w][v].source = "manual" /\ status'[w] = "open" =>
       share'[w][v] # NoShare /\ share'[w][v].source = "manual"

LEMMA ShareStaysSettled ==
  ASSUME IInv, Next, NEW w \in Wallets, NEW v \in Viewers, share[w][v] # NoShare
  PROVE  Settled(w, v)
<1>1. CASE share'[w][v] = share[w][v]
  BY <1>1 DEF Settled
<1>2. CASE \E s \in Sessions : CommitAccept(s)
  <2>1. PICK s \in Sessions : CommitAccept(s)
    BY <1>2
  <2>2. Holding(s) /\ Writes(s, LinkShare) /\ req[s].kind = "accept"
    BY <2>1 DEF CommitAccept, Holding, Writes
  <2>3. ~ (w \in req[s].rows /\ v = req[s].viewer)
    BY <2>2 DEF IInv, HeldSharesAreCurrent
  <2>4. share'[w][v] = share[w][v]
    BY <2>2, <2>3, CommitParts
  <2>. QED  BY <1>1, <2>4
<1>3. CASE \E s \in Sessions : CommitRevoke(s)
  <2>1. PICK s \in Sessions : CommitRevoke(s)
    BY <1>3
  <2>2. Holding(s) /\ Writes(s, NoShare) /\ req[s].kind = "revoke"
    BY <2>1 DEF CommitRevoke, Holding, Writes
  <2>3. CASE w \in req[s].rows /\ v = req[s].viewer
    <3>1. share[w][v].source = "link"
      BY <2>2, <2>3 DEF IInv, HeldSharesAreCurrent
    <3>2. share'[w][v] = NoShare
      BY <2>2, <2>3, CommitParts
    <3>. QED  BY <3>1, <3>2 DEF Settled
  <2>4. CASE ~ (w \in req[s].rows /\ v = req[s].viewer)
    <3>1. share'[w][v] = share[w][v]
      BY <2>2, <2>4, CommitParts
    <3>. QED  BY <1>1, <3>1
  <2>. QED  BY <2>3, <2>4
<1>4. CASE \E s \in Sessions : AddPartnerViewerShares(s)
  BY <1>1, <1>4, FanOutParts
<1>5. CASE \E x \in Wallets : DeleteWallet(x)
  <2>1. PICK x \in Wallets : DeleteWallet(x)
    BY <1>5
  <2>2. CASE x = w
    BY <2>1, <2>2, DeleteWalletParts DEF Settled
  <2>3. CASE x # w
    BY <1>1, <2>1, <2>3, DeleteWalletParts
  <2>. QED  BY <2>2, <2>3
<1>6. CASE \E x \in Wallets, u \in Viewers, role \in Roles : AddMember(x, u, role)
  <2>1. PICK x \in Wallets, u \in Viewers, role \in Roles : AddMember(x, u, role)
    BY <1>6
  <2>2. PICK new \in Share :
           /\ share' = [share EXCEPT ![x][u] = new]
           /\ share[x][u] # NoShare =>
                /\ new.source = share[x][u].source
                /\ new.status = IF share[x][u].status = "joined" THEN "joined" ELSE "pending"
    BY <2>1, AddMemberParts
  <2>3. share'[w][v] = IF w = x /\ v = u THEN new ELSE share[w][v]
    BY <2>2 DEF IInv, TypeOK
  <2>. QED  BY <1>1, <2>2, <2>3, ShareParts DEF Settled
<1>7. CASE \E x \in Wallets, u \in Viewers, answer \in {"joined", "rejected"} :
             RespondInvite(x, u, answer)
  <2>1. PICK x \in Wallets, u \in Viewers, answer \in {"joined", "rejected"} :
           RespondInvite(x, u, answer)
    BY <1>7
  <2>2. PICK new \in Share :
           /\ share' = [share EXCEPT ![x][u] = new]
           /\ new.status = answer /\ new.source = share[x][u].source
    BY <2>1, RespondInviteParts
  <2>3. share'[w][v] = IF w = x /\ v = u THEN new ELSE share[w][v]
    BY <2>2 DEF IInv, TypeOK
  <2>. QED  BY <1>1, <2>2, <2>3, ShareParts DEF Settled
<1>. QED
  BY <1>1, <1>2, <1>3, <1>4, <1>5, <1>6, <1>7
  DEF Next, InviteCount, Accept, Revoke, Decline, InviteReopen, InviteInsert, Fail,
      CreateWallet, CreateGoalWallet

(* No writer undoes what another one settled, whatever requests overlap.   *)
THEOREM SettledStaysSettled == Spec => SettledSharesStay
<1>. DEFINE Step ==
       /\ \A o \in Owners, v \in Viewers :
            link[o][v] = "joined" => link'[o][v] # "pending"
       /\ \A w \in Wallets, v \in Viewers :
            share[w][v] # NoShare =>
              /\ Joined(w, v) /\ share'[w][v] # NoShare => share'[w][v].status # "pending"
              /\ share[w][v].source = "manual" /\ status'[w] = "open" =>
                   share'[w][v] # NoShare /\ share'[w][v].source = "manual"
<1>1. IInv /\ [Next]_vars => [Step]_vars
  BY LinkStaysSettled, ShareStaysSettled DEF Settled, Joined
<1>2. Spec => [][Step]_vars
  <2>. HIDE DEF Step
  <2>. QED  BY Invariance, <1>1, PTL DEF Spec
<1>. QED  BY <1>2 DEF SettledSharesStay
-----------------------------------------------------------------------------
(* What adds up when requests come one at a time.                          *)

(* At most one session is busy after a step without a race.                *)
LEMMA StepAlone ==
  ASSUME MCIInv, MCNext, ~ raced'
  PROVE  /\ ~ raced /\ OneAtATime /\ OneAtATime' /\ LinkSharesHaveLink /\ RevokeTakesAll
         /\ ~ failed' => ~ failed /\ FanOutsReachAll
                           /\ \A s \in Sessions : ~ (req[s].kind = "fan out" /\ Fail(s))
<1>1. /\ ~ raced /\ (~ failed' => ~ failed)
      /\ \A s, r \in Sessions : ~ (s # r /\ req'[s] # Idle /\ req'[r] # Idle)
      /\ ~ failed' => \A s \in Sessions : ~ (req[s].kind = "fan out" /\ Fail(s))
  BY DEF MCNext
<1>2. OneAtATime'
  BY <1>1 DEF OneAtATime
<1>. QED  BY <1>1, <1>2 DEF MCIInv

(* Only an acceptance and a fan-out make shares of a link.                 *)
LEMMA NewLinkShares ==
  ASSUME IInv, Next, NEW w \in Wallets, NEW v \in Viewers,
         share'[w][v] # NoShare, share'[w][v].source = "link"
  PROVE  \/ share[w][v] # NoShare /\ share[w][v].source = "link"
         \/ \E s \in Sessions : CommitAccept(s) \/ AddPartnerViewerShares(s)
<1>1. CASE share'[w][v] = share[w][v]
  BY <1>1
<1>2. CASE \E s \in Sessions : CommitRevoke(s)
  <2>1. PICK s \in Sessions : CommitRevoke(s)
    BY <1>2
  <2>2. Holding(s) /\ Writes(s, NoShare)
    BY <2>1 DEF CommitRevoke, Holding, Writes
  <2>3. share'[w][v] = IF w \in req[s].rows /\ v = req[s].viewer THEN NoShare ELSE share[w][v]
    BY <2>2, CommitParts
  <2>. QED  BY <1>1, <2>3
<1>3. CASE \E x \in Wallets : DeleteWallet(x)
  BY <1>3, DeleteWalletParts
<1>4. CASE \E x \in Wallets, u \in Viewers, role \in Roles : AddMember(x, u, role)
  <2>1. PICK x \in Wallets, u \in Viewers, role \in Roles : AddMember(x, u, role)
    BY <1>4
  <2>2. PICK new \in Share :
           /\ share' = [share EXCEPT ![x][u] = new]
           /\ share[x][u] = NoShare => new.source = "manual"
           /\ share[x][u] # NoShare => new.source = share[x][u].source
    BY <2>1, AddMemberParts
  <2>3. share'[w][v] = IF w = x /\ v = u THEN new ELSE share[w][v]
    BY <2>2 DEF IInv, TypeOK
  <2>. QED  BY <2>2, <2>3
<1>5. CASE \E x \in Wallets, u \in Viewers, answer \in {"joined", "rejected"} :
             RespondInvite(x, u, answer)
  <2>1. PICK x \in Wallets, u \in Viewers, answer \in {"joined", "rejected"} :
           RespondInvite(x, u, answer)
    BY <1>5
  <2>2. PICK new \in Share :
           /\ share' = [share EXCEPT ![x][u] = new] /\ share[x][u] # NoShare
           /\ new.source = share[x][u].source
    BY <2>1, RespondInviteParts
  <2>3. share'[w][v] = IF w = x /\ v = u THEN new ELSE share[w][v]
    BY <2>2 DEF IInv, TypeOK
  <2>. QED  BY <2>2, <2>3
<1>. QED
  BY <1>1, <1>2, <1>3, <1>4, <1>5
  DEF Next, InviteCount, Accept, Revoke, Decline, InviteReopen, InviteInsert, Fail,
      CreateWallet, CreateGoalWallet

(* A share that a link made is new only where its link is joined, and a    *)
(* link goes only with its shares.                                         *)
LEMMA LinkSharesStayLinked ==
  ASSUME IInv, IInv', Next, LinkSharesHaveLink, RevokeTakesAll
  PROVE  LinkSharesHaveLink'
<1>. SUFFICES ASSUME NEW w \in Wallets, NEW v \in Viewers,
                     share'[w][v] # NoShare, share'[w][v].source = "link"
              PROVE  link'[Owner[w]][v] # "none"
  BY DEF LinkSharesHaveLink
<1>. DEFINE o == Owner[w]
<1>0. o \in Owners
  BY SharingAssumption
<1>1. CASE \E s \in Sessions : InviteReopen(s) \/ InviteInsert(s)
  <2>1. PICK s \in Sessions : InviteReopen(s) \/ InviteInsert(s)
    BY <1>1
  <2>2. req[s].owner \in Owners /\ req[s].viewer \in Viewers
    BY <2>1, RequestParts DEF IInv, InviteReopen, InviteInsert
  <2>3. link[o][v] # "none"
    BY <2>1 DEF LinkSharesHaveLink, InviteReopen, InviteInsert
  <2>. QED  BY <1>0, <2>1, <2>2, <2>3 DEF IInv, TypeOK, InviteReopen, InviteInsert
<1>2. CASE \E p \in Owners, u \in Viewers : Decline(p, u)
  <2>1. link[o][v] # "none"
    BY <1>2 DEF LinkSharesHaveLink, Decline
  <2>. QED  BY <1>0, <1>2, <2>1 DEF IInv, TypeOK, Decline
<1>3. CASE \E s \in Sessions : CommitAccept(s)
  <2>1. PICK s \in Sessions : CommitAccept(s)
    BY <1>3
  <2>2. /\ Holding(s) /\ Writes(s, LinkShare)
        /\ link' = [link EXCEPT ![req[s].owner][req[s].viewer] = "joined"]
    BY <2>1 DEF CommitAccept, Holding, Writes
  <2>3. /\ req[s].owner \in Owners /\ req[s].viewer \in Viewers
        /\ share'[w][v] = IF w \in req[s].rows /\ v = req[s].viewer THEN LinkShare ELSE share[w][v]
    BY <2>2, CommitParts
  <2>4. w \in req[s].rows => o = req[s].owner
    BY <2>2 DEF IInv, HeldSharesAreCurrent
  <2>5. \/ o = req[s].owner /\ v = req[s].viewer
        \/ link[o][v] # "none"
    BY <2>3, <2>4 DEF LinkSharesHaveLink
  <2>. QED  BY <1>0, <2>2, <2>3, <2>5 DEF IInv, TypeOK
<1>4. CASE \E s \in Sessions : CommitRevoke(s)
  <2>1. PICK s \in Sessions : CommitRevoke(s)
    BY <1>4
  <2>2. /\ Holding(s) /\ Writes(s, NoShare) /\ req[s].kind = "revoke"
        /\ link' = [link EXCEPT ![req[s].owner][req[s].viewer] = "none"]
    BY <2>1 DEF CommitRevoke, Holding, Writes
  <2>3. /\ req[s].owner \in Owners /\ req[s].viewer \in Viewers
        /\ share'[w][v] = IF w \in req[s].rows /\ v = req[s].viewer THEN NoShare ELSE share[w][v]
    BY <2>2, CommitParts
  <2>4. share'[w][v] = share[w][v] /\ ~ (w \in req[s].rows /\ v = req[s].viewer)
    BY <2>3
  <2>5. ~ (o = req[s].owner /\ v = req[s].viewer)
    BY <2>2, <2>4 DEF RevokeTakesAll
  <2>6. link[o][v] # "none"
    BY <2>4 DEF LinkSharesHaveLink
  <2>. QED  BY <1>0, <2>2, <2>3, <2>5, <2>6 DEF IInv, TypeOK
<1>5. CASE \E s \in Sessions : AddPartnerViewerShares(s)
  BY <1>5, FanOutParts DEF LinkSharesHaveLink
<1>6. CASE link' = link /\ (share[w][v] # NoShare /\ share[w][v].source = "link")
  BY <1>6 DEF LinkSharesHaveLink
<1>7. CASE link' = link /\ ~ \E s \in Sessions : CommitAccept(s) \/ AddPartnerViewerShares(s)
  BY <1>6, <1>7, NewLinkShares
<1>. QED
  BY <1>1, <1>2, <1>3, <1>4, <1>5, <1>7
  DEF Next, InviteCount, Accept, Revoke, Fail, CreateWallet, CreateGoalWallet, DeleteWallet,
      AddMember, RespondInvite

(* A transaction is begun by Accept or Revoke.                             *)
LEMMA HoldersBegin ==
  ASSUME IInv, Next, NEW s \in Sessions, Holding(s)'
  PROVE  \/ req'[s] = req[s]
         \/ \E o \in Owners, v \in Viewers : Accept(s, o, v) \/ Revoke(s, o, v)
<1>1. CASE req'[s] = req[s]
  BY <1>1
<1>2. CASE \E r \in Sessions, o \in Owners, v \in Viewers :
             InviteCount(r, o, v) \/ Accept(r, o, v) \/ Revoke(r, o, v)
  BY <1>2 DEF IInv, TypeOK, InviteCount, Accept, Revoke, Begin, Holding
<1>3. CASE \E r \in Sessions : InviteReopen(r)
  <2>1. PICK r \in Sessions : InviteReopen(r)
    BY <1>3
  <2>2. \/ Finish(r)
        \/ req' = [req EXCEPT ![r] = [kind |-> "insert", owner |-> req[r].owner,
                                      viewer |-> req[r].viewer]]
    BY <2>1, ReopenToInsert DEF IInv, TypeOK, InviteReopen
  <2>. QED  BY <2>2 DEF IInv, TypeOK, Finish, Holding, Idle
<1>4. CASE \E r \in Sessions : Finish(r)
  BY <1>4, FinishParts DEF IInv
<1>5. CASE \E r \in Sessions, w \in Wallets : CreateWallet(r, w)
  <2>1. PICK r \in Sessions, w \in Wallets : CreateWallet(r, w)
    BY <1>5
  <2>2. req' = [req EXCEPT ![r] = [kind |-> "fan out", wallet |-> w]]
    BY <2>1 DEF CreateWallet, Begin
  <2>3. r # s
    BY <2>2 DEF IInv, TypeOK, Holding
  <2>. QED  BY <2>2, <2>3 DEF IInv, TypeOK
<1>6. CASE req' = req
  BY <1>1, <1>6
<1>. QED
  BY <1>2, <1>3, <1>4, <1>5, <1>6
  DEF Next, InviteInsert, CommitAccept, CommitRevoke, AddPartnerViewerShares, Fail, Decline,
      CreateGoalWallet, DeleteWallet, AddMember, RespondInvite

(* No share of the link appears while a revocation holds it, since it is   *)
(* the only request there is.                                              *)
LEMMA RevokeStillTakesAll ==
  ASSUME IInv, IInv', Next, OneAtATime, RevokeTakesAll
  PROVE  RevokeTakesAll'
<1>. SUFFICES ASSUME NEW s \in Sessions, req'[s].kind = "revoke", NEW w \in Wallets,
                     Owner[w] = req'[s].owner,
                     share'[w][req'[s].viewer] # NoShare,
                     share'[w][req'[s].viewer].source = "link"
              PROVE  w \in req'[s].rows
  BY DEF RevokeTakesAll
<1>1. CASE req'[s] = req[s]
  <2>1. Holding(s) /\ req[s].viewer \in Viewers /\ req[s] # Idle
    BY <1>1, RequestParts DEF IInv, Holding, Idle
  <2>2. ASSUME NEW r \in Sessions, CommitAccept(r) \/ AddPartnerViewerShares(r)
        PROVE  FALSE
    <3>1. req[r].kind \in {"accept", "fan out"}
      BY <2>2 DEF CommitAccept, AddPartnerViewerShares
    <3>2. r # s
      BY <1>1, <3>1
    <3>. QED  BY <2>1, <3>1, <3>2, IdleKind DEF OneAtATime
  <2>3. share[w][req[s].viewer] # NoShare /\ share[w][req[s].viewer].source = "link"
    BY <1>1, <2>1, <2>2, NewLinkShares
  <2>. QED  BY <1>1, <2>3 DEF RevokeTakesAll
<1>2. CASE \E o \in Owners, v \in Viewers : Accept(s, o, v)
  BY <1>2 DEF IInv, TypeOK, Accept, Begin
<1>3. CASE \E o \in Owners, v \in Viewers : Revoke(s, o, v)
  <2>1. PICK o \in Owners, v \in Viewers : Revoke(s, o, v)
    BY <1>3
  <2>. DEFINE rows == {x \in WalletsOf(o) : share[x][v] # NoShare /\ share[x][v].source = "link"}
  <2>2. /\ req'[s] = [kind |-> "revoke", owner |-> o, viewer |-> v, rows |-> rows]
        /\ share' = share
    BY <2>1 DEF IInv, TypeOK, Revoke, Begin
  <2>3. share[w][v] # NoShare /\ share[w][v].source = "link" /\ Owner[w] = o
    BY <2>2
  <2>4. w \in WalletsOf(o)
    BY <2>3 DEF IInv, SharesNameOpenWallets, WalletsOf
  <2>. QED  BY <2>2, <2>3, <2>4
<1>. QED  BY <1>1, <1>2, <1>3, HoldersBegin DEF Holding

(* The viewers of the joined links of a wallet have a share of it, and an  *)
(* acceptance gives its viewer one.                                        *)
Reaches(w) ==
  /\ \A v \in Viewers : link[Owner[w]][v] = "joined" => share[w][v] # NoShare
  /\ \A s \in Sessions : req[s].kind = "accept" /\ req[s].owner = Owner[w] =>
       share[w][req[s].viewer] # NoShare \/ w \in req[s].rows

LEMMA StaysReached ==
  ASSUME IInv, NEW w \in Wallets, Reaches(w),
         \A v \in Viewers : link'[Owner[w]][v] = "joined" => link[Owner[w]][v] = "joined",
         \A v \in Viewers : share[w][v] # NoShare => share'[w][v] # NoShare,
         \A s \in Sessions : req'[s].kind = "accept" => req'[s] = req[s]
  PROVE  Reaches(w)'
<1>1. \A s \in Sessions : req[s].kind = "accept" => req[s].viewer \in Viewers
  BY RequestParts DEF IInv
<1>. QED  BY <1>1 DEF Reaches

(* A wallet stays fanned out to until its fan-out ends.                    *)
LEMMA FansOutStill ==
  ASSUME IInv, Next, NEW w \in Wallets, FanningOut(w), ~ FanningOut(w)'
  PROVE  \/ \E s \in Sessions : AddPartnerViewerShares(s) /\ req[s].wallet = w
         \/ \E s \in Sessions : req[s].kind = "fan out" /\ Fail(s)
<1>1. PICK s \in Sessions : req[s].kind = "fan out" /\ req[s].wallet = w
  BY DEF FanningOut
<1>2. req'[s] # req[s]
  BY <1>1 DEF FanningOut
<1>3. req[s] # Idle
  BY <1>1, IdleKind
<1>4. ASSUME NEW r \in Sessions, NEW new, Begin(r, new)
      PROVE  FALSE
  BY <1>2, <1>3, <1>4 DEF IInv, TypeOK, Begin
<1>5. ASSUME NEW r \in Sessions, InviteReopen(r)
      PROVE  FALSE
  <2>1. r # s
    BY <1>1, <1>5 DEF InviteReopen
  <2>2. req'[s] = req[s]
    BY <1>5, <2>1 DEF IInv, TypeOK, InviteReopen, Finish
  <2>. QED  BY <1>2, <2>2
<1>6. ASSUME NEW r \in Sessions, InviteInsert(r) \/ CommitAccept(r) \/ CommitRevoke(r)
      PROVE  FALSE
  <2>1. r # s /\ Finish(r)
    BY <1>1, <1>6 DEF InviteInsert, CommitAccept, CommitRevoke
  <2>. QED  BY <1>2, <2>1, FinishParts DEF IInv
<1>7. ASSUME NEW r \in Sessions, AddPartnerViewerShares(r) \/ Fail(r)
      PROVE  r = s
  BY <1>2, <1>7, FinishParts DEF IInv, AddPartnerViewerShares, Fail
<1>. QED
  BY <1>1, <1>2, <1>4, <1>5, <1>6, <1>7
  DEF Next, InviteCount, Accept, Revoke, CreateWallet, Decline, CreateGoalWallet, DeleteWallet,
      AddMember, RespondInvite

LEMMA AcceptReaches ==
  ASSUME IInv, NEW s \in Sessions, NEW o \in Owners, NEW v \in Viewers, Accept(s, o, v),
         NEW w \in Wallets, status[w] = "open", Reaches(w)
  PROVE  Reaches(w)'
<1>. DEFINE rows == {x \in WalletsOf(o) : share[x][v] = NoShare}
<1>1. /\ req' = [req EXCEPT ![s] = [kind |-> "accept", owner |-> o, viewer |-> v, rows |-> rows]]
      /\ share' = share /\ link' = link
  BY DEF Accept, Begin
<1>2. Owner[w] = o => share[w][v] # NoShare \/ w \in rows
  BY DEF WalletsOf
<1>3. ASSUME NEW r \in Sessions, req'[r].kind = "accept", req'[r].owner = Owner[w]
      PROVE  share[w][req'[r].viewer] # NoShare \/ w \in req'[r].rows
  <2>1. CASE r = s
    <3>1. req'[r] = [kind |-> "accept", owner |-> o, viewer |-> v, rows |-> rows]
      BY <1>1, <2>1 DEF IInv, TypeOK
    <3>. HIDE DEF rows
    <3>. QED  BY <1>2, <1>3, <3>1
  <2>2. CASE r # s
    <3>1. req'[r] = req[r]
      BY <1>1, <2>2 DEF IInv, TypeOK
    <3>. QED  BY <1>3, <3>1 DEF Reaches
  <2>. QED  BY <2>1, <2>2
<1>. QED  BY <1>1, <1>3 DEF Reaches

(* While one request is in flight there is no other.                       *)
LEMMA NoOther ==
  ASSUME OneAtATime, NEW s \in Sessions, req[s] # Idle
  PROVE  \A r \in Sessions : r # s => req[r] = Idle /\ req[r].kind = "none"
BY DEF OneAtATime, Idle

LEMMA CommitAcceptReaches ==
  ASSUME IInv, OneAtATime, NEW s \in Sessions, CommitAccept(s),
         NEW w \in Wallets, Reaches(w)
  PROVE  Reaches(w)'
<1>1. /\ Holding(s) /\ Writes(s, LinkShare) /\ req[s].kind = "accept" /\ Finish(s)
      /\ link' = [link EXCEPT ![req[s].owner][req[s].viewer] = "joined"]
  BY DEF CommitAccept, Holding, Writes
<1>2. /\ req[s].owner \in Owners /\ req[s].viewer \in Viewers
      /\ \A v \in Viewers :
           share'[w][v] = IF w \in req[s].rows /\ v = req[s].viewer THEN LinkShare ELSE share[w][v]
  BY <1>1, CommitParts
<1>3. ASSUME NEW r \in Sessions PROVE req'[r].kind # "accept"
  <2>1. req[s] # Idle
    BY <1>1, IdleKind
  <2>2. req'[r].kind = "none"
    BY <1>1, <2>1, IdleKind, NoOther, FinishParts DEF IInv
  <2>. QED  BY <2>2
<1>4. ASSUME NEW v \in Viewers, link'[Owner[w]][v] = "joined" PROVE share'[w][v] # NoShare
  <2>1. Owner[w] \in Owners
    BY SharingAssumption
  <2>2. CASE Owner[w] = req[s].owner /\ v = req[s].viewer
    BY <1>1, <1>2, <2>2, ShareParts DEF Reaches
  <2>3. CASE ~ (Owner[w] = req[s].owner /\ v = req[s].viewer)
    <3>1. link[Owner[w]][v] = "joined"
      BY <1>1, <1>2, <1>4, <2>1, <2>3 DEF IInv, TypeOK
    <3>. QED  BY <1>2, <3>1, ShareParts DEF Reaches
  <2>. QED  BY <2>2, <2>3
<1>. QED  BY <1>3, <1>4 DEF Reaches

LEMMA CommitRevokeReaches ==
  ASSUME IInv, OneAtATime, NEW s \in Sessions, CommitRevoke(s),
         NEW w \in Wallets, Reaches(w)
  PROVE  Reaches(w)'
<1>1. /\ Holding(s) /\ Writes(s, NoShare) /\ req[s].kind = "revoke" /\ Finish(s)
      /\ link' = [link EXCEPT ![req[s].owner][req[s].viewer] = "none"]
  BY DEF CommitRevoke, Holding, Writes
<1>2. /\ req[s].owner \in Owners /\ req[s].viewer \in Viewers
      /\ \A v \in Viewers :
           share'[w][v] = IF w \in req[s].rows /\ v = req[s].viewer THEN NoShare ELSE share[w][v]
  BY <1>1, CommitParts
<1>3. ASSUME NEW r \in Sessions PROVE req'[r].kind # "accept"
  <2>1. req[s] # Idle
    BY <1>1, IdleKind
  <2>2. req'[r].kind = "none"
    BY <1>1, <2>1, IdleKind, NoOther, FinishParts DEF IInv
  <2>. QED  BY <2>2
<1>4. ASSUME NEW v \in Viewers, link'[Owner[w]][v] = "joined" PROVE share'[w][v] # NoShare
  <2>1. Owner[w] \in Owners
    BY SharingAssumption
  <2>2. ~ (Owner[w] = req[s].owner /\ v = req[s].viewer)
    BY <1>1, <1>2, <1>4, <2>1 DEF IInv, TypeOK
  <2>3. link[Owner[w]][v] = "joined"
    BY <1>1, <1>2, <1>4, <2>1, <2>2 DEF IInv, TypeOK
  <2>4. w \in req[s].rows => Owner[w] = req[s].owner
    BY <1>1 DEF IInv, HeldSharesAreCurrent
  <2>5. share'[w][v] = share[w][v]
    BY <1>2, <2>2, <2>4
  <2>. QED  BY <2>3, <2>5 DEF Reaches
<1>. QED  BY <1>3, <1>4 DEF Reaches

LEMMA FanOutReaches ==
  ASSUME IInv, OneAtATime, NEW s \in Sessions, AddPartnerViewerShares(s),
         NEW w \in Wallets, status[w] = "open",
         w = req[s].wallet \/ Reaches(w)
  PROVE  Reaches(w)'
<1>1. req[s].kind = "fan out" /\ Finish(s) /\ link' = link
  BY FanOutParts
<1>2. ASSUME NEW r \in Sessions PROVE req'[r].kind # "accept"
  <2>1. req[s] # Idle
    BY <1>1, IdleKind
  <2>2. req'[r].kind = "none"
    BY <1>1, <2>1, IdleKind, NoOther, FinishParts DEF IInv
  <2>. QED  BY <2>2
<1>3. ASSUME NEW v \in Viewers, link[Owner[w]][v] = "joined" PROVE share'[w][v] # NoShare
  <2>1. share'[w][v] =
          IF /\ w = req[s].wallet /\ status[w] = "open"
             /\ link[Owner[w]][v] = "joined" /\ share[w][v] = NoShare
          THEN LinkShare ELSE share[w][v]
    BY FanOutParts
  <2>. QED  BY <1>3, <2>1, ShareParts DEF Reaches
<1>. QED  BY <1>1, <1>2, <1>3 DEF Reaches

(* A link is joined by a commit, and a share goes with a commit or with    *)
(* its wallet.                                                             *)
LEMMA JoinedByAccept ==
  ASSUME IInv, Next, NEW o \in Owners, NEW v \in Viewers,
         link'[o][v] = "joined", link[o][v] # "joined"
  PROVE  \E s \in Sessions : CommitAccept(s)
<1>1. CASE \E s \in Sessions : InviteReopen(s) \/ InviteInsert(s)
  <2>1. PICK s \in Sessions : InviteReopen(s) \/ InviteInsert(s)
    BY <1>1
  <2>2. req[s].owner \in Owners /\ req[s].viewer \in Viewers
    BY <2>1, RequestParts DEF IInv, InviteReopen, InviteInsert
  <2>. QED  BY <2>1, <2>2 DEF IInv, TypeOK, InviteReopen, InviteInsert
<1>2. CASE \E p \in Owners, u \in Viewers : Decline(p, u)
  BY <1>2 DEF IInv, TypeOK, Decline
<1>3. CASE \E s \in Sessions : CommitRevoke(s)
  <2>1. PICK s \in Sessions : CommitRevoke(s)
    BY <1>3
  <2>2. req[s].owner \in Owners /\ req[s].viewer \in Viewers
    BY <2>1, RequestParts DEF IInv, CommitRevoke
  <2>. QED  BY <2>1, <2>2 DEF IInv, TypeOK, CommitRevoke
<1>. QED
  BY <1>1, <1>2, <1>3
  DEF Next, InviteCount, Accept, Revoke, Fail, CreateWallet, CreateGoalWallet, DeleteWallet,
      AddMember, RespondInvite, AddPartnerViewerShares

LEMMA SharesRemain ==
  ASSUME IInv, Next, NEW w \in Wallets, status'[w] = "open",
         NEW v \in Viewers, share[w][v] # NoShare, \A s \in Sessions : ~ CommitRevoke(s)
  PROVE  share'[w][v] # NoShare
<1>1. CASE \E s \in Sessions : CommitAccept(s)
  <2>1. PICK s \in Sessions : CommitAccept(s)
    BY <1>1
  <2>2. Holding(s) /\ Writes(s, LinkShare)
    BY <2>1 DEF CommitAccept, Holding, Writes
  <2>3. share'[w][v] = IF w \in req[s].rows /\ v = req[s].viewer THEN LinkShare ELSE share[w][v]
    BY <2>2, CommitParts
  <2>. QED  BY <2>3, ShareParts
<1>2. CASE \E s \in Sessions : AddPartnerViewerShares(s)
  BY <1>2, FanOutParts
<1>3. CASE \E x \in Wallets : DeleteWallet(x)
  BY <1>3, DeleteWalletParts
<1>4. CASE \E x \in Wallets, u \in Viewers, role \in Roles : AddMember(x, u, role)
  <2>1. PICK x \in Wallets, u \in Viewers, role \in Roles : AddMember(x, u, role)
    BY <1>4
  <2>2. PICK new \in Share : share' = [share EXCEPT ![x][u] = new]
    BY <2>1, AddMemberParts
  <2>. QED  BY <2>2, ShareParts DEF IInv, TypeOK
<1>5. CASE \E x \in Wallets, u \in Viewers, answer \in {"joined", "rejected"} :
             RespondInvite(x, u, answer)
  <2>1. PICK x \in Wallets, u \in Viewers, answer \in {"joined", "rejected"} :
           RespondInvite(x, u, answer)
    BY <1>5
  <2>2. PICK new \in Share : share' = [share EXCEPT ![x][u] = new]
    BY <2>1, RespondInviteParts
  <2>. QED  BY <2>2, ShareParts DEF IInv, TypeOK
<1>6. CASE share' = share
  BY <1>6
<1>. QED
  BY <1>1, <1>2, <1>3, <1>4, <1>5, <1>6
  DEF Next, InviteCount, Accept, Revoke, Decline, InviteReopen, InviteInsert, Fail,
      CreateWallet, CreateGoalWallet

LEMMA StillReachesAll ==
  ASSUME IInv, Next, OneAtATime, FanOutsReachAll,
         \A s \in Sessions : ~ (req[s].kind = "fan out" /\ Fail(s))
  PROVE  FanOutsReachAll'
<1>. SUFFICES ASSUME NEW w \in Wallets \ GoalWallets, status'[w] = "open", ~ FanningOut(w)'
              PROVE  Reaches(w)'
  BY DEF FanOutsReachAll, Reaches
<1>1. CASE \E s \in Sessions, x \in Wallets : CreateWallet(s, x) /\ x = w
  <2>1. PICK s \in Sessions : CreateWallet(s, w)
    BY <1>1
  <2>2. req'[s].kind = "fan out" /\ req'[s].wallet = w
    BY <2>1 DEF IInv, TypeOK, CreateWallet, Begin
  <2>. QED  BY <2>2 DEF FanningOut
<1>2. CASE status[w] = "open"
  <2>1. FanningOut(w) => \E s \in Sessions : AddPartnerViewerShares(s) /\ req[s].wallet = w
    BY FansOutStill
  <2>2. ~ FanningOut(w) => Reaches(w)
    BY <1>2 DEF FanOutsReachAll, Reaches
  <2>3. ASSUME NEW s \in Sessions, AddPartnerViewerShares(s)
        PROVE  Reaches(w)'
    <3>1. CASE req[s].wallet = w
      BY <1>2, <2>3, <3>1, FanOutReaches
    <3>2. CASE req[s].wallet # w
      <4>1. ~ FanningOut(w)
        <5>1. ASSUME NEW r \in Sessions, req[r].kind = "fan out", req[r].wallet = w
              PROVE  FALSE
          <6>1. r # s /\ req[r] # Idle
            BY <3>2, <5>1, IdleKind
          <6>2. req[s] # Idle
            BY <2>3, IdleKind DEF AddPartnerViewerShares
          <6>. QED  BY <6>1, <6>2 DEF OneAtATime
        <5>. QED  BY <5>1 DEF FanningOut
      <4>. QED  BY <1>2, <2>2, <2>3, <4>1, FanOutReaches
    <3>. QED  BY <3>1, <3>2
  <2>. SUFFICES ASSUME Reaches(w), \A s \in Sessions : ~ AddPartnerViewerShares(s)
                PROVE  Reaches(w)'
    BY <2>1, <2>2, <2>3
  <2>4. CASE \E s \in Sessions, o \in Owners, v \in Viewers : Accept(s, o, v)
    BY <1>2, <2>4, AcceptReaches
  <2>5. CASE \E s \in Sessions : CommitAccept(s)
    BY <2>5, CommitAcceptReaches
  <2>6. CASE \E s \in Sessions : CommitRevoke(s)
    BY <2>6, CommitRevokeReaches
  <2>7. SUFFICES ASSUME \A s \in Sessions : ~ CommitAccept(s) /\ ~ CommitRevoke(s),
                        \A s \in Sessions, o \in Owners, v \in Viewers : ~ Accept(s, o, v)
                 PROVE  Reaches(w)'
    BY <2>4, <2>5, <2>6
  <2>8. \A s \in Sessions : req'[s].kind = "accept" => req'[s] = req[s]
    <3>1. ASSUME NEW s \in Sessions, NEW o \in Owners, NEW v \in Viewers, Revoke(s, o, v)
          PROVE  req'[s].kind = "revoke"
      <4>. DEFINE new == [kind |-> "revoke", owner |-> o, viewer |-> v,
                          rows |-> {x \in WalletsOf(o) :
                                      share[x][v] # NoShare /\ share[x][v].source = "link"}]
      <4>1. req' = [req EXCEPT ![s] = new]
        BY <3>1 DEF Revoke, Begin
      <4>2. new.kind = "revoke"
        OBVIOUS
      <4>. HIDE DEF new
      <4>. QED  BY <4>1, <4>2 DEF IInv, TypeOK
    <3>2. ASSUME NEW s \in Sessions, req'[s].kind = "accept"
          PROVE  req'[s] = req[s]
      <4>1. Holding(s)'
        BY <3>2 DEF Holding
      <4>2. \A o \in Owners, v \in Viewers : ~ Revoke(s, o, v)
        BY <3>1, <3>2
      <4>. QED  BY <2>7, <4>1, <4>2, HoldersBegin
    <3>. QED  BY <3>2
  <2>9. \A v \in Viewers : link'[Owner[w]][v] = "joined" => link[Owner[w]][v] = "joined"
    <3>1. Owner[w] \in Owners
      BY SharingAssumption
    <3>. QED  BY <2>7, <3>1, JoinedByAccept
  <2>10. \A v \in Viewers : share[w][v] # NoShare => share'[w][v] # NoShare
    BY <2>7, SharesRemain
  <2>. QED  BY <2>8, <2>9, <2>10, StaysReached
<1>3. CASE status[w] # "open" /\ ~ \E s \in Sessions, x \in Wallets : CreateWallet(s, x) /\ x = w
  <2>1. status' # status
    BY <1>3
  <2>2. CASE \E s \in Sessions, x \in Wallets : CreateWallet(s, x)
    BY <1>3, <2>2 DEF IInv, TypeOK, CreateWallet
  <2>3. CASE \E x \in Wallets : CreateGoalWallet(x)
    BY <1>3, <2>3 DEF IInv, TypeOK, CreateGoalWallet
  <2>4. CASE \E x \in Wallets : DeleteWallet(x)
    BY <1>3, <2>4, DeleteWalletParts
  <2>. QED
    BY <2>1, <2>2, <2>3, <2>4
    DEF Next, InviteCount, Accept, Revoke, Decline, InviteReopen, InviteInsert, CommitAccept,
        CommitRevoke, AddPartnerViewerShares, Fail, AddMember, RespondInvite
<1>. QED  BY <1>1, <1>2, <1>3

LEMMA MCInitInv == MCInit => MCIInv
<1>. SUFFICES ASSUME MCInit PROVE MCIInv
  OBVIOUS
<1>1. IInv /\ \A s \in Sessions : req[s].kind = "none" /\ req[s] = Idle
  BY InitInv, IdleKind DEF MCInit, Init
<1>2. OneAtATime /\ RevokeTakesAll
  BY <1>1 DEF OneAtATime, RevokeTakesAll
<1>3. LinkSharesHaveLink
  BY DEF MCInit, Init, LinkSharesHaveLink
<1>4. FanOutsReachAll
  BY DEF MCInit, Init, FanOutsReachAll
<1>. QED  BY <1>1, <1>2, <1>3, <1>4 DEF MCIInv

LEMMA MCNextKeepsInv == MCIInv /\ MCNext => MCIInv'
<1>. SUFFICES ASSUME MCIInv, MCNext PROVE MCIInv'
  OBVIOUS
<1>1. IInv /\ Next /\ IInv'
  BY NextKeepsInv DEF MCIInv, MCNext
<1>2. ~ raced' => OneAtATime' /\ LinkSharesHaveLink' /\ RevokeTakesAll'
  BY <1>1, StepAlone, LinkSharesStayLinked, RevokeStillTakesAll
<1>3. ~ raced' /\ ~ failed' => FanOutsReachAll'
  BY <1>1, StepAlone, StillReachesAll
<1>. QED  BY <1>1, <1>2, <1>3 DEF MCIInv

LEMMA MCStutterKeepsInv == MCIInv /\ UNCHANGED <<vars, raced, failed>> => MCIInv'
<1>. SUFFICES ASSUME MCIInv, UNCHANGED <<vars, raced, failed>> PROVE MCIInv'
  OBVIOUS
<1>1. IInv'
  BY StutterKeepsInv DEF MCIInv
<1>2. UNCHANGED <<status, share, link, req, raced, failed>>
  BY DEF vars
<1>3. /\ OneAtATime' <=> OneAtATime
      /\ LinkSharesHaveLink' <=> LinkSharesHaveLink
      /\ RevokeTakesAll' <=> RevokeTakesAll
  BY <1>2 DEF OneAtATime, LinkSharesHaveLink, RevokeTakesAll
<1>4. \A w \in Wallets : FanningOut(w)' <=> FanningOut(w)
  BY <1>2 DEF FanningOut
<1>5. FanOutsReachAll' <=> FanOutsReachAll
  BY <1>2, <1>4 DEF FanOutsReachAll
<1>. QED  BY <1>1, <1>2, <1>3, <1>5 DEF MCIInv

LEMMA MCInvariance == MCSpec => []MCIInv
<1>1. MCIInv /\ [MCNext]_<<vars, raced, failed>> => MCIInv'
  BY MCNextKeepsInv, MCStutterKeepsInv
<1>. QED  BY MCInitInv, <1>1, PTL DEF MCSpec

(* No share outlives its wallet, and with requests one at a time none      *)
(* outlives the link it was made for.                                      *)
THEOREM SharesAreGrounded == MCSpec => []SharesHaveGrounds
<1>1. MCIInv => SharesHaveGrounds
  BY DEF MCIInv, IInv, SharesHaveGrounds
<1>. QED  BY MCInvariance, <1>1, PTL

(* With requests one at a time, none of which lost its fan-out, a viewer   *)
(* whose link is joined sees every ordinary wallet of the owner.           *)
THEOREM ViewersSeeAll == MCSpec => []ViewerSeesEveryWalletAlone
<1>1. MCIInv => ViewerSeesEveryWalletAlone
  <2>. SUFFICES ASSUME MCIInv, ~ raced, ~ failed, \A s \in Sessions : req[s] = Idle,
                       NEW w \in Wallets \ GoalWallets, NEW v \in Viewers,
                       status[w] = "open", link[Owner[w]][v] = "joined"
                PROVE  share[w][v] # NoShare
    BY DEF ViewerSeesEveryWalletAlone, ViewerSeesEveryWallet
  <2>1. ~ FanningOut(w)
    BY IdleKind DEF FanningOut
  <2>. QED  BY <2>1 DEF MCIInv, FanOutsReachAll
<1>. QED  BY MCInvariance, <1>1, PTL
=============================================================================
