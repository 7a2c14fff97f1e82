-------------------------- MODULE TransactionStore --------------------------
(***************************************************************************)
(* The transaction repository and use case (internal/transaction) as it    *)
(* runs: concurrent requests, each in one READ COMMITTED database          *)
(* transaction that locks the rows it writes one statement at a time.      *)
(*                                                                         *)
(* A session s is one request.  Its uncommitted wallet balances are in     *)
(* pending[s]; a wallet is row-locked by the session that has a pending    *)
(* value for it.  The new row, its tags and COMMIT are one step: nobody    *)
(* sees a row before its transaction commits.                              *)
(*                                                                         *)
(* Categories and tags are abstracted: a missing one makes ensureRefs fail *)
(* and the request roll back, which Abort does at any point.               *)
(***************************************************************************)
EXTENDS Deltas, FiniteSetsExt

CONSTANTS Users, Wallets, Entries, Inputs, OpeningBalances, NoEntry,
          Sessions,
          Owner,       \* [Wallets -> Users], wallets.user_id
          Unwritten,   \* pending[s][w] of a wallet s has not updated
          NoOp         \* op[s] of a session that serves nothing

Entry == [user : Users, input : Inputs]

ASSUME StoreAssumption ==
  /\ NoWallet \notin Wallets
  /\ Inputs \subseteq {in \in InputRecord(Wallets) : ValidInput(in)}
  /\ Inputs # {}
  /\ OpeningBalances \subseteq -Half .. Half - 1
  /\ NoEntry \notin Entry
  /\ Owner \in [Wallets -> Users]
  /\ Unwritten \notin Int

Kinds == {"create", "update", "delete"}
Op == [kind : Kinds, user : Users, entry : Entries, input : Inputs,
       old : Entry \cup {NoEntry}]

ASSUME NoOpAssumption == NoOp \notin Op

VARIABLES
  status,    \* of a wallet: "unborn", "open" or "closed"
  opening,   \* the balance a wallet was created with
  balance,   \* committed wallets.balance_minor
  journal,   \* committed rows of transactions
  members,   \* [Wallets -> SUBSET Users]: joined shares with role 'member'
  pc,        \* where the request of a session is
  op,        \* what it was asked, and the row its SELECT FOR UPDATE returned
  idx,       \* the next delta of applyDeltas
  waiting,   \* its UPDATE wallets has been issued and waits for the row
  pending    \* the balances it has written and not committed

books == <<status, opening, balance, journal>>
work  == <<pc, op, idx, waiting, pending>>
vars  == <<status, opening, balance, journal, members, pc, op, idx, waiting, pending>>

Minor == -Half .. Half - 1   \* what a bigint column can hold

PCs == {"idle", "lock", "reverse", "refs", "apply", "write"}

TypeOK ==
  /\ status  \in [Wallets -> {"unborn", "open", "closed"}]
  /\ opening \in [Wallets -> Minor]
  /\ balance \in [Wallets -> Minor]
  /\ journal \in [Entries -> Entry \cup {NoEntry}]
  /\ members \in [Wallets -> SUBSET Users]
  /\ pc      \in [Sessions -> PCs]
  /\ op      \in [Sessions -> Op \cup {NoOp}]
  /\ idx     \in [Sessions -> 1 .. 3]
  /\ waiting \in [Sessions -> BOOLEAN]
  /\ pending \in [Sessions -> [Wallets -> Minor \cup {Unwritten}]]

Clean == [w \in Wallets |-> Unwritten]

Init ==
  /\ status  = [w \in Wallets |-> "unborn"]
  /\ opening = [w \in Wallets |-> 0]
  /\ balance = [w \in Wallets |-> 0]
  /\ journal = [t \in Entries |-> NoEntry]
  /\ members = [w \in Wallets |-> {}]
  /\ pc      = [s \in Sessions |-> "idle"]
  /\ op      = [s \in Sessions |-> NoOp]
  /\ idx     = [s \in Sessions |-> 1]
  /\ waiting = [s \in Sessions |-> FALSE]
  /\ pending = [s \in Sessions |-> Clean]
-----------------------------------------------------------------------------
(* The wallet predicate shared by GetAccessLevel, ensureWallet and the     *)
(* UPDATE of applyDeltas: owner, or a joined share with role 'member'.     *)
CanWrite(u, w) == status[w] = "open" /\ (u = Owner[w] \/ u \in members[w])

WalletsOf(in) == {in.wallet, in.to} \ {NoWallet}

Holds(s, w) == pending[s][w] # Unwritten

(* A faulty variant: getForUpdate without FOR UPDATE.                      *)
HoldsNoEntry(s, t) == FALSE

(* The row lock of getForUpdate is held to the end of the transaction.     *)
HoldsEntry(s, t) ==
  /\ pc[s] \in {"reverse", "refs", "apply", "write"}
  /\ op[s].kind # "create"
  /\ op[s].entry = t

(* The deltas the current applyDeltas call of session s sends.             *)
DeltasOf(s) ==
  IF pc[s] = "reverse" THEN ReverseDeltas(BalanceDeltas(op[s].old.input))
  ELSE BalanceDeltas(op[s].input)

(* The balance an UPDATE of session s reads: its own write, or the latest  *)
(* committed one (READ COMMITTED re-reads the row once the lock is free).  *)
Seen(s, w) == IF Holds(s, w) THEN pending[s][w] ELSE balance[w]

Rollback(s) ==
  /\ pc'      = [pc EXCEPT ![s] = "idle"]
  /\ op'      = [op EXCEPT ![s] = NoOp]
  /\ idx'     = [idx EXCEPT ![s] = 1]
  /\ waiting' = [waiting EXCEPT ![s] = FALSE]
  /\ pending' = [pending EXCEPT ![s] = Clean]
  /\ UNCHANGED <<books, members>>

Goto(s, label) ==
  /\ pc'  = [pc EXCEPT ![s] = label]
  /\ idx' = [idx EXCEPT ![s] = 1]
-----------------------------------------------------------------------------
(* Requests.                                                               *)

(* An identifier for a new row.  UUIDs never repeat; an identifier may be  *)
(* drawn again here once its row is gone and no request names it.          *)
Fresh(t) == journal[t] = NoEntry /\ \A s \in Sessions : pc[s] # "idle" => op[s].entry # t

Begin(s, o, label) ==
  /\ pc[s] = "idle"
  /\ op' = [op EXCEPT ![s] = o]
  /\ Goto(s, label)
  /\ UNCHANGED <<books, members, waiting, pending>>

(* UseCase.Create: the member-access pre-check, outside the transaction.   *)
CreateRequest(s, u, t, in) ==
  /\ Fresh(t)
  /\ \A w \in WalletsOf(in) : CanWrite(u, w)
  /\ Begin(s, [kind |-> "create", user |-> u, entry |-> t, input |-> in,
               old |-> NoEntry], "refs")

(* UseCase.Update has no pre-check: the row decides.                       *)
UpdateRequest(s, u, t, in) ==
  Begin(s, [kind |-> "update", user |-> u, entry |-> t, input |-> in,
            old |-> NoEntry], "lock")

(* UseCase.Delete carries no input: the field holds a placeholder.         *)
DeleteRequest(s, u, t) ==
  Begin(s, [kind |-> "delete", user |-> u, entry |-> t,
            input |-> CHOOSE in \in Inputs : TRUE, old |-> NoEntry], "lock")

(* A faulty variant: any user may rewrite a row.                           *)
LockAnyEntry(s) ==
  LET t == op[s].entry IN
  /\ pc[s] = "lock"
  /\ \A r \in Sessions \ {s} : ~ HoldsEntry(r, t)
  /\ IF journal[t] # NoEntry
     THEN /\ op' = [op EXCEPT ![s].old = journal[t]]
          /\ Goto(s, "reverse")
          /\ UNCHANGED <<books, members, waiting, pending>>
     ELSE Rollback(s)

(* getForUpdate, then the creator check: another user's row, or a row that *)
(* is gone, ends the request.                                              *)
LockEntry(s) ==
  LET t == op[s].entry IN
  /\ pc[s] = "lock"
  /\ \A r \in Sessions \ {s} : ~ HoldsEntry(r, t)
  /\ IF journal[t] # NoEntry /\ journal[t].user = op[s].user
     THEN /\ op' = [op EXCEPT ![s].old = journal[t]]
          /\ Goto(s, "reverse")
          /\ UNCHANGED <<books, members, waiting, pending>>
     ELSE Rollback(s)

(* A faulty variant: a missing wallet is waited for and is no error.       *)
AwaitRefs(s) ==
  /\ pc[s] = "refs"
  /\ \A w \in WalletsOf(op[s].input) : CanWrite(op[s].user, w)
  /\ Goto(s, "apply")
  /\ UNCHANGED <<books, members, op, waiting, pending>>

(* ensureRefs inside the transaction, for the new input.                   *)
EnsureRefs(s) ==
  /\ pc[s] = "refs"
  /\ IF \A w \in WalletsOf(op[s].input) : CanWrite(op[s].user, w)
     THEN /\ Goto(s, "apply")
          /\ UNCHANGED <<books, members, op, waiting, pending>>
     ELSE Rollback(s)

(* One UPDATE of applyDeltas is sent.  Its WHERE clause is evaluated on    *)
(* the statement's snapshot: no accessible row, no rows affected.          *)
IssueDelta(s) ==
  /\ pc[s] \in {"reverse", "apply"}
  /\ ~ waiting[s]
  /\ idx[s] <= Len(DeltasOf(s))
  /\ IF CanWrite(op[s].user, DeltasOf(s)[idx[s]].wallet)
     THEN /\ waiting' = [waiting EXCEPT ![s] = TRUE]
          /\ UNCHANGED <<books, members, pc, op, idx, pending>>
     ELSE Rollback(s)

(* Faulty variants: an UPDATE that does not wait for the row lock, and a   *)
(* column without a range.                                                 *)
ApplyDeltaUnlocked(s) ==
  LET d   == DeltasOf(s)[idx[s]]
      new == Seen(s, d.wallet) + d.amount
  IN
  /\ waiting[s]
  /\ IF status[d.wallet] = "open" /\ InRange(new)
     THEN /\ pending' = [pending EXCEPT ![s][d.wallet] = new]
          /\ idx'     = [idx EXCEPT ![s] = @ + 1]
          /\ waiting' = [waiting EXCEPT ![s] = FALSE]
          /\ UNCHANGED <<books, members, pc, op>>
     ELSE Rollback(s)

ApplyDeltaUnbounded(s) ==
  LET d   == DeltasOf(s)[idx[s]]
      new == Seen(s, d.wallet) + d.amount
  IN
  /\ waiting[s]
  /\ \A r \in Sessions \ {s} : ~ Holds(r, d.wallet)
  /\ IF status[d.wallet] = "open"
     THEN /\ pending' = [pending EXCEPT ![s][d.wallet] = new]
          /\ idx'     = [idx EXCEPT ![s] = @ + 1]
          /\ waiting' = [waiting EXCEPT ![s] = FALSE]
          /\ UNCHANGED <<books, members, pc, op>>
     ELSE Rollback(s)

(* The UPDATE gets the row lock and writes balance_minor + delta.  A       *)
(* wallet deleted meanwhile affects no rows; a sum out of bigint range is  *)
(* an error; both roll the request back.                                   *)
ApplyDelta(s) ==
  LET d   == DeltasOf(s)[idx[s]]
      new == Seen(s, d.wallet) + d.amount
  IN
  /\ waiting[s]
  /\ \A r \in Sessions \ {s} : ~ Holds(r, d.wallet)
  /\ IF status[d.wallet] = "open" /\ InRange(new)
     THEN /\ pending' = [pending EXCEPT ![s][d.wallet] = new]
          /\ idx'     = [idx EXCEPT ![s] = @ + 1]
          /\ waiting' = [waiting EXCEPT ![s] = FALSE]
          /\ UNCHANGED <<books, members, pc, op>>
     ELSE Rollback(s)

(* applyDeltas returns: an update goes on to the new input's references.   *)
DeltasDone(s) ==
  /\ pc[s] \in {"reverse", "apply"}
  /\ idx[s] > Len(DeltasOf(s))
  /\ Goto(s, IF pc[s] = "reverse" /\ op[s].kind = "update" THEN "refs" ELSE "write")
  /\ UNCHANGED <<books, members, op, waiting, pending>>

(* insertTransaction, updateTransaction or DELETE, syncTags, and COMMIT.   *)
Commit(s) ==
  /\ pc[s] = "write"
  /\ journal' = [journal EXCEPT ![op[s].entry] =
                   IF op[s].kind = "delete" THEN NoEntry
                   ELSE [user |-> op[s].user, input |-> op[s].input]]
  /\ balance' = [w \in Wallets |-> Seen(s, w)]
  /\ pc'      = [pc EXCEPT ![s] = "idle"]
  /\ op'      = [op EXCEPT ![s] = NoOp]
  /\ idx'     = [idx EXCEPT ![s] = 1]
  /\ pending' = [pending EXCEPT ![s] = Clean]
  /\ UNCHANGED <<status, opening, members, waiting>>

(* Any error between BEGIN and COMMIT: a missing category or tag, a        *)
(* cancelled request, a lost connection, a crash of the server.            *)
Abort(s) == pc[s] # "idle" /\ Rollback(s)

(* PostgreSQL's deadlock detector ends one of the transactions that wait   *)
(* for each other's wallet rows.                                           *)
Deadlocked(s) ==
  \E D \in SUBSET Sessions :
    /\ s \in D
    /\ \A d \in D :
         /\ waiting[d]
         /\ \E r \in D \ {d} : Holds(r, DeltasOf(d)[idx[d]].wallet)

DeadlockVictim(s) == Deadlocked(s) /\ Rollback(s)
-----------------------------------------------------------------------------
(* Wallets (internal/wallet): creation, deletion, and the shares that give *)
(* another user write access or take it away.                              *)
OpenWallet(w, b) ==
  /\ status[w] = "unborn"
  /\ status'  = [status EXCEPT ![w] = "open"]
  /\ opening' = [opening EXCEPT ![w] = b]
  /\ balance' = [balance EXCEPT ![w] = b]
  /\ UNCHANGED <<journal, members, work>>

(* A faulty variant: the deletion does not wait for the row.               *)
CloseWalletUnlocked(w) ==
  /\ status[w] = "open"
  /\ \A t \in Entries : journal[t] # NoEntry => w \notin WalletsOf(journal[t].input)
  /\ status'  = [status EXCEPT ![w] = "closed"]
  /\ members' = [members EXCEPT ![w] = {}]
  /\ UNCHANGED <<opening, balance, journal, work>>

(* The DELETE waits for the row; transactions reference it ON DELETE       *)
(* RESTRICT and wallet_shares ON DELETE CASCADE.                           *)
CloseWallet(w) ==
  /\ status[w] = "open"
  /\ \A s \in Sessions : ~ Holds(s, w)
  /\ \A t \in Entries : journal[t] # NoEntry => w \notin WalletsOf(journal[t].input)
  /\ status'  = [status EXCEPT ![w] = "closed"]
  /\ members' = [members EXCEPT ![w] = {}]
  /\ UNCHANGED <<opening, balance, journal, work>>

(* A share becomes a joined member share (RespondInvite, or AddMember on a *)
(* joined viewer), or stops being one (RespondInvite, AddMember, Revoke).  *)
SetMember(w, u) ==
  /\ status[w] = "open"
  /\ u # Owner[w]
  /\ \/ members' = [members EXCEPT ![w] = @ \cup {u}]
     \/ members' = [members EXCEPT ![w] = @ \ {u}]
  /\ UNCHANGED <<books, work>>
-----------------------------------------------------------------------------
Request(s) ==
  \E u \in Users, t \in Entries :
    \/ \E in \in Inputs : CreateRequest(s, u, t, in) \/ UpdateRequest(s, u, t, in)
    \/ DeleteRequest(s, u, t)

Proceed(s) == EnsureRefs(s) \/ IssueDelta(s) \/ DeltasDone(s) \/ Commit(s)

Environment ==
  \/ \E w \in Wallets, b \in OpeningBalances : OpenWallet(w, b)
  \/ \E w \in Wallets : CloseWallet(w)
  \/ \E w \in Wallets, u \in Users : SetMember(w, u)

Next ==
  \/ \E s \in Sessions :
       \/ Request(s)
       \/ LockEntry(s)
       \/ ApplyDelta(s)
       \/ Proceed(s)
       \/ Abort(s)
       \/ DeadlockVictim(s)
  \/ Environment

(* A request's goroutine runs on, and the deadlock detector always runs;   *)
(* PostgreSQL queues lock waiters in order, so a wait for a row that is    *)
(* released again and again ends (SF).                                     *)
Fairness ==
  \A s \in Sessions :
    /\ WF_vars(Proceed(s) \/ DeadlockVictim(s))
    /\ SF_vars(LockEntry(s) \/ ApplyDelta(s))

Spec     == Init /\ [][Next]_vars
FairSpec == Spec /\ Fairness
-----------------------------------------------------------------------------
(* The books as their readers see them, one atomic change at a time.       *)
L == INSTANCE Ledger WITH
     Half <- Half, NoWallet <- NoWallet, NoEntry <- NoEntry,
     Users <- Users, Wallets <- Wallets, Entries <- Entries,
     Inputs <- Inputs, OpeningBalances <- OpeningBalances,
     status <- status, opening <- opening, balance <- balance, journal <- journal

(* Row locks taken statement by statement, waits, deadlock victims and     *)
(* rollbacks at any point are invisible from outside: what is committed    *)
(* moves only by whole entries, made by their creator (README.md:430).     *)
LedgerSpec == L!Spec

(* No interleaving of creates, edits and deletes loses or doubles a delta. *)
BalanceMatchesJournal == L!BalanceMatchesJournal

(* A committed row never names a wallet that was deleted while the row was *)
(* being written.                                                          *)
EntriesNameOpenWallets == L!EntriesNameOpenWallets

(* Effect of the deltas that session s has applied so far on wallet w.     *)
Undone(s, w) ==
  IF op[s].kind = "create" THEN 0
  ELSE NetDelta(ReverseDeltas(BalanceDeltas(op[s].old.input)), w)

Done(s, w) ==
  IF pc[s] = "reverse"    THEN Applied(DeltasOf(s), idx[s] - 1, w)
  ELSE IF pc[s] = "refs"  THEN Undone(s, w)
  ELSE IF pc[s] = "apply" THEN Undone(s, w) + Applied(DeltasOf(s), idx[s] - 1, w)
  ELSE IF pc[s] = "write" THEN Undone(s, w) + (IF op[s].kind = "delete" THEN 0
                                               ELSE NetDelta(DeltasOf(s), w))
  ELSE 0

(* Isolation: at every point of a request, what it is about to commit to a *)
(* wallet is the balance committed NOW plus its own deltas, so COMMIT can  *)
(* never overwrite another request's change (the row locks of the UPDATEs  *)
(* in applyDeltas; balance_minor + delta rather than a value read before). *)
WritesBuildOnCommitted ==
  \A s \in Sessions, w \in Wallets : Seen(s, w) = balance[w] + Done(s, w)

(* Under READ COMMITTED the deltas a request reverses are those of the row *)
(* as it stands when the request commits (getForUpdate's FOR UPDATE).      *)
OldRowIsCurrent ==
  \A s \in Sessions :
    pc[s] \in {"reverse", "refs", "apply", "write"} =>
      journal[op[s].entry] = op[s].old

(* What a request writes never rests on a stale read: neither the balances *)
(* it commits nor the row it reverses were changed by another request      *)
(* since (applyDeltas, getForUpdate).                                      *)
WritersAreIsolated == OldRowIsCurrent /\ WritesBuildOnCommitted
-----------------------------------------------------------------------------
(* The rest of the inductive invariant.                                    *)

(* What is known of a request at each pc.                                  *)
OpOK(s) ==
  /\ pc[s] # "idle" => op[s] \in Op
  /\ pc[s] \in {"idle", "lock"} => pending[s] = Clean /\ ~ waiting[s] /\ idx[s] = 1
  /\ pc[s] = "refs" /\ op[s].kind = "create" => pending[s] = Clean
  /\ pc[s] \in {"lock", "reverse"} => op[s].kind # "create"
  /\ pc[s] \in {"refs", "apply"} => op[s].kind # "delete"
  /\ pc[s] \in {"reverse", "refs", "apply", "write"} =>
       \/ op[s].kind = "create" /\ op[s].old = NoEntry
       \/ op[s].kind # "create" /\ op[s].old # NoEntry /\ op[s].old.user = op[s].user
  /\ waiting[s] => pc[s] \in {"reverse", "apply"} /\ idx[s] <= Len(DeltasOf(s))

OpInv == \A s \in Sessions : OpOK(s)

(* One writer per row: wallets, existing entries, and new identifiers.     *)
RowLocks ==
  \A s, r \in Sessions : s # r =>
    /\ \A w \in Wallets : ~ (Holds(s, w) /\ Holds(r, w))
    /\ \A t \in Entries : ~ (HoldsEntry(s, t) /\ HoldsEntry(r, t))
    /\ pc[s] # "idle" /\ op[s].kind = "create" /\ pc[r] # "idle" /\ op[r].kind = "create"
         => op[s].entry # op[r].entry

(* A written wallet is open, and the wallets of the deltas sent so far are *)
(* written.                                                                *)
WrittenInv ==
  \A s \in Sessions :
    /\ \A w \in Wallets : Holds(s, w) => status[w] = "open"
    /\ pc[s] = "apply" =>
         \A i \in 1 .. idx[s] - 1 : Holds(s, DeltasOf(s)[i].wallet)
    /\ pc[s] = "write" /\ op[s].kind # "delete" =>
         \A w \in WalletsOf(op[s].input) : Holds(s, w)

IInv ==
  /\ TypeOK
  /\ OpInv
  /\ RowLocks
  /\ WrittenInv
  /\ OldRowIsCurrent
  /\ WritesBuildOnCommitted
  /\ EntriesNameOpenWallets

(* Every request is answered, although requests that move money in         *)
(* opposite directions wait for each other's wallet rows.                  *)
RequestsEnd == \A s \in Sessions : pc[s] # "idle" ~> pc[s] = "idle"
=============================================================================
