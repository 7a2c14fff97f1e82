----------------------- MODULE TransactionStoreProofs -----------------------
EXTENDS TransactionStore, Sums, SequenceTheorems, TLAPS

LEMMA WrapFits ==
  ASSUME NEW x, x \in Minor
  PROVE  Wrap(x) = x
  BY HalfAssumption DEF Wrap, Minor

LEMMA WrapInt ==
  ASSUME NEW x \in Int
  PROVE  Wrap(x) \in Int
  BY HalfAssumption DEF Wrap

LEMMA InputShape ==
  ASSUME NEW in \in Inputs
  PROVE  /\ in.type \in Types
         /\ in.wallet \in Wallets
         /\ in.amount \in Int /\ in.fee \in Int
         /\ in.type = "transfer" => in.to \in Wallets /\ in.to # in.wallet
         /\ in.type # "transfer" => in.to = NoWallet
         /\ in.amount \in Minor /\ in.fee \in Minor
         /\ ValidInput(in)
  BY StoreAssumption, HalfAssumption DEF InputRecord, ValidInput, Minor

DeltaRecord == [wallet : Wallets, amount : Int]

(* The deltas of an input: one or two statements, one for a wallet that is *)
(* not a transfer's.                                                       *)
LEMMA DeltasSeq ==
  ASSUME NEW in \in Inputs
  PROVE  /\ BalanceDeltas(in) \in Seq(DeltaRecord)
         /\ Len(BalanceDeltas(in)) = IF in.type = "transfer" THEN 2 ELSE 1
         /\ BalanceDeltas(in)[1].wallet = in.wallet
         /\ in.type = "transfer" => BalanceDeltas(in)[2].wallet = in.to
<1>1. CASE in.type = "transfer"
  <2>1. /\ in.to \in Wallets /\ in.wallet \in Wallets
        /\ in.amount \in Int
        /\ Wrap(-Wrap(in.amount + in.fee)) \in Int
    BY <1>1, InputShape, WrapInt
  <2>2. BalanceDeltas(in) = <<[wallet |-> in.wallet, amount |-> Wrap(-Wrap(in.amount + in.fee))],
                              [wallet |-> in.to, amount |-> in.amount]>>
    BY <1>1 DEF BalanceDeltas, Delta
  <2> QED  BY <1>1, <2>1, <2>2 DEF DeltaRecord
<1>2. CASE in.type # "transfer"
  <2>1. PICK a \in Int : BalanceDeltas(in) = <<[wallet |-> in.wallet, amount |-> a]>>
    BY <1>2, InputShape, WrapInt DEF BalanceDeltas, Delta, Types
  <2> QED  BY <1>2, <2>1, InputShape DEF DeltaRecord
<1> QED  BY <1>1, <1>2

LEMMA ReverseSeq ==
  ASSUME NEW ds \in Seq(DeltaRecord)
  PROVE  /\ ReverseDeltas(ds) \in Seq(DeltaRecord)
         /\ Len(ReverseDeltas(ds)) = Len(ds)
         /\ \A i \in 1 .. Len(ds) :
              /\ ReverseDeltas(ds)[i].wallet = ds[i].wallet
              /\ ReverseDeltas(ds)[i].amount = Wrap(-ds[i].amount)
<1>1. DOMAIN ds = 1 .. Len(ds) /\ Len(ds) \in Nat
  BY LenProperties
<1>2. \A i \in 1 .. Len(ds) : Wrap(-ds[i].amount) \in Int /\ ds[i].wallet \in Wallets
  <2>1. \A i \in 1 .. Len(ds) : ds[i].amount \in Int /\ ds[i].wallet \in Wallets
    <3>1. \A i \in 1 .. Len(ds) : ds[i] \in DeltaRecord
      OBVIOUS
    <3> QED  BY <3>1 DEF DeltaRecord
  <2> QED  BY <2>1, WrapInt
<1>3. ReverseDeltas(ds) \in [1 .. Len(ds) -> DeltaRecord]
  BY <1>1, <1>2 DEF ReverseDeltas, Delta, DeltaRecord
<1>4. ReverseDeltas(ds) \in Seq(DeltaRecord)
  BY <1>1, <1>3, IsASeq
<1>5. Len(ReverseDeltas(ds)) = Len(ds)
  BY <1>1, <1>3, <1>4, LenProperties
<1> QED  BY <1>1, <1>4, <1>5 DEF ReverseDeltas, Delta

(* All that the proofs use of a list of deltas.                            *)
Shape(ds) ==
  /\ Len(ds) \in {1, 2}
  /\ \A i \in 1 .. Len(ds) : ds[i].wallet \in Wallets /\ ds[i].amount \in Int
  /\ \A w \in Wallets :
       /\ Applied(ds, 0, w) = 0
       /\ \A i \in 0 .. 2 : Applied(ds, i, w) \in Int
       /\ \A i \in 1 .. Len(ds) : Applied(ds, i, w) =
            Applied(ds, i - 1, w) + IF ds[i].wallet = w THEN ds[i].amount ELSE 0
       /\ \A i \in Len(ds) .. 2 : Applied(ds, i, w) = NetDelta(ds, w)

LEMMA SeqShape ==
  ASSUME NEW ds \in Seq(DeltaRecord), Len(ds) \in {1, 2}
  PROVE  Shape(ds)
<1>1. DOMAIN ds = 1 .. Len(ds)
  BY LenProperties
<1>2. \A i \in 1 .. Len(ds) : ds[i] \in DeltaRecord
  OBVIOUS
<1>3. \A i \in 1 .. Len(ds) : ds[i].wallet \in Wallets /\ ds[i].amount \in Int
  BY <1>2 DEF DeltaRecord
<1>4. ASSUME NEW w \in Wallets
      PROVE  /\ Leg(ds, 1, w) = IF ds[1].wallet = w THEN ds[1].amount ELSE 0
             /\ Leg(ds, 2, w) = IF Len(ds) = 2 /\ ds[2].wallet = w THEN ds[2].amount ELSE 0
             /\ Leg(ds, 1, w) \in Int
             /\ Leg(ds, 2, w) \in Int
  BY <1>1, <1>3 DEF Leg
<1>5. ASSUME NEW w \in Wallets
      PROVE  /\ Applied(ds, 0, w) = 0
             /\ Applied(ds, 1, w) = Leg(ds, 1, w)
             /\ Applied(ds, 2, w) = Leg(ds, 1, w) + Leg(ds, 2, w)
             /\ NetDelta(ds, w) = Applied(ds, 2, w)
             /\ Len(ds) = 1 => Leg(ds, 2, w) = 0
  BY <1>4 DEF Applied, NetDelta
<1> QED  BY <1>3, <1>4, <1>5 DEF Shape

LEMMA DeltasShape ==
  \A in \in Inputs :
    Shape(BalanceDeltas(in)) /\ Shape(ReverseDeltas(BalanceDeltas(in)))
  BY DeltasSeq, ReverseSeq, SeqShape

LEMMA ReverseUndoes ==
  ASSUME NEW in \in Inputs, MoneyFits(in), NEW w \in Wallets
  PROVE  NetDelta(ReverseDeltas(BalanceDeltas(in)), w) = - NetDelta(BalanceDeltas(in), w)
<1> DEFINE ds == BalanceDeltas(in)
<1>1. ds \in Seq(DeltaRecord) /\ Len(ds) \in {1, 2}
  BY DeltasSeq
<1>2. \A i \in 1 .. Len(ds) : ds[i].amount \in Minor /\ - ds[i].amount \in Minor
  <2>1. CASE in.type = "transfer"
    <3>1. in.amount + in.fee \in Minor /\ - (in.amount + in.fee) \in Minor
      BY <2>1, InputShape, HalfAssumption DEF MoneyFits, Minor, ValidInput
    <3>2. ds = <<[wallet |-> in.wallet, amount |-> - (in.amount + in.fee)],
                 [wallet |-> in.to, amount |-> in.amount]>>
      BY <2>1, <3>1, WrapFits DEF BalanceDeltas, Delta
    <3>3. in.amount \in Minor /\ - in.amount \in Minor
      BY <2>1, InputShape, HalfAssumption DEF MoneyFits, Minor, ValidInput
    <3>4. /\ Len(ds) = 2
          /\ ds[1].amount = - (in.amount + in.fee)
          /\ ds[2].amount = in.amount
      BY <3>2
    <3>5. - (- (in.amount + in.fee)) = in.amount + in.fee
      BY InputShape
    <3> QED  BY <3>1, <3>3, <3>4, <3>5
  <2>2. CASE in.type # "transfer"
    <3>1. - in.amount \in Minor /\ in.amount \in Minor
      BY <2>2, InputShape, HalfAssumption DEF MoneyFits, Minor, ValidInput
    <3>2. \E a \in {in.amount, - in.amount} : ds = <<[wallet |-> in.wallet, amount |-> a]>>
      BY <2>2, <3>1, WrapFits DEF BalanceDeltas, Delta
    <3> QED  BY <3>1, <3>2, InputShape
  <2> QED  BY <2>1, <2>2
<1>3. \A i \in 1 .. Len(ds) : ReverseDeltas(ds)[i].amount = - ds[i].amount
  BY <1>1, <1>2, ReverseSeq, WrapFits
<1>4. /\ DOMAIN ds = 1 .. Len(ds)
      /\ DOMAIN ReverseDeltas(ds) = 1 .. Len(ds)
  BY <1>1, ReverseSeq, LenProperties
<1>5. \A i \in {1, 2} : Leg(ReverseDeltas(ds), i, w) = - Leg(ds, i, w) /\ Leg(ds, i, w) \in Int
  BY <1>1, <1>2, <1>3, <1>4, ReverseSeq DEF Leg, Minor
<1> HIDE DEF ds
<1>6. NetDelta(ReverseDeltas(ds), w) = - NetDelta(ds, w)
  BY <1>5 DEF NetDelta, Applied
<1> QED  BY <1>6 DEF ds
-----------------------------------------------------------------------------
LEMMA InitInv == Init => IInv
<1> SUFFICES ASSUME Init PROVE IInv
  OBVIOUS
<1>1. 0 \in Minor /\ 1 \in 1 .. 3
  BY HalfAssumption DEF Minor
<1>2. TypeOK
  BY <1>1 DEF Init, TypeOK, Clean, PCs
<1>3. OpInv /\ RowLocks /\ WrittenInv /\ OldRowIsCurrent
  BY DEF Init, OpInv, OpOK, RowLocks, WrittenInv, OldRowIsCurrent, Holds, HoldsEntry, Clean
<1>4. WritesBuildOnCommitted
  BY DEF Init, WritesBuildOnCommitted, Seen, Holds, Done, Clean
<1>5. EntriesNameOpenWallets
  BY DEF Init, EntriesNameOpenWallets, L!EntriesNameOpenWallets, L!References
<1> QED  BY <1>2, <1>3, <1>4, <1>5 DEF IInv

(* Session r takes no part in a step.                                      *)
Same(r) ==
  /\ pc'[r] = pc[r] /\ op'[r] = op[r] /\ idx'[r] = idx[r]
  /\ waiting'[r] = waiting[r] /\ pending'[r] = pending[r]

LEMMA ConstantsStay ==
  /\ Clean' = Clean /\ Op' = Op /\ Entry' = Entry /\ Minor' = Minor
  BY DEF Clean, Op, Entry, Minor

(* What is said of a session depends on its own variables only.            *)
LEMMA Frame ==
  ASSUME NEW r \in Sessions, Same(r)
  PROVE  /\ DeltasOf(r)' = DeltasOf(r)
         /\ \A w : Holds(r, w)' <=> Holds(r, w)
         /\ \A t : HoldsEntry(r, t)' <=> HoldsEntry(r, t)
         /\ \A w : Done(r, w)' = Done(r, w)
         /\ OpOK(r) => OpOK(r)'
<1>1. DeltasOf(r)' = DeltasOf(r)
  BY DEF Same, DeltasOf
<1>2. \A w : Holds(r, w)' <=> Holds(r, w)
  BY DEF Same, Holds
<1>3. \A t : HoldsEntry(r, t)' <=> HoldsEntry(r, t)
  BY DEF Same, HoldsEntry
<1>4. \A w : Undone(r, w)' = Undone(r, w)
  BY DEF Same, Undone
<1>5. \A w : Done(r, w)' = Done(r, w)
  BY <1>1, <1>4 DEF Same, Done
<1>6. OpOK(r) => OpOK(r)'
  BY <1>1, ConstantsStay DEF Same, OpOK
<1> QED  BY <1>1, <1>2, <1>3, <1>5, <1>6

(* A step that changes neither the books nor the shares, in which only     *)
(* session s moves, is safe if what s does is.                             *)
LEMMA LocalStep ==
  ASSUME IInv, NEW s \in Sessions, UNCHANGED <<books, members>>,
         TypeOK',
         \A r \in Sessions \ {s} : Same(r),
         OpOK(s)',
         \A w \in Wallets : Holds(s, w)' =>
           status[w] = "open" /\ \A r \in Sessions \ {s} : ~ Holds(r, w),
         \A t \in Entries : HoldsEntry(s, t)' =>
           \A r \in Sessions \ {s} : ~ HoldsEntry(r, t),
         pc'[s] # "idle" /\ op'[s].kind = "create" =>
           \A r \in Sessions \ {s} : pc[r] # "idle" /\ op[r].kind = "create" =>
             op'[s].entry # op[r].entry,
         pc'[s] = "apply" =>
           \A i \in 1 .. idx'[s] - 1 : Holds(s, DeltasOf(s)[i].wallet)',
         pc'[s] = "write" /\ op'[s].kind # "delete" =>
           \A w \in WalletsOf(op'[s].input) : Holds(s, w)',
         pc'[s] \in {"reverse", "refs", "apply", "write"} =>
           journal[op'[s].entry] = op'[s].old,
         \A w \in Wallets : Seen(s, w)' = balance[w] + Done(s, w)'
  PROVE  IInv'
<1>0. /\ status' = status /\ balance' = balance /\ journal' = journal
  BY DEF books
<1>1. OpInv'
  BY Frame DEF IInv, OpInv
<1>2. RowLocks'
  <2> SUFFICES ASSUME NEW a \in Sessions, NEW b \in Sessions, a # b
               PROVE  /\ \A w \in Wallets : ~ (Holds(a, w)' /\ Holds(b, w)')
                      /\ \A t \in Entries : ~ (HoldsEntry(a, t)' /\ HoldsEntry(b, t)')
                      /\ pc'[a] # "idle" /\ op'[a].kind = "create"
                           /\ pc'[b] # "idle" /\ op'[b].kind = "create"
                           => op'[a].entry # op'[b].entry
    BY DEF RowLocks
  <2>1. CASE a # s /\ b # s
    BY <2>1, Frame DEF IInv, RowLocks, Same
  <2>2. CASE a = s
    BY <2>2, Frame DEF Same
  <2>3. CASE b = s
    BY <2>3, Frame DEF Same
  <2> QED  BY <2>1, <2>2, <2>3
<1>3. WrittenInv'
  <2> SUFFICES ASSUME NEW r \in Sessions
               PROVE  /\ \A w \in Wallets : Holds(r, w)' => status'[w] = "open"
                      /\ pc'[r] = "apply" =>
                           \A i \in 1 .. idx'[r] - 1 : Holds(r, DeltasOf(r)[i].wallet)'
                      /\ pc'[r] = "write" /\ op'[r].kind # "delete" =>
                           \A w \in WalletsOf(op'[r].input) : Holds(r, w)'
    BY DEF WrittenInv, WalletsOf
  <2>1. CASE r = s
    BY <1>0, <2>1
  <2>2. CASE r # s
    <3>1. Same(r)
      BY <2>2
    <3>2. \A i \in 1 .. idx[r] - 1 : Holds(r, DeltasOf(r)[i].wallet)' <=> Holds(r, DeltasOf(r)[i].wallet)
      BY <3>1, Frame DEF Holds, Same
    <3> QED  BY <1>0, <3>1, <3>2, Frame DEF IInv, WrittenInv, Same
  <2> QED  BY <2>1, <2>2
<1>4. OldRowIsCurrent'
  BY <1>0 DEF IInv, OldRowIsCurrent, Same
<1>5. WritesBuildOnCommitted'
  <2>1. \A r \in Sessions \ {s}, w \in Wallets : Seen(r, w)' = Seen(r, w)
    BY <1>0, Frame DEF Seen, Same
  <2> QED  BY <1>0, <2>1, Frame DEF IInv, WritesBuildOnCommitted
<1>6. EntriesNameOpenWallets'
  BY <1>0 DEF IInv, EntriesNameOpenWallets, L!EntriesNameOpenWallets, L!References
<1> QED  BY <1>1, <1>2, <1>3, <1>4, <1>5, <1>6 DEF IInv

(* A request that gives up leaves the books alone.                         *)
LEMMA RollbackInv ==
  ASSUME IInv, NEW s \in Sessions, Rollback(s)
  PROVE  IInv'
<1>1. TypeOK'
  BY DEF Rollback, books, IInv, TypeOK, Clean, PCs
<1>2. /\ pc'[s] = "idle" /\ pending'[s] = Clean /\ ~ waiting'[s] /\ idx'[s] = 1
      /\ \A r \in Sessions \ {s} : Same(r)
      /\ UNCHANGED <<books, members>>
  BY DEF Rollback, IInv, TypeOK, Same
<1>3. OpOK(s)'
  BY <1>2, ConstantsStay DEF OpOK
<1>4. \A w \in Wallets : ~ Holds(s, w)' /\ Seen(s, w)' = balance[w] /\ Done(s, w)' = 0
  BY <1>2 DEF Holds, Seen, Done, Clean, books
<1>5. \A w \in Wallets : balance[w] \in Int
  BY HalfAssumption DEF IInv, TypeOK, Minor
<1>6. \A t \in Entries : ~ HoldsEntry(s, t)'
  BY <1>2 DEF HoldsEntry
<1> QED  BY <1>1, <1>2, <1>3, <1>4, <1>5, <1>6, LocalStep

LEMMA BalancesAreInts ==
  ASSUME IInv
  PROVE  /\ \A w \in Wallets : balance[w] \in Int /\ balance[w] \in Minor
         /\ \A s \in Sessions, w \in Wallets : Holds(s, w) => pending[s][w] \in Int
  BY HalfAssumption DEF IInv, TypeOK, Minor, Holds

(* The deltas of a request and the ones it takes back.                     *)
LEMMA RequestDeltas ==
  ASSUME IInv, NEW s \in Sessions, pc[s] # "idle"
  PROVE  /\ op[s] \in Op
         /\ Shape(BalanceDeltas(op[s].input))
         /\ op[s].old # NoEntry => op[s].old \in Entry
              /\ Shape(ReverseDeltas(BalanceDeltas(op[s].old.input)))
         /\ pc[s] = "reverse" => Shape(DeltasOf(s))
         /\ pc[s] # "reverse" => Shape(DeltasOf(s))
         /\ pc[s] \in {"refs", "apply", "write"} => \A w \in Wallets : Undone(s, w) \in Int
<1>1. op[s] \in Op /\ OpOK(s)
  BY DEF IInv, OpInv, OpOK
<1>2. Shape(BalanceDeltas(op[s].input))
  BY <1>1, DeltasShape DEF Op
<1>3. op[s].old # NoEntry => op[s].old \in Entry
              /\ Shape(ReverseDeltas(BalanceDeltas(op[s].old.input)))
  BY <1>1, DeltasShape DEF Op, Entry
<1>4. pc[s] = "reverse" => Shape(DeltasOf(s))
  BY <1>1, <1>3 DEF OpOK, DeltasOf
<1>5. pc[s] # "reverse" => Shape(DeltasOf(s))
  BY <1>2 DEF DeltasOf
<1>6. ASSUME pc[s] \in {"refs", "apply", "write"}, NEW w \in Wallets
      PROVE  Undone(s, w) \in Int
  <2>1. CASE op[s].kind = "create"
    BY <2>1 DEF Undone
  <2>2. CASE op[s].kind # "create"
    <3>1. Shape(ReverseDeltas(BalanceDeltas(op[s].old.input)))
      BY <1>1, <1>3, <1>6, <2>2 DEF OpOK
    <3> QED  BY <2>2, <3>1 DEF Undone, Shape, NetDelta
  <2> QED  BY <2>1, <2>2
<1> QED  BY <1>1, <1>2, <1>3, <1>4, <1>5, <1>6

LEMMA BeginInv ==
  ASSUME IInv, NEW s \in Sessions, NEW o \in Op, NEW label \in {"lock", "refs"},
         Begin(s, o, label), o.old = NoEntry,
         label = "lock" => o.kind # "create",
         label = "refs" => /\ o.kind = "create"
                           /\ journal[o.entry] = NoEntry
                           /\ \A r \in Sessions : pc[r] # "idle" => op[r].entry # o.entry
  PROVE  IInv'
<1>1. TypeOK'
  BY DEF Begin, Goto, books, IInv, TypeOK, PCs
<1>2. /\ pc[s] = "idle" /\ pc'[s] = label /\ op'[s] = o /\ idx'[s] = 1
      /\ pending'[s] = pending[s] /\ waiting'[s] = waiting[s]
      /\ \A r \in Sessions \ {s} : Same(r)
      /\ UNCHANGED <<books, members>>
  BY DEF Begin, Goto, IInv, TypeOK, Same
<1>3. pending[s] = Clean /\ ~ waiting[s]
  BY <1>2 DEF IInv, OpInv, OpOK
<1>4. OpOK(s)'
  BY <1>2, <1>3, ConstantsStay DEF OpOK
<1>5. \A w \in Wallets : ~ Holds(s, w)' /\ Seen(s, w)' = balance[w]
  BY <1>2, <1>3 DEF Holds, Seen, Clean, books
<1>6. \A w \in Wallets : Done(s, w)' = 0
  BY <1>2, BalancesAreInts DEF Done, Undone
<1>7. \A t \in Entries : ~ HoldsEntry(s, t)'
  BY <1>2 DEF HoldsEntry
<1> QED  BY <1>1, <1>2, <1>4, <1>5, <1>6, <1>7, LocalStep, BalancesAreInts

LEMMA RequestInv ==
  ASSUME IInv, NEW s \in Sessions, Request(s)
  PROVE  IInv'
<1>1. PICK u \in Users, t \in Entries :
        \/ \E in \in Inputs : CreateRequest(s, u, t, in) \/ UpdateRequest(s, u, t, in)
        \/ DeleteRequest(s, u, t)
  BY DEF Request
<1>2. CASE \E in \in Inputs : CreateRequest(s, u, t, in)
  <2>1. PICK in \in Inputs : CreateRequest(s, u, t, in)
    BY <1>2
  <2> DEFINE o == [kind |-> "create", user |-> u, entry |-> t, input |-> in, old |-> NoEntry]
  <2>2. o \in Op /\ Begin(s, o, "refs") /\ Fresh(t)
    BY <2>1 DEF CreateRequest, Op, Kinds
  <2> QED  BY <2>2, BeginInv DEF Fresh
<1>3. CASE \E in \in Inputs : UpdateRequest(s, u, t, in)
  <2>1. PICK in \in Inputs : UpdateRequest(s, u, t, in)
    BY <1>3
  <2> DEFINE o == [kind |-> "update", user |-> u, entry |-> t, input |-> in, old |-> NoEntry]
  <2>2. o \in Op /\ Begin(s, o, "lock")
    BY <2>1 DEF UpdateRequest, Op, Kinds
  <2> QED  BY <2>2, BeginInv
<1>4. CASE DeleteRequest(s, u, t)
  <2> DEFINE o == [kind |-> "delete", user |-> u, entry |-> t,
                   input |-> CHOOSE in \in Inputs : TRUE, old |-> NoEntry]
  <2>1. (CHOOSE in \in Inputs : TRUE) \in Inputs
    BY StoreAssumption
  <2>2. o \in Op /\ Begin(s, o, "lock")
    BY <1>4, <2>1 DEF DeleteRequest, Op, Kinds
  <2> QED  BY <2>2, BeginInv
<1> QED  BY <1>1, <1>2, <1>3, <1>4

LEMMA LockEntryInv ==
  ASSUME IInv, NEW s \in Sessions, LockEntry(s)
  PROVE  IInv'
<1> DEFINE t == op[s].entry
           found == journal[t] # NoEntry /\ journal[t].user = op[s].user
<1>1. CASE ~ found
  BY <1>1, RollbackInv DEF LockEntry
<1>2. CASE found
  <2>1. /\ pc[s] = "lock" /\ op[s] \in Op /\ op[s].kind # "create"
        /\ pending[s] = Clean /\ ~ waiting[s]
        /\ \A r \in Sessions \ {s} : ~ HoldsEntry(r, t)
    BY DEF LockEntry, IInv, OpInv, OpOK
  <2>2. journal[t] \in Entry /\ t \in Entries
    BY <1>2, <2>1 DEF IInv, TypeOK, Op
  <2>3. [op[s] EXCEPT !.old = journal[t]] \in Op
    BY <2>1, <2>2 DEF Op
  <2>4. /\ pc'[s] = "reverse" /\ op'[s] = [op[s] EXCEPT !.old = journal[t]]
        /\ idx'[s] = 1 /\ pending'[s] = pending[s] /\ waiting'[s] = waiting[s]
        /\ \A r \in Sessions \ {s} : Same(r)
        /\ UNCHANGED <<books, members>>
    BY <1>2 DEF LockEntry, Goto, IInv, TypeOK, Same
  <2>5. TypeOK'
    <3>1. op' = [op EXCEPT ![s] = [op[s] EXCEPT !.old = journal[t]]]
      BY <1>2 DEF LockEntry
    <3>2. op' \in [Sessions -> Op \cup {NoOp}]
      BY <2>3, <3>1 DEF IInv, TypeOK
    <3>3. /\ pc' = [pc EXCEPT ![s] = "reverse"] /\ idx' = [idx EXCEPT ![s] = 1]
          /\ UNCHANGED <<books, members, waiting, pending>>
      BY <1>2 DEF LockEntry, Goto
    <3> QED  BY <3>2, <3>3, ConstantsStay DEF books, IInv, TypeOK, PCs
  <2>6. /\ op'[s].kind = op[s].kind /\ op'[s].entry = t /\ op'[s].user = op[s].user
        /\ op'[s].old = journal[t]
    BY <2>1, <2>4 DEF Op
  <2>7. OpOK(s)'
    BY <1>2, <2>1, <2>3, <2>4, <2>6, ConstantsStay DEF OpOK
  <2>8. \A w \in Wallets : ~ Holds(s, w)' /\ Seen(s, w)' = balance[w]
    BY <2>1, <2>4 DEF Holds, Seen, Clean, books
  <2>9. \A w \in Wallets : Done(s, w)' = 0
    <3>1. Shape(DeltasOf(s)')
      BY <2>2, <2>4, <2>6, DeltasShape DEF DeltasOf, Entry
    <3> QED  BY <2>4, <3>1 DEF Done, Shape
  <2>10. \A x \in Entries : HoldsEntry(s, x)' => x = t
    BY <2>6 DEF HoldsEntry
  <2>11. \A w \in Wallets : Seen(s, w)' = balance[w] + Done(s, w)'
    BY <2>8, <2>9, BalancesAreInts
  <2>12. \A x \in Entries : HoldsEntry(s, x)' => \A r \in Sessions \ {s} : ~ HoldsEntry(r, x)
    BY <2>1, <2>10
  <2> HIDE DEF t
  <2> QED  BY <2>1, <2>4, <2>5, <2>6, <2>7, <2>8, <2>11, <2>12, LocalStep
<1> QED  BY <1>1, <1>2

LEMMA EnsureRefsInv ==
  ASSUME IInv, NEW s \in Sessions, EnsureRefs(s)
  PROVE  IInv'
<1> DEFINE ok == \A w \in WalletsOf(op[s].input) : CanWrite(op[s].user, w)
<1>1. CASE ~ ok
  BY <1>1, RollbackInv DEF EnsureRefs
<1>2. CASE ok
  <2>1. /\ pc[s] = "refs" /\ op[s] \in Op /\ OpOK(s) /\ ~ waiting[s]
        /\ Shape(BalanceDeltas(op[s].input))
    BY RequestDeltas DEF EnsureRefs, IInv, OpInv, OpOK
  <2>2. /\ pc'[s] = "apply" /\ op'[s] = op[s] /\ idx'[s] = 1
        /\ pending'[s] = pending[s] /\ waiting'[s] = waiting[s]
        /\ \A r \in Sessions \ {s} : Same(r)
        /\ UNCHANGED <<books, members>>
    BY <1>2 DEF EnsureRefs, Goto, IInv, TypeOK, Same
  <2>3. TypeOK'
    <3>1. /\ pc' = [pc EXCEPT ![s] = "apply"] /\ idx' = [idx EXCEPT ![s] = 1]
          /\ UNCHANGED <<books, members, op, waiting, pending>>
      BY <1>2 DEF EnsureRefs, Goto
    <3> QED  BY <3>1, ConstantsStay DEF books, IInv, TypeOK, PCs
  <2>4. OpOK(s)'
    BY <2>1, <2>2, ConstantsStay DEF OpOK
  <2>5. \A w \in Wallets : Done(s, w)' = Done(s, w)
    <3>1. DeltasOf(s)' = BalanceDeltas(op[s].input)
      BY <2>2 DEF DeltasOf
    <3>2. \A w \in Wallets : Undone(s, w)' = Undone(s, w) /\ Undone(s, w) \in Int
      BY <2>1, <2>2, RequestDeltas DEF Undone
    <3> QED  BY <2>1, <2>2, <3>1, <3>2 DEF Done, Shape
  <2>6. \A w \in Wallets : Seen(s, w)' = Seen(s, w) /\ (Holds(s, w)' <=> Holds(s, w))
    BY <2>2 DEF Seen, Holds, books
  <2>7. \A t \in Entries : HoldsEntry(s, t)' <=> HoldsEntry(s, t)
    BY <2>1, <2>2 DEF HoldsEntry
  <2> QED  BY <2>1, <2>2, <2>3, <2>4, <2>5, <2>6, <2>7, LocalStep
             DEF IInv, RowLocks, WrittenInv, OldRowIsCurrent, WritesBuildOnCommitted
<1> QED  BY <1>1, <1>2

LEMMA IssueDeltaInv ==
  ASSUME IInv, NEW s \in Sessions, IssueDelta(s)
  PROVE  IInv'
<1> DEFINE ok == CanWrite(op[s].user, DeltasOf(s)[idx[s]].wallet)
<1>1. CASE ~ ok
  BY <1>1, RollbackInv DEF IssueDelta
<1>2. CASE ok
  <2>1. pc[s] \in {"reverse", "apply"} /\ OpOK(s) /\ idx[s] <= Len(DeltasOf(s))
    BY DEF IssueDelta, IInv, OpInv
  <2>2. /\ pc'[s] = pc[s] /\ op'[s] = op[s] /\ idx'[s] = idx[s]
        /\ pending'[s] = pending[s]
        /\ \A r \in Sessions \ {s} : Same(r)
        /\ UNCHANGED <<books, members>>
    BY <1>2 DEF IssueDelta, IInv, TypeOK, Same
  <2>3. TypeOK'
    BY <1>2 DEF IssueDelta, books, IInv, TypeOK, PCs
  <2>4. DeltasOf(s)' = DeltasOf(s) /\ \A w \in Wallets : Undone(s, w)' = Undone(s, w)
    BY <2>2 DEF DeltasOf, Undone
  <2>5. OpOK(s)'
    BY <2>1, <2>2, <2>4, ConstantsStay DEF OpOK
  <2>6. \A w \in Wallets : Done(s, w)' = Done(s, w)
    BY <2>2, <2>4 DEF Done
  <2>7. \A w \in Wallets : Seen(s, w)' = Seen(s, w) /\ (Holds(s, w)' <=> Holds(s, w))
    BY <2>2 DEF Seen, Holds, books
  <2>8. \A t \in Entries : HoldsEntry(s, t)' <=> HoldsEntry(s, t)
    BY <2>2 DEF HoldsEntry
  <2>9. \A i \in 1 .. idx[s] - 1 :
          Holds(s, DeltasOf(s)[i].wallet)' <=> Holds(s, DeltasOf(s)[i].wallet)
    BY <2>2, <2>4 DEF Holds
  <2> QED  BY <2>1, <2>2, <2>3, <2>4, <2>5, <2>6, <2>7, <2>8, <2>9, LocalStep
             DEF IInv, RowLocks, WrittenInv, OldRowIsCurrent, WritesBuildOnCommitted
<1> QED  BY <1>1, <1>2

(* The UPDATE adds its delta to the committed balance or to the session's  *)
(* own earlier write, and no other session can have written the wallet.    *)
LEMMA ApplyDeltaInv ==
  ASSUME IInv, NEW s \in Sessions, ApplyDelta(s)
  PROVE  IInv'
<1> DEFINE d   == DeltasOf(s)[idx[s]]
           sum == Seen(s, d.wallet) + d.amount
           ok  == status[d.wallet] = "open" /\ InRange(sum)
<1>1. CASE ~ ok
  BY <1>1, RollbackInv DEF ApplyDelta
<1>2. CASE ok
  <2>1. /\ pc[s] \in {"reverse", "apply"} /\ OpOK(s) /\ op[s] \in Op
        /\ idx[s] \in 1 .. Len(DeltasOf(s)) /\ idx[s] \in {1, 2}
        /\ Shape(DeltasOf(s))
        /\ \A r \in Sessions \ {s} : ~ Holds(r, d.wallet)
    <3>1. waiting[s] /\ OpOK(s) /\ idx[s] \in 1 .. 3
      BY DEF ApplyDelta, IInv, OpInv, TypeOK
    <3>2. pc[s] \in {"reverse", "apply"} /\ idx[s] <= Len(DeltasOf(s)) /\ op[s] \in Op
      BY <3>1 DEF OpOK
    <3>3. Shape(DeltasOf(s))
      BY <3>2, RequestDeltas
    <3> QED  BY <3>1, <3>2, <3>3 DEF Shape, ApplyDelta
  <2>2. d.wallet \in Wallets /\ d.amount \in Int
    BY <2>1 DEF Shape
  <2>3. Seen(s, d.wallet) \in Int
    BY <2>2, BalancesAreInts DEF Seen
  <2>4. sum \in Minor /\ sum # Unwritten
    BY <1>2, <2>2, <2>3, HalfAssumption, StoreAssumption DEF InRange, Minor
  <2>5. PICK v \in Wallets, a \in Int, new \in Minor :
          v = d.wallet /\ a = d.amount /\ new = sum
    BY <2>2, <2>4
  <2>6. /\ new = Seen(s, v) + a /\ new # Unwritten
        /\ status[v] = "open"
        /\ \A r \in Sessions \ {s} : ~ Holds(r, v)
    BY <1>2, <2>1, <2>4, <2>5
  <2>7. /\ pending' = [pending EXCEPT ![s] = [pending[s] EXCEPT ![v] = new]]
        /\ idx'     = [idx EXCEPT ![s] = idx[s] + 1]
        /\ waiting' = [waiting EXCEPT ![s] = FALSE]
        /\ UNCHANGED <<books, members, pc, op>>
    BY <1>2, <2>5 DEF ApplyDelta
  <2>8. \A w \in Wallets :
          /\ Applied(DeltasOf(s), idx[s] - 1, w) \in Int
          /\ Applied(DeltasOf(s), idx[s], w) =
               Applied(DeltasOf(s), idx[s] - 1, w) + IF v = w THEN a ELSE 0
    BY <2>1, <2>5 DEF Shape
  <2> HIDE DEF d, sum, ok
  <2>9. TypeOK'
    <3>1. pending' \in [Sessions -> [Wallets -> Minor \cup {Unwritten}]]
      BY <2>7 DEF IInv, TypeOK
    <3>2. idx' \in [Sessions -> 1 .. 3]
      BY <2>1, <2>7 DEF IInv, TypeOK
    <3> QED  BY <2>7, <3>1, <3>2, ConstantsStay DEF books, IInv, TypeOK, PCs
  <2>10. /\ pc'[s] = pc[s] /\ op'[s] = op[s] /\ idx'[s] = idx[s] + 1 /\ ~ waiting'[s]
         /\ pending'[s][v] = new
         /\ \A w \in Wallets \ {v} : pending'[s][w] = pending[s][w]
         /\ \A r \in Sessions \ {s} : Same(r)
    BY <2>7 DEF IInv, TypeOK, Same
  <2>11. DeltasOf(s)' = DeltasOf(s) /\ \A w \in Wallets : Undone(s, w)' = Undone(s, w)
    BY <2>10 DEF DeltasOf, Undone
  <2>12. OpOK(s)'
    BY <2>1, <2>10, <2>11, ConstantsStay DEF OpOK
  <2>13. /\ Holds(s, v)' /\ Seen(s, v)' = new
         /\ \A w \in Wallets \ {v} :
              Seen(s, w)' = Seen(s, w) /\ (Holds(s, w)' <=> Holds(s, w))
    <3>1. balance' = balance
      BY <2>7 DEF books
    <3> QED  BY <2>6, <2>10, <3>1 DEF Seen, Holds
  <2>14. /\ Done(s, v) \in Int /\ Done(s, v)' = Done(s, v) + a
         /\ \A w \in Wallets \ {v} : Done(s, w)' = Done(s, w)
    <3>1. \A w \in Wallets : pc[s] = "apply" => Undone(s, w) \in Int
      BY RequestDeltas
    <3>2. idx'[s] - 1 = idx[s]
      BY <2>1, <2>10
    <3>3. CASE pc[s] = "reverse"
      BY <2>8, <2>10, <2>11, <3>2, <3>3 DEF Done
    <3>4. CASE pc[s] = "apply"
      BY <2>8, <2>10, <2>11, <3>1, <3>2, <3>4 DEF Done
    <3> QED  BY <2>1, <3>3, <3>4
  <2>15. \A w \in Wallets : Seen(s, w)' = balance[w] + Done(s, w)'
    <3>1. \A w \in Wallets : Seen(s, w) = balance[w] + Done(s, w) /\ balance[w] \in Int
      BY BalancesAreInts DEF IInv, WritesBuildOnCommitted
    <3>2. Seen(s, v)' = balance[v] + Done(s, v)'
      BY <2>6, <2>13, <2>14, <3>1
    <3>3. ASSUME NEW w \in Wallets \ {v}
          PROVE  Seen(s, w)' = balance[w] + Done(s, w)'
      BY <2>13, <2>14, <3>1
    <3> QED  BY <3>2, <3>3
  <2>16. \A t \in Entries : HoldsEntry(s, t)' <=> HoldsEntry(s, t)
    BY <2>10 DEF HoldsEntry
  <2>17. \A w \in Wallets : Holds(s, w)' =>
           status[w] = "open" /\ \A r \in Sessions \ {s} : ~ Holds(r, w)
    BY <2>6, <2>13 DEF IInv, RowLocks, WrittenInv
  <2>18. pc[s] = "apply" =>
           \A i \in 1 .. idx'[s] - 1 : Holds(s, DeltasOf(s)[i].wallet)'
    <3> SUFFICES ASSUME pc[s] = "apply", NEW i \in 1 .. idx'[s] - 1
                 PROVE  Holds(s, DeltasOf(s)[i].wallet)'
      OBVIOUS
    <3>1. i \in 1 .. idx[s]
      BY <2>1, <2>10
    <3>2. PICK w \in Wallets : w = DeltasOf(s)[i].wallet /\ w = DeltasOf(s)'[i].wallet
      BY <2>1, <2>11, <3>1 DEF Shape
    <3>3. CASE w = v
      BY <2>6, <2>10, <3>2, <3>3 DEF Holds
    <3>4. CASE w # v
      <4>0. i # idx[s]
        BY <2>5, <3>2, <3>4 DEF d
      <4>1. i \in 1 .. idx[s] - 1
        BY <2>1, <3>1, <4>0
      <4>2. Holds(s, w)
        BY <3>2, <4>1 DEF IInv, WrittenInv
      <4> QED  BY <2>10, <3>2, <3>4, <4>2 DEF Holds
    <3> QED  BY <3>3, <3>4
  <2>19. /\ \A t \in Entries : HoldsEntry(s, t)' => \A r \in Sessions \ {s} : ~ HoldsEntry(r, t)
         /\ pc'[s] # "idle" /\ op'[s].kind = "create" =>
              \A r \in Sessions \ {s} : pc[r] # "idle" /\ op[r].kind = "create" =>
                op'[s].entry # op[r].entry
         /\ pc'[s] \in {"reverse", "refs", "apply", "write"} =>
              journal[op'[s].entry] = op'[s].old
    BY <2>10, <2>16 DEF IInv, RowLocks, OldRowIsCurrent
  <2> QED  BY <2>1, <2>7, <2>9, <2>10, <2>12, <2>15, <2>17, <2>18, <2>19, LocalStep
<1> QED  BY <1>1, <1>2

(* Every wallet of an input has a delta.                                   *)
LEMMA DeltasCover ==
  ASSUME NEW in \in Inputs, NEW w \in WalletsOf(in)
  PROVE  \E i \in 1 .. Len(BalanceDeltas(in)) : BalanceDeltas(in)[i].wallet = w
<1>1. CASE in.type = "transfer"
  <2>1. Len(BalanceDeltas(in)) = 2 /\ w \in {in.wallet, in.to}
    BY <1>1, DeltasSeq DEF WalletsOf
  <2> QED  BY <1>1, <2>1, DeltasSeq
<1>2. CASE in.type # "transfer"
  <2>1. Len(BalanceDeltas(in)) = 1 /\ w = in.wallet
    BY <1>2, DeltasSeq, InputShape DEF WalletsOf
  <2> QED  BY <2>1, DeltasSeq
<1> QED  BY <1>1, <1>2

LEMMA DeltasDoneInv ==
  ASSUME IInv, NEW s \in Sessions, DeltasDone(s)
  PROVE  IInv'
<1> DEFINE label == IF pc[s] = "reverse" /\ op[s].kind = "update" THEN "refs" ELSE "write"
<1>1. /\ pc[s] \in {"reverse", "apply"} /\ OpOK(s) /\ op[s] \in Op
      /\ Shape(DeltasOf(s))
      /\ idx[s] - 1 \in Len(DeltasOf(s)) .. 2
      /\ ~ waiting[s]
  <2>1. pc[s] \in {"reverse", "apply"} /\ OpOK(s) /\ op[s] \in Op /\ Shape(DeltasOf(s))
    BY RequestDeltas DEF DeltasDone, IInv, OpInv
  <2>2. idx[s] \in 1 .. 3 /\ idx[s] > Len(DeltasOf(s)) /\ Len(DeltasOf(s)) \in {1, 2}
    BY <2>1 DEF DeltasDone, IInv, TypeOK, Shape
  <2>3. ~ (idx[s] <= Len(DeltasOf(s)))
    BY <2>2
  <2>4. ~ waiting[s]
    BY <2>1, <2>3 DEF OpOK
  <2> QED  BY <2>1, <2>2, <2>4
<1>2. /\ pc' = [pc EXCEPT ![s] = label] /\ idx' = [idx EXCEPT ![s] = 1]
      /\ UNCHANGED <<books, members, op, waiting, pending>>
  BY DEF DeltasDone, Goto
<1>3. /\ pc'[s] = label /\ idx'[s] = 1 /\ op'[s] = op[s]
      /\ pending'[s] = pending[s] /\ waiting'[s] = waiting[s]
      /\ \A r \in Sessions \ {s} : Same(r)
  BY <1>2 DEF IInv, TypeOK, Same
<1>4. op[s].kind \in Kinds /\ label \in {"refs", "write"} /\ label \in PCs
  BY <1>1 DEF Op, PCs
<1>5. pc[s] = "reverse" => op[s].kind \in {"update", "delete"}
  BY <1>1, <1>4 DEF OpOK, Kinds
<1>6. pc[s] = "apply" => op[s].kind # "delete"
  BY <1>1 DEF OpOK
<1>7. TypeOK'
  BY <1>2, <1>4, ConstantsStay DEF books, IInv, TypeOK, PCs
<1>8. OpOK(s)'
  BY <1>1, <1>3, <1>5, <1>6, ConstantsStay DEF OpOK
<1>9. \A w \in Wallets : Seen(s, w)' = Seen(s, w) /\ (Holds(s, w)' <=> Holds(s, w))
  BY <1>2, <1>3 DEF Seen, Holds, books
<1>10. \A w \in Wallets : Done(s, w)' = Done(s, w)
  <2> SUFFICES ASSUME NEW w \in Wallets PROVE Done(s, w)' = Done(s, w)
    OBVIOUS
  <2>1. Applied(DeltasOf(s), idx[s] - 1, w) = NetDelta(DeltasOf(s), w)
        /\ NetDelta(DeltasOf(s), w) \in Int
    BY <1>1 DEF Shape, NetDelta
  <2>2. Undone(s, w)' = Undone(s, w)
    BY <1>3 DEF Undone
  <2>3. CASE pc[s] = "reverse"
    <3>1. Undone(s, w) = NetDelta(DeltasOf(s), w)
      BY <1>5, <2>3 DEF Undone, DeltasOf
    <3>2. Done(s, w) = Undone(s, w) /\ Undone(s, w) \in Int
      BY <2>1, <2>3, <3>1 DEF Done
    <3>3. Done(s, w)' = Undone(s, w)
      BY <1>3, <1>5, <2>2, <2>3, <3>2 DEF Done
    <3> QED  BY <3>2, <3>3
  <2>4. CASE pc[s] = "apply"
    <3>1. Done(s, w) = Undone(s, w) + NetDelta(DeltasOf(s), w)
      BY <2>1, <2>4 DEF Done
    <3>2. DeltasOf(s)' = DeltasOf(s)
      BY <1>3, <2>4 DEF DeltasOf
    <3>3. Done(s, w)' = Undone(s, w) + NetDelta(DeltasOf(s), w)
      BY <1>3, <1>6, <2>2, <2>4, <3>2 DEF Done
    <3> QED  BY <3>1, <3>3
  <2> QED  BY <1>1, <2>3, <2>4
<1>11. pc'[s] = "write" /\ op'[s].kind # "delete" =>
         \A w \in WalletsOf(op'[s].input) : Holds(s, w)'
  <2> SUFFICES ASSUME pc'[s] = "write", op'[s].kind # "delete",
                      NEW w \in WalletsOf(op'[s].input)
               PROVE  Holds(s, w)'
    OBVIOUS
  <2>1. pc[s] = "apply"
    BY <1>1, <1>3, <1>5
  <2>2. DeltasOf(s) = BalanceDeltas(op[s].input) /\ op[s].input \in Inputs
    BY <1>1, <2>1 DEF DeltasOf, Op
  <2>3. PICK i \in 1 .. Len(DeltasOf(s)) : DeltasOf(s)[i].wallet = w
    BY <1>3, <2>2, DeltasCover
  <2>4. i \in 1 .. idx[s] - 1
    BY <1>1, <2>3 DEF Shape
  <2>5. Holds(s, w)
    BY <2>1, <2>3, <2>4 DEF IInv, WrittenInv
  <2> QED  BY <1>3, <2>5 DEF Holds
<1>12. \A t \in Entries : HoldsEntry(s, t)' <=> HoldsEntry(s, t)
  BY <1>1, <1>3 DEF HoldsEntry
<1>13. pc'[s] = "apply" => FALSE
  BY <1>3
<1>14. /\ \A w \in Wallets : Holds(s, w)' =>
            status[w] = "open" /\ \A r \in Sessions \ {s} : ~ Holds(r, w)
       /\ \A t \in Entries : HoldsEntry(s, t)' =>
            \A r \in Sessions \ {s} : ~ HoldsEntry(r, t)
       /\ pc'[s] # "idle" /\ op'[s].kind = "create" =>
            \A r \in Sessions \ {s} : pc[r] # "idle" /\ op[r].kind = "create" =>
              op'[s].entry # op[r].entry
       /\ pc'[s] \in {"reverse", "refs", "apply", "write"} =>
            journal[op'[s].entry] = op'[s].old
       /\ \A w \in Wallets : Seen(s, w)' = balance[w] + Done(s, w)'
  BY <1>1, <1>3, <1>9, <1>10, <1>12
     DEF IInv, RowLocks, WrittenInv, OldRowIsCurrent, WritesBuildOnCommitted
<1> HIDE DEF label
<1> QED  BY <1>2, <1>3, <1>7, <1>8, <1>11, <1>13, <1>14, LocalStep

LEMMA DoneInt ==
  ASSUME IInv, NEW s \in Sessions, NEW w \in Wallets
  PROVE  Done(s, w) \in Int
<1>1. CASE pc[s] = "idle" \/ pc[s] = "lock"
  BY <1>1 DEF Done
<1>2. CASE pc[s] # "idle" /\ pc[s] # "lock"
  <2>1. Shape(DeltasOf(s)) /\ idx[s] - 1 \in 0 .. 2
    BY <1>2, RequestDeltas DEF IInv, TypeOK
  <2>2. /\ Applied(DeltasOf(s), idx[s] - 1, w) \in Int
        /\ NetDelta(DeltasOf(s), w) \in Int
    BY <2>1 DEF Shape, NetDelta
  <2>3. pc[s] \in {"refs", "apply", "write"} => Undone(s, w) \in Int
    BY <1>2, RequestDeltas
  <2> QED  BY <1>2, <2>2, <2>3 DEF Done
<1> QED  BY <1>1, <1>2

(* COMMIT publishes balances that were built on the committed ones, and a  *)
(* row that no other session is rewriting.                                 *)
LEMMA CommitInv ==
  ASSUME IInv, NEW s \in Sessions, Commit(s)
  PROVE  IInv'
<1> DEFINE t == op[s].entry
           e == IF op[s].kind = "delete" THEN NoEntry
                ELSE [user |-> op[s].user, input |-> op[s].input]
<1>1. /\ pc[s] = "write" /\ op[s] \in Op /\ OpOK(s) /\ ~ waiting[s]
      /\ t \in Entries /\ e \in Entry \cup {NoEntry}
  <2>1. pc[s] = "write" /\ op[s] \in Op /\ OpOK(s) /\ waiting[s] \in BOOLEAN
    BY RequestDeltas DEF Commit, IInv, OpInv, TypeOK
  <2>2. ~ waiting[s]
    BY <2>1 DEF OpOK
  <2> QED  BY <2>1, <2>2 DEF Op, Entry
<1>2. /\ journal' = [journal EXCEPT ![t] = e]
      /\ balance' = [w \in Wallets |-> Seen(s, w)]
      /\ pc' = [pc EXCEPT ![s] = "idle"] /\ op' = [op EXCEPT ![s] = NoOp]
      /\ idx' = [idx EXCEPT ![s] = 1] /\ pending' = [pending EXCEPT ![s] = Clean]
      /\ UNCHANGED <<status, opening, members, waiting>>
  BY DEF Commit
<1>3. /\ pc'[s] = "idle" /\ idx'[s] = 1 /\ ~ waiting'[s] /\ pending'[s] = Clean
      /\ \A r \in Sessions \ {s} : Same(r)
  BY <1>1, <1>2 DEF IInv, TypeOK, Same
<1>4. \A w \in Wallets : Seen(s, w) \in Minor /\ balance'[w] = Seen(s, w) /\ balance'[w] \in Int
  <2>1. \A w \in Wallets : Seen(s, w) \in Minor
    BY DEF IInv, TypeOK, Seen, Holds
  <2>2. \A x \in Minor : x \in Int
    BY HalfAssumption DEF Minor
  <2> QED  BY <1>2, <2>1, <2>2
<1> HIDE DEF e
<1>5. TypeOK'
  <2>1. balance' \in [Wallets -> Minor]
    BY <1>2, <1>4
  <2>2. journal' \in [Entries -> Entry \cup {NoEntry}]
    BY <1>1, <1>2 DEF IInv, TypeOK
  <2>3. pending' \in [Sessions -> [Wallets -> Minor \cup {Unwritten}]]
    BY <1>2 DEF IInv, TypeOK, Clean
  <2>4. pc' \in [Sessions -> PCs] /\ op' \in [Sessions -> Op \cup {NoOp}]
        /\ idx' \in [Sessions -> 1 .. 3]
    BY <1>2 DEF IInv, TypeOK, PCs
  <2> QED  BY <1>2, <2>1, <2>2, <2>3, <2>4, ConstantsStay DEF IInv, TypeOK, PCs
<1>6. OpInv'
  <2>1. OpOK(s)'
    BY <1>3, ConstantsStay DEF OpOK
  <2> QED  BY <1>3, <2>1, Frame DEF IInv, OpInv
<1>7. /\ \A w \in Wallets : ~ Holds(s, w)'
      /\ \A x \in Entries : ~ HoldsEntry(s, x)'
      /\ \A w \in Wallets : Done(s, w)' = 0
  BY <1>3 DEF Holds, HoldsEntry, Done, Clean
<1>8. RowLocks'
  <2> SUFFICES ASSUME NEW a \in Sessions, NEW b \in Sessions, a # b
               PROVE  /\ \A w \in Wallets : ~ (Holds(a, w)' /\ Holds(b, w)')
                      /\ \A x \in Entries : ~ (HoldsEntry(a, x)' /\ HoldsEntry(b, x)')
                      /\ pc'[a] # "idle" /\ op'[a].kind = "create"
                           /\ pc'[b] # "idle" /\ op'[b].kind = "create"
                           => op'[a].entry # op'[b].entry
    BY DEF RowLocks
  <2>1. CASE a # s /\ b # s
    BY <1>3, <2>1, Frame DEF IInv, RowLocks, Same
  <2>2. CASE a = s \/ b = s
    BY <1>3, <1>7, <2>2
  <2> QED  BY <2>1, <2>2
<1>9. WrittenInv'
  <2> SUFFICES ASSUME NEW r \in Sessions
               PROVE  /\ \A w \in Wallets : Holds(r, w)' => status'[w] = "open"
                      /\ pc'[r] = "apply" =>
                           \A i \in 1 .. idx'[r] - 1 : Holds(r, DeltasOf(r)[i].wallet)'
                      /\ pc'[r] = "write" /\ op'[r].kind # "delete" =>
                           \A w \in WalletsOf(op'[r].input) : Holds(r, w)'
    BY DEF WrittenInv, WalletsOf
  <2>1. CASE r = s
    BY <1>3, <1>7, <2>1
  <2>2. CASE r # s
    <3>1. Same(r)
      BY <1>3, <2>2
    <3>2. \A i \in 1 .. idx[r] - 1 : Holds(r, DeltasOf(r)[i].wallet)' <=> Holds(r, DeltasOf(r)[i].wallet)
      BY <3>1, Frame DEF Holds, Same
    <3> QED  BY <1>2, <3>1, <3>2, Frame DEF IInv, WrittenInv, Same
  <2> QED  BY <2>1, <2>2
<1>10. OldRowIsCurrent'
  <2> SUFFICES ASSUME NEW r \in Sessions, pc'[r] \in {"reverse", "refs", "apply", "write"}
               PROVE  journal'[op'[r].entry] = op'[r].old
    BY DEF OldRowIsCurrent
  <2>1. r # s /\ Same(r) /\ pc[r] \in {"reverse", "refs", "apply", "write"}
    BY <1>3 DEF Same
  <2>2. op[r] \in Op /\ op[r].entry \in Entries /\ OpOK(r)
    BY <2>1, RequestDeltas DEF Op, IInv, OpInv
  <2>3. journal[op[r].entry] = op[r].old /\ journal[t] = op[s].old
    BY <1>1, <2>1 DEF IInv, OldRowIsCurrent
  <2>4. op[r].entry # t
    <3> SUFFICES ASSUME op[r].entry = t PROVE FALSE
      OBVIOUS
    <3>1. op[r].kind = "create" <=> op[s].kind = "create"
      BY <1>1, <2>1, <2>2, <2>3 DEF OpOK
    <3>2. CASE op[s].kind = "create"
      BY <1>1, <2>1, <3>1, <3>2 DEF IInv, RowLocks
    <3>3. CASE op[s].kind # "create"
      <4>1. HoldsEntry(s, t) /\ HoldsEntry(r, t)
        BY <1>1, <2>1, <3>1, <3>3 DEF HoldsEntry
      <4> QED  BY <1>1, <2>1, <4>1 DEF IInv, RowLocks
    <3> QED  BY <3>2, <3>3
  <2>5. journal'[op[r].entry] = journal[op[r].entry]
    BY <1>2, <2>2, <2>4 DEF IInv, TypeOK
  <2> QED  BY <2>1, <2>3, <2>5 DEF Same
<1>11. WritesBuildOnCommitted'
  <2> SUFFICES ASSUME NEW r \in Sessions, NEW w \in Wallets
               PROVE  Seen(r, w)' = balance'[w] + Done(r, w)'
    BY DEF WritesBuildOnCommitted
  <2>1. CASE r = s
    BY <1>4, <1>7, <2>1 DEF Seen
  <2>2. CASE r # s
    <3>1. Same(r) /\ Done(r, w)' = Done(r, w) /\ (Holds(r, w)' <=> Holds(r, w))
      BY <1>3, <2>2, Frame
    <3>2. Seen(r, w) = balance[w] + Done(r, w) /\ balance[w] \in Int
      BY BalancesAreInts DEF IInv, WritesBuildOnCommitted
    <3>3. CASE Holds(r, w)
      <4>1. ~ Holds(s, w)
        BY <2>2, <3>3 DEF IInv, RowLocks
      <4>2. balance'[w] = balance[w]
        BY <1>4, <4>1 DEF Seen
      <4> QED  BY <3>1, <3>2, <3>3, <4>2 DEF Seen, Same
    <3>4. CASE ~ Holds(r, w)
      <4>1. balance[w] = balance[w] + Done(r, w)
        BY <3>2, <3>4 DEF Seen
      <4>2. Done(r, w) \in Int
        BY <2>2, DoneInt
      <4>3. Done(r, w) = 0
        BY <3>2, <4>1, <4>2
      <4> QED  BY <1>4, <3>1, <3>4, <4>3 DEF Seen
    <3> QED  BY <3>3, <3>4
  <2> QED  BY <2>1, <2>2
<1>12. EntriesNameOpenWallets'
  <2> SUFFICES ASSUME NEW x \in Entries, NEW w \in Wallets, L!References(journal'[x], w)
               PROVE  status'[w] = "open"
    BY DEF EntriesNameOpenWallets, L!EntriesNameOpenWallets, L!References
  <2>1. CASE x # t
    BY <1>1, <1>2, <2>1
       DEF IInv, TypeOK, EntriesNameOpenWallets, L!EntriesNameOpenWallets
  <2>2. CASE x = t
    <3>1. journal'[x] = e
      BY <1>1, <1>2, <2>2 DEF IInv, TypeOK
    <3>2. op[s].kind # "delete" /\ w \in WalletsOf(op[s].input)
      BY <3>1, StoreAssumption DEF e, L!References, WalletsOf
    <3> QED  BY <1>1, <1>2, <3>2 DEF IInv, WrittenInv
  <2> QED  BY <2>1, <2>2
<1> QED  BY <1>5, <1>6, <1>8, <1>9, <1>10, <1>11, <1>12 DEF IInv

(* Creating or closing a wallet, and changing shares, leaves the requests  *)
(* alone if no session has written the wallet it touches.                  *)
LEMMA WalletStep ==
  ASSUME IInv, UNCHANGED <<journal, work>>, TypeOK',
         \A w \in Wallets :
           \/ status'[w] = status[w] /\ balance'[w] = balance[w]
           \/ \A s \in Sessions : ~ Holds(s, w),
         \A t \in Entries, w \in Wallets : L!References(journal[t], w) => status'[w] = "open"
  PROVE  IInv'
<1>1. \A s \in Sessions : Same(s)
  BY DEF Same, work
<1>2. OpInv'
  BY <1>1, Frame DEF IInv, OpInv
<1>3. RowLocks'
  BY DEF IInv, RowLocks, work, Holds, HoldsEntry
<1>4. WrittenInv'
  <2> SUFFICES ASSUME NEW s \in Sessions
               PROVE  /\ \A w \in Wallets : Holds(s, w)' => status'[w] = "open"
                      /\ pc'[s] = "apply" =>
                           \A i \in 1 .. idx'[s] - 1 : Holds(s, DeltasOf(s)[i].wallet)'
                      /\ pc'[s] = "write" /\ op'[s].kind # "delete" =>
                           \A w \in WalletsOf(op'[s].input) : Holds(s, w)'
    BY DEF WrittenInv, WalletsOf
  <2>1. \A i \in 1 .. idx[s] - 1 : Holds(s, DeltasOf(s)[i].wallet)' <=> Holds(s, DeltasOf(s)[i].wallet)
    BY <1>1, Frame DEF Holds, Same
  <2> QED  BY <1>1, <2>1, Frame DEF IInv, WrittenInv, Same
<1>5. OldRowIsCurrent'
  BY DEF IInv, OldRowIsCurrent, work
<1>6. WritesBuildOnCommitted'
  <2> SUFFICES ASSUME NEW s \in Sessions, NEW w \in Wallets
               PROVE  Seen(s, w)' = balance'[w] + Done(s, w)'
    BY DEF WritesBuildOnCommitted
  <2>1. /\ Done(s, w)' = Done(s, w) /\ (Holds(s, w)' <=> Holds(s, w))
        /\ pending'[s] = pending[s]
    BY <1>1, Frame DEF Same
  <2>2. Seen(s, w) = balance[w] + Done(s, w) /\ balance[w] \in Int /\ balance'[w] \in Int
    <3>1. balance'[w] \in Minor
      BY ConstantsStay DEF TypeOK
    <3> QED  BY <3>1, BalancesAreInts, HalfAssumption DEF IInv, WritesBuildOnCommitted, Minor
  <2>3. CASE balance'[w] = balance[w]
    BY <2>1, <2>2, <2>3 DEF Seen
  <2>4. CASE ~ Holds(s, w)
    <3>1. balance[w] = balance[w] + Done(s, w) /\ Done(s, w) \in Int
      BY <2>2, <2>4, DoneInt DEF Seen
    <3>2. Done(s, w) = 0
      BY <2>2, <3>1
    <3> QED  BY <2>1, <2>2, <2>4, <3>2 DEF Seen
  <2> QED  BY <2>3, <2>4
<1>7. EntriesNameOpenWallets'
  BY DEF EntriesNameOpenWallets, L!EntriesNameOpenWallets, L!References
<1> QED  BY <1>2, <1>3, <1>4, <1>5, <1>6, <1>7 DEF IInv

LEMMA EnvironmentInv ==
  ASSUME IInv, Environment
  PROVE  IInv'
<1>1. ASSUME NEW w \in Wallets, NEW b \in OpeningBalances, OpenWallet(w, b)
      PROVE  IInv'
  <2>1. b \in Minor
    BY StoreAssumption DEF Minor
  <2>2. TypeOK'
    <3>1. /\ status' = [status EXCEPT ![w] = "open"] /\ opening' = [opening EXCEPT ![w] = b]
          /\ balance' = [balance EXCEPT ![w] = b] /\ UNCHANGED <<journal, members, work>>
      BY <1>1 DEF OpenWallet
    <3> QED  BY <2>1, <3>1, ConstantsStay DEF work, IInv, TypeOK, PCs
  <2>3. \A s \in Sessions : ~ Holds(s, w)
    BY <1>1 DEF OpenWallet, IInv, WrittenInv
  <2>4. \A v \in Wallets \ {w} : status'[v] = status[v] /\ balance'[v] = balance[v]
    BY <1>1 DEF OpenWallet, IInv, TypeOK
  <2>5. status'[w] = "open"
    BY <1>1 DEF OpenWallet, IInv, TypeOK
  <2>6. \A t \in Entries, v \in Wallets : L!References(journal[t], v) => status'[v] = "open"
    BY <2>4, <2>5 DEF IInv, EntriesNameOpenWallets, L!EntriesNameOpenWallets
  <2>7. UNCHANGED <<journal, work>>
    BY <1>1 DEF OpenWallet
  <2> QED  BY <2>2, <2>3, <2>4, <2>6, <2>7, WalletStep
<1>2. ASSUME NEW w \in Wallets, CloseWallet(w)
      PROVE  IInv'
  <2>1. TypeOK'
    <3>1. /\ status' = [status EXCEPT ![w] = "closed"] /\ members' = [members EXCEPT ![w] = {}]
          /\ UNCHANGED <<opening, balance, journal, work>>
      BY <1>2 DEF CloseWallet
    <3> QED  BY <3>1, ConstantsStay DEF work, IInv, TypeOK, PCs
  <2>2. \A s \in Sessions : ~ Holds(s, w)
    BY <1>2 DEF CloseWallet
  <2>3. \A v \in Wallets \ {w} : status'[v] = status[v] /\ balance'[v] = balance[v]
    BY <1>2 DEF CloseWallet, IInv, TypeOK
  <2>4. \A t \in Entries : ~ L!References(journal[t], w)
    BY <1>2, StoreAssumption DEF CloseWallet, WalletsOf, L!References
  <2>5. \A t \in Entries, v \in Wallets : L!References(journal[t], v) => status'[v] = "open"
    BY <2>3, <2>4 DEF IInv, EntriesNameOpenWallets, L!EntriesNameOpenWallets
  <2>6. UNCHANGED <<journal, work>>
    BY <1>2 DEF CloseWallet
  <2> QED  BY <2>1, <2>2, <2>3, <2>5, <2>6, WalletStep
<1>3. ASSUME NEW w \in Wallets, NEW u \in Users, SetMember(w, u)
      PROVE  IInv'
  <2>1. members' \in [Wallets -> SUBSET Users] /\ UNCHANGED <<books, work>>
    BY <1>3 DEF SetMember, IInv, TypeOK
  <2>2. TypeOK'
    BY <2>1, ConstantsStay DEF books, work, IInv, TypeOK
  <2> QED  BY <2>1, <2>2, WalletStep
             DEF books, IInv, EntriesNameOpenWallets, L!EntriesNameOpenWallets
<1> QED  BY <1>1, <1>2, <1>3 DEF Environment

LEMMA NextInv == IInv /\ [Next]_vars => IInv'
<1> SUFFICES ASSUME IInv, [Next]_vars PROVE IInv'
  OBVIOUS
<1>1. ASSUME NEW s \in Sessions,
             Request(s) \/ LockEntry(s) \/ ApplyDelta(s) \/ Proceed(s)
               \/ Abort(s) \/ DeadlockVictim(s)
      PROVE  IInv'
  BY <1>1, RequestInv, LockEntryInv, EnsureRefsInv, IssueDeltaInv, ApplyDeltaInv,
     DeltasDoneInv, CommitInv, RollbackInv DEF Proceed, Abort, DeadlockVictim
<1>2. CASE UNCHANGED vars
  <2>1. UNCHANGED <<journal, work>> /\ UNCHANGED books /\ UNCHANGED members
    BY <1>2 DEF vars, work, books
  <2>2. TypeOK'
    BY <2>1, ConstantsStay DEF books, work, IInv, TypeOK
  <2> QED  BY <2>1, <2>2, WalletStep
             DEF books, IInv, EntriesNameOpenWallets, L!EntriesNameOpenWallets
<1> QED  BY <1>1, <1>2, EnvironmentInv DEF Next
-----------------------------------------------------------------------------
(* In every reachable state of every instance: types, what each request    *)
(* has locked, written and read, and the committed rows fit together.      *)
THEOREM Invariant == Spec => []IInv
<1>1. Init => IInv
  BY InitInv
<1>2. IInv /\ [Next]_vars => IInv'
  BY NextInv
<1> QED  BY <1>1, <1>2, PTL DEF Spec

(* Balances stay inside bigint, and rows keep the shape of the schema.     *)
THEOREM TypeCorrect == Spec => []TypeOK
<1>1. IInv => TypeOK
  BY DEF IInv
<1> QED  BY <1>1, Invariant, PTL

(* No request ever commits a balance computed from a stale read: whatever  *)
(* the interleaving, what it writes is the committed balance plus its own  *)
(* deltas (the UPDATE of applyDeltas), and the row whose deltas it takes   *)
(* back is still the row in the table (getForUpdate).                      *)
THEOREM Isolation == Spec => []WritersAreIsolated
<1>1. IInv => WritersAreIsolated
  BY DEF IInv, WritersAreIsolated
<1> QED  BY <1>1, Invariant, PTL

(* A wallet is never deleted under a row that names it, or under a request *)
(* that is writing such a row.                                             *)
THEOREM NoDanglingWallet == Spec => []EntriesNameOpenWallets
<1>1. IInv => EntriesNameOpenWallets
  BY DEF IInv
<1> QED  BY <1>1, Invariant, PTL
-----------------------------------------------------------------------------
AllMoneyFits == \A in \in Inputs : MoneyFits(in)

(* The two modules' arithmetic is the same.                                *)
LEMMA EffectIs ==
  ASSUME NEW e, NEW w
  PROVE  L!Effect(e, w) = IF e = NoEntry THEN 0 ELSE NetDelta(BalanceDeltas(e.input), w)
  BY DEF L!Effect, L!NetDelta, L!Applied, L!Leg, L!BalanceDeltas, L!Delta, L!Wrap,
     NetDelta, Applied, Leg, BalanceDeltas, Delta, Wrap

(* What a request is about to commit is what Ledger books for it.          *)
LEMMA DoneIsEffect ==
  ASSUME IInv, AllMoneyFits, NEW s \in Sessions, pc[s] = "write", NEW w \in Wallets,
         NEW e \in Entry \cup {NoEntry},
         op[s].kind = "delete" => e = NoEntry,
         op[s].kind # "delete" => e = [user |-> op[s].user, input |-> op[s].input]
  PROVE  Done(s, w) = L!Effect(e, w) - L!Effect(journal[op[s].entry], w)
<1>1. /\ op[s] \in Op /\ OpOK(s) /\ journal[op[s].entry] = op[s].old
      /\ Shape(BalanceDeltas(op[s].input))
      /\ op[s].old # NoEntry => op[s].old \in Entry
           /\ Shape(BalanceDeltas(op[s].old.input)) /\ op[s].old.input \in Inputs
  BY RequestDeltas, DeltasShape DEF IInv, OpInv, OldRowIsCurrent, Op, Entry
<1>2. Undone(s, w) = - L!Effect(op[s].old, w) /\ Undone(s, w) \in Int
        /\ L!Effect(op[s].old, w) \in Int
  <2>1. CASE op[s].kind = "create"
    <3>1. op[s].old = NoEntry
      BY <1>1, <2>1 DEF OpOK
    <3> QED  BY <2>1, <3>1, EffectIs DEF Undone
  <2>2. CASE op[s].kind # "create"
    <3>1. op[s].old # NoEntry
      BY <1>1, <2>2 DEF OpOK
    <3>2. NetDelta(ReverseDeltas(BalanceDeltas(op[s].old.input)), w) =
            - NetDelta(BalanceDeltas(op[s].old.input), w)
      BY <1>1, <3>1, ReverseUndoes DEF AllMoneyFits
    <3>3. NetDelta(BalanceDeltas(op[s].old.input), w) \in Int
      BY <1>1, <3>1 DEF Shape, NetDelta
    <3> QED  BY <2>2, <3>1, <3>2, <3>3, EffectIs DEF Undone
  <2> QED  BY <2>1, <2>2
<1>3. Done(s, w) = Undone(s, w) + L!Effect(e, w) /\ L!Effect(e, w) \in Int
  <2>1. CASE op[s].kind = "delete"
    BY <1>2, <2>1, EffectIs DEF Done
  <2>2. CASE op[s].kind # "delete"
    <3>1. e # NoEntry /\ e.input = op[s].input
      <4>1. [user |-> op[s].user, input |-> op[s].input] \in Entry
        BY <1>1 DEF Op, Entry
      <4> QED  BY <2>2, <4>1, StoreAssumption
    <3>2. DeltasOf(s) = BalanceDeltas(op[s].input)
      BY DEF DeltasOf
    <3>3. NetDelta(BalanceDeltas(op[s].input), w) \in Int
      BY <1>1 DEF Shape, NetDelta
    <3> QED  BY <2>2, <3>1, <3>2, <3>3, EffectIs DEF Done
  <2> QED  BY <2>1, <2>2
<1> QED  BY <1>1, <1>2, <1>3

LEMMA CommitRebooks ==
  ASSUME IInv, AllMoneyFits, NEW s \in Sessions, Commit(s)
  PROVE  L!Next
<1> DEFINE t == op[s].entry
           e == IF op[s].kind = "delete" THEN NoEntry
                ELSE [user |-> op[s].user, input |-> op[s].input]
<1>1. /\ pc[s] = "write" /\ op[s] \in Op /\ OpOK(s)
      /\ t \in Entries /\ e \in Entry \cup {NoEntry}
      /\ journal[t] = op[s].old
  BY RequestDeltas DEF Commit, Op, Entry, IInv, OpInv, OldRowIsCurrent
<1>2. \A w \in Wallets : Seen(s, w) = balance[w] - L!Effect(journal[t], w) + L!Effect(e, w)
  <2> SUFFICES ASSUME NEW w \in Wallets
               PROVE  Seen(s, w) = balance[w] - L!Effect(journal[t], w) + L!Effect(e, w)
    OBVIOUS
  <2>1. Done(s, w) = L!Effect(e, w) - L!Effect(journal[t], w)
    BY <1>1, DoneIsEffect
  <2>2. L!Effect(e, w) \in Int /\ L!Effect(journal[t], w) \in Int
    <3>1. \A x \in Entry \cup {NoEntry} : L!Effect(x, w) \in Int
      BY DeltasShape, EffectIs DEF Shape, NetDelta, Entry
    <3> QED  BY <1>1, <3>1 DEF IInv, TypeOK
  <2>3. Seen(s, w) = balance[w] + Done(s, w) /\ balance[w] \in Int
    BY BalancesAreInts DEF IInv, WritesBuildOnCommitted
  <2> QED  BY <2>1, <2>2, <2>3
<1>3. \A w \in Wallets : L!References(e, w) => status[w] = "open"
  BY <1>1, StoreAssumption DEF IInv, WrittenInv, L!References, WalletsOf
<1>4. /\ journal' = [journal EXCEPT ![t] = e]
      /\ balance' = [w \in Wallets |-> Seen(s, w)]
      /\ UNCHANGED <<status, opening>>
  BY DEF Commit
<1>5. balance' = [w \in Wallets |->
                   balance[w] - L!Effect(journal[t], w) + L!Effect(e, w)]
  BY <1>2, <1>4
<1>6. L!Rebook(t, e)
  BY <1>3, <1>4, <1>5 DEF L!Rebook
<1>7. CASE op[s].kind = "create"
  <2>1. L!Record(op[s].user, t, op[s].input)
    BY <1>1, <1>6, <1>7 DEF L!Record, OpOK
  <2> QED  BY <1>1, <2>1 DEF L!Next, Op
<1>8. CASE op[s].kind = "update"
  <2>1. L!Amend(op[s].user, t, op[s].input)
    BY <1>1, <1>6, <1>8 DEF L!Amend, OpOK
  <2> QED  BY <1>1, <2>1 DEF L!Next, Op
<1>9. CASE op[s].kind = "delete"
  <2>1. L!Remove(op[s].user, t)
    BY <1>1, <1>6, <1>9 DEF L!Remove, OpOK
  <2> QED  BY <1>1, <2>1 DEF L!Next, Op
<1> QED  BY <1>1, <1>7, <1>8, <1>9 DEF Op, Kinds

LEMMA StepRefines ==
  ASSUME IInv, AllMoneyFits, [Next]_vars
  PROVE  [L!Next]_L!vars
<1>1. ASSUME NEW s \in Sessions,
             Request(s) \/ LockEntry(s) \/ ApplyDelta(s) \/ EnsureRefs(s)
               \/ IssueDelta(s) \/ DeltasDone(s) \/ Abort(s) \/ DeadlockVictim(s)
      PROVE  UNCHANGED books
  BY <1>1 DEF Request, CreateRequest, UpdateRequest, DeleteRequest, Begin, LockEntry,
     ApplyDelta, EnsureRefs, IssueDelta, DeltasDone, Abort, DeadlockVictim, Rollback, books
<1>2. ASSUME NEW w \in Wallets, NEW b \in OpeningBalances, OpenWallet(w, b)
      PROVE  L!Next
  BY <1>2 DEF OpenWallet, L!OpenWallet, L!Next
<1>3. ASSUME NEW w \in Wallets, CloseWallet(w)
      PROVE  L!Next
  <2>1. \A t \in Entries : ~ L!References(journal[t], w)
    BY <1>3, StoreAssumption DEF CloseWallet, WalletsOf, L!References
  <2> QED  BY <1>3, <2>1 DEF CloseWallet, L!CloseWallet, L!Next
<1>4. ASSUME NEW w \in Wallets, NEW u \in Users, SetMember(w, u)
      PROVE  UNCHANGED books
  BY <1>4 DEF SetMember
<1>5. CASE UNCHANGED vars
  BY <1>5 DEF vars, L!vars
<1>6. UNCHANGED books => UNCHANGED L!vars
  BY DEF books, L!vars
<1> QED  BY <1>1, <1>2, <1>3, <1>4, <1>5, <1>6, CommitRebooks DEF Next, Environment, Proceed

(* The statement-by-statement store implements the atomic books, for any   *)
(* number of sessions, users, wallets and rows, provided that no input's   *)
(* amount plus fee leaves int64 (the handler does not check that it does   *)
(* not: see README.md).                                                    *)
THEOREM StoreImplementsLedger ==
  ASSUME AllMoneyFits
  PROVE  Spec => LedgerSpec
<1>1. Init => L!Init
  BY DEF Init, L!Init
<1>2. IInv /\ [Next]_vars => [L!Next]_L!vars
  BY StepRefines
<1> QED  BY <1>1, <1>2, Invariant, PTL DEF Spec, LedgerSpec, L!Spec
-----------------------------------------------------------------------------
(* Balances and journal.  Of the store, the argument needs no more than   *)
(* that it refines Ledger: each step of Ledger keeps the books balanced.   *)

LEMMA SumIs ==
  ASSUME NEW f, NEW S
  PROVE  L!SumFunctionOnSet(f, S) = SumFunctionOnSet(f, S)
BY DEF L!SumFunctionOnSet, L!FoldFunctionOnSet, L!MapThenFoldSet,
       SumFunctionOnSet, FoldFunctionOnSet, MapThenFoldSet

(* The effects on one wallet of the rows of a journal.                     *)
Effects(j, w) == [t \in Entries |-> L!Effect(j[t], w)]
RowsOf(j)     == {t \in Entries : j[t] # NoEntry}

LEMMA JournalEffectIs ==
  ASSUME NEW w
  PROVE  L!JournalEffect(w) = SumFunctionOnSet(Effects(journal, w), RowsOf(journal))
BY SumIs DEF L!JournalEffect, L!Rows, Effects, RowsOf

Journals == [Entries -> Entry \cup {NoEntry}]

LEMMA EffectInt ==
  ASSUME NEW e \in Entry \cup {NoEntry}, NEW w \in Wallets
  PROVE  /\ L!Effect(e, w) \in Int
         /\ e = NoEntry => L!Effect(e, w) = 0
         /\ ~ L!References(e, w) => L!Effect(e, w) = 0
<1>1. CASE e = NoEntry
  BY <1>1, EffectIs
<1>2. CASE e # NoEntry
  <2>. DEFINE in == e.input
              ds == BalanceDeltas(in)
  <2>1. in \in Inputs /\ Shape(ds) /\ L!Effect(e, w) = NetDelta(ds, w)
    BY <1>2, DeltasShape, EffectIs DEF Entry
  <2>2. NetDelta(ds, w) \in Int
    BY <2>1 DEF Shape, NetDelta
  <2>3. ASSUME ~ L!References(e, w) PROVE NetDelta(ds, w) = 0
    <3>1. w # in.wallet /\ w # in.to
      BY <1>2, <2>3 DEF L!References
    <3>2. /\ Len(ds) \in {1, 2} /\ ds \in Seq(DeltaRecord)
          /\ \A i \in 1 .. Len(ds) : ds[i].wallet # w
      <4>1. CASE in.type = "transfer"
        BY <2>1, <3>1, <4>1, DeltasSeq
      <4>2. CASE in.type # "transfer"
        BY <2>1, <3>1, <4>2, DeltasSeq
      <4>. QED  BY <4>1, <4>2
    <3>3. DOMAIN ds = 1 .. Len(ds)
      BY <3>2, LenProperties
    <3>. HIDE DEF ds
    <3>4. \A i \in {1, 2} : Leg(ds, i, w) = 0
      BY <3>2, <3>3 DEF Leg
    <3>. QED  BY <3>4 DEF NetDelta, Applied
  <2>. QED  BY <1>2, <2>1, <2>2, <2>3
<1>. QED  BY <1>1, <1>2

(* Rewriting one row changes the journal's effect by that row's.           *)
LEMMA EffectMoves ==
  ASSUME NEW j \in Journals, IsFiniteSet(RowsOf(j)), NEW t \in Entries,
         NEW e \in Entry \cup {NoEntry}, NEW w \in Wallets,
         NEW k, k = [j EXCEPT ![t] = e]
  PROVE  /\ IsFiniteSet(RowsOf(k))
         /\ SumFunctionOnSet(Effects(k, w), RowsOf(k))
              = SumFunctionOnSet(Effects(j, w), RowsOf(j)) - L!Effect(j[t], w) + L!Effect(e, w)
<1>. DEFINE f == Effects(j, w)
            g == Effects(k, w)
            T == RowsOf(j) \cup {t}
<1>1. k \in Journals /\ k[t] = e /\ \A u \in Entries \ {t} : k[u] = j[u]
  BY DEF Journals
<1>2. \A u \in Entries : /\ f[u] = L!Effect(j[u], w) /\ f[u] \in Int
                         /\ g[u] = L!Effect(k[u], w) /\ g[u] \in Int
                         /\ j[u] = NoEntry => f[u] = 0
                         /\ k[u] = NoEntry => g[u] = 0
  BY <1>1, EffectInt DEF Effects, Journals
<1>3. IsFiniteSet(T) /\ T \subseteq Entries /\ t \in T
  BY FS_AddElement DEF RowsOf
<1>4. RowsOf(j) \subseteq T /\ RowsOf(k) \subseteq T
  BY <1>1 DEF RowsOf
<1>5. /\ \A u \in T \ RowsOf(j) : f[u] = 0
      /\ \A u \in T \ RowsOf(k) : g[u] = 0
  BY <1>2, <1>3 DEF RowsOf
<1>6. \A u \in T : f[u] \in Int /\ g[u] \in Int
  BY <1>2, <1>3
<1>7. \A u \in T \ {t} : f[u] = g[u]
  BY <1>1, <1>2, <1>3
<1>8. f[t] = L!Effect(j[t], w) /\ g[t] = L!Effect(e, w)
  BY <1>1, <1>2
<1>. HIDE DEF f, g, T
<1>9. SumFunctionOnSet(f, T) = SumFunctionOnSet(f, RowsOf(j))
  BY <1>3, <1>4, <1>5, <1>6, SumRestrict
<1>10. SumFunctionOnSet(g, T) = SumFunctionOnSet(g, RowsOf(k))
  BY <1>3, <1>4, <1>5, <1>6, SumRestrict
<1>11. SumFunctionOnSet(g, T) = SumFunctionOnSet(f, T) - f[t] + g[t]
  BY <1>3, <1>6, <1>7, SumUpdate
<1>12. IsFiniteSet(RowsOf(k))
  BY <1>3, <1>4, FS_Subset
<1>. QED  BY <1>8, <1>9, <1>10, <1>11, <1>12 DEF f, g

(* The invariant: only finitely many rows, and balances that they explain. *)
BooksBalance ==
  /\ IsFiniteSet(RowsOf(journal))
  /\ \A w \in Wallets :
       balance[w] = opening[w] + SumFunctionOnSet(Effects(journal, w), RowsOf(journal))

LEMMA RebookKeepsBalance ==
  ASSUME IInv, BooksBalance, NEW t \in Entries, NEW e \in Entry \cup {NoEntry},
         L!Rebook(t, e)
  PROVE  BooksBalance'
<1>1. /\ journal \in Journals
      /\ journal' = [journal EXCEPT ![t] = e]
      /\ balance' = [w \in Wallets |->
                      balance[w] - L!Effect(journal[t], w) + L!Effect(e, w)]
      /\ opening' = opening
  BY DEF IInv, TypeOK, Journals, L!Rebook
<1>2. IsFiniteSet(RowsOf(journal)')
  <2>1. \A w \in Wallets : IsFiniteSet(RowsOf(journal'))
    BY <1>1, EffectMoves DEF BooksBalance
  <2>2. CASE Wallets # {}
    BY <2>1, <2>2 DEF RowsOf
  <2>3. CASE Wallets = {}
    <3>1. Inputs = {}
      BY <2>3, InputShape
    <3>. QED  BY <3>1, StoreAssumption
  <2>. QED  BY <2>2, <2>3
<1>3. ASSUME NEW w \in Wallets
      PROVE  balance'[w] = opening'[w] + SumFunctionOnSet(Effects(journal', w), RowsOf(journal'))
  <2>. DEFINE old == SumFunctionOnSet(Effects(journal, w), RowsOf(journal))
              new == SumFunctionOnSet(Effects(journal', w), RowsOf(journal'))
  <2>1. new = old - L!Effect(journal[t], w) + L!Effect(e, w)
    BY <1>1, EffectMoves DEF BooksBalance
  <2>2. /\ opening[w] \in Int /\ journal[t] \in Entry \cup {NoEntry}
      BY <1>1, HalfAssumption DEF IInv, TypeOK, Minor, Journals
  <2>3. L!Effect(journal[t], w) \in Int /\ L!Effect(e, w) \in Int
    BY <2>2, EffectInt
  <2>4. old \in Int
    <3>1. \A u \in RowsOf(journal) : Effects(journal, w)[u] \in Int
      BY <1>1, EffectInt DEF Effects, RowsOf, Journals
    <3>. QED  BY <3>1, SumInt DEF BooksBalance
  <2>5. balance[w] = opening[w] + old
    BY DEF BooksBalance
  <2>. HIDE DEF old, new
  <2>6. balance'[w] = balance[w] - L!Effect(journal[t], w) + L!Effect(e, w)
    BY <1>1
  <2>7. balance'[w] = opening'[w] + new
    BY <1>1, <2>1, <2>2, <2>3, <2>4, <2>5, <2>6
  <2>. QED  BY <2>7 DEF new
<1>. QED  BY <1>2, <1>3 DEF BooksBalance, Effects, RowsOf

LEMMA OpenWalletKeepsBalance ==
  ASSUME IInv, BooksBalance, NEW w \in Wallets, NEW b \in OpeningBalances, L!OpenWallet(w, b)
  PROVE  BooksBalance'
<1>1. /\ journal' = journal /\ b \in Int
      /\ balance'[w] = b /\ opening'[w] = b
      /\ \A v \in Wallets \ {w} : balance'[v] = balance[v] /\ opening'[v] = opening[v]
  BY StoreAssumption, HalfAssumption DEF IInv, TypeOK, L!OpenWallet, Minor
<1>2. \A u \in Entries : L!Effect(journal[u], w) = 0
  <2>1. \A u \in Entries : ~ L!References(journal[u], w)
    BY DEF IInv, EntriesNameOpenWallets, L!EntriesNameOpenWallets, L!OpenWallet
  <2>. QED  BY <2>1, EffectInt DEF IInv, TypeOK
<1>3. SumFunctionOnSet(Effects(journal, w), RowsOf(journal)) = 0
  <2>1. \A u \in RowsOf(journal) : Effects(journal, w)[u] = 0
    BY <1>2 DEF Effects, RowsOf
  <2>. QED  BY <2>1, SumZero DEF BooksBalance
<1>4. RowsOf(journal)' = RowsOf(journal) /\ \A v : Effects(journal, v)' = Effects(journal, v)
  BY <1>1 DEF RowsOf, Effects
<1>. QED  BY <1>1, <1>3, <1>4 DEF BooksBalance

LEMMA LedgerKeepsBalance ==
  ASSUME IInv, BooksBalance, [L!Next]_L!vars
  PROVE  BooksBalance'
<1>1. ASSUME NEW u \in Users, NEW t \in Entries, NEW in \in Inputs,
             L!Record(u, t, in) \/ L!Amend(u, t, in)
      PROVE  BooksBalance'
  BY <1>1, RebookKeepsBalance DEF L!Record, L!Amend, Entry
<1>2. ASSUME NEW u \in Users, NEW t \in Entries, L!Remove(u, t)
      PROVE  BooksBalance'
  BY <1>2, RebookKeepsBalance DEF L!Remove
<1>3. CASE UNCHANGED <<opening, balance, journal>>
  BY <1>3 DEF BooksBalance, Effects, RowsOf
<1>. QED
  BY <1>1, <1>2, <1>3, OpenWalletKeepsBalance DEF L!Next, L!CloseWallet, L!vars

(* Every balance is the opening balance plus the deltas of the rows in the *)
(* table, for any numbers of wallets, rows and concurrent requests: no     *)
(* interleaving of creates, edits, deletes and rollbacks loses or doubles  *)
(* a delta (applyDeltas, reverseDeltas), as long as amount plus fee of an  *)
(* input stays inside int64.                                               *)
THEOREM BalancesAreExplained ==
  ASSUME AllMoneyFits
  PROVE  Spec => []BalanceMatchesJournal
<1>1. Init => IInv /\ BooksBalance
  <2>. SUFFICES ASSUME Init PROVE BooksBalance
    BY InitInv
  <2>1. RowsOf(journal) = {}
    BY DEF Init, RowsOf
  <2>2. \A w \in Wallets : balance[w] = 0 /\ opening[w] = 0
    BY DEF Init
  <2>. QED  BY <2>1, <2>2, SumEmpty, FS_EmptySet DEF BooksBalance
<1>2. IInv /\ BooksBalance /\ [Next]_vars => (IInv /\ BooksBalance)'
  BY NextInv, StepRefines, LedgerKeepsBalance
<1>3. BooksBalance => BalanceMatchesJournal
  BY JournalEffectIs DEF BooksBalance, BalanceMatchesJournal, L!BalanceMatchesJournal
<1>. QED  BY <1>1, <1>2, <1>3, PTL DEF Spec
=============================================================================
