------------------------------- MODULE Ledger -------------------------------
(***************************************************************************)
(* What the transaction store promises: the books of wallets and           *)
(* transactions change one whole transaction at a time.  An entry is       *)
(* recorded, amended or removed together with the balances it moves        *)
(* (README.md: "use database transactions so wallet balances and           *)
(* transaction rows change atomically").                                   *)
(***************************************************************************)
EXTENDS Deltas, Functions

CONSTANTS Users, Wallets, Entries, Inputs, OpeningBalances,
          NoEntry   \* what journal holds where there is no row

Entry == [user : Users, input : Inputs]

VARIABLES
  status,    \* of a wallet: "unborn", "open" or "closed"
  opening,   \* the balance a wallet was created with
  balance,   \* wallets.balance_minor
  journal    \* the rows of transactions

vars == <<status, opening, balance, journal>>

TypeOK ==
  /\ status  \in [Wallets -> {"unborn", "open", "closed"}]
  /\ opening \in [Wallets -> Int]
  /\ balance \in [Wallets -> Int]
  /\ journal \in [Entries -> Entry \cup {NoEntry}]

Effect(e, w) == IF e = NoEntry THEN 0 ELSE NetDelta(BalanceDeltas(e.input), w)

References(e, w) == e # NoEntry /\ w \in {e.input.wallet, e.input.to}

Init ==
  /\ status  = [w \in Wallets |-> "unborn"]
  /\ opening = [w \in Wallets |-> 0]
  /\ balance = [w \in Wallets |-> 0]
  /\ journal = [t \in Entries |-> NoEntry]

OpenWallet(w, b) ==
  /\ status[w] = "unborn"
  /\ status'  = [status EXCEPT ![w] = "open"]
  /\ opening' = [opening EXCEPT ![w] = b]
  /\ balance' = [balance EXCEPT ![w] = b]
  /\ UNCHANGED journal

(* A wallet that some entry still names cannot be closed.                  *)
CloseWallet(w) ==
  /\ status[w] = "open"
  /\ \A t \in Entries : ~ References(journal[t], w)
  /\ status' = [status EXCEPT ![w] = "closed"]
  /\ UNCHANGED <<opening, balance, journal>>

(* Entry t becomes e; every wallet loses what the old entry did to it and  *)
(* gains what the new one does, in the same step.                          *)
Rebook(t, e) ==
  /\ \A w \in Wallets : References(e, w) => status[w] = "open"
  /\ journal' = [journal EXCEPT ![t] = e]
  /\ balance' = [w \in Wallets |->
                   balance[w] - Effect(journal[t], w) + Effect(e, w)]
  /\ UNCHANGED <<status, opening>>

Record(u, t, in) ==
  /\ journal[t] = NoEntry
  /\ Rebook(t, [user |-> u, input |-> in])

Amend(u, t, in) ==
  /\ journal[t] # NoEntry
  /\ journal[t].user = u
  /\ Rebook(t, [user |-> u, input |-> in])

Remove(u, t) ==
  /\ journal[t] # NoEntry
  /\ journal[t].user = u
  /\ Rebook(t, NoEntry)

Next ==
  \/ \E w \in Wallets, b \in OpeningBalances : OpenWallet(w, b)
  \/ \E w \in Wallets : CloseWallet(w)
  \/ \E u \in Users, t \in Entries, in \in Inputs :
        Record(u, t, in) \/ Amend(u, t, in)
  \/ \E u \in Users, t \in Entries : Remove(u, t)

Spec == Init /\ [][Next]_vars
-----------------------------------------------------------------------------
Rows == {t \in Entries : journal[t] # NoEntry}

(* The effect of the whole journal on one wallet.                          *)
JournalEffect(w) == SumFunctionOnSet([t \in Entries |-> Effect(journal[t], w)], Rows)

(* Every balance is explained by the rows: it is the opening balance plus  *)
(* the deltas of the transactions that are in the table now, whatever was  *)
(* edited or deleted on the way (applyDeltas, reverseDeltas).              *)
BalanceMatchesJournal ==
  \A w \in Wallets : balance[w] = opening[w] + JournalEffect(w)

(* No row names a wallet that does not exist: the ON DELETE RESTRICT       *)
(* references of transactions.wallet_id and to_wallet_id.                  *)
EntriesNameOpenWallets ==
  \A t \in Entries, w \in Wallets : References(journal[t], w) => status[w] = "open"
=============================================================================
