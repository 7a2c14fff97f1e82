\* Requests that lock the same two wallets in both orders.
SPECIFICATION FairSpec
CONSTANTS
  Half = 4
  NoWallet = NoWallet
  NoEntry = NoEntry
  Unwritten = Unwritten
  NoOp = NoOp
  alice = alice
  bob = bob
  w1 = w1
  w2 = w2
  Users <- MCUsers
  Wallets <- MCWallets
  Owner <- MCOwner
  Inputs <- MCInputs
  Entries = {t1, t2}
  Sessions = {s1, s2}
  OpeningBalances = {2}
INVARIANTS
  TypeOK
  BalanceMatchesJournal
  WritersAreIsolated
PROPERTIES
  LedgerSpec
  RequestsEnd
