\* Two requests at a time on one viewer's link and shares.
SPECIFICATION MCSpec
CONSTANTS
  alice = alice
  w1 = w1
  w2 = w2
  w3 = w3
  Owners = {alice}
  Owner <- MCOwner
  NoShare = NoShare
  MaxActiveShares = 1
  Viewers = {bob}
  Wallets <- ThreeWallets
  GoalWallets = {w3}
  Sessions = {s1, s2}
CHECK_DEADLOCK FALSE
INVARIANTS
  TypeOK
  SharesHaveGrounds
  ViewerSeesEveryWalletAlone
PROPERTIES
  AccessNeedsConsent
  SettledSharesStay
