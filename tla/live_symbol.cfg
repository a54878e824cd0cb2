SPECIFICATION Spec
CONSTANTS
  i1 = i1
  i2 = i2
  BTC = BTC
  ETH = ETH
  Intents = {i1, i2}
  Symbols = {BTC}
  SymbolOf <- OneSymbol
  Handlers = {h1}
  FullSize = 2
  Reconciled = TRUE
  NoIntent = NoIntent
  RecoveryStreak = 1
SYMMETRY IntentSymmetry
INVARIANTS OneActivePerSymbol OneHolderPerSymbol SentAtMostOnce ProtectedIsCovered
CHECK_DEADLOCK FALSE
