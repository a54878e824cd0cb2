SPECIFICATION FairSpec
CONSTANTS
  i1 = i1
  i2 = i2
  BTC = BTC
  ETH = ETH
  Intents = {i1, i2}
  Symbols = {BTC}
  SymbolOf <- OneSymbol
  Handlers = {h1}
  FullSize = 1
  Reconciled = FALSE
  NoIntent = NoIntent
  RecoveryStreak = 1
PROPERTY ConfirmedIsClaimed
CHECK_DEADLOCK FALSE
