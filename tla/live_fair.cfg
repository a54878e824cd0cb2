SPECIFICATION FairSpec
CONSTANTS
  i1 = i1
  i2 = i2
  BTC = BTC
  ETH = ETH
  Intents = {i1, i2}
  Symbols = {BTC, ETH}
  SymbolOf <- OwnSymbol
  Handlers = {h1}
  FullSize = 1
  Reconciled = FALSE
  NoIntent = NoIntent
  RecoveryStreak = 1
PROPERTIES DoubtStopsUnreadAccount ClaimedSettles NoStarvation
CHECK_DEADLOCK FALSE
