SPECIFICATION Spec
CONSTANTS
  i1 = i1
  i2 = i2
  BTC = BTC
  ETH = ETH
  Intents = {i1}
  Symbols = {BTC}
  SymbolOf <- OneSymbol
  Handlers = {h1, h2}
  FullSize = 2
  Reconciled = TRUE
  NoIntent = NoIntent
  RecoveryStreak = 2
INVARIANTS TypeOK LedgersAgree
PROPERTIES LegalTradeTransitions StartsOverNoOrder ImplementsContract
CHECK_DEADLOCK FALSE
