SPECIFICATION Spec
CONSTANTS
  stopOrder = stopOrder
  otherOrder = otherOrder
  BTC = BTC
  Coins = {BTC}
  Oids = {stopOrder}
  StopFor <- OneStop
  NoCoin = NoCoin
  MaxSize = 1
  MaxTime = 1
  RecoveryStreak = 1
PROPERTIES NewPositionNeedsFill
CHECK_DEADLOCK FALSE
