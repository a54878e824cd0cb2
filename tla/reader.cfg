SPECIFICATION FairSpec
CONSTANTS
  PollInterval = 1
  Timeout = 2
  StaleAfter = 3
  HistoryEvery = 12
  RecoveryStreak = 2
INVARIANTS ReaderTypeOK ReadyIsRecent ReadyOutlivesNoFailure
PROPERTIES HaltReachesReady Recovers
