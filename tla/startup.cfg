SPECIFICATION FairSpec
CONSTANTS
  NoFile = NoFile
  Pids = {p1, p2}
  Intents = {i1}
  Facts = {f1, f2}
  Sources = {rest, websocket}
  NeedsKey = TRUE
INVARIANTS StartupTypeOK KeyIsWhole WinnerIsTold StampMeansCurrent
PROPERTIES NothingIsLost ComesUp
