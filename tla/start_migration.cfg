SPECIFICATION FairSpec
CONSTANTS
  NoFile = NoFile
  Pids = {p1}
  Intents = {i1}
  Facts = {f1}
  Sources = {rest, websocket}
  NeedsKey = TRUE
PROPERTY RestartComesUp
