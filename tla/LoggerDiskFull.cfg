SPECIFICATION Spec
CONSTANTS
  sys = sys
  http = http
  Modules <- MCModules
  KnownModules <- MCKnown
  Sys = sys
  DisabledEnv = {}
  MaxLines = 3
  MaxBytes = 4
  Messages <- ShortTwoRow
  MaxMessage = 3
  ToggleSize = 1
  NoticeSize = 1
  LogPath = LogPath
  FallbackPath = FallbackPath
  NoPath = NoPath
  NoFile = NoFile
  TailSizes = {2}
  Faults = {"write"}
  MaxRows = 6
  MaxEnds = 1
INVARIANTS
  Retained
