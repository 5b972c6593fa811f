SPECIFICATION FairSpec
CONSTANTS
  sys = sys
  http = http
  Modules <- MCModules
  KnownModules <- MCKnown
  Sys = sys
  DisabledEnv = {}
  MaxLines = 2
  MaxBytes = 4
  Messages <- ShortTwoRow
  MaxMessage = 3
  ToggleSize = 1
  NoticeSize = 1
  LogPath = LogPath
  FallbackPath = FallbackPath
  NoPath = NoPath
  NoFile = NoFile
  TailSizes = {2}
  Faults = {"end", "open"}
  MaxRows = 5
  MaxEnds = 1
INVARIANTS
  TypeOK
  DiskBounded
  NoGap
  Retained
  StatSizeExact
  LogConsistent
  TailNeverStale
  TailExact
PROPERTIES
  FullFileRecycled
