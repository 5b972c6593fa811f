SPECIFICATION Spec
CONSTANTS
  Ms = 2
  Durations = {4, 502, 2002}
  FailTimes = {2}
  NoRun = NoRun
  Names = {"www"}
  Values = {"app", "10.0.0.9"}
  Modules = {"HTTP"}
  Urls = {"http://app", "app"}
  BadUrls = {"app"}
  Sizes = {"2000"}
  Counts = {"20"}
  Intervals = {"-3", "1"}
  Malformed <- MCMalformed
  Requests <- MCRequests
  Atoi <- MCAtoi
  Scan <- MCScan
  Missing = Missing
  ClientLimit = 20000
INVARIANTS
  SameAsRepl
