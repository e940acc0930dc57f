SPECIFICATION FairSpec
CONSTANTS
  c1 = c1  c2 = c2  a = a  b = b
  Clients <- NoClient
  Sections <- OneSection
  Requests <- OneRequest
  Once = FALSE
  SkipModes = {TRUE}
  WatchModes = {FALSE}
  Signals = {"TERM", "CHLD"}
  MaxSignals = 2
  MaxFaults = 0
  MaxPanics = 0
PROPERTY TermStopsDaemon
