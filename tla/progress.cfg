SPECIFICATION FairSpec
CONSTANTS
  c1 = c1  c2 = c2  a = a  b = b
  Clients <- OneClient
  Sections <- OneSection
  Requests <- OneRequest
  Once = FALSE
  SkipModes = {TRUE}
  WatchModes = {TRUE}
  Signals = {"TERM", "HUP"}
  MaxSignals = 2
  MaxFaults = 1
  MaxPanics = 0
INVARIANT ReloadPending
PROPERTIES RequestServed ClientAnswered ReloadAcknowledged ShutdownExits
