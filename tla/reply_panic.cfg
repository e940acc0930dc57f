SPECIFICATION Spec
CONSTANTS
  c1 = c1  c2 = c2  a = a  b = b
  Clients <- OneClient
  Sections <- OneSection
  Requests <- OneRequest
  Once = FALSE
  SkipModes = {TRUE}
  WatchModes = {FALSE}
  Signals = {}
  MaxSignals = 0
  MaxFaults = 1
  MaxPanics = 1
INVARIANT ReplyNeverPrecedesRewrite
