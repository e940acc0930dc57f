SPECIFICATION Spec
CONSTANTS
  c1 = c1  c2 = c2  a = a  b = b
  Clients <- TwoClients
  Sections <- TwoSections
  Requests <- AnyRequest
  Once = FALSE
  SkipModes = {TRUE}
  WatchModes = {FALSE}
  Signals = {}
  MaxSignals = 0
  MaxFaults = 1
  MaxPanics = 1
SYMMETRY Symmetric
INVARIANTS TypeOK ReplyMeansWritten RequestAccounted NoLostWakeup ClosedOnce UnitAnsweredAtOnce LoopInv
