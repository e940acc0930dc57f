SPECIFICATION FairSpec
CONSTANTS
  Services <- MCServices
  Sections <- MCSections
  Vars <- MCVars
  Values <- MCValues
  Items <- MCItems
  RequiredVars <- MCRequiredVars
  Gate <- MCGate
  Negated = {}
  RestartOf <- MCRestartOf
  SectionOf <- MCSectionOf
  Content <- MCContent
  Guard <- MCGuard
  Unless = {}
  StepOf <- MCStepOf
  FileVars = {}
  KeptOff = {}
  Companion <- Alone
  UnitSections <- MCUnitSections
  Boots <- MCBoots
  Heavy = {}
  Systemd = TRUE
  MaxAttempts = 2
  Debounces = {0, 1}
  EnableModes = {TRUE}
  MaxChanges = 1
  MaxRequests = 1
  MaxFaults = 1
  MaxPanics = 0
PROPERTIES Converges ChangesAreApplied NoRewriteLoop
