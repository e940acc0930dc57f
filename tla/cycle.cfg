SPECIFICATION Spec
CONSTANTS
  Services <- MCServices
  Sections <- MCSections
  Vars <- MCVars
  Values <- MCValues
  Items <- MCItems
  RequiredVars <- MCRequiredVars
  Gate <- MCGate
  Negated = {}
  RestartOf <- MCRestartOf
  SectionOf <- MCSectionOf
  Content <- MCContent
  Guard <- MCGuard
  Unless = {}
  StepOf <- MCStepOf
  FileVars = {"host"}
  KeptOff = {}
  Companion <- Alone
  UnitSections <- MCUnitSections
  Boots <- MCBoots
  Heavy = {"proxy"}
  Systemd = TRUE
  MaxAttempts = 2
  Debounces = {0, 1}
  EnableModes = {TRUE, FALSE}
  MaxChanges = 1
  MaxRequests = 1
  MaxFaults = 2
  MaxPanics = 1
INVARIANTS TypeOK Rendered RestartNotLost HeavyNeverRestarted
PROPERTY FirstRunRestartsNothing
