SPECIFICATION Spec
CONSTANTS
  Services <- MCServices
  Sections <- MCSections
  Vars <- MCVars
  Values <- MCValues
  Items <- MCItems
  RequiredVars <- MCRequiredVars
  Gate <- MCGate
  Negated = {}
  RestartOf <- MCRestartOf
  SectionOf <- MCSectionOf
  Content <- MCContent
  Guard <- MCGuard
  Unless = {}
  StepOf <- MCStepOf
  FileVars = {}
  KeptOff = {}
  Companion <- Alone
  UnitSections <- MCUnitSections
  Boots <- MCBoots
  Heavy = {}
  Systemd = TRUE
  MaxAttempts = 2
  Debounces = {0}
  EnableModes = {TRUE, FALSE}
  MaxChanges = 2
  MaxRequests = 0
  MaxFaults = 0
  MaxPanics = 0
PROPERTY StopsOnlyDisabled
