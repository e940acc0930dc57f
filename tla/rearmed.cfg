SPECIFICATION Spec
CONSTANTS
  antivirus = antivirus
  amavis = amavis
  mta = mta
  Services = {antivirus, amavis, mta}
  StartOrder <- MCStartOrder
  Always = {amavis}
  LocalKeys = {mta}
  Reloaded = {mta}
  MaxFailedRestarts = 2
  Settings <- MCDefaults
  Monitored = {antivirus, amavis}
  DepMaps <- MCDepMaps
  MaxRequests = 1
  MaxChanges = 0
  MaxCrashes = 0
  MaxFaults = 0
  MayStop = FALSE
PROPERTY NoSecondRestart
