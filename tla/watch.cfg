SPECIFICATION Spec
CONSTANTS
  antivirus = antivirus
  amavis = amavis
  mta = mta
  Services = {antivirus, amavis, mta}
  StartOrder <- MCStartOrder
  Always = {amavis}
  LocalKeys = {mta}
  Reloaded = {mta}
  MaxFailedRestarts = 2
  Settings <- MCRestarting
  Monitored = {antivirus, amavis}
  DepMaps <- MCDepMaps
  MaxRequests = 0
  MaxChanges = 1
  MaxCrashes = 2
  MaxFaults = 1
  MayStop = FALSE
INVARIANTS TypeOK CascadeInClosure
PROPERTIES OkMeansRestarted OncePerTick DryRunTouchesNothing
