SPECIFICATION FairSpec
CONSTANTS
  antivirus = antivirus
  amavis = amavis
  mta = mta
  Services = {antivirus, mta}
  StartOrder <- MCStartOrder
  Always = {}
  LocalKeys = {mta}
  Reloaded = {mta}
  MaxFailedRestarts = 2
  Settings <- MCPolling
  Monitored = {antivirus}
  DepMaps <- MCDepMaps
  MaxRequests = 1
  MaxChanges = 0
  MaxCrashes = 1
  MaxFaults = 2
  MayStop = TRUE
PROPERTIES PassEnds QueueDrains DownIsRecovered WatchRestored ShutdownEndsRestarts
CHECK_DEADLOCK FALSE
