SPECIFICATION Spec
CONSTANTS
  Apps <- MCApps
  Recorded <- MCRecorded
  MaxClicks <- MCMaxClicks
  MaxChanges = 1
  ScanAttempts = 2
  GraphSamples = 1
  WindowMinutes = 2
  MaxMinutes <- MCMaxMinutes
  MaxTokens = 1
  MapActions = {"up", "ok"}
  Keys = {1, 2}
  MaxShots = 1
  MaxPending = 1
  Servers <- MCServers
  Shares <- MCShares
  Addrs = {1, 2}
  Answering = {{}, {2}}
  Datagrams <- MCDatagrams
  Manifests <- MCManifests
  FolderNames = {1}
  MaxEvents = 3
  MaxWaiting = 1
INVARIANT BusyMeansWork SnapshotFindsCameraFree   OneSourceOnTheTv RangesAreServed
PROPERTY ShowsAnAnswer 
CHECK_DEADLOCK FALSE
