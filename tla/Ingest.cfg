SPECIFICATION MCSpec
CONSTANTS
  Stoppers = {s1, s2}
  Starter = start
  Files <- MCFiles
  MaxFrames = 2
  EmptyReadsBeforeReconnect = 2
  FailuresBeforeUnhealthy = 2
  FleetCameras = {c1}
  FleetCallers = {p1, p2, p3}
  FleetConfigured <- MCConfigured
  FleetActors = 2
  Posts = {p1, p2, p3}
  Bodies <- MCBodies
  Indices <- MCIndices
  Started = {0}
  Crowds <- MCCrowds
  c1 = c1
  p1 = p1
  p2 = p2
  p3 = p3
INVARIANTS
  StopTellsTheTruth
  FleetHoldsItsThreads
  OnePostOneCamera
PROPERTIES
  StopEndsThread
