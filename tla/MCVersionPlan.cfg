SPECIFICATION Spec
CONSTANTS
  lib = lib
  app = app
  root = root
  NoModule = NoModule
  Module <- MCModule
  Projects <- MCProjects
  Requests <- MCRequests
  Outages <- MCOutages
  Breaking <- MCBreaking
  Stable <- MCStable
  MaxEdits = 2
  MaxRuns = 3
CHECK_DEADLOCK FALSE
INVARIANTS
  Settles
  StagedIsTagged
  FloorsAreCut
  CutsAscend
