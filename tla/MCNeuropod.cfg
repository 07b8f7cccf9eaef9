CONSTANTS
  tf1 = tf1
  tf2 = tf2
  torch = torch
  py = py
  a = a
  b = b
  c = c
  Threads = {t1, t2}
  NoThread = NoThread
  Main = Main
  Models <- MCModels
  Versions = {1, 2}
  Libs <- MCLibs
  NoLib = NoLib
  LibType <- MCLibType
  LibVersion <- MCLibVersion
  Defaults <- MCDefaults
  Overrides <- MCOverrides
  Ops = {a, b, c}
  Flaky = {b, c}
  MaxNew = 2
  MaxLoads = 2
SPECIFICATION Spec
INVARIANT TypeOK
INVARIANT BackendsMatch
INVARIANT OpsAreOpenOnce
INVARIANT FailedLoadsLeaveNothing
PROPERTY LoadsEnd
CHECK_DEADLOCK FALSE
