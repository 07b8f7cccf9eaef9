CONSTANTS
  f = f
  g = g
  s = s
  s0 = s0
  Symbols = {"n"}
  MaxDim = 2
  Cpu = Cpu
  Gpu = Gpu
  Failed = Failed
  Null = Null
  Numpy <- MCNumpy
  DTypes = {"float32", "string"}
  MaxInt = 8
  Absent = Absent
  Empty = Empty
  NotAString = NotAString
  NotAList = NotAList
  NodeOrder <- MCNodeOrder
  Strip <- MCStrip
  Garbled = Garbled
  Setups <- MCSetups
  Inputs <- MCInputs
  Requests <- MCRequests
  MaxCalls = 2
SPECIFICATION Spec
INVARIANT PackagesLoad
INVARIANT SpecIsEnforced
INVARIANT AnswersAreFaithful
INVARIANT ExecutorsAgree
CHECK_DEADLOCK FALSE
