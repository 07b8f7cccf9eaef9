CONSTANTS
  Threads = {t1}
  MaxCalls = 3
  Throwing = {"ADD_INPUT"}
  Large = {"EXCEPTION", "INFER"}
  Mortal = {}
SPECIFICATION Spec
INVARIANT MainSurvives
CHECK_DEADLOCK FALSE
