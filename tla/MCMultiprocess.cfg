CONSTANTS
  Threads = {t1, t2}
  MaxCalls = 3
  Throwing = {"LOAD_NEUROPOD", "ADD_INPUT", "INFER"}
  Large = {"EXCEPTION"}
  Mortal = {"main", "worker"}
SPECIFICATION Spec
INVARIANT TypeOK
INVARIANT AnswersMatch
INVARIANT SingleReceiver
INVARIANT WorkerNeverRejects
INVARIANT BacklogIsBounded
PROPERTY CallsReturn
PROPERTY NoOrphanWorker
CHECK_DEADLOCK FALSE
