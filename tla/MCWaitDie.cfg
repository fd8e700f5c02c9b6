SPECIFICATION Spec
CONSTANTS
  Threads <- MCThreads2
  Rows <- MCRows
  Workloads <- MCCrossWorkloads
  FirstWts <- MCFirstWts
  Algs = {"WAIT_DIE"}
  ABORT_BUFFER_SIZE = 1
  RTS_LEN = 1
  HIS_LEN = 1
  InitReserved = {FALSE}
INVARIANTS NoWaitCircle
CHECK_DEADLOCK FALSE
