SPECIFICATION Spec
CONSTANTS
  Threads <- MCThreads
  Rows <- MCRows
  Workloads <- MCLeaseWorkloads
  FirstWts <- MCLeaseFirstWts
  Algs = {"TICTOC"}
  ABORT_BUFFER_SIZE = 1
  RTS_LEN = 3
  HIS_LEN = 4
  InitReserved = {FALSE}
INVARIANTS Serializable
CHECK_DEADLOCK FALSE
