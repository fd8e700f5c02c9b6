SPECIFICATION Spec
CONSTANTS
  Threads <- MCThreads2
  Rows <- MCRows
  Workloads <- MCHistoryWorkloads
  FirstWts <- MCFirstWts
  Algs = {"MVCC"}
  ABORT_BUFFER_SIZE = 1
  RTS_LEN = 1
  HIS_LEN = 4
  InitReserved = {FALSE}
INVARIANTS Serializable
CHECK_DEADLOCK FALSE
