SPECIFICATION Spec
CONSTANTS
  Threads <- MCThreads
  Rows <- MCRows
  Workloads <- MCWorkloads
  Algs = {"NO_WAIT", "WAIT_DIE", "DL_DETECT", "SILO", "TICTOC", "OCC", "HSTORE", "MVCC", "HEKATON"}
  ABORT_BUFFER_SIZE = 1
  RTS_LEN = 1
  FirstWts <- MCFirstWts
  HIS_LEN = 2
  InitReserved = {TRUE, FALSE}
INVARIANTS Serializable NoLostUpdate AssertsHold LocksSound QueriesConserved
PROPERTIES IsLockTable EveryTxnEnds
CHECK_DEADLOCK FALSE
