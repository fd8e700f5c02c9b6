------------------------------- MODULE Bench -------------------------------
(***************************************************************************)
(* The transaction engine of bench/: worker threads run queries over       *)
(* shared rows under one of the concurrency control algorithms.  A query   *)
(* is a sequence of accesses, each a row and RD or WR, as in the bodies of *)
(* the TEST and TPC-C workloads; a written row is read first.              *)
(***************************************************************************)
EXTENDS TwoPL, Silo, TicToc, Occ, Plock, Hekaton

(* row_t::init_manager.  reserved: what the memory of a fresh Row_mvcc     *)
(* history held.                                                           *)
RowInit(alg, r, reserved) ==
    CASE alg \in LockAlgs -> LockInit
      [] alg = "SILO" -> SiloInit
      [] alg = "TICTOC" -> TicTocInit(r)
      [] alg = "OCC" -> OccInit
      [] alg = "HSTORE" -> PartInit
      [] alg = "MVCC" -> MvccInit(reserved)
      [] alg = "HEKATON" -> HekInit

(* What memory may hold for the reserved flags of a row.                   *)
FreshMemory(alg) == IF alg = "MVCC" THEN [1..HIS_LEN -> InitReserved] ELSE {<<>>}

(* The txn_man of a thread starts zeroed, and with WAIT_DIE no code ever   *)
(* sets its timestamp.                                                     *)
Init ==
    /\ CC_ALG \in Algs
    /\ pc = [t \in Threads |-> "idle"]
    /\ abuf = [t \in Threads |-> [i \in 1..ABORT_BUFFER_SIZE |-> NoQuery]]
    /\ \E w \in Workloads(CC_ALG) :
          /\ work = w.q
          /\ tx = [t \in Threads |-> TxnInit(0, w.max)]
    /\ acc = [t \in Threads |-> <<>>]
    /\ \E m \in [Rows -> FreshMemory(CC_ALG)] : row = [r \in Rows |-> RowInit(CC_ALG, r, m[r])]
    /\ data = [r \in Rows |-> [s \in {0} |-> 0]]
    /\ mgr = [timestamp |-> 1, all_ts |-> [t \in Threads |-> Inf], min_ts |-> 0]
    /\ dep = [t \in Threads |-> NoDep]
    /\ hist = <<>>
    /\ fail = FALSE

(* A failed assertion ends the process. *)
Stopped == fail \/ \E t \in Threads : pc[t] = "no_entry"

Step(t) ==
    /\ ~Stopped
    /\ \/ Retry(t) \/ NextQuery(t)
       \/ LockStep(t) \/ SiloStep(t) \/ TicStep(t) \/ OccStep(t) \/ PartStep(t)
       \/ MvccStep(t) \/ HekStep(t)

Next == ~Stopped /\ \E t \in Threads : Step(t) \/ WaitTimeout(t)

(* A thread that can take a step takes one: threads are scheduled, spin    *)
(* loops end when what they wait for stays true, and pthread mutexes are   *)
(* held for one step only.  g_timeout need not pass.                       *)
Spec == Init /\ [][Next]_vars /\ \A t \in Threads : WF_vars(Step(t))

-----------------------------------------------------------------------------
Nodes == DOMAIN hist

(* Where the transaction with this id is in the commit order, 0 for the    *)
(* loaded rows, and for an id that did not commit.                         *)
Pos(id) == IF \E i \in Nodes : hist[i].id = id
           THEN CHOOSE i \in Nodes : hist[i].id = id ELSE 0

(* i must come before j in a serial order: j overwrote or read what i      *)
(* wrote, or i read what j overwrote.  Two writers of a row never are      *)
(* between commit and write at once, so the order of the versions of a row *)
(* is the commit order of their writers.                                   *)
Before(i, j) ==
    /\ i # j
    /\ \/ i < j /\ hist[i].wr \cap hist[j].wr # {}
       \/ \E a \in hist[j].rd : a[2] = hist[i].id
       \/ \E a \in hist[i].rd : a[1] \in hist[j].wr /\ Pos(a[2]) < j

(* ISOLATION_LEVEL SERIALIZABLE: the precedence graph of the committed     *)
(* transactions has no cycle.  HEKATON is left out: prepare_read lets a    *)
(* reader commit beside an uncommitted overwriter, so that two such        *)
(* transactions may pass each other.                                       *)
Serializable ==
    CC_ALG # "HEKATON" =>
        \A S \in SUBSET Nodes \ {{}} : \E i \in S : \A j \in S : ~Before(i, j)

(* With every algorithm: whoever commits has read only loaded rows and     *)
(* versions of transactions that committed before, never part of a copy,   *)
(* and a committed writer has overwritten the version it read.             *)
NoLostUpdate ==
    \A j \in Nodes : \A a \in hist[j].rd :
        /\ a[2] # 0 => \E i \in 1..(j - 1) : hist[i].id = a[2] /\ a[1] \in hist[i].wr
        /\ a[1] \in hist[j].wr =>
              \A i \in 1..(j - 1) : a[1] \in hist[i].wr => i <= Pos(a[2])

(* No assertion of the engine fails: a new tid or timestamp is larger than *)
(* the one it replaces, a finished prewrite finds its entry, a recycled    *)
(* version is younger than _row, a lock released is held, waiters of a     *)
(* partition are in timestamp order.  One can, in a history whose memory   *)
(* was not zero: an entry never used counts as reserved for ever, so that  *)
(* a prewrite finds none (row_mvcc.cpp:268).  With no such entry it holds. *)
AssertsHold ==
    /\ ~fail
    /\ \A t \in Threads : pc[t] = "no_entry" =>
          \E e \in ToSet(row[Req(t).row].his) : e.reserved /\ ~e.valid /\ e.slot = NULL

(* The lock of row r as LockTable describes it; a transaction asks for     *)
(* what its query does to the row.                                         *)
Asked(r) ==
    [t \in Threads |->
        IF \E q \in ToSet(tx[t].query) : q.row = r
        THEN lock_t((CHOOSE q \in ToSet(tx[t].query) : q.row = r).type)
        ELSE LOCK_NONE]

Lock(r) == INSTANCE LockTable WITH
              Txns <- Threads, m <- row[r], asked <- Asked(r), alg <- CC_ALG,
              ts <- [t \in Threads |-> tx[t].ts]

(* With the locking builds every row behaves as LockTable says: a          *)
(* transaction asks once, after it has given back everything it held, and  *)
(* also one that gives up waiting, whether or not it was granted the lock  *)
(* meanwhile, leaves no entry behind.                                      *)
IsLockTable ==
    /\ CC_ALG \in LockAlgs => \A r \in Rows : Lock(r)!Init
    /\ [][(CC_ALG \in LockAlgs) =>
             \A r \in Rows : UNCHANGED Lock(r)!vars \/ Lock(r)!Next]_vars

(* The lock of every row is shared only by transactions that asked to read *)
(* it, and whoever is first in its queue conflicts with the owners: no     *)
(* wake-up is lost, whatever order of requests, grants, time-outs and      *)
(* give-ups led there.                                                     *)
LocksSound == CC_ALG \in LockAlgs => \A r \in Rows : Lock(r)!Sound

(* A query a thread was given is committed once, or is running, or waits   *)
(* in the abort buffer: none is lost or run twice, however often it        *)
(* aborts.                                                                 *)
QueriesConserved ==
    \E w \in Workloads(CC_ALG) : \A t \in Threads :
        LET done == {i \in Nodes : (hist[i].id - 1) % Cardinality(Threads) = t}
            kept == 1..ABORT_BUFFER_SIZE \ Empty(t)
            running == pc[t] # "idle" /\ Pos(tx[t].id) = 0
        IN  /\ Len(w.q[t]) = Len(work[t]) + Cardinality(done) + Cardinality(kept)
                                + (IF running THEN 1 ELSE 0)
            /\ {w.q[t][i] : i \in DOMAIN w.q[t]} =
                  {work[t][i] : i \in DOMAIN work[t]} \cup {hist[i].query : i \in done}
                     \cup {abuf[t][i] : i \in kept}
                     \cup (IF running THEN {tx[t].query} ELSE {})

(* Transactions that wait for each other: each for a row of which another  *)
(* is an owner.  No waiter is let in before the owners have left.          *)
WaitCircle ==
    \E S \in SUBSET Threads \ {{}} : \A t \in S :
        /\ pc[t] = "wait" /\ ~tx[t].ready
        /\ row[Req(t).row].owners \cap S # {}

(* Every transaction that is started ends, by commit or abort, so that     *)
(* with finitely many to run all threads are idle in the end: no waiter is *)
(* forgotten, no deadlock of DL_DETECT stays undetected and no retry of    *)
(* the validation goes on for ever.  Two things stop a thread for ever: an *)
(* assertion that fails, and with WAIT_DIE a circle of waiting             *)
(* transactions, and nothing else.                                         *)
EveryTxnEnds ==
    []<>(\/ \A t \in Threads : pc[t] = "idle"
         \/ Stopped
         \/ CC_ALG = "WAIT_DIE" /\ WaitCircle)

(* With WAIT_DIE no circle of waiting transactions forms.  This follows    *)
(* from the rule in the comment on lock_get: "IF T.ts > ts of all owners / *)
(* T can wait / ELSE / T should abort" (row_lock.cpp:88-94), since of two  *)
(* transactions that wait for each other one does not have the larger      *)
(* timestamp.                                                              *)
NoWaitCircle == CC_ALG = "WAIT_DIE" => ~WaitCircle
=============================================================================
