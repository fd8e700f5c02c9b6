-------------------------------- MODULE Txn --------------------------------
(***************************************************************************)
(* The part of the bench/ transaction engine that every concurrency        *)
(* control algorithm shares: the loop of a worker thread (misc/thread.cpp),*)
(* the transaction manager it owns (misc/txn.cpp), the source of           *)
(* timestamps (misc/manager.cpp), and what a committed transaction read    *)
(* and wrote.  CC_ALG is a compile-time constant of the program; here it   *)
(* is a variable that never changes, so that one instance covers several   *)
(* builds.                                                                 *)
(*                                                                         *)
(* The contents of a row are abstracted to the id of the transaction that  *)
(* wrote them, 0 for the loaded row.                                       *)
(***************************************************************************)
EXTENDS Integers, Sequences, FiniteSets, SequencesExt

CONSTANTS Threads,            \* 0 .. g_thread_cnt - 1
          Rows,               \* primary keys, and partitions with HSTORE
          Algs,               \* the builds to consider
          Workloads(_),       \* build -> what the query queues may hold (q),
                              \* and a bound on the transactions started (max)
          ABORT_BUFFER_SIZE

VARIABLES CC_ALG,
          pc,       \* where each thread is
          work,     \* queries left in the thread's part of query_queue
          abuf,     \* _abort_buffer of each thread
          tx,       \* m_txn of each thread
          acc,      \* accesses[0 .. row_cnt - 1] of each thread
          row,      \* row -> its manager
          data,     \* row -> storage slot -> contents
          mgr,      \* glob_manager
          dep,      \* dl_detector.dependency
          hist,     \* committed transactions, in commit order
          fail      \* an assertion of the program has failed

vars == <<CC_ALG, pc, work, abuf, tx, acc, row, data, mgr, dep, hist, fail>>

NoQuery == <<>>
Inf == 1000              \* UINT64_MAX

NoWord == [lock |-> FALSE, wts |-> 0, delta |-> 0]

(* One txn_man.  ts is the timestamp (start_ts with OCC), c the commit     *)
(* timestamp, cur the _cur_tid of SILO; i and n are a loop index and       *)
(* num_locks or ready_part, v and w a value and a _ts_word read and not    *)
(* yet used.                                                               *)
TxnInit(ts, max) ==
    [k |-> 0, max |-> max, id |-> 0, query |-> NoQuery, ts |-> ts, c |-> 0,
     cur |-> 0, i |-> 1, n |-> 0, v |-> 0, w |-> NoWord, ids |-> {},
     ready |-> FALSE, abort |-> FALSE, rc |-> "RCOK"]

NoDep == [txnid |-> 0, adj |-> {}, num |-> 0]

(* The loop body of thread_t::run takes an aborted query whose penalty is  *)
(* over, or the next query as long as the buffer has an empty slot.  The   *)
(* clock is abstracted to a choice.                                        *)
Empty(t) == {i \in 1..ABORT_BUFFER_SIZE : abuf[t][i] = NoQuery}

CanStart(t) ==
    /\ tx[t].k < tx[t].max
    /\ \/ Empty(t) # 1..ABORT_BUFFER_SIZE
       \/ work[t] # <<>>

(* The first step of the new transaction, and the timestamp it takes.      *)
StartsWithTs == CC_ALG \in {"HSTORE", "MVCC", "HEKATON", "OCC"}

FirstStep == CASE CC_ALG = "HSTORE" -> "plock"
               [] CC_ALG \in {"MVCC", "HEKATON"} -> "add_ts"
               [] OTHER -> "get"

Start(t, q) ==
    /\ pc' = [pc EXCEPT ![t] = FirstStep]
    /\ tx' = [tx EXCEPT ![t] =
                [@ EXCEPT !.k = @ + 1,
                          !.id = t + 1 + tx[t].k * Cardinality(Threads),
                          !.query = q,
                          !.ts = IF StartsWithTs THEN mgr.timestamp ELSE @,
                          !.i = 1, !.n = 0, !.v = 0, !.c = 0, !.ids = {},
                          !.rc = "RCOK"]]
    /\ mgr' = IF StartsWithTs
              THEN [mgr EXCEPT !.timestamp = @ + 1] ELSE mgr

Retry(t) ==
    /\ pc[t] = "idle" /\ CanStart(t)
    /\ \E i \in 1..ABORT_BUFFER_SIZE \ Empty(t) :
          /\ Start(t, abuf[t][i])
          /\ abuf' = [abuf EXCEPT ![t][i] = NoQuery]
    /\ UNCHANGED <<CC_ALG, work, acc, row, data, dep, hist, fail>>

NextQuery(t) ==
    /\ pc[t] = "idle" /\ CanStart(t)
    /\ Empty(t) # {} /\ work[t] # <<>>
    /\ Start(t, Head(work[t]))
    /\ work' = [work EXCEPT ![t] = Tail(@)]
    /\ UNCHANGED <<CC_ALG, abuf, acc, row, data, dep, hist, fail>>

(* The request run_txn is at. *)
Req(t) == tx[t].query[Len(acc[t]) + 1]

(* txn_man::get_row has the row: the access is recorded.                   *)
GotRow(t, a) == acc' = [acc EXCEPT ![t] = Append(@, a)]

AfterAccess(t) ==
    IF Len(acc[t]) + 1 = Len(tx[t].query) THEN "finish" ELSE "get"

(* The transaction is over: an aborted query goes to the first empty slot  *)
(* of the abort buffer.                                                    *)
(* Mutant: the aborted query is dropped.                                   *)
Ended_Drop(t, rc) ==
    /\ pc' = [pc EXCEPT ![t] = "idle"]
    /\ acc' = [acc EXCEPT ![t] = <<>>]
    /\ abuf' = abuf

Ended(t, rc) ==
    /\ pc' = [pc EXCEPT ![t] = "idle"]
    /\ acc' = [acc EXCEPT ![t] = <<>>]
    /\ abuf' = IF rc = "Abort"
               THEN [abuf EXCEPT ![t][Min(Empty(t))] = tx[t].query]
               ELSE abuf

(* A transaction decides to commit. *)
Committed(t) ==
    hist' = Append(hist,
               [id |-> tx[t].id, query |-> tx[t].query,
                rd |-> {<<acc[t][j].row, acc[t][j].ver>> : j \in DOMAIN acc[t]},
                wr |-> {acc[t][j].row : j \in {i \in DOMAIN acc[t] :
                                                 acc[t][i].type = "WR"}}])

(* accesses of one type, in primary key order (the bubble sort of          *)
(* validate_silo and validate_tictoc), and reads in access order.          *)
Writes(t) == {j \in DOMAIN acc[t] : acc[t][j].type = "WR"}

WriteSet(t) ==
    SetToSortSeq(Writes(t), LAMBDA i, j : acc[t][i].row < acc[t][j].row)

ReadSet(t) ==
    SelectSeq([j \in DOMAIN acc[t] |-> j], LAMBDA j : acc[t][j].type = "RD")

(* Thread t goes to label l, its transaction manager becoming new.         *)
Goto(t, l, new) ==
    /\ pc' = [pc EXCEPT ![t] = l]
    /\ tx' = [tx EXCEPT ![t] = new]

(* What a reader may find while another thread copies into the row.        *)
Torn == -1
=============================================================================
