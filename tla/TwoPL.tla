------------------------------- MODULE TwoPL -------------------------------
(***************************************************************************)
(* The locking builds (NO_WAIT, WAIT_DIE, DL_DETECT): the lock branches of *)
(* row_t::get_row and return_row (storage/row.cpp), cleanup (misc/txn.cpp) *)
(* and the deadlock detector (cc/dl_detect.cpp) over the row locks of      *)
(* RowLock.  A transaction works on the row in place, keeping a copy of    *)
(* what it overwrites.                                                     *)
(***************************************************************************)
EXTENDS Txn, RowLock

lock_t(type) == IF type = "RD" THEN LOCK_SH ELSE LOCK_EX

(* The access is recorded, the old contents are kept (orig_data, field     *)
(* ver) and the body works on the row.                                     *)
Locked(t) ==
    LET r == Req(t).row IN
    /\ GotRow(t, [row |-> r, type |-> Req(t).type, ver |-> data[r][0]])
    /\ data' = IF Req(t).type = "WR"
               THEN [data EXCEPT ![r][0] = tx[t].id] ELSE data
    /\ pc' = [pc EXCEPT ![t] = AfterAccess(t)]

(* lock_get grants the row. *)
LockRow(t) ==
    LET q == Req(t) IN
    /\ pc[t] = "get" /\ CC_ALG \in LockAlgs
    /\ ~Conflicts(CC_ALG, [u \in Threads |-> tx[u].ts], row[q.row], t, lock_t(q.type))
    /\ row' = [row EXCEPT ![q.row] = AsOwner(@, t, lock_t(q.type))]
    /\ Locked(t)
    /\ UNCHANGED <<CC_ALG, work, abuf, tx, mgr, dep, hist, fail>>

(* txnids: with DL_DETECT, the conflicting waiters ahead and the owners.   *)
WaitsFor(m, type, p) ==
    {m.waiters[j].txn : j \in {i \in 1..(p - 1) :
                                  conflict_lock(type, m.waiters[i].type)}}
        \cup (IF conflict_lock(type, m.lock_type) THEN m.owners ELSE {})

(* lock_get makes the request wait (tx.ids: those waited for), or     *)
(* tells it to abort.                                                      *)
LockWait(t) ==
    LET q == Req(t)
        m == row[q.row]
        ts == [u \in Threads |-> tx[u].ts]
    IN  /\ pc[t] = "get" /\ CC_ALG \in LockAlgs
        /\ Conflicts(CC_ALG, ts, m, t, lock_t(q.type))
        /\ CanWait(CC_ALG, ts, m, t)
        /\ \E p \in 1..(Len(m.waiters) + 1) :
              /\ IsPlace(CC_ALG, ts, m, t, p)
              /\ row' = [row EXCEPT ![q.row] = AsWaiter(m, t, lock_t(q.type), p)]
              /\ tx' = [tx EXCEPT ![t].ready = FALSE,
                                  ![t].ids = {tx[u].id : u \in WaitsFor(m, lock_t(q.type), p)}]
              /\ fail' = (fail \/ (CC_ALG = "DL_DETECT" /\ WaitsFor(m, lock_t(q.type), p) = {}))
        /\ pc' = [pc EXCEPT ![t] = "reset_abort"]
        /\ UNCHANGED <<CC_ALG, work, abuf, acc, data, mgr, dep, hist>>

(* get_row clears lock_abort only after lock_get has let go of the latch:  *)
(* a detector may have set it in between.                                  *)
ResetAbort(t) ==
    /\ pc[t] = "reset_abort"
    /\ tx' = [tx EXCEPT ![t].abort = FALSE]
    /\ pc' = [pc EXCEPT ![t] = "wait"]
    /\ UNCHANGED <<CC_ALG, work, abuf, acc, row, data, mgr, dep, hist, fail>>

LockAbort(t) ==
    LET q == Req(t)
        ts == [u \in Threads |-> tx[u].ts]
    IN  /\ pc[t] = "get" /\ CC_ALG \in LockAlgs
        /\ Conflicts(CC_ALG, ts, row[q.row], t, lock_t(q.type))
        /\ ~CanWait(CC_ALG, ts, row[q.row], t)
        /\ tx' = [tx EXCEPT ![t].rc = "Abort"]
        /\ pc' = [pc EXCEPT ![t] = "cleanup"]
        /\ UNCHANGED <<CC_ALG, work, abuf, acc, row, data, mgr, dep, hist, fail>>

(* The wait loop of get_row ends with the lock, or gives up.               *)
WaitReady(t) ==
    /\ pc[t] = "wait" /\ tx[t].ready
    /\ Locked(t)
    /\ UNCHANGED <<CC_ALG, work, abuf, tx, row, mgr, dep, hist, fail>>

(* Mutant: the entry of a request that gives up stays behind.              *)
WaitGiveUp_Keep(t) ==
    /\ pc[t] = "wait" /\ tx[t].abort /\ ~tx[t].ready
    /\ tx' = [tx EXCEPT ![t].rc = "Abort"]
    /\ pc' = [pc EXCEPT ![t] = "cleanup"]
    /\ UNCHANGED <<CC_ALG, work, abuf, acc, row, data, mgr, dep, hist, fail>>

WaitGiveUp(t) ==
    /\ pc[t] = "wait" /\ tx[t].abort /\ ~tx[t].ready
    /\ tx' = [tx EXCEPT ![t].rc = "Abort"]
    /\ pc' = [pc EXCEPT ![t] = "give_up"]
    /\ UNCHANGED <<CC_ALG, work, abuf, acc, row, data, mgr, dep, hist, fail>>

(* DL_DETECT: g_timeout passes. *)
WaitTimeout(t) ==
    /\ pc[t] = "wait" /\ CC_ALG = "DL_DETECT" /\ ~tx[t].ready
    /\ tx' = [tx EXCEPT ![t].abort = TRUE]
    /\ UNCHANGED <<CC_ALG, pc, work, abuf, acc, row, data, mgr, dep, hist, fail>>

(* The ids waited for are added to those of earlier waits of the           *)
(* transaction.                                                            *)
add_dep(t) ==
    /\ pc[t] = "wait" /\ CC_ALG = "DL_DETECT"
    /\ ~tx[t].ready /\ ~tx[t].abort /\ tx[t].ids # {}
    /\ dep' = [dep EXCEPT ![t] = [txnid |-> tx[t].id, adj |-> @.adj \cup tx[t].ids,
                                  num |-> Len(acc[t])]]
    /\ tx' = [tx EXCEPT ![t].ids = {}]
    /\ UNCHANGED <<CC_ALG, pc, work, abuf, acc, row, data, mgr, hist, fail>>

(* The waits-for graph as the detector sees it: an edge counts only if it  *)
(* leads to the transaction its thread has registered.                     *)
Edge(t, u) == dep[u].txnid # 0 /\ dep[u].txnid \in dep[t].adj

Paths ==
    {s \in UNION {[1..n -> Threads] : n \in 1..Cardinality(Threads)} :
        \A i, j \in DOMAIN s : i # j => s[i] # s[j]}

Loops == {s \in Paths : \A i \in DOMAIN s : Edge(s[i], s[(i % Len(s)) + 1])}

(* Mutant: the detector looks one step ahead only.                         *)
Victims_OneStep(t) ==
    {u \in Threads : Edge(t, u) /\ Edge(u, t) /\ dep[u].num < dep[t].num}

(* The transactions of a loop reachable from t that hold least locks: the  *)
(* depth-first search picks one of them.                                   *)
Victims(t) ==
    LET step[n \in 0..Cardinality(Threads)] ==
            IF n = 0 THEN {t}
            ELSE step[n - 1] \cup {u \in Threads : \E v \in step[n - 1] : Edge(v, u)}
        reach == step[Cardinality(Threads)]
    IN  UNION {LET on == {s[i] : i \in DOMAIN s}
               IN  {u \in on : \A v \in on : dep[u].num <= dep[v].num} :
                  s \in {l \in Loops : \A i \in DOMAIN l : l[i] \in reach}}

(* detect_cycle, modelled as one step over the registered dependencies.    *)
detect_cycle(t) ==
    /\ pc[t] = "wait" /\ CC_ALG = "DL_DETECT"
    /\ ~tx[t].ready /\ ~tx[t].abort /\ tx[t].ids = {}
    /\ \E u \in Victims(t) : tx' = [tx EXCEPT ![u].abort = TRUE]
    /\ UNCHANGED <<CC_ALG, pc, work, abuf, acc, row, data, mgr, dep, hist, fail>>

(* Row_lock::lock_release: the entry leaves and waiters are let in.        *)
lock_release(t, r) ==
    LET m == Without(row[r], t) IN
    \E k \in 0..Len(m.waiters) :
        /\ IsGrant(m, k)
        /\ row' = [row EXCEPT ![r] = AfterGrant(m, k)]
        /\ tx' = [u \in Threads |->
                     IF u \in Granted(m, k) THEN [tx[u] EXCEPT !.ready = TRUE] ELSE tx[u]]
        /\ fail' = (fail \/ \E u \in Granted(m, k) : tx[u].ready)

ReturnWait(t) ==
    /\ pc[t] = "give_up"
    /\ lock_release(t, Req(t).row)
    /\ pc' = [pc EXCEPT ![t] = "cleanup"]
    /\ UNCHANGED <<CC_ALG, work, abuf, acc, data, mgr, dep, hist>>

LockCommit(t) ==
    /\ pc[t] = "finish" /\ CC_ALG \in LockAlgs
    /\ Committed(t)
    /\ pc' = [pc EXCEPT ![t] = "cleanup"]
    /\ UNCHANGED <<CC_ALG, work, abuf, tx, acc, row, data, mgr, dep, fail>>

(* Mutant: cleanup releases the rows without restoring them.               *)
LockCleanup_NoRollback(t) ==
    /\ pc[t] = "cleanup" /\ CC_ALG \in LockAlgs /\ acc[t] # <<>>
    /\ lock_release(t, Last(acc[t]).row)
    /\ acc' = [acc EXCEPT ![t] = Front(@)]
    /\ UNCHANGED <<CC_ALG, pc, work, abuf, data, mgr, dep, hist>>

(* cleanup: the accesses are returned, last one first; an aborted write is *)
(* undone before the lock is released.                                     *)
LockCleanup(t) ==
    /\ pc[t] = "cleanup" /\ CC_ALG \in LockAlgs /\ acc[t] # <<>>
    /\ LET a == Last(acc[t]) IN
       /\ data' = IF a.type = "WR" /\ tx[t].rc = "Abort"
                  THEN [data EXCEPT ![a.row][0] = a.ver] ELSE data
       /\ lock_release(t, a.row)
    /\ acc' = [acc EXCEPT ![t] = Front(@)]
    /\ UNCHANGED <<CC_ALG, pc, work, abuf, mgr, dep, hist>>

(* Nothing left to return: clear_dep, and the transaction is over.         *)
LockEnd(t) ==
    /\ pc[t] = "cleanup" /\ CC_ALG \in LockAlgs /\ acc[t] = <<>>
    /\ Ended(t, tx[t].rc)
    /\ dep' = [dep EXCEPT ![t] = NoDep]
    /\ UNCHANGED <<CC_ALG, work, tx, row, data, mgr, hist, fail>>

LockStep(t) ==
    /\ CC_ALG \in LockAlgs
    /\ \/ LockRow(t) \/ LockWait(t) \/ LockAbort(t) \/ ResetAbort(t)
       \/ WaitReady(t) \/ WaitGiveUp(t) \/ add_dep(t) \/ detect_cycle(t)
       \/ ReturnWait(t) \/ LockCommit(t) \/ LockCleanup(t) \/ LockEnd(t)
=============================================================================
