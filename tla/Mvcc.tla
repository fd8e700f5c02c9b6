-------------------------------- MODULE Mvcc --------------------------------
(***************************************************************************)
(* CC_ALG MVCC: bench/cc/row_mvcc.cpp.  Row_mvcc::access runs under the    *)
(* row's blatch, so each call is one step; a transaction uses the version  *)
(* it is given after the latch is free again.                              *)
(*                                                                         *)
(* data[r] holds the contents of the row_t's of row r; a pointer to one is *)
(* its index (slot), and the loaded row_t is slot 0.  The pending requests *)
(* are a set: their places in the array make no difference.                *)
(***************************************************************************)
EXTENDS Txn

CONSTANTS HIS_LEN,        \* initial _his_len, 4 in the code
          InitReserved    \* what fresh memory may hold for `reserved'

NULL == -1

(* init sets valid and row of every entry, and leaves reserved as it is.   *)
MvccInit(reserved) ==
    [row |-> 0, latest |-> 0, latest_wts |-> 0, oldest_wts |-> 0,
     his |-> [i \in 1..HIS_LEN |->
                [valid |-> FALSE, reserved |-> reserved[i], ts |-> 0, slot |-> NULL]],
     num |-> 0, pre |-> FALSE, pre_ts |-> 0, pre_id |-> 0,
     max_rts |-> 0, req |-> {}]

(* Manager::get_min_ts: thread 0 refreshes _min_ts. *)
get_min_ts(t) ==
    LET min == Min({mgr.all_ts[u] : u \in Threads})
    IN  IF t = 0 /\ min > mgr.min_ts THEN min ELSE mgr.min_ts

ValidEntries(m) == {i \in DOMAIN m.his : m.his[i].valid}
Oldest(m, S) == CHOOSE i \in S : \A j \in S : m.his[i].ts <= m.his[j].ts
Newest(m, S) == CHOOSE i \in S : \A j \in S : m.his[i].ts >= m.his[j].ts

(* Garbage collection in a full history: the newest version older than     *)
(* every running transaction becomes _row, and the older ones are dropped. *)
Collected(m, min_ts) ==
    LET old == {i \in ValidEntries(m) : m.his[i].ts < min_ts}
        idx == Newest(m, old)
    IN  IF m.oldest_wts < min_ts /\ m.num = Len(m.his) /\ old # {}
        THEN [m EXCEPT
                !.row = m.his[idx].slot,
                !.oldest_wts = m.his[idx].ts,
                !.num = @ - Cardinality(old),
                !.his = [i \in DOMAIN m.his |->
                           [m.his[i] EXCEPT
                              !.slot = IF i = idx THEN m.row ELSE @,
                              !.valid = @ /\ i \notin old,
                              !.reserved = @ /\ i \notin old]]]
        ELSE m

(* Entries a prewrite may take: the search stops at the first that has a   *)
(* row_t, and otherwise ends with the last.                                *)
Unused(m) == {i \in DOMAIN m.his : ~m.his[i].valid /\ ~m.his[i].reserved}

UnusedEntry(m) ==
    LET with == {i \in Unused(m) : m.his[i].slot # NULL}
    IN  IF with # {} THEN Min(with) ELSE Max(Unused(m))

(* A full history gives up its oldest version, whose storage and that of   *)
(* _row change places, or is doubled.                                      *)
Recycled(m) ==
    LET idx == Oldest(m, ValidEntries(m))
    IN  [m EXCEPT !.row = m.his[idx].slot, !.his[idx].slot = m.row,
                  !.oldest_wts = m.his[idx].ts, !.num = @ - 1]

Doubled(m) ==
    [m EXCEPT !.his = @ \o [i \in DOMAIN @ |->
                               [valid |-> FALSE, reserved |-> FALSE, ts |-> 0, slot |-> NULL]]]

(* The rest of reserveRow: the prewrite takes an entry, with the slot new  *)
(* from malloc if it has none.                                             *)
WithEntry(m, idx, ts, new) ==
    [m EXCEPT !.his[idx] = [valid |-> FALSE, reserved |-> TRUE, ts |-> ts,
                            slot |-> IF @.slot = NULL THEN new ELSE @.slot],
              !.pre = TRUE, !.pre_id = idx, !.pre_ts = ts]

Reserved(m, ts, new) ==
    IF m.num < Len(m.his)
    THEN WithEntry(m, UnusedEntry(m), ts, new)
    ELSE IF Len(m.his) >= Cardinality(Threads)
         THEN WithEntry(Recycled(m), Oldest(m, ValidEntries(m)), ts, new)
         ELSE WithEntry(Doubled(m), Len(m.his) + 1, ts, new)

(* assert(idx < _his_len) fails: no entry is free in a history not full.   *)
NoEntry(m) == m.num < Len(m.his) /\ Unused(m) = {}

(* The assertions before a version is recycled: it is younger than _row,   *)
(* and it has a row_t.                                                     *)
RecycleOK(m) ==
    m.num = Len(m.his) /\ Len(m.his) >= Cardinality(Threads) =>
        LET oldest == m.his[Oldest(m, ValidEntries(m))]
        IN  oldest.ts > m.oldest_wts /\ oldest.slot # NULL

(* The storage of a row once a prewrite is reserved in m: a copy of the    *)
(* latest version is in its slot.                                          *)
WithCopy(d, m) ==
    LET s == m.his[m.pre_id].slot
    IN  [i \in DOMAIN d \cup {s} |-> IF i = s THEN d[m.latest] ELSE d[i]]

Mv(t, l) == CC_ALG = "MVCC" /\ pc[t] = l

(* Manager::add_ts, also for HEKATON. *)
add_ts(t) ==
    /\ pc[t] = "add_ts"
    /\ fail' = (fail \/ ~(mgr.all_ts[t] = Inf \/ tx[t].ts >= mgr.all_ts[t]))
    /\ mgr' = [mgr EXCEPT !.all_ts[t] = tx[t].ts]
    /\ pc' = [pc EXCEPT ![t] = "get"]
    /\ UNCHANGED <<CC_ALG, work, abuf, tx, acc, row, data, dep, hist>>

(* Mutant: a read does not wait for an older prewrite.                     *)
MustWait_Never(t, m) == FALSE

MustWait(t, m) == m.pre /\ m.pre_ts < tx[t].ts

(* The version for a reader older than the latest write. *)
OldVersion(m, ts) ==
    LET old == {i \in ValidEntries(m) : m.his[i].ts < ts}
    IN  IF old = {} THEN m.row ELSE m.his[Newest(m, old)].slot

(* access with R_REQ. *)
MvccRead(t) ==
    LET r == Req(t).row
        m == row[r]
        ts == tx[t].ts
        late == ts > m.latest_wts
    IN  /\ Mv(t, "get") /\ Req(t).type = "RD"
        /\ \/ /\ ts < m.oldest_wts
              /\ row' = row
              /\ Goto(t, "cleanup", [tx[t] EXCEPT !.rc = "Abort"])
           \/ /\ ts >= m.oldest_wts /\ late /\ MustWait(t, m)
              /\ row' = [row EXCEPT ![r].req = @ \cup {[txn |-> t, type |-> "RD", ts |-> ts]}]
              /\ Goto(t, "ts_wait", [tx[t] EXCEPT !.ready = FALSE])
           \/ /\ ts >= m.oldest_wts /\ late /\ ~MustWait(t, m)
              /\ row' = [row EXCEPT ![r].max_rts = IF ts > @ THEN ts ELSE @]
              /\ Goto(t, "use", [tx[t] EXCEPT !.v = m.latest])
           \/ /\ ts >= m.oldest_wts /\ ~late
              /\ row' = row
              /\ Goto(t, "use", [tx[t] EXCEPT !.v = OldVersion(m, ts)])
        /\ UNCHANGED <<CC_ALG, work, abuf, acc, data, mgr, dep, hist, fail>>

TooLate(t, m) ==
    \/ tx[t].ts < m.latest_wts \/ tx[t].ts < m.max_rts
    \/ m.pre /\ m.pre_ts > tx[t].ts

(* A slot not in use. *)
FreshSlot(r) == Cardinality(DOMAIN data[r])

(* access with P_REQ.  The process ends at the label no_entry. *)
MvccPrewrite(t) ==
    LET r == Req(t).row
        m == row[r]
    IN  /\ Mv(t, "get") /\ Req(t).type = "WR"
        /\ \/ /\ TooLate(t, m)
              /\ Goto(t, "cleanup", [tx[t] EXCEPT !.rc = "Abort"])
              /\ UNCHANGED <<row, data, mgr, fail>>
           \/ /\ ~TooLate(t, m) /\ m.pre
              /\ row' = [row EXCEPT ![r].req =
                            @ \cup {[txn |-> t, type |-> "WR", ts |-> tx[t].ts]}]
              /\ Goto(t, "ts_wait", [tx[t] EXCEPT !.ready = FALSE])
              /\ UNCHANGED <<data, mgr, fail>>
           \/ /\ ~TooLate(t, m) /\ ~m.pre
              /\ \E m1 \in {Collected(m, get_min_ts(t))} :
                   \/ /\ NoEntry(m1)
                      /\ Goto(t, "no_entry", tx[t])
                      /\ UNCHANGED <<row, data, mgr, fail>>
                   \/ /\ ~NoEntry(m1)
                      /\ \E new \in {Reserved(m1, tx[t].ts, FreshSlot(r))} :
                           /\ row' = [row EXCEPT ![r] = new]
                           /\ data' = [data EXCEPT ![r] = WithCopy(@, new)]
                           /\ Goto(t, "use", [tx[t] EXCEPT !.v = new.his[new.pre_id].slot])
                      /\ mgr' = [mgr EXCEPT !.min_ts = get_min_ts(t)]
                      /\ fail' = (fail \/ ~RecycleOK(m1))
        /\ UNCHANGED <<CC_ALG, work, abuf, acc, dep, hist>>

(* ts_ready. *)
MvccReady(t) ==
    /\ Mv(t, "ts_wait") /\ tx[t].ready
    /\ Goto(t, "use", tx[t])
    /\ UNCHANGED <<CC_ALG, work, abuf, acc, row, data, mgr, dep, hist, fail>>

(* The body reads or writes through the pointer. *)
MvccUse(t) ==
    LET r == Req(t).row IN
    /\ Mv(t, "use")
    /\ GotRow(t, [row |-> r, type |-> Req(t).type, ver |-> data[r][tx[t].v],
                  slot |-> tx[t].v])
    /\ data' = IF Req(t).type = "WR" THEN [data EXCEPT ![r][tx[t].v] = tx[t].id] ELSE data
    /\ Goto(t, AfterAccess(t), tx[t])
    /\ UNCHANGED <<CC_ALG, work, abuf, row, mgr, dep, hist, fail>>

MvccCommit(t) ==
    /\ Mv(t, "finish")
    /\ Committed(t)
    /\ Goto(t, "cleanup", tx[t])
    /\ UNCHANGED <<CC_ALG, work, abuf, acc, row, data, mgr, dep, fail>>

(* update_buffer: the pending reads before the next pending prewrite are   *)
(* served the latest version, and that prewrite is served.                 *)
NextPre(m) == Min({q.ts : q \in {p \in m.req : p.type = "WR"}} \cup {Inf})

(* Mutant: pending reads are not served.                                   *)
ServedReads_None(m) == {}

ServedReads(m) == {q \in m.req : q.type = "RD" /\ q.ts < NextPre(m)}

ServeReads(m) ==
    [m EXCEPT !.req = @ \ ServedReads(m),
              !.max_rts = Max({@} \cup {q.ts : q \in ServedReads(m)})]

(* tx once the transactions of requests Q may go on with the given slot.   *)
Woken(txs, Q, slot) ==
    [u \in Threads |-> IF \E q \in Q : q.txn = u
                       THEN [txs[u] EXCEPT !.ready = TRUE, !.v = slot] ELSE txs[u]]

update_buffer(t, r, m, d) ==
    \E tx1 \in {Woken(tx, ServedReads(m), m.latest)} :
    \E Q \in {{q \in m.req : q.type = "WR" /\ q.ts = NextPre(m)}} :
        \/ /\ Q = {}
           /\ row' = [row EXCEPT ![r] = ServeReads(m)]
           /\ data' = [data EXCEPT ![r] = d]
           /\ tx' = tx1
           /\ UNCHANGED <<pc, mgr>>
           /\ fail' = (fail \/ \E q \in m.req : q.ts <= tx[t].ts)
        \/ /\ Q # {}
           /\ \E m1 \in {Collected(ServeReads(m), get_min_ts(t))} :
                \/ /\ NoEntry(m1)
                   /\ Goto(t, "no_entry", tx[t])
                   /\ UNCHANGED <<row, data, mgr, fail>>
                \/ /\ ~NoEntry(m1)
                   /\ \E m2 \in {Reserved(m1, NextPre(m), Cardinality(DOMAIN d))} :
                        /\ row' = [row EXCEPT ![r] = [m2 EXCEPT !.req = @ \ Q]]
                        /\ data' = [data EXCEPT ![r] = WithCopy(d, m2)]
                        /\ tx' = Woken(tx1, Q, m2.his[m2.pre_id].slot)
                   /\ fail' = (fail \/ ~RecycleOK(m1) \/ \E q \in m.req : q.ts <= tx[t].ts)
                   /\ mgr' = [mgr EXCEPT !.min_ts = get_min_ts(t)]
                   /\ pc' = pc

(* access with W_REQ: the prewrite is the latest version.                  *)
Written(m, ts, slot) ==
    [m EXCEPT !.his[m.pre_id].valid = TRUE, !.his[m.pre_id].ts = ts,
              !.latest_wts = ts, !.latest = slot, !.pre = FALSE, !.num = @ + 1]

(* Mutant: the entry of an aborted prewrite stays reserved.                *)
Cancelled_Reserved(m) == [m EXCEPT !.his[m.pre_id].valid = FALSE, !.pre = FALSE]

(* access with XP_REQ: the entry of the prewrite is free again.            *)
Cancelled(m) ==
    [m EXCEPT !.his[m.pre_id].valid = FALSE, !.his[m.pre_id].reserved = FALSE, !.pre = FALSE]

(* cleanup: the accesses from the last one on; access with W_REQ or XP_REQ *)
(* for the written ones.                                                   *)
MvccReturn(t) ==
    LET a == Last(acc[t])
        m == row[a.row]
    IN  /\ Mv(t, "cleanup") /\ acc[t] # <<>>
        /\ acc' = [acc EXCEPT ![t] = Front(@)]
        /\ \/ /\ a.type = "RD" /\ UNCHANGED <<pc, row, data, tx, mgr, fail>>
           \/ /\ a.type = "WR" /\ tx[t].rc = "RCOK"
              /\ IF tx[t].ts <= m.latest_wts \/ a.slot # m.his[m.pre_id].slot
                 THEN fail' = TRUE /\ UNCHANGED <<pc, row, data, tx, mgr>>
                 ELSE update_buffer(t, a.row, Written(m, tx[t].ts, a.slot), data[a.row])
           \/ /\ a.type = "WR" /\ tx[t].rc = "Abort"
              /\ IF a.slot # m.his[m.pre_id].slot
                 THEN fail' = TRUE /\ UNCHANGED <<pc, row, data, tx, mgr>>
                 ELSE update_buffer(t, a.row, Cancelled(m), data[a.row])
        /\ UNCHANGED <<CC_ALG, work, abuf, dep, hist>>

MvccEnd(t) ==
    /\ Mv(t, "cleanup") /\ acc[t] = <<>>
    /\ Ended(t, tx[t].rc)
    /\ UNCHANGED <<CC_ALG, work, tx, row, data, mgr, dep, hist, fail>>

MvccStep(t) ==
    /\ CC_ALG \in {"MVCC", "HEKATON"}
    /\ \/ add_ts(t) \/ MvccRead(t) \/ MvccPrewrite(t) \/ MvccReady(t)
       \/ MvccUse(t) \/ MvccCommit(t) \/ MvccReturn(t) \/ MvccEnd(t)
=============================================================================
