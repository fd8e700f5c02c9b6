------------------------------- MODULE Hekaton -------------------------------
(***************************************************************************)
(* CC_ALG HEKATON: bench/cc/row_hekaton.cpp and hekaton.cpp.  The versions *)
(* of a row are a circular array his from oldest to latest; the entry      *)
(* after the latest belongs to the prewrite, if there is one.  Every       *)
(* function of Row_hekaton runs under the blatch.  Slots as in Mvcc; tx.c  *)
(* is commit_ts.                                                           *)
(***************************************************************************)
EXTENDS Mvcc

HekEntry(slot) ==
    [slot |-> slot, begin_txn |-> FALSE, begin |-> 0, end_txn |-> FALSE, end |-> Inf]

HekInit ==
    [his |-> [i \in 0..(HIS_LEN - 1) |-> HekEntry(IF i = 0 THEN 0 ELSE NULL)],
     latest |-> 0, oldest |-> 0, pre |-> FALSE]

HisLen(m) == Cardinality(DOMAIN m.his)
NextOf(m, i) == (i + 1) % HisLen(m)
IsFull(m) == NextOf(m, m.latest) = m.oldest

(* The entries from oldest to latest, and how far each is from latest.     *)
Age(m, i) == (m.latest - i + HisLen(m)) % HisLen(m)
Live(m) == {i \in DOMAIN m.his : Age(m, i) <= Age(m, m.oldest)}

(* What access asserts of the latest version before anything else. *)
LatestIsOpen(m) == m.his[m.latest].end = Inf \/ m.his[m.latest].end_txn

Hek(t, l) == CC_ALG = "HEKATON" /\ pc[t] = l

(* access with R_REQ: the latest version older than the reader. *)
HekRead(t) ==
    LET m == row[Req(t).row]
        ts == tx[t].ts
        older == {i \in Live(m) : m.his[i].begin < ts}
        i == CHOOSE j \in older : \A k \in older : Age(m, j) <= Age(m, k)
    IN  /\ Hek(t, "get") /\ Req(t).type = "RD"
        /\ IF ts < m.his[m.oldest].begin
           THEN /\ Goto(t, "finish", [tx[t] EXCEPT !.rc = "Abort"])
                /\ fail' = (fail \/ ~LatestIsOpen(m))
           ELSE /\ Goto(t, "use", [tx[t] EXCEPT !.v = m.his[i].slot])
                /\ fail' = (fail \/ ~LatestIsOpen(m) \/ (i # m.latest /\ m.his[i].end <= ts))
        /\ UNCHANGED <<CC_ALG, work, abuf, acc, row, data, mgr, dep, hist>>

(* Garbage collection in a full history: versions that ended before every  *)
(* running transaction began go.                                           *)
HekCollected(m, min_ts) ==
    LET gone == {i \in Live(m) : \A j \in Live(m) :
                    Age(m, j) >= Age(m, i) => m.his[j].end < min_ts}
    IN  IF IsFull(m)
        THEN [m EXCEPT !.oldest = (@ + Cardinality(gone)) % HisLen(m)] ELSE m

(* doubleHistory: the old entries come first, from the oldest on.          *)
HekDoubled(m) ==
    LET n == HisLen(m) IN
    [m EXCEPT !.his = [i \in 0..(2 * n - 1) |->
                          IF i < n THEN m.his[(m.oldest + i) % n] ELSE HekEntry(NULL)],
              !.oldest = 0, !.latest = n - 1]

(* reserveRow: room for one more entry after the latest.                   *)
HekReserved(m) ==
    IF ~IsFull(m) THEN m
    ELSE IF HisLen(m) < Cardinality(Threads) THEN HekDoubled(m)
    ELSE [m EXCEPT !.oldest = NextOf(m, @)]

(* The entry after the latest is t's, and the latest ends with t.          *)
HekPrewritten(m, id, new) ==
    [m EXCEPT !.pre = TRUE,
              !.his[NextOf(m, m.latest)] =
                  [@ EXCEPT !.begin_txn = TRUE, !.begin = id,
                            !.slot = IF @ = NULL THEN new ELSE @],
              !.his[m.latest].end_txn = TRUE, !.his[m.latest].end = id]

(* Mutant: a second prewrite is let in.                                    *)
HekTooLate_NoPre(t, m) == tx[t].ts < m.his[m.latest].begin

HekTooLate(t, m) == m.pre \/ tx[t].ts < m.his[m.latest].begin

(* access with P_REQ. *)
HekPrewrite(t) ==
    LET r == Req(t).row
        m == row[r]
    IN  /\ Hek(t, "get") /\ Req(t).type = "WR"
        /\ \/ /\ HekTooLate(t, m)
              /\ Goto(t, "finish", [tx[t] EXCEPT !.rc = "Abort"])
              /\ UNCHANGED <<row, data, mgr>>
           \/ /\ ~HekTooLate(t, m)
              /\ \E m1 \in {HekReserved(HekCollected(m, get_min_ts(t)))} :
                 \E m2 \in {HekPrewritten(m1, tx[t].id, FreshSlot(r))} :
                 \E s \in {m2.his[NextOf(m2, m2.latest)].slot} :
                    /\ row' = [row EXCEPT ![r] = m2]
                    /\ data' = [data EXCEPT ![r] =
                                  [i \in DOMAIN @ \cup {s} |->
                                      IF i = s THEN @[m2.his[m2.latest].slot] ELSE @[i]]]
                    /\ Goto(t, "use", [tx[t] EXCEPT !.v = s])
              /\ mgr' = [mgr EXCEPT !.min_ts = get_min_ts(t)]
        /\ fail' = (fail \/ ~LatestIsOpen(m))
        /\ UNCHANGED <<CC_ALG, work, abuf, acc, dep, hist>>

HekUse(t) ==
    LET r == Req(t).row IN
    /\ Hek(t, "use")
    /\ GotRow(t, [row |-> r, type |-> Req(t).type, ver |-> data[r][tx[t].v],
                  slot |-> tx[t].v])
    /\ data' = IF Req(t).type = "WR" THEN [data EXCEPT ![r][tx[t].v] = tx[t].id] ELSE data
    /\ Goto(t, AfterAccess(t), tx[t])
    /\ UNCHANGED <<CC_ALG, work, abuf, row, mgr, dep, hist, fail>>

(* validate_hekaton takes commit_ts, also for a transaction that aborts.   *)
HekCommitTs(t) ==
    /\ Hek(t, "finish")
    /\ mgr' = [mgr EXCEPT !.timestamp = @ + 1]
    /\ Goto(t, IF tx[t].rc = "RCOK" THEN "validate" ELSE "post",
            [tx[t] EXCEPT !.c = mgr.timestamp, !.i = 1])
    /\ UNCHANGED <<CC_ALG, work, abuf, acc, row, data, dep, hist, fail>>

(* prepare_read: the version is still there, and did not end before the    *)
(* commit; an end that is a transaction does not count.                    *)
prepare_read(m, slot, ts, commit_ts) ==
    \E i \in Live(m) :
        /\ m.his[i].slot = slot
        /\ ts >= m.his[i].begin
        /\ m.his[i].end_txn \/ m.his[i].end >= commit_ts

HekValidate(t) ==
    LET a == acc[t][ReadSet(t)[tx[t].i]] IN
    /\ Hek(t, "validate") /\ tx[t].i <= Len(ReadSet(t))
    /\ IF prepare_read(row[a.row], a.slot, tx[t].ts, tx[t].c)
       THEN Goto(t, "validate", [tx[t] EXCEPT !.i = @ + 1])
       ELSE Goto(t, "post", [tx[t] EXCEPT !.i = 1, !.rc = "Abort"])
    /\ UNCHANGED <<CC_ALG, work, abuf, acc, row, data, mgr, dep, hist, fail>>

HekCommit(t) ==
    /\ Hek(t, "validate") /\ tx[t].i > Len(ReadSet(t))
    /\ Committed(t)
    /\ Goto(t, "post", [tx[t] EXCEPT !.i = 1])
    /\ UNCHANGED <<CC_ALG, work, abuf, acc, row, data, mgr, dep, fail>>

HekWrites(t) ==
    SelectSeq([j \in DOMAIN acc[t] |-> j], LAMBDA j : acc[t][j].type = "WR")

(* post_process: the new entry becomes the latest, or is given up.         *)
post_process(t) ==
    LET r == acc[t][HekWrites(t)[tx[t].i]].row
        m == row[r]
        e == m.his[NextOf(m, m.latest)]
    IN  /\ Hek(t, "post") /\ tx[t].i <= Len(HekWrites(t))
        /\ row' = [row EXCEPT ![r] =
              IF tx[t].rc = "RCOK"
              THEN [m EXCEPT !.pre = FALSE,
                             !.his[m.latest].end_txn = FALSE,
                             !.his[m.latest].end = tx[t].c,
                             !.his[NextOf(m, m.latest)].begin = tx[t].c,
                             !.his[NextOf(m, m.latest)].end = Inf,
                             !.latest = NextOf(m, @)]
              ELSE [m EXCEPT !.pre = FALSE,
                             !.his[m.latest].end_txn = FALSE,
                             !.his[m.latest].end = Inf]]
        /\ fail' = (fail \/ ~e.begin_txn \/ e.begin # tx[t].id
                      \/ (tx[t].rc = "RCOK" /\ (\/ tx[t].c <= m.his[m.latest].begin
                                                \/ NextOf(m, m.latest) = m.oldest)))
        /\ Goto(t, "post", [tx[t] EXCEPT !.i = @ + 1])
        /\ UNCHANGED <<CC_ALG, work, abuf, acc, data, mgr, dep, hist>>

HekEnd(t) ==
    /\ Hek(t, "post") /\ tx[t].i > Len(HekWrites(t))
    /\ Ended(t, tx[t].rc)
    /\ UNCHANGED <<CC_ALG, work, tx, row, data, mgr, dep, hist, fail>>

HekStep(t) ==
    /\ CC_ALG = "HEKATON"
    /\ \/ HekRead(t) \/ HekPrewrite(t) \/ HekUse(t) \/ HekCommitTs(t)
       \/ HekValidate(t) \/ HekCommit(t) \/ post_process(t) \/ HekEnd(t)
==============================================================================
