-------------------------------- MODULE Silo --------------------------------
(***************************************************************************)
(* CC_ALG SILO: bench/cc/row_silo.cpp and silo.cpp with the values of      *)
(* config.h (ATOMIC_WORD, PRE_ABORT, VALIDATION_LOCK "no-wait").  row[r]   *)
(* is _tid_word, its LOCK_BIT apart.  A local copy of a row is the pair of *)
(* its contents (ver) and the tid it was read under.                       *)
(***************************************************************************)
EXTENDS Txn

SiloInit == [lock |-> FALSE, tid |-> 0]

Silo(t, l) == CC_ALG = "SILO" /\ pc[t] = l

(* Row_silo::access: wait for an unlocked word, copy, and read the word    *)
(* again.                                                                  *)
SiloReadWord(t) ==
    /\ Silo(t, "get") /\ ~row[Req(t).row].lock
    /\ Goto(t, "copy", [tx[t] EXCEPT !.v = row[Req(t).row].tid])
    /\ UNCHANGED <<CC_ALG, work, abuf, acc, row, data, mgr, dep, hist, fail>>

SiloCopy(t) ==
    /\ Silo(t, "copy")
    /\ Goto(t, "reread", [tx[t] EXCEPT !.c = data[Req(t).row][0]])
    /\ UNCHANGED <<CC_ALG, work, abuf, acc, row, data, mgr, dep, hist, fail>>

SiloReread(t) ==
    /\ Silo(t, "reread")
    /\ IF row[Req(t).row] = [lock |-> FALSE, tid |-> tx[t].v]
       THEN /\ GotRow(t, [row |-> Req(t).row, type |-> Req(t).type,
                          ver |-> tx[t].c, tid |-> tx[t].v])
            /\ Goto(t, AfterAccess(t), tx[t])
       ELSE acc' = acc /\ Goto(t, "get", tx[t])
    /\ UNCHANGED <<CC_ALG, work, abuf, row, data, mgr, dep, hist, fail>>

(* The row and the tid of the j-th access. *)
RowOf(t, j) == acc[t][j].row
SameTid(t, j) == row[RowOf(t, j)].tid = acc[t][j].tid

(* _pre_abort: one look at each row, written ones first.                   *)
SiloPreAbort(t) ==
    LET all == WriteSet(t) \o ReadSet(t) IN
    /\ Silo(t, "finish")
    /\ IF ~SameTid(t, all[tx[t].i])
       THEN Goto(t, "release", [tx[t] EXCEPT !.rc = "Abort", !.i = 1])
       ELSE IF tx[t].i = Len(all)
            THEN Goto(t, IF Writes(t) = {} THEN "validate" ELSE "lock",
                      [tx[t] EXCEPT !.i = 1])
            ELSE Goto(t, "finish", [tx[t] EXCEPT !.i = @ + 1])
    /\ UNCHANGED <<CC_ALG, work, abuf, acc, row, data, mgr, dep, hist, fail>>

(* try_lock reads the word and compares and swaps it; if either fails, the *)
(* n locks held are released and all is tried again from the pre-abort on. *)
SiloTryLock(t) ==
    LET r == RowOf(t, WriteSet(t)[tx[t].i]) IN
    /\ Silo(t, "lock")
    /\ IF row[r].lock
       THEN Goto(t, "release", [tx[t] EXCEPT !.i = 1])
       ELSE Goto(t, "cas", [tx[t] EXCEPT !.v = row[r].tid])
    /\ UNCHANGED <<CC_ALG, work, abuf, acc, row, data, mgr, dep, hist, fail>>

SiloCas(t) ==
    LET i == tx[t].i
        r == RowOf(t, WriteSet(t)[i])
    IN  /\ Silo(t, "cas")
        /\ IF row[r] # [lock |-> FALSE, tid |-> tx[t].v]
           THEN row' = row /\ Goto(t, "release", [tx[t] EXCEPT !.i = 1])
           ELSE /\ row' = [row EXCEPT ![r].lock = TRUE]
                /\ IF ~SameTid(t, WriteSet(t)[i])
                   THEN Goto(t, "release",
                             [tx[t] EXCEPT !.i = 1, !.n = i, !.rc = "Abort"])
                   ELSE IF i = Len(WriteSet(t))
                        THEN Goto(t, "validate", [tx[t] EXCEPT !.i = 1, !.n = i])
                        ELSE Goto(t, "lock", [tx[t] EXCEPT !.i = i + 1, !.n = i])
        /\ UNCHANGED <<CC_ALG, work, abuf, acc, data, mgr, dep, hist, fail>>

(* The n locks are released, one at a time. *)
SiloRelease(t) ==
    LET r == RowOf(t, WriteSet(t)[tx[t].i]) IN
    /\ Silo(t, "release") /\ tx[t].i <= tx[t].n
    /\ row' = [row EXCEPT ![r].lock = FALSE]
    /\ fail' = (fail \/ ~row[r].lock)
    /\ Goto(t, "release", [tx[t] EXCEPT !.i = @ + 1])
    /\ UNCHANGED <<CC_ALG, work, abuf, acc, data, mgr, dep, hist>>

SiloReleased(t) ==
    /\ Silo(t, "release") /\ tx[t].i > tx[t].n
    /\ tx' = [tx EXCEPT ![t].i = 1, ![t].n = 0]
    /\ IF tx[t].rc = "Abort"
       THEN Ended(t, "Abort")
       ELSE pc' = [pc EXCEPT ![t] = "finish"] /\ UNCHANGED <<abuf, acc>>
    /\ UNCHANGED <<CC_ALG, work, row, data, mgr, dep, hist, fail>>

(* Mutant: validate looks at the tid alone.                                *)
ReadValid_Tid(t, j) == SameTid(t, j)

(* Row_silo::validate for a row that is only read.                         *)
ReadValid(t, j) == ~row[RowOf(t, j)].lock /\ SameTid(t, j)

SiloValidate(t) ==
    LET i == tx[t].i IN
    /\ Silo(t, "validate") /\ i <= Len(ReadSet(t))
    /\ IF ReadValid(t, ReadSet(t)[i])
       THEN Goto(t, "validate", [tx[t] EXCEPT !.i = i + 1])
       ELSE Goto(t, "release", [tx[t] EXCEPT !.i = 1, !.rc = "Abort"])
    /\ UNCHANGED <<CC_ALG, work, abuf, acc, row, data, mgr, dep, hist, fail>>

(* Mutant: _cur_tid counts up, whatever was read.                          *)
NewTid_Count(cur, max_tid) == cur + 1

NewTid(cur, max_tid) == IF max_tid > cur THEN max_tid + 1 ELSE cur + 1

(* The written rows, all locked by now, are validated as well, and the     *)
(* transaction commits.                                                    *)
SiloCommit(t) ==
    LET max_tid == Max({acc[t][j].tid : j \in DOMAIN acc[t]}) IN
    /\ Silo(t, "validate") /\ tx[t].i > Len(ReadSet(t))
    /\ IF \A j \in Writes(t) : SameTid(t, j)
       THEN /\ Committed(t)
            /\ Goto(t, "write", [tx[t] EXCEPT !.cur = NewTid(@, max_tid), !.i = 1])
       ELSE hist' = hist /\ Goto(t, "release", [tx[t] EXCEPT !.i = 1, !.rc = "Abort"])
    /\ UNCHANGED <<CC_ALG, work, abuf, acc, row, data, mgr, dep, fail>>

(* Row_silo::write copies into the row,                                    *)
SiloWrite(t) ==
    /\ Silo(t, "write") /\ tx[t].i <= Len(WriteSet(t))
    /\ data' = [data EXCEPT ![RowOf(t, WriteSet(t)[tx[t].i])][0] = Torn]
    /\ Goto(t, "written", tx[t])
    /\ UNCHANGED <<CC_ALG, work, abuf, acc, row, mgr, dep, hist, fail>>

(* completes the copy, stores the new tid and releases the lock; between   *)
(* these the word is locked, and nobody can tell them apart.               *)
SiloWritten(t) ==
    LET r == RowOf(t, WriteSet(t)[tx[t].i]) IN
    /\ Silo(t, "written")
    /\ data' = [data EXCEPT ![r][0] = tx[t].id]
    /\ row' = [row EXCEPT ![r] = [lock |-> FALSE, tid |-> tx[t].cur]]
    /\ fail' = (fail \/ ~row[r].lock \/ tx[t].cur <= row[r].tid)
    /\ Goto(t, "write", [tx[t] EXCEPT !.i = @ + 1])
    /\ UNCHANGED <<CC_ALG, work, abuf, acc, mgr, dep, hist>>

SiloEnd(t) ==
    /\ Silo(t, "write") /\ tx[t].i > Len(WriteSet(t))
    /\ Ended(t, "RCOK")
    /\ UNCHANGED <<CC_ALG, work, tx, row, data, mgr, dep, hist, fail>>

SiloStep(t) ==
    /\ CC_ALG = "SILO"
    /\ \/ SiloReadWord(t) \/ SiloCopy(t) \/ SiloReread(t) \/ SiloPreAbort(t)
       \/ SiloTryLock(t) \/ SiloCas(t) \/ SiloRelease(t) \/ SiloReleased(t)
       \/ SiloValidate(t) \/ SiloCommit(t) \/ SiloWrite(t) \/ SiloWritten(t)
       \/ SiloEnd(t)
=============================================================================
