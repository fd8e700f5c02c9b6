--------------------------- MODULE ValidateProofs ---------------------------
(***************************************************************************)
(* Proofs about Validate, for every bound on the elements of a walk and    *)
(* every width of the counter.                                             *)
(***************************************************************************)
EXTENDS Validate, SequenceTheorems, TLAPS

W == 2^WordBits

(* The atom_t arithmetic of the queries: a number that fits is unchanged,  *)
(* a negative difference wraps around to one that is beyond every count.   *)
LEMMA WordFacts ==
  /\ W \in Nat /\ W > 0
  /\ \A n \in 0..MaxLen : Word(n) = n
  /\ \A n \in -MaxLen..-1 : Word(n) = n + W /\ Word(n) > MaxLen
  /\ \A n \in Int : Word(n) \in Nat
<1>1. W \in Nat /\ WordBits \in Nat /\ MaxLen \in Nat /\ 2 * MaxLen < W
  BY ValidateAssumption DEF W
<1>2. \A n : Word(n) = n % W
  BY DEF Word, W
<1> HIDE DEF W
<1>3. W > 0
  BY <1>1
<1>4. ASSUME NEW n \in 0..MaxLen PROVE Word(n) = n
  BY <1>1, <1>2
<1>5. ASSUME NEW n \in -MaxLen..-1 PROVE Word(n) = n + W /\ Word(n) > MaxLen
  <2>1. n \in Int /\ n < 0 /\ 0 <= n + W /\ n + W < W /\ n + W > MaxLen
    BY <1>1
  <2>2. n % W = n + W
    BY <1>1, <2>1
  <2>3. QED
    BY <1>2, <2>1, <2>2
<1>6. ASSUME NEW n \in Int PROVE Word(n) \in Nat
  BY <1>1, <1>2, <1>3
<1>7. QED
  BY <1>1, <1>3, <1>4, <1>5, <1>6

(* The walks of every query, as tuples. *)
LEMMA WalkTuples ==
  /\ kind = "freelist" => Walks = <<Walk(free, vi, 0, 1)>>
  /\ kind = "queue" => Walks = <<Walk(list, vi, 1, 1), Walk(free, Rest(total - 1, vi), 0, 2)>>
  /\ kind = "ringbuffer" =>
       Walks = <<Walk(list, vi, 1, 1), Walk(free, Rest(total - 1, vi), 0, 2),
                 Walk(ring, Rest(total - 1, vi), 0, 3)>>
  /\ kind = "stack" /\ vi = NoBounds =>
       Walks = <<Walk(free, NoBounds, 0, 1), Walk(list, vi, 0, 1)>>
  /\ kind = "stack" /\ vi # NoBounds =>
       Walks = <<Walk(free, NoBounds, 0, 1), Walk(list, vi, 0, 1),
                 Walk(free, Rest(total, vi), 0, 2), Walk(free, NoBounds, 0, 2)>>
<1>1. ASSUME NEW a, NEW b, NEW c, NEW d
      PROVE  /\ <<a, b>> \o <<c, d>> = <<a, b, c, d>>
             /\ <<a, b>> \o <<c>> = <<a, b, c>>
             /\ <<a, b>> \o <<>> = <<a, b>>
  <2> DEFINE S == {a, b, c, d}
  <2>1. <<a, b>> \o <<c, d>> = <<a, b, c, d>>
    <3>1. <<a, b>> \in Seq(S) /\ <<c, d>> \in Seq(S) /\ <<a, b, c, d>> \in Seq(S)
      OBVIOUS
    <3> DEFINE s == <<a, b>> \o <<c, d>>
    <3>2. /\ s \in Seq(S)
          /\ Len(s) = Len(<<a, b>>) + Len(<<c, d>>)
          /\ \A i \in 1..Len(s) : s[i] = IF i <= Len(<<a, b>>) THEN <<a, b>>[i]
                                         ELSE <<c, d>>[i - Len(<<a, b>>)]
      BY <3>1, ConcatProperties
    <3>3. Len(s) = 4 /\ s[1] = a /\ s[2] = b /\ s[3] = c /\ s[4] = d
      BY <3>2
    <3> DEFINE t == <<a, b, c, d>>
    <3>4. t \in Seq(S) /\ Len(t) = 4 /\ t[1] = a /\ t[2] = b /\ t[3] = c /\ t[4] = d
      BY <3>1
    <3> HIDE DEF S, s, t
    <3>5. \A i \in 1..Len(s) : s[i] = t[i]
      BY <3>3, <3>4
    <3>6. s = t
      BY <3>2, <3>3, <3>4, <3>5, SeqEqual
    <3>7. QED
      BY <3>6 DEF s, t
  <2>2. <<a, b>> \o <<c>> = <<a, b, c>>
    <3>1. <<a, b>> \in Seq(S) /\ <<c>> \in Seq(S) /\ <<a, b, c>> \in Seq(S)
      OBVIOUS
    <3> DEFINE s == <<a, b>> \o <<c>>
    <3>2. /\ s \in Seq(S)
          /\ Len(s) = Len(<<a, b>>) + Len(<<c>>)
          /\ \A i \in 1..Len(s) : s[i] = IF i <= Len(<<a, b>>) THEN <<a, b>>[i]
                                         ELSE <<c>>[i - Len(<<a, b>>)]
      BY <3>1, ConcatProperties
    <3>3. Len(s) = 3 /\ s[1] = a /\ s[2] = b /\ s[3] = c
      BY <3>2
    <3> DEFINE t == <<a, b, c>>
    <3>4. t \in Seq(S) /\ Len(t) = 3 /\ t[1] = a /\ t[2] = b /\ t[3] = c
      BY <3>1
    <3> HIDE DEF S, s, t
    <3>5. \A i \in 1..Len(s) : s[i] = t[i]
      BY <3>3, <3>4
    <3>6. s = t
      BY <3>2, <3>3, <3>4, <3>5, SeqEqual
    <3>7. QED
      BY <3>6 DEF s, t
  <2>3. <<a, b>> \o <<>> = <<a, b>>
    OBVIOUS
  <2>4. QED
    BY <2>1, <2>2, <2>3
<1>2. ASSUME kind = "freelist" PROVE Walks = FreelistWalks
  BY <1>2 DEF Walks
<1>3. ASSUME kind = "queue" PROVE Walks = QueueWalks
  BY <1>3 DEF Walks
<1>4. ASSUME kind = "stack" PROVE Walks = StackWalks
  BY <1>4 DEF Walks
<1>5. ASSUME kind = "ringbuffer" PROVE Walks = RingBufferWalks
  BY <1>5 DEF Walks
<1>6. RingBufferWalks = <<Walk(list, vi, 1, 1), Walk(free, Rest(total - 1, vi), 0, 2),
                          Walk(ring, Rest(total - 1, vi), 0, 3)>>
  BY <1>1 DEF RingBufferWalks, QueueWalks
<1>7. vi = NoBounds => StackWalks = <<Walk(free, NoBounds, 0, 1), Walk(list, vi, 0, 1)>>
  BY <1>1 DEF StackWalks
<1>8. vi # NoBounds =>
        StackWalks = <<Walk(free, NoBounds, 0, 1), Walk(list, vi, 0, 1),
                       Walk(free, Rest(total, vi), 0, 2), Walk(free, NoBounds, 0, 2)>>
  <2>1. vi # NoBounds =>
          StackWalks = <<Walk(free, NoBounds, 0, 1), Walk(list, vi, 0, 1)>> \o
                       <<Walk(free, Rest(total, vi), 0, 2), Walk(free, NoBounds, 0, 2)>>
    BY DEF StackWalks
  <2>2. QED
    BY <1>1, <2>1
<1>9. QED
  BY <1>2, <1>3, <1>4, <1>5, <1>6, <1>7, <1>8 DEF FreelistWalks, QueueWalks

WalkOK(w, j) ==
    /\ w.list \in Lists
    /\ w.vi = NoBounds \/ w.vi \in [min : Nat, max : Nat]
    /\ w.dummies \in 0..1 /\ w.dummies <= w.list.len
    /\ w.out \in 1..3
    /\ kind # "stack" => w.out = j

(* Bounds of a free list are words. *)
LEMMA RestFacts ==
  ASSUME NEW b \in Bounds, NEW n \in Int
  PROVE  Rest(n, b) = NoBounds \/ Rest(n, b) \in [min : Nat, max : Nat]
<1>1. CASE b = NoBounds
  BY <1>1 DEF Rest
<1>2. CASE b # NoBounds
  <2>1. b.min \in Int /\ b.max \in Int
    BY <1>2, ValidateAssumption DEF Bounds
  <2>2. Word(n - b.max) \in Nat /\ Word(n - b.min) \in Nat
    BY <2>1, WordFacts
  <2>3. QED
    BY <1>2, <2>2 DEF Rest
<1>3. QED
  BY <1>1, <1>2

(* What the loop of validation and the bookkeeping of the verdicts rely on *)
(* in every walk of every query.                                           *)
LEMMA WalkFacts ==
  ASSUME InputOK
  PROVE  /\ Len(Walks) \in 1..4
         /\ \A j \in 1..Len(Walks) : WalkOK(Walks[j], j)
         /\ kind # "stack" => Len(Walks) \in 1..3
         /\ kind = "stack" =>
              /\ Len(Walks) >= 2
              /\ Walks[1].out = 1 /\ Walks[2].out = 1
              /\ \A j \in 3..Len(Walks) : Walks[j].out = 2
<1>1. /\ kind \in Kinds /\ list \in Lists /\ free \in Lists /\ ring \in Lists
      /\ vi \in Bounds /\ total \in Int /\ total - 1 \in Int
      /\ kind \in {"queue", "ringbuffer"} => 1 <= list.len
  BY ValidateAssumption DEF InputOK, Lists
<1>2. \A l \in Lists : 0 <= l.len
  BY ValidateAssumption DEF Lists
<1>3. \A n \in Int : Rest(n, vi) = NoBounds \/ Rest(n, vi) \in [min : Nat, max : Nat]
  BY <1>1, RestFacts
<1>4. vi = NoBounds \/ vi \in [min : Nat, max : Nat]
  BY <1>1, ValidateAssumption DEF Bounds
<1>5. ASSUME NEW l \in Lists, NEW b, NEW d \in 0..1, NEW j \in 1..3, NEW o \in 1..3,
             b = NoBounds \/ b \in [min : Nat, max : Nat], d <= l.len, kind # "stack" => o = j
      PROVE  WalkOK(Walk(l, b, d, o), j) /\ Walk(l, b, d, o).out = o
  BY <1>5 DEF WalkOK, Walk
<1>6. CASE kind = "freelist"
  <2>1. Walks = <<Walk(free, vi, 0, 1)>>
    BY <1>6, WalkTuples
  <2>2. WalkOK(Walk(free, vi, 0, 1), 1)
    BY <1>1, <1>2, <1>4, <1>5
  <2>3. QED
    BY <1>6, <2>1, <2>2
<1>7. CASE kind = "queue"
  <2>1. Walks = <<Walk(list, vi, 1, 1), Walk(free, Rest(total - 1, vi), 0, 2)>>
    BY <1>7, WalkTuples
  <2>2. WalkOK(Walk(list, vi, 1, 1), 1) /\ WalkOK(Walk(free, Rest(total - 1, vi), 0, 2), 2)
    BY <1>1, <1>2, <1>3, <1>4, <1>5, <1>7
  <2>3. Len(Walks) = 2 /\ WalkOK(Walks[1], 1) /\ WalkOK(Walks[2], 2)
    BY <2>1, <2>2
  <2>4. QED
    BY <1>7, <2>3
<1>8. CASE kind = "ringbuffer"
  <2>1. Walks = <<Walk(list, vi, 1, 1), Walk(free, Rest(total - 1, vi), 0, 2),
                  Walk(ring, Rest(total - 1, vi), 0, 3)>>
    BY <1>8, WalkTuples
  <2>2. /\ WalkOK(Walk(list, vi, 1, 1), 1) /\ WalkOK(Walk(free, Rest(total - 1, vi), 0, 2), 2)
        /\ WalkOK(Walk(ring, Rest(total - 1, vi), 0, 3), 3)
    BY <1>1, <1>2, <1>3, <1>4, <1>5, <1>8
  <2>3. Len(Walks) = 3 /\ WalkOK(Walks[1], 1) /\ WalkOK(Walks[2], 2) /\ WalkOK(Walks[3], 3)
    BY <2>1, <2>2
  <2>4. QED
    BY <1>8, <2>3
<1>9. CASE kind = "stack"
  <2>1. ASSUME NEW l \in Lists, NEW b, NEW o \in 1..3, NEW j,
               b = NoBounds \/ b \in [min : Nat, max : Nat]
        PROVE  WalkOK(Walk(l, b, 0, o), j) /\ Walk(l, b, 0, o).out = o
    BY <1>2, <1>9, <2>1 DEF WalkOK, Walk
  <2>2. CASE vi = NoBounds
    <3>1. Walks = <<Walk(free, NoBounds, 0, 1), Walk(list, vi, 0, 1)>>
      BY <1>9, <2>2, WalkTuples
    <3>2. Len(Walks) = 2 /\ Walks[1] = Walk(free, NoBounds, 0, 1) /\ Walks[2] = Walk(list, vi, 0, 1)
      BY <3>1
    <3>3. QED
      BY <1>1, <1>4, <1>9, <2>1, <3>2
  <2>3. CASE vi # NoBounds
    <3>1. Walks = <<Walk(free, NoBounds, 0, 1), Walk(list, vi, 0, 1),
                    Walk(free, Rest(total, vi), 0, 2), Walk(free, NoBounds, 0, 2)>>
      BY <1>9, <2>3, WalkTuples
    <3>2. /\ Len(Walks) = 4
          /\ Walks[1] = Walk(free, NoBounds, 0, 1) /\ Walks[2] = Walk(list, vi, 0, 1)
          /\ Walks[3] = Walk(free, Rest(total, vi), 0, 2) /\ Walks[4] = Walk(free, NoBounds, 0, 2)
      BY <3>1
    <3>3. QED
      BY <1>1, <1>3, <1>4, <1>9, <2>1, <3>2
  <2>4. QED
    BY <2>2, <2>3
<1>10. QED
  BY <1>1, <1>6, <1>7, <1>8, <1>9 DEF Kinds

(* A query does not change the lists it walks. *)
LEMMA WalksFixed ==
  ASSUME UNCHANGED input
  PROVE  /\ Walks' = Walks /\ InputOK' = InputOK /\ kind' = kind
         /\ \A j : Good(Walks[j])' = Good(Walks[j])
<1>1. /\ kind' = kind /\ list' = list /\ free' = free /\ ring' = ring
      /\ total' = total /\ vi' = vi
  BY DEF input
<1>2. Walks' = Walks
  BY <1>1 DEF Walks, FreelistWalks, QueueWalks, StackWalks, RingBufferWalks
<1>3. QED
  BY <1>1, <1>2 DEF InputOK, Good

(* The end of a walk with the verdict its list deserves: the assignments   *)
(* to *fv (lf_freelist.c:196-210) and what the queries do between walks.   *)
LEMMA VerdictStep ==
  ASSUME QueryTypeOK, OutputOK, UNCHANGED input, stage # "done",
         NEW v \in Verdicts, Verdict(v),
         v = "VALID" <=> Good(Walks[job])
  PROVE  /\ OutputOK'
         /\ job' \in 1..Len(Walks)
         /\ stage' \in {"begin", "done"}
         /\ output' \in [1..3 -> Verdicts \cup {"unset"}]
<1> DEFINE n == Len(Walks)
           g(j) == Good(Walks[j])
           o(j) == Walks[j].out
<1>1. /\ InputOK /\ job \in 1..n /\ output \in [1..3 -> Verdicts \cup {"unset"}]
  BY DEF QueryTypeOK
<1>2. /\ n \in 1..4
      /\ \A j \in 1..n : o(j) \in 1..3 /\ (kind # "stack" => o(j) = j)
      /\ kind # "stack" => n \in 1..3
      /\ kind = "stack" => n >= 2 /\ o(1) = 1 /\ o(2) = 1 /\ \A j \in 3..n : o(j) = 2
  BY <1>1, WalkFacts DEF WalkOK
<1>3. /\ output' = [output EXCEPT ![o(job)] = v]
      /\ (job = n \/ (kind = "stack" /\ job = 1 /\ v # "VALID")) => stage' = "done" /\ job' = job
      /\ ~(job = n \/ (kind = "stack" /\ job = 1 /\ v # "VALID")) => stage' = "begin" /\ job' = job + 1
  BY DEF Verdict
<1>4. /\ Walks' = Walks /\ kind' = kind /\ \A j : Good(Walks[j])' = g(j)
  BY WalksFixed
<1>5. v = "VALID" <=> g(job)
  OBVIOUS
<1>6. /\ kind # "stack" => \A j \in 1..n : j < job => (output[j] = "VALID" <=> g(j))
      /\ kind = "stack" => (job > 1 => g(1)) /\ (job > 2 => (output[1] = "VALID" <=> g(2)))
  BY DEF OutputOK, Finished
<1> HIDE DEF n, g, o
<1>7. job' \in 1..n /\ stage' \in {"begin", "done"} /\ output' \in [1..3 -> Verdicts \cup {"unset"}]
  BY <1>1, <1>2, <1>3
<1>8. ASSUME kind # "stack"
      PROVE  /\ \A j \in 1..n : (j < job' \/ stage' = "done") => (output'[j] = "VALID" <=> g(j))
             /\ stage' = "done" => job' = n
  <2>1. output' = [output EXCEPT ![job] = v] /\ job \in 1..3 /\ n \in 1..3
    BY <1>1, <1>2, <1>3, <1>8
  <2>2. output'[job] = "VALID" <=> g(job)
    BY <1>1, <1>5, <2>1
  <2>3. \A j \in 1..n : j < job => (output'[j] = "VALID" <=> g(j))
    BY <1>1, <1>6, <1>8, <2>1
  <2>4. \A j \in 1..n : (j < job' \/ stage' = "done") => j <= job
    BY <1>1, <1>2, <1>3, <1>8
  <2>5. QED
    BY <1>1, <1>2, <1>3, <1>8, <2>2, <2>3, <2>4
<1>9. ASSUME kind = "stack"
      PROVE  /\ job' = 1 /\ stage' = "done" => output'[1] # "VALID" /\ ~g(1)
             /\ job' > 1 => g(1)
             /\ job' > 2 \/ (job' = 2 /\ stage' = "done") => (output'[1] = "VALID" <=> g(2))
  <2>1. CASE job = 1
    <3>1. output'[1] = v
      BY <1>1, <1>2, <1>3, <1>9, <2>1
    <3>2. QED
      BY <1>2, <1>3, <1>5, <1>9, <2>1, <3>1
  <2>2. CASE job = 2
    <3>1. output'[1] = v
      BY <1>1, <1>2, <1>3, <1>9, <2>2
    <3>2. QED
      BY <1>2, <1>3, <1>5, <1>6, <1>9, <2>2, <3>1
  <2>3. CASE job > 2
    <3>1. job \in 3..n
      BY <1>1, <1>2, <2>3
    <3>2. output'[1] = output[1]
      BY <1>1, <1>2, <1>3, <1>9, <3>1
    <3>3. QED
      BY <1>1, <1>2, <1>3, <1>6, <1>9, <2>3, <3>2
  <2>4. QED
    BY <1>1, <1>2, <2>1, <2>2, <2>3
<1>10. OutputOK'
  BY <1>4, <1>8, <1>9 DEF OutputOK, Finished, n, g
<1>11. QED
  BY <1>7, <1>10 DEF n

(* The next pointer of an element of a walk. *)
LEMMA NextFacts ==
  ASSUME NEW l \in Lists, NEW i \in 1..l.len
  PROVE  /\ l.len \in 0..MaxLen /\ l.back \in 0..l.len
         /\ NextOf(l, i) \in 0..l.len
         /\ i < l.len => NextOf(l, i) = i + 1
         /\ i >= l.len => NextOf(l, i) = l.back
         /\ l.back # Nil => NextOf(l, i) # Nil
<1>1. l.len \in 0..MaxLen /\ l.back \in 0..MaxLen /\ l.back <= l.len
  BY ValidateAssumption DEF Lists
<1>2. QED
  BY <1>1, ValidateAssumption DEF NextOf, Nil

(* One turn of the do loop of freelist_internal_validate (lines 188 to     *)
(* 194): in a list without a loop the cursors meet at Nil only, and in    *)
(* one with a loop neither of them gets to Nil.                           *)
LEMMA CursorFacts ==
  ASSUME NEW l \in Lists, NEW s \in 1..l.len, NEW f \in 0..l.len,
         l.back # Nil => f # Nil,
         l.back = Nil => f = Nil \/ s < f \/ (s = 1 /\ f = 1)
  PROVE  LET once == IF f = Nil THEN Nil ELSE NextOf(l, f)
             twice == IF once = Nil THEN Nil ELSE NextOf(l, once)
             next == NextOf(l, s)
         IN  /\ next \in 0..l.len /\ twice \in 0..l.len
             /\ l.back # Nil => next # Nil /\ twice # Nil
             /\ l.back = Nil /\ next # Nil => twice = Nil \/ next < twice
<1> DEFINE once == IF f = Nil THEN Nil ELSE NextOf(l, f)
           twice == IF once = Nil THEN Nil ELSE NextOf(l, once)
           next == NextOf(l, s)
<1>1. l.len \in 0..MaxLen /\ l.back \in 0..l.len /\ MaxLen \in Nat
  BY NextFacts, ValidateAssumption
<1>2. /\ next \in 0..l.len /\ (l.back # Nil => next # Nil)
      /\ s < l.len => next = s + 1
      /\ s >= l.len => next = l.back
  BY NextFacts
<1>3. f # Nil => f \in 1..l.len
  BY <1>1 DEF Nil
<1>4. /\ once \in 0..l.len /\ (l.back # Nil => once # Nil)
      /\ f # Nil /\ f < l.len => once = f + 1
      /\ f # Nil /\ f >= l.len => once = l.back
      /\ f = Nil => once = Nil
  BY <1>1, <1>3, NextFacts DEF Nil
<1> HIDE DEF once
<1>5. once # Nil => once \in 1..l.len
  BY <1>1, <1>4 DEF Nil
<1>6. /\ twice \in 0..l.len /\ (l.back # Nil => twice # Nil)
      /\ once # Nil /\ once < l.len => twice = once + 1
      /\ once # Nil /\ once >= l.len => twice = l.back
      /\ once = Nil => twice = Nil
  BY <1>1, <1>4, <1>5, NextFacts DEF Nil
<1> HIDE DEF next, twice
<1>7. l.back = Nil /\ next # Nil => twice = Nil \/ next < twice
  BY <1>1, <1>2, <1>3, <1>4, <1>5, <1>6 DEF Nil
<1>8. QED
  BY <1>2, <1>6, <1>7 DEF next, twice, once

(* Every step of a query keeps the invariant. *)
LEMMA InvStep ==
  ASSUME QueryInv, [QueryNext]_query_vars
  PROVE  QueryInv'
<1> DEFINE w == Walks[job]
           l == w.list
<1>1. /\ QueryTypeOK /\ CursorsOK /\ OutputOK /\ InputOK /\ job \in 1..Len(Walks)
      /\ slow \in 0..MaxLen /\ fast \in 0..MaxLen /\ at \in 0..MaxLen /\ count \in 0..MaxLen
      /\ output \in [1..3 -> Verdicts \cup {"unset"}]
      /\ stage \in {"begin", "loop", "count", "done"}
  BY DEF QueryInv, QueryTypeOK
<1>2. WalkOK(w, job)
  BY <1>1, WalkFacts
<1>3. /\ l \in Lists /\ l.len \in 0..MaxLen /\ l.back \in 0..l.len /\ MaxLen \in Nat
      /\ l.len \in Nat /\ l.back \in Nat
  BY <1>2, ValidateAssumption DEF WalkOK, Lists
<1>4. /\ stage = "loop" =>
            /\ slow \in 1..l.len /\ fast \in 0..l.len /\ at = 1 /\ count = 0
            /\ l.back # Nil => fast # Nil
            /\ l.back = Nil => fast = Nil \/ slow < fast \/ (slow = 1 /\ fast = 1)
      /\ stage = "count" =>
            /\ l.back = Nil
            /\ at \in 0..l.len
            /\ count = IF at = Nil THEN l.len ELSE at - 1
  BY <1>1 DEF CursorsOK
<1>5. ASSUME UNCHANGED <<input, job, output>>, stage # "done", stage' \in {"loop", "count"}
      PROVE  OutputOK' /\ Walks' = Walks /\ InputOK' /\ Walks'[job'] = w
  <2>1. Walks' = Walks /\ InputOK' /\ kind' = kind /\ \A j : Good(Walks[j])' = Good(Walks[j])
    BY <1>1, <1>5, WalksFixed
  <2>2. QED
    BY <1>1, <1>5, <2>1 DEF OutputOK, Finished
<1>6. ASSUME NEW v \in Verdicts, Verdict(v), UNCHANGED input, stage # "done",
             v = "VALID" <=> Good(w),
             slow' \in 0..MaxLen, fast' \in 0..MaxLen, at' \in 0..MaxLen, count' \in 0..MaxLen
      PROVE  QueryInv'
  <2>1. /\ OutputOK' /\ job' \in 1..Len(Walks) /\ stage' \in {"begin", "done"}
        /\ output' \in [1..3 -> Verdicts \cup {"unset"}]
    BY <1>1, <1>6, VerdictStep
  <2>2. Walks' = Walks /\ InputOK'
    BY <1>1, <1>6, WalksFixed
  <2>3. QueryTypeOK'
    BY <1>6, <2>1, <2>2 DEF QueryTypeOK
  <2>4. CursorsOK'
    BY <2>1 DEF CursorsOK
  <2>5. QED
    BY <2>1, <2>3, <2>4 DEF QueryInv
<1>7. CASE Begin
  <2>1. /\ slow' = First(l) /\ fast' = First(l) /\ at' = First(l) /\ count' = 0
        /\ stage = "begin" /\ stage' = IF First(l) = Nil THEN "count" ELSE "loop"
        /\ UNCHANGED <<input, job, output>>
    BY <1>7 DEF Begin
  <2>2. /\ First(l) = IF l.len = 0 THEN 0 ELSE 1
        /\ First(l) \in 0..l.len /\ First(l) \in 0..MaxLen
    BY <1>3 DEF First, Nil
  <2>3. OutputOK' /\ Walks' = Walks /\ InputOK' /\ Walks'[job'] = w
    BY <1>5, <2>1
  <2>4. QueryTypeOK'
    <3>1. 0 \in 0..MaxLen
      BY <1>3
    <3>2. QED
      BY <1>1, <2>1, <2>2, <2>3, <3>1 DEF QueryTypeOK
  <2>5. CursorsOK'
    <3>1. CASE l.len = 0
      <4>1. stage' = "count" /\ at' = 0 /\ count' = 0 /\ l.back = 0
        BY <1>3, <2>1, <2>2, <3>1 DEF Nil
      <4>2. QED
        BY <1>3, <2>3, <3>1, <4>1 DEF CursorsOK, Nil
    <3>2. CASE l.len # 0
      <4>1. stage' = "loop" /\ at' = 1 /\ count' = 0 /\ slow' = 1 /\ fast' = 1 /\ 1 \in 1..l.len
        BY <1>3, <2>1, <2>2, <3>2 DEF Nil
      <4>2. QED
        BY <1>3, <2>3, <4>1 DEF CursorsOK, Nil
    <3>3. QED
      BY <3>1, <3>2
  <2>6. QED
    BY <2>3, <2>4, <2>5 DEF QueryInv
<1>8. CASE FindLoop
  <2> DEFINE once == IF fast = Nil THEN Nil ELSE NextOf(l, fast)
             twice == IF once = Nil THEN Nil ELSE NextOf(l, once)
             next == NextOf(l, slow)
  <2>1. Cursors(next, twice)
    BY <1>8 DEF FindLoop
  <2>2. stage = "loop" /\ UNCHANGED <<input, at, count>>
    BY <2>1 DEF Cursors
  <2>3. /\ slow \in 1..l.len /\ fast \in 0..l.len /\ at = 1 /\ count = 0
        /\ l.back # Nil => fast # Nil
        /\ l.back = Nil => fast = Nil \/ slow < fast \/ (slow = 1 /\ fast = 1)
    BY <1>4, <2>2
  <2>4. /\ next \in 0..l.len /\ twice \in 0..l.len
        /\ l.back # Nil => next # Nil /\ twice # Nil
        /\ l.back = Nil /\ next # Nil => twice = Nil \/ next < twice
    <3> HIDE DEF l
    <3>1. QED
      BY <1>3, <2>3, CursorFacts
  <2> HIDE DEF once, twice, next
  <2>5. /\ slow' = next /\ fast' = twice /\ at' = at /\ count' = count /\ UNCHANGED input
        /\ next \in 0..MaxLen /\ twice \in 0..MaxLen
    BY <1>3, <2>1, <2>2, <2>4 DEF Cursors
  <2>6. CASE next # Nil /\ twice # next
    <3>1. UNCHANGED <<stage, job, output>>
      BY <2>1, <2>6 DEF Cursors
    <3>2. OutputOK' /\ Walks' = Walks /\ InputOK' /\ Walks'[job'] = w
      BY <1>5, <2>2, <2>5, <3>1
    <3>3. QueryTypeOK'
      BY <1>1, <2>5, <3>1, <3>2 DEF QueryTypeOK
    <3>4. next \in 1..l.len
      BY <1>3, <2>4, <2>6 DEF Nil
    <3>5. CursorsOK'
      BY <2>2, <2>3, <2>4, <2>5, <2>6, <3>1, <3>2, <3>4 DEF CursorsOK
    <3>6. QED
      BY <3>2, <3>3, <3>5 DEF QueryInv
  <2>7. CASE next # Nil /\ twice = next
    <3>1. Verdict("INVALID_LOOP")
      BY <2>1, <2>7 DEF Cursors
    <3>2. l.back # Nil
      BY <1>3, <2>4, <2>7 DEF Nil
    <3>3. ~Good(w)
      BY <3>2 DEF Good
    <3>4. QED
      BY <1>1, <1>6, <2>2, <2>5, <3>1, <3>3 DEF Verdicts
  <2>8. CASE next = Nil
    <3>1. stage' = "count" /\ UNCHANGED <<job, output>>
      BY <2>1, <2>8 DEF Cursors
    <3>2. OutputOK' /\ Walks' = Walks /\ InputOK' /\ Walks'[job'] = w
      BY <1>5, <2>2, <2>5, <3>1
    <3>3. QueryTypeOK'
      BY <1>1, <2>5, <3>1, <3>2 DEF QueryTypeOK
    <3>4. l.back = Nil /\ at' = 1 /\ count' = 0 /\ 1 \in 0..l.len
      BY <1>3, <2>3, <2>4, <2>5, <2>8
    <3>5. CursorsOK'
      BY <3>1, <3>2, <3>4 DEF CursorsOK, Nil
    <3>6. QED
      BY <3>2, <3>3, <3>5 DEF QueryInv
  <2>9. QED
    BY <2>6, <2>7, <2>8
<1>9. CASE Count
  <2>1. /\ stage = "count" /\ at # Nil /\ count' = Word(count + 1) /\ at' = NextOf(l, at)
        /\ UNCHANGED <<input, job, stage, slow, fast, output>>
    BY <1>9 DEF Count
  <2>2. l.back = Nil /\ at \in 1..l.len /\ count = at - 1 /\ count + 1 = at /\ at \in 0..MaxLen
    BY <1>1, <1>3, <1>4, <2>1 DEF Nil
  <2>3. count' = at
    BY <2>1, <2>2, WordFacts
  <2>4. /\ at' \in 0..l.len /\ (at < l.len => at' = at + 1) /\ (at >= l.len => at' = 0)
    <3> HIDE DEF l
    <3>1. QED
      BY <1>3, <2>1, <2>2, NextFacts DEF Nil
  <2>5. OutputOK' /\ Walks' = Walks /\ InputOK' /\ Walks'[job'] = w
    BY <1>5, <2>1
  <2>6. QueryTypeOK'
    <3>1. at' \in 0..MaxLen
      BY <1>3, <2>4
    <3>2. QED
      BY <1>1, <2>1, <2>2, <2>3, <2>5, <3>1 DEF QueryTypeOK
  <2>7. count' = IF at' = Nil THEN l.len ELSE at' - 1
    BY <1>3, <2>2, <2>3, <2>4 DEF Nil
  <2>8. CursorsOK'
    BY <2>1, <2>2, <2>4, <2>5, <2>7 DEF CursorsOK
  <2>9. QED
    BY <2>5, <2>6, <2>8 DEF QueryInv
<1>10. CASE Compare
  <2> DEFINE e == Word(count - w.dummies)
             v == IF w.vi = NoBounds THEN "VALID"
                  ELSE IF e > w.vi.max THEN "INVALID_ADDITIONAL_ELEMENTS"
                  ELSE IF e < w.vi.min THEN "INVALID_MISSING_ELEMENTS"
                  ELSE "VALID"
  <2>1. /\ stage = "count" /\ (at = Nil \/ w.vi = NoBounds) /\ Verdict(v)
        /\ UNCHANGED <<input, slow, fast, at, count>>
    BY <1>10 DEF Compare
  <2>2. l.back = Nil /\ (w.vi # NoBounds => count = l.len)
    BY <1>4, <2>1
  <2>3. /\ w.vi # NoBounds => w.vi.min \in Nat /\ w.vi.max \in Nat
        /\ e \in Nat
    <3>1. count - w.dummies \in Int
      BY <1>1, <1>2 DEF WalkOK
    <3>2. QED
      BY <1>2, <3>1, WordFacts DEF WalkOK
  <2>4. Good(w) <=> (w.vi # NoBounds => w.vi.min <= e /\ e <= w.vi.max)
    BY <2>2 DEF Good
  <2>5. v \in Verdicts
    BY DEF Verdicts
  <2>6. v = "VALID" <=> Good(w)
    <3> HIDE DEF e
    <3>1. QED
      BY <2>3, <2>4
  <2> HIDE DEF v
  <2>7. QED
    BY <1>1, <1>6, <2>1, <2>5, <2>6
<1>11. CASE UNCHANGED query_vars
  <2>1. /\ UNCHANGED input /\ job' = job /\ stage' = stage /\ slow' = slow /\ fast' = fast /\ at' = at
        /\ count' = count /\ output' = output
    BY <1>11 DEF query_vars
  <2>2. Walks' = Walks /\ InputOK' /\ kind' = kind /\ \A j : Good(Walks[j])' = Good(Walks[j])
    BY <1>1, <2>1, WalksFixed
  <2>3. QueryTypeOK'
    BY <1>1, <2>1, <2>2 DEF QueryTypeOK
  <2>4. CursorsOK'
    BY <1>1, <2>1, <2>2 DEF CursorsOK
  <2>5. OutputOK'
    BY <1>1, <2>1, <2>2 DEF OutputOK, Finished
  <2>6. QED
    BY <2>3, <2>4, <2>5 DEF QueryInv
<1>12. QED
  BY <1>7, <1>8, <1>9, <1>10, <1>11 DEF QueryNext

(* A query starts in the invariant. *)
LEMMA InitOK == QueryInit => QueryInv
<1> SUFFICES ASSUME QueryInit PROVE QueryInv
  OBVIOUS
<1>1. InputOK
  <2>1. [len |-> 0, back |-> 0] \in Lists
    BY ValidateAssumption DEF Lists
  <2>2. list \in Lists /\ (kind \in {"queue", "ringbuffer"} => list.len > 0)
    BY <2>1 DEF QueryInit
  <2>3. QED
    BY <2>1, <2>2 DEF QueryInit, InputOK, Kinds
<1>2. Len(Walks) \in 1..4 /\ (kind = "stack" => Len(Walks) >= 2)
  BY <1>1, WalkFacts
<1>3. QueryTypeOK
  <2>1. 0 \in 0..MaxLen
    BY ValidateAssumption
  <2>2. job \in 1..Len(Walks)
    <3>1. job = 1
      BY DEF QueryInit
    <3>2. QED
      BY <1>2, <3>1
  <2>3. output \in [1..3 -> Verdicts \cup {"unset"}]
    BY DEF QueryInit
  <2>4. QED
    BY <1>1, <2>1, <2>2, <2>3 DEF QueryInit, QueryTypeOK, Nil
<1>4. CursorsOK
  BY DEF QueryInit, CursorsOK
<1>5. OutputOK
  BY <1>2 DEF QueryInit, OutputOK, Finished
<1>6. QED
  BY <1>3, <1>4, <1>5 DEF QueryInv

(* The invariant holds throughout every query, on every list. *)
THEOREM Invariance == QuerySpec => []QueryInv
<1>1. QueryInit => QueryInv
  BY InitOK
<1>2. QueryInv /\ [QueryNext]_query_vars => QueryInv'
  BY InvStep
<1>3. QED
  BY <1>1, <1>2, PTL DEF QuerySpec

(* What Good says of the list of a queue, a ring buffer or a stack and of  *)
(* a free list: no number wraps around in the count of what is there.      *)
LEMMA GoodFacts ==
  ASSUME NEW w, NEW l \in Lists, NEW b, NEW d \in 0..1, NEW o, d <= l.len,
         w = Walk(l, b, d, o)
  PROVE  Good(w) <=>
            /\ l.back = Nil
            /\ b # NoBounds => b.min <= l.len - d /\ l.len - d <= b.max
<1>1. l.len - d \in 0..MaxLen
  BY ValidateAssumption DEF Lists
<1>2. Word(l.len - d) = l.len - d
  BY <1>1, WordFacts
<1>3. w.list = l /\ w.vi = b /\ w.dummies = d
  BY DEF Walk
<1>4. QED
  BY <1>2, <1>3 DEF Good

(* A query that gives VALID means it, and one that does not has found a    *)
(* fault: lf_freelist.c:178-213 and the same code of the queue, the stack  *)
(* and the ring buffer, for lists of any length and shape.                 *)
THEOREM VerdictsExact == QuerySpec => []VerdictIsExact
<1>1. QueryInv => VerdictIsExact
  <2> SUFFICES ASSUME QueryInv, stage = "done" PROVE VerdictIsExact
    BY DEF VerdictIsExact
  <2>1. /\ InputOK /\ OutputOK /\ job \in 1..Len(Walks)
        /\ kind \in Kinds /\ list \in Lists /\ free \in Lists
        /\ kind \in {"queue", "ringbuffer"} => list.len > 0
    BY DEF QueryInv, QueryTypeOK, InputOK
  <2>2. Len(Walks) \in 1..4
    BY <2>1, WalkFacts
  <2>3. list.len \in Nat /\ free.len \in Nat /\ 0 <= list.len /\ 0 <= free.len /\ 0 \in 0..1 /\ 1 \in 0..1
    BY <2>1, ValidateAssumption DEF Lists
  <2>4. CASE kind = "freelist"
    <3>1. Walks[1] = Walk(free, vi, 0, 1)
      BY <2>4, WalkTuples
    <3>2. output[1] = "VALID" <=> Good(Walks[1])
      BY <2>1, <2>2, <2>4 DEF OutputOK, Finished
    <3>3. Good(Walks[1]) <=> free.back = Nil /\ (vi # NoBounds => vi.min <= free.len - 0 /\ free.len - 0 <= vi.max)
      BY <2>1, <2>3, <3>1, GoodFacts
    <3>4. QED
      BY <2>3, <2>4, <3>2, <3>3 DEF VerdictIsExact
  <2>5. CASE kind \in {"queue", "ringbuffer"}
    <3>1. Walks[1] = Walk(list, vi, 1, 1)
      BY <2>5, WalkTuples
    <3>2. output[1] = "VALID" <=> Good(Walks[1])
      BY <2>1, <2>2, <2>5 DEF OutputOK, Finished
    <3>3. Good(Walks[1]) <=> list.back = Nil /\ (vi # NoBounds => vi.min <= list.len - 1 /\ list.len - 1 <= vi.max)
      <4>1. 1 <= list.len
        BY <2>1, <2>3, <2>5
      <4>2. QED
        BY <2>1, <2>3, <3>1, <4>1, GoodFacts
    <3>4. QED
      BY <2>5, <3>2, <3>3 DEF VerdictIsExact
  <2>6. CASE kind = "stack"
    <3>1. Walks[1] = Walk(free, NoBounds, 0, 1) /\ Walks[2] = Walk(list, vi, 0, 1)
      BY <2>6, WalkTuples
    <3>2. Good(Walks[1]) <=> free.back = Nil
      BY <2>1, <2>3, <3>1, GoodFacts
    <3>3. Good(Walks[2]) <=> list.back = Nil /\ (vi # NoBounds => vi.min <= list.len - 0 /\ list.len - 0 <= vi.max)
      BY <2>1, <2>3, <3>1, GoodFacts
    <3>4. output[1] = "VALID" <=> Good(Walks[1]) /\ Good(Walks[2])
      <4>1. CASE job = 1
        BY <2>1, <2>6, <4>1 DEF OutputOK
      <4>2. CASE job > 1
        <5>1. job > 2 \/ job = 2
          BY <2>1, <2>2, <4>2
        <5>2. QED
          BY <2>1, <2>6, <4>2, <5>1 DEF OutputOK
      <4>3. QED
        BY <2>1, <2>2, <4>1, <4>2
    <3>5. QED
      BY <2>3, <2>6, <3>2, <3>3, <3>4 DEF VerdictIsExact
  <2>7. QED
    BY <2>1, <2>4, <2>5, <2>6 DEF Kinds
<1>2. QED
  BY <1>1, Invariance, PTL

(* A free list that is within the bounds left to it by a structure of      *)
(* exactly k elements holds the rest of the n elements.  Were k larger     *)
(* than n, the difference would wrap around to more than any list holds.   *)
LEMMA RestIsExact ==
  ASSUME NEW w, NEW l \in Lists, NEW b \in Bounds, NEW n \in 0..MaxLen, NEW o,
         b # NoBounds, b.min = b.max, w = Walk(l, Rest(n, b), 0, o), Good(w)
  PROVE  b.max + l.len = n
<1> DEFINE k == b.max
<1>1. k \in 0..MaxLen /\ b.min = k /\ l.len \in 0..MaxLen /\ MaxLen \in Nat /\ 0 <= l.len
  BY ValidateAssumption DEF Bounds, Lists
<1>2. Rest(n, b) = [min |-> Word(n - k), max |-> Word(n - k)]
  BY <1>1 DEF Rest
<1> HIDE DEF k
<1>3. Word(n - k) \in Nat /\ n - k \in Int
  BY <1>1, WordFacts
<1>4. Rest(n, b) # NoBounds /\ Rest(n, b).min = Word(n - k) /\ Rest(n, b).max = Word(n - k)
  BY <1>2, <1>3 DEF NoBounds
<1>5. Rest(n, b).min <= l.len - 0 /\ l.len - 0 <= Rest(n, b).max
  <2>1. 0 \in 0..1
    OBVIOUS
  <2>2. QED
    BY <1>1, <1>4, <2>1, GoodFacts
<1>6. l.len = Word(n - k)
  BY <1>1, <1>3, <1>4, <1>5
<1>7. CASE n < k
  <2>1. n - k \in -MaxLen..-1
    BY <1>1, <1>7
  <2>2. Word(n - k) > MaxLen
    BY <2>1, WordFacts
  <2>3. QED
    BY <1>1, <1>6, <2>2
<1>8. CASE n >= k
  <2>1. n - k \in 0..MaxLen
    BY <1>1, <1>8
  <2>2. Word(n - k) = n - k
    BY <2>1, WordFacts
  <2>3. QED
    BY <1>1, <1>6, <2>2 DEF k
<1>9. QED
  BY <1>1, <1>7, <1>8

(* A query of a queue or a ring buffer for an exact number of elements     *)
(* that says VALID everywhere shows that no element is lost:               *)
(* lf_queue.c:153-196 and lf_ringbuffer.c:86-102, for every total.        *)
THEOREM ValidConserves == QuerySpec => []ValidMeansConserved
<1>1. QueryInv => ValidMeansConserved
  <2> DEFINE last == IF kind = "queue" THEN 2 ELSE 3
  <2> SUFFICES ASSUME QueryInv, stage = "done", kind \in {"queue", "ringbuffer"}, vi # NoBounds,
                      vi.min = vi.max, \A k \in 1..last : output[k] = "VALID"
               PROVE  /\ list.len + free.len = total
                      /\ kind = "ringbuffer" => list.len - 1 + ring.len = total - 1
    BY DEF ValidMeansConserved
  <2>1. /\ OutputOK /\ list \in Lists /\ free \in Lists /\ ring \in Lists
        /\ total \in 1..MaxLen + 1 /\ vi \in Bounds /\ list.len > 0
    BY DEF QueryInv, QueryTypeOK, InputOK
  <2>2. /\ list.len \in Nat /\ free.len \in Nat /\ ring.len \in Nat /\ vi.max \in Nat
        /\ total \in Nat /\ total - 1 \in 0..MaxLen /\ 1 <= list.len /\ 1 \in 0..1
    BY <2>1, ValidateAssumption DEF Lists, Bounds
  <2>3. /\ Walks[1] = Walk(list, vi, 1, 1) /\ Walks[2] = Walk(free, Rest(total - 1, vi), 0, 2)
        /\ Len(Walks) = last
        /\ kind = "ringbuffer" => Walks[3] = Walk(ring, Rest(total - 1, vi), 0, 3)
    BY WalkTuples
  <2>4. \A j \in 1..last : Good(Walks[j])
    BY <2>1, <2>3 DEF OutputOK, Finished
  <2>5. Good(Walks[1]) /\ Good(Walks[2]) /\ (kind = "ringbuffer" => Good(Walks[3]))
    BY <2>4
  <2>6. list.len - 1 = vi.max
    <3>1. vi.min <= list.len - 1 /\ list.len - 1 <= vi.max
      BY <2>1, <2>2, <2>3, <2>5, GoodFacts
    <3>2. QED
      BY <2>2, <3>1
  <2>7. vi.max + free.len = total - 1
    BY <2>1, <2>2, <2>3, <2>5, RestIsExact
  <2>8. kind = "ringbuffer" => vi.max + ring.len = total - 1
    BY <2>1, <2>2, <2>3, <2>5, RestIsExact
  <2>9. QED
    BY <2>2, <2>6, <2>7, <2>8
<1>2. QED
  BY <1>1, Invariance, PTL
=============================================================================
