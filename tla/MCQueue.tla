------------------------------ MODULE MCQueue ------------------------------
(* Instances of Queue for TLC. *)
EXTENDS Queue, TLC

CONSTANTS a, b

(* b recycles the first dummy, and makes it the dummy again, while a has   *)
(* it in its locals.                                                       *)
Recycling ==
    (a :> <<{"enqueue", "dequeue"}>>) @@
    (b :> <<{"enqueue"}, {"dequeue"}, {"enqueue"}, {"dequeue"}>>)

(* No element is ever enqueued twice. *)
Fresh ==
    (a :> <<{"guaranteed_enqueue", "dequeue"}, {"guaranteed_enqueue", "dequeue"}>>) @@
    (b :> <<{"guaranteed_enqueue"}, {"dequeue"}>>)

(* b takes what a and b enqueue. *)
Ordered ==
    (a :> <<{"enqueue"}, {"enqueue"}>>) @@
    (b :> <<{"enqueue"}, {"dequeue"}, {"enqueue"}, {"dequeue"}, {"dequeue"}, {"dequeue"}>>)

Both == {Recycling, Fresh}
OnlyOrdered == {Ordered}
=============================================================================
