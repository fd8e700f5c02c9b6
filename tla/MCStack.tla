------------------------------ MODULE MCStack ------------------------------
(* Instances of Stack for TLC. *)
EXTENDS Stack, TLC

CONSTANTS a, b

(* b pops the element a has read as the top, pushes another below it and   *)
(* pushes it again, so that it is the top with another next.               *)
Recycling ==
    (a :> <<{"push", "pop", "clear"}, {"pop"}>>) @@
    (b :> <<{"push"}, {"push"}, {"pop"}, {"guaranteed_push"}, {"push", "pop"}>>)

(* a and b make any calls. *)
Mixed ==
    (a :> <<Operations, {"push", "pop"}>>) @@
    (b :> <<Operations, Operations>>)
=============================================================================
