------------------------------ MODULE MCSlist ------------------------------
(* Instances of Slist for TLC. *)
EXTENDS Slist, TLC

CONSTANTS a, b

(* The list grows at the head and after an element both threads hold,      *)
(* while they traverse it and read, set and delete what they find.         *)
Mixed ==
    (a :> <<{"new_head"}, {"new_head", "new_next", "set_data", "delete"},
            {"get_data", "set_data", "delete", "get_next"}>>) @@
    (b :> <<{"get_head", "new_head"}, {"new_next", "get_data", "set_data", "delete"},
            {"get_head", "get_next", "get_data", "delete"}>>)

(* Both threads create elements after the same one. *)
Inserting ==
    (a :> <<{"new_head"}, {"new_next"}>>) @@
    (b :> <<{"get_head"}, {"new_next"}>>)
=============================================================================
