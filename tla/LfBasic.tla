------------------------------ MODULE LfBasic ------------------------------
(***************************************************************************)
(* basic/lf_basic.c: the atomic primitives every lock-free structure of    *)
(* basic/ is built on.  A structure publishes a pair of words, a pointer   *)
(* and a counter ("pointer and counter", LF_..._PAC_SIZE words), which the *)
(* double-word compare-and-swap compares and replaces at once, while plain *)
(* C code can only load and store it one word at a time.  Addresses are    *)
(* positive integers and NULL is 0.                                        *)
(***************************************************************************)
EXTENDS Integers

NULL == 0

(* A two-word value: LF_..._POINTER is field ptr, LF_..._COUNTER is cnt.   *)
Pac(Pointers) == [ptr : Pointers, cnt : Nat]

NullPac == [ptr |-> NULL, cnt |-> 0]

(* Mutant: only the pointer word is compared (a single-word CAS).          *)
abstraction_dcas_PointerOnly(destination, exchange, compare) ==
    IF destination.ptr = compare.ptr
    THEN [result |-> 1, destination |-> exchange, compare |-> destination]
    ELSE [result |-> 0, destination |-> destination, compare |-> destination]

(* Mutant: the compare words are not refreshed when the dcas fails.        *)
abstraction_dcas_NoWriteBack(destination, exchange, compare) ==
    IF destination = compare
    THEN [result |-> 1, destination |-> exchange, compare |-> destination]
    ELSE [result |-> 0, destination |-> destination, compare |-> compare]

(* lock cmpxchg16b: on success the destination takes the exchange words;   *)
(* either way the compare words receive what the destination held.         *)
abstraction_dcas(destination, exchange, compare) ==
    IF destination = compare
    THEN [result |-> 1, destination |-> exchange, compare |-> destination]
    ELSE [result |-> 0, destination |-> destination, compare |-> destination]

(* Atomic add-and-fetch of one.  The 64-bit wrap is out of reach of every  *)
(* bounded instance, so the word is a natural number.                      *)
abstraction_increment(value) == value + 1
=============================================================================
