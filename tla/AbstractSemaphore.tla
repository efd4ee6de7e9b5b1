-------------------------- MODULE AbstractSemaphore --------------------------
(* What a semaphore promises: its value counts permits and is never        *)
(* negative.                                                               *)
EXTENDS Integers
CONSTANT Permits
VARIABLE value

Init == value = Permits

Post == value' = value + 1

Acquire == value > 0 /\ value' = value - 1

Next == Post \/ Acquire

Spec == Init /\ [][Next]_value
=============================================================================
