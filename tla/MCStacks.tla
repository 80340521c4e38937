------------------------------ MODULE MCStacks ------------------------------
(* Three stacks, two of which have the same frames. *)
EXTENDS Stacks

MCFramesOf == [a \in {1, 2, 3} |-> IF a = 1 THEN "parked" ELSE "serving"]
=============================================================================
