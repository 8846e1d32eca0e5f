----------------------------- MODULE MCValueSet -----------------------------
(* Instances of ValueSet for TLC. *)
EXTENDS ValueSet

MCImmediates == {-4, -1, 1, 3, 5}
MCBase == [r \in Regions |-> IF r = "STACK" THEN 2 ELSE 5]
MCSegment == [r \in Regions |-> IF r = "STACK" THEN {1, 2} ELSE {5, 6}]
=============================================================================
