--------------------------- MODULE MCPageSplitting ---------------------------
(* Small instances of page splitting for TLC. *)
EXTENDS PageSplitting

CONSTANTS a, b

\* A spread, which has two pages unless it is turned, and perhaps a cover.
TwoImages   == {a, b}
UprightTurn == {0, 1}
Spreads     == [x \in Images \X Rotations |->
                 IF x[2] = 1 THEN "uncut" ELSE IF x[1] = a THEN "two" ELSE "cut"]
BySize      == [r \in Rotations |-> IF r = 0 THEN 2 ELSE 1]
==============================================================================
