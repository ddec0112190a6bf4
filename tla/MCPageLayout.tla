----------------------------- MODULE MCPageLayout -----------------------------
(* Small instances of the page layout stage for TLC. *)
EXTENDS PageLayout

CONSTANTS p1, p2

TwoPages  == {p1, p2}
Blank1   == [p \in TwoPages |-> IF p = p1 THEN 0 ELSE 2]
OwnWidths == [p \in TwoPages |-> IF p = p1 THEN 2 ELSE 4]
==============================================================================
