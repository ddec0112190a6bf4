----------------------- MODULE MCProcessingTaskQueue -----------------------
(* A small instance of the task queue for TLC. *)
EXTENDS ProcessingTaskQueue, TLC

CONSTANTS p1, p2, p3, p4

FourPages == {p1, p2, p3, p4}
Symmetry  == Permutations(FourPages)
=============================================================================
