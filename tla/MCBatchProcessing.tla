-------------------------- MODULE MCBatchProcessing --------------------------
(* Small instances of batch and interactive processing for TLC. *)
EXTENDS BatchProcessing

CONSTANTS p1, p2, p3

ThreePages == {p1, p2, p3}
InOrder    == <<p1, p2, p3>>

\* A batch queue in one piece is what adding the pages one by one gives.
ASSUME QueueOfAddsEachPage ==
  \A n \in 0..3 :
    QueueOf(PageOrder, n) =
      FoldLeftDomain(LAMBDA q, k : AddProcessingTask(q, PageOrder[k], n + k),
                     EmptyQueue, PageOrder)
==============================================================================
