------------------------- MODULE MCThumbnailSequence -------------------------
(* A project of two images, into which a third may be inserted. *)
EXTENDS ThumbnailSequence

TwoImages == <<"a", "b">>

\* A new project, and one in which a page and the halves of another image differ.
NewOrProcessed ==
  LET values == (<<"a", "left">> :> 1) @@ (<<"a", "right">> :> 2) @@ (<<"b", "single">> :> 2)
      new    == [p \in {"a", "b", "n"} \X {"single", "left", "right"} |-> -1]
  IN {new, values @@ new}
==============================================================================
