---------------------------- MODULE MCOutputStage ----------------------------
(* Small instances of the output stage for TLC. *)
EXTENDS OutputStage

\* Each choice of the user changes one thing: the layers of the output, or how
\* the image is dewarped and then the shape of pictures, and back again.
AFewChoices ==
  LET usual    == [colour |-> "mixed", shape |-> "free", dewarp |-> "off"]
      dewarped == [usual EXCEPT !.dewarp = "auto"]
  IN {usual, [usual EXCEPT !.colour = "split"], dewarped, [dewarped EXCEPT !.shape = "rect"]}
OnlyWhole == {Whole}
OnlyHalf  == {Half}
==============================================================================
