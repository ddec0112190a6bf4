--------------------------- MODULE MCOutputPixels ---------------------------
(* Small instances of the pixels of an output image for TLC. *)
EXTENDS OutputPixels

CONSTANTS MCLevels, MCHues, MCPapers, MCFills

MCPixels ==
  {p \in [level : MCLevels, paper : MCPapers, hue : MCHues, ink : BOOLEAN, picture : BOOLEAN,
          framed : BOOLEAN, speck : BOOLEAN, place : {"content", "margin", "offcut", "blank"},
          fill : MCFills \cup {NoFill}] : p \in AllPixels}

\* An option that is not looked at has one value.
MCOptions ==
  {o \in AllOptions :
     /\ o.mode # "mixed" => o.split = "no" /\ o.shape = "off"
     /\ o.original => OriginalBackground(o)
     /\ o.segment => NeedColorSegmentation(o)
     /\ o.rich => o.mode = "color" /\ ~o.dewarp}

\* Pixels of the content do not depend on what is done with margins, nor on the
\* colour these are filled with; there are no pictures elsewhere.
Relevant(p, o) ==
  /\ p.place = "content" =>
       /\ o.filling = "background" /\ o.fillMargins /\ ~o.fillOffcut
       /\ p.paper = CHOOSE v \in MCPapers : TRUE
  /\ p.place # "content" => o.shape = "off"

MCCases == {c \in [page : MCPixels, opts : MCOptions] : Relevant(c.page, c.opts)}
==============================================================================
