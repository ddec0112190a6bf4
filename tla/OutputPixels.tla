---------------------------- MODULE OutputPixels ----------------------------
(***************************************************************************)
(* What OutputGenerator makes of one pixel of a page, and what becomes of  *)
(* it in the files: the layers of a split output, and the speckles from    *)
(* which despeckling is done again.  Whether a pixel is ink, a speckle or  *)
(* part of a picture is found out by algorithms that are not modelled:     *)
(* here it is a fact of the page.  How the parts are put together is       *)
(* modelled, along both paths of the code: without dewarping, and with it  *)
(* (by a model that moves no pixel).                                       *)
(*                                                                         *)
(* As in BinaryImage, TRUE is black.  In a mask of pictures black is text. *)
(***************************************************************************)
EXTENDS Integers

CONSTANTS
  Cases,      \* pixels of pages, each with options the user may ask for
  NoFill,     \* the pixel is under no fill zone
  MaxEdits    \* bound: zones drawn or deleted on a page

Black == 0
White == 255

AllOptions ==
  [mode : {"color", "bw", "mixed"}, split : {"no", "bw", "color"}, original : BOOLEAN,
   segment : BOOLEAN, blackOnWhite : BOOLEAN, dewarp : BOOLEAN,
   shape : {"off", "free", "rect"}, filling : {"background", "white", "black"},
   fillMargins : BOOLEAN, fillOffcut : BOOLEAN, rich : BOOLEAN]

\* What there is to see at a pixel: its gray level, the dominant colour of its page,
\* and what segmentation gives to ink.  Pictures are framed by rectangles.
AllPixels ==
  {p \in [level : Black..White, paper : Black..White, hue : Black..White \ {White},
          ink : BOOLEAN, picture : BOOLEAN, framed : BOOLEAN, speck : BOOLEAN,
          place : {"content", "margin", "offcut", "blank"},
          fill : (Black..White) \cup {NoFill}] :
     /\ p.level \in {Black, White} => ~p.ink
     /\ p.picture => p.framed
     /\ p.place # "content" => ~p.picture /\ ~p.framed /\ ~p.speck}

ASSUME PixelAssumption ==
  /\ Cases \subseteq [page : AllPixels, opts : AllOptions]
  /\ NoFill \notin Black..White
  /\ MaxEdits \in Nat

Layers == {"ERASER1", "PAINTER2", "ERASER3", "FG", "BG"}
Zones  == [layer : Layers, auto : BOOLEAN]

VARIABLES
  page,       \* what there is to see at the pixel
  opts,       \* the options of the output
  zones,      \* picture zones over the pixel
  autoFound,  \* zones were found for rectangular pictures
  out,        \* what was made last, None before
  edits

vars == <<page, opts, zones, autoFound, out, edits>>

\* An image, plain or with layers: whether the pixel is text, which layer it is in,
\* what despeckling began with, and the picture mask that was found.
None == [kind |-> "none", image |-> White, text |-> FALSE, type |-> "none",
         fore |-> FALSE, back |-> FALSE, despeckled |-> FALSE, before |-> FALSE,
         speckle |-> FALSE, automask |-> TRUE]
-----------------------------------------------------------------------------
(* RenderParams.                                                           *)

MixedOutput(o)           == o.mode = "mixed"
SplitOutput(o)           == MixedOutput(o) /\ o.split # "no"
NeedBinarization(o)      == o.mode # "color" /\ ~(SplitOutput(o) /\ o.split = "color")
OriginalBackground(o)    == SplitOutput(o) /\ NeedBinarization(o) /\ o.original
NeedColorSegmentation(o) == NeedBinarization(o) /\ o.segment
BinaryOutput(o)          == NeedBinarization(o) /\ ~MixedOutput(o)
-----------------------------------------------------------------------------
(* Pixels.                                                                 *)

Gray(black)  == IF black THEN Black ELSE White
Inverted(v)  == White - v

\* Pure black and white are left to the binarized part.
Unreserved(v) == v   \* mutant of Reserved
Reserved(v) == IF v = Black THEN Black + 1 ELSE IF v = White THEN White - 1 ELSE v

\* combineImages(), with a mask and without.
Combined(v, black, mask)   == IF mask THEN Gray(black) ELSE v
Overlaid(v, black)         == IF black THEN Black ELSE v
CombinedColor(v, c, mask)  == IF mask THEN c ELSE v
OverlaidColor(v, c)        == IF c # White THEN c ELSE v
Masked(v, mask, filling)   == IF mask THEN v ELSE filling

\* Images of white on black are turned over first, and again at the end.
Oriented(v, o)  == IF o.blackOnWhite THEN v ELSE Inverted(v)
Source(p, o)    == Oriented(p.level, o)
Ink(p, o)       == \/ Source(p, o) = Black
                   \/ Source(p, o) # White /\ p.ink
Despeckled(c, p)  == c /\ ~p.speck
Segmented(c, p)   == IF c THEN p.hue ELSE White

\* Part of the page that is neither an offcut nor a margin to be filled.
ContentArea(p, o) == /\ p.place = "offcut" => ~o.fillOffcut
                     /\ p.place # "content" => ~o.fillMargins
FilledBW(c, p)      == IF p.fill = NoFill THEN c ELSE p.fill < 128
FilledColor(v, p)   == IF p.fill = NoFill THEN v ELSE p.fill
FilledMask(m, p)    == m \/ p.fill # NoFill
FilledMixed(v, p, mask, binary) ==
  IF binary THEN Combined(FilledColor(v, p), FilledBW(v < 1, p), mask)
            ELSE CombinedColor(FilledColor(v, p), FilledColor(Masked(v, mask, White), p), mask)
-----------------------------------------------------------------------------
(* Picture zones.                                                          *)

Has(zs, layer) == \E z \in zs : z.layer = layer

\* Pictures of any shape are found anew each time, rectangles once.
ProcessPictureZones(p, o, zs, found) ==
  LET anew == o.shape # "rect" \/ ~found
      kept == IF anew THEN {z \in zs : ~z.auto} ELSE zs
  IN [mask  |-> IF anew /\ o.shape = "free" THEN ~p.picture ELSE TRUE,
      zones |-> IF anew /\ o.shape = "rect" /\ p.framed
                THEN kept \cup {[layer |-> "PAINTER2", auto |-> TRUE]} ELSE kept,
      found |-> o.shape = "rect"]

\* The five passes; the content is then inverted where there are pictures.
ErasedLast(m, c, zs) ==   \* mutant of BinarizationMask
  LET one   == (IF Has(zs, "FG") THEN FALSE ELSE m = c) = c
      rest  == c /\ ~Has(zs, "FG")
      two   == (IF Has(zs, "BG") THEN FALSE ELSE one # rest) # rest
      three == (two \/ Has(zs, "ERASER3")) /\ ~Has(zs, "PAINTER2")
  IN three \/ Has(zs, "ERASER1")
BinarizationMask(m, c, zs) ==
  LET erased == m \/ Has(zs, "ERASER1")
      fore   == (IF Has(zs, "FG") THEN FALSE ELSE erased = c) = c
      rest   == c /\ ~Has(zs, "FG")
      back   == (IF Has(zs, "BG") THEN FALSE ELSE fore # rest) # rest
  IN (back /\ ~Has(zs, "PAINTER2")) \/ Has(zs, "ERASER3")
ContentUnderMask(c, mask) == c = mask

\* What PictureZoneEditor paints over the mask that was found: TRUE is a picture.
PictureShown(automask, zs) ==
  LET found   == ~automask /\ ~Has(zs, "ERASER1")
      painted == found \/ Has(zs, "FG") \/ Has(zs, "BG") \/ Has(zs, "PAINTER2")
  IN painted /\ ~Has(zs, "ERASER3")
-----------------------------------------------------------------------------
(* Without dewarping.                                                      *)

Plain(v) == [None EXCEPT !.kind = "plain", !.image = v]

\* Images of more than 8 bits, or with a colour profile, that need no processing.
CanUseSource(p, o) ==
  /\ o.rich /\ o.blackOnWhite
  /\ ~MixedOutput(o) /\ ~NeedBinarization(o)
  /\ p.fill = NoFill

\* The binary content and what despeckling takes from it.  The speckles are those
\* of the content rectangle only.
FoundAfterwards(result, before, p, inRect) ==   \* mutant of WithSpeckles
  [result EXCEPT !.despeckled = TRUE, !.before = before,
                 !.speckle = inRect /\ Despeckled(before, p) /\ p.speck]
WithSpeckles(result, before, p, inRect) ==
  [result EXCEPT !.despeckled = TRUE, !.before = before,
                 !.speckle = inRect /\ before /\ p.speck]

BinaryPixel(p, o, before) ==
  LET c == Despeckled(before, p)
      v == IF NeedColorSegmentation(o)
           THEN FilledColor(Oriented(Segmented(c, p), o), p)
           ELSE Gray(FilledBW(c = o.blackOnWhite, p))
  IN WithSpeckles(Plain(v), before, p, TRUE)
StraightBinary(p, o) == BinaryPixel(p, o, Ink(p, o) /\ ContentArea(p, o))

OutsideColor(p, o) ==
  LET filled == Oriented(IF o.filling = "white" THEN White ELSE Black, o)
  IN IF NeedBinarization(o) /\ ~OriginalBackground(o)
     THEN IF o.filling = "black" THEN Black ELSE White
     ELSE IF o.filling = "background" THEN Oriented(p.paper, o) ELSE filled

\* Binary content, or its segmentation, put into the image.
ContentCombined(p, o, c, mask) ==
  LET src == Source(p, o)
      seg == Segmented(c, p)
  IN IF NeedColorSegmentation(o)
     THEN IF OriginalBackground(o) THEN OverlaidColor(src, seg) ELSE CombinedColor(src, seg, mask)
     ELSE IF OriginalBackground(o) THEN Overlaid(src, c)        ELSE Combined(src, c, mask)

\* Margins, inversion and fill zones.
Finished(p, o, v, mask, outside) ==
  LET framed == Oriented(IF ContentArea(p, o) THEN v ELSE outside, o)
  IN IF MixedOutput(o) /\ NeedBinarization(o)
     THEN FilledMixed(framed, p, mask, ~NeedColorSegmentation(o))
     ELSE FilledColor(framed, p)

\* OutputImageBuilder: masks make it an image with layers.
Built(p, o, v, mask, c) ==
  IF ~SplitOutput(o) THEN [Plain(v) EXCEPT !.text = mask]
  ELSE [None EXCEPT
          !.kind = "layers", !.image = v, !.text = mask,
          !.type = IF ~NeedBinarization(o) THEN "color"
                   ELSE IF NeedColorSegmentation(o) THEN "indexed" ELSE "binary",
          !.fore = IF OriginalBackground(o) THEN FilledMask(c, p) /\ mask ELSE mask,
          !.back = OriginalBackground(o) /\ ~mask]

\* With the original background kept, the content is released and then used.
StraightMixed(p, o, z) ==
  LET area    == ContentArea(p, o)
      content == Ink(p, o) /\ area
      inZones == BinarizationMask(z.mask, content, z.zones)
      mask    == inZones \/ ~area
      before  == ContentUnderMask(content, inZones)
      c       == Despeckled(before, p)
      mixed   == ContentCombined(p, o, c, mask)
      kept    == IF mask THEN mixed ELSE Reserved(mixed)
  IN IF OriginalBackground(o) THEN [None EXCEPT !.kind = "crash"]
     ELSE IF NeedBinarization(o)
     THEN WithSpeckles(Built(p, o, Finished(p, o, kept, mask, OutsideColor(p, o)), mask, c),
                       before, p, area)
     ELSE Built(p, o, Finished(p, o, Source(p, o), mask, OutsideColor(p, o)), mask, c)

Straight(p, o, z) ==
  IF CanUseSource(p, o) THEN Plain(p.level)
  ELSE IF BinaryOutput(o) THEN StraightBinary(p, o)
  ELSE IF MixedOutput(o)  THEN StraightMixed(p, o, z)
  ELSE Plain(Finished(p, o, Source(p, o), FALSE, OutsideColor(p, o)))
-----------------------------------------------------------------------------
(* With dewarping.                                                         *)

DewarpedBinary(p, o) == BinaryPixel(p, o, Ink(p, o) /\ ContentArea(p, o))

OutsideAsAsked(p, o) ==   \* mutant of OutsideDewarped
  Oriented(IF o.filling = "white" THEN White ELSE p.paper, o)
OutsideDewarped(p, o) ==
  IF NeedBinarization(o) /\ ~OriginalBackground(o) THEN White
  ELSE Oriented(IF o.filling = "white" THEN White ELSE p.paper, o)

DewarpedMask(p, o, z) ==
  BinarizationMask(z.mask, Ink(p, o) /\ ContentArea(p, o), z.zones) \/ ~ContentArea(p, o)

DewarpedMixed(p, o, z) ==
  LET mask   == DewarpedMask(p, o, z)
      before == Ink(p, o) /\ mask /\ ContentArea(p, o)
      c      == Despeckled(before, p)
      mixed  == ContentCombined(p, o, c, mask)
      kept   == IF IF OriginalBackground(o) THEN c ELSE mask THEN mixed ELSE Reserved(mixed)
  IN IF NeedBinarization(o)
     THEN WithSpeckles(Built(p, o, Finished(p, o, kept, mask, OutsideDewarped(p, o)), mask, c),
                       before, p, ContentArea(p, o))
     ELSE Built(p, o, Finished(p, o, Source(p, o), mask, OutsideDewarped(p, o)), mask, c)

Dewarped(p, o, z) ==
  IF BinaryOutput(o) THEN DewarpedBinary(p, o)
  ELSE IF MixedOutput(o) THEN DewarpedMixed(p, o, z)
  ELSE Plain(Finished(p, o, Source(p, o), FALSE, OutsideDewarped(p, o)))

\* A page without content has an image, but no foreground of any type, so that
\* no image with layers is built.
IsBlank(p, o) == p.place = "blank" /\ o.fillMargins
Made(p, o, z) ==
  IF IsBlank(p, o) THEN Plain(White)
  ELSE IF o.dewarp THEN Dewarped(p, o, z) ELSE Straight(p, o, z)
-----------------------------------------------------------------------------
(* The files of an image with layers, the image read from them, and the    *)
(* input of despeckling as it is reconstructed.                            *)

ForegroundImage(i) ==
  LET v == Masked(i.image, i.fore, White)
  IN IF i.type = "binary" THEN Gray(v < 128) ELSE v
BehindForeground(i)        == Masked(i.image, ~i.fore, White)
BackgroundImage(i, o)      ==
  IF OriginalBackground(o) THEN Masked(BehindForeground(i), i.back, White)
                           ELSE BehindForeground(i)
OriginalBackgroundImage(i) == Masked(BehindForeground(i), ~i.back, Black)

MergedTwo(fg, bg)   == [image |-> OverlaidColor(bg, fg), fore |-> ~(bg < White), back |-> FALSE]
MergedThree(fg, bg, ob) ==
  LET fore == ~(ob < White)
      back == ob < Black + 1
  IN [image |-> CombinedColor(CombinedColor(ob, fg, fore), bg, back), fore |-> fore, back |-> back]
Reread(i, o) ==
  IF OriginalBackground(o)
  THEN MergedThree(ForegroundImage(i), BackgroundImage(i, o), OriginalBackgroundImage(i))
  ELSE MergedTwo(ForegroundImage(i), BackgroundImage(i, o))

\* DespeckleState: speckles laid over the image, and what is pure black in it.
OverlaySpeckles(v, speckle) == IF speckle THEN Black ELSE v
ExtractBW(v)                == v = Black
-----------------------------------------------------------------------------
(* A page is processed, its zones are edited, it is processed again.       *)

Init ==
  /\ \E case \in Cases : page = case.page /\ opts = case.opts
  /\ zones = {} /\ autoFound = FALSE /\ out = None /\ edits = 0

\* A zone of the user is drawn or deleted, a rectangle that was found deleted.
EditZones ==
  /\ out.kind # "none" /\ MixedOutput(opts) /\ edits < MaxEdits
  /\ \E z \in {y \in Zones : ~y.auto} \cup zones :
       zones' = IF z \in zones THEN zones \ {z} ELSE zones \cup {z}
  /\ edits' = edits + 1
  /\ UNCHANGED <<page, opts, autoFound, out>>

Process ==
  LET z == ProcessPictureZones(page, opts, zones, autoFound)
      mixed == MixedOutput(opts) /\ ~IsBlank(page, opts)
  IN /\ out.kind # "crash"
     /\ out' = [Made(page, opts, z) EXCEPT
                  !.automask = IF mixed /\ ContentArea(page, opts) THEN z.mask ELSE TRUE]
     /\ zones' = IF mixed THEN z.zones ELSE zones
     /\ autoFound' = IF mixed THEN z.found ELSE autoFound
     /\ UNCHANGED <<page, opts, edits>>

Next == EditZones \/ Process
Spec == Init /\ [][Next]_vars
-----------------------------------------------------------------------------
(* Properties.                                                             *)

\* In the layer of the original background, pure black stands for the background
\* mask: a margin filled with the black of its page is taken for that.
MarginTakenForMask ==
  /\ OriginalBackground(opts) /\ ~ContentArea(page, opts)
  /\ page.paper = Black /\ page.fill = NoFill

\* Merging the layers of a split output gives the image that was written whole,
\* and the masks are found again where no fill zone has painted them over.
LayersMergeBack ==
  out.kind = "layers" =>
    LET again == Reread(out, opts) IN
    /\ ~MarginTakenForMask => again.image = out.image
    /\ /\ NeedBinarization(opts) /\ page.fill = NoFill /\ page.place = "content"
       /\ OriginalBackground(opts) => NeedColorSegmentation(opts)
       => again.fore = out.fore /\ again.back = out.back

\* "We will be reconstructing the input to this despeckling operation from the
\* final output file": so it is for text, but for fill zones, colour
\* segmentation, and pages of white on black.
DespeckleInput ==
  /\ NeedBinarization(opts) /\ out.kind \in {"plain", "layers"} /\ out.despeckled
  /\ MixedOutput(opts) => out.text
  /\ ContentArea(page, opts) /\ page.fill = NoFill
  /\ ~NeedColorSegmentation(opts) /\ opts.blackOnWhite
  => ExtractBW(OverlaySpeckles(out.image, out.speckle)) = out.before

\* The editor of picture zones shows no less than what becomes a picture when the
\* page is processed next, and exactly that where zones do not tell text from
\* its background.
EditorShowsPictures ==
  LET z    == ProcessPictureZones(page, opts, zones, autoFound)
      text == DewarpedMask(page, opts, z)
      shown == PictureShown(out.automask, zones)
  IN out.kind \notin {"none", "crash"} /\ MixedOutput(opts) /\ ContentArea(page, opts) =>
       /\ ~text => shown
       /\ ~Has(zones, "FG") /\ ~Has(zones, "BG") => text = ~shown

\* Dewarping that moves nothing changes nothing: both paths make the same pixel
\* and the same layers, except of margins that are to be black.
PathsAgree ==
  LET z == ProcessPictureZones(page, opts, zones, autoFound)
      s == Straight(page, opts, z)
      d == Dewarped(page, opts, z)
  IN out.kind # "none" /\ ~OriginalBackground(opts) /\ ~CanUseSource(page, opts)
       /\ (ContentArea(page, opts) \/ opts.filling # "black") =>
     /\ s.kind = d.kind /\ s.image = d.image
     /\ s.kind = "layers" => s.fore = d.fore /\ s.type = d.type
=============================================================================
