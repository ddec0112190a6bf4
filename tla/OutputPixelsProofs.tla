------------------------- MODULE OutputPixelsProofs -------------------------
(***************************************************************************)
(* Theorems about the pixels of an output image, for any pixels of a page, *)
(* any options, and any number of zones drawn and deleted.                 *)
(***************************************************************************)
EXTENDS OutputPixels, TLAPS

\* What the finder of pictures and the zones of the user come to.
FoundType == [mask : BOOLEAN, zones : SUBSET Zones, found : BOOLEAN]

\* The gray levels of an image.
Tones == 0..255

-----------------------------------------------------------------------------
(* Types of the parts.                                                     *)

\* What a pixel says.
LEMMA PixelTypes ==
  ASSUME NEW p \in AllPixels
  PROVE  /\ p.level \in Tones /\ p.paper \in Tones /\ p.hue \in 0..254
         /\ p.ink \in BOOLEAN /\ p.picture \in BOOLEAN /\ p.speck \in BOOLEAN
         /\ p.fill \in Tones \cup {NoFill}
BY DEF AllPixels, Black, White, Tones

\* What cannot be seen together.
LEMMA PixelFacts ==
  ASSUME NEW p \in AllPixels
  PROVE  /\ p.level \in {0, 255} => ~p.ink
         /\ p.place # "content" => ~p.picture /\ ~p.speck
BY DEF AllPixels, Black, White

\* Turning a pixel over keeps it a pixel, and reserved what is reserved.
LEMMA OrientedTypes ==
  ASSUME NEW o, NEW v \in Tones
  PROVE  /\ Oriented(v, o) \in Tones
         /\ v \in 1..254 => Oriented(v, o) \in 1..254
BY DEF Oriented, Inverted, White, Tones

\* Turned over twice, a pixel is what it was.
LEMMA OrientedBack ==
  ASSUME NEW o, NEW v \in Tones
  PROVE  Oriented(Oriented(v, o), o) = v
BY DEF Oriented, Inverted, White, Tones

\* What is ink, where content is, and what is left by despeckling are yes or no.
LEMMA InkIsBoolean ==
  ASSUME NEW p \in AllPixels, NEW o \in AllOptions
  PROVE  /\ Ink(p, o) \in BOOLEAN /\ ContentArea(p, o) \in BOOLEAN
         /\ \A c \in BOOLEAN : Despeckled(c, p) \in BOOLEAN
         /\ Source(p, o) \in Tones
         /\ p.place = "content" => ContentArea(p, o)
<1>1. Source(p, o) \in Tones
  BY PixelTypes DEF Source, Oriented, Inverted, White, Tones
<1>2. Ink(p, o) \in BOOLEAN
  BY DEF Ink
<1>3. ContentArea(p, o) \in BOOLEAN
  BY DEF ContentArea
<1>4. p.place = "content" => ContentArea(p, o)
  BY DEF ContentArea
<1>5. ASSUME NEW c \in BOOLEAN PROVE Despeckled(c, p) \in BOOLEAN
  BY DEF Despeckled
<1> QED BY <1>1, <1>2, <1>3, <1>4, <1>5

\* Passes over the mask of pictures leave it a mask.
LEMMA MaskIsBoolean ==
  ASSUME NEW m, NEW c, NEW zs
  PROVE  BinarizationMask(m, c, zs) \in BOOLEAN
BY DEF BinarizationMask, Has

-----------------------------------------------------------------------------
(* Merging the layers of an image.                                         *)

\* Two layers: white of the foreground is where the background is seen.
LEMMA TwoLayersMerge ==
  ASSUME NEW i, NEW o, ~OriginalBackground(o), i.fore \in BOOLEAN, i.image \in Tones,
         i.type = "binary" /\ i.fore => i.image \in {0, 255}
  PROVE  /\ Reread(i, o).image = i.image
         /\ i.fore \/ i.image # 255 => Reread(i, o).fore = i.fore
         /\ Reread(i, o).back = FALSE
<1> DEFINE fg == ForegroundImage(i)
           bg == BackgroundImage(i, o)
<1>1. bg = IF i.fore THEN 255 ELSE i.image
  BY DEF BackgroundImage, BehindForeground, Masked, White
<1>2. fg = IF i.fore THEN i.image ELSE 255
  BY DEF ForegroundImage, Masked, White, Gray, Black
<1>3. Reread(i, o) = MergedTwo(fg, bg)
  BY DEF Reread
<1>4. /\ MergedTwo(fg, bg).image = IF fg # 255 THEN fg ELSE bg
      /\ MergedTwo(fg, bg).fore = ~(bg < 255)
      /\ MergedTwo(fg, bg).back = FALSE
  BY DEF MergedTwo, OverlaidColor, White
<1> HIDE DEF fg, bg
<1> QED BY <1>1, <1>2, <1>3, <1>4 DEF Tones

\* Three layers, laid over each other.
LEMMA ThreeMerged ==
  ASSUME NEW fg, NEW bg, NEW ob \in Tones
  PROVE  /\ ob = 0 => MergedThree(fg, bg, ob) = [image |-> bg, fore |-> FALSE, back |-> TRUE]
         /\ ob \in 1..254 =>
              MergedThree(fg, bg, ob) = [image |-> ob, fore |-> FALSE, back |-> FALSE]
         /\ ob = 255 => MergedThree(fg, bg, ob) = [image |-> fg, fore |-> TRUE, back |-> FALSE]
<1> DEFINE fore == ~(ob < White)
           back == ob < Black + 1
           v == CombinedColor(CombinedColor(ob, fg, fore), bg, back)
<1>1. MergedThree(fg, bg, ob) = [image |-> v, fore |-> fore, back |-> back]
  BY DEF MergedThree
<1>2. v = IF ob = 0 THEN bg ELSE IF ob = 255 THEN fg ELSE ob
  BY DEF CombinedColor, White, Black, Tones
<1>3. CASE ob = 0
  <2>1. back = TRUE /\ fore = FALSE
    BY <1>3 DEF Black, White
  <2>2. v = bg
    BY <1>2, <1>3
  <2> HIDE DEF fore, back, v
  <2>3. MergedThree(fg, bg, ob) = [image |-> bg, fore |-> FALSE, back |-> TRUE]
    BY <1>1, <2>1, <2>2, Zenon
  <2> QED BY <1>3, <2>3
<1>4. CASE ob \in 1..254
  <2>1. back = FALSE /\ fore = FALSE
    BY <1>4 DEF Black, White
  <2>2. v = ob
    BY <1>2, <1>4
  <2> HIDE DEF fore, back, v
  <2>3. MergedThree(fg, bg, ob) = [image |-> ob, fore |-> FALSE, back |-> FALSE]
    BY <1>1, <2>1, <2>2, Zenon
  <2> QED BY <1>4, <2>3
<1>5. CASE ob = 255
  <2>1. back = FALSE /\ fore = TRUE
    BY <1>5 DEF Black, White
  <2>2. v = fg
    BY <1>2, <1>5
  <2> HIDE DEF fore, back, v
  <2>3. MergedThree(fg, bg, ob) = [image |-> fg, fore |-> TRUE, back |-> FALSE]
    BY <1>1, <2>1, <2>2, Zenon
  <2> QED BY <1>5, <2>3
<1> QED BY <1>3, <1>4, <1>5 DEF Tones

\* In the layer of the original background black stands for the background mask
\* and white for the foreground.
LEMMA ThreeLayersMerge ==
  ASSUME NEW i, NEW o, OriginalBackground(o), i.fore \in BOOLEAN, i.back \in BOOLEAN,
         i.image \in Tones, ~(i.fore /\ i.back),
         i.type = "binary" /\ i.fore => i.image \in {0, 255},
         i.fore \/ i.back \/ i.image # 0
  PROVE  /\ Reread(i, o).image = i.image
         /\ i.fore \/ i.back \/ i.image # 255 =>
              Reread(i, o).fore = i.fore /\ Reread(i, o).back = i.back
<1> DEFINE fg == ForegroundImage(i)
           bg == BackgroundImage(i, o)
           ob == OriginalBackgroundImage(i)
           m  == Reread(i, o)
<1>1. bg = IF i.back /\ ~i.fore THEN i.image ELSE 255
  BY DEF BackgroundImage, BehindForeground, Masked, White
<1>2. fg = IF i.fore THEN i.image ELSE 255
  BY DEF ForegroundImage, Masked, White, Gray, Black
<1>3. ob = IF i.back THEN 0 ELSE IF i.fore THEN 255 ELSE i.image
  BY DEF OriginalBackgroundImage, BehindForeground, Masked, White, Black
<1>4. m = MergedThree(fg, bg, ob)
  BY DEF Reread
<1>5. ob \in Tones
  BY <1>3 DEF Tones
<1> HIDE DEF fg, bg, ob, m
<1>6. CASE i.back
  <2>1. ~i.fore /\ ob = 0 /\ bg = i.image
    BY <1>1, <1>3, <1>6
  <2>2. ob = 0 => MergedThree(fg, bg, ob) = [image |-> bg, fore |-> FALSE, back |-> TRUE]
    BY <1>5, ThreeMerged
  <2>3. m = [image |-> i.image, fore |-> FALSE, back |-> TRUE]
    BY <1>4, <2>1, <2>2, Zenon
  <2>4. m.image = i.image /\ m.fore = i.fore /\ m.back = i.back
    BY <1>6, <2>1, <2>3
  <2> QED BY <2>4 DEF m
<1>7. CASE ~i.back /\ i.fore
  <2>1. ob = 255 /\ fg = i.image
    BY <1>2, <1>3, <1>7
  <2>2. m = [image |-> i.image, fore |-> TRUE, back |-> FALSE]
    BY <1>4, <1>5, <2>1, ThreeMerged
  <2>3. m.image = i.image /\ m.fore = i.fore /\ m.back = i.back
    BY <1>7, <2>2
  <2> QED BY <2>3 DEF m
<1>8. CASE ~i.back /\ ~i.fore /\ i.image # 255
  <2>1. ob = i.image /\ ob \in 1..254
    BY <1>3, <1>8 DEF Tones
  <2>2. m = [image |-> i.image, fore |-> FALSE, back |-> FALSE]
    BY <1>4, <1>5, <2>1, ThreeMerged
  <2>3. m.image = i.image /\ m.fore = i.fore /\ m.back = i.back
    BY <1>8, <2>2
  <2> QED BY <2>3 DEF m
<1>9. CASE ~i.back /\ ~i.fore /\ i.image = 255
  <2>1. ob = 255 /\ fg = i.image
    BY <1>2, <1>3, <1>9
  <2>2. m = [image |-> i.image, fore |-> TRUE, back |-> FALSE]
    BY <1>4, <1>5, <2>1, ThreeMerged
  <2>3. m.image = i.image
    BY <2>2
  <2> QED BY <1>9, <2>3 DEF m
<1> QED BY <1>6, <1>7, <1>8, <1>9

-----------------------------------------------------------------------------
(* The layers of the images that are made.                                 *)

\* What is neither text nor margin is left to the picture: never black nor white.
LEMMA ReservedTypes ==
  ASSUME NEW v \in Tones
  PROVE  Reserved(v) \in 1..254
BY DEF Reserved, Black, White, Tones

\* The pixel after margins and inversion, before fill zones.
Framed(p, o, v, outside) == Oriented(IF ContentArea(p, o) THEN v ELSE outside, o)

\* Text is black or white unless it is segmented, a picture is as it was, and a
\* fill zone goes over both.
LEMMA FinishedIs ==
  ASSUME NEW p \in AllPixels, NEW o, MixedOutput(o), NEW mask, NEW v, NEW outside,
         Framed(p, o, v, outside) \in Tones
  PROVE  Finished(p, o, v, mask, outside) =
           IF NeedBinarization(o) /\ ~NeedColorSegmentation(o) /\ mask
           THEN IF IF p.fill = NoFill THEN Framed(p, o, v, outside) < 1 ELSE p.fill < 128
                THEN 0 ELSE 255
           ELSE IF p.fill = NoFill THEN Framed(p, o, v, outside) ELSE p.fill
<1> DEFINE f == Framed(p, o, v, outside)
<1>1. Finished(p, o, v, mask, outside) =
        IF NeedBinarization(o) THEN FilledMixed(f, p, mask, ~NeedColorSegmentation(o))
        ELSE FilledColor(f, p)
  BY DEF Finished, Framed
<1> HIDE DEF f
<1>2. FilledColor(f, p) = IF p.fill = NoFill THEN f ELSE p.fill
  BY DEF FilledColor
<1>3. CASE ~NeedBinarization(o)
  BY <1>1, <1>2, <1>3 DEF f
<1>4. CASE NeedBinarization(o) /\ NeedColorSegmentation(o)
  <2>1. FilledMixed(f, p, mask, FALSE) = FilledColor(f, p)
    BY DEF FilledMixed, CombinedColor, Masked, FilledColor
  <2> QED BY <1>1, <1>2, <1>4, <2>1 DEF f
<1>5. CASE NeedBinarization(o) /\ ~NeedColorSegmentation(o)
  <2>1. FilledMixed(f, p, mask, TRUE) =
          IF mask THEN IF FilledBW(f < 1, p) THEN 0 ELSE 255 ELSE FilledColor(f, p)
    BY DEF FilledMixed, Combined, Gray, Black, White
  <2>2. FilledBW(f < 1, p) <=> IF p.fill = NoFill THEN f < 1 ELSE p.fill < 128
    BY DEF FilledBW
  <2> QED BY <1>1, <1>2, <1>5, <2>1, <2>2 DEF f
<1> QED BY <1>3, <1>4, <1>5

\* How the layers of an image come from its masks.
HasLayers(i, o, v, mask, c, p) ==
  /\ i.image = v
  /\ i.type = "binary" <=> NeedBinarization(o) /\ ~NeedColorSegmentation(o)
  /\ i.fore \in BOOLEAN /\ i.back \in BOOLEAN
  /\ i.fore <=> mask /\ (OriginalBackground(o) => c \/ p.fill # NoFill)
  /\ i.back <=> OriginalBackground(o) /\ ~mask

\* An image with layers is found again when these are merged, if pictures are
\* free of black and white where they are looked for.
LEMMA LayersFound ==
  ASSUME NEW p \in AllPixels, NEW o \in AllOptions, MixedOutput(o),
         NEW v \in Tones, NEW outside \in Tones, NEW mask \in BOOLEAN, NEW c \in BOOLEAN,
         OriginalBackground(o) => NeedBinarization(o),
         Framed(p, o, v, outside) \in Tones,
         ContentArea(p, o) /\ NeedBinarization(o) /\ ~(IF OriginalBackground(o) THEN c ELSE mask)
           => Framed(p, o, v, outside) \in 1..254,
         NEW i, HasLayers(i, o, Finished(p, o, v, mask, outside), mask, c, p)
  PROVE  /\ \/ ~OriginalBackground(o) \/ ContentArea(p, o)
            \/ Framed(p, o, v, outside) # 0 \/ p.fill # NoFill
            => Reread(i, o).image = i.image
         /\ /\ NeedBinarization(o) /\ p.fill = NoFill /\ ContentArea(p, o)
            /\ OriginalBackground(o) => NeedColorSegmentation(o)
            => Reread(i, o).fore = i.fore /\ Reread(i, o).back = i.back
<1> DEFINE f == Framed(p, o, v, outside)
<1>1. i.image = IF NeedBinarization(o) /\ ~NeedColorSegmentation(o) /\ mask
                THEN IF IF p.fill = NoFill THEN f < 1 ELSE p.fill < 128 THEN 0 ELSE 255
                ELSE IF p.fill = NoFill THEN f ELSE p.fill
  BY FinishedIs DEF HasLayers
<1>2. f \in Tones /\ p.fill \in Tones \cup {NoFill}
  BY PixelTypes
<1>3. i.fore \in BOOLEAN /\ i.back \in BOOLEAN /\ ~(i.fore /\ i.back)
  BY DEF HasLayers
<1>4. ContentArea(p, o) /\ NeedBinarization(o) /\ ~(IF OriginalBackground(o) THEN c ELSE mask)
        => f \in 1..254
  OBVIOUS
<1> HIDE DEF f
<1>5. i.image \in Tones
  BY <1>1, <1>2 DEF Tones
<1>6. i.type = "binary" /\ i.fore => i.image \in {0, 255}
  BY <1>1 DEF HasLayers
<1>7. CASE ~OriginalBackground(o)
  <2>1. i.back = FALSE
    BY <1>7 DEF HasLayers
  <2>2. /\ Reread(i, o).image = i.image /\ Reread(i, o).back = FALSE
        /\ i.fore \/ i.image # 255 => Reread(i, o).fore = i.fore
    BY <1>3, <1>5, <1>6, <1>7, TwoLayersMerge
  <2>3. NeedBinarization(o) /\ p.fill = NoFill /\ ContentArea(p, o) => i.fore \/ i.image # 255
    BY <1>1, <1>4, <1>7 DEF HasLayers
  <2> QED BY <2>1, <2>2, <2>3
<1>8. CASE OriginalBackground(o)
  <2>1. ~i.fore /\ ~i.back => mask /\ ~c /\ p.fill = NoFill
    BY <1>8 DEF HasLayers
  <2>2. ~i.fore /\ ~i.back /\ ContentArea(p, o) => i.image # 0
    BY <1>1, <1>4, <1>8, <2>1
  <2>3. ~i.fore /\ ~i.back /\ f # 0 => i.image # 0
    BY <1>1, <1>2, <2>1 DEF Tones
  <2>4. ~i.fore /\ ~i.back /\ ContentArea(p, o) /\ NeedColorSegmentation(o) => i.image # 255
    BY <1>1, <1>4, <1>8, <2>1
  <2>5. i.fore \/ i.back \/ i.image # 0 =>
          /\ Reread(i, o).image = i.image
          /\ i.fore \/ i.back \/ i.image # 255 =>
               Reread(i, o).fore = i.fore /\ Reread(i, o).back = i.back
    BY <1>3, <1>5, <1>6, <1>8, ThreeLayersMerge
  <2>6. p.fill # NoFill => i.fore \/ i.back
    BY <2>1
  <2> QED BY <1>8, <2>2, <2>3, <2>4, <2>5, <2>6 DEF f
<1> QED BY <1>7, <1>8

\* An image has layers if the output is split.
LEMMA BuiltHasLayers ==
  ASSUME NEW p, NEW o, NEW v, NEW mask \in BOOLEAN, NEW c \in BOOLEAN,
         NEW b, b = Built(p, o, v, mask, c)
  PROVE  /\ SplitOutput(o) => b.kind = "layers"
         /\ ~SplitOutput(o) => b.kind = "plain"
         /\ b.image = v
         /\ b.text = mask
         /\ SplitOutput(o) => HasLayers(b, o, v, mask, c, p)
         /\ ~b.despeckled
<1> DEFINE fore == IF OriginalBackground(o) THEN FilledMask(c, p) /\ mask ELSE mask
           back == OriginalBackground(o) /\ ~mask
           type == IF ~NeedBinarization(o) THEN "color"
                   ELSE IF NeedColorSegmentation(o) THEN "indexed" ELSE "binary"
<1>1. CASE ~SplitOutput(o)
  <2>1. b = [None EXCEPT !.kind = "plain", !.image = v, !.text = mask]
    BY <1>1 DEF Built, Plain, None
  <2>2. b.kind = "plain" /\ b.image = v /\ b.text = mask /\ b.despeckled = FALSE
    BY <2>1 DEF None
  <2> QED BY <1>1, <2>2
<1>2. CASE SplitOutput(o)
  <2>1. b = [None EXCEPT !.kind = "layers", !.image = v, !.text = mask, !.type = type,
                         !.fore = fore, !.back = back]
    BY <1>2 DEF Built
  <2>2. fore \in BOOLEAN /\ back \in BOOLEAN
    BY DEF FilledMask
  <2>3. fore <=> mask /\ (OriginalBackground(o) => c \/ p.fill # NoFill)
    BY DEF FilledMask
  <2>4. back <=> OriginalBackground(o) /\ ~mask
    OBVIOUS
  <2>5. type = "binary" <=> NeedBinarization(o) /\ ~NeedColorSegmentation(o)
    OBVIOUS
  <2> HIDE DEF fore, back, type
  <2>6. /\ b.kind = "layers" /\ b.image = v /\ b.text = mask /\ b.type = type
        /\ b.fore = fore /\ b.back = back /\ b.despeckled = FALSE
    BY <2>1 DEF None
  <2>7. HasLayers(b, o, v, mask, c, p)
    BY <2>2, <2>3, <2>4, <2>5, <2>6 DEF HasLayers
  <2> QED BY <1>2, <2>6, <2>7
<1> QED BY <1>1, <1>2

\* Only a split output has layers.
LEMMA LayersAreSplit ==
  ASSUME NEW p, NEW o, NEW v, NEW mask, NEW c, Built(p, o, v, mask, c).kind = "layers"
  PROVE  SplitOutput(o)
BY DEF Built, Plain, None

\* The images there are.
ImageType ==
  [kind : {"none", "plain", "layers", "crash"}, image : Tones, text : BOOLEAN,
   type : {"none", "color", "indexed", "binary"}, fore : BOOLEAN, back : BOOLEAN,
   despeckled : BOOLEAN, before : BOOLEAN, speckle : BOOLEAN, automask : BOOLEAN]

\* Images that are built, and images without layers, are images.
LEMMA BuiltType ==
  ASSUME NEW p, NEW o, NEW v \in Tones, NEW mask \in BOOLEAN, NEW c \in BOOLEAN
  PROVE  Built(p, o, v, mask, c) \in ImageType /\ Plain(v) \in ImageType
<1>1. Plain(v) \in ImageType
  BY DEF Plain, None, ImageType, White
<1> DEFINE fore == IF OriginalBackground(o) THEN FilledMask(c, p) /\ mask ELSE mask
           back == OriginalBackground(o) /\ ~mask
           type == IF ~NeedBinarization(o) THEN "color"
                   ELSE IF NeedColorSegmentation(o) THEN "indexed" ELSE "binary"
<1>2. CASE ~SplitOutput(o)
  BY <1>1, <1>2 DEF Built, ImageType
<1>3. CASE SplitOutput(o)
  <2>1. Built(p, o, v, mask, c)
          = [None EXCEPT !.kind = "layers", !.image = v, !.text = mask, !.type = type,
                         !.fore = fore, !.back = back]
    BY <1>3 DEF Built
  <2>2. fore \in BOOLEAN /\ back \in BOOLEAN /\ type \in {"none", "color", "indexed", "binary"}
    BY DEF FilledMask
  <2>3. None \in ImageType
    BY DEF None, ImageType, White, Tones
  <2> HIDE DEF fore, back, type
  <2>4. Built(p, o, v, mask, c) \in ImageType
    BY <2>1, <2>2, <2>3 DEF ImageType
  <2> QED BY <1>1, <2>4
<1> QED BY <1>1, <1>2, <1>3

\* Despeckling adds speckles to an image, and the mask found for the editor is kept
\* with it: the image stays as it is.
LEMMA SpecklesAdded ==
  ASSUME NEW p \in AllPixels, NEW i \in ImageType, NEW before \in BOOLEAN,
         NEW inRect \in BOOLEAN, NEW r, r = WithSpeckles(i, before, p, inRect)
  PROVE  /\ r \in ImageType
         /\ r.kind = i.kind /\ r.image = i.image /\ r.text = i.text /\ r.type = i.type
         /\ r.fore = i.fore /\ r.back = i.back
         /\ r.despeckled /\ r.before = before
         /\ r.speckle = (inRect /\ before /\ p.speck)
<1> DEFINE s == inRect /\ before /\ p.speck
<1>1. s \in BOOLEAN
  OBVIOUS
<1>2. r = [i EXCEPT !.despeckled = TRUE, !.before = before, !.speckle = s]
  BY DEF WithSpeckles
<1> HIDE DEF s
<1>3. r \in ImageType
  BY <1>1, <1>2 DEF ImageType
<1>4. /\ r.kind = i.kind /\ r.image = i.image /\ r.text = i.text /\ r.type = i.type
      /\ r.fore = i.fore /\ r.back = i.back /\ r.before = before /\ r.speckle = s
  BY <1>2 DEF ImageType
<1>5. r.despeckled = TRUE
  BY <1>2 DEF ImageType
<1> QED BY <1>3, <1>4, <1>5 DEF s

\* What the margins are filled with, and then turned over.
LEMMA OutsideTypes ==
  ASSUME NEW p \in AllPixels, NEW o \in AllOptions
  PROVE  /\ OutsideColor(p, o) \in Tones /\ OutsideDewarped(p, o) \in Tones
         /\ OriginalBackground(o) => Oriented(OutsideDewarped(p, o), o) \in {255, p.paper}
BY PixelTypes DEF OutsideColor, OutsideDewarped, Oriented, Inverted, White, Black, Tones

\* Content put into the image is a pixel, and leaves pictures as they are.
LEMMA CombinedTypes ==
  ASSUME NEW p \in AllPixels, NEW o \in AllOptions, NEW c \in BOOLEAN, NEW mask \in BOOLEAN
  PROVE  ContentCombined(p, o, c, mask) \in Tones
<1>1. Source(p, o) \in Tones /\ p.hue \in 0..254
  BY InkIsBoolean, PixelTypes
<1> QED BY <1>1 DEF ContentCombined, Segmented, OverlaidColor, CombinedColor, Overlaid, Combined,
                    Gray, White, Black, Tones

\* A pixel framed by margins is a pixel, and one of content is reserved if it was.
LEMMA FramedTypes ==
  ASSUME NEW p \in AllPixels, NEW o \in AllOptions, NEW v \in Tones, NEW outside \in Tones
  PROVE  /\ Framed(p, o, v, outside) \in Tones
         /\ ContentArea(p, o) /\ v \in 1..254 => Framed(p, o, v, outside) \in 1..254
         /\ ~ContentArea(p, o) => Framed(p, o, v, outside) = Oriented(outside, o)
BY DEF Framed, Oriented, Inverted, White, Tones

\* Finishing a pixel gives a pixel.
LEMMA FinishedTypes ==
  ASSUME NEW p \in AllPixels, NEW o \in AllOptions, NEW v \in Tones, NEW outside \in Tones,
         NEW mask \in BOOLEAN
  PROVE  Finished(p, o, v, mask, outside) \in Tones
<1> DEFINE f == Framed(p, o, v, outside)
<1>1. f \in Tones /\ p.fill \in Tones \cup {NoFill}
  BY FramedTypes, PixelTypes
<1>2. CASE MixedOutput(o)
  <2> HIDE DEF f
  <2>1. Finished(p, o, v, mask, outside) \in {0, 255, f, p.fill}
        /\ (p.fill = NoFill => Finished(p, o, v, mask, outside) \in {0, 255, f})
    BY <1>1, <1>2, FinishedIs DEF f
  <2> QED BY <1>1, <2>1 DEF Tones
<1>3. CASE ~MixedOutput(o)
  <2>1. Finished(p, o, v, mask, outside) = FilledColor(f, p)
    BY <1>3 DEF Finished, Framed
  <2> HIDE DEF f
  <2> QED BY <1>1, <2>1 DEF FilledColor
<1> QED BY <1>2, <1>3

-----------------------------------------------------------------------------
(* What is promised of the images that are made.                           *)

\* LayersMergeBack of an image.
MergesBack(p, o, i) ==
  i.kind = "layers" =>
    /\ \/ ~OriginalBackground(o) \/ ContentArea(p, o) \/ p.paper # Black \/ p.fill # NoFill
       => Reread(i, o).image = i.image
    /\ /\ NeedBinarization(o) /\ p.fill = NoFill /\ ContentArea(p, o)
       /\ OriginalBackground(o) => NeedColorSegmentation(o)
       => Reread(i, o).fore = i.fore /\ Reread(i, o).back = i.back

\* DespeckleInput of an image.
Reconstructs(p, o, i) ==
  /\ NeedBinarization(o) /\ i.kind \in {"plain", "layers"} /\ i.despeckled
  /\ MixedOutput(o) => i.text
  /\ ContentArea(p, o) /\ p.fill = NoFill
  /\ ~NeedColorSegmentation(o) /\ o.blackOnWhite
  => ExtractBW(OverlaySpeckles(i.image, i.speckle)) = i.before

\* The images of a mixed output merge back, along both paths.
LEMMA MixedMergesBack ==
  ASSUME NEW p \in AllPixels, NEW o \in AllOptions, MixedOutput(o),
         NEW v \in Tones, NEW outside \in Tones, NEW mask \in BOOLEAN, NEW c \in BOOLEAN,
         NeedBinarization(o) /\ ~(IF OriginalBackground(o) THEN c ELSE mask) => v \in 1..254,
         OriginalBackground(o) => Oriented(outside, o) \in {255, p.paper},
         NEW b, b = Built(p, o, Finished(p, o, v, mask, outside), mask, c),
         NEW i, i.kind = b.kind, i.image = b.image, i.type = b.type,
         i.fore = b.fore, i.back = b.back
  PROVE  MergesBack(p, o, i)
<1> SUFFICES ASSUME i.kind = "layers" PROVE MergesBack(p, o, i)
  BY DEF MergesBack
<1> DEFINE w == Finished(p, o, v, mask, outside)
           f == Framed(p, o, v, outside)
<1>0. SplitOutput(o)
  BY LayersAreSplit
<1>1. HasLayers(b, o, w, mask, c, p)
  <2>1. SplitOutput(o) => HasLayers(b, o, w, mask, c, p)
    BY BuiltHasLayers
  <2> QED BY <1>0, <2>1
<1>2. HasLayers(i, o, w, mask, c, p)
  BY <1>1 DEF HasLayers
<1>3. /\ f \in Tones
      /\ ContentArea(p, o) /\ v \in 1..254 => f \in 1..254
      /\ ~ContentArea(p, o) => f = Oriented(outside, o)
  BY FramedTypes
<1>4. OriginalBackground(o) => NeedBinarization(o)
  BY DEF OriginalBackground
<1>5. ~OriginalBackground(o) \/ ContentArea(p, o) \/ p.paper # Black \/ p.fill # NoFill =>
        ~OriginalBackground(o) \/ ContentArea(p, o) \/ f # 0 \/ p.fill # NoFill
  BY <1>3 DEF Black
<1>6. ContentArea(p, o) /\ NeedBinarization(o) /\ ~(IF OriginalBackground(o) THEN c ELSE mask)
        => f \in 1..254
  BY <1>3
<1> HIDE DEF w
<1>7. /\ ~OriginalBackground(o) \/ ContentArea(p, o) \/ f # 0 \/ p.fill # NoFill
           => Reread(i, o).image = i.image
      /\ /\ NeedBinarization(o) /\ p.fill = NoFill /\ ContentArea(p, o)
         /\ OriginalBackground(o) => NeedColorSegmentation(o)
         => Reread(i, o).fore = i.fore /\ Reread(i, o).back = i.back
  BY <1>2, <1>3, <1>4, <1>6, LayersFound DEF w
<1> QED BY <1>5, <1>7 DEF MergesBack

\* Speckles laid over what despeckling left are what it began with.
LEMMA SpecklesRestore ==
  ASSUME NEW p \in AllPixels, NEW before \in BOOLEAN, NEW v, NEW speckle,
         v = Gray(Despeckled(before, p)), speckle = (TRUE /\ before /\ p.speck)
  PROVE  ExtractBW(OverlaySpeckles(v, speckle)) = before
<1>1. p.speck \in BOOLEAN
  BY PixelTypes
<1>2. OverlaySpeckles(v, speckle) = IF before THEN 0 ELSE 255
  BY <1>1 DEF OverlaySpeckles, Gray, Despeckled, Black, White
<1> QED BY <1>2 DEF ExtractBW, Black

\* Text of a mixed output is black exactly where it was before it was finished.
LEMMA TextIsContent ==
  ASSUME NEW p, NEW o, MixedOutput(o), NeedBinarization(o), ~NeedColorSegmentation(o),
         p.fill = NoFill, NEW mask, NEW outside, NEW v, Framed(p, o, v, outside) = v
  PROVE  mask => Finished(p, o, v, mask, outside) = Gray(v < 1)
BY DEF Finished, Framed, FilledMixed, Combined, FilledBW

\* The tone of content.
LEMMA ToneOfContent ==
  ASSUME NEW c \in BOOLEAN, NEW v, v \in Tones /\ (c => v = 0) /\ (~c => v # 0)
  PROVE  Gray(v < 1) = Gray(c)
<1>1. CASE c
  BY <1>1 DEF Gray
<1>2. CASE ~c
  <2>1. ~(v < 1)
    BY <1>2 DEF Tones
  <2> QED BY <1>2, <2>1 DEF Gray
<1> QED BY <1>1, <1>2

\* What is put into text is content, and only content is black.
LEMMA ContentInText ==
  ASSUME NEW p \in AllPixels, NEW o \in AllOptions, ~NeedColorSegmentation(o),
         NEW mask \in BOOLEAN, NEW c \in BOOLEAN,
         NEW mixed, mixed = ContentCombined(p, o, c, mask), NEW v,
         OriginalBackground(o) /\ ~c => v = Reserved(mixed),
         mask /\ (~OriginalBackground(o) \/ c) => v = mixed
  PROVE  mask => v \in Tones /\ (c => v = 0) /\ (~c => v # 0)
<1> DEFINE src == Source(p, o)
<1>1. src \in Tones
  BY InkIsBoolean
<1>2. mask => mixed = IF c THEN 0 ELSE IF OriginalBackground(o) THEN src ELSE 255
  BY DEF ContentCombined, Overlaid, Combined, Gray, Black, White
<1>3. Reserved(src) \in 1..254
  BY <1>1, ReservedTypes
<1> HIDE DEF src
<1>4. mask /\ c => v = 0
  BY <1>2
<1>5. mask /\ ~c /\ OriginalBackground(o) => v = Reserved(src)
  BY <1>2
<1>6. mask /\ ~c /\ ~OriginalBackground(o) => v = 255
  BY <1>2
<1>7. mask /\ ~c => v \in 1..255
  BY <1>3, <1>5, <1>6
<1> QED BY <1>4, <1>7 DEF Tones

\* The image made of a page with pictures, dewarped.
LEMMA DewarpedMixedRight ==
  ASSUME NEW p \in AllPixels, NEW o \in AllOptions, MixedOutput(o), NEW z \in FoundType,
         NEW r, r = DewarpedMixed(p, o, z)
  PROVE  r \in ImageType /\ MergesBack(p, o, r) /\ Reconstructs(p, o, r)
<1> DEFINE area   == ContentArea(p, o)
           mask   == DewarpedMask(p, o, z)
           before == Ink(p, o) /\ mask /\ area
           c      == Despeckled(before, p)
           mixed  == ContentCombined(p, o, c, mask)
           kept   == IF IF OriginalBackground(o) THEN c ELSE mask THEN mixed ELSE Reserved(mixed)
           outside == OutsideDewarped(p, o)
           v == IF NeedBinarization(o) THEN kept ELSE Source(p, o)
           b == Built(p, o, Finished(p, o, v, mask, outside), mask, c)
<1>1. r = IF NeedBinarization(o) THEN WithSpeckles(b, before, p, area) ELSE b
  BY DEF DewarpedMixed
<1>2. mask \in BOOLEAN /\ before \in BOOLEAN /\ area \in BOOLEAN
  BY MaskIsBoolean, InkIsBoolean DEF DewarpedMask
<1> HIDE DEF mask, before, area
<1>3. c \in BOOLEAN
  BY <1>2, InkIsBoolean
<1> HIDE DEF c
<1>4. mixed \in Tones
  BY <1>2, <1>3, CombinedTypes
<1> HIDE DEF mixed
<1>5. kept \in Tones /\ (~(IF OriginalBackground(o) THEN c ELSE mask) => kept \in 1..254)
  <2>1. Reserved(mixed) \in 1..254
    BY <1>4, ReservedTypes
  <2> QED BY <1>4, <2>1 DEF Tones
<1>6. v \in Tones /\ outside \in Tones
  BY <1>5, InkIsBoolean, OutsideTypes
<1>7. NeedBinarization(o) => v = kept
  OBVIOUS
<1> HIDE DEF kept, v
<1>8. OriginalBackground(o) => Oriented(outside, o) \in {255, p.paper}
  BY OutsideTypes
<1> HIDE DEF outside
<1>9. Finished(p, o, v, mask, outside) \in Tones
  BY <1>2, <1>6, FinishedTypes
<1>10. b \in ImageType
  BY <1>2, <1>3, <1>9, BuiltType
<1>11. b.image = Finished(p, o, v, mask, outside) /\ b.text = mask /\ ~b.despeckled
  BY <1>2, <1>3, BuiltHasLayers
<1>12. ASSUME NEW i, i.kind = b.kind, i.image = b.image, i.type = b.type,
              i.fore = b.fore, i.back = b.back
       PROVE  MergesBack(p, o, i)
  BY <1>2, <1>3, <1>5, <1>6, <1>7, <1>8, <1>12, MixedMergesBack
<1> HIDE DEF b
<1>13. CASE NeedBinarization(o)
  <2>1. /\ r \in ImageType
        /\ r.kind = b.kind /\ r.image = b.image /\ r.text = b.text /\ r.type = b.type
        /\ r.fore = b.fore /\ r.back = b.back /\ r.before = before
        /\ r.speckle = (area /\ before /\ p.speck)
    <3>1. r = WithSpeckles(b, before, p, area)
      BY <1>1, <1>13
    <3> QED BY <1>2, <1>10, <3>1, SpecklesAdded
  <2>2. MergesBack(p, o, r)
    BY <1>12, <2>1
  <2>3. ASSUME r.text, ContentArea(p, o), p.fill = NoFill, ~NeedColorSegmentation(o), o.blackOnWhite
        PROVE  ExtractBW(OverlaySpeckles(r.image, r.speckle)) = r.before
    <3>1. mask /\ area = TRUE
      BY <1>2, <1>11, <2>1, <2>3 DEF area
    <3>2. /\ OriginalBackground(o) /\ ~c => v = Reserved(mixed)
          /\ mask /\ (~OriginalBackground(o) \/ c) => v = mixed
      BY <1>7, <1>13 DEF kept
    <3>3. v \in Tones /\ (c => v = 0) /\ (~c => v # 0)
      BY <1>2, <1>3, <2>3, <3>1, <3>2, ContentInText DEF mixed
    <3>4. mask => Finished(p, o, v, mask, outside) = Gray(c)
      <4>1. Framed(p, o, v, outside) = v
        BY <2>3 DEF Framed, Oriented
      <4>2. p.fill = NoFill /\ ~NeedColorSegmentation(o)
        BY <2>3
      <4>3. mask => Finished(p, o, v, mask, outside) = Gray(v < 1)
        BY <1>13, <4>1, <4>2, TextIsContent
      <4>4. Gray(v < 1) = Gray(c)
        BY <1>3, <3>3, ToneOfContent
      <4> QED BY <4>3, <4>4
    <3>5. r.image = Gray(c)
      BY <1>11, <2>1, <3>1, <3>4
    <3> QED BY <1>2, <2>1, <3>1, <3>5, SpecklesRestore DEF c
  <2> QED BY <1>13, <2>1, <2>2, <2>3 DEF Reconstructs
<1>14. CASE ~NeedBinarization(o)
  BY <1>1, <1>10, <1>11, <1>12, <1>14 DEF Reconstructs
<1> QED BY <1>13, <1>14

\* The image made of a page with pictures, as it is.
LEMMA StraightMixedRight ==
  ASSUME NEW p \in AllPixels, NEW o \in AllOptions, MixedOutput(o), ~OriginalBackground(o),
         NEW z \in FoundType, NEW r, r = StraightMixed(p, o, z)
  PROVE  r \in ImageType /\ MergesBack(p, o, r) /\ Reconstructs(p, o, r)
<1> DEFINE area    == ContentArea(p, o)
           content == Ink(p, o) /\ area
           inZones == BinarizationMask(z.mask, content, z.zones)
           mask    == inZones \/ ~area
           before  == ContentUnderMask(content, inZones)
           c       == Despeckled(before, p)
           mixed   == ContentCombined(p, o, c, mask)
           kept    == IF mask THEN mixed ELSE Reserved(mixed)
           outside == OutsideColor(p, o)
           v == IF NeedBinarization(o) THEN kept ELSE Source(p, o)
           b == Built(p, o, Finished(p, o, v, mask, outside), mask, c)
<1>1. r = IF NeedBinarization(o) THEN WithSpeckles(b, before, p, area) ELSE b
  BY DEF StraightMixed
<1>2. mask \in BOOLEAN /\ before \in BOOLEAN /\ area \in BOOLEAN
  BY MaskIsBoolean, InkIsBoolean DEF ContentUnderMask
<1> HIDE DEF mask, before, area
<1>3. c \in BOOLEAN
  BY <1>2, InkIsBoolean
<1> HIDE DEF c
<1>4. mixed \in Tones
  BY <1>2, <1>3, CombinedTypes
<1> HIDE DEF mixed
<1>5. kept \in Tones /\ (~(IF OriginalBackground(o) THEN c ELSE mask) => kept \in 1..254)
  <2>1. Reserved(mixed) \in 1..254
    BY <1>4, ReservedTypes
  <2> QED BY <1>4, <2>1 DEF Tones
<1>6. v \in Tones /\ outside \in Tones
  BY <1>5, InkIsBoolean, OutsideTypes
<1>7. NeedBinarization(o) => v = kept
  OBVIOUS
<1> HIDE DEF kept, v
<1>8. OriginalBackground(o) => Oriented(outside, o) \in {255, p.paper}
  OBVIOUS
<1> HIDE DEF outside
<1>9. Finished(p, o, v, mask, outside) \in Tones
  BY <1>2, <1>6, FinishedTypes
<1>10. b \in ImageType
  BY <1>2, <1>3, <1>9, BuiltType
<1>11. b.image = Finished(p, o, v, mask, outside) /\ b.text = mask /\ ~b.despeckled
  BY <1>2, <1>3, BuiltHasLayers
<1>12. ASSUME NEW i, i.kind = b.kind, i.image = b.image, i.type = b.type,
              i.fore = b.fore, i.back = b.back
       PROVE  MergesBack(p, o, i)
  BY <1>2, <1>3, <1>5, <1>6, <1>7, <1>8, <1>12, MixedMergesBack
<1> HIDE DEF b
<1>13. CASE NeedBinarization(o)
  <2>1. /\ r \in ImageType
        /\ r.kind = b.kind /\ r.image = b.image /\ r.text = b.text /\ r.type = b.type
        /\ r.fore = b.fore /\ r.back = b.back /\ r.before = before
        /\ r.speckle = (area /\ before /\ p.speck)
    <3>1. r = WithSpeckles(b, before, p, area)
      BY <1>1, <1>13
    <3> QED BY <1>2, <1>10, <3>1, SpecklesAdded
  <2>2. MergesBack(p, o, r)
    BY <1>12, <2>1
  <2>3. ASSUME r.text, ContentArea(p, o), p.fill = NoFill, ~NeedColorSegmentation(o), o.blackOnWhite
        PROVE  ExtractBW(OverlaySpeckles(r.image, r.speckle)) = r.before
    <3>1. mask /\ area = TRUE
      BY <1>2, <1>11, <2>1, <2>3 DEF area
    <3>2. /\ OriginalBackground(o) /\ ~c => v = Reserved(mixed)
          /\ mask /\ (~OriginalBackground(o) \/ c) => v = mixed
      BY <1>7, <1>13 DEF kept
    <3>3. v \in Tones /\ (c => v = 0) /\ (~c => v # 0)
      BY <1>2, <1>3, <2>3, <3>1, <3>2, ContentInText DEF mixed
    <3>4. mask => Finished(p, o, v, mask, outside) = Gray(c)
      <4>1. Framed(p, o, v, outside) = v
        BY <2>3 DEF Framed, Oriented
      <4>2. p.fill = NoFill /\ ~NeedColorSegmentation(o)
        BY <2>3
      <4>3. mask => Finished(p, o, v, mask, outside) = Gray(v < 1)
        BY <1>13, <4>1, <4>2, TextIsContent
      <4>4. Gray(v < 1) = Gray(c)
        BY <1>3, <3>3, ToneOfContent
      <4> QED BY <4>3, <4>4
    <3>5. r.image = Gray(c)
      BY <1>11, <2>1, <3>1, <3>4
    <3> QED BY <1>2, <2>1, <3>1, <3>5, SpecklesRestore DEF c
  <2> QED BY <1>13, <2>1, <2>2, <2>3 DEF Reconstructs
<1>14. CASE ~NeedBinarization(o)
  BY <1>1, <1>10, <1>11, <1>12, <1>14 DEF Reconstructs
<1> QED BY <1>13, <1>14

\* An image without layers in which nothing was despeckled promises nothing.
LEMMA PlainRight ==
  ASSUME NEW p, NEW o, NEW v \in Tones
  PROVE  /\ Plain(v) \in ImageType
         /\ MergesBack(p, o, Plain(v)) /\ Reconstructs(p, o, Plain(v))
<1>1. Plain(v) \in ImageType
  BY DEF Plain, None, ImageType, White
<1>2. Plain(v).kind = "plain" /\ ~Plain(v).despeckled
  BY DEF Plain, None
<1> QED BY <1>1, <1>2 DEF MergesBack, Reconstructs

\* The image made of a page of text alone.
LEMMA BinaryRight ==
  ASSUME NEW p \in AllPixels, NEW o \in AllOptions, BinaryOutput(o),
         NEW before \in BOOLEAN, NEW r, r = BinaryPixel(p, o, before)
  PROVE  r \in ImageType /\ MergesBack(p, o, r) /\ Reconstructs(p, o, r)
<1> DEFINE c == Despeckled(before, p)
           v == IF NeedColorSegmentation(o)
                THEN FilledColor(Oriented(Segmented(c, p), o), p)
                ELSE Gray(FilledBW(c = o.blackOnWhite, p))
<1>1. r = WithSpeckles(Plain(v), before, p, TRUE)
  BY DEF BinaryPixel
<1>2. c \in BOOLEAN
  BY InkIsBoolean
<1> HIDE DEF c
<1>3. v \in Tones
  <2>1. p.hue \in 0..254 /\ p.fill \in Tones \cup {NoFill}
    BY PixelTypes
  <2>2. Segmented(c, p) \in Tones
    BY <2>1 DEF Segmented, White, Tones
  <2>3. Oriented(Segmented(c, p), o) \in Tones
    BY <2>2, OrientedTypes
  <2>4. FilledColor(Oriented(Segmented(c, p), o), p) \in Tones
    BY <2>1, <2>3 DEF FilledColor
  <2>5. Gray(FilledBW(c = o.blackOnWhite, p)) \in Tones
    BY DEF Gray, Black, White, Tones
  <2> QED BY <2>4, <2>5
<1>4. p.fill = NoFill /\ ~NeedColorSegmentation(o) /\ o.blackOnWhite => v = Gray(c)
  BY <1>2 DEF FilledBW, Gray
<1> HIDE DEF v
<1>5. Plain(v) \in ImageType /\ Plain(v).kind = "plain" /\ Plain(v).image = v
  BY <1>3, PlainRight DEF Plain, None
<1>6. /\ r \in ImageType /\ r.kind = "plain" /\ r.image = v /\ r.before = before
      /\ r.speckle = (TRUE /\ before /\ p.speck)
  <2> DEFINE all == TRUE
  <2>1. all \in BOOLEAN /\ r = WithSpeckles(Plain(v), before, p, all)
    BY <1>1
  <2> HIDE DEF all
  <2>2. /\ r \in ImageType
        /\ r.kind = Plain(v).kind /\ r.image = Plain(v).image /\ r.before = before
        /\ r.speckle = (all /\ before /\ p.speck)
    BY <1>5, <2>1, SpecklesAdded
  <2> QED BY <1>5, <2>2 DEF all
<1>7. MergesBack(p, o, r)
  BY <1>6 DEF MergesBack
<1>8. ASSUME p.fill = NoFill, ~NeedColorSegmentation(o), o.blackOnWhite
      PROVE  ExtractBW(OverlaySpeckles(r.image, r.speckle)) = r.before
  <2>1. r.image = Gray(c)
    BY <1>4, <1>6, <1>8
  <2> QED BY <1>6, <2>1, SpecklesRestore DEF c
<1> QED BY <1>6, <1>7, <1>8 DEF Reconstructs

\* Along every path what is made is right: a picture, text alone, both, or nothing.
LEMMA MadeRight ==
  ASSUME NEW p \in AllPixels, NEW o \in AllOptions, NEW z \in FoundType
  PROVE  /\ Made(p, o, z) \in ImageType
         /\ MergesBack(p, o, Made(p, o, z)) /\ Reconstructs(p, o, Made(p, o, z))
<1> DEFINE Right(i) == i \in ImageType /\ MergesBack(p, o, i) /\ Reconstructs(p, o, i)
<1>1. ASSUME NEW v \in Tones PROVE Right(Plain(v))
  BY PlainRight
<1>2. Right(Plain(White))
  <2>1. White \in Tones
    BY DEF White, Tones
  <2> QED BY <1>1, <2>1
<1>3. Right(Plain(p.level))
  BY <1>1, PixelTypes
<1>4. ASSUME NEW outside \in Tones
      PROVE  Right(Plain(Finished(p, o, Source(p, o), FALSE, outside)))
  <2>1. Source(p, o) \in Tones /\ FALSE \in BOOLEAN
    BY InkIsBoolean
  <2>2. Finished(p, o, Source(p, o), FALSE, outside) \in Tones
    BY <2>1, FinishedTypes
  <2> QED BY <1>1, <2>2
<1>5. ASSUME BinaryOutput(o)
      PROVE  Right(StraightBinary(p, o)) /\ Right(DewarpedBinary(p, o))
  <2>1. (Ink(p, o) /\ ContentArea(p, o)) \in BOOLEAN
    BY InkIsBoolean
  <2>2. Right(BinaryPixel(p, o, Ink(p, o) /\ ContentArea(p, o)))
    BY <1>5, <2>1, BinaryRight
  <2> QED BY <2>2 DEF StraightBinary, DewarpedBinary
<1>6. MixedOutput(o) => Right(DewarpedMixed(p, o, z))
  BY DewarpedMixedRight
<1>7. MixedOutput(o) => Right(StraightMixed(p, o, z))
  <2>1. CASE OriginalBackground(o)
    <3>1. StraightMixed(p, o, z) = [None EXCEPT !.kind = "crash"]
      BY <2>1 DEF StraightMixed
    <3>2. None \in ImageType
      BY DEF None, ImageType, White, Tones
    <3>3. [None EXCEPT !.kind = "crash"] \in ImageType
      BY <3>2 DEF ImageType
    <3>4. [None EXCEPT !.kind = "crash"].kind = "crash"
      BY DEF None
    <3> QED BY <3>1, <3>3, <3>4 DEF MergesBack, Reconstructs
  <2>2. CASE ~OriginalBackground(o)
    BY <2>2, StraightMixedRight
  <2> QED BY <2>1, <2>2
<1>8. OutsideColor(p, o) \in Tones /\ OutsideDewarped(p, o) \in Tones
  BY OutsideTypes
<1>9. Right(Plain(Finished(p, o, Source(p, o), FALSE, OutsideColor(p, o))))
  BY <1>4, <1>8
<1>10. Right(Plain(Finished(p, o, Source(p, o), FALSE, OutsideDewarped(p, o))))
  BY <1>4, <1>8
<1> HIDE DEF Right
<1>11. Right(Straight(p, o, z))
  BY <1>3, <1>5, <1>7, <1>9 DEF Straight
<1>12. Right(Dewarped(p, o, z))
  BY <1>5, <1>6, <1>10 DEF Dewarped
<1>13. Right(Made(p, o, z))
  BY <1>2, <1>11, <1>12 DEF Made
<1> QED BY <1>13 DEF Right

-----------------------------------------------------------------------------
(* With dewarping and without.                                             *)

\* Margins are filled alike, unless they are to be black.
LEMMA OutsideAlike ==
  ASSUME NEW p, NEW o \in AllOptions, ~OriginalBackground(o), o.filling # "black"
  PROVE  OutsideColor(p, o) = OutsideDewarped(p, o)
BY DEF OutsideColor, OutsideDewarped, AllOptions

\* Where there is no content, what was made of it is not seen.
LEMMA FinishedAlike ==
  ASSUME NEW p, NEW o \in AllOptions, ~OriginalBackground(o), NEW mask,
         ContentArea(p, o) \/ o.filling # "black", NEW v, NEW w,
         ContentArea(p, o) => v = w
  PROVE  Finished(p, o, v, mask, OutsideColor(p, o)) = Finished(p, o, w, mask, OutsideDewarped(p, o))
<1>1. CASE ContentArea(p, o)
  <2>1. ASSUME NEW u, NEW a, NEW b PROVE Finished(p, o, u, mask, a) = Finished(p, o, u, mask, b)
    BY <1>1 DEF Finished
  <2> QED BY <1>1, <2>1
<1>2. CASE ~ContentArea(p, o)
  <2>1. ASSUME NEW a PROVE Finished(p, o, v, mask, a) = Finished(p, o, w, mask, a)
    BY <1>2 DEF Finished
  <2>2. OutsideColor(p, o) = OutsideDewarped(p, o)
    BY <1>2, OutsideAlike
  <2> QED BY <2>1, <2>2
<1> QED BY <1>1, <1>2

\* Without the original background, content is seen in the text only.
LEMMA ContentAlike ==
  ASSUME NEW p, NEW o, ~OriginalBackground(o), NEW mask, NEW c, NEW d, mask => c = d
  PROVE  ContentCombined(p, o, c, mask) = ContentCombined(p, o, d, mask)
<1>1. CASE mask
  BY <1>1
<1>2. CASE ~mask
  BY <1>2 DEF ContentCombined, CombinedColor, Combined
<1> QED BY <1>1, <1>2

\* Without the original background, content makes no layer.
LEMMA BuiltAlike ==
  ASSUME NEW p, NEW o, ~OriginalBackground(o), NEW v, NEW mask, NEW c, NEW d
  PROVE  Built(p, o, v, mask, c) = Built(p, o, v, mask, d)
BY DEF Built

\* The same pixel, in the same layers.
Alike(i, j) ==
  /\ i.kind = j.kind /\ i.image = j.image
  /\ i.kind = "layers" => i.fore = j.fore /\ i.type = j.type

\* Pages with pictures are made alike.
LEMMA MixedAlike ==
  ASSUME NEW p \in AllPixels, NEW o \in AllOptions, MixedOutput(o), ~OriginalBackground(o),
         NEW z \in FoundType, ContentArea(p, o) \/ o.filling # "black"
  PROVE  Alike(StraightMixed(p, o, z), DewarpedMixed(p, o, z))
<1> DEFINE area    == ContentArea(p, o)
           content == Ink(p, o) /\ area
           inZones == BinarizationMask(z.mask, content, z.zones)
           mask    == inZones \/ ~area
           S       == ContentUnderMask(content, inZones)
           D       == Ink(p, o) /\ mask /\ area
           c       == Despeckled(S, p)
           d       == Despeckled(D, p)
           mixedS  == ContentCombined(p, o, c, mask)
           mixedD  == ContentCombined(p, o, d, mask)
           keptS   == IF mask THEN mixedS ELSE Reserved(mixedS)
           keptD   == IF mask THEN mixedD ELSE Reserved(mixedD)
           v       == IF NeedBinarization(o) THEN keptS ELSE Source(p, o)
           w       == IF NeedBinarization(o) THEN keptD ELSE Source(p, o)
           b       == Built(p, o, Finished(p, o, v, mask, OutsideColor(p, o)), mask, c)
           e       == Built(p, o, Finished(p, o, w, mask, OutsideDewarped(p, o)), mask, d)
<1>1. /\ StraightMixed(p, o, z) = IF NeedBinarization(o) THEN WithSpeckles(b, S, p, area) ELSE b
      /\ DewarpedMixed(p, o, z) = IF NeedBinarization(o) THEN WithSpeckles(e, D, p, area) ELSE e
  BY DEF StraightMixed, DewarpedMixed, DewarpedMask
<1>2. inZones \in BOOLEAN /\ area \in BOOLEAN /\ Ink(p, o) \in BOOLEAN
  BY MaskIsBoolean, InkIsBoolean
<1>3. mask \in BOOLEAN /\ S \in BOOLEAN /\ D \in BOOLEAN
  BY <1>2 DEF ContentUnderMask
<1>4. area /\ mask => S = D
  <2> HIDE DEF inZones, area
  <2>1. S = ((Ink(p, o) /\ area) = inZones)
    BY DEF ContentUnderMask
  <2> QED BY <1>2, <2>1
<1>5. c \in BOOLEAN /\ d \in BOOLEAN
  BY <1>3, InkIsBoolean
<1>6. area /\ mask => c = d
  BY <1>4
<1> HIDE DEF mask, S, D, c, d
<1>7. mixedS \in Tones
  BY <1>3, <1>5, CombinedTypes
<1>8. area => mixedS = mixedD
  BY <1>6, ContentAlike
<1> HIDE DEF mixedS, mixedD
<1>9. area => v = w
  BY <1>8
<1>10. v \in Tones
  <2>1. Reserved(mixedS) \in 1..254
    BY <1>7, ReservedTypes
  <2>2. Reserved(mixedS) \in Tones /\ Source(p, o) \in Tones
    BY <2>1, InkIsBoolean DEF Tones
  <2> QED BY <1>7, <2>2
<1> HIDE DEF v, w
<1>11. Finished(p, o, v, mask, OutsideColor(p, o)) = Finished(p, o, w, mask, OutsideDewarped(p, o))
  BY <1>9, FinishedAlike
<1>12. b = e
  BY <1>11, BuiltAlike
<1>13. b \in ImageType
  <2>1. Finished(p, o, v, mask, OutsideColor(p, o)) \in Tones
    BY <1>3, <1>10, FinishedTypes, OutsideTypes
  <2> QED BY <1>3, <1>5, <2>1, BuiltType
<1> HIDE DEF b, e, area
<1>14. ASSUME NEW before \in BOOLEAN, NEW r, r = WithSpeckles(b, before, p, area)
       PROVE  r.kind = b.kind /\ r.image = b.image /\ r.type = b.type /\ r.fore = b.fore
  <2>1. area \in BOOLEAN
    BY <1>2
  <2> QED BY <1>13, <1>14, <2>1, SpecklesAdded
<1>15. CASE NeedBinarization(o)
  <2>1. StraightMixed(p, o, z) = WithSpeckles(b, S, p, area)
    BY <1>1, <1>15
  <2>2. DewarpedMixed(p, o, z) = WithSpeckles(b, D, p, area)
    BY <1>1, <1>12, <1>15
  <2> QED BY <1>3, <1>14, <2>1, <2>2 DEF Alike
<1>16. CASE ~NeedBinarization(o)
  BY <1>1, <1>12, <1>16 DEF Alike
<1> QED BY <1>15, <1>16

\* All pages are, but for those that are taken as they are.
LEMMA PathsAlike ==
  ASSUME NEW p \in AllPixels, NEW o \in AllOptions, NEW z \in FoundType,
         ~OriginalBackground(o), ~CanUseSource(p, o),
         ContentArea(p, o) \/ o.filling # "black"
  PROVE  Alike(Straight(p, o, z), Dewarped(p, o, z))
<1>1. CASE BinaryOutput(o)
  <2>1. Straight(p, o, z) = Dewarped(p, o, z)
    BY <1>1 DEF Straight, Dewarped, StraightBinary, DewarpedBinary
  <2> QED BY <2>1 DEF Alike
<1>2. CASE ~BinaryOutput(o) /\ MixedOutput(o)
  <2>1. Straight(p, o, z) = StraightMixed(p, o, z) /\ Dewarped(p, o, z) = DewarpedMixed(p, o, z)
    BY <1>2 DEF Straight, Dewarped
  <2> QED BY <1>2, <2>1, MixedAlike
<1>3. CASE ~BinaryOutput(o) /\ ~MixedOutput(o)
  <2>1. /\ Straight(p, o, z) = Plain(Finished(p, o, Source(p, o), FALSE, OutsideColor(p, o)))
        /\ Dewarped(p, o, z) = Plain(Finished(p, o, Source(p, o), FALSE, OutsideDewarped(p, o)))
    BY <1>3 DEF Straight, Dewarped
  <2>2. Finished(p, o, Source(p, o), FALSE, OutsideColor(p, o))
          = Finished(p, o, Source(p, o), FALSE, OutsideDewarped(p, o))
    BY FinishedAlike
  <2> QED BY <2>1, <2>2 DEF Alike
<1> QED BY <1>1, <1>2, <1>3

-----------------------------------------------------------------------------
(* The state: what is remembered of the page that was processed last.      *)

\* Pictures that were found are those of the page, and rectangles are not looked for
\* again.
Remembered ==
  out.kind \notin {"none", "crash"} /\ MixedOutput(opts) /\ ContentArea(page, opts) =>
    /\ autoFound = (opts.shape = "rect")
    /\ out.automask = (opts.shape = "free" => ~page.picture)

\* Only rectangles are kept as zones.
OnlyRectangles == opts.shape # "rect" => \A z \in zones : ~z.auto

\* The inductive invariant: the last image keeps what is promised of images, and the
\* zones agree with the mask it was made with.
PixelInv ==
  /\ page \in AllPixels /\ opts \in AllOptions /\ zones \subseteq Zones /\ autoFound \in BOOLEAN
  /\ out \in ImageType
  /\ MergesBack(page, opts, out) /\ Reconstructs(page, opts, out)
  /\ Remembered /\ OnlyRectangles

\* The pictures and zones a page is processed with.
LEMMA FoundTypes ==
  ASSUME NEW p \in AllPixels, NEW o \in AllOptions, NEW zs \in SUBSET Zones, NEW found \in BOOLEAN,
         NEW z, z = ProcessPictureZones(p, o, zs, found)
  PROVE  /\ z \in FoundType
         /\ z.found = (o.shape = "rect")
         /\ z.mask = (o.shape = "free" => ~p.picture)
         /\ o.shape # "rect" => z.zones = {y \in zs : ~y.auto}
<1> DEFINE anew == o.shape # "rect" \/ ~found
           kept == IF anew THEN {y \in zs : ~y.auto} ELSE zs
           mask == IF anew /\ o.shape = "free" THEN ~p.picture ELSE TRUE
           new  == IF anew /\ o.shape = "rect" /\ p.framed
                   THEN kept \cup {[layer |-> "PAINTER2", auto |-> TRUE]} ELSE kept
<1>1. z = [mask |-> mask, zones |-> new, found |-> o.shape = "rect"]
  BY DEF ProcessPictureZones
<1>2. mask \in BOOLEAN /\ mask = (o.shape = "free" => ~p.picture)
  BY PixelTypes
<1>3. new \subseteq Zones
  <2>1. [layer |-> "PAINTER2", auto |-> TRUE] \in Zones
    BY DEF Zones, Layers
  <2> QED BY <2>1
<1>4. o.shape # "rect" => new = {y \in zs : ~y.auto}
  OBVIOUS
<1>5. (o.shape = "rect") \in BOOLEAN
  OBVIOUS
<1> HIDE DEF anew, kept, mask, new
<1>6. z.mask = mask /\ z.zones = new /\ z.found = (o.shape = "rect")
  BY <1>1
<1>7. z \in FoundType
  BY <1>1, <1>2, <1>3, <1>5 DEF FoundType
<1> QED BY <1>2, <1>4, <1>6, <1>7

\* The mask kept for the editor changes nothing else of an image.
LEMMA MaskKept ==
  ASSUME NEW p, NEW o, NEW i \in ImageType, NEW m \in BOOLEAN,
         MergesBack(p, o, i), Reconstructs(p, o, i),
         NEW r, r = [i EXCEPT !.automask = m]
  PROVE  /\ r \in ImageType /\ r.kind = i.kind /\ r.automask = m
         /\ MergesBack(p, o, r) /\ Reconstructs(p, o, r)
<1>1. r \in ImageType
  BY DEF ImageType
<1>2. /\ r.kind = i.kind /\ r.image = i.image /\ r.text = i.text /\ r.type = i.type
      /\ r.fore = i.fore /\ r.back = i.back /\ r.before = i.before /\ r.speckle = i.speckle
      /\ r.despeckled = i.despeckled /\ r.automask = m
  BY DEF ImageType
<1>3. Reread(r, o) = Reread(i, o)
  BY <1>2 DEF Reread, ForegroundImage, BackgroundImage, OriginalBackgroundImage, BehindForeground
<1>4. MergesBack(p, o, r)
  BY <1>2, <1>3 DEF MergesBack
<1>5. Reconstructs(p, o, r)
  BY <1>2 DEF Reconstructs
<1> QED BY <1>1, <1>2, <1>4, <1>5

\* Nothing was made at first.
LEMMA PixelInvInit == Init => PixelInv
<1> SUFFICES ASSUME Init PROVE PixelInv
  OBVIOUS
<1>1. page \in AllPixels /\ opts \in AllOptions
  <2>1. PICK case \in Cases : page = case.page /\ opts = case.opts
    BY DEF Init
  <2>2. case \in [page : AllPixels, opts : AllOptions]
    BY PixelAssumption
  <2> QED BY <2>1, <2>2
<1>2. zones \subseteq Zones /\ autoFound \in BOOLEAN /\ OnlyRectangles
  BY DEF Init, OnlyRectangles
<1>3. out = None /\ out.kind = "none"
  BY DEF Init, None
<1>4. out \in ImageType
  BY <1>3 DEF None, ImageType, White, Tones
<1>5. MergesBack(page, opts, out) /\ Reconstructs(page, opts, out) /\ Remembered
  BY <1>3 DEF MergesBack, Reconstructs, Remembered
<1> QED BY <1>1, <1>2, <1>4, <1>5 DEF PixelInv

\* Drawing and deleting zones leaves the image alone.
LEMMA EditZonesKeeps ==
  ASSUME PixelInv, EditZones
  PROVE  PixelInv'
<1>1. /\ page' = page /\ opts' = opts /\ autoFound' = autoFound /\ out' = out
      /\ \E z \in {y \in Zones : ~y.auto} \cup zones :
           zones' = IF z \in zones THEN zones \ {z} ELSE zones \cup {z}
  BY DEF EditZones
<1>2. zones' \subseteq Zones /\ OnlyRectangles'
  BY <1>1 DEF PixelInv, OnlyRectangles
<1>3. Remembered'
  BY <1>1 DEF PixelInv, Remembered
<1>4. MergesBack(page, opts, out)' /\ Reconstructs(page, opts, out)'
  BY <1>1 DEF PixelInv, MergesBack, Reconstructs
<1> QED BY <1>1, <1>2, <1>3, <1>4 DEF PixelInv

\* What is made is right, and remembered.
LEMMA ProcessKeeps ==
  ASSUME PixelInv, Process
  PROVE  PixelInv'
<1> DEFINE z == ProcessPictureZones(page, opts, zones, autoFound)
           mixed == MixedOutput(opts) /\ ~IsBlank(page, opts)
           i == Made(page, opts, z)
           m == IF mixed /\ ContentArea(page, opts) THEN z.mask ELSE TRUE
<1>1. /\ page \in AllPixels /\ opts \in AllOptions /\ zones \in SUBSET Zones
      /\ autoFound \in BOOLEAN
  BY DEF PixelInv
<1>2. /\ z \in FoundType
      /\ z.found = (opts.shape = "rect")
      /\ z.mask = (opts.shape = "free" => ~page.picture)
      /\ opts.shape # "rect" => z.zones = {y \in zones : ~y.auto}
  BY <1>1, FoundTypes
<1>3. /\ page' = page /\ opts' = opts
      /\ out' = [i EXCEPT !.automask = m]
      /\ zones' = IF mixed THEN z.zones ELSE zones
      /\ autoFound' = IF mixed THEN z.found ELSE autoFound
  BY DEF Process
<1> HIDE DEF z, i
<1>4. i \in ImageType /\ MergesBack(page, opts, i) /\ Reconstructs(page, opts, i)
  BY <1>1, <1>2, MadeRight DEF i
<1>5. z.mask \in BOOLEAN /\ z.zones \subseteq Zones /\ z.found \in BOOLEAN
  BY <1>2 DEF FoundType
<1>6. m \in BOOLEAN
  BY <1>5
<1>7. ContentArea(page, opts) => ~IsBlank(page, opts)
  BY DEF ContentArea, IsBlank
<1>8. MixedOutput(opts) /\ ContentArea(page, opts) => mixed /\ m = z.mask
  BY <1>7
<1> HIDE DEF m
<1>9. /\ out' \in ImageType /\ out'.kind = i.kind /\ out'.automask = m
      /\ MergesBack(page, opts, out') /\ Reconstructs(page, opts, out')
  BY <1>3, <1>4, <1>6, MaskKept
<1>10. MergesBack(page, opts, out)' /\ Reconstructs(page, opts, out)'
  BY <1>3, <1>9 DEF MergesBack, Reconstructs
<1>11. zones' \subseteq Zones /\ autoFound' \in BOOLEAN
  BY <1>1, <1>3, <1>5
<1>12. OnlyRectangles'
  BY <1>2, <1>3 DEF PixelInv, OnlyRectangles
<1> HIDE DEF mixed
<1>13. Remembered'
  <2> SUFFICES ASSUME MixedOutput(opts), ContentArea(page, opts)
               PROVE  /\ autoFound' = (opts.shape = "rect")
                      /\ out'.automask = (opts.shape = "free" => ~page.picture)
    BY <1>3 DEF Remembered
  <2> QED BY <1>2, <1>3, <1>8, <1>9
<1> QED BY <1>1, <1>3, <1>9, <1>10, <1>11, <1>12, <1>13 DEF PixelInv

\* The invariant holds throughout.
THEOREM PixelsKept == Spec => []PixelInv
<1>1. PixelInv /\ [Next]_vars => PixelInv'
  <2> SUFFICES ASSUME PixelInv, [Next]_vars PROVE PixelInv'
    OBVIOUS
  <2>1. CASE EditZones
    BY <2>1, EditZonesKeeps
  <2>2. CASE Process
    BY <2>2, ProcessKeeps
  <2>3. CASE UNCHANGED vars
    <3>1. page' = page /\ opts' = opts /\ zones' = zones /\ autoFound' = autoFound /\ out' = out
      BY <2>3 DEF vars
    <3> QED BY <3>1 DEF PixelInv, Remembered, OnlyRectangles, MergesBack, Reconstructs
  <2> QED BY <2>1, <2>2, <2>3 DEF Next
<1> QED BY <1>1, PixelInvInit, PTL DEF Spec

-----------------------------------------------------------------------------
(* Theorems.                                                               *)

\* Merging the layers of a split output gives the image that was written whole,
\* and the masks where no fill zone painted them over (what
\* OutputImageWithForegroundMask and OutputImageWithOriginalBackgroundMask take apart
\* and put together).
THEOREM LayersAlwaysMergeBack == Spec => []LayersMergeBack
<1>1. PixelInv => LayersMergeBack
  <2> SUFFICES ASSUME PixelInv, out.kind = "layers" PROVE LayersMergeBack
    BY DEF LayersMergeBack
  <2>1. MergesBack(page, opts, out)
    BY DEF PixelInv
  <2>2. page.place = "content" => ContentArea(page, opts)
    BY DEF ContentArea
  <2>3. ~MarginTakenForMask => \/ ~OriginalBackground(opts) \/ ContentArea(page, opts)
                               \/ page.paper # Black \/ page.fill # NoFill
    BY DEF MarginTakenForMask
  <2> QED BY <2>1, <2>2, <2>3 DEF MergesBack, LayersMergeBack
<1> QED BY <1>1, PixelsKept, PTL

\* What despeckling began with is reconstructed from the final image and the
\* speckles, wherever the output keeps it (OutputGenerator, DespeckleState).
THEOREM DespeckleInputReconstructed == Spec => []DespeckleInput
<1>1. PixelInv => DespeckleInput
  BY DEF PixelInv, Reconstructs, DespeckleInput
<1> QED BY <1>1, PixelsKept, PTL

\* Passes over the mask of pictures and what the editor paints, compared.
LEMMA MasksCompared ==
  ASSUME NEW m \in BOOLEAN, NEW c \in BOOLEAN, NEW zs
  PROVE  /\ ~BinarizationMask(m, c, zs) => PictureShown(m, zs)
         /\ ~Has(zs, "FG") /\ ~Has(zs, "BG") => BinarizationMask(m, c, zs) = ~PictureShown(m, zs)
<1>1. /\ Has(zs, "FG") \in BOOLEAN /\ Has(zs, "BG") \in BOOLEAN /\ Has(zs, "ERASER1") \in BOOLEAN
      /\ Has(zs, "ERASER3") \in BOOLEAN /\ Has(zs, "PAINTER2") \in BOOLEAN
  BY DEF Has
<1>2. CASE c
  BY <1>1, <1>2, Zenon DEF BinarizationMask, PictureShown
<1>3. CASE ~c
  BY <1>1, <1>3, Zenon DEF BinarizationMask, PictureShown
<1> QED BY <1>2, <1>3

\* The editor shows no less than what becomes a picture next time, and exactly that
\* where zones do not tell text from its background (PictureZoneEditor).
THEOREM EditorAlwaysShowsPictures == Spec => []EditorShowsPictures
<1>1. PixelInv => EditorShowsPictures
  <2> SUFFICES ASSUME PixelInv, out.kind \notin {"none", "crash"}, MixedOutput(opts),
                      ContentArea(page, opts)
               PROVE  EditorShowsPictures
    BY DEF EditorShowsPictures
  <2> DEFINE z == ProcessPictureZones(page, opts, zones, autoFound)
             content == Ink(page, opts) /\ ContentArea(page, opts)
  <2>1. /\ autoFound = (opts.shape = "rect")
        /\ out.automask = (opts.shape = "free" => ~page.picture)
    BY DEF PixelInv, Remembered
  <2>2. /\ page \in AllPixels /\ opts \in AllOptions /\ zones \in SUBSET Zones
        /\ autoFound \in BOOLEAN
    BY DEF PixelInv
  <2>3. /\ z \in FoundType
        /\ z.found = (opts.shape = "rect")
        /\ z.mask = (opts.shape = "free" => ~page.picture)
        /\ opts.shape # "rect" => z.zones = {y \in zones : ~y.auto}
    BY <2>2, FoundTypes
  <2>4. z.zones = zones
    <3>1. CASE opts.shape = "rect"
      BY <2>1, <3>1 DEF ProcessPictureZones
    <3>2. CASE opts.shape # "rect"
      BY <2>3, <3>2 DEF PixelInv, OnlyRectangles
    <3> QED BY <3>1, <3>2
  <2>5. z.mask = out.automask /\ out.automask \in BOOLEAN
    BY <2>1, <2>3 DEF FoundType
  <2>6. content \in BOOLEAN
    BY <2>2, InkIsBoolean
  <2> HIDE DEF z
  <2>7. DewarpedMask(page, opts, z) = BinarizationMask(out.automask, content, zones)
    BY <2>4, <2>5, MaskIsBoolean DEF DewarpedMask
  <2> HIDE DEF content
  <2>8. /\ ~BinarizationMask(out.automask, content, zones) => PictureShown(out.automask, zones)
        /\ ~Has(zones, "FG") /\ ~Has(zones, "BG") =>
             BinarizationMask(out.automask, content, zones) = ~PictureShown(out.automask, zones)
    BY <2>5, <2>6, MasksCompared
  <2> QED BY <2>7, <2>8 DEF EditorShowsPictures, z
<1> QED BY <1>1, PixelsKept, PTL

\* Dewarping that moves nothing changes nothing: both paths of OutputGenerator make
\* the same pixel in the same layers.
THEOREM PathsAlwaysAgree == Spec => []PathsAgree
<1>1. PixelInv => PathsAgree
  <2> DEFINE z == ProcessPictureZones(page, opts, zones, autoFound)
  <2> SUFFICES ASSUME PixelInv, ~OriginalBackground(opts), ~CanUseSource(page, opts),
                      ContentArea(page, opts) \/ opts.filling # "black"
               PROVE  Alike(Straight(page, opts, z), Dewarped(page, opts, z))
    BY DEF PathsAgree, Alike
  <2>1. z \in FoundType
    BY FoundTypes DEF PixelInv
  <2> QED BY <2>1, PathsAlike DEF PixelInv
<1> QED BY <1>1, PixelsKept, PTL
=============================================================================
