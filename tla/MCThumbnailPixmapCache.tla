------------------------ MODULE MCThumbnailPixmapCache ------------------------
(* Instances of the thumbnail cache for TLC. *)
EXTENDS ThumbnailPixmapCache

CONSTANTS a, b, c, t1, t2, t3, w1

\* Three images on a thumbnail each, the third not yet produced.
ThreeImages == {a, b, c}
ThreeThumbs == {t1, t2, t3}
OwnImage    == t1 :> a @@ t2 :> b @@ t3 :> c

\* Two images, the first shown by two thumbnails: the two halves of a spread
\* are pages of one image.
TwoImages   == {a, c}
SharedImage == t1 :> a @@ t2 :> a @@ t3 :> c
===============================================================================
