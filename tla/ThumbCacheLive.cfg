CONSTANTS
  a = a
  b = b
  c = c
  t1 = t1
  t2 = t2
  t3 = t3
  w1 = w1
  None = None
  Images <- ThreeImages
  Thumbs <- ThreeThumbs
  ImageOf <- OwnImage
  Outputs = {a, b, c}
  Unproduced = {c}
  Unwritable = {}
  Workers = {}
  MaxCachedPixmaps = 2
  ExpirationThreshold = 1
  MaxVersion = 1
  MaxUserActions = 1
SPECIFICATION FairSpec
PROPERTIES
  RequestsAnswered
  ThumbsSettle
  ShutdownCompletes
