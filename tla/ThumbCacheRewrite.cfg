CONSTANTS
  a = a
  b = b
  c = c
  t1 = t1
  t2 = t2
  t3 = t3
  w1 = w1
  None = None
  Images <- TwoImages
  Thumbs <- ThreeThumbs
  ImageOf <- SharedImage
  Outputs = {a, c}
  Unproduced = {c}
  Unwritable = {a}
  Workers = {w1}
  MaxCachedPixmaps = 2
  ExpirationThreshold = 1
  MaxVersion = 2
  MaxUserActions = 1
SPECIFICATION ApiSpec
INVARIANTS
  IteratorsValid
  HandlersKept
  StaleOnlyByAcceptedRace
