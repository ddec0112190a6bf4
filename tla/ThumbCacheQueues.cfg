CONSTANTS
  a = a
  b = b
  c = c
  t1 = t1
  t2 = t2
  t3 = t3
  w1 = w1
  None = None
  Images <- ThreeImages
  Thumbs <- ThreeThumbs
  ImageOf <- OwnImage
  Outputs = {c}
  Unproduced = {c}
  Unwritable = {}
  Workers = {}
  MaxCachedPixmaps = 1
  ExpirationThreshold = 1
  MaxVersion = 1
  MaxUserActions = 2
SPECIFICATION Spec
INVARIANTS
  TypeOK
  QueuedFirst
  MarkerSeparates
  CountersExact
  CapacityRespected
  NoLostWakeUp
