CONSTANTS
  a = a
  b = b
  NoImage = NoImage
  Images <- TwoImages
  Rotations <- UprightTurn
  Detected <- Spreads
  Advised <- BySize
  LastStage = 4
  MaxUserActions = 3
  MaxTasks = 1
SPECIFICATION FairSpec
CHECK_DEADLOCK FALSE
INVARIANTS
  NoConflictStored
  HalvesSound
  ShownIsStored
PROPERTY
  NoDeadLoop
