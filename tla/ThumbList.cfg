CONSTANTS
  Images <- TwoImages
  NewImage = "n"
  Keys = {1, 2}
  Saved <- NewOrProcessed
  MaxEvents = 4
  None = "none"
SPECIFICATION Spec
CHECK_DEADLOCK FALSE
INVARIANTS
  SelectionSound
  SortedUnlessOvertaken
PROPERTY
  SelectionKept
