CONSTANTS
  p1 = p1
  p2 = p2
  NoPage = NoPage
  Pages <- TwoPages
  Boxes = {0, 2}
  FoundBox <- Blank1
  PageWidth <- OwnWidths
  Margins = {1, 3}
  DefaultMargins = 3
  MaxEvents = 4
  MaxTasks = 1
SPECIFICATION Spec
CHECK_DEADLOCK FALSE
INVARIANTS
  AggregateIsLargest
  ThumbsShowAggregate
  DefinedIsCurrent
