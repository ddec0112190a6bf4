CONSTANTS
  Whole = Whole
  Half = Half
  NoPage = NoPage
  Choices <- AFewChoices
  Inverted <- OnlyWhole
  Blank <- OnlyHalf
  MaxEvents = 2
  MaxTasks = 1
SPECIFICATION Spec
CHECK_DEADLOCK FALSE
INVARIANTS
  UpToDateIsTrue
  ChoicesKept
PROPERTY
  ProcessedOnce
