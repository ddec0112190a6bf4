CONSTANTS
  MCLevels = {0, 100, 255}
  MCHues = {0, 100}
  MCPapers = {0, 200, 255}
  MCFills = {0, 255}
  NoFill = NoFill
  Cases <- MCCases
  MaxEdits = 2
SPECIFICATION Spec
CHECK_DEADLOCK FALSE
INVARIANTS
  LayersMergeBack
  DespeckleInput
  EditorShowsPictures
  PathsAgree
