CONSTANTS
  p1 = p1
  p2 = p2
  p3 = p3
  p4 = p4
  NoPage = NoPage
  Pages <- FourPages
  MaxTasks = 4
SYMMETRY Symmetry
SPECIFICATION BatchSpec
INVARIANTS
  TakenFirst
  NoOrphans
  SelectionFollows
  EndsAtLastPage
PROPERTY
  ImplementsLifecycle
