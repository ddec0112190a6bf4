CONSTANTS
  p1 = p1
  p2 = p2
  p3 = p3
  NoPage = NoPage
  Pages <- ThreePages
  PageOrder <- InOrder
  Stages = {1, 2}
  MaxThreads = 2
  MaxUserActions = 2
  MaxProjects = 2
SPECIFICATION FairSpec
INVARIANTS
  OnlyCurrentWork
  ShownIsSelected
  BatchConserved
PROPERTIES
  BatchEnds
  PageShown
  ImplementsLifecycle
