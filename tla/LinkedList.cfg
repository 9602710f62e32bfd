CONSTANTS
  l1 = l1
  l2 = l2
  x1 = x1
  x2 = x2
  x3 = x3
  Lists = {l1, l2}
  Items = {x1, x2, x3}
SPECIFICATION FairSpec
INVARIANTS WellLinked LoopCoversAll
PROPERTIES ImplementsSequences LoopStaysInList LoopEnds
