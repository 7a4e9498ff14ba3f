SPECIFICATION StoreSpec
CONSTANTS
  Conns = {c1, c2}
  d1 = d1
  d2 = d2
  d3 = d3
  d4 = d4
  d5 = d5
  Dbs <- MCDbs
  Pairs <- MCPairs
  Size <- MCSize
  MaxFile = 1
  MaxStore = 4
  MaxUploads = 2
  NoPair = NoPair
SYMMETRY MCSymmetry
INVARIANTS
  StoreBounded
  PlacesHeld
  RunsOnItsPair
  OwnPairIsThere
