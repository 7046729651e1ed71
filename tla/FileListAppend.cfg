\* Two workers with two files each and room for three items, no search.
CONSTANTS
  w1 = w1
  w2 = w2
  r1 = r1
  Writers = {w1, w2}
  Readers = {}
  Pattern <- MCPattern
  Files = 2
  MemSize = 7
  ItemSize = 2
  Blank = Blank
  Torn = Torn
SPECIFICATION Spec
INVARIANTS
  MutualExclusion
  WithinSegment
  NothingLost
PROPERTY AppendOnly
CHECK_DEADLOCK FALSE
