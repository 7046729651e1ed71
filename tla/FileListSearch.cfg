\* Two workers with one file each and a search that runs between their steps,
\* under the fairness of the scheduler.
CONSTANTS
  w1 = w1
  w2 = w2
  r1 = r1
  Writers = {w1, w2}
  Readers = {r1}
  Pattern <- MCPattern
  Files = 1
  MemSize = 5
  ItemSize = 2
  Blank = Blank
  Torn = Torn
SPECIFICATION FairSpec
INVARIANTS
  PublishedWhole
  SearchAnswer
PROPERTIES
  ImplementsAppendLog
  AllEnd
CHECK_DEADLOCK FALSE
