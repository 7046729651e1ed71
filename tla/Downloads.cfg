\* Two searches; an array of three slots, of which two are used; a file of
\* up to three bytes; an int of three bits.
CONSTANTS
  s1 = s1
  s2 = s2
  Searches = {s1, s2}
  Plans <- SomePlans
  Cap = 3
  Half = 4
  MaxBytes = 3
  Room = 2
  Stops = {"INT"}
  Nr = 0
  Sizes <- SomeSizes
SPECIFICATION FairSpec
INVARIANTS
  FoundAsSent
  ListsEntries
  AloneIsSafe
  DownloadIsThatFile
  FileIsWhole
PROPERTIES
  CopyEnds
CHECK_DEADLOCK FALSE
