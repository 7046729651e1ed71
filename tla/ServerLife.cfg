\* A main process and two sessions that log one message each, in two pieces,
\* through a pipe that has room for one.
CONSTANTS
  Main = Main
  Sessions = {s1, s2}
  PipeSize = 1
  BatchSize = 1
  MaxSays = 1
SPECIFICATION FairSpec
INVARIANTS
  LinesWhole
  ReportedKept
  SetOutlivesServer
PROPERTIES
  ServerEnds
CHECK_DEADLOCK FALSE
