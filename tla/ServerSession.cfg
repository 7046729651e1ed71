\* Every conversation of two lines, cut anywhere by read, with a worker for
\* each of them, a client that hangs up or resets the connection at any time,
\* signals and killed processes.
CONSTANTS
  Words = {Blank, w}
  Blank = Blank
  None = None
  Ports = {p}
  Ephemeral = Ephemeral
  Commands <- EveryCommand
  MaxSent = 2
  MaxWorkers = 2
SPECIFICATION FairSpec
INVARIANTS
  InOrder
  EndsForCause
  AnsweredInOrder
  InheritsReadAhead
PROPERTIES
  SessionEnds
  LinesTaken
CHECK_DEADLOCK FALSE
