\* A reply that arrives in one piece or two, and two lines of the user, in
\* every order, another client that connects, and ends that close.
CONSTANTS
  Replies <- AllReplies
  Inputs <- AllInputs
  Cut = TRUE
  MaxReplies = 1
  MaxInputs = 2
  MaxUploads = 1
SPECIFICATION FairSpec
INVARIANTS
  TypedOnce
  WhyItEnds
PROPERTIES
  ClientEnds
CHECK_DEADLOCK FALSE
