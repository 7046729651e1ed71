\* The smallest instance with the bounds of the others.
CONSTANTS
  Replies <- AllReplies
  Inputs <- AllInputs
  Cut = TRUE
  MaxReplies = 2
  MaxInputs = 2
  MaxUploads = 0
SPECIFICATION Spec
INVARIANTS
  OneStreamPerLine
CHECK_DEADLOCK FALSE
