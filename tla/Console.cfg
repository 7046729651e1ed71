\* Three keys, a line of the server, one child; either pipe holds one item.
CONSTANTS
  Main = Main
  k1 = k1
  Kids = {k1}
  Presses <- SomePresses
  MaxPresses = 3
  MaxReplies = 1
  MaxKidSays = 1
  PipeRoom = 1
  LineRoom = 1
  EscMax = 4
SPECIFICATION FairSpec
INVARIANTS
  TypedLinesArrive
  MessagesShown
  TerminalReset
PROPERTIES
  MessageEnds
  ClientLeaves
CHECK_DEADLOCK FALSE
