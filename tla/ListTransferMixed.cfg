\* Every share of up to three items (files with ordinary and number-like
\* names, sizes inside and outside an int, directories, unreadable entries),
\* a sender that is killed and a connection that breaks anywhere.
CONSTANTS
  a = a
  Search = Search
  NoText = NoText
  Names <- MCNames
  FileSizes <- MCFileSizes
  Half = 2
  Commands <- MCCommands
  Shares <- MCShares
  OpenDirs = 2
  Inherited <- OneCommand
SPECIFICATION Spec
INVARIANTS
  ListsFilesOnly
CHECK_DEADLOCK FALSE
