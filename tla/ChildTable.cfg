\* Up to thirteen children, an initial size that is no multiple of an item:
\* the table grows twice, in place or not, or not at all.
CONSTANTS
  ItemSize = 4
  InitSize = 6
  Children = {c, d}
  MaxAdds = 13
SPECIFICATION TableSpec
INVARIANTS
  WithinBlock
PROPERTIES
  TableGrows
CHECK_DEADLOCK FALSE
