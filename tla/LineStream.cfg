\* Every stream of up to six bytes, cut in every way; four bytes fit into
\* the buffer and the token has room for two, so that lines fit into both,
\* into the buffer only, or into neither.
CONSTANTS
  CR = CR
  LF = LF
  Letters = {a, b}
  BufMax = 5
  TokenMax = 2
  MaxStream = 6
SPECIFICATION StreamSpec
INVARIANTS
  StreamTypeOK
  LinesAsSent
  EndsRight
CHECK_DEADLOCK FALSE
