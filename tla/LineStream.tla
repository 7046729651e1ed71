----------------------------- MODULE LineStream -----------------------------
(***************************************************************************)
(* A byte stream cut into lines.  A session reads what poll announced into *)
(* combuf and then takes every line out of it (processIncomingData); a     *)
(* worker takes a line if there is one and reads otherwise                 *)
(* (getTokenFromStream).  Both are the same loop, entered at "read" by the *)
(* one and at "search" by the other, and both see the stream in whatever   *)
(* pieces read returns.                                                    *)
(***************************************************************************)
EXTENDS Tokenizer, FiniteSets

CONSTANTS
  Letters,      \* any other character
  BufMax,       \* bufmax of combuf: readToBuf keeps one byte for a NUL
  MaxStream     \* bound: how many bytes the peer sends

Streams == UNION {[1..n -> Letters \cup {CR, LF}] : n \in 0..MaxStream}

ASSUME LineStreamAssumption ==
  /\ BufMax \in Nat \ {0, 1}
  /\ TokenMax \in Nat
  /\ MaxStream \in Nat
  /\ CR # LF /\ CR \notin Letters /\ LF \notin Letters

VARIABLES
  sent,         \* what the peer sends before it closes (read by no action)
  unread,       \* what of it has not been read
  buf,          \* the content of combuf
  lines,        \* the lines handed to processCommand or recvFileList
  pc,           \* "read", "search" or "end"
  ret           \* how the loop ended: 0 and -1 as in the code, 1 while it runs

streamVars == <<sent, unread, buf, lines, pc, ret>>

StreamInit ==
  /\ sent \in Streams
  /\ unread = sent
  /\ buf = <<>>
  /\ lines = <<>>
  /\ pc \in {"read", "search"}
  /\ ret = 1

(* Mutant: no room for the NUL.                                             *)
Room_NoNul == BufMax - Len(buf)

(* What readToBuf asks of read.                                            *)
Room == BufMax - Len(buf) - 1

(* poll said there is data: read returns some of it.                       *)
Read ==
  /\ pc = "read" /\ unread # <<>> /\ Room > 0
  /\ \E k \in 1..Min({Room, Len(unread)}) :
       /\ buf' = buf \o SubSeq(unread, 1, k)
       /\ unread' = SubSeq(unread, k + 1, Len(unread))
  /\ pc' = "search"
  /\ UNCHANGED <<sent, lines, ret>>

(* read returns 0: the peer closed the connection, or nothing was asked    *)
(* for because the buffer is full.  The callers cannot tell.               *)
ReadNothing ==
  /\ pc = "read" /\ (unread = <<>> \/ Room = 0)
  /\ ret' = 0
  /\ pc' = "end"
  /\ UNCHANGED <<sent, unread, buf, lines>>

(* The connection breaks.                                                  *)
ReadError ==
  /\ pc = "read"
  /\ ret' = -1
  /\ pc' = "end"
  /\ UNCHANGED <<sent, unread, buf, lines>>

(* A line: getToken... returns 1 and is called again.                      *)
Line ==
  /\ pc = "search"
  /\ LET t == SearchToken(buf) IN
       /\ t.found /\ ~TooLong(t)
       /\ lines' = Append(lines, Token(buf, t))
       /\ buf' = Rest(buf, t)
  /\ UNCHANGED <<sent, unread, pc, ret>>

(* A line that does not fit into the token: extractToken returns -1.       *)
LineTooLong ==
  /\ pc = "search"
  /\ SearchToken(buf).found /\ TooLong(SearchToken(buf))
  /\ ret' = -1
  /\ pc' = "end"
  /\ UNCHANGED <<sent, unread, buf, lines>>

NoLine ==
  /\ pc = "search"
  /\ ~SearchToken(buf).found
  /\ pc' = "read"
  /\ UNCHANGED <<sent, unread, buf, lines, ret>>

StreamNext == Read \/ ReadNothing \/ ReadError \/ Line \/ LineTooLong \/ NoLine

StreamSpec == StreamInit /\ [][StreamNext]_streamVars
-----------------------------------------------------------------------------
StreamTypeOK ==
  /\ sent \in Streams /\ unread \in Streams
  /\ buf \in Seq(Letters \cup {CR, LF}) /\ Len(buf) < BufMax
  /\ lines \in Seq(Seq(Letters \cup {CR, LF}))
  /\ pc \in {"read", "search", "end"}
  /\ ret \in {1, 0, -1}

(* The reference: what a reader of whole streams would call the lines of   *)
(* s, complete ones only: cut at every LF, drop one CR before it, forget   *)
(* empty lines.                                                            *)
LineEnds(s) == {i \in 1..Len(s) : s[i] = LF}
LineEnding(s, e) ==
  LET before == {i \in LineEnds(s) : i < e}
      begin  == IF before = {} THEN 1 ELSE Max(before) + 1
      last   == IF e > begin /\ s[e - 1] = CR THEN e - 2 ELSE e - 1
  IN  SubSeq(s, begin, last)
FullLines(s) == {e \in LineEnds(s) : LineEnding(s, e) # <<>>}
LinesOf(s) ==
  [k \in 1..Cardinality(FullLines(s)) |->
     LineEnding(s, CHOOSE e \in FullLines(s) :
                     Cardinality({f \in FullLines(s) : f <= e}) = k)]

Arrived == SubSeq(sent, 1, Len(sent) - Len(unread))

(* Whenever the loop goes back to read it has handed on exactly the lines  *)
(* that have arrived, whatever the pieces they came in: no line is split,  *)
(* joined, lost or repeated at the edge of a read, nor at a "\r\n" that is *)
(* cut in the middle (processIncomingData, getTokenFromStream).            *)
LinesAsSent == pc = "read" => lines = LinesOf(Arrived)

(* No piece of the stream that is still short of a complete line fills the *)
(* buffer: blank lines in front of a line count, they stay until it comes. *)
Fits(s) ==
  \A n \in 1..Len(s)-1 :
    n - Max({0} \cup {e \in FullLines(s) : e <= n}) < BufMax - 1

(* The end of the loop tells why.  Without an error it is the end of the   *)
(* stream, with every line handed on, if the buffer is large enough for    *)
(* every line and the blank lines in front of it.  A line that does not    *)
(* fit the token stops the loop in front of that line: what was handed on  *)
(* is every line before it, and the line itself is still there.            *)
EndsRight ==
  /\ ret = 0 /\ Fits(sent) => unread = <<>> /\ lines = LinesOf(sent)
  /\ pc = "end" /\ ret = -1 /\ SearchToken(buf).found =>
       /\ lines = SubSeq(LinesOf(sent), 1, Len(lines))
       /\ Len(lines) < Len(LinesOf(sent))
       /\ Token(buf, SearchToken(buf)) = LinesOf(sent)[Len(lines) + 1]
       /\ Len(LinesOf(sent)[Len(lines) + 1]) > TokenMax
=============================================================================
