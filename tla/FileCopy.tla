------------------------------ MODULE FileCopy ------------------------------
(***************************************************************************)
(* advFileCopy, as a DOWNLOAD runs it: bytes come from a peer through a    *)
(* socket and go into a file, signals come through a signalfd.             *)
(*                                                                         *)
(* The status that the loop tests and returns, shellReturn, has no initial *)
(* value (connection.c:314).  A round that assigns nothing to it, a chunk  *)
(* that was copied or a progress report, therefore stays in the loop or    *)
(* leaves it with any status.                                              *)
(***************************************************************************)
EXTENDS Integers

CONSTANTS
  MaxBytes,     \* bound on what a peer sends
  Room,         \* what fits into fbuf: bufmax - 1
  Stops         \* the signals that end a copy, SIGINT and SIGQUIT

ASSUME FileCopyAssumption == MaxBytes \in Nat /\ Room \in Nat \ {0} /\ "USR1" \notin Stops

Success == 0
Failure == 1
Garbage == 2    \* any other value but EXIT_NO
Status == {Success, Failure, Garbage}
Signals == Stops \cup {"USR1"}

VARIABLES
  copy,         \* "off", "poll", "write" or "done"
  declared,     \* parameter size
  arrived,      \* bytes the peer has sent
  peer,         \* "open", "closed" or "broken"
  sizeSoFar,
  fbuf,         \* bytes read and not written
  written,      \* bytes in the file
  sigfd,        \* signals that wait
  hears,        \* sigfd is a signalfd; where it is none, signals are blocked
                \* all the same
  shellReturn,
  \* history, read by no action
  lost,         \* bytes that a write did not take
  cause         \* what ended the loop: "none", "end", "error", "signal" or
                \* "unassigned"

peerVars == <<arrived, peer>>
loopVars == <<copy, declared, sizeSoFar, fbuf, written, lost, shellReturn, cause>>
sigVars == <<sigfd, hears>>
copyVars == <<peerVars, loopVars, sigVars>>

CopyInit ==
  /\ copy = "off" /\ declared = 0
  /\ arrived = 0 /\ peer = "open"
  /\ sizeSoFar = 0 /\ fbuf = 0 /\ written = 0 /\ lost = 0
  /\ sigfd = {} /\ hears = TRUE /\ shellReturn = Failure /\ cause = "none"

(* After the process has ended.                                            *)
CopyForgotten ==
  /\ copy' = "off" /\ declared' = 0
  /\ arrived' = 0 /\ peer' = "open"
  /\ sizeSoFar' = 0 /\ fbuf' = 0 /\ written' = 0 /\ lost' = 0
  /\ sigfd' = {} /\ hears' = TRUE /\ shellReturn' = Failure /\ cause' = "none"

CopyTypeOK ==
  /\ copy \in {"off", "poll", "write", "done"} /\ declared \in Nat
  /\ arrived \in 0..MaxBytes /\ peer \in {"open", "closed", "broken"}
  /\ sizeSoFar \in Nat /\ fbuf \in 0..Room /\ written \in Nat /\ lost \in Nat
  /\ sigfd \subseteq Signals /\ hears \in BOOLEAN /\ shellReturn \in Status
  /\ cause \in {"none", "end", "error", "signal", "unassigned"}

CopyRuns == copy \in {"poll", "write"}

(* getSigfd before the call: the mask is set, the signalfd may be refused. *)
CopySigfd ==
  /\ copy = "off"
  /\ hears' \in BOOLEAN
  /\ UNCHANGED <<peerVars, loopVars, sigfd>>

CopyStart(size) ==
  /\ copy = "off"
  /\ copy' = "poll" /\ declared' = size
  /\ UNCHANGED <<peerVars, sizeSoFar, fbuf, written, lost, sigVars, shellReturn, cause>>
-----------------------------------------------------------------------------
(* The peer sends what it has, closes, or the connection breaks.           *)
PeerSends ==
  /\ CopyRuns /\ peer = "open"
  /\ \E n \in 1..(MaxBytes - arrived) : arrived' = arrived + n
  /\ UNCHANGED <<peer, loopVars, sigVars>>

PeerLeaves ==
  /\ CopyRuns /\ peer = "open"
  /\ peer' \in {"closed", "broken"}
  /\ UNCHANGED <<arrived, loopVars, sigVars>>

CopySignal(sig) ==
  /\ CopyRuns
  /\ sigfd' = sigfd \cup {sig}
  /\ UNCHANGED <<peerVars, loopVars, hears>>
-----------------------------------------------------------------------------
Leave(status, why) ==
  /\ copy' = "done" /\ shellReturn' = status /\ cause' = why

(* The test at the end of a round that assigned nothing.                   *)
TestUnassigned ==
  \/ copy' = "poll" /\ UNCHANGED <<shellReturn, cause>>
  \/ \E status \in Status : Leave(status, "unassigned")

Readable == sizeSoFar < arrived
SourceReady == Readable \/ peer # "open"

(* readToBuf: behind what fbuf holds, as much as fits.                     *)
ReadData ==
  /\ copy = "poll" /\ Readable
  /\ \E n \in 1..(Room - fbuf) :
       /\ n <= arrived - sizeSoFar
       /\ sizeSoFar' = sizeSoFar + n
       /\ fbuf' = fbuf + n
  /\ copy' = "write"
  /\ UNCHANGED <<peerVars, declared, written, lost, sigVars, shellReturn, cause>>

(* Mutant: writeBuf does not flush fbuf.                                   *)
WriteData_Unflushed ==
  /\ copy = "write"
  /\ \E n \in 1..fbuf : written' = written + n /\ lost' = lost + (fbuf - n)
  /\ TestUnassigned
  /\ UNCHANGED <<peerVars, declared, sizeSoFar, fbuf, sigVars>>

(* writeBuf flushes fbuf whatever write took of it.                        *)
WriteData ==
  /\ copy = "write"
  /\ \E n \in 1..fbuf : written' = written + n /\ lost' = lost + (fbuf - n)
  /\ fbuf' = 0
  /\ TestUnassigned
  /\ UNCHANGED <<peerVars, declared, sizeSoFar, sigVars>>

WriteFails ==
  /\ copy = "write"
  /\ fbuf' = 0 /\ lost' = lost + fbuf
  /\ Leave(Failure, "error")
  /\ UNCHANGED <<peerVars, declared, sizeSoFar, written, sigVars>>

ReadEnd ==
  /\ copy = "poll" /\ ~Readable /\ peer = "closed"
  /\ Leave(IF sizeSoFar = declared THEN Success ELSE Failure, "end")
  /\ UNCHANGED <<peerVars, declared, sizeSoFar, fbuf, written, lost, sigVars>>

ReadFails ==
  /\ copy = "poll" /\ peer = "broken"
  /\ Leave(Failure, "error")
  /\ UNCHANGED <<peerVars, declared, sizeSoFar, fbuf, written, lost, sigVars>>

(* poll fails: advFileCopy returns -1.                                     *)
CopyPollFails ==
  /\ copy = "poll"
  /\ Leave(Garbage, "error")
  /\ UNCHANGED <<peerVars, declared, sizeSoFar, fbuf, written, lost, sigVars>>

(* Mutant: a signal that stops the child only ends the switch.             *)
TakeStop_Ignored ==
  /\ copy = "poll" /\ ~SourceReady /\ hears
  /\ \E sig \in sigfd \cap Stops : sigfd' = sigfd \ {sig}
  /\ UNCHANGED <<peerVars, loopVars, hears>>

(* Signals are looked at when the source has nothing.                      *)
TakeStop ==
  /\ copy = "poll" /\ ~SourceReady /\ hears
  /\ \E sig \in sigfd \cap Stops : sigfd' = sigfd \ {sig}
  /\ Leave(Success, "signal")
  /\ UNCHANGED <<peerVars, declared, sizeSoFar, fbuf, written, lost, hears>>

(* A signalfd hands out the signal of the lowest number first.             *)
TakeProgress ==
  /\ copy = "poll" /\ ~SourceReady /\ hears
  /\ "USR1" \in sigfd /\ sigfd \cap Stops = {}
  /\ sigfd' = sigfd \ {"USR1"}
  /\ TestUnassigned
  /\ UNCHANGED <<peerVars, declared, sizeSoFar, fbuf, written, lost, hears>>
-----------------------------------------------------------------------------
Copier ==
  \/ ReadData \/ WriteData \/ WriteFails \/ ReadEnd \/ ReadFails
  \/ TakeStop \/ TakeProgress
CopyEnv == PeerSends \/ PeerLeaves \/ (\E sig \in Signals : CopySignal(sig)) \/ CopyPollFails

CopyNext ==
  \/ Copier \/ CopyEnv \/ CopySigfd \/ (copy = "done" /\ CopyForgotten)
  \/ (\E size \in Nat : CopyStart(size))
CopySpec == CopyInit /\ [][CopyNext]_copyVars
-----------------------------------------------------------------------------
(* The file of a copy that calls its end a success holds every byte that   *)
(* was announced and no other, each of them once, unless a write took less *)
(* than it was given: what it did not take is lost, and counted as copied  *)
(* (readToBuf, writeBuf, connection.c:350-366).  The zeros of a stopped    *)
(* copy and of the unassigned status say nothing of the file, and are not  *)
(* meant.                                                                  *)
FileIsWhole ==
  copy = "done" /\ cause = "end" /\ shellReturn = Success =>
    /\ peer = "closed" /\ arrived = declared
    /\ written + lost = declared
    /\ lost = 0 => written = arrived

(* Every byte that was read is in the file, in fbuf or lost, and only what *)
(* arrived was read.                                                       *)
NothingMadeUp == written + fbuf + lost = sizeSoFar /\ sizeSoFar <= arrived

(* A copy ends when its peer leaves, or when a signal stops it that it can *)
(* hear.                                                                   *)
CopyEnds == (CopyRuns /\ (peer # "open" \/ (hears /\ sigfd \cap Stops # {}))) ~> copy = "done"
=============================================================================
