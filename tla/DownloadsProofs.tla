--------------------------- MODULE DownloadsProofs --------------------------
(***************************************************************************)
(* Proofs about FileCopy, Results and Downloads, for any number of         *)
(* searches, records and slots, and any files, buffers and peers.          *)
(***************************************************************************)
EXTENDS Downloads, SequenceLemmas, FiniteSetTheorems, TLAPS

(* Safety of advFileCopy, for every file, every buffer and every peer.     *)

(* The types of the counts; nothing depends on the size announced.         *)
CountsOK ==
  /\ copy \in {"off", "poll", "write", "done"}
  /\ arrived \in 0..MaxBytes
  /\ sizeSoFar \in Nat /\ fbuf \in 0..Room /\ written \in Nat /\ lost \in Nat

(* What a round leaves behind: the buffer is empty between rounds, since   *)
(* writeBuf flushes it whatever was written, and every byte that was read  *)
(* is in one place.                                                        *)
CopyInv ==
  /\ CountsOK
  /\ copy # "write" => fbuf = 0
  /\ NothingMadeUp
  /\ FileIsWhole

LEMMA CopyInvInit == CopyInit => CopyInv
BY FileCopyAssumption
   DEF CopyInit, CopyInv, CountsOK, NothingMadeUp, FileIsWhole,
       Status, Success, Failure, Garbage, Signals

LEMMA EnvKeepsInv == CopyInv /\ CopyEnv => CopyInv'
<1> SUFFICES ASSUME CopyInv, CopyEnv PROVE CopyInv'
  OBVIOUS
<1> USE FileCopyAssumption
        DEF CopyInv, CountsOK, NothingMadeUp, FileIsWhole, CopyRuns,
            peerVars, loopVars, sigVars
<1>1. CASE PeerSends
  BY <1>1 DEF PeerSends
<1>2. CASE PeerLeaves
  BY <1>2 DEF PeerLeaves
<1>3. CASE \E sig \in Signals : CopySignal(sig)
  BY <1>3 DEF CopySignal
<1>4. CASE CopyPollFails
  BY <1>4 DEF CopyPollFails, Leave
<1>. QED  BY <1>1, <1>2, <1>3, <1>4 DEF CopyEnv

LEMMA CopierKeepsInv == CopyInv /\ Copier => CopyInv'
<1> SUFFICES ASSUME CopyInv, Copier PROVE CopyInv'
  OBVIOUS
<1> USE FileCopyAssumption
        DEF CopyInv, CountsOK, NothingMadeUp, FileIsWhole, Status,
            Success, Failure, Garbage, peerVars, loopVars, sigVars
<1>1. CASE ReadData
  BY <1>1 DEF ReadData, Readable
<1>2. CASE WriteData
  BY <1>2 DEF WriteData, TestUnassigned, Leave
<1>3. CASE WriteFails
  BY <1>3 DEF WriteFails, Leave
<1>4. CASE ReadEnd
  BY <1>4 DEF ReadEnd, Readable, Leave
<1>5. CASE ReadFails
  BY <1>5 DEF ReadFails, Leave
<1>6. CASE TakeStop
  BY <1>6 DEF TakeStop, Leave, SourceReady
<1>7. CASE TakeProgress
  BY <1>7 DEF TakeProgress, TestUnassigned, Leave
<1>. QED  BY <1>1, <1>2, <1>3, <1>4, <1>5, <1>6, <1>7 DEF Copier

LEMMA ForgetKeepsInv == CopyForgotten => CopyInv'
BY FileCopyAssumption
   DEF CopyForgotten, CopyInv, CountsOK, NothingMadeUp, FileIsWhole,
       Status, Success, Failure, Garbage

LEMMA StartKeepsInv ==
  ASSUME NEW bytes, CopyInv, CopyStart(bytes) PROVE CopyInv'
BY DEF CopyStart, CopyInv, CountsOK, NothingMadeUp, FileIsWhole, peerVars

LEMMA SigfdKeepsInv == CopyInv /\ CopySigfd => CopyInv'
BY DEF CopySigfd, CopyInv, CountsOK, NothingMadeUp, FileIsWhole, peerVars, loopVars

LEMMA StutterKeepsInv == CopyInv /\ UNCHANGED copyVars => CopyInv'
BY DEF copyVars, peerVars, loopVars, sigVars, CopyInv, CountsOK, NothingMadeUp,
       FileIsWhole

LEMMA CopyInvStep == CopyInv /\ [CopyNext]_copyVars => CopyInv'
<1> SUFFICES ASSUME CopyInv, [CopyNext]_copyVars PROVE CopyInv'
  OBVIOUS
<1>1. CASE Copier
  BY <1>1, CopierKeepsInv
<1>2. CASE CopyEnv
  BY <1>2, EnvKeepsInv
<1>3. CASE CopyForgotten
  BY <1>3, ForgetKeepsInv
<1>4. ASSUME NEW n \in Nat, CopyStart(n) PROVE CopyInv'
  BY <1>4, StartKeepsInv
<1>5. CASE UNCHANGED copyVars
  BY <1>5, StutterKeepsInv
<1>6. CASE CopySigfd
  BY <1>6, SigfdKeepsInv
<1>. QED  BY <1>1, <1>2, <1>3, <1>4, <1>5, <1>6 DEF CopyNext

LEMMA CopyInvariant == CopySpec => []CopyInv
BY CopyInvInit, CopyInvStep, PTL DEF CopySpec

(* The variables of advFileCopy keep their types; fbuf never holds more    *)
(* than fits into it.                                                      *)
THEOREM CopyTypes == CopySpec => []CopyTypeOK
<1> USE DEF CopyTypeOK, Status, Success, Failure, Garbage
<1>1. CopyInit => CopyTypeOK
  BY FileCopyAssumption DEF CopyInit, Signals
<1>2. CopyInv' /\ CopyTypeOK /\ [CopyNext]_copyVars => CopyTypeOK'
  <2> SUFFICES ASSUME CopyInv', CopyTypeOK, [CopyNext]_copyVars PROVE CopyTypeOK'
    OBVIOUS
  <2> USE DEF CopyInv, CountsOK, peerVars, loopVars, sigVars
  <2>1. CASE Copier
    BY <2>1
       DEF Copier, ReadData, WriteData, WriteFails, ReadEnd, ReadFails,
           TakeStop, TakeProgress, TestUnassigned, Leave
  <2>2. CASE CopyEnv
    BY <2>2 DEF CopyEnv, PeerSends, PeerLeaves, CopySignal, CopyPollFails, Leave
  <2>3. CASE CopyForgotten
    BY <2>3 DEF CopyForgotten
  <2>4. ASSUME NEW n \in Nat, CopyStart(n) PROVE CopyTypeOK'
    BY <2>4 DEF CopyStart
  <2>5. CASE CopySigfd \/ UNCHANGED copyVars
    BY <2>5 DEF CopySigfd, copyVars
  <2>. QED  BY <2>1, <2>2, <2>3, <2>4, <2>5 DEF CopyNext
<1>. QED  BY <1>1, <1>2, CopyInvariant, PTL DEF CopySpec

(* The file of a copy that calls its end a success holds exactly the bytes *)
(* that were announced, unless a write took less than it was given         *)
(* (connection.c:350-366, writeBuf), whatever the sizes of files, buffers  *)
(* and reads.                                                              *)
THEOREM WholeOnSuccess == CopySpec => []FileIsWhole
<1>1. CopyInv => FileIsWhole
  BY DEF CopyInv
<1>. QED  BY <1>1, CopyInvariant, PTL

(* Every byte that was read is in the file, in the buffer or lost by a     *)
(* write, whatever the partial writes and the signals.                     *)
THEOREM OnlyWhatArrived == CopySpec => []NothingMadeUp
<1>1. CopyInv => NothingMadeUp
  BY DEF CopyInv
<1>. QED  BY <1>1, CopyInvariant, PTL
-----------------------------------------------------------------------------
Tokenized == [of : Searches, from : Nat, to : Nat]
Numbers == [kind : {"number"}, n : Int]
Items ==
  {Blank, Torn} \cup
  [kind : {"entry"},
   entry : [addr : Tokenized, port : Tokenized, name : Tokenized, size : Numbers]]

Ended == {"silent", "found", "failed", "crashed"}

ArrayTypes ==
  /\ plan \in Plans
  /\ count \in Nat /\ slots \in [Slots -> Items]
  /\ pc \in [Searches -> Filling \cup Ended \cup {"connect"}]
  /\ got \in [Searches -> Nat] /\ taken \in [Searches -> Nat]
  /\ file \in [Searches -> Items]
  /\ counter \in [Searches -> Nat]
  /\ at \in [Searches -> Nat] /\ tmp \in [Searches -> Nat]
  /\ cut \subseteq Searches /\ mixed \subseteq Searches /\ spoiled \in BOOLEAN
  /\ \A s \in Searches : pc[s] # "connect" => s \in DOMAIN plan.answers

ListTypes ==
  /\ lpc \in {"idle", "fetch", "size", "line"}
  /\ i \in Nat
  /\ wiped \in BOOLEAN /\ atStart \in Nat

Places == {"name", "port", "bind", "connect", "mask", "size", "call"}

ChildTypes ==
  /\ dpc \in {"none", "get", "copy", "gone"} \cup Places
  /\ disturbed \in BOOLEAN

(* The owner has cleared the array, which a search does once.              *)
OwnerInv == \A s \in Searches : owner = s => pc[s] # "connect"

(* What was read is of the answer, and a search that does not go astray    *)
(* stands between two records of it.                                       *)
AlignInv ==
  \A s \in Searches :
    /\ pc[s] = "connect" => got[s] = 0
    /\ pc[s] # "connect" => got[s] <= Length(s)
    /\ s \notin Astray => \E r \in Nat : taken[s] = 7 * r

(* A search that was never beside another one is alone with the array, and *)
(* counts what is in it.                                                   *)
SoloInv == \A s \in Active \ mixed : Active = {s}
CountInv ==
  \A s \in Searches \ mixed :
    /\ pc[s] \in {"connect", "wipe"} => counter[s] = 0
    /\ pc[s] = "wipe" => count = 0
    /\ pc[s] \in {"read", "test", "begin", "copy", "load", "store"} => count = counter[s]
    /\ pc[s] = "store" => tmp[s] = count
    /\ pc[s] = "get" => count = counter[s] + 1
    /\ pc[s] = "crashed" => s \in Astray

(* As long as no two searches met, the array is filled up to its limit and *)
(* not further.                                                            *)
BoundInv ==
  mixed = {} =>
    /\ count < Cap
    /\ \A s \in Searches :
         /\ pc[s] \in {"begin", "copy", "load", "store"} => count + 1 < Cap
         /\ pc[s] = "copy" => at[s] = count /\ slots[count] = Torn
    /\ \A n \in Slots : n >= Cap => slots[n] = Blank
    /\ dpc \in Places => Nr < Cap

(* What is published is whole, and so is what comes next.                  *)
IsEntry(item) == item.kind = "entry"
EntryInv ==
  mixed = {} /\ Astray = {} =>
    /\ \A s \in Searches : pc[s] \in {"test", "begin", "copy"} => IsEntry(file[s])
    /\ ~spoiled =>
         /\ \A n \in 0..count-1 : IsEntry(slots[n])
         /\ \A s \in Searches : pc[s] \in {"load", "store"} => IsEntry(slots[count])

(* What RESULTS has listed is still there.                                 *)
ListInv ==
  lpc # "idle" /\ ~wiped /\ mixed = {} /\ ~spoiled =>
    /\ listed \in Seq(Items) /\ i = Len(listed)
    /\ i <= count /\ atStart <= count
    /\ \A k \in 1..Len(listed) : listed[k] = slots[k - 1]
    /\ lpc \in {"size", "line"} => i < count
    /\ lpc = "line" => size = slots[i]

(* What the child of a download has read is what it looked up.             *)
ReadSoFar(entry) ==
  CASE dpc = "name" -> <<>>
    [] dpc = "port" -> <<entry.name>>
    [] dpc \in {"bind", "connect"} -> <<entry.name, entry.port>>
    [] dpc \in {"mask", "size"} -> <<entry.name, entry.port, entry.addr>>
    [] OTHER -> <<entry.name, entry.port, entry.addr, entry.size>>
ChildInv ==
  /\ dpc \in {"none", "get"} => ~spoiled /\ used = <<>>
  /\ dpc \in Places /\ ~disturbed /\ mixed = {} /\ Astray = {} =>
       /\ IsEntry(first) /\ used = ReadSoFar(first.entry)
       /\ dpc # "call" => ~spoiled /\ Nr < count /\ first = slots[Nr]
       /\ dpc = "bind" => dport = first.entry.port

Inv ==
  /\ ArrayTypes /\ ListTypes /\ ChildTypes
  /\ OwnerInv /\ AlignInv /\ SoloInv /\ CountInv /\ BoundInv /\ EntryInv /\ ListInv /\ ChildInv
-----------------------------------------------------------------------------
LEMMA SlotsOfArray ==
  /\ \A n \in Nat : n < Cap => n \in Slots
  /\ Slots \subseteq Nat
BY FS_CardinalityType, ResultsAssumption DEF Slots

LEMMA InitInv == Init => Inv
<1> SUFFICES ASSUME Init PROVE Inv
  OBVIOUS
<1> USE DEF Init, ResultsInit
<1>1. ArrayTypes
  BY DEF ArrayTypes, Items, Blank, NoFile
<1>2. ListTypes /\ ChildTypes
  BY EmptySeq DEF ListTypes, ChildTypes, Items, Blank, NoFile
<1>3. OwnerInv
  BY ResultsAssumption DEF OwnerInv, NoFile, Blank
<1>4. Active = {}
  BY DEF Active, Filling
<1>5. SoloInv /\ CountInv /\ EntryInv
  BY <1>4 DEF SoloInv, CountInv, EntryInv
<1>6. BoundInv /\ AlignInv
  <2>1. 7 * 0 = 0
    OBVIOUS
  <2>. QED  BY <2>1, ResultsAssumption DEF BoundInv, Places, AlignInv
<1>7. ListInv /\ ChildInv
  BY DEF ListInv, ChildInv, Places
<1>. QED  BY <1>1, <1>2, <1>3, <1>5, <1>6, <1>7 DEF Inv

-----------------------------------------------------------------------------
(* The words that a round takes.                                           *)
LEMMA WordTyped ==
  ASSUME ArrayTypes, NEW s \in Searches, NEW before \in Tokenized,
         before.of = s, before.from \in 1..got[s]
  PROVE  /\ NextWord(s, before) \in Tokenized
         /\ NextWord(s, before).of = s /\ NextWord(s, before).from \in 1..got[s]
<1>1. PICK from \in Nat \ {0} : from = before.to + 1
  BY DEF Tokenized
<1>2. got[s] \in Nat
  BY DEF ArrayTypes
<1>3. WordEnds(s, from) \subseteq Nat
  BY <1>1, <1>2 DEF WordEnds
<1>4. PICK to \in Nat : to = IF WordEnds(s, from) = {} THEN got[s] ELSE Min(WordEnds(s, from))
  BY <1>2, <1>3, MinOfSome
<1>5. NextWord(s, before) = IF from > got[s] THEN before ELSE Token(s, from, to)
  BY <1>1, <1>4 DEF NextWord
<1>6. CASE from > got[s]
  BY <1>5, <1>6
<1>7. CASE ~(from > got[s])
  <2>1. NextWord(s, before) = Token(s, from, to) /\ from \in 1..got[s]
    BY <1>1, <1>2, <1>5, <1>7
  <2>. QED  BY <1>1, <1>4, <2>1 DEF Token, Tokenized
<1>. QED  BY <1>6, <1>7

FourWords == [addr : Tokenized, port : Tokenized, name : Tokenized, size : Tokenized]

LEMMA TokensTyped ==
  ASSUME ArrayTypes, NEW s \in Searches, LineEnds(s) # {}
  PROVE  /\ Tokens(s) \in FourWords
         /\ Tokens(s).addr.from = taken[s] + 1 /\ taken[s] \in Nat
         /\ Tokens(s).size.of = s /\ Tokens(s).size.from \in 1..got[s]
<1> DEFINE ip   == Token(s, taken[s] + 1, Min(LineEnds(s)))
           port == NextWord(s, ip)
           name == NextWord(s, port)
           last == NextWord(s, name)
<1>1. taken[s] \in Nat /\ got[s] \in Nat
  BY DEF ArrayTypes
<1>2. LineEnds(s) \subseteq Nat
  BY <1>1 DEF LineEnds
<1>3. Min(LineEnds(s)) \in Nat /\ taken[s] + 1 \in 1..got[s]
  BY <1>1, <1>2, MinOfSome DEF LineEnds
<1>4. ip \in Tokenized /\ ip.from = taken[s] + 1 /\ ip.of = s /\ ip.from \in 1..got[s]
  BY <1>1, <1>3 DEF Token, Tokenized
<1> HIDE DEF ip
<1>5. port \in Tokenized /\ port.of = s /\ port.from \in 1..got[s]
  BY <1>4, WordTyped
<1> HIDE DEF port
<1>6. name \in Tokenized /\ name.of = s /\ name.from \in 1..got[s]
  BY <1>5, WordTyped
<1> HIDE DEF name
<1>7. last \in Tokenized /\ last.of = s /\ last.from \in 1..got[s]
  BY <1>6, WordTyped
<1> HIDE DEF last
<1>8. Tokens(s) = Entry(ip, port, name, last)
  BY DEF Tokens, ip, port, name, last
<1>. QED  BY <1>1, <1>4, <1>5, <1>6, <1>7, <1>8 DEF Entry, FourWords

LEMMA AnswerIsSeq ==
  ASSUME ArrayTypes, NEW s \in Searches, pc[s] # "connect"
  PROVE  Answer(s) \in Seq(Record) /\ Len(Answer(s)) \in Nat /\ Length(s) = 7 * Len(Answer(s))
<1>1. s \in DOMAIN plan.answers /\ plan \in Plans
  BY DEF ArrayTypes
<1>2. plan.answers[s] \in Seq(Record)
  BY <1>1, ResultsAssumption DEF IsPlan
<1>. QED  BY <1>2 DEF Answer, Length

LEMMA AsIntTyped == ASSUME NEW n \in Nat PROVE AsInt(n) \in Int
<1>1. PICK m \in Nat \ {0} : m = 2 * Half
  BY ResultsAssumption
<1>2. (n + Half) % m \in Int /\ Half \in Int
  BY <1>1, ResultsAssumption
<1>. QED  BY <1>1, <1>2 DEF AsInt

LEMMA SizeTyped ==
  ASSUME ArrayTypes, AlignInv, NEW s \in Searches, pc[s] # "connect", LineEnds(s) # {}
  PROVE  SizeTaken(Tokens(s).size) \subseteq Int
<1>1. PICK k : k = Tokens(s).size.from
  OBVIOUS
<1>2. k \in 1..got[s] /\ got[s] \in Nat /\ Tokens(s).size.of = s
  BY <1>1, TokensTyped DEF ArrayTypes
<1>3. PICK n \in Nat : n = Len(Answer(s))
  BY AnswerIsSeq
<1>4. Answer(s) \in Seq(Record) /\ Length(s) = 7 * n
  BY <1>3, AnswerIsSeq
<1>5. k \in 1..7 * n
  BY <1>2, <1>3, <1>4 DEF AlignInv
<1>6. RecordAt(k) \in 1..n
  BY <1>3, <1>5 DEF RecordAt
<1>7. Answer(s)[RecordAt(k)] \in Record
  BY <1>3, <1>4, <1>6
<1>8. RecordOf(Tokens(s).size) = Answer(s)[RecordAt(k)]
  BY <1>1, <1>2 DEF RecordOf
<1>9. AsInt(RecordOf(Tokens(s).size).size) \in Int
  <2>1. PICK x \in Record : x = Answer(s)[RecordAt(k)]
    BY <1>7
  <2>2. x.size \in Nat
    BY DEF Record
  <2>. QED  BY <1>8, <2>1, <2>2, AsIntTyped
<1>10. PICK a \in Int : a = AsInt(RecordOf(Tokens(s).size).size)
  BY <1>9
<1>11. SizeTaken(Tokens(s).size) \in {{-1}, {a}, Sizes}
  BY <1>10 DEF SizeTaken
<1>12. -1 \in Int /\ Sizes \subseteq Int
  BY ResultsAssumption
<1>. QED  BY <1>11, <1>12
-----------------------------------------------------------------------------
(* Where the pieces of a record are.                                       *)
LEMMA PiecesOfRecord ==
  ASSUME NEW r \in Nat
  PROVE  /\ \A k \in 1..7 : PieceAt(7 * r + k) = k /\ RecordAt(7 * r + k) = r + 1
         /\ 7 * ((r + 1) - 1) = 7 * r
<1>1. PICK p \in Nat : p = 7 * r
  OBVIOUS
<1>2. ASSUME NEW k \in 1..7 PROVE PieceAt(p + k) = k /\ RecordAt(p + k) = r + 1
  <2>1. (p + k) - 1 = 7 * r + (k - 1) /\ k - 1 \in 0..6
    BY <1>1
  <2>2. (7 * r + (k - 1)) % 7 = k - 1 /\ (7 * r + (k - 1)) \div 7 = r
    BY <2>1
  <2>. QED  BY <2>1, <2>2 DEF PieceAt, RecordAt
<1>. QED  BY <1>1, <1>2

(* The fields of a record, by their pieces.                                *)
LEMMA FieldsOfRecord ==
  ASSUME NEW s, NEW r \in Nat
  PROVE  /\ WholeField(s, r + 1, "ip") = Token(s, 7 * r + 1, 7 * r + 1)
         /\ WholeField(s, r + 1, "port") = Token(s, 7 * r + 2, 7 * r + 2)
         /\ WholeField(s, r + 1, "name") = Token(s, 7 * r + 3, 7 * r + 5)
         /\ WholeField(s, r + 1, "size") = Token(s, 7 * r + 6, 7 * r + 7)
<1>1. PICK p \in Nat : p = 7 * r /\ p = 7 * ((r + 1) - 1)
  BY PiecesOfRecord
<1>. QED  BY <1>1 DEF WholeField

(* While a record is missing, its first piece is the end of a line once it *)
(* has come.                                                               *)
LEMMA NextPiece ==
  ASSUME ArrayTypes, NEW s \in Searches, NEW r \in Nat, taken[s] = 7 * r
  PROVE  /\ LineEnds(s) # {} <=> 7 * r + 1 <= got[s]
         /\ LineEnds(s) # {} => Min(LineEnds(s)) = 7 * r + 1
<1>1. PICK p \in Nat : p = 7 * r /\ EndsLine(p + 1)
  BY PiecesOfRecord DEF EndsLine
<1>2. got[s] \in Nat /\ LineEnds(s) = {k \in p+1..got[s] : EndsLine(k)}
  BY <1>1 DEF LineEnds, ArrayTypes
<1>3. p + 1 <= got[s] => p + 1 \in LineEnds(s)
  BY <1>1, <1>2
<1>4. ~(p + 1 <= got[s]) => LineEnds(s) = {}
  BY <1>1, <1>2
<1>5. ASSUME LineEnds(s) # {} PROVE Min(LineEnds(s)) = p + 1
  <2>1. LineEnds(s) \in SUBSET Nat /\ p + 1 \in LineEnds(s) /\ \A k \in LineEnds(s) : p + 1 <= k
    BY <1>2, <1>3, <1>4, <1>5
  <2>2. Min(LineEnds(s)) \in LineEnds(s) /\ Min(LineEnds(s)) <= p + 1
    BY <2>1, MinOfSome
  <2>3. p + 1 <= Min(LineEnds(s)) /\ Min(LineEnds(s)) \in Nat
    BY <2>1, <2>2
  <2>. QED  BY <2>2, <2>3
<1>. QED  BY <1>1, <1>3, <1>4, <1>5

(* A word that has come with its end.                                      *)
LEMMA WordIs ==
  ASSUME ArrayTypes, NEW s \in Searches, NEW before, NEW from \in Nat, NEW to \in from..got[s],
         before.to + 1 = from, EndsWord(s, to), \A k \in from..to-1 : ~EndsWord(s, k)
  PROVE  NextWord(s, before) = Token(s, from, to)
<1>1. got[s] \in Nat /\ ~(from > got[s]) /\ to \in Nat
  BY DEF ArrayTypes
<1>2. to \in WordEnds(s, from) /\ WordEnds(s, from) \in SUBSET Nat
  BY <1>1 DEF WordEnds
<1>3. \A k \in WordEnds(s, from) : to <= k
  <2> SUFFICES ASSUME NEW k \in WordEnds(s, from), ~(to <= k) PROVE FALSE
    OBVIOUS
  <2>1. k \in from..got[s] /\ EndsWord(s, k)
    BY DEF WordEnds
  <2>2. k \in from..to-1
    BY <1>1, <2>1
  <2>. QED  BY <2>1, <2>2
<1>4. Min(WordEnds(s, from)) = to
  <2>1. Min(WordEnds(s, from)) \in WordEnds(s, from) /\ Min(WordEnds(s, from)) <= to
    BY <1>2, MinOfSome
  <2>2. to <= Min(WordEnds(s, from)) /\ Min(WordEnds(s, from)) \in Nat
    BY <1>2, <1>3, <2>1
  <2>. QED  BY <1>1, <2>1, <2>2
<1>. QED  BY <1>1, <1>2, <1>4 DEF NextWord

(* The words of a record that has arrived: the whole record, or a name     *)
(* that ends at its space and, unless that misleads, no number behind it.  *)
LEMMA WordsOfRecord ==
  ASSUME ArrayTypes, AlignInv, NEW s \in Searches, pc[s] # "connect", s \notin Misled,
         NEW r \in Nat, taken[s] = 7 * r, LineEnds(s) # {}, Arrived(s)
  PROVE  /\ r < Len(Answer(s)) /\ Answer(s)[r + 1] \in Record
         /\ ParseOutcomes(Tokens(s).addr, Tokens(s).port) = {"parsed"}
         /\ \/ /\ Answer(s)[r + 1].spaces = {}
               /\ Tokens(s).addr = WholeField(s, r + 1, "ip")
               /\ Tokens(s).port = WholeField(s, r + 1, "port")
               /\ Tokens(s).name = WholeField(s, r + 1, "name")
               /\ Tokens(s).size.to = 7 * (r + 1)
               /\ SizeTaken(Tokens(s).size) = {AsInt(Answer(s)[r + 1].size)}
            \/ Answer(s)[r + 1].spaces # {} /\ SizeTaken(Tokens(s).size) = {-1}
<1>1. PICK p \in Nat : p = 7 * r
  OBVIOUS
<1>2. /\ \A k \in 1..7 : PieceAt(p + k) = k /\ RecordAt(p + k) = r + 1
      /\ p + 7 = 7 * (r + 1)
  <2>1. p + 7 = 7 * (r + 1)
    BY <1>1
  <2>2. \A k \in 1..7 : PieceAt(p + k) = k /\ RecordAt(p + k) = r + 1
    BY <1>1, PiecesOfRecord
  <2>. QED  BY <2>1, <2>2
<1>3. PICK n \in Nat : n = Len(Answer(s))
  BY AnswerIsSeq
<1>4. got[s] \in Nat /\ p + 7 <= got[s] /\ got[s] <= 7 * n
  <2>1. RecordAt(taken[s] + 1) = r + 1
    BY <1>1, <1>2
  <2>. QED  BY <1>2, <1>3, <2>1, AnswerIsSeq DEF Arrived, AlignInv, ArrayTypes
<1>5. r < n
  BY <1>1, <1>4
<1>6. PICK x \in Record : x = Answer(s)[r + 1]
  BY <1>3, <1>5, AnswerIsSeq
<1>7. x.spaces \subseteq {3, 4} /\ x.digits \subseteq {3, 4, 5}
  BY DEF Record
<1>8. ~Misleads(x)
  <2>1. s \in DOMAIN plan.answers
    BY DEF ArrayTypes
  <2>2. DOMAIN Answer(s) = 1..n
    BY <1>3, AnswerIsSeq
  <2>3. x \in ToSet(Answer(s))
    BY <1>3, <1>5, <1>6, <2>2 DEF ToSet
  <2>. QED  BY <2>1, <2>3 DEF Misled
<1>9. \A k \in 1..7 : EndsWord(s, p + k) <=> k \in {1, 2, 5, 7} \cup x.spaces
  BY <1>2, <1>6 DEF EndsWord, EndsLine
<1>10. /\ IsDigits(s, p + 2) /\ IsDigits(s, p + 6) /\ IsDigits(s, p + 7)
       /\ IsDigits(s, p + 4) <=> 4 \in x.digits
       /\ IsDigits(s, p + 5) <=> 5 \in x.digits
  <2>1. /\ Layout[2] = "port" /\ Layout[6] = "size" /\ Layout[7] = "size"
        /\ Layout[4] = "name" /\ Layout[5] = "name"
    BY DEF Layout
  <2>2. PieceAt(p + 2) = 2 /\ PieceAt(p + 6) = 6 /\ PieceAt(p + 7) = 7
    BY <1>2
  <2>3. /\ PieceAt(p + 4) = 4 /\ PieceAt(p + 5) = 5
        /\ RecordAt(p + 4) = r + 1 /\ RecordAt(p + 5) = r + 1
    BY <1>2
  <2>. QED  BY <1>6, <2>1, <2>2, <2>3 DEF IsDigits
<1>11. PICK ip : ip = Token(s, p + 1, p + 1)
  OBVIOUS
<1>12. PICK port : port = Token(s, p + 2, p + 2)
  OBVIOUS
<1>13. NextWord(s, ip) = port
  <2>1. ip.to + 1 = p + 2 /\ p + 2 \in Nat /\ p + 2 \in (p + 2)..got[s]
    BY <1>4, <1>11 DEF Token
  <2>2. EndsWord(s, p + 2) /\ \A k \in (p + 2)..(p + 2) - 1 : ~EndsWord(s, k)
    BY <1>9
  <2>. QED  BY <1>12, <2>1, <2>2, WordIs
<1>14. PICK name : name = NextWord(s, port)
  OBVIOUS
<1>15. PICK last : last = NextWord(s, name)
  OBVIOUS
<1>16. Tokens(s) = Entry(ip, port, name, last)
  <2>1. Min(LineEnds(s)) = p + 1
    BY <1>1, NextPiece
  <2>. QED  BY <1>1, <1>11, <1>13, <1>14, <1>15, <2>1 DEF Tokens
<1>17. ParseOutcomes(ip, port) = {"parsed"}
  <2>1. \A k : k \in (p + 1)..(p + 1) <=> k = p + 1
    OBVIOUS
  <2>2. \A k : k \in (p + 2)..(p + 2) <=> k = p + 2
    OBVIOUS
  <2>3. (p + 2)..(p + 2) - 1 = {}
    OBVIOUS
  <2>4. Layout[1] = "ip" /\ PieceAt(p + 1) = 1
    BY <1>2 DEF Layout
  <2>5. Fields(ip) = {"ip"}
    BY <1>11, <2>1, <2>4 DEF Fields, Token
  <2>6. IsNumber(port)
    BY <1>10, <1>12, <2>2, <2>3 DEF IsNumber, Token
  <2>. QED  BY <2>5, <2>6 DEF ParseOutcomes, IsHost
<1>18. port.to + 1 = p + 3
  BY <1>12 DEF Token
<1>19. CASE x.spaces = {}
  <2>1. name = Token(s, p + 3, p + 5)
    <3>1. p + 3 \in Nat /\ p + 5 \in (p + 3)..got[s]
      BY <1>4
    <3>2. EndsWord(s, p + 5)
      BY <1>9
    <3>3. \A k \in (p + 3)..(p + 5) - 1 : k = p + 3 \/ k = p + 4
      OBVIOUS
    <3>4. ~EndsWord(s, p + 3) /\ ~EndsWord(s, p + 4)
      BY <1>9, <1>19
    <3>. QED  BY <1>14, <1>18, <3>1, <3>2, <3>3, <3>4, WordIs
  <2>2. last = Token(s, p + 6, p + 7)
    <3>1. p + 6 \in Nat /\ p + 7 \in (p + 6)..got[s]
      BY <1>4
    <3>2. EndsWord(s, p + 7)
      BY <1>9
    <3>3. \A k \in (p + 6)..(p + 7) - 1 : k = p + 6
      OBVIOUS
    <3>4. ~EndsWord(s, p + 6)
      BY <1>9, <1>19
    <3>5. name.to + 1 = p + 6
      BY <2>1 DEF Token
    <3>. QED  BY <1>15, <3>1, <3>2, <3>3, <3>4, <3>5, WordIs
  <2>3. IsNumber(last)
    <3>1. \A k \in (p + 6)..(p + 7) : k = p + 6 \/ k = p + 7
      OBVIOUS
    <3>2. \A k \in (p + 6)..(p + 7) - 1 : k = p + 6
      OBVIOUS
    <3>3. ~EndsWord(s, p + 6)
      BY <1>9, <1>19
    <3>. QED  BY <1>10, <2>2, <3>1, <3>2, <3>3 DEF IsNumber, Token
  <2>4. RecordAt(p + 6) = r + 1 /\ last.of = s /\ last.from = p + 6 /\ last.to = p + 7
    BY <1>2, <2>2 DEF Token
  <2>5. WholeSize(last) /\ RecordOf(last) = x
    BY <1>1, <1>6, <2>2, <2>4, FieldsOfRecord DEF WholeSize, RecordOf
  <2>6. SizeTaken(last) = {AsInt(x.size)}
    BY <2>3, <2>5 DEF SizeTaken
  <2>7. /\ Tokens(s).addr = ip /\ Tokens(s).port = port
        /\ Tokens(s).name = name /\ Tokens(s).size = last
    BY <1>16 DEF Entry
  <2>8. /\ ip = WholeField(s, r + 1, "ip") /\ port = WholeField(s, r + 1, "port")
        /\ name = WholeField(s, r + 1, "name")
    BY <1>1, <1>11, <1>12, <2>1, FieldsOfRecord
  <2>9. last.to = 7 * (r + 1)
    BY <1>2, <2>4
  <2>. QED  BY <1>3, <1>5, <1>6, <1>17, <1>19, <2>6, <2>7, <2>8, <2>9
<1>20. CASE x.spaces # {}
  <2>1. ~IsNumber(last)
    <3>1. CASE 3 \in x.spaces
      <4>1. name = Token(s, p + 3, p + 3)
        <5>1. p + 3 \in Nat /\ p + 3 \in (p + 3)..got[s] /\ (p + 3)..(p + 3) - 1 = {}
          BY <1>4
        <5>2. EndsWord(s, p + 3)
          BY <1>9, <3>1
        <5>. QED  BY <1>14, <1>18, <5>1, <5>2, WordIs
      <4>2. name.to + 1 = p + 4
        BY <4>1 DEF Token
      <4>3. CASE 4 \in x.spaces
        <5>1. last = Token(s, p + 4, p + 4)
          <6>1. p + 4 \in Nat /\ p + 4 \in (p + 4)..got[s] /\ (p + 4)..(p + 4) - 1 = {}
            BY <1>4
          <6>2. EndsWord(s, p + 4)
            BY <1>9, <4>3
          <6>. QED  BY <1>15, <4>2, <6>1, <6>2, WordIs
        <5>2. ~IsDigits(s, p + 4) /\ p + 4 \in (p + 4)..(p + 4)
          BY <1>8, <1>10, <3>1, <4>3 DEF Misleads
        <5>. QED  BY <5>1, <5>2 DEF IsNumber, Token
      <4>4. CASE 4 \notin x.spaces
        <5>1. last = Token(s, p + 4, p + 5)
          <6>1. p + 4 \in Nat /\ p + 5 \in (p + 4)..got[s]
            BY <1>4
          <6>2. EndsWord(s, p + 5) /\ ~EndsWord(s, p + 4)
            BY <1>9, <4>4
          <6>3. \A k \in (p + 4)..(p + 5) - 1 : k = p + 4
            OBVIOUS
          <6>. QED  BY <1>15, <4>2, <6>1, <6>2, <6>3, WordIs
        <5>2. ~IsDigits(s, p + 4) \/ ~IsDigits(s, p + 5)
          BY <1>8, <1>10, <3>1 DEF Misleads
        <5>3. p + 4 \in (p + 4)..(p + 5) /\ p + 5 \in (p + 4)..(p + 5)
          OBVIOUS
        <5>. QED  BY <5>1, <5>2, <5>3 DEF IsNumber, Token
      <4>. QED  BY <4>3, <4>4
    <3>2. CASE 3 \notin x.spaces
      <4>0. 4 \in x.spaces
        BY <1>7, <1>20, <3>2
      <4>1. name = Token(s, p + 3, p + 4)
        <5>1. p + 3 \in Nat /\ p + 4 \in (p + 3)..got[s]
          BY <1>4
        <5>2. EndsWord(s, p + 4) /\ ~EndsWord(s, p + 3)
          BY <1>9, <3>2, <4>0
        <5>3. \A k \in (p + 3)..(p + 4) - 1 : k = p + 3
          OBVIOUS
        <5>. QED  BY <1>14, <1>18, <5>1, <5>2, <5>3, WordIs
      <4>2. name.to + 1 = p + 5
        BY <4>1 DEF Token
      <4>3. last = Token(s, p + 5, p + 5)
        <5>1. p + 5 \in Nat /\ p + 5 \in (p + 5)..got[s] /\ (p + 5)..(p + 5) - 1 = {}
          BY <1>4
        <5>2. EndsWord(s, p + 5)
          BY <1>9
        <5>. QED  BY <1>15, <4>2, <5>1, <5>2, WordIs
      <4>4. ~IsDigits(s, p + 5) /\ p + 5 \in (p + 5)..(p + 5)
        BY <1>8, <1>10, <3>2, <4>0 DEF Misleads
      <4>. QED  BY <4>3, <4>4 DEF IsNumber, Token
    <3>. QED  BY <3>1, <3>2
  <2>2. SizeTaken(last) = {-1}
    BY <2>1 DEF SizeTaken
  <2>. QED  BY <1>3, <1>5, <1>6, <1>16, <1>17, <1>20, <2>2 DEF Entry
<1>. QED  BY <1>19, <1>20
-----------------------------------------------------------------------------
(* A search takes a step beside the list and the download.                 *)
Beside ==
  /\ disturbed' = (disturbed \/ (dpc \notin {"none", "get", "call", "copy", "gone"} /\ owner' # owner))
  /\ UNCHANGED <<copyVars, dpc, dport, used, first, listing, spoiled>>
  /\ mixed \subseteq mixed' /\ Astray \subseteq Astray'

(* The array is cleared, or what is published stays.                       *)
Cleared == wiped' = TRUE /\ owner' # owner
PublishedStays ==
  /\ wiped' = wiped
  /\ mixed' = {} => count <= count' /\ \A n \in 0..count-1 : slots'[n] = slots[n]

LEMMA ReadersKeepInv ==
  ASSUME Inv, ArrayTypes', Beside, Cleared \/ PublishedStays
  PROVE  ListTypes' /\ ChildTypes' /\ ListInv' /\ ChildInv'
<1> USE DEF Inv
<1>1. ListTypes' /\ ChildTypes'
  BY DEF ListTypes, ChildTypes, Beside, Cleared, PublishedStays, listing
<1>2. ListInv'
  <2>1. CASE Cleared
    BY <2>1 DEF ListInv, Cleared
  <2>2. CASE PublishedStays
    <3> SUFFICES ASSUME lpc' # "idle", ~wiped', mixed' = {}, ~spoiled'
                 PROVE  /\ listed \in Seq(Items) /\ i = Len(listed) /\ i <= count' /\ atStart <= count'
                        /\ \A k \in 1..Len(listed) : listed[k] = slots'[k - 1]
                        /\ lpc \in {"size", "line"} => i < count'
                        /\ lpc = "line" => size = slots'[i]
      BY DEF ListInv, Beside, listing
    <3>1. lpc # "idle" /\ ~wiped /\ mixed = {} /\ ~spoiled
      BY <2>2 DEF Beside, listing, PublishedStays
    <3>2. /\ listed \in Seq(Items) /\ i = Len(listed) /\ i <= count /\ atStart <= count
          /\ \A k \in 1..Len(listed) : listed[k] = slots[k - 1]
          /\ lpc \in {"size", "line"} => i < count
          /\ lpc = "line" => size = slots[i]
      BY <3>1 DEF ListInv
    <3>3. count <= count' /\ \A n \in 0..count-1 : slots'[n] = slots[n]
      BY <2>2 DEF PublishedStays
    <3>4. count \in Nat /\ count' \in Nat /\ i \in Nat /\ atStart \in Nat /\ Len(listed) \in Nat
      BY <3>2 DEF ArrayTypes, ListTypes
    <3>. QED  BY <3>2, <3>3, <3>4
  <2>. QED  BY <2>1, <2>2
<1>3. ChildInv'
  <2>1. UNCHANGED <<dpc, dport, used, first, spoiled>>
    BY DEF Beside
  <2> SUFFICES ASSUME dpc \in Places, ~disturbed', mixed' = {}, Astray' = {}
               PROVE  /\ IsEntry(first) /\ used = ReadSoFar(first.entry)
                      /\ dpc # "call" => ~spoiled /\ Nr < count' /\ first = slots'[Nr]
                      /\ dpc = "bind" => dport = first.entry.port
    BY <2>1 DEF ChildInv, ReadSoFar
  <2>3. ~disturbed /\ mixed = {} /\ Astray = {}
    BY DEF Beside
  <2>4. /\ IsEntry(first) /\ used = ReadSoFar(first.entry)
        /\ dpc # "call" => ~spoiled /\ Nr < count /\ first = slots[Nr]
        /\ dpc = "bind" => dport = first.entry.port
    BY <2>3 DEF ChildInv
  <2>5. ASSUME dpc # "call" PROVE Nr < count' /\ first = slots'[Nr]
    <3>1. PublishedStays
      BY <2>5 DEF Cleared, Beside, Places
    <3>2. count <= count' /\ \A n \in 0..count-1 : slots'[n] = slots[n]
      BY <3>1 DEF PublishedStays
    <3>3. count \in Nat /\ count' \in Nat /\ Nr \in Nat
      BY DownloadsAssumption DEF ArrayTypes
    <3>. QED  BY <2>4, <2>5, <3>2, <3>3
  <2>. QED  BY <2>4, <2>5
<1>. QED  BY <1>1, <1>2, <1>3

(* A step of a search that clears nothing and ends no other one's.         *)
LEMMA SoloKept ==
  ASSUME SoloInv, mixed' = mixed, Active' \subseteq Active PROVE SoloInv'
BY DEF SoloInv

(* What a search does that neither clears nor fills the array.             *)
Quiet(s) ==
  ConnectFails(s) \/ Recv(s) \/ TakeRecord(s) \/ EndOfStream(s) \/ AnswerBreaks(s)
    \/ Test(s) \/ CountLoad(s) \/ ReadBack(s)

LEMMA QuietTypes == ASSUME Inv, NEW s \in Searches, Quiet(s) PROVE ArrayTypes'
<1> USE DEF Inv
<1>1. CASE ConnectFails(s)
  BY <1>1 DEF ConnectFails, ArrayTypes, Goto, Ended, array
<1>2. CASE Recv(s)
  <2>1. PICK n \in (got[s] + 1)..Length(s) : got' = [got EXCEPT ![s] = n]
    BY <1>2 DEF Recv
  <2>2. got[s] \in Nat /\ Length(s) \in Nat
    <3>1. s \in DOMAIN plan.answers
      BY <1>2 DEF Recv, ArrayTypes
    <3>2. plan.answers[s] \in Seq(Record)
      BY <3>1, ResultsAssumption DEF ArrayTypes, IsPlan
    <3>. QED  BY <3>2 DEF Length, Answer, ArrayTypes
  <2>. QED  BY <1>2, <2>1, <2>2 DEF Recv, ArrayTypes, array
<1>3. CASE TakeRecord(s)
  <2>1. LineEnds(s) # {} /\ pc[s] = "read"
    BY <1>3 DEF TakeRecord
  <2>2. PICK t \in FourWords : t = Tokens(s)
    BY <2>1, TokensTyped
  <2>3. t.size.to \in Nat /\ Torn \in Items
    BY DEF FourWords, Tokenized, Items
  <2>4. \A n \in SizeTaken(t.size) : Item([t EXCEPT !.size = Number(n)]) \in Items
    <3>1. \A n \in SizeTaken(t.size) : n \in Int
      BY <2>1, <2>2, SizeTyped
    <3>. QED  BY <3>1 DEF Item, Items, FourWords, Number, Numbers
  <2>5. /\ UNCHANGED <<plan, count, slots, counter, at, tmp, mixed, spoiled>>
        /\ \/ file' = file \/ file' = [file EXCEPT ![s] = Torn]
           \/ \E n \in SizeTaken(t.size) :
                file' = [file EXCEPT ![s] = Item([t EXCEPT !.size = Number(n)])]
        /\ cut' \in {cut, cut \cup {s}}
        /\ \E l \in {"test", "failed", "crashed"} : pc' = [pc EXCEPT ![s] = l]
        /\ got' = got \/ got' = [got EXCEPT ![s] = 0]
        /\ taken' = [taken EXCEPT ![s] = 0] \/ taken' = [taken EXCEPT ![s] = t.size.to]
    BY <1>3, <2>2 DEF TakeRecord, Leaves, Goto, array
  <2>6. file' \in [Searches -> Items]
    <3>1. file \in [Searches -> Items]
      BY DEF ArrayTypes
    <3>2. PICK item \in Items : file' = file \/ file' = [file EXCEPT ![s] = item]
      BY <2>3, <2>4, <2>5
    <3>. QED  BY <3>1, <3>2
  <2>7. pc' \in [Searches -> Filling \cup Ended \cup {"connect"}]
    <3>1. PICK l \in {"test", "failed", "crashed"} : pc' = [pc EXCEPT ![s] = l]
      BY <2>5
    <3>. QED  BY <3>1 DEF ArrayTypes, Filling, Ended
  <2>8. got' \in [Searches -> Nat] /\ taken' \in [Searches -> Nat]
    BY <2>3, <2>5 DEF ArrayTypes
  <2>9. \A o \in Searches : pc'[o] # "connect" => o \in DOMAIN plan'.answers
    BY <2>1, <2>5 DEF ArrayTypes
  <2>10. cut' \subseteq Searches
    BY <2>5 DEF ArrayTypes
  <2>. QED  BY <2>5, <2>6, <2>7, <2>8, <2>9, <2>10 DEF ArrayTypes
<1>4. CASE EndOfStream(s) \/ AnswerBreaks(s)
  BY <1>4 DEF EndOfStream, AnswerBreaks, Leaves, ArrayTypes, Goto, Ended, array
<1>5. CASE Test(s)
  BY <1>5 DEF Test, Leaves, ArrayTypes, Goto, Filling, Ended, array
<1>6. CASE CountLoad(s)
  BY <1>6 DEF CountLoad, ArrayTypes, Goto, Filling, array
<1>7. CASE ReadBack(s)
  BY <1>7 DEF ReadBack, Leaves, ArrayTypes, Goto, Filling, Ended, array
<1>. QED  BY <1>1, <1>2, <1>3, <1>4, <1>5, <1>6, <1>7 DEF Quiet

(* Where a search stands in its answer.                                    *)
LEMMA MisledStays == ASSUME UNCHANGED plan PROVE Misled' = Misled
BY DEF Misled, Answer

LEMMA AlignStays ==
  ASSUME AlignInv, ArrayTypes', UNCHANGED <<plan, got, taken>>, Astray \subseteq Astray',
         \A s \in Searches : pc'[s] = "connect" => pc[s] = "connect"
  PROVE  AlignInv'
<1> SUFFICES ASSUME NEW s \in Searches
             PROVE  /\ pc'[s] = "connect" => got'[s] = 0
                    /\ pc'[s] # "connect" => got'[s] <= Length(s)'
                    /\ s \notin Astray' => \E r \in Nat : taken'[s] = 7 * r
  BY DEF AlignInv
<1>1. Length(s)' = Length(s)
  BY DEF Length, Answer
<1>2. pc[s] = "connect" /\ pc'[s] # "connect" => 0 <= Length(s)'
  <2> SUFFICES ASSUME pc'[s] # "connect" PROVE 0 <= Length(s)'
    OBVIOUS
  <2>1. plan'.answers[s] \in Seq(Record)
    BY ResultsAssumption DEF ArrayTypes, IsPlan
  <2>2. Len(plan'.answers[s]) \in Nat
    BY <2>1
  <2>. QED  BY <2>2 DEF Length, Answer
<1>. QED  BY <1>1, <1>2 DEF AlignInv

(* A record that was there is taken as it is, or the search fails for it.  *)
LEMMA RecordTaken ==
  ASSUME ArrayTypes, AlignInv, NEW s \in Searches, TakeRecord(s), s \notin Astray'
  PROVE  \E r \in Nat :
           /\ taken[s] = 7 * r /\ r < Len(Answer(s)) /\ Answer(s)[r + 1] \in Record
           /\ \/ /\ AsInt(Answer(s)[r + 1].size) >= 0
                 /\ file' = [file EXCEPT ![s] = EntryOf(s, r + 1, AsInt(Answer(s)[r + 1].size))]
                 /\ taken' = [taken EXCEPT ![s] = 7 * (r + 1)]
                 /\ pc' = [pc EXCEPT ![s] = "test"] /\ got' = got
              \/ /\ Answer(s)[r + 1].spaces # {} \/ AsInt(Answer(s)[r + 1].size) < 0
                 /\ Leaves(s, "failed")
<1>1. /\ pc[s] = "read" /\ LineEnds(s) # {} /\ UNCHANGED plan
      /\ cut' = IF Arrived(s) THEN cut ELSE cut \cup {s}
  BY DEF TakeRecord
<1>2. s \notin Misled /\ s \notin cut' /\ s \notin Astray /\ Arrived(s)
  BY <1>1, MisledStays DEF Astray
<1>3. PICK r \in Nat : taken[s] = 7 * r
  BY <1>2 DEF AlignInv
<1>4. PICK t \in FourWords : t = Tokens(s)
  BY <1>1, TokensTyped
<1>5. PICK x \in Record : x = Answer(s)[r + 1]
  BY <1>1, <1>2, <1>3, WordsOfRecord
<1>6. /\ r < Len(Answer(s)) /\ ParseOutcomes(t.addr, t.port) = {"parsed"}
      /\ \/ /\ x.spaces = {} /\ t.size.to = 7 * (r + 1) /\ SizeTaken(t.size) = {AsInt(x.size)}
            /\ t.addr = WholeField(s, r + 1, "ip") /\ t.port = WholeField(s, r + 1, "port")
            /\ t.name = WholeField(s, r + 1, "name")
         \/ x.spaces # {} /\ SizeTaken(t.size) = {-1}
  BY <1>1, <1>2, <1>3, <1>4, <1>5, WordsOfRecord
<1>7. PICK n \in SizeTaken(t.size) :
        \/ n < 0 /\ Leaves(s, "failed")
        \/ /\ n >= 0
           /\ file' = [file EXCEPT ![s] = Item([t EXCEPT !.size = Number(n)])]
           /\ taken' = [taken EXCEPT ![s] = t.size.to]
           /\ pc' = [pc EXCEPT ![s] = "test"] /\ got' = got
  BY <1>4, <1>6 DEF TakeRecord, Goto
<1>8. n \in Int
  BY <1>1, <1>4, <1>7, SizeTyped
<1>9. CASE n >= 0
  <2>1. /\ n = AsInt(x.size) /\ t.size.to = 7 * (r + 1)
        /\ t.addr = WholeField(s, r + 1, "ip") /\ t.port = WholeField(s, r + 1, "port")
        /\ t.name = WholeField(s, r + 1, "name")
    BY <1>6, <1>9
  <2>2. [t EXCEPT !.size = Number(n)] =
          [addr |-> t.addr, port |-> t.port, name |-> t.name, size |-> Number(n)]
    BY DEF FourWords
  <2>3. Item([t EXCEPT !.size = Number(n)]) = EntryOf(s, r + 1, n)
    BY <2>1, <2>2 DEF EntryOf, Entry
  <2>4. taken' = [taken EXCEPT ![s] = 7 * (r + 1)]
    BY <1>7, <1>8, <1>9, <2>1
  <2>. QED  BY <1>3, <1>5, <1>6, <1>7, <1>8, <1>9, <2>1, <2>3, <2>4
<1>10. CASE n < 0
  <2>1. x.spaces # {} \/ AsInt(x.size) < 0
    BY <1>6, <1>7, <1>10
  <2>2. Leaves(s, "failed")
    BY <1>7, <1>8, <1>10
  <2>. QED  BY <1>3, <1>5, <1>6, <2>1, <2>2
<1>11. n >= 0 \/ n < 0
  BY <1>8
<1>. QED  BY <1>9, <1>10, <1>11

LEMMA QuietAlign ==
  ASSUME Inv, ArrayTypes', NEW s \in Searches, Quiet(s), Astray \subseteq Astray'
  PROVE  AlignInv'
<1> USE DEF Inv
<1>1. /\ UNCHANGED plan
      /\ \A o \in Searches \ {s} : pc'[o] = pc[o] /\ got'[o] = got[o] /\ taken'[o] = taken[o]
  <2>1. CASE TakeRecord(s)
    BY <2>1 DEF TakeRecord, Leaves, Goto, ArrayTypes
  <2>2. CASE ~TakeRecord(s)
    BY <2>2 DEF Quiet, ConnectFails, Recv, EndOfStream, AnswerBreaks, Test, CountLoad, ReadBack,
                Leaves, Goto, ArrayTypes
  <2>. QED  BY <2>1, <2>2
<1>2. \A o : Length(o)' = Length(o)
  BY <1>1 DEF Length, Answer
<1>3. pc'[s] # "connect" /\ Length(s)' \in Nat
  <2>1. pc'[s] # "connect"
    <3>1. CASE TakeRecord(s)
      BY <3>1 DEF TakeRecord, Leaves, Goto, ArrayTypes
    <3>2. CASE ~TakeRecord(s)
      BY <3>2 DEF Quiet, ConnectFails, Recv, EndOfStream, AnswerBreaks, Test, CountLoad, ReadBack,
                  Leaves, Goto, ArrayTypes
    <3>. QED  BY <3>1, <3>2
  <2>2. plan'.answers[s] \in Seq(Record)
    BY <2>1, ResultsAssumption DEF ArrayTypes, IsPlan
  <2>3. Len(plan'.answers[s]) \in Nat
    BY <2>2
  <2>. QED  BY <2>1, <2>3 DEF Length, Answer
<1>4. got'[s] <= Length(s)' /\ (s \notin Astray' => \E r \in Nat : taken'[s] = 7 * r)
  <2>0. /\ got[s] <= Length(s)'
        /\ s \notin Astray' => \E r \in Nat : taken[s] = 7 * r
    <3>1. /\ pc[s] = "connect" => got[s] = 0
          /\ pc[s] # "connect" => got[s] <= Length(s)
          /\ s \notin Astray => \E r \in Nat : taken[s] = 7 * r
      BY DEF AlignInv
    <3>2. got[s] <= Length(s)'
      BY <1>2, <1>3, <3>1
    <3>. QED  BY <3>1, <3>2
  <2>1. CASE got'[s] = 0 /\ taken'[s] = 0
    <3>1. taken'[s] = 7 * 0 /\ 0 \in Nat
      BY <2>1
    <3>2. got'[s] <= Length(s)'
      BY <1>3, <2>1
    <3>. QED  BY <3>1, <3>2
  <2>2. CASE Recv(s)
    <3>1. PICK m \in (got[s] + 1)..Length(s) : got' = [got EXCEPT ![s] = m]
      BY <2>2 DEF Recv
    <3>2. got[s] \in Nat /\ m <= Length(s) /\ got'[s] = m /\ taken' = taken
      BY <1>2, <1>3, <2>2, <3>1 DEF Recv, ArrayTypes
    <3>. QED  BY <1>2, <2>0, <3>2
  <2>3. CASE TakeRecord(s)
    <3>1. got'[s] = 0 \/ got'[s] = got[s]
      BY <2>3 DEF TakeRecord, Leaves, ArrayTypes
    <3>2. ASSUME s \notin Astray' PROVE \E r \in Nat : taken'[s] = 7 * r
      <4>0. ArrayTypes /\ AlignInv /\ taken \in [Searches -> Nat]
        BY DEF ArrayTypes
      <4>1. PICK r \in Nat : taken'[s] = 7 * (r + 1) \/ taken'[s] = 0
        <5>1. PICK r \in Nat :
                taken' = [taken EXCEPT ![s] = 7 * (r + 1)] \/ taken' = [taken EXCEPT ![s] = 0]
          BY <2>3, <3>2, <4>0, RecordTaken DEF Leaves
        <5>. QED  BY <4>0, <5>1
      <4>2. r + 1 \in Nat /\ 0 = 7 * 0
        OBVIOUS
      <4>. QED  BY <4>1, <4>2
    <3>. QED  BY <1>3, <2>0, <3>1, <3>2
  <2>4. CASE got' = got /\ taken' = taken
    BY <2>0, <2>4
  <2>. QED
    BY <2>1, <2>2, <2>3, <2>4
       DEF Quiet, ConnectFails, EndOfStream, AnswerBreaks, Test, CountLoad, ReadBack, Leaves, ArrayTypes
<1>. QED  BY <1>1, <1>2, <1>3, <1>4 DEF AlignInv

LEMMA QuietInv ==
  ASSUME Inv, NEW s \in Searches, Quiet(s), Beside PROVE Inv'
<1> USE DEF Inv
<1>0. ArrayTypes'
  BY QuietTypes
<1>1. /\ UNCHANGED <<plan, count, slots, at, mixed, owner, wiped, listing>>
      /\ \A o \in Searches \ {s} : /\ pc'[o] = pc[o] /\ counter'[o] = counter[o]
                                   /\ tmp'[o] = tmp[o] /\ file'[o] = file[o]
  <2>1. CASE TakeRecord(s)
    BY <2>1 DEF TakeRecord, Leaves, Goto, array, ArrayTypes
  <2>2. CASE ~TakeRecord(s)
    BY <2>2 DEF Quiet, ConnectFails, Recv, EndOfStream, AnswerBreaks, Test,
                CountLoad, ReadBack, Leaves, Goto, array, ArrayTypes
  <2>. QED  BY <2>1, <2>2
<1>2. \/ pc[s] = "connect" /\ pc'[s] = "silent"
      \/ pc[s] \in {"read", "test", "load", "get"} /\ pc'[s] # "connect"
  <2>1. CASE TakeRecord(s)
    BY <2>1 DEF TakeRecord, Leaves, Goto, ArrayTypes
  <2>2. CASE ~TakeRecord(s)
    BY <2>2 DEF Quiet, ConnectFails, Recv, EndOfStream, AnswerBreaks, Test,
                CountLoad, ReadBack, Leaves, Goto, ArrayTypes
  <2>. QED  BY <2>1, <2>2
<1>3. Active' \subseteq Active
  BY <1>1, <1>2 DEF Active, Filling
<1>4. OwnerInv' /\ SoloInv'
  BY <1>1, <1>2, <1>3, SoloKept DEF OwnerInv
<1>5. CountInv'
  <2> SUFFICES ASSUME s \notin mixed
               PROVE  /\ pc'[s] \in {"connect", "wipe"} => counter'[s] = 0
                      /\ pc'[s] = "wipe" => count = 0
                      /\ pc'[s] \in {"read", "test", "begin", "copy", "load", "store"} => count = counter'[s]
                      /\ pc'[s] = "store" => tmp'[s] = count
                      /\ pc'[s] = "get" => count = counter'[s] + 1
                      /\ pc'[s] = "crashed" => s \in Astray'
    BY <1>1 DEF CountInv, Beside
  <2>1. /\ pc[s] \in {"read", "test", "begin", "copy", "load", "store"} => count = counter[s]
        /\ pc[s] = "get" => count = counter[s] + 1
    BY DEF CountInv
  <2>2. CASE TakeRecord(s)
    <3>1. /\ pc[s] = "read" /\ LineEnds(s) # {} /\ counter' = counter
          /\ pc'[s] \in {"test", "failed", "crashed"}
      BY <2>2 DEF TakeRecord, Leaves, Goto, ArrayTypes
    <3>2. ASSUME s \notin Astray' PROVE pc'[s] # "crashed"
      <4>1. pc'[s] \in {"test", "failed"}
        BY <2>2, <3>2, RecordTaken DEF Leaves, Goto, ArrayTypes
      <4>. QED  BY <4>1
    <3>. QED  BY <2>1, <3>1, <3>2
  <2>3. CASE ReadBack(s)
    <3>1. counter[s] \in Nat /\ count = counter[s] + 1
      BY <2>1, <2>3 DEF ReadBack, ArrayTypes
    <3>2. Exists(counter[s])
      BY <3>1 DEF Exists
    <3>. QED  BY <2>3, <3>1, <3>2 DEF ReadBack, Goto, ArrayTypes
  <2>4. CASE CountLoad(s)
    BY <2>1, <2>4 DEF CountLoad, Goto, ArrayTypes
  <2>5. CASE ConnectFails(s) \/ Recv(s) \/ EndOfStream(s) \/ AnswerBreaks(s) \/ Test(s)
    BY <2>1, <2>5 DEF ConnectFails, Recv, EndOfStream, AnswerBreaks, Test, Leaves, Goto, ArrayTypes
  <2>. QED  BY <2>2, <2>3, <2>4, <2>5 DEF Quiet
<1>6. BoundInv'
  <2>0. TakeRecord(s) => pc'[s] \notin {"begin", "copy", "load", "store"}
    BY DEF TakeRecord, Leaves, Goto, ArrayTypes
  <2>1. pc'[s] = "begin" => ~Full
    BY <2>0 DEF Quiet, ConnectFails, Recv, EndOfStream, AnswerBreaks, Test,
                CountLoad, ReadBack, Leaves, Goto, ArrayTypes
  <2>2. pc'[s] \in {"copy", "load", "store"} => pc[s] = "load" /\ pc'[s] = "store"
    BY <2>0 DEF Quiet, ConnectFails, Recv, EndOfStream, AnswerBreaks, Test,
                CountLoad, ReadBack, Leaves, Goto, ArrayTypes
  <2>3. ~Full => count + 1 < Cap
    BY ResultsAssumption DEF Full, ArrayTypes
  <2>. QED  BY <1>1, <2>1, <2>2, <2>3 DEF BoundInv, Beside
<1>7. EntryInv'
  <2> SUFFICES ASSUME mixed = {}, Astray' = {}
               PROVE  /\ \A o \in Searches : pc'[o] \in {"test", "begin", "copy"} => IsEntry(file'[o])
                      /\ ~spoiled =>
                           /\ \A n \in 0..count-1 : IsEntry(slots[n])
                           /\ \A o \in Searches : pc'[o] \in {"load", "store"} => IsEntry(slots[count])
    BY <1>1 DEF EntryInv, Beside, IsEntry
  <2>0. Astray = {}
    BY DEF Beside
  <2>1. pc'[s] \in {"test", "begin", "copy"} => IsEntry(file'[s])
    <3>1. CASE TakeRecord(s)
      <4>0. s \notin Astray'
        OBVIOUS
      <4>1. (\E r, n : file' = [file EXCEPT ![s] = EntryOf(s, r, n)]) \/ Leaves(s, "failed")
        BY <3>1, <4>0, RecordTaken
      <4>2. CASE Leaves(s, "failed")
        BY <4>2 DEF Leaves, Goto, ArrayTypes
      <4>3. CASE \E r, n : file' = [file EXCEPT ![s] = EntryOf(s, r, n)]
        BY <4>3 DEF ArrayTypes, IsEntry, EntryOf, Item
      <4>. QED  BY <4>1, <4>2, <4>3
    <3>2. CASE Test(s)
      BY <2>0, <3>2 DEF Test, Goto, Leaves, ArrayTypes, EntryInv
    <3>. QED
      BY <3>1, <3>2
         DEF Quiet, ConnectFails, Recv, EndOfStream, AnswerBreaks, CountLoad, ReadBack,
             Leaves, Goto, ArrayTypes
  <2>2. pc'[s] \in {"load", "store"} => pc[s] = "load"
    <3>1. TakeRecord(s) => pc'[s] \notin {"load", "store"}
      BY DEF TakeRecord, Leaves, Goto, ArrayTypes
    <3>. QED
      BY <3>1 DEF Quiet, ConnectFails, Recv, EndOfStream, AnswerBreaks, Test,
                  CountLoad, ReadBack, Leaves, Goto, ArrayTypes
  <2>. QED  BY <1>1, <2>0, <2>1, <2>2 DEF EntryInv
<1>8. PublishedStays
  BY <1>1 DEF PublishedStays, ArrayTypes
<1>9. ListTypes' /\ ChildTypes' /\ ListInv' /\ ChildInv'
  BY <1>0, <1>8, ReadersKeepInv
<1>10. AlignInv'
  BY <1>0, QuietAlign DEF Beside
<1>. QED  BY <1>0, <1>4, <1>5, <1>6, <1>7, <1>9, <1>10

(* clearArray.                                                             *)
LEMMA ClearCountInv ==
  ASSUME Inv, NEW s \in Searches, ClearCount(s), Beside PROVE Inv'
<1> USE DEF Inv
<1>0. /\ pc[s] = "connect" /\ pc' = [pc EXCEPT ![s] = "wipe"]
      /\ count' = 0 /\ wiped' = TRUE /\ owner' = s
      /\ mixed' = IF Active = {} THEN mixed ELSE mixed \cup Active \cup {s}
      /\ UNCHANGED <<plan, slots, got, taken, file, counter, at, tmp, cut>>
      /\ s \in DOMAIN plan.answers
  BY DEF ClearCount, Goto
<1>1. ArrayTypes'
  BY <1>0 DEF ArrayTypes, Filling, Beside, Active
<1>2. owner' # owner
  BY <1>0 DEF OwnerInv
<1>3. OwnerInv'
  BY <1>0 DEF OwnerInv, ArrayTypes
<1>4. Active' = Active \cup {s}
  BY <1>0 DEF Active, Filling, ArrayTypes
<1>5. SoloInv'
  BY <1>0, <1>4 DEF SoloInv
<1>6. \A o \in Searches \ mixed' : o = s \/ (o \notin Active /\ pc'[o] = pc[o])
  BY <1>0 DEF ArrayTypes
<1>7. CountInv'
  <2>1. counter[s] = 0 \/ s \in mixed
    BY <1>0 DEF CountInv
  <2>. QED  BY <1>0, <1>6, <2>1 DEF CountInv, Active, Filling, ArrayTypes, Beside
<1>8. BoundInv' /\ EntryInv'
  <2> SUFFICES ASSUME mixed' = {} PROVE BoundInv' /\ EntryInv'
    BY DEF BoundInv, EntryInv
  <2>1. Active = {} /\ mixed = {}
    BY <1>0
  <2>2. \A o \in Searches : pc'[o] \notin {"test", "begin", "copy", "load", "store"}
    BY <1>0, <2>1 DEF Active, Filling, ArrayTypes
  <2>. QED  BY <1>0, <2>1, <2>2, ResultsAssumption DEF BoundInv, EntryInv, Beside
<1>9. ListTypes' /\ ChildTypes' /\ ListInv' /\ ChildInv'
  BY <1>0, <1>1, <1>2, ReadersKeepInv DEF Cleared
<1>10. AlignInv'
  BY <1>0, <1>1, AlignStays DEF Beside, ArrayTypes
<1>. QED  BY <1>1, <1>3, <1>5, <1>7, <1>8, <1>9, <1>10

LEMMA ClearMemoryInv ==
  ASSUME Inv, NEW s \in Searches, ClearMemory(s), Beside PROVE Inv'
<1> USE DEF Inv
<1>0. /\ pc[s] = "wipe" /\ pc' = [pc EXCEPT ![s] = "read"]
      /\ slots' = [n \in Slots |-> IF n < Cap THEN Blank ELSE slots[n]]
      /\ UNCHANGED <<plan, count, got, taken, file, counter, at, tmp, cut, mixed, wiped, owner>>
  BY DEF ClearMemory, Goto
<1>1. ArrayTypes'
  BY <1>0 DEF ArrayTypes, Filling, Items, Beside
<1>2. Active' \subseteq Active /\ s \in Active
  BY <1>0 DEF Active, Filling, ArrayTypes
<1>3. OwnerInv' /\ SoloInv'
  BY <1>0, <1>2, SoloKept DEF OwnerInv, ArrayTypes
<1>4. CountInv'
  BY <1>0 DEF CountInv, ArrayTypes, Beside
<1>5. mixed = {} => count = 0 /\ Active = {s}
  BY <1>0, <1>2 DEF CountInv, SoloInv
<1>6. mixed = {} => \A o \in Searches : pc'[o] \notin {"test", "begin", "copy", "load", "store"}
  BY <1>0, <1>5 DEF Active, Filling, ArrayTypes
<1>7. BoundInv' /\ EntryInv'
  BY <1>0, <1>5, <1>6, SlotsOfArray, ResultsAssumption DEF BoundInv, EntryInv, Beside
<1>8. PublishedStays
  BY <1>0, <1>5 DEF PublishedStays
<1>9. ListTypes' /\ ChildTypes' /\ ListInv' /\ ChildInv'
  BY <1>1, <1>8, ReadersKeepInv
<1>10. AlignInv'
  BY <1>0, <1>1, AlignStays DEF Beside, ArrayTypes
<1>. QED  BY <1>1, <1>3, <1>4, <1>7, <1>9, <1>10

(* addArrayItem.                                                           *)
LEMMA CopyBeginInv ==
  ASSUME Inv, NEW s \in Searches, CopyBegin(s), Beside PROVE Inv'
<1> USE DEF Inv
<1>0. /\ pc[s] = "begin" /\ pc' = [pc EXCEPT ![s] = "copy"]
      /\ at' = [at EXCEPT ![s] = count] /\ slots' = [slots EXCEPT ![count] = Torn]
      /\ UNCHANGED <<plan, count, got, taken, file, counter, tmp, cut, mixed, wiped, owner>>
  BY DEF CopyBegin, Goto
<1>1. ArrayTypes'
  BY <1>0 DEF ArrayTypes, Filling, Items, Beside
<1>2. Active' \subseteq Active /\ s \in Active
  BY <1>0 DEF Active, Filling, ArrayTypes
<1>3. OwnerInv' /\ SoloInv'
  BY <1>0, <1>2, SoloKept DEF OwnerInv, ArrayTypes
<1>4. CountInv'
  BY <1>0 DEF CountInv, ArrayTypes, Beside
<1>5. mixed = {} => Active = {s}
  BY <1>2 DEF SoloInv
<1>6. mixed = {} => \A o \in Searches \ {s} : pc'[o] \notin {"test", "begin", "copy", "load", "store"}
  BY <1>0, <1>5 DEF Active, Filling, ArrayTypes
<1>7. count \in Nat /\ (mixed = {} => count + 1 < Cap /\ count \in Slots)
  BY <1>0, SlotsOfArray, ResultsAssumption DEF BoundInv, ArrayTypes
<1>8. BoundInv'
  BY <1>0, <1>6, <1>7, SlotsOfArray, ResultsAssumption DEF BoundInv, Beside, ArrayTypes
<1>9. EntryInv'
  BY <1>0, <1>6, <1>7 DEF EntryInv, Beside, ArrayTypes
<1>10. PublishedStays
  BY <1>0, <1>7 DEF PublishedStays, ArrayTypes
<1>11. ListTypes' /\ ChildTypes' /\ ListInv' /\ ChildInv'
  BY <1>1, <1>10, ReadersKeepInv
<1>12. AlignInv'
  BY <1>0, <1>1, AlignStays DEF Beside, ArrayTypes
<1>. QED  BY <1>1, <1>3, <1>4, <1>8, <1>9, <1>11, <1>12

LEMMA CopyEndInv ==
  ASSUME Inv, NEW s \in Searches, CopyEnd(s), Beside PROVE Inv'
<1> USE DEF Inv
<1>0. /\ pc[s] = "copy" /\ pc' = [pc EXCEPT ![s] = "load"]
      /\ file' = [file EXCEPT ![s] = NoFile] /\ at' = [at EXCEPT ![s] = 0]
      /\ UNCHANGED <<plan, count, got, taken, counter, tmp, cut, mixed, wiped, owner>>
  BY DEF CopyEnd, Goto
<1> DEFINE alone == /\ slots[at[s]] = Torn
                    /\ \A o \in Searches \ {s} : ~(pc[o] = "copy" /\ at[o] = at[s])
<1>1. PICK item \in {file[s], Torn} :
        slots' = [slots EXCEPT ![at[s]] = item] /\ (alone => item = file[s])
  BY DEF CopyEnd
<1> HIDE DEF alone
<1>2. ArrayTypes'
  BY <1>0, <1>1 DEF ArrayTypes, Filling, Items, NoFile, Beside
<1>3. Active' \subseteq Active /\ s \in Active
  BY <1>0 DEF Active, Filling, ArrayTypes
<1>4. OwnerInv' /\ SoloInv'
  BY <1>0, <1>3, SoloKept DEF OwnerInv, ArrayTypes
<1>5. CountInv'
  BY <1>0 DEF CountInv, ArrayTypes, Beside
<1>6. mixed = {} =>
        /\ at[s] = count /\ count \in Slots /\ count + 1 < Cap
        /\ \A o \in Searches \ {s} : pc[o] \notin {"test", "begin", "copy", "load", "store"}
        /\ item = file[s]
  <2> SUFFICES ASSUME mixed = {}
               PROVE  /\ at[s] = count /\ count \in Slots /\ count + 1 < Cap
                      /\ \A o \in Searches \ {s} : pc[o] \notin {"test", "begin", "copy", "load", "store"}
                      /\ item = file[s]
    OBVIOUS
  <2>1. Active = {s}
    BY <1>3 DEF SoloInv
  <2>2. \A o \in Searches \ {s} : pc[o] \notin {"test", "begin", "copy", "load", "store"}
    BY <2>1 DEF Active, Filling
  <2>3. at[s] = count /\ slots[count] = Torn /\ count + 1 < Cap
    BY <1>0 DEF BoundInv
  <2>4. count \in Slots
    BY <2>3, SlotsOfArray, ResultsAssumption DEF ArrayTypes
  <2>. QED  BY <1>1, <2>2, <2>3, <2>4 DEF alone
<1>7. count \in Nat
  BY DEF ArrayTypes
<1>8. BoundInv'
  BY <1>0, <1>1, <1>6, <1>7, SlotsOfArray, ResultsAssumption DEF BoundInv, Beside, ArrayTypes
<1>9. EntryInv'
  BY <1>0, <1>1, <1>6, <1>7 DEF EntryInv, Beside, ArrayTypes
<1>10. PublishedStays
  BY <1>0, <1>1, <1>6, <1>7 DEF PublishedStays, ArrayTypes
<1>11. ListTypes' /\ ChildTypes' /\ ListInv' /\ ChildInv'
  BY <1>2, <1>10, ReadersKeepInv
<1>12. AlignInv'
  BY <1>0, <1>2, AlignStays DEF Beside, ArrayTypes
<1>. QED  BY <1>2, <1>4, <1>5, <1>8, <1>9, <1>11, <1>12

LEMMA CountStoreInv ==
  ASSUME Inv, NEW s \in Searches, CountStore(s), Beside PROVE Inv'
<1> USE DEF Inv
<1>0. /\ pc[s] = "store" /\ pc' = [pc EXCEPT ![s] = "get"]
      /\ count' = tmp[s] + 1 /\ tmp' = [tmp EXCEPT ![s] = 0]
      /\ UNCHANGED <<plan, slots, got, taken, file, counter, at, cut, mixed, wiped, owner>>
  BY DEF CountStore, Goto
<1>1. ArrayTypes'
  BY <1>0 DEF ArrayTypes, Filling, Beside
<1>2. Active' \subseteq Active /\ s \in Active
  BY <1>0 DEF Active, Filling, ArrayTypes
<1>3. OwnerInv' /\ SoloInv'
  BY <1>0, <1>2, SoloKept DEF OwnerInv, ArrayTypes
<1>4. \A o \in Searches \ mixed : o = s \/ pc[o] \notin Filling
  BY <1>2 DEF SoloInv, Active
<1>5. CountInv'
  BY <1>0, <1>4 DEF CountInv, ArrayTypes, Filling, Beside
<1>6. mixed = {} =>
        /\ count' = count + 1 /\ count + 1 < Cap
        /\ \A o \in Searches \ {s} : pc[o] \notin Filling
  BY <1>0, <1>4 DEF CountInv, BoundInv, ArrayTypes
<1>7. count \in Nat
  BY DEF ArrayTypes
<1>8. BoundInv'
  BY <1>0, <1>6, <1>7, ResultsAssumption DEF BoundInv, Beside, ArrayTypes, Filling
<1>9. EntryInv'
  BY <1>0, <1>6, <1>7 DEF EntryInv, Beside, ArrayTypes, Filling
<1>10. PublishedStays
  BY <1>0, <1>6, <1>7 DEF PublishedStays
<1>11. ListTypes' /\ ChildTypes' /\ ListInv' /\ ChildInv'
  BY <1>1, <1>10, ReadersKeepInv
<1>12. AlignInv'
  BY <1>0, <1>1, AlignStays DEF Beside, ArrayTypes
<1>. QED  BY <1>1, <1>3, <1>5, <1>8, <1>9, <1>11, <1>12

LEMMA FetchInv ==
  ASSUME Inv, NEW s \in Searches, Fetch(s), ResultsMove PROVE Inv'
<1>1. Beside
  <2>1. mixed \subseteq mixed' /\ cut \subseteq cut' /\ UNCHANGED <<plan, listing, spoiled>>
    BY DEF Fetch, ConnectFails, ClearCount, ClearMemory, Recv, TakeRecord, EndOfStream,
           AnswerBreaks, Test, CopyBegin, CopyEnd, CountLoad, CountStore, ReadBack
  <2>2. Astray \subseteq Astray'
    BY <2>1, MisledStays DEF Astray
  <2>. QED  BY <2>1, <2>2 DEF Beside, ResultsMove
<1>2. Quiet(s) \/ ClearCount(s) \/ ClearMemory(s) \/ CopyBegin(s) \/ CopyEnd(s) \/ CountStore(s)
  BY DEF Fetch, Quiet
<1>. QED
  BY <1>1, <1>2, QuietInv, ClearCountInv, ClearMemoryInv, CopyBeginInv, CopyEndInv, CountStoreInv
-----------------------------------------------------------------------------
(* RESULTS changes nothing that searches or the download depend on.        *)
Listing ==
  /\ UNCHANGED <<plan, array, fetching, spoiled, owner, dpc, dport, used, first>>
  /\ disturbed' = disturbed

LEMMA ListingInv ==
  ASSUME Inv, Listing, ListTypes', ListInv' PROVE Inv'
<1> USE DEF Inv, Listing, array, fetching
<1>1. ArrayTypes'
  BY DEF ArrayTypes
<1>0. Astray' = Astray
  BY MisledStays DEF Astray
<1>2. OwnerInv' /\ SoloInv' /\ CountInv'
  BY <1>0 DEF OwnerInv, SoloInv, Active, CountInv
<1>3. BoundInv' /\ EntryInv'
  BY <1>0 DEF BoundInv, EntryInv
<1>4. ChildTypes' /\ ChildInv'
  BY <1>0 DEF ChildTypes, ChildInv, ReadSoFar
<1>5. AlignInv'
  BY <1>0, <1>1, AlignStays
<1>. QED  BY <1>1, <1>2, <1>3, <1>4, <1>5

LEMMA ListStepInv ==
  ASSUME Inv, ListStart \/ List, ResultsMove PROVE Inv'
<1> USE DEF Inv
<1>1. Listing
  <2>1. UNCHANGED <<plan, array, fetching, spoiled, owner>>
    BY DEF ListStart, List, ListFetch, ListSize, ListLine
  <2>2. disturbed' = disturbed
    BY <2>1 DEF ResultsMove, ChildTypes
  <2>. QED  BY <2>1, <2>2 DEF Listing, ResultsMove
<1>2. count \in Nat /\ i \in Nat /\ UNCHANGED <<count, slots>>
  BY <1>1 DEF Listing, array, ArrayTypes, ListTypes
<1>3. ListTypes'
  <2>1. lpc' \in {"idle", "fetch", "size", "line"}
    BY DEF ListStart, List, ListFetch, ListSize, ListLine
  <2>2. i' \in Nat
    BY <1>2 DEF ListStart, List, ListFetch, ListSize, ListLine
  <2>3. wiped' \in BOOLEAN /\ atStart' \in Nat
    BY <1>2 DEF ListTypes, ListStart, List, ListFetch, ListSize, ListLine
  <2>. QED  BY <2>1, <2>2, <2>3 DEF ListTypes
<1>4. ListInv'
  <2>1. CASE ListStart
    BY <1>2, <2>1, EmptySeq DEF ListStart, ListInv
  <2>2. CASE ListFetch
    BY <1>2, <2>2 DEF ListFetch, ListInv, Exists, fetching
  <2>3. CASE ListSize
    BY <1>2, <2>3 DEF ListSize, ListInv, fetching
  <2>4. CASE ListLine
    <3> SUFFICES ASSUME ~wiped, mixed = {}, ~spoiled
                 PROVE  /\ listed' \in Seq(Items) /\ i' = Len(listed')
                        /\ i' <= count /\ atStart <= count
                        /\ \A k \in 1..Len(listed') : listed'[k] = slots[k - 1]
      BY <1>2, <2>4 DEF ListInv, ListLine, fetching
    <3>1. /\ listed \in Seq(Items) /\ i = Len(listed) /\ i < count /\ atStart <= count
          /\ \A k \in 1..Len(listed) : listed[k] = slots[k - 1]
          /\ listed' = Append(listed, slots[i]) /\ i' = i + 1
      BY <2>4 DEF ListInv, ListLine
    <3>2. slots[i] \in Items
      <4>1. i < Cap
        BY <1>2, <3>1, ResultsAssumption DEF BoundInv
      <4>. QED  BY <1>2, <4>1, SlotsOfArray DEF ArrayTypes
    <3>3. /\ listed' \in Seq(Items) /\ Len(listed') = Len(listed) + 1
          /\ \A k \in 1..Len(listed) : listed'[k] = listed[k]
          /\ listed'[Len(listed) + 1] = slots[i]
      BY <3>1, <3>2, AppendProperties
    <3>. QED  BY <1>2, <3>1, <3>3
  <2>. QED  BY <2>1, <2>2, <2>3, <2>4 DEF List
<1>. QED  BY <1>1, <1>3, <1>4, ListingInv
-----------------------------------------------------------------------------
(* The child of a download moves, and may store a port.                    *)
Downloading ==
  /\ UNCHANGED <<plan, count, fetching, listing, wiped, owner>>
  /\ slots' \in [Slots -> Items]
  /\ spoiled' = (spoiled \/ slots' # slots)

LEMMA DownloadingInv ==
  ASSUME Inv, Downloading, ChildTypes', ChildInv',
         mixed = {} =>
           /\ dpc' \in Places => Nr < Cap
           /\ \A n \in Slots : slots'[n] = slots[n] \/ (n < Cap /\ slots'[n] = Torn)
  PROVE  Inv'
<1> USE DEF Inv, Downloading, fetching, listing
<1>1. ArrayTypes' /\ ListTypes'
  BY DEF ArrayTypes, ListTypes
<1>0. Astray' = Astray
  BY MisledStays DEF Astray
<1>2. OwnerInv' /\ SoloInv' /\ CountInv'
  BY <1>0 DEF OwnerInv, SoloInv, Active, CountInv
<1>3. BoundInv'
  <2>1. mixed = {} => \A s \in Searches : pc[s] = "copy" => count \in Slots
    BY SlotsOfArray, ResultsAssumption DEF BoundInv, ArrayTypes
  <2>. QED  BY <2>1, SlotsOfArray, ResultsAssumption DEF BoundInv, ArrayTypes
<1>4. EntryInv' /\ ListInv'
  BY <1>0 DEF EntryInv, ListInv
<1>5. AlignInv'
  BY <1>0, <1>1, AlignStays
<1>. QED  BY <1>1, <1>2, <1>3, <1>4, <1>5

LEMMA ResultsStay ==
  ASSUME Inv, UNCHANGED resultVars
  PROVE  Downloading /\ \A n \in Slots : slots'[n] = slots[n]
BY DEF Inv, ArrayTypes, Downloading, resultVars, array

LEMMA AppendedIs ==
  ASSUME NEW S, NEW s \in Seq(S), NEW e \in S, NEW t \in Seq(S),
         Len(t) = Len(s) + 1, \A k \in 1..Len(s) : s[k] = t[k], t[Len(t)] = e
  PROVE  Append(s, e) = t
<1>1. /\ Append(s, e) \in Seq(S) /\ Len(Append(s, e)) = Len(s) + 1
      /\ \A k \in 1..Len(s) : Append(s, e)[k] = s[k]
      /\ Append(s, e)[Len(s) + 1] = e
  BY AppendProperties
<1>2. \A k \in 1..Len(t) : Append(s, e)[k] = t[k]
  <2>1. Len(s) \in Nat
    OBVIOUS
  <2>2. \A k \in 1..Len(t) : k \in 1..Len(s) \/ k = Len(s) + 1
    BY <2>1
  <2>. QED  BY <1>1, <2>2
<1>. QED  BY <1>1, <1>2, SeqEqual

LEMMA OneMoreRead ==
  /\ \A a, b : Append(<<a>>, b) = <<a, b>>
  /\ \A a, b, c, d : Append(<<a, b, c>>, d) = <<a, b, c, d>>
<1>1. ASSUME NEW a, NEW b PROVE Append(<<a>>, b) = <<a, b>>
  <2> DEFINE all == {a, b}  s == <<a>>  t == <<a, b>>
  <2>1. s \in Seq(all) /\ t \in Seq(all) /\ Len(s) = 1 /\ Len(t) = 2 /\ b \in all
    OBVIOUS
  <2>2. s[1] = a /\ t[1] = a /\ t[2] = b
    OBVIOUS
  <2> HIDE DEF all, s, t
  <2>3. Len(t) = Len(s) + 1 /\ t[Len(t)] = b /\ \A k \in 1..Len(s) : s[k] = t[k]
    BY <2>1, <2>2
  <2>4. Append(s, b) = t
    BY <2>1, <2>3, AppendedIs, Zenon
  <2>. QED  BY <2>4 DEF s, t
<1>2. ASSUME NEW a, NEW b, NEW c, NEW d PROVE Append(<<a, b, c>>, d) = <<a, b, c, d>>
  <2> DEFINE all == {a, b, c, d}  s == <<a, b, c>>  t == <<a, b, c, d>>
  <2>1. s \in Seq(all) /\ t \in Seq(all) /\ Len(s) = 3 /\ Len(t) = 4 /\ d \in all
    OBVIOUS
  <2>2. s[1] = a /\ s[2] = b /\ s[3] = c /\ t[1] = a /\ t[2] = b /\ t[3] = c /\ t[4] = d
    OBVIOUS
  <2> HIDE DEF all, s, t
  <2>3. Len(t) = Len(s) + 1 /\ t[Len(t)] = d /\ \A k \in 1..Len(s) : s[k] = t[k]
    BY <2>1, <2>2
  <2>4. Append(s, d) = t
    BY <2>1, <2>3, AppendedIs, Zenon
  <2>. QED  BY <2>4 DEF s, t
<1>. QED  BY <1>1, <1>2

LEMMA ReadStepInv ==
  ASSUME Inv, OpenFile \/ ReadPort \/ Connect \/ GetSigfd \/ ReadSize PROVE Inv'
<1> USE DEF Inv
<1>1. UNCHANGED resultVars /\ Downloading /\ \A n \in Slots : slots'[n] = slots[n]
  BY ResultsStay DEF OpenFile, ReadPort, Connect, GetSigfd, ReadSize, DownloadsOnly
<1>0. Astray' = Astray
  BY <1>1, MisledStays DEF Astray, resultVars, fetching
<1>2. /\ dpc \in Places /\ dpc' \in Places \cup {"gone"}
      /\ dpc' \in Places => first' = first /\ disturbed' = disturbed
      /\ dpc' = "gone" => disturbed' = FALSE
  BY DEF OpenFile, ReadPort, Connect, GetSigfd, ReadSize, Child, Places, Forget
<1>3. ChildTypes'
  BY <1>2 DEF ChildTypes
<1>4. ChildInv'
  <2>1. dpc' \notin {"none", "get"}
    BY <1>2 DEF Places
  <2> SUFFICES ASSUME dpc' \in Places, ~disturbed', mixed = {}, Astray = {}
               PROVE  /\ IsEntry(first) /\ used' = ReadSoFar(first.entry)'
                      /\ dpc' # "call" => ~spoiled /\ Nr < count /\ first = slots[Nr]
                      /\ dpc' = "bind" => dport' = first.entry.port
    BY <1>0, <1>1, <1>2, <2>1 DEF ChildInv, resultVars, fetching, array
  <2>2. /\ IsEntry(first) /\ used = ReadSoFar(first.entry)
        /\ dpc # "call" => ~spoiled /\ Nr < count /\ first = slots[Nr]
    BY <1>2 DEF ChildInv
  <2>3. dpc # "call"
    BY DEF OpenFile, ReadPort, Connect, GetSigfd, ReadSize, Child
  <2>4. \A f : Field(f) = first.entry[f]
    BY <2>2, <2>3 DEF Field, IsEntry
  <2>5. CASE OpenFile
    BY <1>2, <2>2, <2>4, <2>5 DEF OpenFile, Read, ReadSoFar, Places
  <2>6. CASE ReadPort
    <3>1. used' = <<first.entry.name, first.entry.port>> /\ dport' = first.entry.port
      <4>1. used = <<first.entry.name>> /\ Field("port") = first.entry.port
        BY <2>2, <2>4, <2>6 DEF ReadPort, Child, ReadSoFar
      <4>2. used' = Append(used, Field("port")) /\ dport' = Field("port")
        BY <2>6 DEF ReadPort, Read
      <4>. QED  BY <4>1, <4>2, OneMoreRead
    <3>. QED  BY <1>2, <2>2, <2>3, <2>6, <3>1 DEF ReadPort, Child, ReadSoFar
  <2>7. CASE Connect
    BY <1>2, <2>2, <2>4, <2>7 DEF Connect, Read, ReadSoFar, Places
  <2>8. CASE GetSigfd
    BY <1>2, <2>2, <2>4, <2>8 DEF GetSigfd, Child, ReadSoFar, Places
  <2>9. CASE ReadSize
    <3>1. used' = <<first.entry.name, first.entry.port, first.entry.addr, first.entry.size>>
      <4>1. /\ used = <<first.entry.name, first.entry.port, first.entry.addr>>
            /\ Field("size") = first.entry.size
        BY <2>2, <2>4, <2>9 DEF ReadSize, Child, ReadSoFar
      <4>2. used' = Append(used, Field("size"))
        BY <2>9 DEF ReadSize, Read
      <4>. QED  BY <4>1, <4>2, OneMoreRead
    <3>. QED  BY <1>2, <2>2, <2>9, <3>1 DEF ReadSize, Child, ReadSoFar
  <2>. QED  BY <2>5, <2>6, <2>7, <2>8, <2>9
<1>. QED  BY <1>1, <1>2, <1>3, <1>4, DownloadingInv DEF BoundInv

LEMMA StorePortInv == ASSUME Inv, StorePort PROVE Inv'
<1> USE DEF Inv
<1> DEFINE item == IF slots[Nr].kind = "entry" /\ dport = Field("port") THEN slots[Nr] ELSE Torn
<1>1. /\ slots' = [slots EXCEPT ![Nr] = item]
      /\ dpc = "bind" /\ dpc' = "connect"
      /\ spoiled' = (spoiled \/ slots' # slots)
      /\ UNCHANGED <<plan, count, fetching, listing, wiped, owner, used, first, disturbed>>
  BY DEF StorePort, Child
<1>2. Nr \in Slots => slots[Nr] \in Items
  BY DEF ArrayTypes
<1>3. item \in {slots[Nr], Torn} /\ Torn \in Items
  BY DEF Items
<1>4. Downloading
  BY <1>1, <1>2, <1>3 DEF Downloading, ArrayTypes
<1>5. ChildTypes'
  BY <1>1 DEF ChildTypes, Places
<1>6. mixed = {} => Nr < Cap
  BY <1>1 DEF BoundInv, Places
<1>7. \A n \in Slots : slots'[n] = slots[n] \/ (n = Nr /\ slots'[n] = Torn)
  BY <1>1, <1>3 DEF ArrayTypes
<1>8. ChildInv'
  <2>0. Astray' = Astray
    BY <1>1, MisledStays DEF Astray, fetching
  <2> SUFFICES ASSUME ~disturbed, mixed = {}, Astray = {}
               PROVE  /\ IsEntry(first) /\ used = ReadSoFar(first.entry)'
                      /\ ~spoiled' /\ Nr < count /\ first = slots'[Nr]
    BY <1>1, <2>0 DEF ChildInv, fetching
  <2>1. /\ IsEntry(first) /\ used = ReadSoFar(first.entry)
        /\ ~spoiled /\ Nr < count /\ first = slots[Nr] /\ dport = first.entry.port
    BY <1>1 DEF ChildInv, Places
  <2>2. item = slots[Nr]
    BY <2>1 DEF IsEntry, Field
  <2>3. slots' = slots
    BY <1>1, <2>2 DEF ArrayTypes
  <2>. QED  BY <1>1, <2>1, <2>3 DEF ReadSoFar
<1>. QED  BY <1>1, <1>4, <1>5, <1>6, <1>7, <1>8, DownloadingInv

(* The steps before and behind the reading of the entry.                   *)
Apart ==
  \/ Download \/ Lookup \/ StartCopy \/ ExitChild \/ KilledByShow \/ CopyStep \/ CopyEvent
  \/ UNCHANGED vars

LEMMA ApartInv == ASSUME Inv, Apart PROVE Inv'
<1> USE DEF Inv
<1>1. UNCHANGED resultVars
  BY DEF Apart, Download, Lookup, StartCopy, ExitChild, KilledByShow, CopyStep, CopyEvent,
         DownloadsOnly, vars
<1>2. Downloading /\ \A n \in Slots : slots'[n] = slots[n]
  BY <1>1, ResultsStay
<1>3. \/ dpc' \in {"copy", "gone"} /\ disturbed' \in BOOLEAN
      \/ dpc = "none" /\ dpc' = "get" /\ UNCHANGED <<dport, used, first, disturbed>>
      \/ /\ dpc = "get" /\ dpc' = "name" /\ Exists(Nr) /\ first' = slots[Nr]
         /\ UNCHANGED <<dport, used, disturbed>>
      \/ UNCHANGED child
  BY DEF Apart, Download, Lookup, StartCopy, ExitChild, KilledByShow, CopyStep, CopyEvent,
         Child, Forget, ChildTypes, vars
<1>4. ChildTypes'
  BY <1>3 DEF ChildTypes, Places, child
<1>5. UNCHANGED <<count, slots, mixed, Astray, spoiled>> /\ count \in Nat
  BY <1>1, MisledStays DEF resultVars, array, fetching, ArrayTypes, Astray
<1>6. CASE Exists(Nr) /\ dpc = "get" /\ dpc' = "name" /\ first' = slots[Nr] /\ UNCHANGED <<used, disturbed>>
  <2>1. Nr \in 0..count-1
    BY <1>6 DEF Exists
  <2>2. used = <<>> /\ ~spoiled
    BY <1>6 DEF ChildInv
  <2>3. mixed = {} => Nr < Cap
    BY <1>5, <2>1, ResultsAssumption DEF BoundInv
  <2>4. ChildInv'
    BY <1>5, <1>6, <2>1, <2>2 DEF ChildInv, EntryInv, ReadSoFar
  <2>. QED  BY <1>2, <1>4, <2>3, <2>4, DownloadingInv
<1>7. CASE dpc' \in {"copy", "gone"} \/ (dpc = "none" /\ dpc' = "get" /\ used' = used)
  BY <1>2, <1>4, <1>5, <1>7, DownloadingInv DEF ChildInv, Places
<1>8. CASE UNCHANGED child
  <2>1. ChildInv'
    BY <1>5, <1>8 DEF ChildInv, ReadSoFar, child
  <2>. QED  BY <1>2, <1>4, <1>8, <2>1, DownloadingInv DEF BoundInv, child
<1>. QED  BY <1>3, <1>6, <1>7, <1>8

LEMMA StepInv == Inv /\ [Next]_vars => Inv'
<1> SUFFICES ASSUME Inv, [Next]_vars PROVE Inv'
  OBVIOUS
<1>1. CASE ResultsMove
  BY <1>1, FetchInv, ListStepInv DEF ResultsMove, ResultsStep
<1>2. CASE DownloadStep
  BY <1>2, ReadStepInv, StorePortInv, ApartInv DEF DownloadStep, Apart
<1>3. CASE Download \/ KilledByShow \/ CopyStep \/ CopyEvent \/ UNCHANGED vars
  BY <1>3, ApartInv DEF Apart
<1>. QED  BY <1>1, <1>2, <1>3 DEF Next

LEMMA Invariant == Spec => []Inv
BY InitInv, StepInv, PTL DEF Spec
-----------------------------------------------------------------------------
(* A search that nobody is beside crashes only on a record it did not find *)
(* whole or on a name whose second word is a number, and nothing is        *)
(* written behind the array (recvResult, addArrayItem), whatever is        *)
(* answered and whatever the limit.                                        *)
THEOREM AloneSafe == Spec => []AloneIsSafe
<1>1. Inv => AloneIsSafe
  BY DEF Inv, CountInv, BoundInv, AloneIsSafe
<1>. QED  BY <1>1, Invariant, PTL

(* A RESULTS during which nothing is cleared lists the published entries   *)
(* in their order, and all that were there when it began                   *)
(* (stdin_resultsAction beside recvResult).                                *)
THEOREM EntriesListed == Spec => []ListsEntries
<1>1. Inv => ListsEntries
  <2> SUFFICES ASSUME Inv, lpc = "fetch", ~wiped, mixed = {}, ~spoiled
               PROVE  /\ IsPrefix(listed, Published)
                      /\ ~Exists(i) => Len(listed) >= atStart
                      /\ Astray = {} => Torn \notin ToSet(listed) /\ Blank \notin ToSet(listed)
    BY DEF ListsEntries
  <2>1. /\ listed \in Seq(Items) /\ i = Len(listed) /\ i <= count /\ atStart <= count
        /\ \A k \in 1..Len(listed) : listed[k] = slots[k - 1]
    BY DEF Inv, ListInv
  <2>2. count \in Nat /\ i \in Nat /\ Len(listed) \in Nat /\ DOMAIN listed = 1..Len(listed)
    BY <2>1, LenProperties DEF Inv, ArrayTypes, ListTypes
  <2>3. IsPrefix(listed, Published)
    <3>1. Len(Published) = count /\ DOMAIN Published = 1..count
      <4> DEFINE entries == {slots[n - 1] : n \in 1..count}
      <4>1. Published \in [1..count -> entries] /\ DOMAIN Published = 1..count
        BY DEF Published
      <4> HIDE DEF entries
      <4>2. Published \in Seq(entries)
        BY <2>2, <4>1, SeqDef
      <4>. QED  BY <2>2, <4>1, <4>2, LenProperties
    <3>2. /\ Len(listed) <= Len(Published)
          /\ \A k \in 1..Len(listed) : listed[k] = Published[k]
      BY <2>1, <2>2, <3>1 DEF Published
    <3>. QED  BY <2>1, <2>2, <3>1, <3>2 DEF IsPrefix
  <2>4. ~Exists(i) => Len(listed) >= atStart
    BY <2>1, <2>2 DEF Exists, Inv, ListTypes
  <2>5. ASSUME Astray = {} PROVE Torn \notin ToSet(listed) /\ Blank \notin ToSet(listed)
    <3>1. \A k \in DOMAIN listed : IsEntry(listed[k])
      BY <2>1, <2>2, <2>5 DEF Inv, EntryInv
    <3>. QED  BY <3>1 DEF ToSet, IsEntry, Torn, Blank
  <2>. QED  BY <2>3, <2>4, <2>5
<1>. QED  BY <1>1, Invariant, PTL

(* A download that begins its copy copies the entry it looked up, unless a *)
(* search cleared the array before the size was read                       *)
(* (stdin_downloadAction), for any searches beside it.                     *)
THEOREM ThatFile == Spec => []DownloadIsThatFile
<1>1. Inv => DownloadIsThatFile
  BY DEF Inv, ChildInv, DownloadIsThatFile, IsEntry, ReadSoFar, Places
<1>. QED  BY <1>1, Invariant, PTL

(* What is shown above of the file of advFileCopy holds in its caller, for *)
(* whatever size the download read.                                        *)
THEOREM DownloadedWhole == Spec => []FileIsWhole
<1>1. Init => CopyInv
  BY CopyInvInit DEF Init
<1>2. CopyInv /\ [Next]_vars => CopyInv'
  <2> SUFFICES ASSUME CopyInv, [Next]_vars PROVE CopyInv'
    OBVIOUS
  <2>1. CASE ResultsMove \/ Download \/ KilledByShow \/ UNCHANGED vars
    <3>1. UNCHANGED copyVars
      BY <2>1 DEF ResultsMove, Download, KilledByShow, DownloadsOnly, vars
    <3>. QED  BY <3>1, StutterKeepsInv
  <2>2. CASE Lookup \/ OpenFile \/ ReadPort \/ StorePort \/ Connect \/ ReadSize
    <3>1. UNCHANGED copyVars
      BY <2>2 DEF Lookup, OpenFile, ReadPort, StorePort, Connect, ReadSize, DownloadsOnly
    <3>. QED  BY <3>1, StutterKeepsInv
  <2>3. CASE StartCopy
    BY <2>3, StartKeepsInv DEF StartCopy
  <2>4. CASE ExitChild
    BY <2>4, ForgetKeepsInv DEF ExitChild
  <2>5. CASE CopyStep
    BY <2>5, CopierKeepsInv DEF CopyStep
  <2>6. CASE CopyEvent
    BY <2>6, EnvKeepsInv DEF CopyEvent
  <2>7. CASE GetSigfd
    BY <2>7, SigfdKeepsInv DEF GetSigfd
  <2>. QED  BY <2>1, <2>2, <2>3, <2>4, <2>5, <2>6, <2>7 DEF Next, DownloadStep
<1>3. CopyInv => FileIsWhole
  BY DEF CopyInv
<1>. QED  BY <1>1, <1>2, <1>3, PTL DEF Spec
-----------------------------------------------------------------------------
(* What a search finds.  The owner of the array that nobody has been       *)
(* beside is alone with it, and stands in its answer where its counter     *)
(* says.                                                                   *)

(* The first n records of the answer are in the array, with the sizes that *)
(* an int makes of theirs.                                                 *)
Kept(s, k) == EntryOf(s, k, AsInt(Answer(s)[k].size))
HasFirst(s, n) == \A k \in 1..n : slots[k - 1] = Kept(s, k)

(* What a search that nobody disturbed has done.                           *)
FetchedInv(s) ==
  /\ counter[s] <= Len(Answer(s))
  /\ pc[s] \in {"wipe", "read"} => taken[s] = 7 * counter[s]
  /\ pc[s] \in {"test", "begin", "copy", "load", "store", "get"} =>
       taken[s] = 7 * (counter[s] + 1) /\ counter[s] < Len(Answer(s))
  /\ pc[s] \in {"test", "begin", "copy"} => file[s] = Kept(s, counter[s] + 1)
  /\ pc[s] \in {"begin", "copy", "load", "store"} => count + 1 < Cap
  /\ pc[s] = "copy" => at[s] = count
  /\ ~spoiled =>
       /\ pc[s] = "copy" => slots[count] = Torn
       /\ HasFirst(s, IF pc[s] \in {"load", "store"} THEN count + 1 ELSE count)

FoundAll(s) == count = Len(Answer(s)) /\ counter[s] = count /\ HasFirst(s, count)
CannotGoOn(s) ==
  \/ Len(Answer(s)) >= Cap
  \/ \E rec \in ToSet(Answer(s)) : rec.spaces # {} \/ AsInt(rec.size) < 0
AnswerInv(s) ==
  /\ pc[s] \in Filling => FetchedInv(s)
  /\ pc[s] = "found" /\ ~spoiled => FoundAll(s)
  /\ pc[s] = "failed" => CannotGoOn(s)

FoundInv ==
  /\ \A s \in Searches : pc[s] = "connect" => got[s] = 0 /\ taken[s] = 0
  /\ \A s \in Searches : s = owner /\ s \notin mixed =>
       Active \subseteq {s} /\ (s \notin Astray => AnswerInv(s))
-----------------------------------------------------------------------------
-----------------------------------------------------------------------------
LEMMA FoundInitially == Init => FoundInv
<1> SUFFICES ASSUME Init PROVE FoundInv
  OBVIOUS
<1>1. /\ owner = Blank /\ got = [s \in Searches |-> 0] /\ taken = [s \in Searches |-> 0]
  BY DEF Init, ResultsInit, NoFile
<1>2. owner \notin Searches
  BY <1>1, ResultsAssumption DEF Blank
<1>. QED  BY <1>1, <1>2 DEF FoundInv

(* One step of the owner is enough: nobody else is active beside it.       *)
LEMMA OwnerMoves ==
  ASSUME Inv, FoundInv, NEW s \in Searches, s \in Active,
         UNCHANGED <<plan, owner, mixed>>,
         \A o \in Searches \ {s} : pc'[o] = pc[o] /\ got'[o] = got[o] /\ taken'[o] = taken[o],
         pc'[s] # "connect",
         s = owner /\ s \notin mixed /\ s \notin Astray => s \in Astray' \/ AnswerInv(s)',
         Astray \subseteq Astray'
  PROVE  FoundInv'
<1>1. \A o \in Searches : pc'[o] = "connect" => got'[o] = 0 /\ taken'[o] = 0
  BY DEF FoundInv
<1>2. Active' \subseteq Active
  BY DEF Active, Filling
<1>3. ASSUME NEW o \in Searches, o = owner', o \notin mixed'
      PROVE  Active' \subseteq {o} /\ (o \notin Astray' => AnswerInv(o)')
  <2>1. Active \subseteq {o}
    BY <1>3 DEF FoundInv
  <2>2. o = s
    BY <2>1
  <2>. QED  BY <1>2, <1>3, <2>1, <2>2
<1>. QED  BY <1>1, <1>3 DEF FoundInv

LEMMA OwnerIs ==
  ASSUME Inv, FoundInv, NEW s \in Searches, s = owner, s \notin mixed, s \notin Astray, pc[s] \in Filling
  PROVE  FetchedInv(s) /\ Active = {s}
BY DEF FoundInv, AnswerInv, Active

(* A record is taken: it is the next one, or the search fails for it.      *)
LEMMA TakeRecordFound ==
  ASSUME Inv, FoundInv, NEW s \in Searches, TakeRecord(s),
         s = owner, s \notin mixed, s \notin Astray, s \notin Astray'
  PROVE  AnswerInv(s)'
<1>0. ArrayTypes /\ AlignInv
  BY DEF Inv
<1>1. /\ pc[s] = "read" /\ LineEnds(s) # {}
      /\ UNCHANGED <<plan, count, slots, counter, at, tmp, mixed, owner, spoiled>>
  BY DEF TakeRecord, array
<1>2. PICK r \in Nat :
        /\ taken[s] = 7 * r /\ r < Len(Answer(s)) /\ Answer(s)[r + 1] \in Record
        /\ \/ /\ file' = [file EXCEPT ![s] = Kept(s, r + 1)]
              /\ taken' = [taken EXCEPT ![s] = 7 * (r + 1)]
              /\ pc' = [pc EXCEPT ![s] = "test"] /\ got' = got
           \/ /\ Answer(s)[r + 1].spaces # {} \/ AsInt(Answer(s)[r + 1].size) < 0
              /\ Leaves(s, "failed")
  BY <1>0, RecordTaken DEF Kept
<1>3. r = counter[s] /\ r = count /\ FetchedInv(s)
  <2>1. FetchedInv(s)
    BY <1>1, OwnerIs DEF Filling
  <2>2. taken[s] = 7 * counter[s] /\ counter[s] \in Nat /\ count = counter[s]
    BY <1>0, <1>1, <2>1 DEF FetchedInv, Inv, CountInv, ArrayTypes
  <2>3. r = counter[s]
    BY <1>2, <2>2
  <2>. QED  BY <2>1, <2>2, <2>3
<1>4. \A k : Kept(s, k)' = Kept(s, k)
  BY <1>1 DEF Kept, EntryOf, WholeField, Answer
<1>5. Answer(s)' = Answer(s)
  BY <1>1 DEF Answer
<1>6. CASE /\ file' = [file EXCEPT ![s] = Kept(s, r + 1)]
           /\ taken' = [taken EXCEPT ![s] = 7 * (r + 1)]
           /\ pc' = [pc EXCEPT ![s] = "test"] /\ got' = got
  <2>1. pc'[s] = "test" /\ taken'[s] = 7 * (r + 1) /\ file'[s] = Kept(s, r + 1)
    BY <1>0, <1>6 DEF ArrayTypes
  <2>2. FetchedInv(s)'
    BY <1>1, <1>2, <1>3, <1>4, <1>5, <2>1 DEF FetchedInv, HasFirst
  <2>. QED  BY <2>1, <2>2 DEF AnswerInv
<1>7. CASE /\ Answer(s)[r + 1].spaces # {} \/ AsInt(Answer(s)[r + 1].size) < 0
           /\ Leaves(s, "failed")
  <2>1. pc'[s] = "failed"
    BY <1>0, <1>7 DEF Leaves, Goto, ArrayTypes
  <2>2. Answer(s)[r + 1] \in ToSet(Answer(s))
    <3>1. Answer(s) \in Seq(Record) /\ Len(Answer(s)) \in Nat
      BY <1>0, <1>1, AnswerIsSeq
    <3>2. r + 1 \in DOMAIN Answer(s)
      BY <1>2, <3>1
    <3>. QED  BY <3>2 DEF ToSet
  <2>3. CannotGoOn(s)
    BY <1>7, <2>2 DEF CannotGoOn
  <2>4. CannotGoOn(s)'
    BY <1>5, <2>3 DEF CannotGoOn
  <2>. QED  BY <2>1, <2>4 DEF AnswerInv, Filling
<1>. QED  BY <1>2, <1>6, <1>7

(* The other steps that leave the array alone.                             *)
LEMMA QuietFound ==
  ASSUME Inv, FoundInv, NEW s \in Searches, Quiet(s), ~ConnectFails(s), ~TakeRecord(s),
         s = owner, s \notin mixed, s \notin Astray, s \notin Astray'
  PROVE  AnswerInv(s)'
<1>0. ArrayTypes
  BY DEF Inv
<1>1. /\ pc[s] \in Filling /\ pc[s] # "connect"
      /\ UNCHANGED <<plan, count, slots, at, mixed, owner, spoiled, file>>
  BY DEF Quiet, Recv, EndOfStream, AnswerBreaks, Test, CountLoad, ReadBack, array, Filling
<1>2. FetchedInv(s) /\ Active = {s}
  BY <1>1, OwnerIs
<1>3. PICK r \in Nat, n \in Nat : r = counter[s] /\ n = Len(Answer(s))
  BY <1>0, <1>1, AnswerIsSeq DEF ArrayTypes
<1>4. /\ Length(s) = 7 * n /\ r <= n /\ got[s] \in Nat /\ got[s] <= 7 * n
      /\ count \in Nat /\ Cap \in Nat
  BY <1>0, <1>1, <1>2, <1>3, AnswerIsSeq, ResultsAssumption DEF FetchedInv, ArrayTypes, Inv, AlignInv
<1>5. Answer(s)' = Answer(s) /\ Length(s)' = Length(s) /\ \A k : Kept(s, k)' = Kept(s, k)
  BY <1>1 DEF Answer, Length, Kept, EntryOf, WholeField
<1>6. \A k : HasFirst(s, k)' <=> HasFirst(s, k)
  BY <1>1, <1>5 DEF HasFirst
<1>7. CASE Recv(s)
  <2>2. UNCHANGED <<pc, taken, counter>> /\ pc[s] = "read"
    BY <1>7 DEF Recv
  <2>3. FetchedInv(s)'
    BY <1>1, <1>2, <1>5, <1>6, <2>2 DEF FetchedInv
  <2>. QED  BY <2>2, <2>3 DEF AnswerInv
<1>8. CASE EndOfStream(s)
  <2>1. pc[s] = "read" /\ LineEnds(s) = {} /\ pc'[s] = "found" /\ counter' = counter /\ got[s] = Length(s)
    BY <1>0, <1>8 DEF EndOfStream, Leaves, Goto, ArrayTypes, Astray
  <2>2. taken[s] = 7 * r /\ count = r
    BY <1>1, <1>2, <1>3, <2>1, OwnerIs DEF FetchedInv, Inv, CountInv
  <2>3. ~(7 * r + 1 <= got[s])
    BY <1>0, <2>1, <2>2, NextPiece
  <2>4. r = n
    BY <1>3, <1>4, <2>1, <2>3
  <2>5. ~spoiled => HasFirst(s, count)
    BY <1>2, <2>1 DEF FetchedInv
  <2>6. ~spoiled' => FoundAll(s)'
    BY <1>1, <1>3, <1>5, <1>6, <2>1, <2>2, <2>4, <2>5 DEF FoundAll
  <2>. QED  BY <2>1, <2>6 DEF AnswerInv, Filling
<1>9. CASE AnswerBreaks(s)
  BY <1>9 DEF AnswerBreaks, Astray
<1>10. CASE Test(s)
  <2>1. /\ pc[s] = "test" /\ counter' = counter /\ UNCHANGED <<counter, cut>>
        /\ \/ Full /\ pc'[s] = "failed"
           \/ ~Full /\ pc'[s] = "begin" /\ got' = got /\ taken' = taken
    BY <1>0, <1>10 DEF Test, Leaves, Goto, ArrayTypes
  <2>2. count = r /\ r < n
    BY <1>1, <1>2, <1>3, <2>1 DEF FetchedInv, Inv, CountInv
  <2>3. CASE Full /\ pc'[s] = "failed"
    <3>1. n >= Cap
      BY <1>4, <2>2, <2>3, ResultsAssumption DEF Full
    <3>2. CannotGoOn(s)'
      BY <1>3, <1>5, <3>1 DEF CannotGoOn
    <3>. QED  BY <2>3, <3>2 DEF AnswerInv, Filling
  <2>4. CASE ~Full /\ pc'[s] = "begin" /\ got' = got /\ taken' = taken
    <3>1. count + 1 < Cap
      BY <1>4, <2>4, ResultsAssumption DEF Full
    <3>2. FetchedInv(s)'
      BY <1>1, <1>2, <1>5, <1>6, <2>1, <2>4, <3>1 DEF FetchedInv
    <3>. QED  BY <2>4, <3>2 DEF AnswerInv
  <2>. QED  BY <2>1, <2>3, <2>4
<1>11. CASE CountLoad(s)
  <2>1. pc[s] = "load" /\ pc'[s] = "store" /\ UNCHANGED <<counter, got, taken>>
    BY <1>0, <1>11 DEF CountLoad, Goto, ArrayTypes
  <2>2. FetchedInv(s)'
    BY <1>1, <1>2, <1>5, <1>6, <2>1 DEF FetchedInv
  <2>. QED  BY <2>1, <2>2 DEF AnswerInv
<1>12. CASE ReadBack(s)
  <2>1. pc[s] = "get" /\ counter'[s] = r + 1
    BY <1>0, <1>3, <1>12 DEF ReadBack, ArrayTypes
  <2>2. count = r + 1
    BY <1>1, <1>3, <2>1 DEF Inv, CountInv
  <2>3. Exists(counter[s])
    BY <1>3, <2>2 DEF Exists
  <2>4. pc'[s] = "read" /\ UNCHANGED <<got, taken>>
    BY <1>0, <1>12, <2>3 DEF ReadBack, Goto, ArrayTypes
  <2>5. r < n /\ taken[s] = 7 * (r + 1)
    BY <1>2, <1>3, <2>1 DEF FetchedInv
  <2>6. r + 1 <= n
    BY <2>5
  <2>7. FetchedInv(s)'
    BY <1>1, <1>2, <1>3, <1>5, <1>6, <2>1, <2>4, <2>5, <2>6 DEF FetchedInv
  <2>. QED  BY <2>4, <2>7 DEF AnswerInv
<1>. QED  BY <1>7, <1>8, <1>9, <1>10, <1>11, <1>12 DEF Quiet

(* clearArray: the search begins, and every other one is off the array.    *)
LEMMA ClearCountFound ==
  ASSUME Inv, FoundInv, NEW s \in Searches, ClearCount(s)
  PROVE  FoundInv'
<1>0. ArrayTypes
  BY DEF Inv
<1>1. /\ pc[s] = "connect" /\ pc' = [pc EXCEPT ![s] = "wipe"]
      /\ count' = 0 /\ owner' = s
      /\ mixed' = IF Active = {} THEN mixed ELSE mixed \cup Active \cup {s}
      /\ UNCHANGED <<plan, slots, got, taken, file, counter, at, tmp, cut, spoiled>>
      /\ s \in DOMAIN plan.answers
  BY DEF ClearCount, Goto
<1>2. pc'[s] = "wipe" /\ \A o \in Searches \ {s} : pc'[o] = pc[o]
  BY <1>0, <1>1 DEF ArrayTypes
<1>3. got[s] = 0 /\ taken[s] = 0
  BY <1>1 DEF FoundInv
<1>4. ASSUME s \notin mixed' PROVE Active' \subseteq {s} /\ AnswerInv(s)'
  <2>1. Active = {} /\ s \notin mixed
    BY <1>1, <1>4
  <2>2. counter[s] = 0
    BY <1>1, <2>1 DEF Inv, CountInv
  <2>3. Active' \subseteq {s}
    BY <1>2, <2>1 DEF Active
  <2>4. Len(Answer(s)') \in Nat /\ Length(s)' = 7 * Len(Answer(s)')
    <3>1. plan.answers[s] \in Seq(Record)
      BY <1>0, <1>1, ResultsAssumption DEF ArrayTypes, IsPlan
    <3>. QED  BY <1>1, <3>1 DEF Answer, Length
  <2>5. FetchedInv(s)'
    BY <1>1, <1>2, <1>3, <2>2, <2>4 DEF FetchedInv, HasFirst
  <2>. QED  BY <1>2, <2>3, <2>5 DEF AnswerInv
<1>5. \A o \in Searches : pc'[o] = "connect" => got'[o] = 0 /\ taken'[o] = 0
  BY <1>1, <1>2 DEF FoundInv
<1>. QED  BY <1>1, <1>4, <1>5 DEF FoundInv

(* The array is wiped, filled and counted.                                 *)
LEMMA FillFound ==
  ASSUME Inv, FoundInv, NEW s \in Searches,
         ClearMemory(s) \/ CopyBegin(s) \/ CopyEnd(s) \/ CountStore(s),
         s = owner, s \notin mixed, s \notin Astray
  PROVE  AnswerInv(s)'
<1>0. ArrayTypes
  BY DEF Inv
<1>1. /\ pc[s] \in Filling /\ pc[s] # "connect"
      /\ UNCHANGED <<plan, got, taken, counter, mixed, owner, spoiled, cut>>
  BY DEF ClearMemory, CopyBegin, CopyEnd, CountStore, array, Filling
<1>2. FetchedInv(s) /\ Active = {s}
  BY <1>1, OwnerIs
<1>3. PICK r \in Nat, n \in Nat : r = counter[s] /\ n = Len(Answer(s))
  BY <1>0, <1>1, AnswerIsSeq DEF ArrayTypes
<1>4. count \in Nat /\ Cap \in Nat
  BY <1>0, ResultsAssumption DEF ArrayTypes
<1>5. Answer(s)' = Answer(s) /\ Length(s)' = Length(s) /\ \A k : Kept(s, k)' = Kept(s, k)
  BY <1>1 DEF Answer, Length, Kept, EntryOf, WholeField
<1>6. CASE ClearMemory(s)
  <2>1. pc[s] = "wipe" /\ pc'[s] = "read" /\ count' = count
    BY <1>0, <1>6 DEF ClearMemory, Goto, ArrayTypes
  <2>2. count = 0
    BY <1>1, <2>1 DEF Inv, CountInv
  <2>3. FetchedInv(s)'
    BY <1>1, <1>2, <1>5, <2>1, <2>2 DEF FetchedInv, HasFirst
  <2>. QED  BY <2>1, <2>3 DEF AnswerInv
<1>7. CASE CopyBegin(s)
  <2>1. /\ pc[s] = "begin" /\ pc'[s] = "copy" /\ at'[s] = count /\ UNCHANGED <<count, file>>
        /\ slots' = [slots EXCEPT ![count] = Torn]
    BY <1>0, <1>7 DEF CopyBegin, Goto, ArrayTypes
  <2>2. count + 1 < Cap
    BY <1>2, <2>1 DEF FetchedInv
  <2>3. count \in Slots
    BY <1>4, <2>2, SlotsOfArray
  <2>4. slots'[count] = Torn /\ \A k \in 1..count : slots'[k - 1] = slots[k - 1]
    <3>1. \A k \in 1..count : k - 1 # count /\ k - 1 \in Nat /\ k - 1 < Cap
      BY <1>4, <2>2
    <3>2. \A k \in 1..count : k - 1 \in Slots
      BY <3>1, SlotsOfArray
    <3>. QED  BY <1>0, <2>1, <2>3, <3>1, <3>2 DEF ArrayTypes
  <2>5. ~spoiled' => HasFirst(s, count)'
    BY <1>1, <1>2, <1>5, <2>1, <2>4 DEF FetchedInv, HasFirst
  <2>6. FetchedInv(s)'
    BY <1>1, <1>2, <1>5, <2>1, <2>2, <2>4, <2>5 DEF FetchedInv
  <2>. QED  BY <2>1, <2>6 DEF AnswerInv
<1>8. CASE CopyEnd(s)
  <2>1. PICK item \in {file[s], Torn} :
          /\ slots' = [slots EXCEPT ![at[s]] = item]
          /\ slots[at[s]] = Torn /\ (\A o \in Searches \ {s} : ~(pc[o] = "copy" /\ at[o] = at[s])) => item = file[s]
          /\ pc[s] = "copy" /\ pc'[s] = "load" /\ count' = count
    BY <1>0, <1>8 DEF CopyEnd, Goto, ArrayTypes
  <2>2. count + 1 < Cap /\ at[s] = count /\ count = r
    BY <1>1, <1>2, <1>3, <2>1 DEF FetchedInv, Inv, CountInv
  <2>3. count \in Slots
    BY <1>4, <2>2, SlotsOfArray
  <2>4. \A o \in Searches \ {s} : pc[o] # "copy"
    BY <1>2 DEF Active, Filling
  <2>5. ASSUME ~spoiled' PROVE HasFirst(s, count + 1)'
    <3>1. HasFirst(s, count) /\ slots[count] = Torn /\ file[s] = Kept(s, count + 1)
      BY <1>1, <1>2, <1>3, <2>1, <2>2, <2>5 DEF FetchedInv
    <3>2. slots' = [slots EXCEPT ![count] = Kept(s, count + 1)]
      BY <2>1, <2>2, <2>4, <3>1
    <3>3. ASSUME NEW k \in 1..count+1 PROVE slots'[k - 1] = Kept(s, k)
      <4>1. CASE k = count + 1
        <5>1. k - 1 = count
          BY <1>4, <4>1
        <5>. QED  BY <1>0, <2>3, <3>2, <4>1, <5>1 DEF ArrayTypes
      <4>2. CASE k # count + 1
        <5>1. k \in 1..count /\ k - 1 # count /\ k - 1 \in Nat /\ k - 1 < Cap
          BY <1>4, <2>2, <4>2
        <5>2. k - 1 \in Slots
          BY <5>1, SlotsOfArray
        <5>3. slots[k - 1] = Kept(s, k)
          BY <3>1, <5>1 DEF HasFirst
        <5>. QED  BY <1>0, <3>2, <5>1, <5>2, <5>3 DEF ArrayTypes
      <4>. QED  BY <4>1, <4>2
    <3>. QED  BY <1>5, <2>1, <3>3 DEF HasFirst
  <2>6. FetchedInv(s)'
    BY <1>1, <1>2, <1>5, <2>1, <2>2, <2>5 DEF FetchedInv
  <2>. QED  BY <2>1, <2>6 DEF AnswerInv
<1>9. CASE CountStore(s)
  <2>1. pc[s] = "store" /\ pc'[s] = "get" /\ count' = tmp[s] + 1 /\ UNCHANGED slots
    BY <1>0, <1>9 DEF CountStore, Goto, ArrayTypes
  <2>2. count' = count + 1
    BY <1>1, <2>1 DEF Inv, CountInv
  <2>3. ASSUME ~spoiled' PROVE \A k \in 1..count' : slots'[k - 1] = Kept(s, k)'
    <3>1. HasFirst(s, count + 1)
      BY <1>1, <1>2, <2>1, <2>3 DEF FetchedInv
    <3>. QED  BY <1>5, <2>1, <2>2, <3>1 DEF HasFirst
  <2>4. ~spoiled' => HasFirst(s, count)'
    BY <2>3 DEF HasFirst
  <2>5. /\ (counter[s] <= Len(Answer(s)))'
        /\ (taken[s] = 7 * (counter[s] + 1) /\ counter[s] < Len(Answer(s)))'
    BY <1>1, <1>2, <1>5, <2>1 DEF FetchedInv
  <2>6. FetchedInv(s)'
    BY <2>1, <2>4, <2>5 DEF FetchedInv
  <2>. QED  BY <2>1, <2>6 DEF AnswerInv
<1>. QED  BY <1>6, <1>7, <1>8, <1>9

(* A search takes a step.                                                  *)
LEMMA FetchFound ==
  ASSUME Inv, FoundInv, NEW s \in Searches, Fetch(s) PROVE FoundInv'
<1>0. ArrayTypes /\ OwnerInv
  BY DEF Inv
<1>1. CASE ConnectFails(s)
  <2>1. /\ pc[s] = "connect" /\ pc' = [pc EXCEPT ![s] = "silent"]
        /\ UNCHANGED <<plan, array, got, taken, file, counter, at, tmp, cut, mixed, spoiled, owner>>
    BY <1>1 DEF ConnectFails, Goto
  <2>2. pc'[s] = "silent" /\ \A o \in Searches \ {s} : pc'[o] = pc[o]
    BY <1>0, <2>1 DEF ArrayTypes
  <2>3. \A o \in Searches : pc'[o] = "connect" => got'[o] = 0 /\ taken'[o] = 0
    BY <2>1, <2>2 DEF FoundInv
  <2>4. Active' = Active
    BY <2>1, <2>2 DEF Active, Filling
  <2>5. ASSUME NEW o \in Searches, o = owner', o \notin mixed'
        PROVE  Active' \subseteq {o} /\ (o \notin Astray' => AnswerInv(o)')
    <3>1. o # s /\ o = owner /\ o \notin mixed
      BY <1>0, <2>1, <2>5 DEF OwnerInv
    <3>2. Active \subseteq {o} /\ (o \notin Astray => AnswerInv(o))
      BY <3>1 DEF FoundInv
    <3>3. o \notin Astray => AnswerInv(o)'
      BY <2>1, <2>2, <3>1, <3>2
         DEF AnswerInv, FetchedInv, FoundAll, CannotGoOn, HasFirst, Kept, EntryOf, WholeField, Answer, Length, array
    <3>4. Astray' = Astray
      BY <2>1, MisledStays DEF Astray
    <3>. QED  BY <2>4, <3>2, <3>3, <3>4
  <2>. QED  BY <2>3, <2>5 DEF FoundInv
<1>2. CASE ClearCount(s)
  BY <1>2, ClearCountFound
<1>3. CASE ~ConnectFails(s) /\ ~ClearCount(s)
  <2>1. Quiet(s) \/ ClearMemory(s) \/ CopyBegin(s) \/ CopyEnd(s) \/ CountStore(s)
    BY <1>3 DEF Fetch, Quiet
  <2>0. /\ s \in Active /\ UNCHANGED <<plan, owner, mixed>> /\ cut \subseteq cut'
    BY <1>3, <2>1
       DEF Active, Filling, Quiet, Recv, TakeRecord, EndOfStream, AnswerBreaks, Test, CountLoad,
           ReadBack, ClearMemory, CopyBegin, CopyEnd, CountStore
  <2>2. /\ s \in Active /\ UNCHANGED <<plan, owner, mixed>> /\ Astray \subseteq Astray'
    BY <2>0, MisledStays DEF Astray
  <2>3. \A o \in Searches \ {s} : pc'[o] = pc[o] /\ got'[o] = got[o] /\ taken'[o] = taken[o]
    <3>1. CASE TakeRecord(s)
      BY <1>0, <3>1 DEF TakeRecord, Leaves, Goto, ArrayTypes
    <3>2. CASE ~TakeRecord(s)
      BY <1>0, <1>3, <2>1, <3>2
         DEF Quiet, Recv, EndOfStream, AnswerBreaks, Test, CountLoad, ReadBack, ClearMemory,
             CopyBegin, CopyEnd, CountStore, Leaves, Goto, ArrayTypes
    <3>. QED  BY <3>1, <3>2
  <2>4. pc'[s] # "connect"
    <3>1. CASE TakeRecord(s)
      BY <1>0, <3>1 DEF TakeRecord, Leaves, Goto, ArrayTypes
    <3>2. CASE Recv(s)
      BY <3>2 DEF Recv
    <3>3. CASE ~TakeRecord(s) /\ ~Recv(s)
      BY <1>0, <1>3, <2>1, <3>3
         DEF Quiet, EndOfStream, AnswerBreaks, Test, CountLoad, ReadBack, ClearMemory,
             CopyBegin, CopyEnd, CountStore, Leaves, Goto, ArrayTypes
    <3>. QED  BY <3>1, <3>2, <3>3
  <2>5. ASSUME s = owner, s \notin mixed, s \notin Astray, s \notin Astray' PROVE AnswerInv(s)'
    BY <1>3, <2>1, <2>5, TakeRecordFound, QuietFound, FillFound
  <2>. QED  BY <2>2, <2>3, <2>4, <2>5, OwnerMoves
<1>. QED  BY <1>1, <1>2, <1>3

(* RESULTS and downloads leave what was found alone, but for a port.       *)
LEMMA OthersKeepFound ==
  ASSUME FoundInv, UNCHANGED <<plan, count, fetching, owner>>,
         ~spoiled' => ~spoiled /\ slots' = slots
  PROVE  FoundInv'
<1>1. UNCHANGED <<plan, count, pc, got, taken, file, counter, at, cut, mixed, owner>>
  BY DEF fetching
<1>2. /\ Active' = Active
      /\ \A s : Answer(s)' = Answer(s) /\ Length(s)' = Length(s)
      /\ \A s, k : Kept(s, k)' = Kept(s, k)
  BY <1>1 DEF Active, Answer, Length, Kept, EntryOf, WholeField
<1>3. ASSUME NEW s \in Searches, AnswerInv(s) PROVE AnswerInv(s)'
  <2>1. ~spoiled' => \A k : HasFirst(s, k)' <=> HasFirst(s, k)
    BY <1>2 DEF HasFirst
  <2>2. FetchedInv(s) => FetchedInv(s)'
    BY <1>1, <1>2, <2>1 DEF FetchedInv
  <2>3. ~spoiled' /\ FoundAll(s) => FoundAll(s)'
    BY <1>1, <1>2, <2>1 DEF FoundAll
  <2>4. CannotGoOn(s) => CannotGoOn(s)'
    BY <1>2 DEF CannotGoOn
  <2>. QED  BY <1>1, <1>3, <2>2, <2>3, <2>4 DEF AnswerInv
<1>4. Astray' = Astray
  BY <1>1, MisledStays DEF Astray
<1>. QED  BY <1>1, <1>2, <1>3, <1>4 DEF FoundInv

LEMMA FoundStep == Inv /\ FoundInv /\ [Next]_vars => FoundInv'
<1> SUFFICES ASSUME Inv, FoundInv, [Next]_vars PROVE FoundInv'
  OBVIOUS
<1>1. ASSUME NEW s \in Searches, Fetch(s) PROVE FoundInv'
  BY <1>1, FetchFound
<1>2. CASE ListStart \/ List
  <2>1. UNCHANGED <<plan, array, fetching, spoiled, owner>>
    BY <1>2 DEF ListStart, List, ListFetch, ListSize, ListLine
  <2>. QED  BY <2>1, OthersKeepFound DEF array
<1>3. CASE StorePort
  BY <1>3, OthersKeepFound DEF StorePort
<1>4. CASE ~StorePort /\ (DownloadStep \/ Download \/ KilledByShow \/ CopyStep \/ CopyEvent \/ UNCHANGED vars)
  <2>1. UNCHANGED resultVars
    BY <1>4 DEF DownloadStep, Lookup, OpenFile, ReadPort, Connect, GetSigfd, ReadSize, StartCopy,
           ExitChild, Download, KilledByShow, CopyStep, CopyEvent, DownloadsOnly, vars
  <2>. QED  BY <2>1, OthersKeepFound DEF resultVars, array
<1>. QED  BY <1>1, <1>2, <1>3, <1>4 DEF Next, ResultsMove, ResultsStep

(* An int keeps a size that fits into it.                                  *)
LEMMA FittingSize == ASSUME NEW n \in Nat, n < Half PROVE AsInt(n) = n
<1>1. PICK m \in Nat \ {0} : m = 2 * Half
  BY ResultsAssumption
<1>2. Half \in Nat /\ n + Half \in 0..m-1
  BY <1>1, ResultsAssumption
<1>3. (n + Half) % m = n + Half
  BY <1>2
<1>. QED  BY <1>1, <1>2, <1>3 DEF AsInt

(* A search that nobody disturbed, whose records arrived whole and name no *)
(* number second, leaves exactly the answer in the array when it reports   *)
(* how many it found, but for sizes outside an int, and fails only for a   *)
(* record or a limit it cannot pass (client_resultAction, recvResult),     *)
(* whatever is answered.                                                   *)
THEOREM AnswerFound == Spec => []FoundAsSent
<1>1. Inv /\ FoundInv => FoundAsSent
  <2> SUFFICES ASSUME Inv, FoundInv, NEW s \in Searches,
                      s = owner, s \notin mixed, ~spoiled, s \notin Astray
               PROVE  /\ pc[s] = "found" =>
                           /\ counter[s] = count /\ count = Len(Answer(s))
                           /\ \A rec \in 1..count :
                                Answer(s)[rec].size < Half => Published[rec] = AsSent(s, rec)
                      /\ pc[s] = "failed" => CannotGoOn(s)
    BY DEF FoundAsSent, Undisturbed, CannotGoOn
  <2>1. AnswerInv(s)
    BY DEF FoundInv
  <2>2. ASSUME pc[s] = "found"
        PROVE  /\ counter[s] = count /\ count = Len(Answer(s))
               /\ \A rec \in 1..count :
                    Answer(s)[rec].size < Half => Published[rec] = AsSent(s, rec)
    <3>1. FoundAll(s)
      BY <2>1, <2>2 DEF AnswerInv
    <3>2. Answer(s) \in Seq(Record) /\ count = Len(Answer(s)) /\ count \in Nat
      BY <2>2, <3>1, AnswerIsSeq DEF Inv, FoundAll
    <3>3. ASSUME NEW rec \in 1..count, Answer(s)[rec].size < Half
          PROVE  Published[rec] = AsSent(s, rec)
      <4>1. PICK x \in Record : x = Answer(s)[rec]
        BY <3>2
      <4>2. AsInt(x.size) = x.size
        BY <3>3, <4>1, FittingSize DEF Record
      <4>3. Published[rec] = Kept(s, rec)
        BY <3>1 DEF Published, FoundAll, HasFirst
      <4>. QED  BY <4>1, <4>2, <4>3 DEF Kept, AsSent
    <3>. QED  BY <3>1, <3>2, <3>3 DEF FoundAll
  <2>. QED  BY <2>1, <2>2 DEF AnswerInv
<1>. QED  BY <1>1, FoundInitially, FoundStep, Invariant, PTL DEF Spec
=============================================================================
