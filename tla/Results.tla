------------------------------ MODULE Results -------------------------------
(***************************************************************************)
(* The results array of the client: a struct array in shared memory that   *)
(* a child per RESULT line clears and refills (client_resultAction,        *)
(* recvResult) while main lists it for the user (stdin_resultsAction).     *)
(* SEM_RESULTS exists; nobody takes it.                                    *)
(*                                                                         *)
(* A record of the answer is four lines: address, port, name, size.  Only  *)
(* the first is waited for; the others are words of what the same reads    *)
(* brought, cut wherever these ended (getTokenFromBuffer).                 *)
(***************************************************************************)
EXTENDS Integers, FiniteSets, SequencesExt

CONSTANTS
  Searches,     \* the children that fetch results
  Plans,        \* what servers answer and the user does, see IsPlan
  Cap,          \* slots of the segment
  Half,         \* an int ranges over -Half..Half-1
  Sizes         \* what the int of a number may be that is no whole size

(* What matters of a record besides its identity: the pieces of its name   *)
(* behind which there is a space, those that are digits, and its size.     *)
Record == [spaces : SUBSET {3, 4}, digits : SUBSET {3, 4, 5}, size : Nat]

(* A plan: the answers of the RESULT lines that come, whether the reads    *)
(* cut records, how often RESULTS and DOWNLOAD are typed, and how many     *)
(* bytes a peer sends at most.                                             *)
IsPlan(p) ==
  /\ DOMAIN p.answers \subseteq Searches
  /\ \A s \in DOMAIN p.answers : p.answers[s] \in Seq(Record)
  /\ p.lists \in Nat /\ p.downloads \in {0, 1} /\ p.bytes \in Nat /\ p.cuts \in BOOLEAN

ASSUME ResultsAssumption ==
  /\ IsFiniteSet(Searches) /\ [kind |-> "blank"] \notin Searches
  /\ \A p \in Plans : IsPlan(p)
  /\ Cap \in Nat \ {0} /\ Half \in Nat \ {0} /\ Sizes \subseteq Int

(* A record arrives in seven pieces, in any number of reads: one for the   *)
(* address, which is not taken before it is whole, one for the port, three *)
(* for the name and two for the size, which a read may cut.  A space in a  *)
(* name ends a word and no line.                                           *)
Layout == <<"ip", "port", "name", "name", "name", "size", "size">>
RecordAt(k) == ((k - 1) \div 7) + 1
PieceAt(k) == ((k - 1) % 7) + 1
EndsLine(k) == PieceAt(k) \in {1, 2, 5, 7}

(* What comline holds: the pieces of one search from one to another.       *)
Token(s, from, to) == [of |-> s, from |-> from, to |-> to]

(* An entry keeps words, and for the size the int that was made of one.    *)
Number(n) == [kind |-> "number", n |-> n]
Entry(addr, port, name, size) == [addr |-> addr, port |-> port, name |-> name, size |-> size]
Blank == [kind |-> "blank"]
Torn == [kind |-> "torn"]
Item(entry) == [kind |-> "entry", entry |-> entry]

VARIABLES
  plan,         \* constant after Init
  count, slots, \* the struct array
  pc,           \* each search
  got, taken,   \* pieces of its answer that were read, and used
  file,         \* its struct flEntry
  counter,      \* results it counted
  at, tmp,      \* the slot it fills, the itemcount it loaded
  lpc,          \* RESULTS in main: "idle", "fetch", "size", "line"
  i, size,      \* the slot it stands at, and the size it read
  listed,       \* the lines of this RESULTS
  lists,        \* how many RESULTS were typed
  \* history, read by no action
  cut,          \* searches with a record that was not there when it was taken
  mixed,        \* searches that had another one beside them
  spoiled,      \* a download wrote into an entry that was not its own
  wiped,        \* the array was cleared since this RESULTS began
  atStart,      \* itemcount when it began
  owner         \* the search that cleared the array last

array == <<count, slots>>
fetching == <<pc, got, taken, file, counter, at, tmp, cut, mixed>>
listing == <<lpc, i, size, listed, lists, atStart>>
resultVars == <<plan, array, fetching, listing, spoiled, wiped, owner>>

Slots == 0..(Cap + Cardinality(Searches) - 1)
NoFile == Blank

ResultsInit ==
  /\ plan \in Plans
  /\ count = 0 /\ slots = [n \in Slots |-> Blank]
  /\ pc = [s \in Searches |-> "connect"]
  /\ got = [s \in Searches |-> 0] /\ taken = [s \in Searches |-> 0]
  /\ file = [s \in Searches |-> NoFile]
  /\ counter = [s \in Searches |-> 0]
  /\ at = [s \in Searches |-> 0] /\ tmp = [s \in Searches |-> 0]
  /\ lpc = "idle" /\ i = 0 /\ size = NoFile /\ listed = <<>> /\ lists = 0
  /\ cut = {} /\ mixed = {} /\ spoiled = FALSE /\ wiped = FALSE /\ atStart = 0
  /\ owner = NoFile

Filling == {"wipe", "read", "test", "begin", "copy", "load", "store", "get"}
Active == {s \in Searches : pc[s] \in Filling}

(* Mutant: num > itemcount.                                                *)
Exists_Inclusive(n) == count > 0 /\ n \in 0..count

(* getArrayItem.                                                           *)
Exists(n) == n \in 0..(count - 1)

Goto(s, l) == pc' = [pc EXCEPT ![s] = l]
-----------------------------------------------------------------------------
(* client_resultAction: connectSocket, clearArray.  The child says nothing *)
(* when it cannot connect.                                                 *)
ConnectFails(s) ==
  /\ s \in DOMAIN plan.answers /\ pc[s] = "connect"
  /\ Goto(s, "silent")
  /\ UNCHANGED <<plan, array, got, taken, file, counter, at, tmp, cut, mixed, listing, spoiled, wiped, owner>>

(* Mutant: the items are wiped and still counted.                          *)
ClearCount_Keep(s) ==
  /\ s \in DOMAIN plan.answers /\ pc[s] = "connect"
  /\ wiped' = TRUE /\ owner' = s
  /\ mixed' = IF Active = {} THEN mixed ELSE mixed \cup Active \cup {s}
  /\ Goto(s, "wipe")
  /\ UNCHANGED <<plan, array, got, taken, file, counter, at, tmp, cut, listing, spoiled>>

ClearCount(s) ==
  /\ s \in DOMAIN plan.answers /\ pc[s] = "connect"
  /\ count' = 0
  /\ wiped' = TRUE /\ owner' = s
  /\ mixed' = IF Active = {} THEN mixed ELSE mixed \cup Active \cup {s}
  /\ Goto(s, "wipe")
  /\ UNCHANGED <<plan, slots, got, taken, file, counter, at, tmp, cut, listing, spoiled>>

(* memset over all of mem.                                                 *)
ClearMemory(s) ==
  /\ pc[s] = "wipe"
  /\ slots' = [n \in Slots |-> IF n < Cap THEN Blank ELSE slots[n]]
  /\ Goto(s, "read")
  /\ UNCHANGED <<plan, count, got, taken, file, counter, at, tmp, cut, mixed, listing, spoiled, wiped, owner>>
-----------------------------------------------------------------------------
(* recvResult: the stream, and what is in combuf of it.                    *)
Answer(s) == plan.answers[s]
Length(s) == 7 * Len(Answer(s))
EndsWord(s, k) == EndsLine(k) \/ PieceAt(k) \in Answer(s)[RecordAt(k)].spaces
LineEnds(s) == {k \in taken[s]+1..got[s] : EndsLine(k)}
WordEnds(s, from) == {k \in from..got[s] : EndsWord(s, k)}

Recv(s) ==
  /\ pc[s] = "read" /\ LineEnds(s) = {}
  /\ \E n \in (got[s] + 1)..Length(s) :
       /\ plan.cuts \/ PieceAt(n) = 7
       /\ got' = [got EXCEPT ![s] = n]
  /\ UNCHANGED <<plan, array, pc, taken, file, counter, at, tmp, cut, mixed, listing, spoiled, wiped, owner>>

(* getTokenFromBuffer: the next word, or what is left of it, or, when      *)
(* nothing is left, what the token was before.                             *)
NextWord(s, before) ==
  LET from == before.to + 1
  IN  IF from > got[s] THEN before
      ELSE Token(s, from, IF WordEnds(s, from) = {} THEN got[s] ELSE Min(WordEnds(s, from)))

Fields(token) == {Layout[PieceAt(k)] : k \in token.from..token.to}

(* All digits: a port, a size, or a word of a name that happens to be.     *)
IsDigits(s, k) ==
  Layout[PieceAt(k)] \in {"port", "size"} \/ PieceAt(k) \in Answer(s)[RecordAt(k)].digits
IsNumber(token) ==
  /\ \A k \in token.from..token.to : IsDigits(token.of, k)
  /\ \A k \in token.from..token.to-1 : ~EndsWord(token.of, k)
IsHost(token) == IsNumber(token) \/ Fields(token) = {"ip"}

(* The token is a field of a record, whole.                                *)
WholeField(s, rec, field) ==
  LET p == 7 * (rec - 1)
  IN  CASE field = "ip" -> Token(s, p + 1, p + 1)
        [] field = "port" -> Token(s, p + 2, p + 2)
        [] field = "name" -> Token(s, p + 3, p + 5)
        [] field = "size" -> Token(s, p + 6, p + 7)
RecordOf(token) == Answer(token.of)[RecordAt(token.from)]
WholeSize(token) == token = WholeField(token.of, RecordAt(token.from), "size")

(* my_strtol: what an int keeps of a number, and -1 where errno is set.    *)
(* Any number will do, also one that a name holds, or a part of a size.    *)
AsInt(n) == ((n + Half) % (2 * Half)) - Half
SizeTaken(token) ==
  IF ~IsNumber(token) THEN {-1}
  ELSE IF WholeSize(token) THEN {AsInt(RecordOf(token).size)}
  ELSE Sizes

(* parseIP follows an unset pointer when getaddrinfo fails, which it does  *)
(* for a text that is no address and a service that is no number.          *)
ParseOutcomes(ip, port) == IF IsHost(ip) /\ IsNumber(port) THEN {"parsed"} ELSE {"crash", "garbage"}

(* What the four tokens of one round are.                                  *)
Tokens(s) ==
  LET ip   == Token(s, taken[s] + 1, Min(LineEnds(s)))
      port == NextWord(s, ip)
      name == NextWord(s, port)
  IN  Entry(ip, port, name, NextWord(s, name))

(* The record in which the round begins has been read to its end.          *)
Arrived(s) == got[s] >= 7 * RecordAt(taken[s] + 1)

(* The child ends, with its buffers.                                       *)
Leaves(s, how) ==
  /\ Goto(s, how)
  /\ got' = [got EXCEPT ![s] = 0] /\ taken' = [taken EXCEPT ![s] = 0]

(* One round of the loop, up to addArrayItem: all of it reads only combuf. *)
TakeRecord(s) ==
  /\ pc[s] = "read" /\ LineEnds(s) # {}
  /\ cut' = IF Arrived(s) THEN cut ELSE cut \cup {s}
  /\ LET t == Tokens(s)
     IN  \E address \in ParseOutcomes(t.addr, t.port), n \in SizeTaken(t.size) :
           \/ /\ address = "crash"
              /\ Leaves(s, "crashed") /\ UNCHANGED file
           \/ /\ address # "crash" /\ n < 0
              /\ Leaves(s, "failed") /\ UNCHANGED file
           \/ /\ address # "crash" /\ n >= 0
              /\ file' = [file EXCEPT ![s] =
                   IF address = "parsed" THEN Item([t EXCEPT !.size = Number(n)]) ELSE Torn]
              /\ taken' = [taken EXCEPT ![s] = t.size.to]
              /\ Goto(s, "test")
              /\ UNCHANGED got
  /\ UNCHANGED <<plan, array, counter, at, tmp, mixed, listing, spoiled, wiped, owner>>

(* The worker that answers closes, behind its last record or before.       *)
EndOfStream(s) ==
  /\ pc[s] = "read" /\ LineEnds(s) = {}
  /\ cut' = IF got[s] = Length(s) THEN cut ELSE cut \cup {s}
  /\ Leaves(s, "found")
  /\ UNCHANGED <<plan, array, file, counter, at, tmp, mixed, listing, spoiled, wiped, owner>>

AnswerBreaks(s) ==
  /\ pc[s] = "read" /\ LineEnds(s) = {}
  /\ cut' = cut \cup {s}
  /\ Leaves(s, "failed")
  /\ UNCHANGED <<plan, array, file, counter, at, tmp, mixed, listing, spoiled, wiped, owner>>
-----------------------------------------------------------------------------
(* addArrayItem, as FileList has it, without a semaphore.                  *)
Full == Cap <= count + 1

Test(s) ==
  /\ pc[s] = "test"
  /\ IF Full THEN Leaves(s, "failed") ELSE Goto(s, "begin") /\ UNCHANGED <<got, taken>>
  /\ UNCHANGED <<plan, array, file, counter, at, tmp, cut, mixed, listing, spoiled, wiped, owner>>

CopyBegin(s) ==
  /\ pc[s] = "begin"
  /\ at' = [at EXCEPT ![s] = count]
  /\ slots' = [slots EXCEPT ![count] = Torn]
  /\ Goto(s, "copy")
  /\ UNCHANGED <<plan, count, got, taken, file, counter, tmp, cut, mixed, listing, spoiled, wiped, owner>>

(* A slot that was cleared, or that another search fills as well, may keep *)
(* a mixture.                                                              *)
CopyEnd(s) ==
  /\ pc[s] = "copy"
  /\ LET n == at[s]
         alone == slots[n] = Torn /\ \A o \in Searches \ {s} : ~(pc[o] = "copy" /\ at[o] = n)
     IN  \E item \in IF alone THEN {file[s]} ELSE {file[s], Torn} :
           slots' = [slots EXCEPT ![n] = item]
  /\ file' = [file EXCEPT ![s] = NoFile] /\ at' = [at EXCEPT ![s] = 0]
  /\ Goto(s, "load")
  /\ UNCHANGED <<plan, count, got, taken, counter, tmp, cut, mixed, listing, spoiled, wiped, owner>>

CountLoad(s) ==
  /\ pc[s] = "load"
  /\ tmp' = [tmp EXCEPT ![s] = count]
  /\ Goto(s, "store")
  /\ UNCHANGED <<plan, array, got, taken, file, counter, at, cut, mixed, listing, spoiled, wiped, owner>>

CountStore(s) ==
  /\ pc[s] = "store"
  /\ count' = tmp[s] + 1
  /\ tmp' = [tmp EXCEPT ![s] = 0]
  /\ Goto(s, "get")
  /\ UNCHANGED <<plan, slots, got, taken, file, counter, at, cut, mixed, listing, spoiled, wiped, owner>>

(* Mutant: counter is moved on first.                                      *)
ReadBack_Next(s) ==
  /\ pc[s] = "get"
  /\ counter' = [counter EXCEPT ![s] = @ + 1]
  /\ IF Exists(counter[s] + 1) THEN Goto(s, "read") /\ UNCHANGED <<got, taken>>
     ELSE Leaves(s, "crashed")
  /\ UNCHANGED <<plan, array, file, at, tmp, cut, mixed, listing, spoiled, wiped, owner>>

(* The entry is read back, without a look at what getArrayItem returned.   *)
ReadBack(s) ==
  /\ pc[s] = "get"
  /\ counter' = [counter EXCEPT ![s] = @ + 1]
  /\ IF Exists(counter[s]) THEN Goto(s, "read") /\ UNCHANGED <<got, taken>>
     ELSE Leaves(s, "crashed")
  /\ UNCHANGED <<plan, array, file, at, tmp, cut, mixed, listing, spoiled, wiped, owner>>
-----------------------------------------------------------------------------
(* RESULTS: main iterates, reads the size and then the rest of an entry,   *)
(* and shows the line.                                                     *)
ListStart ==
  /\ lpc = "idle" /\ lists < plan.lists
  /\ lists' = lists + 1
  /\ i' = 0 /\ listed' = <<>> /\ atStart' = count /\ wiped' = FALSE
  /\ lpc' = "fetch"
  /\ UNCHANGED <<plan, array, fetching, size, spoiled, owner>>

ListFetch ==
  /\ lpc = "fetch"
  /\ lpc' = IF Exists(i) THEN "size" ELSE "idle"
  /\ UNCHANGED <<plan, array, fetching, i, size, listed, lists, atStart, spoiled, wiped, owner>>

ListSize ==
  /\ lpc = "size"
  /\ size' = slots[i]
  /\ lpc' = "line"
  /\ UNCHANGED <<plan, array, fetching, i, listed, lists, atStart, spoiled, wiped, owner>>

ListLine ==
  /\ lpc = "line"
  /\ listed' = Append(listed, IF slots[i] = size THEN size ELSE Torn)
  /\ i' = i + 1
  /\ size' = NoFile
  /\ lpc' = "fetch"
  /\ UNCHANGED <<plan, array, fetching, lists, atStart, spoiled, wiped, owner>>
-----------------------------------------------------------------------------
Fetch(s) ==
  \/ ConnectFails(s) \/ ClearCount(s) \/ ClearMemory(s)
  \/ Recv(s) \/ TakeRecord(s) \/ EndOfStream(s) \/ AnswerBreaks(s)
  \/ Test(s) \/ CopyBegin(s) \/ CopyEnd(s) \/ CountLoad(s) \/ CountStore(s) \/ ReadBack(s)
List == ListFetch \/ ListSize \/ ListLine
ResultsStep == (\E s \in Searches : Fetch(s)) \/ ListStart \/ List
-----------------------------------------------------------------------------
Published == [n \in 1..count |-> slots[n - 1]]

(* A record of an answer, as an entry: with the size that was sent, or     *)
(* another one.                                                            *)
EntryOf(s, rec, n) ==
  Item(Entry(WholeField(s, rec, "ip"), WholeField(s, rec, "port"),
             WholeField(s, rec, "name"), Number(n)))
AsSent(s, rec) == EntryOf(s, rec, Answer(s)[rec].size)
Undisturbed(s) == s \notin mixed /\ ~spoiled

(* The second word of a name is a number, and is taken for the size; the   *)
(* rest of the record is taken for the next one.                           *)
Misleads(rec) ==
  \/ 3 \in rec.spaces /\ 4 \in rec.digits /\ (4 \in rec.spaces \/ 5 \in rec.digits)
  \/ 3 \notin rec.spaces /\ 4 \in rec.spaces /\ 5 \in rec.digits
Misled == {s \in DOMAIN plan.answers : \E rec \in ToSet(Answer(s)) : Misleads(rec)}

(* Searches whose words may not be what they are taken for.                *)
Astray == cut \cup Misled

(* A search that nobody disturbed, whose records arrived whole and name no *)
(* number second, leaves exactly the answer in the array when it reports   *)
(* how many it found, but for sizes that do not fit into an int; it fails  *)
(* only for a name with a space, a size that an int makes negative, or a   *)
(* full array (client_resultAction, recvResult).                           *)
FoundAsSent ==
  \A s \in Searches : s = owner /\ Undisturbed(s) /\ s \notin Astray /\ Active = {} =>
    /\ pc[s] = "found" =>
         /\ counter[s] = count /\ count = Len(Answer(s))
         /\ \A rec \in 1..count :
              Answer(s)[rec].size < Half => Published[rec] = AsSent(s, rec)
    /\ pc[s] = "failed" =>
         \/ Len(Answer(s)) >= Cap
         \/ \E rec \in ToSet(Answer(s)) : rec.spaces # {} \/ AsInt(rec.size) < 0

(* A RESULTS during which nothing is cleared lists the published entries,  *)
(* in their order, at least those that were there when it began, each of   *)
(* them whole (stdin_resultsAction beside recvResult).                     *)
ListsEntries ==
  lpc = "fetch" /\ ~wiped /\ mixed = {} /\ ~spoiled =>
    /\ IsPrefix(listed, Published)
    /\ ~Exists(i) => Len(listed) >= atStart
    /\ Astray = {} => Torn \notin ToSet(listed) /\ Blank \notin ToSet(listed)

(* What goes wrong beyond a wrong entry needs two searches at once, a      *)
(* record that was cut, or a name whose second word is a number: a child   *)
(* that crashes.  A write behind the array needs two searches at once.     *)
AloneIsSafe ==
  /\ \A s \in Searches : pc[s] = "crashed" => s \in mixed \cup Astray
  /\ mixed = {} => \A n \in Slots : n >= Cap => slots[n] = Blank
=============================================================================
