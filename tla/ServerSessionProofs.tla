------------------------- MODULE ServerSessionProofs ------------------------
(***************************************************************************)
(* Proofs about ServerSession, for any lines of a client, any cuts by read *)
(* and any number of workers.                                              *)
(***************************************************************************)
EXTENDS ServerSession, SequenceLemmas, TLAPS

(* s stands in t behind the first b lines of it.                           *)
Part(s, t, b) ==
  /\ b + Len(s) <= Len(t)
  /\ \A k \in 1..Len(s) : s[k] = t[b + k]

LEMMA PartGrows ==
  ASSUME NEW S, NEW s \in Seq(S), NEW t \in Seq(S), NEW b \in Nat, NEW x \in S,
         Part(s, t, b)
  PROVE  Part(s, Append(t, x), b)
<1> DEFINE u == Append(t, x)
<1>1. Len(u) = Len(t) + 1 /\ \A k \in 1..Len(t) : u[k] = t[k]
  BY AppendProperties
<1> HIDE DEF u
<1>2. Len(s) \in Nat /\ Len(t) \in Nat
  OBVIOUS
<1>. QED  BY <1>1, <1>2 DEF Part, u

LEMMA PartBothGrow ==
  ASSUME NEW S, NEW s \in Seq(S), NEW t \in Seq(S), NEW b \in Nat, NEW x \in S,
         Part(s, t, b), Len(t) = b + Len(s)
  PROVE  Part(Append(s, x), Append(t, x), b)
<1> DEFINE u == Append(t, x)  v == Append(s, x)
<1>1. Len(u) = Len(t) + 1 /\ u[Len(t) + 1] = x /\ \A k \in 1..Len(t) : u[k] = t[k]
  BY AppendProperties
<1>2. Len(v) = Len(s) + 1 /\ v[Len(s) + 1] = x /\ \A k \in 1..Len(s) : v[k] = s[k]
  BY AppendProperties
<1> HIDE DEF u, v
<1>3. Len(s) \in Nat /\ Len(t) \in Nat
  OBVIOUS
<1>4. \A k \in 1..Len(v) : v[k] = u[b + k]
  <2> TAKE k \in 1..Len(v)
  <2>1. CASE k = Len(s) + 1
    BY <1>1, <1>2, <1>3, <2>1
  <2>2. CASE k \in 1..Len(s)
    BY <1>1, <1>2, <1>3, <2>2 DEF Part
  <2>. QED  BY <1>2, <1>3, <2>1, <2>2
<1>. QED  BY <1>1, <1>2, <1>3, <1>4 DEF Part, u, v

LEMMA PartOfPart ==
  ASSUME NEW S, NEW s \in Seq(S), NEW t \in Seq(S), NEW b \in Nat,
         NEW m \in 1..Len(s) + 1, NEW n \in m - 1..Len(s), Part(s, t, b)
  PROVE  /\ SubSeq(s, m, n) \in Seq(S) /\ Len(SubSeq(s, m, n)) = n - m + 1
         /\ Part(SubSeq(s, m, n), t, b + m - 1)
<1> DEFINE u == SubSeq(s, m, n)
<1>0. Len(s) \in Nat /\ Len(t) \in Nat
  OBVIOUS
<1>1. u \in Seq(S) /\ Len(u) = n - m + 1 /\ \A k \in 1..n - m + 1 : u[k] = s[m + k - 1]
  <2>1. \A k \in m..n : s[k] \in S
    BY <1>0
  <2>2. /\ u \in Seq(S)
        /\ Len(u) = IF m <= n THEN n - m + 1 ELSE 0
        /\ \A k \in 1..n - m + 1 : u[k] = s[m + k - 1]
    BY <1>0, <2>1, SubSeqProperties
  <2> HIDE DEF u
  <2>. QED  BY <1>0, <2>2
<1> HIDE DEF u
<1>2. Part(u, t, b + m - 1)
  BY <1>0, <1>1 DEF Part
<1>. QED  BY <1>1, <1>2 DEF u

LEMMA PartTail ==
  ASSUME NEW S, NEW s \in Seq(S), NEW t \in Seq(S), NEW b \in Nat,
         Part(s, t, b), s # <<>>
  PROVE  /\ Tail(s) \in Seq(S) /\ Len(Tail(s)) = Len(s) - 1
         /\ Part(Tail(s), t, b + 1)
<1>1. Len(s) \in Nat \ {0} /\ Len(t) \in Nat
  BY EmptySeq
<1> DEFINE u == Tail(s)
<1>2. u \in Seq(S) /\ Len(u) = Len(s) - 1 /\ \A k \in 1..Len(u) : u[k] = s[k + 1]
  BY HeadTailProperties
<1> HIDE DEF u
<1>3. Part(u, t, b + 1)
  BY <1>1, <1>2 DEF Part
<1>. QED  BY <1>2, <1>3 DEF u

LEMMA PartExact ==
  ASSUME NEW S, NEW s \in Seq(S), NEW t \in Seq(S), NEW b \in Nat, Part(s, t, b),
         NEW n \in Nat, n = b + Len(s)
  PROVE  s = SubSeq(t, b + 1, n)
<1>0. Len(s) \in Nat /\ Len(t) \in Nat
  OBVIOUS
<1> DEFINE m == b + 1  u == SubSeq(t, m, n)
<1>1. u \in Seq(S) /\ Len(u) = n - b /\ \A k \in 1..n - b : u[k] = t[b + k]
  <2>1. Part(t, t, 0) /\ m \in 1..Len(t) + 1 /\ n \in m - 1..Len(t)
    BY <1>0 DEF Part
  <2> HIDE DEF m
  <2>2. u \in Seq(S) /\ Len(u) = n - m + 1 /\ Part(u, t, 0 + m - 1)
    BY <1>0, <2>1, PartOfPart
  <2> HIDE DEF u
  <2>. QED  BY <1>0, <2>2 DEF Part, m
<1> HIDE DEF u
<1>2. Len(s) = Len(u) /\ \A k \in 1..Len(s) : s[k] = u[k]
  BY <1>0, <1>1 DEF Part
<1>3. s = u
  BY <1>1, <1>2, SeqEqual
<1>. QED  BY <1>3 DEF u
-----------------------------------------------------------------------------
WorkerType ==
  [kind : {"search", "list"}, pc : {"start", "accept", "deaf", "work", "ended"},
   word : Words \cup {None, "SEARCH"}, behind : Nat, upTo : Int, combuf : Seq(Command),
   comport : Ports \cup {None, 0}, peer : {None, Ephemeral}, status : Int]

TypeOK ==
  /\ client \in {"none", "up", "gone", "reset"}
  /\ sent \in Seq(Command) /\ inbox \in Seq(Command)
  /\ combuf \in Seq(Command) /\ done \in Seq(Command)
  /\ sigint \in BOOLEAN /\ failed \in {"no", "poll", "signalfd", "revents"}
  /\ session \in {"poll", "lines", "ended"}
  /\ comport \in Ports \cup {None, 0}
  /\ status \in {Running, Signalled, 0, -1, -2, -3}
  /\ workers \in Seq(WorkerType)

(* A session that runs has no status, and no line left when it polls but   *)
(* one that is too long.                                                   *)
PlaceInv ==
  /\ session # "ended" => status = Running
  /\ session = "poll" /\ combuf # <<>> => Head(combuf).word = "long"

(* The lines sent are those taken, those read and those not read.          *)
LinesInv ==
  /\ Part(done, sent, 0)
  /\ Part(combuf, sent, Len(done))
  /\ session # "ended" => /\ Part(inbox, sent, Len(done) + Len(combuf))
                          /\ Len(sent) = Len(done) + Len(combuf) + Len(inbox)

QuitInv ==
  \A k \in 1..Len(done) : done[k].word = "QUIT" => k = Len(done) /\ session = "ended"

WorkersInv ==
  \A i \in 1..Len(workers) :
    /\ Part(workers[i].combuf, sent, workers[i].behind)
    /\ workers[i].upTo = workers[i].behind + Len(workers[i].combuf)

Inv == TypeOK /\ PlaceInv /\ LinesInv /\ QuitInv /\ EndsForCause /\ WorkersInv

LEMMA InitInv == Init => Inv
<1> SUFFICES ASSUME Init PROVE Inv
  OBVIOUS
<1>1. TypeOK /\ PlaceInv
  BY EmptySeq DEF Init, TypeOK, PlaceInv, Running
<1>2. LinesInv /\ QuitInv /\ WorkersInv
  BY DEF Init, LinesInv, QuitInv, WorkersInv, Part
<1>3. EndsForCause
  BY DEF Init, EndsForCause, Running
<1>. QED  BY <1>1, <1>2, <1>3 DEF Inv

(* A client that sends a line.                                             *)
LEMMA SendInv ==
  ASSUME Inv, NEW c \in Commands, Send(c) PROVE Inv'
<1> USE DEF Inv
<1>0. c \in Command
  BY ServerSessionAssumption
<1>1. /\ client = "up" /\ sent' = Append(sent, c) /\ inbox' = Append(inbox, c)
      /\ UNCHANGED <<client, sigint, failed, session, combuf, done, comport, status, out, workers>>
  BY DEF Send
<1>2. TypeOK' /\ PlaceInv' /\ QuitInv'
  BY <1>0, <1>1 DEF TypeOK, PlaceInv, QuitInv
<1>3. Len(done) \in Nat /\ Len(combuf) \in Nat /\ Len(inbox) \in Nat /\ Len(sent) \in Nat
  BY DEF TypeOK
<1>4. LinesInv'
  <2>1. Part(done, sent', 0) /\ Part(combuf, sent', Len(done))
    BY <1>0, <1>1, <1>3, PartGrows DEF TypeOK, LinesInv
  <2>2. CASE session # "ended"
    <3>1. Len(sent') = Len(sent) + 1 /\ Len(inbox') = Len(inbox) + 1
      BY <1>0, <1>1, AppendProperties DEF TypeOK
    <3> DEFINE b == Len(done) + Len(combuf)
    <3>2. b \in Nat /\ Part(inbox, sent, b) /\ Len(sent) = b + Len(inbox)
      BY <1>3, <2>2 DEF LinesInv
    <3> HIDE DEF b
    <3>3. Part(inbox', sent', b)
      BY <1>0, <1>1, <3>2, PartBothGrow DEF TypeOK
    <3>. QED  BY <1>1, <1>3, <2>1, <3>1, <3>2, <3>3 DEF LinesInv, b
  <2>. QED  BY <1>1, <2>1, <2>2 DEF LinesInv
<1>5. WorkersInv'
  <2> SUFFICES ASSUME NEW i \in 1..Len(workers)
               PROVE  Part(workers[i].combuf, sent', workers[i].behind)
    BY <1>1 DEF WorkersInv
  <2> DEFINE s == workers[i].combuf  b == workers[i].behind
  <2>0. workers[i] \in WorkerType
    BY ElementOfSeq DEF TypeOK
  <2>1. s \in Seq(Command) /\ b \in Nat /\ sent \in Seq(Command)
    BY <2>0 DEF TypeOK, WorkerType
  <2>2. Part(s, sent, b)
    BY DEF WorkersInv
  <2> HIDE DEF Inv, s, b
  <2>3. Part(s, Append(sent, c), b)
    BY <1>0, <2>1, <2>2, PartGrows
  <2>. QED  BY <1>1, <2>3 DEF s, b
<1>6. EndsForCause'
  <2>1. status # 0 \/ (done # <<>> /\ Last(done).word = "QUIT") \/ TooLong(Len(done) + 1)
    BY <1>1 DEF EndsForCause, TypeOK
  <2>2. TooLong(Len(done) + 1) => TooLong(Len(done) + 1)'
    <3>1. /\ Len(sent') = Len(sent) + 1
          /\ \A k \in 1..Len(sent) : sent'[k] = sent[k]
      BY <1>0, <1>1, AppendProperties DEF TypeOK
    <3>2. Len(done) + 1 <= Len(sent) => Len(done) + 1 \in 1..Len(sent)
      BY <1>3
    <3>. QED  BY <1>1, <1>3, <3>1, <3>2 DEF TooLong
  <2>. QED  BY <1>1, <2>1, <2>2 DEF EndsForCause
<1>. QED  BY <1>2, <1>4, <1>5, <1>6

(* A client that hangs up, a signal.                                       *)
LEMMA EnvInv == ASSUME Inv, HangUp \/ Interrupt PROVE Inv'
<1> USE DEF Inv
<1>1. /\ UNCHANGED <<sent, inbox, failed, session, combuf, done, comport, status, out, workers>>
      /\ client' = client \/ client' \in {"gone", "reset"}
      /\ sigint' = sigint \/ sigint' = TRUE
  BY DEF HangUp, Interrupt
<1>2. TypeOK' /\ PlaceInv'
  <2>1. /\ client' \in {"none", "up", "gone", "reset"} /\ sigint' \in BOOLEAN
        /\ failed' \in {"no", "poll", "signalfd", "revents"}
    BY <1>1 DEF TypeOK
  <2>2. /\ sent' \in Seq(Command) /\ inbox' \in Seq(Command)
        /\ combuf' \in Seq(Command) /\ done' \in Seq(Command) /\ workers' \in Seq(WorkerType)
    BY <1>1 DEF TypeOK
  <2>3. /\ session' \in {"poll", "lines", "ended"} /\ comport' \in Ports \cup {None, 0}
        /\ status' \in {Running, Signalled, 0, -1, -2, -3}
    BY <1>1 DEF TypeOK
  <2>4. PlaceInv'
    BY <1>1 DEF PlaceInv
  <2>. QED  BY <2>1, <2>2, <2>3, <2>4 DEF TypeOK
<1>3. LinesInv' /\ QuitInv' /\ WorkersInv'
  <2>1. LinesInv'
    BY <1>1 DEF LinesInv
  <2>2. QuitInv' /\ WorkersInv'
    BY <1>1 DEF QuitInv, WorkersInv
  <2>. QED  BY <2>1, <2>2
<1>4. EndsForCause'
  BY <1>1 DEF EndsForCause, TooLong, TypeOK
<1>. QED  BY <1>2, <1>3, <1>4

LEMMA ReadInv == ASSUME Inv, Read PROVE Inv'
<1> USE DEF Inv
<1>1. PICK k \in 1..Len(inbox) :
        /\ combuf' = SubSeq(inbox, 1, k)
        /\ inbox' = SubSeq(inbox, k + 1, Len(inbox))
  BY DEF Read
<1>2. /\ session = "poll" /\ session' = "lines" /\ combuf = <<>>
      /\ UNCHANGED <<client, sent, sigint, failed, done, comport, status, out, workers>>
  BY DEF Read
<1>3. Len(done) \in Nat /\ Len(combuf) = 0 /\ Len(inbox) \in Nat /\ Len(sent) \in Nat
  BY <1>2, EmptySeq DEF TypeOK, PlaceInv
<1>4. Part(inbox, sent, Len(done)) /\ Len(sent) = Len(done) + Len(inbox)
  BY <1>2, <1>3 DEF LinesInv
<1>5. /\ combuf' \in Seq(Command) /\ Len(combuf') = k
      /\ Part(combuf', sent, Len(done))
  <2>1. /\ SubSeq(inbox, 1, k) \in Seq(Command) /\ Len(SubSeq(inbox, 1, k)) = k - 1 + 1
        /\ Part(SubSeq(inbox, 1, k), sent, Len(done) + 1 - 1)
    BY <1>3, <1>4, PartOfPart, SMTT(20) DEF TypeOK
  <2>. QED  BY <1>1, <1>3, <2>1
<1>6. /\ inbox' \in Seq(Command) /\ Len(inbox') = Len(inbox) - k
      /\ Part(inbox', sent, Len(done) + k)
  <2> DEFINE m == k + 1
  <2>1. m \in 1..Len(inbox) + 1 /\ Len(inbox) \in m - 1..Len(inbox)
    BY <1>3
  <2>4. inbox \in Seq(Command) /\ sent \in Seq(Command)
    BY DEF TypeOK
  <2> HIDE DEF m, Inv
  <2>2. /\ SubSeq(inbox, m, Len(inbox)) \in Seq(Command)
        /\ Len(SubSeq(inbox, m, Len(inbox))) = Len(inbox) - m + 1
        /\ Part(SubSeq(inbox, m, Len(inbox)), sent, Len(done) + m - 1)
    BY <1>3, <1>4, <2>1, <2>4, PartOfPart
  <2>3. Len(inbox) - m + 1 = Len(inbox) - k /\ Len(done) + m - 1 = Len(done) + k
    BY <1>3 DEF m
  <2>. QED  BY <1>1, <2>2, <2>3 DEF m
<1>7. TypeOK' /\ PlaceInv' /\ WorkersInv' /\ EndsForCause'
  BY <1>2, <1>5, <1>6 DEF TypeOK, PlaceInv, WorkersInv, EndsForCause, TooLong
<1>8. LinesInv'
  BY <1>2, <1>3, <1>4, <1>5, <1>6 DEF LinesInv
<1>9. QuitInv'
  BY <1>2 DEF QuitInv
<1>. QED  BY <1>7, <1>8, <1>9

(* The session ends without a further line, or polls again.                *)
LEMMA EndsInv ==
  ASSUME Inv, Killed \/ Ends \/ PollFails \/ LinesDone
  PROVE  Inv'
<1> USE DEF Inv, Ends
<1>1. UNCHANGED <<client, sent, sigint, combuf, done, comport, out, workers>>
  BY DEF Killed, BufferFull, ClientHungUp, ReadFails, NoConnection, TakeSignal, PollFails, LinesDone
<1>2. TypeOK' /\ PlaceInv' /\ LinesInv' /\ WorkersInv'
  <2>1. WorkersInv'
    BY <1>1 DEF WorkersInv
  <2>2. LinesInv'
    BY <1>1 DEF LinesInv, Killed, BufferFull, ClientHungUp, ReadFails, NoConnection, TakeSignal,
                PollFails, LinesDone, Finish
  <2>3. TypeOK' /\ PlaceInv'
    <3>1. CASE Killed \/ LinesDone
      BY <1>1, <3>1, EmptySeq
         DEF Killed, LinesDone, Finish, TypeOK, PlaceInv, Signalled, Running
    <3>2. CASE BufferFull \/ ClientHungUp \/ ReadFails
      BY <1>1, <3>2, EmptySeq DEF BufferFull, ClientHungUp, ReadFails, Finish, TypeOK, PlaceInv
    <3>3. CASE NoConnection \/ TakeSignal \/ PollFails
      BY <1>1, <3>3, EmptySeq DEF NoConnection, TakeSignal, PollFails, Finish, TypeOK, PlaceInv
    <3>. QED  BY <3>1, <3>2, <3>3
  <2>. QED  BY <2>1, <2>2, <2>3
<1>3. session # "ended"
  BY DEF Killed, BufferFull, ClientHungUp, ReadFails, NoConnection, TakeSignal, PollFails, LinesDone
<1>4. QuitInv'
  BY <1>1, <1>3 DEF QuitInv
<1>5. EndsForCause'
  <2>1. CASE Killed \/ LinesDone
    BY <1>1, <1>3, <2>1
       DEF EndsForCause, Killed, LinesDone, Finish, Signalled, Running, PlaceInv
  <2>2. CASE ClientHungUp
    <3>1. done = sent
      <4>1. /\ Len(done) \in Nat /\ Len(combuf) = 0 /\ Len(inbox) = 0
        BY <2>2, EmptySeq DEF ClientHungUp, TypeOK
      <4>2. Len(sent) = Len(done) /\ \A k \in 1..Len(done) : done[k] = sent[k]
        BY <1>3, <4>1 DEF LinesInv, Part, TypeOK
      <4>. QED  BY <4>2, SeqEqual DEF TypeOK
    <3>. QED  BY <1>1, <2>2, <3>1 DEF EndsForCause, ClientHungUp, Finish
  <2>3. CASE ReadFails
    BY <1>1, <2>3 DEF EndsForCause, ReadFails, Finish
  <2>4. CASE TakeSignal
    BY <1>1, <2>4 DEF EndsForCause, TakeSignal, Finish
  <2>5. CASE BufferFull
    <3>1. Len(combuf) \in Nat \ {0} /\ Len(done) \in Nat /\ Head(combuf) = combuf[1]
      BY <2>5, EmptySeq DEF BufferFull, TypeOK
    <3>2. combuf[1].word = "long"
      BY <2>5, <3>1 DEF BufferFull, PlaceInv
    <3>3. Len(done) + 1 <= Len(sent) /\ combuf[1] = sent[Len(done) + 1]
      BY <3>1 DEF LinesInv, Part, TypeOK
    <3>4. TooLong(Len(done) + 1)'
      BY <1>1, <3>2, <3>3 DEF TooLong
    <3>. QED  BY <2>5, <3>4 DEF EndsForCause, BufferFull, Finish
  <2>6. CASE NoConnection
    BY <1>1, <2>6 DEF EndsForCause, NoConnection, Finish
  <2>7. CASE PollFails
    BY <1>1, <2>7 DEF EndsForCause, PollFails, Finish
  <2>. QED  BY <2>1, <2>2, <2>3, <2>4, <2>5, <2>6, <2>7
<1>. QED  BY <1>2, <1>4, <1>5

(* What processCommand does to the lines, whatever the action does.        *)
LEMMA TakeLines ==
  ASSUME Inv, NEW w, Take(w)
  PROVE  /\ session = "lines" /\ UNCHANGED <<client, sent, inbox, sigint, failed>>
         /\ Head(combuf) \in Command /\ Head(combuf).word = w
         /\ combuf' \in Seq(Command) /\ combuf' = Tail(combuf)
         /\ done' \in Seq(Command) /\ Len(done') = Len(done) + 1
         /\ done'[Len(done')] = Head(combuf)
         /\ \A k \in 1..Len(done) : done'[k] = done[k] /\ done[k].word # "QUIT"
         /\ Part(done', sent', 0) /\ Part(combuf', sent', Len(done'))
         /\ Part(inbox', sent', Len(done') + Len(combuf'))
         /\ Len(sent') = Len(done') + Len(combuf') + Len(inbox')
<1> USE DEF Inv
<1>1. /\ session = "lines" /\ combuf # <<>> /\ Head(combuf).word = w
      /\ combuf' = Tail(combuf) /\ done' = Append(done, Head(combuf))
      /\ UNCHANGED <<client, sent, inbox, sigint, failed>>
  BY DEF Take
<1>2. /\ Len(done) \in Nat /\ Len(combuf) \in Nat \ {0} /\ Len(inbox) \in Nat
      /\ Len(sent) \in Nat
  BY <1>1, EmptySeq DEF TypeOK
<1>3. Head(combuf) \in Command /\ Head(combuf) = combuf[1]
  BY <1>1, <1>2 DEF TypeOK
<1>4. /\ combuf' \in Seq(Command) /\ Len(combuf') = Len(combuf) - 1
      /\ Part(combuf', sent, Len(done) + 1)
  BY <1>1, <1>2, PartTail DEF TypeOK, LinesInv
<1>5. /\ done' \in Seq(Command) /\ Len(done') = Len(done) + 1
      /\ done'[Len(done) + 1] = Head(combuf)
      /\ \A k \in 1..Len(done) : done'[k] = done[k]
  BY <1>1, <1>3, AppendProperties DEF TypeOK
<1>6. \A k \in 1..Len(done) : done[k].word # "QUIT"
  BY <1>1 DEF QuitInv
<1>7. Part(done', sent, 0)
  <2>1. combuf[1] = sent[Len(done) + 1] /\ Len(done) + 1 <= Len(sent)
    BY <1>2 DEF LinesInv, Part
  <2>2. \A k \in 1..Len(done) : done[k] = sent[k]
    BY <1>2 DEF LinesInv, Part
  <2>. QED  BY <1>2, <1>3, <1>5, <2>1, <2>2 DEF Part
<1>8. /\ Part(inbox, sent, Len(done') + Len(combuf'))
      /\ Len(sent) = Len(done') + Len(combuf') + Len(inbox)
  <2>1. Len(done') + Len(combuf') = Len(done) + Len(combuf)
    BY <1>2, <1>4, <1>5
  <2>. QED  BY <1>1, <2>1 DEF LinesInv
<1>. QED  BY <1>1, <1>3, <1>4, <1>5, <1>6, <1>7, <1>8

LEMMA ActionInv == ASSUME Inv, Action PROVE Inv'
<1> USE DEF Inv
<1>1. PICK w \in {"?", "STATUS", "HELP", "BROWSE", "QUIT", "PORT", "SEARCH", "FILELIST"} : Take(w)
  BY DEF Action, Unknown, Status, Help, Browse, Quit, Port, Search, Filelist
<1>2. /\ session = "lines" /\ UNCHANGED <<client, sent, inbox, sigint, failed>>
      /\ Head(combuf) \in Command /\ Head(combuf).word = w
      /\ combuf' \in Seq(Command) /\ combuf' = Tail(combuf)
      /\ done' \in Seq(Command) /\ Len(done') = Len(done) + 1
      /\ done'[Len(done')] = Head(combuf)
      /\ \A k \in 1..Len(done) : done'[k] = done[k] /\ done[k].word # "QUIT"
      /\ Part(done', sent', 0) /\ Part(combuf', sent', Len(done'))
      /\ Part(inbox', sent', Len(done') + Len(combuf'))
      /\ Len(sent') = Len(done') + Len(combuf') + Len(inbox')
  BY <1>1, TakeLines
<1>3. status = Running
  BY <1>2 DEF PlaceInv
<1>4. \/ session' = session /\ status' = status /\ w # "QUIT"
      \/ session' = "ended" /\ status' = Signalled
      \/ session' = "ended" /\ status' = 0 /\ w = "QUIT"
      \/ /\ session' = "ended" /\ status' = -1
         /\ client # "up" \/ w = "FILELIST" \/ (w = "PORT" /\ Head(combuf).arg = "text")
      \/ session' = "ended" /\ status' = -3 /\ w = "SEARCH"
  BY <1>2 DEF Action, Unknown, Status, Help, Browse, Quit, Port, Search, Filelist,
              Take, Continue, Finish, SayFails, Arg
<1>5. Len(done) \in Nat
  BY DEF TypeOK
<1>6. PlaceInv' /\ LinesInv' /\ QuitInv'
  <2>1. PlaceInv'
    BY <1>2, <1>4 DEF PlaceInv
  <2>2. LinesInv'
    BY <1>2, <1>3, <1>4, <1>5, SMTT(20) DEF LinesInv
  <2>3. QuitInv'
    BY <1>2, <1>3, <1>4, <1>5, SMTT(20) DEF QuitInv
  <2>. QED  BY <2>1, <2>2, <2>3
<1>7. EndsForCause'
  <2>1. done' # <<>> /\ Last(done') = Head(combuf) /\ Last(done').word = w
    BY <1>2, <1>5, EmptySeq DEF Last
  <2>. QED  BY <1>2, <1>3, <1>4, <2>1 DEF EndsForCause, Running, Signalled
<1>8. comport' \in Ports \cup {None, 0}
  <2>1. w = "PORT" => Arg \in Ports \cup {None, "text"}
    BY <1>2 DEF Command, Arg
  <2>2. comport' = comport \/ (w = "PORT" /\ comport' \in {0, Arg} /\ (Arg = "text" => comport' = 0))
    BY <1>2 DEF Action, Unknown, Status, Help, Browse, Quit, Port, Search, Filelist, Take
  <2>. QED  BY <2>1, <2>2 DEF TypeOK
<1>9. workers' \in Seq(WorkerType) /\ WorkersInv'
  <2>1. CASE workers' = workers
    BY <1>2, <2>1 DEF TypeOK, WorkersInv
  <2>2. CASE workers' # workers
    <3>1. PICK kind \in {"search", "list"}, pc \in {"start", "accept", "deaf"},
               word \in Words \cup {None, "SEARCH"} :
            workers' = Append(workers, Worker(kind, pc, word))
      <4>1. w = "SEARCH" => Arg \in Words \cup {None}
        BY <1>2 DEF Command, Arg
      <4>2. CASE Search
        BY <1>2, <2>2, <4>1, <4>2 DEF Search, Fork, ForkFails, Take
      <4>3. CASE Filelist
        BY <2>2, <4>3 DEF Filelist, Fork, ForkFails
      <4>. QED
        BY <2>2, <4>2, <4>3 DEF Action, Unknown, Status, Help, Browse, Quit, Port
    <3> DEFINE x == Worker(kind, pc, word)
    <3>2. /\ x \in WorkerType /\ x.combuf = combuf' /\ x.behind = Len(done')
          /\ x.upTo = x.behind + Len(x.combuf)
      <4>1. Len(sent) - Len(inbox) = Len(done') + Len(combuf') /\ Len(sent) - Len(inbox) \in Int
        BY <1>2, <1>5 DEF TypeOK
      <4>. QED  BY <1>2, <1>5, <4>1 DEF Worker, WorkerType, TypeOK, Running
    <3> HIDE DEF x
    <3>3. /\ workers' \in Seq(WorkerType) /\ Len(workers') = Len(workers) + 1
          /\ workers'[Len(workers) + 1] = x
          /\ \A i \in 1..Len(workers) : workers'[i] = workers[i]
      <4>1. workers' = Append(workers, x)
        BY <3>1 DEF x
      <4>. QED  BY <3>2, <4>1, AppendProperties DEF TypeOK
    <3>4. WorkersInv'
      <4> SUFFICES ASSUME NEW i \in 1..Len(workers')
                   PROVE  /\ Part(workers'[i].combuf, sent', workers'[i].behind)
                          /\ workers'[i].upTo = workers'[i].behind + Len(workers'[i].combuf)
        BY DEF WorkersInv
      <4>1. i \in 1..Len(workers) \/ i = Len(workers) + 1
        BY <3>3 DEF TypeOK
      <4>. QED  BY <1>2, <3>2, <3>3, <4>1 DEF WorkersInv
    <3>. QED  BY <3>3, <3>4
  <2>. QED  BY <2>1, <2>2
<1>10. TypeOK'
  BY <1>2, <1>3, <1>4, <1>8, <1>9 DEF TypeOK
<1>. QED  BY <1>6, <1>7, <1>9, <1>10

(* A worker moves on with what it inherited.                               *)
LEMMA WorkerInv ==
  ASSUME Inv, NEW i \in DOMAIN workers, NEW x \in WorkerType,
         x.combuf = workers[i].combuf, x.behind = workers[i].behind,
         x.upTo = workers[i].upTo,
         workers' = [workers EXCEPT ![i] = x],
         UNCHANGED <<client, sent, inbox, sigint, failed, session, combuf, done, comport, status>>
  PROVE  Inv'
<1> USE DEF Inv
<1>1. i \in 1..Len(workers)
  BY LenProperties DEF TypeOK
<1>2. /\ workers' \in Seq(WorkerType) /\ Len(workers') = Len(workers)
      /\ \A j \in 1..Len(workers) : workers'[j] = IF j = i THEN x ELSE workers[j]
  BY <1>1, ExceptSeq DEF TypeOK
<1>3. WorkersInv'
  BY <1>1, <1>2 DEF WorkersInv
<1>. QED  BY <1>2, <1>3 DEF TypeOK, PlaceInv, LinesInv, QuitInv, EndsForCause, TooLong

Moved(w, pc, s) == {[w EXCEPT !.pc = pc], [w EXCEPT !.pc = pc, !.peer = Ephemeral], Ended(w, s)}

LEMMA WorkerMoves ==
  ASSUME NEW w \in WorkerType, NEW pc \in {"accept", "deaf", "work"}, NEW s \in Int
  PROVE  \A x \in Moved(w, pc, s) :
           x \in WorkerType /\ x.combuf = w.combuf /\ x.behind = w.behind /\ x.upTo = w.upTo
<1>1. \A l \in {"accept", "deaf", "work", "ended"} :
        LET x == [w EXCEPT !.pc = l]
        IN  x \in WorkerType /\ x.combuf = w.combuf /\ x.behind = w.behind /\ x.upTo = w.upTo
  BY DEF WorkerType
<1>2. LET x == [w EXCEPT !.pc = pc, !.peer = Ephemeral]
      IN  x \in WorkerType /\ x.combuf = w.combuf /\ x.behind = w.behind /\ x.upTo = w.upTo
  BY DEF WorkerType
<1>3. LET x == [w EXCEPT !.pc = "ended", !.status = s]
      IN  x \in WorkerType /\ x.combuf = w.combuf /\ x.behind = w.behind /\ x.upTo = w.upTo
  BY DEF WorkerType
<1>. QED  BY <1>1, <1>2, <1>3 DEF Moved, Ended

LEMMA WorkerStepInv ==
  ASSUME Inv, NEW i \in Nat,
         \/ Begin(i) \/ AcceptFails(i) \/ WorkDone(i) \/ WorkerKilled(i)
         \/ \E kind \in {"list", "search"} : Connected(i, kind)
  PROVE  Inv'
<1>1. /\ i \in DOMAIN workers
      /\ UNCHANGED <<client, sent, inbox, sigint, failed, session, combuf, done, comport, status>>
  BY DEF Begin, Announce, AnnounceFails, AcceptFails, WorkDone, WorkerKilled, Connected, Step
<1>2. workers[i] \in WorkerType
  BY <1>1, LenProperties DEF Inv, TypeOK
<1>3. PICK pc \in {"accept", "deaf", "work"}, s \in Int :
        \E x \in Moved(workers[i], pc, s) : workers' = [workers EXCEPT ![i] = x]
  BY DEF Moved, Begin, Announce, AnnounceFails, AcceptFails, WorkDone, WorkerKilled,
         Connected, Step, Signalled
<1>4. PICK x \in WorkerType :
        /\ x.combuf = workers[i].combuf /\ x.behind = workers[i].behind
        /\ x.upTo = workers[i].upTo
        /\ workers' = [workers EXCEPT ![i] = x]
  <2>1. PICK w \in WorkerType : w = workers[i]
    BY <1>2
  <2>2. PICK x \in Moved(w, pc, s) : workers' = [workers EXCEPT ![i] = x]
    BY <1>3, <2>1
  <2>3. x \in WorkerType /\ x.combuf = w.combuf /\ x.behind = w.behind /\ x.upTo = w.upTo
    BY <2>2, WorkerMoves
  <2>. QED  BY <2>1, <2>2, <2>3
<1>. QED  BY <1>1, <1>4, WorkerInv

LEMMA StepInv == Inv /\ [Next]_vars => Inv'
<1> SUFFICES ASSUME Inv, [Next]_vars PROVE Inv'
  OBVIOUS
<1>1. ASSUME NEW c \in Commands, Send(c) PROVE Inv'
  BY <1>1, SendInv
<1>2. CASE HangUp \/ Interrupt
  BY <1>2, EnvInv
<1>3. CASE Killed \/ PollFails \/ Session
  BY <1>3, EndsInv, ReadInv, ActionInv DEF Session
<1>4. ASSUME NEW i \in 1..MaxWorkers,
             \/ Begin(i) \/ AcceptFails(i) \/ WorkDone(i) \/ WorkerKilled(i)
             \/ \E kind \in {"list", "search"} : Connected(i, kind)
      PROVE  Inv'
  <2>1. i \in Nat
    BY ServerSessionAssumption
  <2>. QED  BY <1>4, <2>1, WorkerStepInv
<1>5. CASE UNCHANGED vars
  BY <1>5 DEF vars, Inv, TypeOK, PlaceInv, LinesInv, QuitInv, EndsForCause, TooLong, WorkersInv
<1>. QED  BY <1>1, <1>2, <1>3, <1>4, <1>5 DEF Next

LEMMA Invariance == Spec => []Inv
BY InitInv, StepInv, PTL DEF Spec

(* The session keeps its types, and a worker holds nothing but lines.      *)
THEOREM SessionTypes == Spec => []TypeOK
<1>1. Inv => TypeOK
  BY DEF Inv
<1>. QED  BY <1>1, Invariance, PTL

(* Every line is taken once, in the order it was sent, and nothing behind  *)
(* a QUIT, however read cuts what the client sends (protocol.c:43-104).    *)
THEOREM TakenInOrder == Spec => []InOrder
<1>1. Inv => InOrder
  <2> SUFFICES ASSUME Inv PROVE InOrder
    OBVIOUS
  <2> USE DEF Inv
  <2>0. /\ Len(done) \in Nat /\ Len(combuf) \in Nat /\ Len(inbox) \in Nat /\ Len(sent) \in Nat
    BY DEF TypeOK
  <2>1. IsPrefix(done, sent)
    <3>1. Len(done) <= Len(sent) /\ \A k \in 1..Len(done) : done[k] = sent[k]
      BY <2>0 DEF LinesInv, Part
    <3>2. SubSeq(done, 1, Len(done)) = SubSeq(sent, 1, Len(done))
      BY <2>0, <3>1 DEF TypeOK
    <3>. QED  BY <3>1, <3>2 DEF IsPrefix
  <2>2. \A k \in 1..Len(done)-1 : done[k].word # "QUIT"
    BY <2>0 DEF QuitInv
  <2>3. ASSUME session # "ended" PROVE done \o combuf \o inbox = sent
    <3> DEFINE read == done \o combuf  all == read \o inbox
    <3>1. /\ read \in Seq(Command) /\ Len(read) = Len(done) + Len(combuf)
          /\ \A k \in 1..Len(done) + Len(combuf) :
               read[k] = IF k <= Len(done) THEN done[k] ELSE combuf[k - Len(done)]
      BY ConcatProperties DEF TypeOK
    <3> HIDE DEF read
    <3>2. /\ all \in Seq(Command) /\ Len(all) = Len(read) + Len(inbox)
          /\ \A k \in 1..Len(read) + Len(inbox) :
               all[k] = IF k <= Len(read) THEN read[k] ELSE inbox[k - Len(read)]
      BY <3>1, ConcatProperties, SMTT(20) DEF TypeOK
    <3> HIDE DEF all
    <3>3. Len(all) = Len(sent)
      BY <2>0, <2>3, <3>1, <3>2 DEF LinesInv
    <3>4. \A k \in 1..Len(all) : all[k] = sent[k]
      <4> TAKE k \in 1..Len(all)
      <4>1. CASE k \in 1..Len(done)
        BY <2>0, <3>1, <3>2, <4>1 DEF LinesInv, Part
      <4>2. CASE k - Len(done) \in 1..Len(combuf)
        <5>1. all[k] = combuf[k - Len(done)]
          BY <2>0, <3>1, <3>2, <4>2
        <5>2. combuf[k - Len(done)] = sent[Len(done) + (k - Len(done))]
          BY <4>2 DEF LinesInv, Part
        <5>. QED  BY <2>0, <5>1, <5>2
      <4>3. CASE k - Len(read) \in 1..Len(inbox)
        <5>1. all[k] = inbox[k - Len(read)]
          BY <2>0, <3>1, <3>2, <4>3
        <5>2. inbox[k - Len(read)] = sent[Len(read) + (k - Len(read))]
          BY <2>3, <3>1, <4>3 DEF LinesInv, Part
        <5>. QED  BY <2>0, <3>1, <5>1, <5>2
      <4>. QED  BY <2>0, <3>1, <3>2, <4>1, <4>2, <4>3
    <3>. QED  BY <3>2, <3>3, <3>4, SeqEqual DEF TypeOK, all, read
  <2>. QED  BY <2>1, <2>2, <2>3 DEF InOrder
<1>. QED  BY <1>1, Invariance, PTL

(* Each exit status of a session has its cause, and a client that hangs up *)
(* has had every line acted on (server.c:80-124).                          *)
THEOREM EndsForItsCause == Spec => []EndsForCause
<1>1. Inv => EndsForCause
  BY DEF Inv
<1>. QED  BY <1>1, Invariance, PTL

(* A worker holds a copy of the lines that the session takes itself: all   *)
(* that were read behind its own command and no others                     *)
(* (server_protocol.c:117-162, 181-217).                                   *)
THEOREM WorkersReadAhead == Spec => []InheritsReadAhead
<1>1. Inv => InheritsReadAhead
  <2> SUFFICES ASSUME Inv, NEW i \in DOMAIN workers
               PROVE  workers[i].combuf = SubSeq(sent, workers[i].behind + 1, workers[i].upTo)
    BY DEF InheritsReadAhead
  <2> USE DEF Inv
  <2>1. i \in 1..Len(workers) /\ workers[i] \in WorkerType
    BY LenProperties DEF TypeOK
  <2>2. workers[i].combuf \in Seq(Command) /\ workers[i].behind \in Nat
    BY <2>1 DEF WorkerType
  <2>3. /\ Part(workers[i].combuf, sent, workers[i].behind)
        /\ workers[i].upTo = workers[i].behind + Len(workers[i].combuf)
    BY <2>1 DEF WorkersInv
  <2>4. workers[i].upTo \in Nat
    BY <2>2, <2>3
  <2>5. sent \in Seq(Command)
    BY DEF TypeOK
  <2>6. PICK b \in Seq(Command), m \in Nat, n \in Nat :
          b = workers[i].combuf /\ m = workers[i].behind /\ n = workers[i].upTo
    BY <2>2, <2>4
  <2>7. Part(b, sent, m) /\ n = m + Len(b)
    BY <2>3, <2>6
  <2> HIDE DEF Inv
  <2>8. b = SubSeq(sent, m + 1, n)
    BY <2>5, <2>7, PartExact
  <2>. QED  BY <2>6, <2>8
<1>. QED  BY <1>1, Invariance, PTL
-----------------------------------------------------------------------------
(* The replies.  A worker's reply is none of the session's own.            *)
Reply == [by : Nat, what : Said]

LEMMA RepliesIsSeq ==
  ASSUME NEW s \in Seq(Reply)
  PROVE  /\ Only(s, Own) \in Seq(Reply) /\ Replies(s) \in Seq(Said)
         /\ Len(Replies(s)) = Len(Only(s, Own))
         /\ \A k \in 1..Len(Only(s, Own)) : Replies(s)[k] = Only(s, Own)[k].what
<1>1. PICK own \in Seq(Reply) : own = Only(s, Own)
  BY OnlySeq
<1>2. \A k \in 1..Len(own) : own[k].what \in Said
  <2>1. \A k \in 1..Len(own) : own[k] \in Reply
    BY ElementOfSeq
  <2>. QED  BY <2>1 DEF Reply
<1>3. [k \in 1..Len(own) |-> own[k].what] \in Seq(Said)
  BY <1>2
<1>. QED  BY <1>1, <1>3 DEF Replies

LEMMA RepliesAppend ==
  ASSUME NEW s \in Seq(Reply), NEW r \in Reply
  PROVE  Replies(Append(s, r)) = IF r.by = 0 THEN Append(Replies(s), r.what) ELSE Replies(s)
<1>1. PICK own \in Seq(Reply) : own = Only(s, Own)
  BY OnlySeq
<1>2. r \in Own <=> r.by = 0
  BY DEF Reply, Own
<1>3. Only(Append(s, r), Own) = IF r.by = 0 THEN Append(own, r) ELSE own
  BY <1>1, <1>2, OnlyAppend
<1>4. CASE r.by # 0
  BY <1>1, <1>3, <1>4 DEF Replies
<1>5. CASE r.by = 0
  <2>1. PICK new : new = Append(own, r)
    OBVIOUS
  <2>2. /\ new \in Seq(Reply) /\ Len(new) = Len(own) + 1 /\ new[Len(own) + 1] = r
        /\ \A k \in 1..Len(own) : new[k] = own[k]
    BY <2>1, AppendProperties
  <2>3. PICK u : u = Replies(Append(s, r))
    OBVIOUS
  <2>4. /\ u \in Seq(Said) /\ Len(u) = Len(new)
        /\ \A k \in 1..Len(new) : u[k] = new[k].what
    <3>1. PICK t : t = Append(s, r)
      OBVIOUS
    <3>2. Only(t, Own) = new /\ t \in Seq(Reply)
      BY <1>3, <1>5, <2>1, <3>1, AppendProperties
    <3>. QED  BY <2>3, <3>1, <3>2, RepliesIsSeq
  <2>5. /\ Replies(s) \in Seq(Said) /\ Len(Replies(s)) = Len(own)
        /\ \A k \in 1..Len(own) : Replies(s)[k] = own[k].what
    BY <1>1, RepliesIsSeq
  <2>6. /\ Len(own) \in Nat /\ Len(own) + 1 \in 1..Len(new)
        /\ \A k \in 1..Len(own) : k \in 1..Len(new)
    BY <2>2
  <2>7. u = Append(Replies(s), u[Len(own) + 1])
    <3>1. PICK v \in Seq(Said) : v = Replies(s)
      BY <2>5
    <3>2. Len(u) = Len(v) + 1 /\ \A k \in 1..Len(v) : u[k] = v[k]
      BY <2>2, <2>4, <2>5, <2>6, <3>1
    <3>. QED  BY <2>4, <2>5, <3>1, <3>2, IsAppend
  <2>. QED  BY <1>5, <2>2, <2>3, <2>4, <2>6, <2>7
<1>. QED  BY <1>4, <1>5

LEMMA AnswerIsSeq == \A c : Answer(c) \in Seq(Said)
<1> SUFFICES ASSUME NEW c PROVE Answer(c) \in Seq(Said)
  OBVIOUS
<1>1. \A w \in Said : <<w>> \in Seq(Said)
  OBVIOUS
<1>2. c.word \in {"QUIT", "STATUS", "HELP", "BROWSE"} => c.word \in Said
  BY DEF Said
<1>3. "SENDLIST" \in Said /\ "?" \in Said
  BY DEF Said
<1>. QED  BY <1>1, <1>2, <1>3 DEF Answer

LEMMA AnswersAppend ==
  ASSUME NEW s \in Seq(Command), NEW c \in Command
  PROVE  /\ Answers(s) \in Seq(Said)
         /\ Answers(Append(s, c)) = Answers(s) \o Answer(c)
<1> DEFINE each(t) == [k \in DOMAIN t |-> Answer(t[k])]
<1>1. PICK B : B = Seq(Said)
  OBVIOUS
<1>2. each(s) \in Seq(B) /\ Len(each(s)) = Len(s) /\ Answer(c) \in B
  <2>1. (\A k \in 1..Len(s) : Answer(s[k]) \in B) /\ Answer(c) \in B
    BY <1>1, AnswerIsSeq
  <2>2. PICK N \in Nat : N = Len(s)
    OBVIOUS
  <2>3. each(s) = [k \in 1..N |-> Answer(s[k])]
    BY <2>2
  <2>. QED  BY <2>1, <2>2, <2>3
<1>3. each(Append(s, c)) = Append(each(s), Answer(c))
  <2>1. PICK t : t = Append(s, c)
    OBVIOUS
  <2>2. /\ t \in Seq(Command) /\ Len(t) = Len(s) + 1 /\ t[Len(s) + 1] = c
        /\ \A k \in 1..Len(s) : t[k] = s[k]
    BY <2>1, AppendProperties
  <2>3. \A k \in 1..Len(t) : Answer(t[k]) \in B
    BY <1>1, AnswerIsSeq
  <2>4. /\ each(t) \in Seq(B) /\ Len(each(t)) = Len(t)
        /\ \A k \in 1..Len(t) : each(t)[k] = Answer(t[k])
    BY <2>2, <2>3
  <2>5. \A k \in 1..Len(s) : each(s)[k] = Answer(s[k])
    OBVIOUS
  <2>6. \A k \in 1..Len(s) : each(t)[k] = each(s)[k]
    BY <2>2, <2>4, <2>5
  <2>7. Len(s) + 1 \in 1..Len(t)
    BY <2>2
  <2> HIDE DEF each
  <2>8. each(t) = Append(each(s), each(t)[Len(s) + 1])
    BY <1>2, <2>2, <2>4, <2>6, IsAppend
  <2>. QED  BY <2>1, <2>2, <2>4, <2>7, <2>8
<1> HIDE DEF each
<1>4. FlattenSeq(Append(each(s), Answer(c))) = FlattenSeq(each(s)) \o Answer(c)
  BY <1>1, <1>2, FlattenAppend
<1>5. FlattenSeq(each(s)) \in Seq(Said)
  BY <1>1, <1>2, FlattenIsSeq
<1>. QED  BY <1>3, <1>4, <1>5 DEF Answers, each

AnswersInv == out \in Seq(Reply) /\ AnsweredInOrder

(* What a command writes is its answer, or nothing and the session ends.   *)
LEMMA ActionAnswers ==
  ASSUME Inv, AnswersInv, Action PROVE AnswersInv'
<1>1. PICK w \in {"?", "STATUS", "HELP", "BROWSE", "QUIT", "PORT", "SEARCH", "FILELIST"} : Take(w)
  BY DEF Action, Unknown, Status, Help, Browse, Quit, Port, Search, Filelist
<1> DEFINE c == Head(combuf)
<1>2. /\ c \in Command /\ c.word = w /\ done \in Seq(Command) /\ done' = Append(done, c)
      /\ session = "lines" /\ client' = client
  BY <1>1, TakeLines DEF Take, Inv, TypeOK
<1>3. out' = out \/ \E what \in Said : out' = Append(out, [by |-> 0, what |-> what])
  BY DEF Action, Unknown, Status, Help, Browse, Quit, Port, Search, Filelist, Say, SayFails, Said
<1>4. out' \in Seq(Reply)
  <2>1. \A what \in Said : [by |-> 0, what |-> what] \in Reply
    BY DEF Reply
  <2>. QED  BY <1>3, <2>1, AppendProperties, ZenonT(40) DEF AnswersInv
<1>5. ASSUME client = "up"
      PROVE  \/ out' = out /\ Answer(c) = <<>>
             \/ \E what \in Said :
                  out' = Append(out, [by |-> 0, what |-> what]) /\ Answer(c) = <<what>>
             \/ out' = out /\ Answer(c) = <<"SENDLIST">> /\ session' = "ended"
  <2>1. CASE Unknown
    <3>1. c.word = "?"
      BY <2>1 DEF Unknown, Take
    <3>2. \/ c.arg # None /\ out' = Append(out, [by |-> 0, what |-> "?"])
          \/ c.arg = None /\ out' = out
      BY <1>5, <2>1 DEF Unknown, Say, SayFails, Arg
    <3>. QED  BY <3>1, <3>2 DEF Answer, Said
  <2>2. CASE Status \/ Help \/ Browse \/ Quit
    <3>1. PICK what \in {"STATUS", "HELP", "BROWSE", "QUIT"} :
            out' = Append(out, [by |-> 0, what |-> what]) /\ c.word = what
      BY <1>5, <2>2 DEF Status, Help, Browse, Quit, Say, SayFails, Take
    <3>. QED  BY <3>1 DEF Answer, Said
  <2>3. CASE Port \/ Search
    BY <2>3 DEF Port, Search, Take, Answer
  <2>4. CASE Filelist
    <3>1. Answer(c) = <<"SENDLIST">>
      BY <2>4 DEF Filelist, Take, Answer
    <3>2. \/ out' = Append(out, [by |-> 0, what |-> "SENDLIST"])
          \/ out' = out /\ session' = "ended"
      BY <1>5, <2>4 DEF Filelist, Say, SayFails, Finish
    <3>. QED  BY <3>1, <3>2 DEF Said
  <2>. QED  BY <2>1, <2>2, <2>3, <2>4 DEF Action
<1>6. ASSUME client = "up" PROVE AnsweredInOrder'
  <2>1. Replies(out) = Answers(done) /\ out \in Seq(Reply)
    BY <1>2, <1>6 DEF AnswersInv, AnsweredInOrder
  <2>2. /\ Replies(out) \in Seq(Said) /\ Answers(done') = Answers(done) \o Answer(c)
        /\ Answers(done) \in Seq(Said)
    BY <1>2, <2>1, RepliesIsSeq, AnswersAppend
  <2>3. CASE out' = out /\ Answer(c) = <<>>
    BY <2>1, <2>2, <2>3 DEF AnsweredInOrder
  <2>4. ASSUME NEW what \in Said,
               out' = Append(out, [by |-> 0, what |-> what]), Answer(c) = <<what>>
        PROVE  AnsweredInOrder'
    <3>1. Replies(out') = Append(Replies(out), what)
      <4>1. PICK r \in Reply : r = [by |-> 0, what |-> what]
        BY DEF Reply
      <4>. QED  BY <2>1, <2>4, <4>1, RepliesAppend
    <3>2. Replies(out) \o <<what>> = Append(Replies(out), what)
      BY <2>2, AppendIsConcat
    <3>. QED  BY <2>1, <2>2, <2>4, <3>1, <3>2 DEF AnsweredInOrder
  <2>5. CASE out' = out /\ Answer(c) = <<"SENDLIST">> /\ session' = "ended"
    <3>1. Replies(out) \o <<"SENDLIST">> = Append(Replies(out), "SENDLIST")
      BY <2>2, AppendIsConcat
    <3>. QED  BY <2>1, <2>2, <2>5, <3>1 DEF AnsweredInOrder
  <2>. QED  BY <1>5, <1>6, <2>3, <2>4, <2>5
<1>. QED  BY <1>2, <1>4, <1>6 DEF AnswersInv, AnsweredInOrder

LEMMA StepAnswers == Inv /\ AnswersInv /\ [Next]_vars => AnswersInv'
<1> SUFFICES ASSUME Inv, AnswersInv, [Next]_vars PROVE AnswersInv'
  OBVIOUS
<1>1. CASE UNCHANGED <<out, done>> /\ (client' = client \/ client' # "up")
                                   /\ (session' = session \/ session' = "ended")
  BY <1>1 DEF AnswersInv, AnsweredInOrder
<1>2. CASE Action
  BY <1>2, ActionAnswers
<1>3. ASSUME NEW i \in 1..MaxWorkers, Announce(i) PROVE AnswersInv'
  <2>1. UNCHANGED <<client, session, done>> /\ i \in Nat /\ i # 0
    BY <1>3, ServerSessionAssumption DEF Announce, Step
  <2>2. CASE out' = out
    BY <2>1, <2>2 DEF AnswersInv, AnsweredInOrder
  <2>3. CASE out' = Append(out, [by |-> i, what |-> "RESULT"])
    <3>1. [by |-> i, what |-> "RESULT"] \in Reply
      <4>1. "RESULT" \in Said
        BY DEF Said
      <4>. QED  BY <2>1, <4>1 DEF Reply
    <3>2. out' \in Seq(Reply) /\ Replies(out') = Replies(out)
      BY <2>1, <2>3, <3>1, RepliesAppend DEF AnswersInv
    <3>. QED  BY <2>1, <3>2 DEF AnswersInv, AnsweredInOrder
  <2>. QED  BY <1>3, <2>2, <2>3 DEF Announce, Say
<1>4. ASSUME NEW i \in 1..MaxWorkers,
             \/ AnnounceFails(i) \/ AcceptFails(i) \/ WorkDone(i) \/ WorkerKilled(i)
             \/ \E kind \in {"list", "search"} : Connected(i, kind)
      PROVE  UNCHANGED <<out, done, client, session>>
  BY <1>4 DEF AnnounceFails, AcceptFails, WorkDone, WorkerKilled, Connected, Step
<1>6. CASE LinesDone
  BY <1>6 DEF LinesDone, AnswersInv, AnsweredInOrder
<1>7. CASE Read
  BY <1>7 DEF Read, AnswersInv, AnsweredInOrder
<1>8. ASSUME \/ \E c \in Commands : Send(c)
             \/ HangUp \/ Interrupt \/ Killed \/ PollFails \/ Ends
      PROVE  UNCHANGED <<out, done>> /\ (client' = client \/ client' # "up")
                                     /\ (session' = session \/ session' = "ended")
  BY <1>8 DEF Send, HangUp, Interrupt, Killed, PollFails, Ends, BufferFull, ClientHungUp, ReadFails,
              NoConnection, TakeSignal, Finish
<1>9. CASE UNCHANGED vars
  BY <1>1, <1>9 DEF vars
<1>. QED
  BY <1>1, <1>2, <1>3, <1>4, <1>6, <1>7, <1>8, <1>9 DEF Next, Session, Begin

(* The replies of the session answer its commands one by one, in the order *)
(* of the commands, however replies of workers come in between, as long as *)
(* the client is there to see it (protocol.c:43-104, server_protocol.c).   *)
THEOREM RepliesInOrder == Spec => []AnsweredInOrder
<1>1. Init => AnswersInv
  <2> SUFFICES ASSUME Init PROVE AnswersInv
    OBVIOUS
  <2>1. Replies(<<>>) = <<>> /\ Answers(<<>>) = <<>>
    <3>1. Only(<<>>, Own) = <<>> /\ FlattenSeq(<<>>) = <<>>
      BY OnlyEmpty, FlattenEmpty
    <3>2. [k \in DOMAIN <<>> |-> <<>>[k].what] = <<>> /\ [k \in DOMAIN <<>> |-> Answer(<<>>[k])] = <<>>
      OBVIOUS
    <3>. QED  BY <3>1, <3>2 DEF Replies, Answers
  <2>. QED  BY <2>1 DEF Init, AnswersInv, AnsweredInOrder
<1>2. AnswersInv => AnsweredInOrder
  BY DEF AnswersInv
<1>. QED  BY <1>1, <1>2, StepAnswers, Invariance, PTL DEF Spec
=============================================================================
