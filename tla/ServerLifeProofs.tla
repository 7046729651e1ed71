-------------------------- MODULE ServerLifeProofs --------------------------
(***************************************************************************)
(* Proofs about ServerLife, for any number of sessions and messages and    *)
(* any size of the pipe and of the logger's buffer.                        *)
(***************************************************************************)
EXTENDS ServerLife, SequenceLemmas, TLAPS

(***************************************************************************)
(* What a semaphore of the set does for the processes that bracket a piece *)
(* of code with semWait and semSignal: at most one of them is inside, also *)
(* when some of them are ended by a signal there, and also while the set   *)
(* is removed.                                                             *)
(***************************************************************************)
(* P are the processes, In those that are between semWait and semSignal.   *)
(* As long as the set exists, its value and the adjustments say who is in. *)
Bracketed(s, P, In) ==
  /\ s \in [live : BOOLEAN, val : Nat, adj : [P -> Int]]
  /\ In \subseteq P
  /\ \A p, q \in In : p = q
  /\ s.live => /\ \A p \in P : s.adj[p] = IF p \in In THEN 1 ELSE 0
               /\ s.val = IF In = {} THEN 1 ELSE 0

LEMMA CreatedBracketed ==
  ASSUME NEW P PROVE Bracketed(SemCreated(P), P, {})
BY DEF Bracketed, SemCreated

(* Whoever gets through semWait finds nobody inside.                       *)
LEMMA TakenBracketed ==
  ASSUME NEW s, NEW P, NEW In, Bracketed(s, P, In), SemAvailable(s), NEW p \in P
  PROVE  In = {} /\ Bracketed(SemTaken(s, p), P, {p})
<1>1. In = {}
  BY DEF Bracketed, SemAvailable
<1>2. SemTaken(s, p) \in [live : BOOLEAN, val : Nat, adj : [P -> Int]]
  BY DEF Bracketed, SemAvailable, SemTaken
<1>3. s.val = 1 /\ \A q \in P : s.adj[q] = 0
  BY <1>1 DEF Bracketed, SemAvailable
<1>4. /\ SemTaken(s, p).val = 0
      /\ \A q \in P : SemTaken(s, p).adj[q] = IF q = p THEN 1 ELSE 0
  BY <1>3 DEF SemTaken, Bracketed
<1>. QED  BY <1>1, <1>2, <1>4 DEF Bracketed

(* semSignal, by a process that is inside.                                 *)
LEMMA GivenBracketed ==
  ASSUME NEW s, NEW P, NEW In, Bracketed(s, P, In), NEW p \in In
  PROVE  In \ {p} = {} /\ Bracketed(SemGiven(s, p), P, {})
<1>1. In = {p}
  BY DEF Bracketed
<1>2. SemGiven(s, p) \in [live : BOOLEAN, val : Nat, adj : [P -> Int]]
  BY DEF Bracketed, SemGiven
<1>. QED  BY <1>1, <1>2 DEF Bracketed, SemGiven

(* The end of a process, wherever it is.                                   *)
LEMMA ExitedBracketed ==
  ASSUME NEW s, NEW P, NEW In, Bracketed(s, P, In), NEW p \in P
  PROVE  Bracketed(SemExited(s, p), P, In \ {p})
<1>1. CASE ~s.live
  BY <1>1 DEF Bracketed, SemExited
<1>2. CASE s.live /\ p \in In
  <2>1. In = {p} /\ s.val = 0 /\ s.adj[p] = 1
    BY <1>2 DEF Bracketed
  <2>2. SemExited(s, p) = [live |-> TRUE, val |-> 1, adj |-> [s.adj EXCEPT ![p] = 0]]
    BY <1>2, <2>1 DEF SemExited
  <2>. QED  BY <1>2, <2>1, <2>2 DEF Bracketed
<1>3. CASE s.live /\ p \notin In
  <2>1. s.adj[p] = 0 /\ In \ {p} = In
    BY <1>3 DEF Bracketed
  <2>2. s.val + s.adj[p] = s.val /\ ~(s.val < 0)
    BY <2>1 DEF Bracketed
  <2>3. SemExited(s, p) = [live |-> TRUE, val |-> s.val, adj |-> [s.adj EXCEPT ![p] = 0]]
    BY <1>3, <2>2, Zenon DEF SemExited
  <2>. QED  BY <1>3, <2>1, <2>3 DEF Bracketed
<1>. QED  BY <1>1, <1>2, <1>3

LEMMA RemovedBracketed ==
  ASSUME NEW s, NEW P, NEW In, Bracketed(s, P, In)
  PROVE  Bracketed(SemRemoved(s), P, In)
BY DEF Bracketed, SemRemoved
-----------------------------------------------------------------------------
Pieces == [by : Procs, no : Nat, part : {"head", "tail"}]

Steps == {"none", "poll", "fork", "leave", "close", "run",
          "wait", "head", "tail", "signal", "gone"}

(* Between semWait and semSignal of SEM_LOGGER.                            *)
Inside == {p \in Procs : pc[p] \in {"head", "tail", "signal"}}

TypeOK ==
  /\ pipe \in Seq(Pieces) /\ batch \in Seq(Pieces) /\ file \in Seq(Pieces)
  /\ logger \in {"read", "write", "freeap", "close", "gone"}
  /\ end \in {"no", "eof", "failed", "killed"}
  /\ pc \in [Procs -> Steps]
  /\ after \in [Procs -> {"poll", "fork", "leave", "run"}]
  /\ said \in [Procs -> Nat]

(* One process inside, as SEM_LOGGER has it.                               *)
SemInv == Bracketed(sem, Procs, Inside)

(* What of the log is in the file, in the logger's buffer or in the pipe.  *)
LoggerInv ==
  /\ logger \in {"read", "write"} => end = "no"
  /\ logger \in {"freeap", "close"} => end \in {"eof", "failed"}
  /\ logger = "gone" => end # "no"
  /\ logger # "write" /\ ~Lossy => batch = <<>>
  /\ end = "eof" => pipe = <<>> /\ ~WriterLeft

(* Who has removed the set.                                                *)
SetInv ==
  ~sem.live => \/ pc[Main] \in {"close", "gone"}
               \/ logger \in {"close", "gone"} /\ end \in {"eof", "failed"}

Inv0 == TypeOK /\ SemInv /\ LoggerInv /\ SetInv

-----------------------------------------------------------------------------
LEMMA MinOfTwo ==
  ASSUME NEW m \in Nat \ {0}, NEW n \in Nat \ {0} PROVE Min({m, n}) \in 1..n
<1>1. PICK x \in {m, n} : \A y \in {m, n} : x <= y
  <2>1. CASE m <= n
    BY <2>1
  <2>2. CASE n <= m
    BY <2>2
  <2>. QED  BY <2>1, <2>2
<1>2. Min({m, n}) \in {m, n} /\ \A y \in {m, n} : Min({m, n}) <= y
  BY <1>1 DEF Min
<1>. QED  BY <1>2

LEMMA InitInv0 == Init => Inv0
<1> SUFFICES ASSUME Init PROVE Inv0
  OBVIOUS
<1>1. Inside = {}
  BY DEF Init, Inside
<1>2. SemInv
  BY <1>1, CreatedBracketed DEF Init, SemInv
<1>3. TypeOK
  BY ServerLifeAssumption DEF Init, TypeOK, Steps, Procs
<1>4. LoggerInv /\ SetInv
  BY ServerLifeAssumption DEF Init, LoggerInv, SetInv, SemCreated, WriterLeft, Running, Procs
<1>. QED  BY <1>2, <1>3, <1>4 DEF Inv0

(* The steps of the logger.                                                *)
LEMMA LoggerInv0 == Inv0 /\ (Logger \/ WriteFileFails \/ LoggerKilled) => Inv0'
<1> SUFFICES ASSUME Inv0, Logger \/ WriteFileFails \/ LoggerKilled PROVE Inv0'
  OBVIOUS
<1> USE DEF Inv0
<1>1. UNCHANGED <<pc, after, said>>
  BY DEF Logger, EndOfPipe, ReadPipe, WriteFile, LoggerRemovesSet, LoggerCloses,
         WriteFileFails, LoggerKilled
<1>2. Inside' = Inside /\ WriterLeft' = WriterLeft
  BY <1>1 DEF Inside, WriterLeft, Running
<1>3. SemInv'
  <2>1. sem' = sem \/ sem' = SemRemoved(sem)
    BY DEF Logger, EndOfPipe, ReadPipe, WriteFile, LoggerRemovesSet, LoggerCloses,
           WriteFileFails, LoggerKilled
  <2>. QED  BY <1>2, <2>1, RemovedBracketed DEF SemInv
<1>4. CASE EndOfPipe
  BY <1>1, <1>2, <1>3, <1>4 DEF EndOfPipe, TypeOK, LoggerInv, SetInv, Lossy
<1>5. CASE ReadPipe
  <2> DEFINE k == Min({BatchSize, Len(pipe)})
  <2>1. k \in 1..Len(pipe)
    <3>1. Len(pipe) \in Nat \ {0}
      BY <1>5, EmptySeq DEF ReadPipe, TypeOK
    <3>. QED  BY <3>1, MinOfTwo, ServerLifeAssumption
  <2>2. SubSeq(pipe, 1, k) \in Seq(Pieces) /\ SubSeq(pipe, k + 1, Len(pipe)) \in Seq(Pieces)
    <3> HIDE DEF k
    <3>. QED  BY <2>1 DEF TypeOK
  <2>. QED  BY <1>1, <1>2, <1>3, <1>5, <2>2 DEF ReadPipe, TypeOK, LoggerInv, SetInv, Lossy
<1>6. CASE WriteFile
  BY <1>1, <1>2, <1>3, <1>6 DEF WriteFile, TypeOK, LoggerInv, SetInv, Lossy
<1>7. CASE LoggerRemovesSet
  BY <1>1, <1>2, <1>3, <1>7 DEF LoggerRemovesSet, TypeOK, LoggerInv, SetInv, Lossy
<1>8. CASE LoggerCloses
  BY <1>1, <1>2, <1>3, <1>8 DEF LoggerCloses, TypeOK, LoggerInv, SetInv, Lossy
<1>9. CASE WriteFileFails
  <2>1. file' \in Seq(Pieces)
    BY <1>9 DEF WriteFileFails, TypeOK
  <2>. QED  BY <1>1, <1>2, <1>3, <1>9, <2>1 DEF WriteFileFails, TypeOK, LoggerInv, SetInv, Lossy
<1>10. CASE LoggerKilled
  BY <1>1, <1>2, <1>3, <1>10 DEF LoggerKilled, TypeOK, LoggerInv, SetInv, Lossy
<1>. QED  BY <1>4, <1>5, <1>6, <1>7, <1>8, <1>9, <1>10 DEF Logger

(* A step of a process that runs changes neither the logger nor, but for   *)
(* LogWrite, the pipe.                                                     *)
LEMMA ProcessStep ==
  ASSUME Inv0, NEW p \in Procs, Running(p), UNCHANGED log, sem'.live = sem.live,
         pc[Main] \in {"close", "gone"} => pc'[Main] \in {"close", "gone"}
  PROVE  LoggerInv' /\ SetInv'
<1>1. end # "eof"
  BY DEF Inv0, LoggerInv, WriterLeft
<1>2. LoggerInv'
  BY <1>1 DEF Inv0, LoggerInv, log, Lossy
<1>. QED  BY <1>2 DEF Inv0, SetInv, log

LEMMA LogStepInv0 ==
  ASSUME Inv0, NEW p \in Procs, LogStep(p) \/ LogInterrupted(p)
  PROVE  Inv0'
<1> USE DEF Inv0
<1>0. Main \in Procs
  BY DEF Procs
<1>1. CASE LogWait(p)
  <2>1. SemInv'
    <3>1. Inside = {} /\ Bracketed(sem', Procs, {p})
      BY <1>1, TakenBracketed DEF LogWait, SemInv
    <3>2. Inside' = {p}
      BY <1>1, <3>1 DEF LogWait, Goto, Inside, TypeOK
    <3>. QED  BY <3>1, <3>2 DEF SemInv
  <2>2. TypeOK'
    BY <1>1 DEF LogWait, Goto, TypeOK, log, Steps
  <2>3. LoggerInv' /\ SetInv'
    BY <1>0, <1>1, ProcessStep DEF LogWait, Goto, Running, SemTaken, TypeOK
  <2>. QED  BY <2>1, <2>2, <2>3
<1>2. CASE LogRefused(p) \/ LogInterrupted(p)
  <2>1. SemInv'
    <3>1. Inside' = Inside
      BY <1>2 DEF LogRefused, LogInterrupted, Refused, Return, Goto, Inside, TypeOK
    <3>. QED  BY <1>2, <3>1 DEF SemInv, LogRefused, LogInterrupted
  <2>2. TypeOK'
    <3>1. Return(p) /\ UNCHANGED <<pipe, log>>
      BY <1>2 DEF LogRefused, LogInterrupted, Refused
    <3>2. after[p] \in Steps /\ said[p] + 1 \in Nat
      BY DEF TypeOK, Steps
    <3>. QED  BY <3>1, <3>2 DEF Return, Goto, TypeOK, log
  <2>3. LoggerInv' /\ SetInv'
    BY <1>0, <1>2, ProcessStep
       DEF LogRefused, LogInterrupted, Refused, Return, Goto, Running, TypeOK
  <2>. QED  BY <2>1, <2>2, <2>3
<1>3. CASE LogWrite(p)
  <2>1. PICK part \in {"head", "tail"}, next \in {"tail", "signal"} : Write(p, part, next)
    BY <1>3 DEF LogWrite
  <2>2. SemInv'
    <3>1. Inside' = Inside
      BY <2>1 DEF Write, Goto, Inside, TypeOK
    <3>. QED  BY <2>1, <3>1 DEF SemInv, Write
  <2>3. TypeOK'
    <3>1. Piece(p, part) \in Pieces
      BY DEF Piece, Pieces, TypeOK
    <3>. QED  BY <2>1, <3>1 DEF Write, Goto, TypeOK, log, Steps
  <2>4. LoggerInv' /\ SetInv'
    BY <1>0, <2>1, ProcessStep DEF Write, Goto, Running, TypeOK
  <2>. QED  BY <2>2, <2>3, <2>4
<1>4. CASE BrokenPipe(p)
  <2>1. SemInv'
    <3>1. Inside' = Inside \ {p}
      BY <1>4 DEF BrokenPipe, Ends, Leaves, Goto, Inside, TypeOK
    <3>. QED  BY <1>4, <3>1, ExitedBracketed DEF SemInv, BrokenPipe, Ends
  <2>2. TypeOK'
    BY <1>4 DEF BrokenPipe, Ends, Leaves, Goto, TypeOK, log, Steps
  <2>3. LoggerInv' /\ SetInv'
    BY <1>0, <1>4, ProcessStep
       DEF BrokenPipe, Ends, Leaves, Goto, Running, TypeOK, SemExited
  <2>. QED  BY <2>1, <2>2, <2>3
<1>5. CASE LogSignal(p)
  <2>1. SemInv'
    <3>1. p \in Inside
      BY <1>5 DEF LogSignal, Inside
    <3>2. Inside \ {p} = {} /\ Bracketed(sem', Procs, {})
      BY <1>5, <3>1, GivenBracketed DEF LogSignal, SemInv
    <3>3. Inside' = Inside \ {p}
      BY <1>5 DEF LogSignal, Return, Goto, Inside, TypeOK
    <3>. QED  BY <3>2, <3>3 DEF SemInv
  <2>2. TypeOK'
    BY <1>5 DEF LogSignal, Return, Goto, TypeOK, log, Steps
  <2>3. LoggerInv' /\ SetInv'
    BY <1>0, <1>5, ProcessStep
       DEF LogSignal, Return, Goto, Running, TypeOK, SemGiven
  <2>. QED  BY <2>1, <2>2, <2>3
<1>. QED  BY <1>1, <1>2, <1>3, <1>4, <1>5 DEF LogStep

(* The end of a process at any place.                                      *)
LEMMA EndsInv0 ==
  ASSUME Inv0, NEW p \in Procs, Running(p), Ends(p), UNCHANGED <<quiet, after>>
  PROVE  Inv0'
<1> USE DEF Inv0
<1>0. Main \in Procs
  BY DEF Procs
<1>1. SemInv'
  <2>1. Inside' = Inside \ {p}
    BY DEF Ends, Leaves, Goto, Inside, TypeOK
  <2>. QED  BY <2>1, ExitedBracketed DEF SemInv, Ends
<1>2. TypeOK'
  BY DEF Ends, Leaves, Goto, TypeOK, quiet, log, Steps
<1>3. LoggerInv' /\ SetInv'
  BY <1>0, ProcessStep DEF Ends, Leaves, Goto, Running, TypeOK, SemExited, quiet
<1>. QED  BY <1>1, <1>2, <1>3

(* Main, and a session that begins to log.                                 *)
LEMMA MainInv0 == Inv0 /\ (MainStep \/ PollFails) => Inv0'
<1> SUFFICES ASSUME Inv0, MainStep \/ PollFails PROVE Inv0'
  OBVIOUS
<1> USE DEF Inv0
<1>0. Main \in Procs /\ Main \notin Sessions
  BY ServerLifeAssumption DEF Procs
<1>1. CASE MainExits
  BY <1>0, <1>1, EndsInv0 DEF MainExits, Running
<1>2. CASE RemoveSet
  <2>1. Inside' = Inside
    BY <1>0, <1>2 DEF RemoveSet, Goto, Inside, TypeOK
  <2>2. SemInv'
    BY <1>2, <2>1, RemovedBracketed DEF RemoveSet, SemInv
  <2>3. TypeOK'
    BY <1>2 DEF RemoveSet, Goto, TypeOK, quiet, log, Steps
  <2>4. end # "eof" /\ pc'[Main] = "close"
    BY <1>0, <1>2 DEF RemoveSet, Goto, LoggerInv, WriterLeft, Running, TypeOK
  <2>5. LoggerInv' /\ SetInv'
    BY <1>2, <2>4 DEF RemoveSet, LoggerInv, SetInv, quiet, log, Lossy
  <2>. QED  BY <2>2, <2>3, <2>5
<1>3. CASE Fork
  <2>1. PICK s \in Sessions, l \in {"wait", "go on"}, m \in {"wait", "go on"} :
          /\ pc[s] = "none"
          /\ pc' = [pc EXCEPT ![s] = IF l = "wait" THEN "wait" ELSE "run",
                              ![Main] = IF m = "wait" THEN "wait" ELSE "poll"]
          /\ after' = [after EXCEPT ![s] = IF l = "wait" THEN "run" ELSE @]
    BY <1>3 DEF Fork
  <2>2. Inside' = Inside /\ TypeOK'
    BY <1>0, <1>3, <2>1, ZenonT(40) DEF Fork, Inside, TypeOK, quiet, log, Steps
  <2>3. LoggerInv' /\ SetInv'
    BY <1>0, <1>3, <2>1, ProcessStep DEF Fork, Running, TypeOK, quiet
  <2>. QED  BY <1>3, <2>2, <2>3 DEF Fork, SemInv
<1>4. CASE Accept \/ ForkFails \/ TakeSignal \/ PollFails
  <2>1. /\ pc[Main] \in {"poll", "fork"} /\ UNCHANGED <<quiet, sem>>
        /\ \E l \in {"wait", "poll", "fork", "leave"} : pc' = [pc EXCEPT ![Main] = l]
        /\ after' = after \/ \E l \in {"poll", "fork", "leave"} : after' = [after EXCEPT ![Main] = l]
    BY <1>4 DEF Accept, ForkFails, TakeSignal, PollFails, Logs, SaysNothing, Goto
  <2>2. Inside' = Inside
    BY <1>0, <2>1 DEF Inside, TypeOK
  <2>3. TypeOK'
    BY <2>1, ZenonT(40) DEF TypeOK, quiet, log, Steps
  <2>4. LoggerInv' /\ SetInv'
    BY <1>0, <2>1, ProcessStep DEF Running, TypeOK, quiet
  <2>. QED  BY <2>1, <2>2, <2>3, <2>4 DEF SemInv
<1>. QED  BY <1>1, <1>2, <1>3, <1>4 DEF MainStep

LEMMA StepInv0 == Inv0 /\ [Next]_vars => Inv0'
<1> SUFFICES ASSUME Inv0, [Next]_vars PROVE Inv0'
  OBVIOUS
<1>1. CASE Logger \/ WriteFileFails \/ LoggerKilled
  BY <1>1, LoggerInv0
<1>2. CASE MainStep \/ PollFails
  BY <1>2, MainInv0
<1>3. ASSUME NEW p \in Procs, LogStep(p) \/ LogInterrupted(p) PROVE Inv0'
  BY <1>3, LogStepInv0
<1>4. ASSUME NEW p \in Procs, Killed(p) PROVE Inv0'
  BY <1>4, EndsInv0 DEF Killed
<1>5. ASSUME NEW s \in Sessions, SessionEnds(s) PROVE Inv0'
  BY <1>5, EndsInv0 DEF SessionEnds, Running, Procs
<1>6. ASSUME NEW s \in Sessions, SessionLogs(s) PROVE Inv0'
  <2> USE DEF Inv0
  <2>0. s \in Procs /\ s # Main /\ Main \in Procs
    BY ServerLifeAssumption DEF Procs
  <2>1. Inside' = Inside /\ TypeOK'
    BY <1>6, <2>0 DEF SessionLogs, Logs, Goto, Inside, TypeOK, quiet, log, Steps
  <2>2. LoggerInv' /\ SetInv'
    BY <1>6, <2>0, ProcessStep DEF SessionLogs, Logs, Goto, Running, TypeOK, quiet
  <2>. QED  BY <1>6, <2>1, <2>2 DEF SessionLogs, SemInv
<1>7. CASE Connect \/ Interrupt \/ UNCHANGED vars
  <2>1. UNCHANGED <<quiet, sem, pc, after>>
    BY <1>7 DEF Connect, Interrupt, vars, quiet, log
  <2>. QED
    BY <2>1 DEF Inv0, TypeOK, SemInv, LoggerInv, SetInv, Inside, WriterLeft, Running,
                Lossy, quiet, log
<1>. QED  BY <1>1, <1>2, <1>3, <1>4, <1>5, <1>6, <1>7 DEF Next

LEMMA Invariant0 == Spec => []Inv0
BY InitInv0, StepInv0, PTL DEF Spec

(* The set of semaphores, SEM_FILELIST in it, outlives the server's main   *)
(* process, and is removed under a running one only by a logger that       *)
(* failed (freeap in protocol.c:198-201 and server.c:252).                 *)
THEOREM SetOutlives == Spec => []SetOutlivesServer
<1>1. Inv0 => SetOutlivesServer
  BY DEF Inv0, LoggerInv, SetInv, SetOutlivesServer
<1>. QED  BY <1>1, Invariant0, PTL
-----------------------------------------------------------------------------
(* A log whose messages are whole: T are the processes between the halves  *)
(* of a message, G those that are gone, cutOff says that the log may end   *)
(* anywhere.                                                               *)
LogWhole(s, T, G, cutOff) ==
  \A k \in 1..Len(s) :
    IF s[k].part = "tail"
    THEN k > 1 /\ s[k - 1] = Half(s[k], "head")
    ELSE \/ k < Len(s) /\ s[k + 1] = Half(s[k], "tail")
         \/ k = Len(s) /\ (cutOff \/ s[k].by \in T)
         \/ s[k].by \in G

LEMMA MoreGone ==
  ASSUME NEW s \in Seq(Pieces), NEW T, NEW G, NEW U, NEW H, NEW c, NEW d,
         LogWhole(s, T, G, c), T \subseteq U \cup H, G \subseteq H, c => d
  PROVE  LogWhole(s, U, H, d)
BY DEF LogWhole

LEMMA CutOff ==
  ASSUME NEW s \in Seq(Pieces), NEW t \in Seq(Pieces), NEW T, NEW G, NEW c,
         LogWhole(s, T, G, c), Len(t) <= Len(s), \A k \in 1..Len(t) : t[k] = s[k]
  PROVE  LogWhole(t, T, G, TRUE)
<1> SUFFICES ASSUME NEW k \in 1..Len(t)
             PROVE  IF t[k].part = "tail"
                    THEN k > 1 /\ t[k - 1] = Half(t[k], "head")
                    ELSE \/ k < Len(t) /\ t[k + 1] = Half(t[k], "tail")
                         \/ k = Len(t)
                         \/ t[k].by \in G
  BY DEF LogWhole
<1>1. k \in 1..Len(s) /\ t[k] = s[k]
  OBVIOUS
<1>2. CASE t[k].part = "tail"
  <2>1. k > 1 /\ s[k - 1] = Half(s[k], "head")
    BY <1>1, <1>2 DEF LogWhole
  <2>2. k - 1 \in 1..Len(t)
    BY <2>1
  <2>. QED  BY <1>1, <1>2, <2>1, <2>2
<1>3. CASE t[k].part # "tail" /\ k < Len(t)
  <2>1. k + 1 \in 1..Len(t)
    BY <1>3
  <2>2. s[k + 1] = Half(s[k], "tail") \/ s[k].by \in G
    BY <1>1, <1>3 DEF LogWhole
  <2>. QED  BY <1>1, <1>3, <2>1, <2>2
<1>. QED  BY <1>2, <1>3

LEMMA HeadAppended ==
  ASSUME NEW s \in Seq(Pieces), NEW G, NEW x \in Pieces, x.part = "head",
         LogWhole(s, {}, G, FALSE)
  PROVE  LogWhole(Append(s, x), {x.by}, G, FALSE)
<1> DEFINE t == Append(s, x)
<1>1. Len(t) = Len(s) + 1 /\ t[Len(s) + 1] = x /\ \A k \in 1..Len(s) : t[k] = s[k]
  BY AppendProperties
<1> HIDE DEF t
<1> SUFFICES ASSUME NEW k \in 1..Len(t)
             PROVE  IF t[k].part = "tail"
                    THEN k > 1 /\ t[k - 1] = Half(t[k], "head")
                    ELSE \/ k < Len(t) /\ t[k + 1] = Half(t[k], "tail")
                         \/ k = Len(t) /\ t[k].by \in {x.by}
                         \/ t[k].by \in G
  BY DEF LogWhole, t
<1>2. CASE k = Len(t)
  BY <1>1, <1>2
<1>3. CASE k \in 1..Len(s)
  <2>1. IF s[k].part = "tail"
        THEN k > 1 /\ s[k - 1] = Half(s[k], "head")
        ELSE \/ k < Len(s) /\ s[k + 1] = Half(s[k], "tail")
             \/ s[k].by \in G
    BY <1>3 DEF LogWhole
  <2>. QED  BY <1>1, <1>3, <2>1
<1>. QED  BY <1>1, <1>2, <1>3

LEMMA TailAppended ==
  ASSUME NEW s \in Seq(Pieces), NEW T, NEW G, NEW x \in Pieces, x.part = "tail",
         LogWhole(s, T, G, FALSE), s # <<>>, s[Len(s)] = Half(x, "head")
  PROVE  LogWhole(Append(s, x), {}, G, FALSE)
<1> DEFINE t == Append(s, x)
<1>0. Len(s) \in Nat \ {0}
  BY EmptySeq
<1>1. Len(t) = Len(s) + 1 /\ t[Len(s) + 1] = x /\ \A k \in 1..Len(s) : t[k] = s[k]
  BY AppendProperties
<1> HIDE DEF t
<1> SUFFICES ASSUME NEW k \in 1..Len(t)
             PROVE  IF t[k].part = "tail"
                    THEN k > 1 /\ t[k - 1] = Half(t[k], "head")
                    ELSE \/ k < Len(t) /\ t[k + 1] = Half(t[k], "tail")
                         \/ t[k].by \in G
  BY DEF LogWhole, t
<1>2. CASE k = Len(t)
  BY <1>0, <1>1, <1>2
<1>3. CASE k = Len(s)
  <2>1. t[k] = Half(x, "head") /\ t[k].part = "head" /\ t[k + 1] = x
    BY <1>0, <1>1, <1>3 DEF Half
  <2>2. x = Half(t[k], "tail")
    BY <2>1 DEF Half, Pieces
  <2>. QED  BY <1>0, <1>1, <1>3, <2>1, <2>2
<1>4. CASE k \in 1..Len(s) - 1
  <2>1. IF s[k].part = "tail"
        THEN k > 1 /\ s[k - 1] = Half(s[k], "head")
        ELSE \/ k < Len(s) /\ s[k + 1] = Half(s[k], "tail")
             \/ s[k].by \in G
    BY <1>0, <1>4 DEF LogWhole
  <2>. QED  BY <1>0, <1>1, <1>4, <2>1
<1>. QED  BY <1>0, <1>1, <1>2, <1>3, <1>4
-----------------------------------------------------------------------------
At(place) == {p \in Procs : pc[p] = place}

(* A process between its two halves finds its first half at the end of     *)
(* what was kept, and both halves before it signals: nobody else writes.   *)
HeadAtEnd ==
  \A p \in At("tail") : Kept # <<>> /\ Kept[Len(Kept)] = Piece(p, "head")
BothAtEnd ==
  \A p \in At("signal") :
    /\ Len(Kept) > 1
    /\ Kept[Len(Kept) - 1] = Piece(p, "head")
    /\ Kept[Len(Kept)] = Piece(p, "tail")
ReportedInKept ==
  \A m \in reported : \A part \in {"head", "tail"} :
    \E k \in 1..Len(Kept) : Kept[k] = Half(m, part)

LogInv ==
  /\ LogWhole(Kept, At("tail"), At("gone"), Lossy)
  /\ ~Lossy => HeadAtEnd /\ BothAtEnd /\ ReportedInKept

LEMMA KeptType == Inv0 => Kept \in Seq(Pieces)
BY ConcatProperties DEF Inv0, TypeOK, Kept

LEMMA InitLogInv == Init => LogInv
<1> SUFFICES ASSUME Init PROVE LogInv
  OBVIOUS
<1>1. Kept = <<>> /\ reported = {}
  BY DEF Init, Kept, Lossy
<1>2. At("tail") = {} /\ At("signal") = {}
  BY DEF Init, At
<1>. QED
  BY <1>1, <1>2 DEF LogInv, LogWhole, HeadAtEnd, BothAtEnd, ReportedInKept

(* Nothing that is kept changes, and no process gets to a half.            *)
LEMMA SameKept ==
  ASSUME Inv0, LogInv, Kept' = Kept, Lossy' = Lossy, reported' = reported,
         At("tail")' \subseteq At("tail"), At("signal")' \subseteq At("signal"),
         \A p \in (At("tail") \cup At("signal"))' : said'[p] = said[p],
         At("gone") \subseteq At("gone")', At("tail") \subseteq (At("tail") \cup At("gone"))'
  PROVE  LogInv'
<1>1. LogWhole(Kept, At("tail")', At("gone")', Lossy)
  BY KeptType, MoreGone DEF LogInv
<1>2. \A p \in (At("tail") \cup At("signal"))', part \in {"head", "tail"} :
        Piece(p, part)' = Piece(p, part)
  BY DEF Piece
<1>3. ~Lossy => HeadAtEnd' /\ BothAtEnd' /\ ReportedInKept'
  BY <1>2 DEF LogInv, HeadAtEnd, BothAtEnd, ReportedInKept
<1>. QED  BY <1>1, <1>3 DEF LogInv

(* The logger gives up: what is in the file stays.                         *)
LEMMA CutOffKept ==
  ASSUME Inv0, Inv0', LogInv, Lossy', pc' = pc,
         Len(Kept') <= Len(Kept), \A k \in 1..Len(Kept') : Kept'[k] = Kept[k]
  PROVE  LogInv'
<1>1. Kept \in Seq(Pieces) /\ Kept' \in Seq(Pieces)
  BY KeptType, ConcatProperties DEF Inv0, TypeOK, Kept
<1>2. LogWhole(Kept', At("tail"), At("gone"), TRUE)
  BY <1>1, CutOff DEF LogInv
<1>3. At("tail")' = At("tail") /\ At("gone")' = At("gone")
  BY DEF At
<1>. QED  BY <1>2, <1>3 DEF LogInv

LEMMA LoggerLogInv ==
  ASSUME Inv0, Inv0', LogInv, Logger \/ WriteFileFails \/ LoggerKilled
  PROVE  LogInv'
<1> USE DEF Inv0
<1>1. UNCHANGED <<pc, after, said, reported>>
  BY DEF Logger, EndOfPipe, ReadPipe, WriteFile, LoggerRemovesSet, LoggerCloses,
         WriteFileFails, LoggerKilled
<1>2. ASSUME Kept' = Kept, Lossy' = Lossy PROVE LogInv'
  BY <1>1, <1>2, SameKept DEF At
<1>3. CASE EndOfPipe \/ LoggerRemovesSet \/ LoggerCloses
  BY <1>2, <1>3 DEF EndOfPipe, LoggerRemovesSet, LoggerCloses, Kept, Lossy, LoggerInv
<1>4. CASE ReadPipe
  <2> DEFINE k == Min({BatchSize, Len(pipe)})
  <2>1. Lossy' = Lossy /\ ~Lossy /\ batch = <<>> /\ file' = file
    BY <1>4 DEF ReadPipe, Lossy, LoggerInv
  <2>2. k \in 1..Len(pipe)
    <3>1. Len(pipe) \in Nat \ {0}
      BY <1>4, EmptySeq DEF ReadPipe, TypeOK
    <3>. QED  BY <3>1, MinOfTwo, ServerLifeAssumption
  <2>3. batch' = SubSeq(pipe, 1, k) /\ pipe' = SubSeq(pipe, k + 1, Len(pipe))
    BY <1>4 DEF ReadPipe
  <2>4. batch' \o pipe' = pipe
    <3> HIDE DEF k
    <3>1. SubSeq(pipe, 1, k) \o SubSeq(pipe, k + 1, Len(pipe)) = SubSeq(pipe, 1, Len(pipe))
      BY <2>2, ConcatAdjacentSubSeq DEF TypeOK
    <3>. QED  BY <2>3, <3>1, SubSeqFull DEF TypeOK
  <2>5. (file \o batch') \o pipe' = file \o pipe
    <3>1. batch' \in Seq(Pieces) /\ pipe' \in Seq(Pieces)
      BY DEF TypeOK
    <3>2. file \in Seq(Pieces)
      BY DEF TypeOK
    <3>3. (file \o batch') \o pipe' = file \o (batch' \o pipe')
      <4> HIDE DEF Inv0, k
      <4>. QED  BY <3>1, <3>2, ConcatAssociative
    <3>. QED  BY <2>4, <3>3
  <2>6. (file \o batch) \o pipe = file \o pipe
    BY <2>1, ConcatEmptySeq DEF TypeOK
  <2>. QED  BY <1>2, <2>1, <2>5, <2>6 DEF Kept
<1>5. CASE WriteFile
  <2>1. Lossy' = Lossy /\ ~Lossy
    BY <1>5 DEF WriteFile, Lossy, LoggerInv
  <2>2. file' \o batch' = file \o batch
    BY <1>5, ConcatProperties, ConcatEmptySeq DEF WriteFile, TypeOK
  <2>. QED  BY <1>2, <1>5, <2>1, <2>2 DEF Kept, WriteFile
<1>6. CASE WriteFileFails
  <2>1. Lossy' /\ ~Lossy
    BY <1>6 DEF WriteFileFails, Lossy, LoggerInv
  <2>2. PICK k \in 0..Len(batch)-1 : file' = file \o SubSeq(batch, 1, k)
    BY <1>6 DEF WriteFileFails
  <2>3. /\ SubSeq(batch, 1, k) \in Seq(Pieces) /\ Len(SubSeq(batch, 1, k)) = k
        /\ \A i \in 1..k : SubSeq(batch, 1, k)[i] = batch[i]
    BY <2>2 DEF TypeOK
  <2>4. /\ Len(file') = Len(file) + k
        /\ \A i \in 1..Len(file) + k :
             file'[i] = IF i <= Len(file) THEN file[i] ELSE batch[i - Len(file)]
    BY <2>2, <2>3, ConcatProperties DEF TypeOK
  <2>5. file \o batch \in Seq(Pieces) /\ Len(file \o batch) = Len(file) + Len(batch)
        /\ \A i \in 1..Len(file) + Len(batch) :
             (file \o batch)[i] = IF i <= Len(file) THEN file[i] ELSE batch[i - Len(file)]
    BY ConcatProperties DEF TypeOK
  <2>6. /\ Len((file \o batch) \o pipe) = Len(file) + Len(batch) + Len(pipe)
        /\ \A i \in 1..Len(file) + Len(batch) : ((file \o batch) \o pipe)[i] = (file \o batch)[i]
    BY <2>5, ConcatProperties DEF TypeOK
  <2>7. Len(file') <= Len(Kept) /\ \A i \in 1..Len(file') : file'[i] = Kept[i]
    <3>1. Len(file) \in Nat /\ Len(batch) \in Nat /\ Len(pipe) \in Nat
      BY DEF TypeOK
    <3>. QED  BY <2>1, <2>2, <2>4, <2>5, <2>6, <3>1 DEF Kept
  <2>8. Kept' = file'
    BY <2>1 DEF Kept
  <2>. QED  BY <1>1, <2>1, <2>7, <2>8, CutOffKept
<1>7. CASE LoggerKilled
  <2>1. CASE logger = "close" \/ Lossy
    BY <1>2, <1>7, <2>1 DEF LoggerKilled, Kept, Lossy, LoggerInv
  <2>2. CASE logger # "close" /\ ~Lossy
    <3>1. Lossy' /\ Kept' = file
      BY <1>7, <2>2 DEF LoggerKilled, Kept, Lossy
    <3>2. /\ file \o batch \in Seq(Pieces) /\ Len(file \o batch) = Len(file) + Len(batch)
          /\ \A i \in 1..Len(file) : (file \o batch)[i] = file[i]
      BY ConcatProperties DEF TypeOK
    <3>3. /\ Len((file \o batch) \o pipe) = Len(file) + Len(batch) + Len(pipe)
          /\ \A i \in 1..Len(file) : ((file \o batch) \o pipe)[i] = file[i]
      BY <3>2, ConcatProperties DEF TypeOK
    <3>4. Len(file) <= Len(Kept) /\ \A i \in 1..Len(file) : file[i] = Kept[i]
      <4>1. Len(file) \in Nat /\ Len(batch) \in Nat /\ Len(pipe) \in Nat
        BY DEF TypeOK
      <4>. QED  BY <2>2, <3>3, <4>1 DEF Kept
    <3>. QED  BY <1>1, <3>1, <3>4, CutOffKept
  <2>. QED  BY <2>1, <2>2
<1>. QED  BY <1>3, <1>4, <1>5, <1>6, <1>7 DEF Logger

(* A process goes anywhere but to a second half or to semSignal, and from  *)
(* a second half only by being killed; it writes nothing.                  *)
LEMMA MovesLogInv ==
  ASSUME Inv0, LogInv, NEW p \in Procs, pc[p] # "gone", UNCHANGED <<pipe, log, reported>>,
         NEW l \in Steps \ {"tail", "signal"}, pc' = [pc EXCEPT ![p] = l],
         pc[p] = "tail" => l = "gone",
         \A q \in Procs \ {p} : said'[q] = said[q]
  PROVE  LogInv'
<1> USE DEF Inv0
<1>1. Kept' = Kept /\ Lossy' = Lossy
  BY DEF Kept, Lossy, log
<1>2. \A q \in Procs : pc'[q] = IF q = p THEN l ELSE pc[q]
  BY DEF TypeOK
<1>3. /\ At("tail")' \subseteq At("tail") \ {p} /\ At("signal")' \subseteq At("signal") \ {p}
      /\ At("gone") \subseteq At("gone")' /\ At("tail") \subseteq (At("tail") \cup At("gone"))'
  BY <1>2 DEF At
<1>4. \A q \in (At("tail") \cup At("signal"))' : said'[q] = said[q]
  BY <1>3 DEF At
<1>. QED  BY <1>1, <1>3, <1>4, SameKept

(* Whoever is between semWait and semSignal is there alone.                *)
LEMMA Alone ==
  ASSUME Inv0, NEW p \in Procs, pc[p] \in {"head", "tail", "signal"}
  PROVE  \A q \in Procs : pc[q] \in {"head", "tail", "signal"} => q = p
BY DEF Inv0, SemInv, Bracketed, Inside

LEMMA WriteKept ==
  ASSUME Inv0, NEW x \in Pieces, pipe' = Append(pipe, x), UNCHANGED log
  PROVE  /\ Lossy' = Lossy
         /\ Kept' = IF Lossy THEN Kept ELSE Append(Kept, x)
<1> USE DEF Inv0
<1>1. Lossy' = Lossy
  BY DEF Lossy, log
<1>2. CASE ~Lossy
  <2>1. file \o batch \in Seq(Pieces) /\ Kept \in Seq(Pieces) /\ <<x>> \in Seq(Pieces)
    BY KeptType, ConcatProperties DEF TypeOK
  <2>2. pipe' = pipe \o <<x>> /\ Append(Kept, x) = Kept \o <<x>>
    BY <2>1, AppendIsConcat DEF TypeOK
  <2>3. ((file \o batch) \o pipe) \o <<x>> = (file \o batch) \o (pipe \o <<x>>)
    <3>1. pipe \in Seq(Pieces)
      BY DEF TypeOK
    <3>2. Associates(file \o batch, pipe, <<x>>)
      BY <2>1, <3>1, JoinsEitherWay
    <3>. QED  BY <3>2 DEF Associates
  <2>. QED  BY <1>1, <1>2, <2>2, <2>3 DEF Kept, log
<1>. QED  BY <1>1, <1>2 DEF Kept, log

LEMMA WriteLogInv ==
  ASSUME Inv0, LogInv, NEW p \in Procs, LogWrite(p) PROVE LogInv'
<1> USE DEF Inv0
<1>1. PICK part \in {"head", "tail"}, next \in {"tail", "signal"} :
        Write(p, part, next) /\ next = IF part = "head" THEN "tail" ELSE "signal"
  BY DEF LogWrite
<1> DEFINE x == Piece(p, part)
<1>2. x \in Pieces /\ x.by = p /\ x.part = part
  BY DEF Piece, Pieces, TypeOK
<1>3. /\ pc[p] = part /\ pipe' = Append(pipe, x)
      /\ UNCHANGED <<log, said, reported>>
      /\ \A q \in Procs : pc'[q] = IF q = p THEN next ELSE pc[q]
  BY <1>1 DEF Write, Goto, TypeOK
<1>4. Lossy' = Lossy /\ Kept' = IF Lossy THEN Kept ELSE Append(Kept, x)
  BY <1>2, <1>3, WriteKept
<1>5. At("gone")' = At("gone")
  BY <1>1, <1>3 DEF At
<1>6. CASE Lossy
  <2>1. LogWhole(Kept', At("tail")', At("gone")', Lossy')
    BY <1>4, <1>5, <1>6 DEF LogInv, LogWhole
  <2>. QED  BY <1>4, <1>6, <2>1 DEF LogInv
<1>7. CASE ~Lossy
  <2>0. Lossy = FALSE /\ Lossy' = FALSE
    BY <1>4, <1>7 DEF Lossy
  <2>1. /\ Kept \in Seq(Pieces) /\ Len(Kept') = Len(Kept) + 1 /\ Kept'[Len(Kept) + 1] = x
        /\ \A k \in 1..Len(Kept) : Kept'[k] = Kept[k]
    BY <1>2, <1>4, <1>7, KeptType, AppendProperties
  <2>2. ReportedInKept'
    <3>1. Len(Kept) \in Nat
      BY <2>1
    <3>2. \A k \in 1..Len(Kept) : k \in 1..Len(Kept')
      BY <2>1, <3>1
    <3>. QED  BY <1>3, <1>7, <2>1, <3>2 DEF LogInv, ReportedInKept
  <2>3. CASE part = "head"
    <3>1. At("tail") = {} /\ At("tail")' = {p} /\ At("signal")' = {}
      BY <1>1, <1>3, <2>3, Alone DEF At
    <3>2. LogWhole(Kept', At("tail")', At("gone")', FALSE)
      BY <1>2, <1>4, <1>5, <2>0, <2>1, <2>3, <3>1, HeadAppended, ZenonT(40) DEF LogInv
    <3>3. Kept' # <<>> /\ Kept'[Len(Kept')] = Piece(p, "head")'
      BY <1>3, <2>1, <2>3, EmptySeq DEF Piece
    <3>4. HeadAtEnd' /\ BothAtEnd'
      BY <3>1, <3>3 DEF HeadAtEnd, BothAtEnd
    <3>. QED  BY <2>0, <2>2, <3>2, <3>4 DEF LogInv
  <2>4. CASE part = "tail"
    <3>1. At("tail")' = {} /\ At("signal")' = {p} /\ p \in At("tail")
      BY <1>1, <1>3, <2>4, Alone DEF At
    <3>2. Kept # <<>> /\ Kept[Len(Kept)] = Piece(p, "head")
      BY <1>7, <3>1 DEF LogInv, HeadAtEnd
    <3>3. LogWhole(Kept', At("tail")', At("gone")', FALSE)
      <4>1. Kept[Len(Kept)] = Half(x, "head")
        BY <3>2 DEF Piece, Half
      <4>2. LogWhole(Kept, At("tail"), At("gone"), FALSE)
        BY <2>0 DEF LogInv
      <4>3. x \in Pieces /\ x.part = "tail" /\ Kept \in Seq(Pieces)
        BY <1>2, <2>1, <2>4
      <4>4. LogWhole(Append(Kept, x), {}, At("gone"), FALSE)
        <5> HIDE DEF x, Inv0
        <5>. QED  BY <3>2, <4>1, <4>2, <4>3, TailAppended
      <4>. QED  BY <1>4, <1>5, <2>0, <3>1, <4>4
    <3>4. Len(Kept) \in Nat \ {0}
      BY <2>1, <3>2, EmptySeq
    <3>5. /\ Len(Kept') > 1 /\ Kept'[Len(Kept') - 1] = Piece(p, "head")'
          /\ Kept'[Len(Kept')] = Piece(p, "tail")'
      BY <1>3, <2>1, <2>4, <3>2, <3>4 DEF Piece
    <3>6. HeadAtEnd' /\ BothAtEnd'
      BY <3>1, <3>5 DEF HeadAtEnd, BothAtEnd
    <3>. QED  BY <2>0, <2>2, <3>3, <3>6 DEF LogInv
  <2>. QED  BY <2>3, <2>4
<1>. QED  BY <1>6, <1>7

(* semSignal: both halves are there, and this may be reported.             *)
LEMMA SignalLogInv ==
  ASSUME Inv0, LogInv, NEW p \in Procs, LogSignal(p) PROVE LogInv'
<1> USE DEF Inv0
<1>1. /\ pc[p] = "signal" /\ UNCHANGED <<pipe, log>>
      /\ reported' \subseteq reported \cup {[by |-> p, no |-> said[p]]}
      /\ \A q \in Procs : pc'[q] = IF q = p THEN after[p] ELSE pc[q]
      /\ after[p] \notin {"tail", "signal", "gone"}
  BY DEF LogSignal, Return, Goto, TypeOK
<1>2. Kept' = Kept /\ Lossy' = Lossy
  BY <1>1 DEF Kept, Lossy, log
<1>3. At("tail") = {} /\ At("tail")' = {} /\ At("signal")' = {} /\ At("gone")' = At("gone")
  BY <1>1, Alone DEF At
<1>4. ~Lossy => ReportedInKept'
  <2> SUFFICES ASSUME ~Lossy, NEW m \in reported', NEW part \in {"head", "tail"}
               PROVE  \E k \in 1..Len(Kept) : Kept[k] = Half(m, part)
    BY <1>2 DEF ReportedInKept
  <2>1. CASE m \in reported
    BY <2>1 DEF LogInv, ReportedInKept
  <2>2. CASE m = [by |-> p, no |-> said[p]]
    <3>1. /\ Len(Kept) > 1 /\ Kept[Len(Kept) - 1] = Piece(p, "head")
          /\ Kept[Len(Kept)] = Piece(p, "tail")
      BY <1>1 DEF LogInv, BothAtEnd, At
    <3>2. Len(Kept) \in Nat
      BY KeptType
    <3>3. Half(m, part) = Piece(p, part)
      BY <2>2 DEF Half, Piece
    <3>4. Len(Kept) - 1 \in 1..Len(Kept) /\ Len(Kept) \in 1..Len(Kept)
      BY <3>1, <3>2
    <3>. QED  BY <3>1, <3>3, <3>4
  <2>. QED  BY <1>1, <2>1, <2>2
<1>5. HeadAtEnd' /\ BothAtEnd'
  BY <1>3 DEF HeadAtEnd, BothAtEnd
<1>6. LogWhole(Kept', At("tail")', At("gone")', Lossy')
  BY <1>2, <1>3 DEF LogInv
<1>. QED  BY <1>2, <1>4, <1>5, <1>6 DEF LogInv

LEMMA ForkLogInv == ASSUME Inv0, LogInv, Fork PROVE LogInv'
<1> USE DEF Inv0
<1>1. UNCHANGED <<pipe, log, said, reported>>
  BY DEF Fork, quiet
<1>2. Kept' = Kept /\ Lossy' = Lossy
  BY <1>1 DEF Kept, Lossy, log
<1>3. PICK s \in Sessions, l \in {"wait", "run"}, m \in {"wait", "poll"} :
        pc[s] = "none" /\ pc' = [pc EXCEPT ![s] = l, ![Main] = m]
  BY DEF Fork
<1>4. pc[Main] = "fork"
  BY DEF Fork
<1>5. /\ At("tail")' = At("tail") /\ At("signal")' = At("signal")
      /\ At("gone")' = At("gone")
  BY <1>3, <1>4 DEF At, TypeOK
<1>. QED  BY <1>1, <1>2, <1>5, SameKept

LEMMA StepLogInv == Inv0 /\ Inv0' /\ LogInv /\ [Next]_vars => LogInv'
<1> SUFFICES ASSUME Inv0, Inv0', LogInv, [Next]_vars PROVE LogInv'
  OBVIOUS
<1>0. Main \in Procs /\ Sessions \subseteq Procs
  BY DEF Procs
<1>1. CASE Logger \/ WriteFileFails \/ LoggerKilled
  BY <1>1, LoggerLogInv
<1>2. ASSUME NEW p \in Procs, LogWait(p) \/ LogRefused(p) \/ LogInterrupted(p)
      PROVE  LogInv'
  <2>1. pc[p] = "wait" /\ UNCHANGED <<pipe, log, reported>>
    BY <1>2 DEF LogWait, LogRefused, LogInterrupted, Refused
  <2>2. \E l \in Steps \ {"tail", "signal"} : pc' = [pc EXCEPT ![p] = l]
    BY <1>2 DEF LogWait, LogRefused, LogInterrupted, Return, Goto, Inv0, TypeOK, Steps
  <2>3. \A q \in Procs \ {p} : said'[q] = said[q]
    BY <1>2 DEF LogWait, LogRefused, LogInterrupted, Return, Inv0, TypeOK
  <2>. QED  BY <2>1, <2>2, <2>3, MovesLogInv
<1>3. ASSUME NEW p \in Procs, Running(p), Ends(p), UNCHANGED <<pipe, log, said, reported>>
      PROVE  LogInv'
  <2>1. pc[p] # "gone" /\ pc' = [pc EXCEPT ![p] = "gone"]
    BY <1>3 DEF Running, Ends, Leaves, Goto
  <2>. QED  BY <1>3, <2>1, MovesLogInv DEF Steps
<1>4. ASSUME NEW p \in Procs, LogStep(p) PROVE LogInv'
  BY <1>2, <1>3, <1>4, WriteLogInv, SignalLogInv DEF LogStep, BrokenPipe, Running
<1>5. CASE Fork
  BY <1>5, ForkLogInv
<1>6. CASE Accept \/ ForkFails \/ TakeSignal \/ PollFails \/ RemoveSet
  <2>1. /\ pc[Main] \in {"poll", "fork", "leave"} /\ UNCHANGED quiet
        /\ \E l \in {"wait", "poll", "fork", "leave", "close"} : pc' = [pc EXCEPT ![Main] = l]
    BY <1>6 DEF Accept, ForkFails, TakeSignal, PollFails, RemoveSet, Logs, SaysNothing, Goto
  <2>. QED  BY <1>0, <2>1, MovesLogInv DEF quiet, Steps
<1>7. CASE MainExits
  BY <1>0, <1>3, <1>7 DEF MainExits, Running, quiet
<1>8. ASSUME NEW s \in Sessions, SessionLogs(s) PROVE LogInv'
  <2>1. pc[s] = "run" /\ UNCHANGED quiet /\ pc' = [pc EXCEPT ![s] = "wait"]
    BY <1>8 DEF SessionLogs, Logs, Goto
  <2>. QED  BY <1>0, <2>1, MovesLogInv DEF quiet, Steps
<1>9. ASSUME NEW s \in Sessions, SessionEnds(s) PROVE LogInv'
  BY <1>0, <1>3, <1>9 DEF SessionEnds, Running, quiet
<1>10. ASSUME NEW p \in Procs, Killed(p) PROVE LogInv'
  BY <1>3, <1>10 DEF Killed, quiet
<1>11. CASE Connect \/ Interrupt \/ UNCHANGED vars
  <2>1. UNCHANGED <<pipe, log, said, reported, pc>>
    BY <1>11 DEF Connect, Interrupt, vars, quiet, log
  <2>2. Kept' = Kept /\ Lossy' = Lossy
    BY <2>1 DEF Kept, Lossy, log
  <2>. QED  BY <2>1, <2>2, SameKept DEF At
<1>. QED
  BY <1>1, <1>2, <1>4, <1>5, <1>6, <1>7, <1>8, <1>9, <1>10, <1>11 DEF Next, MainStep

LEMMA LogInvariant == Spec => []LogInv
BY InitInv0, StepInv0, InitLogInv, StepLogInv, PTL DEF Spec

(* logmsg writes a message in one piece: no other process and no removal   *)
(* of the set gets between its halves (logger.c:44-59).                    *)
THEOREM WholeLines == Spec => []LinesWhole
<1>1. Inv0 /\ LogInv => LinesWhole
  <2> SUFFICES ASSUME Inv0, LogInv, NEW k \in DOMAIN Kept
               PROVE  LET m == Kept[k] IN
                      IF m.part = "tail"
                      THEN k > 1 /\ Kept[k - 1] = Half(m, "head")
                      ELSE \/ k < Len(Kept) /\ Kept[k + 1] = Half(m, "tail")
                           \/ k = Len(Kept) /\ (Lossy \/ pc[m.by] = "tail")
                           \/ pc[m.by] = "gone"
    BY DEF LinesWhole
  <2>1. k \in 1..Len(Kept)
    BY KeptType, LenProperties
  <2>. QED  BY <2>1 DEF LogInv, LogWhole, At
<1>. QED  BY <1>1, Invariant0, LogInvariant, PTL

(* What logmsg answered 1 for is in the log, and in the file when the      *)
(* logger has ended by itself (logger.c:44-59, protocol.c:165-196).        *)
THEOREM KeptWhenReported == Spec => []ReportedKept
<1>1. Inv0 /\ LogInv => ReportedKept
  <2> SUFFICES ASSUME Inv0, LogInv, ~Lossy, NEW m \in reported, NEW part \in {"head", "tail"}
               PROVE  Half(m, part) \in ToSet(IF logger = "gone" THEN file ELSE Kept)
    BY DEF ReportedKept
  <2>1. PICK k \in 1..Len(Kept) : Kept[k] = Half(m, part)
    BY DEF LogInv, ReportedInKept
  <2>2. k \in DOMAIN Kept
    BY <2>1, KeptType, LenProperties
  <2>3. logger = "gone" => Kept = file
    <3>1. logger = "gone" => batch = <<>> /\ pipe = <<>>
      BY DEF Inv0, TypeOK, LoggerInv, Lossy
    <3>. QED  BY <3>1, ConcatEmptySeq DEF Inv0, TypeOK, Kept
  <2>. QED  BY <2>1, <2>2, <2>3 DEF ToSet
<1>. QED  BY <1>1, Invariant0, LogInvariant, PTL
=============================================================================
