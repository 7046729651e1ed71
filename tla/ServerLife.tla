----------------------------- MODULE ServerLife -----------------------------
(***************************************************************************)
(* The processes of the server and what they share for the log: the main   *)
(* process (main in server.c), the sessions it forks, the logger process   *)
(* (initap, freeap in protocol.c), the pipe between them, and SEM_LOGGER,  *)
(* which is in one set with SEM_FILELIST.  What a session does besides     *)
(* logging is in ServerSession.                                            *)
(***************************************************************************)
EXTENDS Integers, Sequences, SequencesExt, Semaphores

CONSTANTS
  Main,         \* the main process
  Sessions,     \* processes it may fork: connections it may take
  PipeSize,     \* pieces that fit into the pipe
  BatchSize,    \* pieces that fit into the logger's buffer
  MaxSays       \* bound: messages of one process that its loglevel lets pass

Procs == Sessions \cup {Main}

ASSUME ServerLifeAssumption ==
  /\ Main \notin Sessions
  /\ PipeSize \in Nat \ {0} /\ BatchSize \in Nat \ {0} /\ MaxSays \in Nat

VARIABLES
  sem,          \* SEM_LOGGER, see Semaphores
  pipe,         \* pieces of messages written and not read
  batch,        \* the logger's buffer
  file,         \* the log file
  logger,       \* "read", "write", "freeap", "close" or "gone"
  end,          \* why its loop ended: "no", "eof", "failed", "killed"
  pc,           \* of each process; in logmsg: "wait", "head", "tail", "signal"
  after,        \* what it does after logmsg; "poll" if it is not in logmsg
  said,         \* how many messages it passed to the pipe or gave up
  reported,     \* messages logmsg returned 1 for
  ready,        \* a connection is to be accepted
  signals       \* pending at main: subset of {"int", "chld"}

vars == <<sem, pipe, batch, file, logger, end, pc, after, said, reported, ready, signals>>

log == <<batch, file, logger, end>>
outside == <<ready, signals>>

(* A message longer than PIPE_BUF: write may put it into the pipe in       *)
(* pieces, here two.                                                       *)
Piece(p, part) == [by |-> p, no |-> said[p], part |-> part]
Messages == [by : Procs, no : 0..MaxSays]

Init ==
  /\ sem = SemCreated(Procs)
  /\ pipe = <<>> /\ batch = <<>> /\ file = <<>>
  /\ logger = "read" /\ end = "no"
  /\ pc = [p \in Procs |-> IF p = Main THEN "poll" ELSE "none"]
  /\ after = [p \in Procs |-> "poll"]
  /\ said = [p \in Procs |-> 0]
  /\ reported = {}
  /\ ready = FALSE
  /\ signals = {}
-----------------------------------------------------------------------------
Running(p) == pc[p] \notin {"none", "gone"}

(* Who has the writing end of the pipe open; the logger closed its copy.   *)
WriterLeft == \E p \in Procs : Running(p)

(* Mutant: the logger keeps the writing end it inherited.                  *)
EndOfPipe_OwnEnd ==
  /\ logger = "read" /\ pipe = <<>> /\ ~WriterLeft /\ logger = "gone"
  /\ logger' = "freeap" /\ end' = "eof"
  /\ UNCHANGED <<sem, pipe, batch, file, pc, after, said, reported, outside>>

(* Mutant: the logger ends with the main process.                          *)
EndOfPipe_WithMain ==
  /\ logger = "read" /\ pipe = <<>> /\ pc[Main] = "gone"
  /\ logger' = "freeap" /\ end' = "eof"
  /\ UNCHANGED <<sem, pipe, batch, file, pc, after, said, reported, outside>>

EndOfPipe ==
  /\ logger = "read" /\ pipe = <<>> /\ ~WriterLeft
  /\ logger' = "freeap" /\ end' = "eof"
  /\ UNCHANGED <<sem, pipe, batch, file, pc, after, said, reported, outside>>

(* readToBuf takes what is there, up to the size of the buffer.            *)
ReadPipe ==
  /\ logger = "read" /\ pipe # <<>>
  /\ LET k == Min({BatchSize, Len(pipe)}) IN
       /\ batch' = SubSeq(pipe, 1, k)
       /\ pipe' = SubSeq(pipe, k + 1, Len(pipe))
  /\ logger' = "write"
  /\ UNCHANGED <<sem, file, end, pc, after, said, reported, outside>>

WriteFile ==
  /\ logger = "write"
  /\ file' = file \o batch /\ batch' = <<>>
  /\ logger' = "read"
  /\ UNCHANGED <<sem, pipe, end, pc, after, said, reported, outside>>

(* The disk is full: less than asked for, or nothing, was written.         *)
WriteFileFails ==
  /\ logger = "write"
  /\ \E k \in 0..Len(batch)-1 : file' = file \o SubSeq(batch, 1, k)
  /\ batch' = <<>>
  /\ logger' = "freeap" /\ end' = "failed"
  /\ UNCHANGED <<sem, pipe, pc, after, said, reported, outside>>

(* freeap in the logger: semClose, then close of its end of the pipe.      *)
LoggerRemovesSet ==
  /\ logger = "freeap"
  /\ sem' = SemRemoved(sem)
  /\ logger' = "close"
  /\ UNCHANGED <<pipe, batch, file, end, pc, after, said, reported, outside>>

LoggerCloses ==
  /\ logger = "close"
  /\ logger' = "gone"
  /\ UNCHANGED <<sem, pipe, batch, file, end, pc, after, said, reported, outside>>

LoggerKilled ==
  /\ logger # "gone"
  /\ logger' = "gone"
  /\ end' = IF logger = "close" THEN end ELSE "killed"
  /\ UNCHANGED <<sem, pipe, batch, file, pc, after, said, reported, outside>>

Logger == EndOfPipe \/ ReadPipe \/ WriteFile \/ LoggerRemovesSet \/ LoggerCloses
-----------------------------------------------------------------------------
(* logmsg.                                                                 *)
Goto(p, l) == pc' = [pc EXCEPT ![p] = l]

(* A process is gone: the kernel undoes its semop and tells main; nobody   *)
(* connects or signals to a main that is gone.                             *)
Leaves(p) ==
  /\ Goto(p, "gone")
  /\ IF p = Main \/ ~Running(Main) THEN ready' = FALSE /\ signals' = {}
     ELSE signals' = signals \cup {"chld"} /\ UNCHANGED ready
Ends(p) == Leaves(p) /\ sem' = SemExited(sem, p)

(* The call, and what follows when it returned.                            *)
Logs(p, next) ==
  /\ said[p] < MaxSays
  /\ Goto(p, "wait")
  /\ after' = [after EXCEPT ![p] = next]
SaysNothing(p, next) == Goto(p, next) /\ UNCHANGED after
Return(p) ==
  /\ Goto(p, after[p])
  /\ said' = [said EXCEPT ![p] = @ + 1]
  /\ after' = [after EXCEPT ![p] = "poll"]

LogWait(p) ==
  /\ pc[p] = "wait" /\ SemAvailable(sem)
  /\ sem' = SemTaken(sem, p)
  /\ Goto(p, "head")
  /\ UNCHANGED <<pipe, log, after, said, reported, outside>>

Refused(p) == pc[p] = "wait" /\ UNCHANGED <<pipe, log, reported, outside>>

(* Mutant: the semaphore is given back although it was not taken.          *)
LogInterrupted_Signals(p) ==
  /\ Refused(p) /\ SemBlocks(sem)
  /\ sem' = SemGiven(sem, p)
  /\ Return(p)

(* semWait fails and so does logmsg: interrupted, or the set is removed.   *)
LogInterrupted(p) == Refused(p) /\ SemBlocks(sem) /\ UNCHANGED sem /\ Return(p)
LogRefused(p) == Refused(p) /\ SemGone(sem) /\ UNCHANGED sem /\ Return(p)

Write(p, part, next) ==
  /\ pc[p] = part /\ logger # "gone" /\ Len(pipe) < PipeSize
  /\ pipe' = Append(pipe, Piece(p, part))
  /\ Goto(p, next)
  /\ UNCHANGED <<sem, log, after, said, reported, outside>>
LogWrite(p) == Write(p, "head", "tail") \/ Write(p, "tail", "signal")

(* Nobody reads any more: SIGPIPE, which no process blocks or ignores.     *)
BrokenPipe(p) ==
  /\ pc[p] \in {"head", "tail"} /\ logger = "gone"
  /\ Ends(p)
  /\ UNCHANGED <<pipe, log, after, said, reported>>

(* semSignal, whose failure is reported like that of semWait.              *)
LogSignal(p) ==
  /\ pc[p] = "signal"
  /\ sem' = SemGiven(sem, p)
  /\ reported' = IF sem.live THEN reported \cup {[by |-> p, no |-> said[p]]} ELSE reported
  /\ Return(p)
  /\ UNCHANGED <<pipe, log, outside>>

LogStep(p) == LogWait(p) \/ LogRefused(p) \/ LogWrite(p) \/ BrokenPipe(p) \/ LogSignal(p)
-----------------------------------------------------------------------------
(* The main process.  Poll looks at the connections first.                 *)
quiet == <<pipe, log, said, reported>>

Accept ==
  /\ pc[Main] = "poll" /\ ready
  /\ ready' = FALSE
  /\ Logs(Main, "fork") \/ SaysNothing(Main, "fork")
  /\ UNCHANGED <<quiet, sem, signals>>

(* fork, after which both processes log, or not.                           *)
Fork ==
  /\ pc[Main] = "fork"
  /\ \E s \in Sessions, l, m \in {"wait", "go on"} :
       /\ pc[s] = "none"
       /\ m = "wait" => said[Main] < MaxSays
       /\ l = "wait" => said[s] < MaxSays
       /\ pc' = [pc EXCEPT ![s] = IF l = "wait" THEN "wait" ELSE "run",
                           ![Main] = IF m = "wait" THEN "wait" ELSE "poll"]
       /\ after' = [after EXCEPT ![s] = IF l = "wait" THEN "run" ELSE @]
  /\ UNCHANGED <<quiet, sem, outside>>

ForkFails ==
  /\ pc[Main] = "fork"
  /\ Logs(Main, "leave") \/ SaysNothing(Main, "leave")
  /\ UNCHANGED <<quiet, sem, outside>>

TakeSignal ==
  /\ pc[Main] = "poll" /\ ~ready
  /\ \E s \in signals :
       /\ signals' = signals \ {s}
       /\ IF s = "int" THEN SaysNothing(Main, "leave")
          ELSE Logs(Main, "poll") \/ SaysNothing(Main, "poll")
  /\ UNCHANGED <<quiet, sem, ready>>

PollFails ==
  /\ pc[Main] = "poll"
  /\ Logs(Main, "leave") \/ SaysNothing(Main, "leave")
  /\ UNCHANGED <<quiet, sem, outside>>

(* freeap: semClose, then close of the pipe; freesap; exit.                *)
RemoveSet ==
  /\ pc[Main] = "leave"
  /\ sem' = SemRemoved(sem)
  /\ Goto(Main, "close")
  /\ UNCHANGED <<quiet, after, outside>>
MainExits ==
  /\ pc[Main] = "close"
  /\ Ends(Main)
  /\ UNCHANGED <<quiet, after>>

MainStep == Accept \/ Fork \/ ForkFails \/ TakeSignal \/ RemoveSet \/ MainExits

(* A session logs, and ends with _exit.                                    *)
SessionLogs(s) ==
  /\ pc[s] = "run"
  /\ Logs(s, "run")
  /\ UNCHANGED <<quiet, sem, outside>>

(* Mutant: a session frees what it inherited before it exits.              *)
SessionEnds_Freeap(s) ==
  /\ pc[s] = "run"
  /\ Leaves(s) /\ sem' = SemRemoved(sem)
  /\ UNCHANGED <<quiet, after>>

SessionEnds(s) ==
  /\ pc[s] = "run"
  /\ Ends(s)
  /\ UNCHANGED <<quiet, after>>

Killed(p) ==
  /\ Running(p)
  /\ Ends(p)
  /\ UNCHANGED <<quiet, after>>

Connect ==
  /\ Running(Main) /\ ~ready /\ \E s \in Sessions : pc[s] = "none"
  /\ ready' = TRUE
  /\ UNCHANGED <<quiet, sem, pc, after, signals>>

Interrupt ==
  /\ Running(Main) /\ "int" \notin signals
  /\ signals' = signals \cup {"int"}
  /\ UNCHANGED <<quiet, sem, pc, after, ready>>

Next ==
  \/ Logger \/ WriteFileFails \/ LoggerKilled
  \/ MainStep \/ PollFails
  \/ \E p \in Procs : LogStep(p) \/ LogInterrupted(p) \/ Killed(p)
  \/ \E s \in Sessions : SessionLogs(s) \/ SessionEnds(s)
  \/ Connect \/ Interrupt

Spec == Init /\ [][Next]_vars

(* The logger and main are scheduled, and so is a process inside logmsg;   *)
(* a session may stay with its client for ever.                            *)
FairSpec ==
  /\ Spec
  /\ WF_vars(Logger) /\ WF_vars(MainStep)
  /\ \A p \in Procs : WF_vars(LogStep(p))
-----------------------------------------------------------------------------
(* What was logged and is not lost with the logger.                        *)
Lossy == end \in {"failed", "killed"}
Kept == IF Lossy THEN file ELSE file \o batch \o pipe
Half(m, part) == [by |-> m.by, no |-> m.no, part |-> part]

(* A message is never cut by another one, however long it is, and also     *)
(* while the set is being removed: its second half follows its first, or   *)
(* is still to come, or its writer was killed in between (or the log was   *)
(* cut off there).                                                         *)
LinesWhole ==
  \A k \in DOMAIN Kept :
    LET m == Kept[k] IN
    IF m.part = "tail"
    THEN k > 1 /\ Kept[k - 1] = Half(m, "head")
    ELSE \/ k < Len(Kept) /\ Kept[k + 1] = Half(m, "tail")
         \/ k = Len(Kept) /\ (Lossy \/ pc[m.by] = "tail")
         \/ pc[m.by] = "gone"

(* A message logmsg reported as written reaches the file, also the last    *)
(* ones of sessions that outlive the main process, unless the logger       *)
(* failed; and the logger's file is complete when it ended by itself.      *)
ReportedKept ==
  ~Lossy => \A m \in reported : \A part \in {"head", "tail"} :
              Half(m, part) \in ToSet(IF logger = "gone" THEN file ELSE Kept)

(* The set, SEM_FILELIST in it, is removed by main when it leaves, by the  *)
(* logger when nobody is left, or by a logger that failed to write (then   *)
(* also under a server that runs, protocol.c:198-201), and by nothing else *)
(* that happens: no session removes it, however it ends.                   *)
SetOutlivesServer ==
  /\ ~sem.live => pc[Main] \in {"close", "gone"} \/ end \in {"eof", "failed"}
  /\ end = "eof" => ~WriterLeft

(* Nothing stays behind: when the last process is gone, however it ended,  *)
(* the logger ends and the set is removed, unless somebody killed it; and  *)
(* SIGINT ends the main process, also when the log is full, a session was  *)
(* killed inside logmsg or the logger is gone.                             *)
ServerEnds ==
  /\ ~WriterLeft ~> (logger = "gone" /\ (~sem.live \/ end = "killed"))
  /\ "int" \in signals ~> pc[Main] = "gone"
=============================================================================
