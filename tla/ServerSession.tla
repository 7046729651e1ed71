--------------------------- MODULE ServerSession ----------------------------
(***************************************************************************)
(* One connection of the server: the session process that comfork runs and *)
(* the worker processes it forks for FILELIST and SEARCH.  A worker is a   *)
(* copy of the session, buffers and descriptors included.  What a worker   *)
(* does with its own connection is in ListTransfer and FileList.           *)
(***************************************************************************)
EXTENDS Integers, Sequences, FiniteSets, SequencesExt, SeqFilter

CONSTANTS
  Words,        \* arguments of SEARCH; Blank is among them, and is spaces
  Blank,
  None,         \* no argument
  Ports,        \* arguments of PORT that are numbers
  Ephemeral,    \* the port of an outgoing connection of the client
  Commands,     \* the lines a client sends, see Command
  MaxSent,      \* bound: command lines of the client
  MaxWorkers    \* bound: fork fails beyond it

(* A line that getTokenFromBuffer split into its first word and the rest.  *)
(* The words the protocol does not know are all alike: "?".  A line of     *)
(* bufmax bytes and more is "long": combuf has room for its beginning.     *)
Command ==
  [word : {"FILELIST", "STATUS", "QUIT", "HELP", "BROWSE"}, arg : {None}]
    \cup [word : {"SEARCH"}, arg : Words \cup {None}]
    \cup [word : {"PORT"}, arg : Ports \cup {None, "text"}]
    \cup [word : {"?"}, arg : {None, "text"}]
    \cup [word : {"long"}, arg : {None}]

ASSUME ServerSessionAssumption ==
  /\ Blank \in Words /\ None \notin Words \cup Ports /\ Ephemeral \notin Ports
  /\ Commands \subseteq Command
  /\ MaxSent \in Nat /\ MaxWorkers \in Nat

Running == 1
Signalled == 9    \* ended by a signal that is not blocked

VARIABLES
  client,       \* "none" if accept failed; "up" until it closes its end
                \* ("gone") or resets ("reset")
  sent,         \* every line it sent
  inbox,        \* the lines not read
  sigint,       \* SIGINT or SIGQUIT is pending at the session
  failed,       \* what failed in the loop: "no", "poll", "signalfd", "revents"
  session,      \* "poll", "lines" (in processIncomingData) or "ended"
  combuf,       \* lines read and not taken; of a long one, what fits
  done,         \* lines the session took
  comport,      \* ap->comport
  status,       \* exit status of the session
  out,          \* what was written to the client: by whom (0: the session)
  workers       \* the forked processes, in the order of their fork

vars == <<client, sent, inbox, sigint, failed, session, combuf, done, comport,
          status, out, workers>>

(* main forks the session without a look at what accept returned.          *)
Init ==
  /\ client \in {"up", "none"}
  /\ sent = <<>>
  /\ inbox = <<>>
  /\ sigint = FALSE
  /\ failed = "no"
  /\ session = "poll"
  /\ combuf = <<>>
  /\ done = <<>>
  /\ comport = None
  /\ status = Running
  /\ out = <<>>
  /\ workers = <<>>
-----------------------------------------------------------------------------
(* The environment.                                                        *)
Send(c) ==
  /\ client = "up" /\ Len(sent) < MaxSent
  /\ sent' = Append(sent, c)
  /\ inbox' = Append(inbox, c)
  /\ UNCHANGED <<client, sigint, failed, session, combuf, done, comport, status, out, workers>>

HangUp ==
  /\ \/ client = "up" /\ client' \in {"gone", "reset"}
     \/ client = "gone" /\ client' = "reset"
  /\ UNCHANGED <<sent, inbox, sigint, failed, session, combuf, done, comport, status, out, workers>>

Interrupt ==
  /\ session # "ended" /\ ~sigint
  /\ sigint' = TRUE
  /\ UNCHANGED <<client, sent, inbox, failed, session, combuf, done, comport, status, out, workers>>
-----------------------------------------------------------------------------
(* The session.                                                            *)
Finish(s) == session' = "ended" /\ status' = s

Killed ==
  /\ session # "ended"
  /\ Finish(Signalled)
  /\ UNCHANGED <<client, sent, inbox, sigint, failed, combuf, done, comport, out, workers>>

(* Mutant: the lines that are left from the last read are dropped.         *)
Read_Flush ==
  /\ session = "poll" /\ inbox # <<>>
  /\ \E k \in 1..Len(inbox) : combuf' = SubSeq(inbox, 1, k)
  /\ inbox' = <<>>
  /\ session' = "lines"
  /\ UNCHANGED <<client, sent, sigint, failed, done, comport, status, out, workers>>

(* poll reports data and readToBuf takes some of it: nothing that stands   *)
(* behind a long line.                                                     *)
Read ==
  /\ session = "poll" /\ inbox # <<>> /\ combuf = <<>>
  /\ \E k \in 1..Len(inbox) :
       /\ \A j \in 1..k-1 : inbox[j].word # "long"
       /\ combuf' = SubSeq(inbox, 1, k)
       /\ inbox' = SubSeq(inbox, k + 1, Len(inbox))
  /\ session' = "lines"
  /\ UNCHANGED <<client, sent, sigint, failed, done, comport, status, out, workers>>

(* combuf is full and holds no line: read is called for no bytes, and its  *)
(* 0 is taken for the end of the connection.                               *)
BufferFull ==
  /\ session = "poll" /\ combuf # <<>>
  /\ Finish(0)
  /\ UNCHANGED <<client, sent, inbox, sigint, failed, combuf, done, comport, out, workers>>

(* Mutant: POLLHUP is looked at before POLLIN.                             *)
ClientHungUp_Early ==
  /\ session = "poll" /\ client = "gone"
  /\ Finish(0)
  /\ UNCHANGED <<client, sent, inbox, sigint, failed, combuf, done, comport, out, workers>>

(* Mutant: nothing to read is no reason to leave the loop.                 *)
ClientHungUp_Ignored ==
  /\ session = "poll" /\ inbox = <<>> /\ client = "gone"
  /\ UNCHANGED vars

(* read returns 0.                                                         *)
ClientHungUp ==
  /\ session = "poll" /\ inbox = <<>> /\ combuf = <<>> /\ client = "gone"
  /\ Finish(0)
  /\ UNCHANGED <<client, sent, inbox, sigint, failed, combuf, done, comport, out, workers>>

(* The connection was reset: unread data is lost, read gives -1.           *)
ReadFails ==
  /\ session = "poll" /\ client = "reset"
  /\ Finish(-1)
  /\ inbox' = <<>>
  /\ UNCHANGED <<client, sent, sigint, failed, combuf, done, comport, out, workers>>

(* accept gave comfork no connection.                                      *)
NoConnection ==
  /\ session = "poll" /\ client = "none"
  /\ Finish(-1)
  /\ UNCHANGED <<client, sent, inbox, sigint, failed, combuf, done, comport, out, workers>>

(* A signal is looked at only if there is no data.                         *)
TakeSignal ==
  /\ session = "poll" /\ inbox = <<>> /\ client = "up" /\ sigint
  /\ Finish(-2)
  /\ UNCHANGED <<client, sent, inbox, sigint, failed, combuf, done, comport, out, workers>>

(* What the kernel may refuse: poll itself; the signal that poll reported, *)
(* also one for a worker that ended; a result of poll without data.        *)
PollFails ==
  /\ session = "poll" /\ client # "none"
  /\ \/ Finish(-1) /\ failed' = "poll"
     \/ inbox = <<>> /\ Finish(-3) /\ failed' = "revents"
     \/ /\ inbox = <<>> /\ (sigint \/ \E i \in DOMAIN workers : workers[i].pc = "ended")
        /\ Finish(-3) /\ failed' = "signalfd"
  /\ UNCHANGED <<client, sent, inbox, sigint, combuf, done, comport, out, workers>>

(* processIncomingData has taken the last line.                            *)
LinesDone ==
  /\ session = "lines"
  /\ combuf # <<>> => Head(combuf).word = "long"
  /\ session' = "poll"
  /\ UNCHANGED <<client, sent, inbox, sigint, failed, combuf, done, comport, status, out, workers>>

(* processCommand: the next line, if its first word is w.                  *)
Take(w) ==
  /\ session = "lines" /\ combuf # <<>> /\ Head(combuf).word = w
  /\ combuf' = Tail(combuf)
  /\ done' = Append(done, Head(combuf))
  /\ UNCHANGED <<client, sent, inbox, sigint, failed>>

Arg == Head(combuf).arg
Continue == UNCHANGED <<session, status>>

(* A reply reaches a client that is up; the kernel may swallow it or       *)
(* refuse it if the client is gone.                                        *)
Say(who, what) ==
  out' = IF client = "up" THEN Append(out, [by |-> who, what |-> what]) ELSE out
SayFails == client # "up" /\ UNCHANGED out

(* Mutant: the test for an empty argument is left out.                     *)
Unknown_Always ==
  /\ Take("?")
  /\ \/ Say(0, "?") /\ Continue
     \/ SayFails /\ Finish(-1)
  /\ UNCHANGED <<comport, workers>>

(* unknownCommandAction says nothing about a word without an argument.     *)
Unknown ==
  /\ Take("?")
  /\ \/ Arg # None /\ Say(0, "?") /\ Continue
     \/ Arg # None /\ SayFails /\ Finish(-1)
     \/ Arg = None /\ Continue /\ UNCHANGED out
  /\ UNCHANGED <<comport, workers>>

Status ==
  /\ Take("STATUS")
  /\ Say(0, "STATUS") \/ SayFails
  /\ Continue
  /\ UNCHANGED <<comport, workers>>

Help ==
  /\ Take("HELP")
  /\ \/ Say(0, "HELP") /\ Continue
     \/ SayFails /\ Finish(-1)
  /\ UNCHANGED <<comport, workers>>

(* browseAction reads cap->results out of a union that holds a sap: bytes  *)
(* beyond the struct, an address that may lead anywhere.                   *)
Browse ==
  /\ Take("BROWSE")
  /\ Say(0, "BROWSE") \/ SayFails
  /\ Continue \/ Finish(Signalled)
  /\ UNCHANGED <<comport, workers>>

(* Mutant: the loop over the lines goes on.                                *)
Quit_GoesOn ==
  /\ Take("QUIT")
  /\ Say(0, "QUIT") \/ SayFails
  /\ Continue
  /\ UNCHANGED <<comport, workers>>

Quit ==
  /\ Take("QUIT")
  /\ Say(0, "QUIT") \/ SayFails
  /\ Finish(0)
  /\ UNCHANGED <<comport, workers>>

(* portAction: 0 for no argument, and a text ends the session.             *)
Port ==
  /\ Take("PORT")
  /\ IF Arg = "text" THEN comport' = 0 /\ Finish(-1)
     ELSE comport' = (IF Arg = None THEN 0 ELSE Arg) /\ Continue
  /\ UNCHANGED <<out, workers>>

(* Mutant: a worker starts with what the session started the read with.    *)
Worker_WholeRead(kind, pc, word) ==
  [kind |-> kind, pc |-> pc, word |-> word, behind |-> Len(done) + 1,
   upTo |-> Len(sent) - Len(inbox), combuf |-> combuf, comport |-> comport, peer |-> None, status |-> Running]

(* A copy of the session.  behind and upTo record the lines taken, with    *)
(* the worker's own, and the lines read when it was forked.                *)
Worker(kind, pc, word) ==
  [kind |-> kind, pc |-> pc, word |-> word, behind |-> Len(done) + 1,
   upTo |-> Len(sent) - Len(inbox), combuf |-> Tail(combuf), comport |-> comport, peer |-> None, status |-> Running]

Fork(w) == Len(workers) < MaxWorkers /\ workers' = Append(workers, w)
ForkFails == UNCHANGED workers

(* searchAction, the parent's half.  iswhitespace never holds.             *)
Search ==
  /\ Take("SEARCH")
  /\ \/ /\ Fork(Worker("search", "start", IF Arg = None THEN "SEARCH" ELSE Arg))
        /\ Continue
     \/ ForkFails /\ Finish(-3)
  /\ UNCHANGED <<comport, out>>

(* filelistAction: the socket is made before the fork, and its failure is  *)
(* not noticed.  The parent announces the port, 0 if there is no socket.   *)
Filelist ==
  /\ Take("FILELIST")
  /\ \/ \E pc \in {"accept", "deaf"} :
          /\ Fork(Worker("list", pc, None))
          /\ \/ Continue /\ Say(0, "SENDLIST")
             \/ SayFails /\ Finish(-1)
     \/ ForkFails /\ Finish(-1) /\ UNCHANGED out
  /\ UNCHANGED comport
-----------------------------------------------------------------------------
(* The workers.                                                            *)
Step(i, kind, from, to) ==
  /\ i \in DOMAIN workers
  /\ workers[i].kind = kind /\ workers[i].pc = from
  /\ workers' = [workers EXCEPT ![i] = to]
  /\ UNCHANGED <<client, sent, inbox, sigint, failed, session, combuf, done, comport, status>>
Ended(w, s) == [w EXCEPT !.pc = "ended", !.status = s]

(* searchAction, the child's half.                                         *)
Announce(i) ==
  /\ Step(i, "search", "start", [workers[i] EXCEPT !.pc = "accept"])
  /\ Say(i, "RESULT")
AnnounceFails(i) ==
  /\ Step(i, "search", "start", Ended(workers[i], -3))
  /\ UNCHANGED out

(* Somebody connects to an announced port: the client, from whatever port  *)
(* the system gave it.                                                     *)
Connected(i, kind) ==
  /\ Step(i, kind, "accept", [workers[i] EXCEPT !.pc = "work", !.peer = Ephemeral])
  /\ UNCHANGED out

(* accept fails: a search ends, a list worker polls descriptor -1.         *)
AcceptFails(i) ==
  /\ \/ Step(i, "search", "accept", Ended(workers[i], -3))
     \/ Step(i, "list", "accept", [workers[i] EXCEPT !.pc = "deaf"])
  /\ UNCHANGED out

WorkDone(i) ==
  /\ \/ Step(i, "search", "work", Ended(workers[i], -2))
     \/ \E s \in {-2, -3} : Step(i, "list", "work", Ended(workers[i], s))
  /\ UNCHANGED out

WorkerKilled(i) ==
  /\ i \in DOMAIN workers
  /\ workers[i].pc # "ended"
  /\ workers' = [workers EXCEPT ![i] = Ended(workers[i], Signalled)]
  /\ UNCHANGED <<client, sent, inbox, sigint, failed, session, combuf, done, comport, status, out>>
-----------------------------------------------------------------------------
Action == Unknown \/ Status \/ Help \/ Browse \/ Quit \/ Port \/ Search \/ Filelist
Ends == BufferFull \/ ClientHungUp \/ ReadFails \/ NoConnection \/ TakeSignal
Session == Read \/ Ends \/ LinesDone \/ Action
Begin(i) == Announce(i) \/ AnnounceFails(i)

Next ==
  \/ \E c \in Commands : Send(c)
  \/ HangUp \/ Interrupt \/ Killed \/ PollFails
  \/ Session
  \/ \E i \in 1..MaxWorkers :
       \/ Begin(i) \/ AcceptFails(i) \/ WorkDone(i) \/ WorkerKilled(i)
       \/ \E kind \in {"list", "search"} : Connected(i, kind)

Spec == Init /\ [][Next]_vars
FairSpec == Spec /\ WF_vars(Session) /\ \A i \in 1..MaxWorkers : WF_vars(Begin(i))
-----------------------------------------------------------------------------
(* The session takes every line once and in the order they were sent, and  *)
(* nothing behind a QUIT, wherever the reads cut the lines                 *)
(* (processIncomingData, quitAction).                                      *)
InOrder ==
  /\ IsPrefix(done, sent)
  /\ \A k \in 1..Len(done)-1 : done[k].word # "QUIT"
  /\ session # "ended" => done \o combuf \o inbox = sent

(* The session ends for a reason, and a client that hangs up in good order *)
(* has every line it sent before acted on, up to one that combuf has no    *)
(* room for: that one ends a session whose client is still there.          *)
TooLong(k) == k <= Len(sent) /\ sent[k].word = "long"
EndsForCause ==
  LET by(w) == done # <<>> /\ Last(done).word = w IN
  CASE status = 0 -> \/ by("QUIT")
                     \/ client # "up" /\ done = sent
                     \/ TooLong(Len(done) + 1)
    [] status = -1 -> \/ client # "up" \/ failed = "poll" \/ by("FILELIST")
                      \/ by("PORT") /\ Last(done).arg = "text"
    [] status = -2 -> sigint
    [] status = -3 -> by("SEARCH") \/ failed \in {"signalfd", "revents"}
    [] OTHER -> TRUE

(* What the session writes answers its commands one by one in their order, *)
(* however the workers' replies come in between; only the command that     *)
(* ended the session may have no answer.                                   *)
Answer(c) ==
  CASE c.word \in {"QUIT", "STATUS", "HELP", "BROWSE"} -> <<c.word>>
    [] c.word = "FILELIST" -> <<"SENDLIST">>
    [] c.word = "?" /\ c.arg # None -> <<"?">>
    [] OTHER -> <<>>
Said == {"QUIT", "STATUS", "HELP", "BROWSE", "SENDLIST", "?", "RESULT"}
Own == [by : {0}, what : Said]
Replies(s) == LET own == Only(s, Own) IN [k \in DOMAIN own |-> own[k].what]
Answers(s) == FlattenSeq([k \in DOMAIN s |-> Answer(s[k])])
AnsweredInOrder ==
  client = "up" =>
    \/ Replies(out) = Answers(done)
    \/ session = "ended" /\ Append(Replies(out), "SENDLIST") = Answers(done)

(* A worker starts with exactly the lines that had been read behind its    *)
(* own command, none missing and none more, and the session goes on to     *)
(* take them itself: those lines are in two buffers, and ListTransfer      *)
(* shows what a list worker makes of them.                                 *)
InheritsReadAhead ==
  \A i \in DOMAIN workers :
    LET w == workers[i] IN w.combuf = SubSeq(sent, w.behind + 1, w.upTo)

(* A session whose client has hung up ends, whatever its workers do.       *)
SessionEnds == client # "up" ~> session = "ended"

(* Every line the client sends is taken unless the session ends before.    *)
LinesTaken == \A n \in 1..MaxSent :
  Len(sent) = n ~> (Len(done) >= n \/ session = "ended")
=============================================================================
