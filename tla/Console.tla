------------------------------ MODULE Console -------------------------------
(***************************************************************************)
(* The terminal of the client.  initcap forks the consoler (consoler.c),   *)
(* which alone reads and writes the terminal, and joins it to the others   *)
(* by two pipes: consolemsg, under SEM_CONSOLER, writes into the one, the  *)
(* lines the user typed come out of the other.  Both are O_NONBLOCK, and   *)
(* writeWrapper tries again for as long as a pipe is full.  Every child    *)
(* that main forks inherits main's ends of both.                           *)
(***************************************************************************)
EXTENDS Semaphores, SequencesExt, SeqFilter

CONSTANTS
  Main, Kids,   \* main of the client and the children it forks
  Presses,      \* keys of the terminal: subset of Press
  MaxPresses, MaxReplies, MaxKidSays,   \* bounds on what is said
  PipeRoom,     \* how many messages the pipe to the consoler holds
  LineRoom,     \* how many lines the pipe to main holds
  EscMax        \* characters read behind an escape

Press == {"a", "E", "Return", "Backspace", "Esc", "Arrow"}
Procs == Kids \cup {Main}

ASSUME ConsoleAssumption ==
  /\ Presses \subseteq Press
  /\ Main \notin Kids
  /\ MaxPresses \in Nat /\ MaxReplies \in Nat /\ MaxKidSays \in Nat
  /\ PipeRoom \in Nat \ {0} /\ LineRoom \in Nat \ {0} /\ EscMax \in Nat \ {0}

(* The characters of a line.                                               *)
Letters == {"a", "E", "[", "A"}

(* What a key sends.                                                       *)
Chars(press) == IF press = "Arrow" THEN <<"Esc", "[", "A">> ELSE <<press>>

(* A message is one line, a line that stdoutline has no room for, or a     *)
(* text without its end.                                                   *)
Kinds == {"line", "long", "open"}
Message(p, kind) == [from |-> p, kind |-> kind]
NoMessage == [from |-> Main, kind |-> "none"]

VARIABLES
  stdin,        \* characters nobody has read
  presses,      \* how many keys were pressed, the end of stdin included
  eof,          \* stdin: "open", at an "end" that poll calls readable (a
                \* terminal or a file), or "hup" (a pipe)
  tty,          \* "raw" or "cooked"
  cpc,          \* the consoler: "poll", "esc", "send", "failed", and how it
                \* ended: "done", "dead" (after a failure), "killed"
  stdinbuf,     \* the line that is being typed
  prompt,       \* what the screen shows behind ">> "
  stdoutbuf,    \* what was read and is no full line
  shown,        \* the messages on the screen, in their order
  toCon,        \* pipe: messages
  fromCon,      \* pipe: lines
  sem,          \* SEM_CONSOLER
  spc, msg,     \* where a process is in consolemsg, and with what
  mpc,          \* main: "poll", "lines", "closing", "removed", "waiting",
                \* "gone" or "killed"
  combuf,       \* lines main has read
  quit,         \* shellReturn is set
  replies,      \* how many lines of the server were shown
  kpc, kidsaid, \* each child: "none", "run" or "gone", and what it said
  \* history, read by no action
  heard,        \* the keys the consoler took, without escapes, and "End"
  took,         \* the lines main acted on
  said          \* the messages written

term == <<stdin, presses, eof, tty>>
con  == <<cpc, stdinbuf, prompt, stdoutbuf, shown, heard>>
pipes == <<toCon, fromCon>>
saying == <<sem, spc, msg, said>>
main == <<mpc, combuf, quit, replies, took>>
kids == <<kpc, kidsaid>>
vars == <<term, con, pipes, saying, main, kids>>

Init ==
  /\ stdin = <<>> /\ presses = 0 /\ eof = "open" /\ tty = "raw"
  /\ cpc = "poll" /\ stdinbuf = <<>> /\ prompt = <<>>
  /\ stdoutbuf = <<>> /\ shown = <<>> /\ heard = <<>>
  /\ toCon = <<>> /\ fromCon = <<>>
  /\ sem = SemCreated(Procs)
  /\ spc = [p \in Procs |-> "none"] /\ msg = [p \in Procs |-> NoMessage] /\ said = <<>>
  /\ mpc = "poll" /\ combuf = <<>> /\ quit = FALSE /\ replies = 0 /\ took = <<>>
  /\ kpc = [k \in Kids |-> "none"] /\ kidsaid = [k \in Kids |-> 0]

Running == {k \in Kids : kpc[k] = "run"}

(* Who holds main's ends of the pipes, and whether the consoler has its.   *)
Holders == Running \cup (IF mpc \in {"waiting", "gone", "killed"} THEN {} ELSE {Main})
ConsolerListens == cpc \in {"poll", "esc", "send"}
ConsolerGone == cpc \in {"done", "dead", "killed"}
-----------------------------------------------------------------------------
(* The terminal.  In raw mode no key is a signal.                          *)
PressKey(press) ==
  /\ presses < MaxPresses /\ ConsolerListens /\ eof = "open"
  /\ presses' = presses + 1
  /\ stdin' = stdin \o Chars(press)
  /\ UNCHANGED <<eof, tty, con, pipes, saying, main, kids>>

StdinEnds ==
  /\ presses < MaxPresses /\ ConsolerListens /\ eof = "open"
  /\ presses' = presses + 1
  /\ eof' \in {"end", "hup"}
  /\ UNCHANGED <<stdin, tty, con, pipes, saying, main, kids>>
-----------------------------------------------------------------------------
(* The consoler.                                                           *)
FullLines(text) == {i \in DOMAIN text : text[i].kind # "open"}
TooLong(text) == {i \in DOMAIN text : text[i].kind = "long"}
Last0(S) == Max(S \cup {0})

(* Mutant: the loop is left by return.                                     *)
ShowFails_Return(text) ==
  /\ TooLong(text) # {}
  /\ shown' = shown \o SubSeq(text, 1, Last0({i \in FullLines(text) : i < Min(TooLong(text))}))
  /\ cpc' = "failed"
  /\ prompt' = <<>>
  /\ UNCHANGED <<stdoutbuf, tty>>

(* A line longer than stdoutline: what comes before it is printed, the     *)
(* loop is left, both pipes are closed and the terminal is reset.          *)
ShowFails(text) ==
  /\ TooLong(text) # {}
  /\ shown' = shown \o SubSeq(text, 1, Last0({i \in FullLines(text) : i < Min(TooLong(text))}))
  /\ cpc' = "failed"
  /\ prompt' = <<>> /\ tty' = "cooked"
  /\ UNCHANGED stdoutbuf

(* Mutant: what is left behind the last full line is dropped.              *)
ShowLines_Flush(text) ==
  /\ TooLong(text) = {}
  /\ shown' = shown \o SubSeq(text, 1, Last0(FullLines(text)))
  /\ stdoutbuf' = <<>>
  /\ prompt' = stdinbuf
  /\ UNCHANGED <<cpc, tty>>

(* The prompt is removed, the full lines are printed, and the prompt is    *)
(* restored with what was typed so far.                                    *)
ShowLines(text) ==
  /\ TooLong(text) = {}
  /\ shown' = shown \o SubSeq(text, 1, Last0(FullLines(text)))
  /\ stdoutbuf' = SubSeq(text, Last0(FullLines(text)) + 1, Len(text))
  /\ prompt' = stdinbuf
  /\ UNCHANGED <<cpc, tty>>

(* Mutant: nothing is printed while the user types.                        *)
ShowText_NotWhileTyping ==
  /\ cpc = "poll" /\ toCon # <<>> /\ stdinbuf = <<>>
  /\ ShowLines(stdoutbuf \o toCon) \/ ShowFails(stdoutbuf \o toCon)
  /\ toCon' = <<>>
  /\ UNCHANGED <<stdin, presses, eof, stdinbuf, heard, fromCon, saying, main, kids>>

(* The pipe has data: it comes before the terminal.                        *)
ShowText ==
  /\ cpc = "poll"
  /\ \E n \in 1..Len(toCon) :
       /\ LET text == stdoutbuf \o SubSeq(toCon, 1, n)
          IN  ShowLines(text) \/ ShowFails(text)
       /\ toCon' = SubSeq(toCon, n + 1, Len(toCon))
  /\ UNCHANGED <<stdin, presses, eof, stdinbuf, heard, fromCon, saying, main, kids>>

Key(c) ==
  /\ cpc = "poll" /\ toCon = <<>>
  /\ stdin # <<>> /\ Head(stdin) = c
  /\ stdin' = Tail(stdin)
  /\ UNCHANGED <<presses, eof, tty, stdoutbuf, shown, pipes, saying, main, kids>>

Char ==
  \E c \in Letters :
    /\ Key(c)
    /\ stdinbuf' = Append(stdinbuf, c)
    /\ prompt' = Append(prompt, c)
    /\ heard' = Append(heard, c)
    /\ UNCHANGED cpc

(* The line is drawn again; with nothing typed there is only a sound.      *)
Backspace ==
  /\ Key("Backspace")
  /\ stdinbuf' = SubSeq(stdinbuf, 1, Len(stdinbuf) - 1)
  /\ prompt' = IF stdinbuf = <<>> THEN prompt ELSE stdinbuf'
  /\ heard' = Append(heard, "Backspace")
  /\ UNCHANGED cpc

Return ==
  /\ Key("Return")
  /\ prompt' = <<>>
  /\ heard' = Append(heard, "Return")
  /\ cpc' = "send"
  /\ UNCHANGED stdinbuf

Escape ==
  /\ Key("Esc")
  /\ cpc' = "esc"
  /\ UNCHANGED <<stdinbuf, prompt, heard>>

(* read waits for a character or the end and takes up to EscMax of those   *)
(* there are; whatever they are, they change nothing.                      *)
EscapeRead ==
  /\ cpc = "esc" /\ (stdin # <<>> \/ eof # "open")
  /\ stdin' = SubSeq(stdin, EscMax + 1, Len(stdin))
  /\ cpc' = "poll"
  /\ UNCHANGED <<presses, eof, tty, stdinbuf, prompt, stdoutbuf, shown, heard, pipes, saying, main, kids>>

(* Nothing can be read of stdin: what was typed is dropped, without a word *)
(* to the screen.  A further round changes nothing.                        *)
StdinGone ==
  /\ cpc = "poll" /\ toCon = <<>> /\ stdin = <<>> /\ eof = "end"
  /\ stdinbuf # <<>> /\ stdinbuf' = <<>>
  /\ heard' = Append(heard, "End")
  /\ UNCHANGED <<term, cpc, prompt, stdoutbuf, shown, pipes, saying, main, kids>>

(* Mutant: stdinbuf is not flushed.                                        *)
SendLine_Keep ==
  /\ cpc = "send" /\ Holders # {} /\ Len(fromCon) < LineRoom
  /\ fromCon' = Append(fromCon, stdinbuf)
  /\ cpc' = "poll"
  /\ UNCHANGED <<term, stdinbuf, prompt, stdoutbuf, shown, heard, toCon, saying, main, kids>>

(* writeBuf of the line; while the pipe is full it is tried again.         *)
SendLine ==
  /\ cpc = "send" /\ Holders # {} /\ Len(fromCon) < LineRoom
  /\ fromCon' = Append(fromCon, stdinbuf)
  /\ stdinbuf' = <<>>
  /\ cpc' = "poll"
  /\ UNCHANGED <<term, prompt, stdoutbuf, shown, heard, toCon, saying, main, kids>>

(* No one can read the line any more: SIGPIPE, which nobody ignores.       *)
BrokenPipe ==
  /\ cpc = "send" /\ Holders = {}
  /\ cpc' = "killed"
  /\ UNCHANGED <<term, stdinbuf, prompt, stdoutbuf, shown, heard, pipes, saying, main, kids>>

(* Mutant: the consoler keeps the writing end of its own pipe.             *)
HangUp_OwnEnd ==
  /\ cpc = "poll" /\ toCon = <<>> /\ stdin = <<>> /\ eof = "hup"
  /\ cpc' = "done"
  /\ prompt' = <<>> /\ tty' = "cooked"
  /\ UNCHANGED <<stdin, presses, eof, stdinbuf, stdoutbuf, shown, heard, pipes, saying, main, kids>>

(* All writing ends are closed, or poll says of stdin what the consoler    *)
(* does not handle, and nothing is left to read.                           *)
HangUp ==
  /\ cpc = "poll" /\ toCon = <<>> /\ stdin = <<>>
  /\ eof = "hup" \/ (eof = "open" /\ Holders = {})
  /\ cpc' = "done"
  /\ prompt' = <<>> /\ tty' = "cooked"
  /\ UNCHANGED <<stdin, presses, eof, stdinbuf, stdoutbuf, shown, heard, pipes, saying, main, kids>>

(* A consoler that failed returns through initcap into main's error path:  *)
(* free of a buffer that was never made, which may end it at once, freeap, *)
(* which removes the semaphores of the whole client, and freecap a second  *)
(* time.                                                                   *)
Fail ==
  /\ cpc = "failed"
  /\ cpc' = "dead"
  /\ sem' \in {sem, SemRemoved(sem)}
  /\ UNCHANGED <<term, stdinbuf, prompt, stdoutbuf, shown, heard, pipes, spc, msg, said, main, kids>>
-----------------------------------------------------------------------------
(* consolemsg.                                                             *)
Say(p, kind) ==
  /\ spc' = [spc EXCEPT ![p] = "wait"]
  /\ msg' = [msg EXCEPT ![p] = Message(p, kind)]
  /\ UNCHANGED <<sem, said>>

Said(p) ==
  /\ spc' = [spc EXCEPT ![p] = "none"]
  /\ msg' = [msg EXCEPT ![p] = NoMessage]

SayWait(p) ==
  /\ spc[p] = "wait" /\ SemAvailable(sem)
  /\ sem' = SemTaken(sem, p)
  /\ spc' = [spc EXCEPT ![p] = "write"]
  /\ UNCHANGED <<term, con, pipes, msg, said, main, kids>>

(* A -1 from consolemsg ends the loop of main; the children ignore it.     *)
Refused(p) == quit' = (quit \/ p = Main)

GiveUp(p) ==
  /\ spc[p] = "wait"
  /\ Said(p) /\ Refused(p)
  /\ UNCHANGED <<term, con, pipes, sem, said, mpc, combuf, replies, took, kids>>

(* The semaphores are gone, or the wait was interrupted.                   *)
SayRefused(p) == SemGone(sem) /\ GiveUp(p)
SayInterrupted(p) == SemBlocks(sem) /\ GiveUp(p)

(* The pipe has room for the whole message.                                *)
SayWrite(p) ==
  /\ spc[p] = "write" /\ ConsolerListens /\ Len(toCon) < PipeRoom
  /\ toCon' = Append(toCon, msg[p])
  /\ said' = Append(said, msg[p])
  /\ spc' = [spc EXCEPT ![p] = "post"]
  /\ UNCHANGED <<term, con, fromCon, sem, msg, main, kids>>

(* A process that ends: the kernel undoes its semWait.                     *)
Ends(p) ==
  /\ sem' = SemExited(sem, p)
  /\ Said(p)
  /\ IF p = Main THEN mpc' = "killed" /\ UNCHANGED kpc
     ELSE kpc' = [kpc EXCEPT ![p] = "gone"] /\ UNCHANGED mpc
  /\ UNCHANGED <<term, con, pipes, said, combuf, quit, replies, took, kidsaid>>

(* The consoler has gone: SIGPIPE ends the writer.                         *)
SayBroken(p) == spc[p] = "write" /\ ~ConsolerListens /\ Ends(p)

SayPost(p) ==
  /\ spc[p] = "post"
  /\ sem' = SemGiven(sem, p)
  /\ Said(p)
  /\ IF SemGone(sem) THEN Refused(p) ELSE UNCHANGED quit
  /\ UNCHANGED <<term, con, pipes, said, mpc, combuf, replies, took, kids>>
-----------------------------------------------------------------------------
(* Main, as far as the terminal goes (ClientMain has its loop).            *)
MainAt(pc) == mpc = pc /\ spc[Main] = "none"

(* A line of the server that is shown; "OK" has no end.                    *)
Reply(kind) ==
  /\ MainAt("poll") /\ ~quit /\ replies < MaxReplies
  /\ replies' = replies + 1
  /\ Say(Main, kind)
  /\ UNCHANGED <<term, con, pipes, mpc, combuf, quit, took, kids>>

ForkKid(k) ==
  /\ kpc[k] = "none"
  /\ kpc' = [kpc EXCEPT ![k] = "run"]
  /\ UNCHANGED kidsaid

(* A line of the server that needs a child.                                *)
ReplyForks(k) ==
  /\ MainAt("poll") /\ ~quit
  /\ ForkKid(k)
  /\ UNCHANGED <<term, con, pipes, saying, main>>

NonBlank(lines) == Only(lines, Seq(Letters) \ {<<>>})

(* Empty lines are skipped as leading separators.                          *)
ReadLines ==
  /\ MainAt("poll") /\ ~quit /\ fromCon # <<>>
  /\ combuf' = NonBlank(fromCon)
  /\ fromCon' = <<>>
  /\ mpc' = "lines"
  /\ UNCHANGED <<term, con, toCon, saying, quit, replies, took, kids>>

ExitLine == <<"E">>

(* EXIT sets shellReturn and says so; any other line may be answered by a  *)
(* message, by a child, or not at all.                                     *)
TakeLine ==
  /\ MainAt("lines") /\ combuf # <<>>
  /\ combuf' = Tail(combuf)
  /\ took' = Append(took, Head(combuf))
  /\ IF Head(combuf) = ExitLine
     THEN quit' = TRUE /\ Say(Main, "open") /\ UNCHANGED kids
     ELSE /\ UNCHANGED quit
          /\ \/ UNCHANGED <<saying, kids>>
             \/ Say(Main, "line") /\ UNCHANGED kids
             \/ (\E k \in Kids : ForkKid(k)) /\ UNCHANGED saying
  /\ UNCHANGED <<term, con, pipes, mpc, replies>>

LinesDone ==
  /\ MainAt("lines") /\ combuf = <<>>
  /\ mpc' = "poll"
  /\ UNCHANGED <<term, con, pipes, saying, combuf, quit, replies, took, kids>>

(* shellReturn is set, the server closed, or the consoler did.             *)
LeaveLoop ==
  /\ MainAt("poll")
  /\ mpc' = "closing"
  /\ UNCHANGED <<term, con, pipes, saying, combuf, quit, replies, took, kids>>
Quits == quit /\ LeaveLoop
ServerCloses == ~quit /\ LeaveLoop
ConsolerClosed == ~quit /\ fromCon = <<>> /\ ~ConsolerListens /\ LeaveLoop

(* freeap, freecap, and waitpid for the consoler and the logger: the pipe  *)
(* of the logger is open as long as the consoler or a child lives.         *)
FreeAp ==
  /\ mpc = "closing"
  /\ sem' = SemRemoved(sem)
  /\ mpc' = "removed"
  /\ UNCHANGED <<term, con, pipes, spc, msg, said, combuf, quit, replies, took, kids>>

FreeCap ==
  /\ mpc = "removed"
  /\ mpc' = "waiting"
  /\ UNCHANGED <<term, con, pipes, saying, combuf, quit, replies, took, kids>>

WaitPid ==
  /\ mpc = "waiting" /\ ConsolerGone /\ Running = {}
  /\ mpc' = "gone"
  /\ UNCHANGED <<term, con, pipes, saying, combuf, quit, replies, took, kids>>
-----------------------------------------------------------------------------
(* The children.                                                           *)
KidSays(k) ==
  /\ kpc[k] = "run" /\ spc[k] = "none" /\ kidsaid[k] < MaxKidSays
  /\ kidsaid' = [kidsaid EXCEPT ![k] = @ + 1]
  /\ Say(k, "line")
  /\ UNCHANGED <<term, con, pipes, main, kpc>>

(* It ends, or is killed wherever it is.                                   *)
KidEnds(k) == kpc[k] = "run" /\ Ends(k)
-----------------------------------------------------------------------------
Consoler ==
  \/ ShowText \/ Char \/ Backspace \/ Return \/ Escape \/ EscapeRead
  \/ StdinGone \/ SendLine \/ BrokenPipe \/ HangUp \/ Fail
ConsoleMsg(p) == SayWait(p) \/ SayRefused(p) \/ SayWrite(p) \/ SayBroken(p) \/ SayPost(p)
MainLoop ==
  ReadLines \/ TakeLine \/ LinesDone \/ Quits \/ ConsolerClosed \/ FreeAp \/ FreeCap \/ WaitPid
Env ==
  \/ \E press \in Presses : PressKey(press)
  \/ StdinEnds
  \/ \E kind \in Kinds : Reply(kind)
  \/ ServerCloses
  \/ \E p \in Procs : SayInterrupted(p)
  \/ \E k \in Kids : ReplyForks(k) \/ KidSays(k) \/ KidEnds(k)

Next == Consoler \/ MainLoop \/ (\E p \in Procs : ConsoleMsg(p)) \/ Env

Spec == Init /\ [][Next]_vars

(* Processes are scheduled.  Nothing makes the user press a key, the       *)
(* server say anything, a child end, or a wait be interrupted.             *)
FairSpec ==
  /\ Spec
  /\ WF_vars(Consoler) /\ WF_vars(MainLoop)
  /\ \A p \in Procs : WF_vars(ConsoleMsg(p))
-----------------------------------------------------------------------------
(* What the keys mean: the lines, and the line that is being typed.        *)
EditKey(e, c) ==
  CASE c = "Return" -> [lines |-> Append(e.lines, e.cur), cur |-> <<>>]
    [] c = "Backspace" -> [e EXCEPT !.cur = SubSeq(@, 1, Len(@) - 1)]
    [] c = "End" -> [e EXCEPT !.cur = <<>>]
    [] OTHER -> [e EXCEPT !.cur = Append(@, c)]
Edited(keys) ==
  LET edit[n \in 0..Len(keys)] ==
        IF n = 0 THEN [lines |-> <<>>, cur |-> <<>>]
        ELSE EditKey(edit[n - 1], keys[n])
  IN  edit[Len(keys)]

(* A line that is typed reaches main once, in its order and as it was      *)
(* edited, whatever is printed in between (consoler, main's loop), and the *)
(* prompt shows what was typed so far whenever the consoler waits, as long *)
(* as somebody can type (consoler.c:102-110).                              *)
TypedLinesArrive ==
  LET edited == Edited(heard) IN
  /\ took \o combuf \o NonBlank(fromCon)
        \o NonBlank(IF cpc \in {"send", "killed"} THEN <<stdinbuf>> ELSE <<>>)
       = NonBlank(edited.lines)
  /\ cpc = "poll" => stdinbuf = edited.cur /\ (eof = "open" => prompt = edited.cur)

(* Messages are shown in the order of their writes, nothing is shown that  *)
(* was not written, and unless the consoler fails or is killed it leaves   *)
(* only after everything that has an end was shown (consolemsg, consoler). *)
MessagesShown ==
  /\ IsPrefix(shown, said)
  /\ cpc = "done" => \A i \in Len(shown)+1..Len(said) : said[i].kind = "open"

(* The terminal is reset by whoever ends, but for one case: a line that is *)
(* sent when main and all children have left ends the consoler by SIGPIPE. *)
TerminalReset ==
  /\ cpc \in {"failed", "done", "dead"} => tty = "cooked"
  /\ cpc = "killed" => mpc \in {"waiting", "gone", "killed"} /\ Running = {}

(* consolemsg comes to an end, unless the consoler waits for the reader of *)
(* its own full pipe, or for the user behind an escape.                    *)
Standoff == cpc = "send" /\ Len(fromCon) = LineRoom
MessageEnds ==
  \A p \in Procs :
    spc[p] \in {"wait", "write"} ~> (spc[p] \in {"none", "post"} \/ Standoff \/ cpc = "esc")

(* Main that closes ends, if the children end, no escape is left open and  *)
(* stdin is not at an end that poll calls readable: the children hold the  *)
(* pipe that the consoler waits for, and it looks at stdin before it looks *)
(* whether that is closed (client.c:453-454, consoler.c:187, 200).         *)
ClientLeaves ==
  \/ []<>(Running # {})
  \/ <>[](cpc = "esc")
  \/ <>(eof = "end")
  \/ mpc = "closing" ~> mpc = "gone"
=============================================================================
