--------------------------- MODULE ConsoleProofs ----------------------------
(***************************************************************************)
(* Proofs about the terminal of the client, for any number of children,    *)
(* any keys, any messages and pipes of any size.                           *)
(***************************************************************************)
EXTENDS Console, SequenceLemmas, TLAPS

Messages == [from : Procs, kind : {"line", "long", "open", "none"}]
IsText(s) == s \in Seq(Messages)
Joined(a, b) == a \o b

LEMMA TextConcat ==
  ASSUME NEW a, NEW b, IsText(a), IsText(b)
  PROVE  IsText(Joined(a, b)) /\ IsPrefix(a, Joined(a, b))
BY ConcatProperties, PrefixOfConcat DEF IsText, Joined

LEMMA TextAssociative ==
  ASSUME NEW a, NEW b, NEW c, IsText(a), IsText(b), IsText(c)
  PROVE  Joined(Joined(a, b), c) = Joined(a, Joined(b, c))
BY ConcatAssociative DEF IsText, Joined

LEMMA TextSplit ==
  ASSUME NEW s, IsText(s), NEW k \in 0..Len(s)
  PROVE  /\ IsText(SubSeq(s, 1, k)) /\ IsText(SubSeq(s, k + 1, Len(s)))
         /\ Joined(SubSeq(s, 1, k), SubSeq(s, k + 1, Len(s))) = s
BY SplitAt DEF IsText, Joined

(* w was shown and b was kept; of b and of what is read of p, k messages   *)
(* are printed.                                                            *)
LEMMA Printing ==
  ASSUME NEW w, NEW b, NEW p, IsText(w), IsText(b), IsText(p),
         NEW n \in 0..Len(p), NEW text, text = Joined(b, SubSeq(p, 1, n)), NEW k \in 0..Len(text)
  PROVE  LET now == Joined(w, SubSeq(text, 1, k))
             kept == SubSeq(text, k + 1, Len(text))
             rest == SubSeq(p, n + 1, Len(p))
         IN  /\ IsText(now) /\ IsText(rest)
             /\ Joined(Joined(w, b), p) = Joined(Joined(now, kept), rest)
             /\ IsPrefix(now, Joined(Joined(w, b), p))
<1> DEFINE f == SubSeq(p, 1, n)  rest == SubSeq(p, n + 1, Len(p))
           x == SubSeq(text, 1, k)  kept == SubSeq(text, k + 1, Len(text))
<1>1. IsText(f) /\ IsText(rest) /\ Joined(f, rest) = p
  BY TextSplit
<1>2. text = Joined(b, f)
  OBVIOUS
<1> HIDE DEF f, rest
<1>3. IsText(text)
  BY <1>1, <1>2, TextConcat
<1>4. IsText(x) /\ IsText(kept) /\ Joined(x, kept) = text
  BY <1>3, TextSplit
<1> HIDE DEF x, kept
<1>5. IsText(Joined(w, b)) /\ IsText(Joined(w, x)) /\ IsText(Joined(kept, rest))
  BY <1>1, <1>4, TextConcat
<1>6. Joined(Joined(w, b), p) = Joined(Joined(w, text), rest)
  <2>1. Joined(Joined(w, b), Joined(f, rest)) = Joined(Joined(Joined(w, b), f), rest)
    BY <1>1, <1>5, TextAssociative
  <2>2. Joined(Joined(w, b), f) = Joined(w, Joined(b, f))
    BY <1>1, TextAssociative
  <2>. QED  BY <1>1, <1>2, <2>1, <2>2
<1>7. Joined(w, text) = Joined(Joined(w, x), kept)
  BY <1>4, TextAssociative
<1>8. Joined(Joined(Joined(w, x), kept), rest) = Joined(Joined(w, x), Joined(kept, rest))
  BY <1>1, <1>4, <1>5, TextAssociative
<1>9. IsPrefix(Joined(w, x), Joined(Joined(w, b), p))
  BY <1>5, <1>6, <1>7, <1>8, TextConcat
<1>. QED  BY <1>1, <1>5, <1>6, <1>7, <1>9 DEF f, rest, x, kept
-----------------------------------------------------------------------------
(* What was shown, what waits for its end and what is in the pipe are all  *)
(* that was written, in its order, for as long as the consoler works; what *)
(* waits has no end.                                                       *)
ShownInv ==
  /\ cpc \in {"poll", "esc", "send", "failed", "done", "dead", "killed"}
  /\ IsText(shown) /\ IsText(stdoutbuf) /\ IsText(toCon) /\ IsText(said)
  /\ msg \in [Procs -> Messages]
  /\ IsPrefix(shown, said)
  /\ cpc \notin {"failed", "dead"} => said = Joined(Joined(shown, stdoutbuf), toCon)
  /\ \A i \in DOMAIN stdoutbuf : stdoutbuf[i].kind = "open"
  /\ cpc = "done" => toCon = <<>>

LEMMA ShownInit == Init => ShownInv
<1> SUFFICES ASSUME Init PROVE ShownInv
  OBVIOUS
<1> USE DEF Init
<1>1. IsText(<<>>) /\ Len(<<>>) = 0 /\ Joined(Joined(<<>>, <<>>), <<>>) = <<>>
  BY ConcatEmptySeq, EmptySeq DEF IsText, Joined
<1>2. IsPrefix(<<>>, <<>>)
  BY <1>1 DEF IsPrefix
<1>3. msg \in [Procs -> Messages]
  BY DEF NoMessage, Procs, Messages
<1>. QED  BY <1>1, <1>2, <1>3 DEF ShownInv

(* A step that neither writes nor shows.                                   *)
Elsewhere ==
  /\ UNCHANGED <<toCon, shown, stdoutbuf, said>>
  /\ msg' \in [Procs -> Messages]
  /\ \/ cpc' = cpc
     \/ cpc \in {"poll", "esc", "send"} /\ cpc' \in {"poll", "esc", "send", "killed"}
     \/ cpc = "poll" /\ cpc' = "done" /\ toCon = <<>>
     \/ cpc = "failed" /\ cpc' = "dead"

LEMMA ElsewhereShown == ASSUME ShownInv, Elsewhere PROVE ShownInv'
BY DEF ShownInv, Elsewhere

LEMMA ConsolerElsewhere ==
  ASSUME ShownInv, Consoler, ~ShowText PROVE Elsewhere
<1> USE DEF ShownInv, Elsewhere, saying, pipes
<1>1. CASE Char \/ Backspace \/ Return \/ Escape
  BY <1>1 DEF Char, Backspace, Return, Escape, Key
<1>2. CASE EscapeRead
  BY <1>2 DEF EscapeRead
<1>3. CASE SendLine \/ BrokenPipe
  BY <1>3 DEF SendLine, BrokenPipe
<1>4. CASE HangUp \/ StdinGone
  BY <1>4 DEF HangUp, StdinGone
<1>5. CASE Fail
  BY <1>5 DEF Fail
<1>. QED  BY <1>1, <1>2, <1>3, <1>4, <1>5 DEF Consoler

LEMMA MsgSet ==
  ASSUME NEW p \in Procs, NEW kind \in Kinds, msg \in [Procs -> Messages]
  PROVE  [msg EXCEPT ![p] = Message(p, kind)] \in [Procs -> Messages]
BY DEF Message, Messages, Kinds, Procs

LEMMA NoMsgSet ==
  ASSUME NEW p \in Procs, msg \in [Procs -> Messages]
  PROVE  [msg EXCEPT ![p] = NoMessage] \in [Procs -> Messages]
BY DEF NoMessage, Messages, Procs

LEMMA MainElsewhere ==
  ASSUME ShownInv, MainLoop \/ Env PROVE Elsewhere
<1> USE DEF ShownInv, Elsewhere, saying, pipes, con
<1>0. Main \in Procs /\ (\A k \in Kids : k \in Procs) /\ "line" \in Kinds /\ "open" \in Kinds
  BY DEF Procs, Kinds
<1>1. CASE ReadLines \/ LinesDone \/ Quits \/ ConsolerClosed \/ FreeAp \/ FreeCap \/ WaitPid \/ ServerCloses
  BY <1>1 DEF ReadLines, LinesDone, Quits, ConsolerClosed, FreeAp, FreeCap, WaitPid, ServerCloses, LeaveLoop
<1>2. CASE TakeLine
  BY <1>0, <1>2, MsgSet DEF TakeLine, Say, kids
<1>3. CASE StdinEnds \/ \E press \in Presses : PressKey(press)
  BY <1>3 DEF StdinEnds, PressKey
<1>4. CASE \E kind \in Kinds : Reply(kind)
  BY <1>0, <1>4, MsgSet DEF Reply, Say
<1>5. CASE \E p \in Procs : SayInterrupted(p)
  BY <1>5, NoMsgSet DEF SayInterrupted, GiveUp, Said
<1>6. ASSUME NEW k \in Kids, ReplyForks(k) \/ KidSays(k) \/ KidEnds(k) PROVE Elsewhere
  <2>1. CASE ReplyForks(k)
    BY <2>1 DEF ReplyForks
  <2>2. CASE KidSays(k)
    BY <1>0, <2>2, MsgSet DEF KidSays, Say
  <2>3. CASE KidEnds(k)
    BY <1>0, <2>3, NoMsgSet DEF KidEnds, Ends, Said
  <2>. QED  BY <1>6, <2>1, <2>2, <2>3
<1>. QED  BY <1>1, <1>2, <1>3, <1>4, <1>5, <1>6 DEF MainLoop, Env

LEMMA WriteShown ==
  ASSUME ShownInv, NEW p \in Procs, SayWrite(p) PROVE ShownInv'
<1> USE DEF ShownInv
<1>1. /\ msg[p] \in Messages /\ toCon' = Append(toCon, msg[p]) /\ said' = Append(said, msg[p])
      /\ UNCHANGED <<cpc, shown, stdoutbuf, msg>> /\ cpc \in {"poll", "esc", "send"}
  BY DEF SayWrite, ConsolerListens, con
<1> DEFINE new == <<msg[p]>>
<1>2. IsText(new)
  BY <1>1 DEF IsText
<1>3. toCon' = Joined(toCon, new) /\ said' = Joined(said, new)
  BY <1>1, AppendIsConcat DEF IsText, Joined
<1> HIDE DEF new
<1>4. IsText(toCon') /\ IsText(said') /\ IsText(Joined(shown, stdoutbuf)) /\ IsText(toCon)
  BY <1>2, <1>3, TextConcat
<1>5. said' = Joined(Joined(shown, stdoutbuf), toCon')
  <2>1. said = Joined(Joined(shown, stdoutbuf), toCon)
    BY <1>1
  <2>2. Joined(Joined(Joined(shown, stdoutbuf), toCon), new) = Joined(Joined(shown, stdoutbuf), Joined(toCon, new))
    BY <1>2, <1>4, TextAssociative
  <2>. QED  BY <1>3, <2>1, <2>2
<1>6. IsPrefix(shown, said')
  <2>1. IsText(shown) /\ IsText(stdoutbuf) /\ IsText(Joined(stdoutbuf, toCon'))
    BY <1>4, TextConcat
  <2>2. said' = Joined(shown, Joined(stdoutbuf, toCon'))
    BY <1>4, <1>5, <2>1, TextAssociative
  <2>. QED  BY <2>1, <2>2, TextConcat
<1>. QED  BY <1>1, <1>4, <1>5, <1>6

(* What the consoler prints of a text ends with a full line of it.         *)
LEMMA LastWithin ==
  ASSUME NEW text, IsText(text), NEW some \in SUBSET (1..Len(text))
  PROVE  /\ Last0(some) \in 0..Len(text)
         /\ \A k \in some : k <= Last0(some)
<1>0. Len(text) \in Nat
  BY DEF IsText
<1>1. some \cup {0} \in SUBSET (0..Len(text))
  BY <1>0
<1>2. /\ Max(some \cup {0}) \in some \cup {0}
      /\ \A k \in some \cup {0} : k <= Max(some \cup {0})
  <2> DEFINE T == some \cup {0}
  <2>1. T # {} /\ T \in SUBSET (0..Len(text))
    BY <1>1
  <2> HIDE DEF T
  <2>2. Max(T) \in T /\ \A k \in T : k <= Max(T)
    BY <1>0, <2>1, MaxOfSome
  <2>. QED  BY <2>2 DEF T
<1>. QED  BY <1>0, <1>1, <1>2 DEF Last0

LEMMA TextShown ==
  ASSUME ShownInv, ShowText PROVE ShownInv'
<1> USE DEF ShownInv
<1>1. PICK n \in 1..Len(toCon) :
        /\ LET text == Joined(stdoutbuf, SubSeq(toCon, 1, n))
           IN  ShowLines(text) \/ ShowFails(text)
        /\ toCon' = SubSeq(toCon, n + 1, Len(toCon))
  BY DEF ShowText, Joined
<1> DEFINE text == Joined(stdoutbuf, SubSeq(toCon, 1, n))
<1>2. /\ cpc = "poll" /\ UNCHANGED <<said, msg>> /\ said = Joined(Joined(shown, stdoutbuf), toCon)
      /\ ShowLines(text) \/ ShowFails(text)
  BY <1>1 DEF ShowText, saying
<1>3. n \in 0..Len(toCon)
  OBVIOUS
<1>4. IsText(text)
  <2>1. IsText(SubSeq(toCon, 1, n))
    BY <1>3, SplitAt DEF IsText
  <2>. QED  BY <2>1, TextConcat
<1> DEFINE Shows(k) == /\ shown' = Joined(shown, SubSeq(text, 1, k))
                       /\ IsText(shown') /\ IsText(toCon')
                       /\ said = Joined(Joined(shown', SubSeq(text, k + 1, Len(text))), toCon')
                       /\ IsPrefix(shown', said)
<1>5. ASSUME NEW k \in 0..Len(text), shown' = Joined(shown, SubSeq(text, 1, k)) PROVE Shows(k)
  <2>1. text = Joined(stdoutbuf, SubSeq(toCon, 1, n))
    OBVIOUS
  <2> HIDE DEF text
  <2> DEFINE now == Joined(shown, SubSeq(text, 1, k))  kept == SubSeq(text, k + 1, Len(text))
             rest == SubSeq(toCon, n + 1, Len(toCon))
  <2>2. /\ IsText(now) /\ IsText(rest)
        /\ Joined(Joined(shown, stdoutbuf), toCon) = Joined(Joined(now, kept), rest)
        /\ IsPrefix(now, Joined(Joined(shown, stdoutbuf), toCon))
    BY <1>3, <2>1, Printing
  <2>. QED  BY <1>1, <1>2, <1>5, <2>2
<1> HIDE DEF text
<1>6. FullLines(text) \subseteq 1..Len(text) /\ TooLong(text) \subseteq 1..Len(text)
  BY <1>4 DEF FullLines, TooLong, IsText
<1>7. CASE ShowLines(text)
  <2> DEFINE k == Last0(FullLines(text))
  <2>1. k \in 0..Len(text) /\ \A j \in FullLines(text) : j <= k
    BY <1>4, <1>6, LastWithin
  <2>2. /\ shown' = Joined(shown, SubSeq(text, 1, k)) /\ stdoutbuf' = SubSeq(text, k + 1, Len(text))
        /\ cpc' = cpc
    BY <1>7 DEF ShowLines, Joined
  <2> HIDE DEF k
  <2>3. Shows(k)
    BY <1>5, <2>1, <2>2
  <2>4. /\ IsText(stdoutbuf')
        /\ \A j \in DOMAIN stdoutbuf' : k + j \in k+1..Len(text) /\ stdoutbuf'[j] = text[k + j]
    BY <1>4, <2>1, <2>2, SplitAt DEF IsText
  <2>5. \A j \in DOMAIN stdoutbuf' : stdoutbuf'[j].kind = "open"
    <3> TAKE j \in DOMAIN stdoutbuf'
    <3>1. k + j \in k+1..Len(text) /\ Len(text) \in Nat /\ k \in Nat
      BY <1>4, <2>1, <2>4 DEF IsText
    <3>2. k + j \notin FullLines(text) /\ k + j \in DOMAIN text
      BY <1>4, <2>1, <3>1 DEF FullLines, IsText
    <3>. QED  BY <2>4, <3>2 DEF FullLines
  <2>. QED  BY <1>2, <2>2, <2>3, <2>4, <2>5
<1>8. CASE ShowFails(text)
  <2> DEFINE some == {j \in FullLines(text) : j < Min(TooLong(text))}  k == Last0(some)
  <2>1. k \in 0..Len(text)
    BY <1>4, <1>6, LastWithin
  <2>2. shown' = Joined(shown, SubSeq(text, 1, k)) /\ stdoutbuf' = stdoutbuf /\ cpc' = "failed"
    BY <1>8 DEF ShowFails, Joined
  <2> HIDE DEF k
  <2>3. Shows(k)
    BY <1>5, <2>1, <2>2
  <2>. QED  BY <1>2, <2>2, <2>3
<1>. QED  BY <1>2, <1>7, <1>8

LEMMA ShownStep == ShownInv /\ [Next]_vars => ShownInv'
<1> SUFFICES ASSUME ShownInv, [Next]_vars PROVE ShownInv'
  OBVIOUS
<1>1. CASE Consoler
  BY <1>1, TextShown, ConsolerElsewhere, ElsewhereShown
<1>2. CASE MainLoop \/ Env
  BY <1>2, MainElsewhere, ElsewhereShown
<1>3. ASSUME NEW p \in Procs, ConsoleMsg(p) PROVE ShownInv'
  <2>1. CASE SayWrite(p)
    BY <2>1, WriteShown
  <2>2. CASE SayWait(p) \/ SayRefused(p) \/ SayBroken(p) \/ SayPost(p)
    <3>1. Elsewhere
      BY <2>2, NoMsgSet
         DEF ShownInv, Elsewhere, SayWait, SayRefused, GiveUp, SayBroken, Ends, SayPost, Said,
             con, pipes
    <3>. QED  BY <3>1, ElsewhereShown
  <2>. QED  BY <1>3, <2>1, <2>2 DEF ConsoleMsg
<1>4. CASE UNCHANGED vars
  <2>1. Elsewhere
    BY <1>4 DEF ShownInv, Elsewhere, vars, con, pipes, saying
  <2>. QED  BY <2>1, ElsewhereShown
<1>. QED  BY <1>1, <1>2, <1>3, <1>4 DEF Next

(* The messages of all processes are shown in the order of their writes,   *)
(* none that was not written, and a consoler that hangs up has shown all   *)
(* that have an end (consolemsg, consoler).                                *)
THEOREM ShownAsSaid == Spec => []MessagesShown
<1>1. ShownInv => MessagesShown
  <2> SUFFICES ASSUME ShownInv, cpc = "done", NEW i \in Len(shown)+1..Len(said)
               PROVE  said[i].kind = "open"
    BY DEF ShownInv, MessagesShown
  <2> USE DEF ShownInv
  <2>1. IsText(Joined(shown, stdoutbuf)) /\ Len(shown) \in Nat /\ Len(stdoutbuf) \in Nat
    BY TextConcat DEF IsText
  <2>2. said = shown \o stdoutbuf
    BY <2>1, ConcatEmptySeq DEF IsText, Joined
  <2>3. /\ Len(said) = Len(shown) + Len(stdoutbuf)
        /\ \A j \in 1..Len(shown) + Len(stdoutbuf) :
             said[j] = IF j <= Len(shown) THEN shown[j] ELSE stdoutbuf[j - Len(shown)]
    BY <2>2, ConcatProperties DEF IsText
  <2>4. i - Len(shown) \in DOMAIN stdoutbuf /\ said[i] = stdoutbuf[i - Len(shown)]
    <3>1. i \in 1..Len(shown) + Len(stdoutbuf) /\ ~(i <= Len(shown))
      BY <2>1, <2>3
    <3>2. i - Len(shown) \in 1..Len(stdoutbuf) /\ DOMAIN stdoutbuf = 1..Len(stdoutbuf)
      BY <2>1, <3>1 DEF IsText
    <3>. QED  BY <2>3, <3>1, <3>2
  <2>. QED  BY <2>4
<1>. QED  BY <1>1, ShownInit, ShownStep, PTL DEF Spec
-----------------------------------------------------------------------------
TerminalInv ==
  /\ kpc \in [Kids -> {"none", "run", "gone"}]
  /\ TerminalReset

LEMMA TerminalInit == Init => TerminalInv
BY DEF Init, TerminalInv, TerminalReset

(* Once nobody is left who holds the pipes, nobody comes back, and nothing *)
(* makes the terminal raw again.                                           *)
LEMMA TerminalStep == ShownInv /\ TerminalInv /\ [Next]_vars => TerminalInv'
<1> SUFFICES ASSUME ShownInv, TerminalInv, [Next]_vars PROVE TerminalInv'
  OBVIOUS
<1> USE DEF TerminalInv, TerminalReset, main, kids, term
<1>1. CASE ShowText
  <2>1. /\ cpc = "poll" /\ UNCHANGED <<mpc, kpc>>
        /\ cpc' = "poll" \/ (cpc' = "failed" /\ tty' = "cooked")
    <3>1. PICK text : ShowLines(text) \/ ShowFails(text)
      BY <1>1 DEF ShowText
    <3>2. cpc = "poll" /\ UNCHANGED <<mpc, kpc>>
      BY <1>1 DEF ShowText
    <3>3. cpc' = cpc \/ (cpc' = "failed" /\ tty' = "cooked")
      BY <3>1 DEF ShowLines, ShowFails
    <3>. QED  BY <3>2, <3>3
  <2>. QED  BY <2>1
<1>2. CASE Char \/ Backspace \/ Return \/ Escape \/ EscapeRead \/ StdinGone \/ SendLine
  BY <1>2 DEF Char, Backspace, Return, Escape, Key, EscapeRead, StdinGone, SendLine
<1>3. CASE BrokenPipe \/ HangUp \/ Fail
  <2>1. CASE BrokenPipe
    <3>1. mpc \in {"waiting", "gone", "killed"} /\ Running = {}
      BY <2>1 DEF BrokenPipe, Holders
    <3>. QED  BY <2>1, <3>1 DEF BrokenPipe, Running
  <2>2. CASE HangUp
    BY <2>2 DEF HangUp
  <2>3. CASE Fail
    BY <2>3 DEF Fail
  <2>. QED  BY <1>3, <2>1, <2>2, <2>3
<1>4. CASE MainLoop
  <2>1. CASE TakeLine
    <3>1. /\ mpc = "lines" /\ UNCHANGED <<mpc, cpc, tty>>
          /\ kpc' = kpc \/ \E k \in Kids : kpc' = [kpc EXCEPT ![k] = "run"]
      BY <2>1 DEF TakeLine, MainAt, ForkKid, con
    <3>. QED  BY <3>1
  <2>2. CASE ReadLines \/ LinesDone \/ Quits \/ ConsolerClosed \/ FreeAp \/ FreeCap \/ WaitPid
    BY <2>2 DEF ReadLines, LinesDone, Quits, ConsolerClosed, LeaveLoop, FreeAp, FreeCap,
                WaitPid, MainAt, con, Running
  <2>. QED  BY <1>4, <2>1, <2>2 DEF MainLoop
<1>5. ASSUME NEW p \in Procs, ConsoleMsg(p) \/ SayInterrupted(p) PROVE TerminalInv'
  <2>1. CASE SayBroken(p)
    <3>1. /\ UNCHANGED <<cpc, tty>>
          /\ \/ mpc' = "killed" /\ kpc' = kpc
             \/ mpc' = mpc /\ kpc' = [kpc EXCEPT ![p] = "gone"]
      <4>1. CASE p = Main
        BY <2>1, <4>1 DEF SayBroken, Ends, con
      <4>2. CASE p # Main
        BY <2>1, <4>2 DEF SayBroken, Ends, con
      <4>. QED  BY <4>1, <4>2
    <3>2. Running' \subseteq Running /\ kpc' \in [Kids -> {"none", "run", "gone"}]
      BY <3>1 DEF Running
    <3>. QED  BY <3>1, <3>2
  <2>2. CASE SayWait(p) \/ SayRefused(p) \/ SayWrite(p) \/ SayPost(p) \/ SayInterrupted(p)
    BY <2>2 DEF SayWait, SayRefused, SayInterrupted, GiveUp, SayWrite, SayPost, con, Running
  <2>. QED  BY <1>5, <2>1, <2>2 DEF ConsoleMsg
<1>6. CASE StdinEnds \/ (\E press \in Presses : PressKey(press)) \/ (\E kind \in Kinds : Reply(kind)) \/ ServerCloses
  BY <1>6 DEF StdinEnds, PressKey, Reply, ServerCloses, LeaveLoop, MainAt, con, Running
<1>7. ASSUME NEW k \in Kids, ReplyForks(k) \/ KidSays(k) \/ KidEnds(k) PROVE TerminalInv'
  <2>1. CASE ReplyForks(k)
    BY <2>1 DEF ReplyForks, ForkKid, MainAt, con
  <2>2. CASE KidSays(k)
    BY <2>2 DEF KidSays, con, Running
  <2>3. CASE KidEnds(k)
    BY <2>3 DEF KidEnds, Ends, con, Running
  <2>. QED  BY <1>7, <2>1, <2>2, <2>3
<1>8. CASE UNCHANGED vars
  BY <1>8 DEF vars, con, Running
<1>. QED  BY <1>1, <1>2, <1>3, <1>4, <1>5, <1>6, <1>7, <1>8 DEF Next, Consoler, Env

(* However the consoler ends, the terminal is reset, but for a line that   *)
(* it sends when main and all children have left (ttyreset, consoler.c).   *)
THEOREM ResetAtTheEnd == Spec => []TerminalReset
<1>1. Init => ShownInv /\ TerminalInv
  BY ShownInit, TerminalInit
<1>2. ShownInv /\ TerminalInv /\ [Next]_vars => (ShownInv /\ TerminalInv)'
  BY ShownStep, TerminalStep
<1>3. TerminalInv => TerminalReset
  BY DEF TerminalInv
<1>. QED  BY <1>1, <1>2, <1>3, PTL DEF Spec
-----------------------------------------------------------------------------
(* The lines that are typed.                                               *)
Line == Seq(Letters)
Keys == Letters \cup {"Return", "Backspace", "End"}
Edits == [lines : Seq(Line), cur : Line]
NoEdit == [lines |-> <<>>, cur |-> <<>>]

LEMMA EditKeyType ==
  ASSUME NEW e \in Edits, NEW c \in Keys
  PROVE  /\ EditKey(e, c) \in Edits
         /\ c \in Letters => EditKey(e, c) = [lines |-> e.lines, cur |-> Append(e.cur, c)]
         /\ EditKey(e, "Return") = [lines |-> Append(e.lines, e.cur), cur |-> <<>>]
         /\ EditKey(e, "Backspace") = [lines |-> e.lines, cur |-> SubSeq(e.cur, 1, Len(e.cur) - 1)]
         /\ EditKey(e, "End") = [lines |-> e.lines, cur |-> <<>>]
<1>1. PICK B : B = Line
  OBVIOUS
<1>2. Edits = [lines : Seq(B), cur : B] /\ <<>> \in B
  BY <1>1 DEF Edits, Line
<1>3. PICK L \in Seq(B), x \in B : e = [lines |-> L, cur |-> x]
  BY <1>2
<1>4. Append(L, x) \in Seq(B)
  BY AppendProperties
<1>5. c \in Letters => Append(x, c) \in B
  BY <1>1, AppendProperties DEF Line
<1>6. SubSeq(x, 1, Len(x) - 1) \in B
  BY <1>1 DEF Line
<1>7. /\ c \in Letters => EditKey(e, c) = [lines |-> L, cur |-> Append(x, c)]
      /\ EditKey(e, "Return") = [lines |-> Append(L, x), cur |-> <<>>]
      /\ EditKey(e, "Backspace") = [lines |-> L, cur |-> SubSeq(x, 1, Len(x) - 1)]
      /\ EditKey(e, "End") = [lines |-> L, cur |-> <<>>]
  BY <1>3 DEF EditKey, Letters
<1>8. e.lines = L /\ e.cur = x
  BY <1>3
<1>9. \A LL \in Seq(B) : \A y \in B : [lines |-> LL, cur |-> y] \in Edits
  BY <1>2
<1>10. EditKey(e, c) \in Edits
  <2>1. c \in Letters => EditKey(e, c) \in Edits
    BY <1>5, <1>7, <1>9
  <2>2. EditKey(e, "Return") \in Edits
    BY <1>2, <1>4, <1>7, <1>9
  <2>3. EditKey(e, "Backspace") \in Edits
    BY <1>6, <1>7, <1>9
  <2>4. EditKey(e, "End") \in Edits
    BY <1>2, <1>7, <1>9
  <2>. QED  BY <2>1, <2>2, <2>3, <2>4 DEF Keys
<1>. QED  BY <1>7, <1>8, <1>10

(* f[n] is what the first n keys make.                                     *)
EditParts(f, keys) ==
  /\ f \in [0..Len(keys) -> Edits]
  /\ f[0] = NoEdit
  /\ \A n \in 1..Len(keys) : f[n] = EditKey(f[n - 1], keys[n])
  /\ Edited(keys) = f[Len(keys)]

LEMMA EditedParts == ASSUME NEW keys \in Seq(Keys) PROVE \E f : EditParts(f, keys)
<1>1. PICK N \in Nat : N = Len(keys)
  OBVIOUS
<1>2. NoEdit \in Edits
  BY DEF NoEdit, Edits, Line
<1>3. \A n \in 1..N : keys[n] \in Keys
  BY <1>1
<1>4. PICK step \in [(1..N) \X Edits -> Edits] :
        \A n \in 1..N : \A e \in Edits : step[<<n, e>>] = EditKey(e, keys[n])
  <2> DEFINE st == [p \in (1..N) \X Edits |-> EditKey(p[2], keys[p[1]])]
  <2>1. \A p \in (1..N) \X Edits : EditKey(p[2], keys[p[1]]) \in Edits
    BY <1>3, EditKeyType
  <2>2. st \in [(1..N) \X Edits -> Edits]
    BY <2>1
  <2>3. \A n \in 1..N : \A e \in Edits : st[<<n, e>>] = EditKey(e, keys[n])
    OBVIOUS
  <2> HIDE DEF st
  <2>. QED  BY <2>2, <2>3
<1>5. PICK h : IsRec(h, N, Edits, NoEdit, step)
  BY <1>2, Recursion
<1> DEFINE IsEdit(f) == f = [n \in 0..N |-> IF n = 0 THEN NoEdit ELSE EditKey(f[n - 1], keys[n])]
<1>6. IsEdit(h)
  <2>1. h \in [0..N -> Edits] /\ h[0] = NoEdit
    BY <1>5 DEF IsRec
  <2>2. ASSUME NEW n \in 1..N PROVE h[n] = EditKey(h[n - 1], keys[n])
    <3>1. n - 1 \in 0..N
      OBVIOUS
    <3>2. h[n - 1] \in Edits /\ h[n] = step[<<n, h[n - 1]>>]
      BY <1>5, <2>1, <3>1 DEF IsRec
    <3>. QED  BY <1>4, <3>2
  <2>3. \A n \in 0..N : n = 0 \/ n \in 1..N
    OBVIOUS
  <2>. QED  BY <2>1, <2>2, <2>3
<1>7. PICK f : IsEdit(f) /\ Edited(keys) = f[N]
  <2>1. IsEdit(CHOOSE f : IsEdit(f))
    BY <1>6
  <2>2. Edited(keys) = (CHOOSE f : IsEdit(f))[N]
    BY <1>1 DEF Edited, NoEdit
  <2>. QED  BY <2>1, <2>2
<1>8. f[0] = NoEdit /\ \A n \in 1..N : f[n] = EditKey(f[n - 1], keys[n])
  <2>1. 0 \in 0..N /\ \A n \in 1..N : n \in 0..N /\ n # 0
    OBVIOUS
  <2>. QED  BY <1>7, <2>1
<1> DEFINE T == {k \in 0..N : f[k] \in Edits}
<1>9. 0 \in T
  BY <1>2, <1>8, 0 \in 0..N
<1>10. ASSUME NEW n \in 0..N-1, n \in T PROVE n + 1 \in T
  <2>1. n + 1 \in 1..N /\ (n + 1) - 1 = n /\ f[n] \in Edits /\ n + 1 \in 0..N
    BY <1>10
  <2>2. f[n + 1] = EditKey(f[n], keys[n + 1])
    BY <1>8, <2>1
  <2>3. f[n + 1] \in Edits
    BY <1>3, <2>1, <2>2, EditKeyType
  <2>. QED  BY <2>1, <2>3
<1> HIDE DEF T
<1>11. \A n \in 0..N : n \in T
  BY <1>9, <1>10, InductionTo
<1>12. f \in [0..N -> Edits]
  <2>1. f = [n \in 0..N |-> f[n]]
    BY <1>7
  <2>. QED  BY <1>11, <2>1 DEF T
<1>. QED  BY <1>1, <1>7, <1>8, <1>12 DEF EditParts

LEMMA EditedType == ASSUME NEW keys \in Seq(Keys) PROVE Edited(keys) \in Edits
<1>1. PICK f : EditParts(f, keys)
  BY EditedParts
<1>. QED  BY <1>1 DEF EditParts

LEMMA EditedEmpty == Edited(<<>>) = NoEdit
<1>1. PICK f : EditParts(f, <<>>)
  BY EditedParts, <<>> \in Seq(Keys)
<1>. QED  BY <1>1 DEF EditParts

LEMMA EditedAppend ==
  ASSUME NEW keys \in Seq(Keys), NEW c \in Keys
  PROVE  Edited(Append(keys, c)) = EditKey(Edited(keys), c)
<1>1. PICK N \in Nat : N = Len(keys)
  OBVIOUS
<1>2. PICK all : all = Append(keys, c)
  OBVIOUS
<1>3. /\ all \in Seq(Keys) /\ Len(all) = N + 1 /\ all[N + 1] = c
      /\ \A n \in 1..N : all[n] = keys[n]
  BY <1>1, <1>2, AppendProperties
<1>4. PICK f : EditParts(f, keys)
  BY EditedParts
<1>5. PICK g : EditParts(g, all)
  BY <1>3, EditedParts
<1> DEFINE T == {n \in 0..N : f[n] = g[n]}
<1>6. 0 \in T
  BY <1>4, <1>5 DEF EditParts
<1>7. ASSUME NEW n \in 0..N-1, n \in T PROVE n + 1 \in T
  <2>1. n + 1 \in 1..N /\ n + 1 \in 1..N+1 /\ (n + 1) - 1 = n /\ all[n + 1] = keys[n + 1]
    BY <1>3
  <2>. QED  BY <1>1, <1>3, <1>4, <1>5, <1>7, <2>1 DEF EditParts
<1> HIDE DEF T
<1>8. \A n \in 0..N : n \in T
  BY <1>6, <1>7, InductionTo
<1>9. f[N] = g[N] /\ N + 1 \in 1..N+1 /\ (N + 1) - 1 = N
  BY <1>8 DEF T
<1>. QED  BY <1>1, <1>2, <1>3, <1>4, <1>5, <1>9 DEF EditParts

LEMMA NonBlankFacts ==
  ASSUME NEW L \in Seq(Line)
  PROVE  /\ NonBlank(L) \in Seq(Line) /\ NonBlank(<<>>) = <<>>
         /\ \A x \in Line : /\ NonBlank(<<x>>) \in Seq(Line)
                            /\ NonBlank(Append(L, x)) = NonBlank(L) \o NonBlank(<<x>>)
<1>1. NonBlank(L) \in Seq(Line) /\ NonBlank(<<>>) = <<>>
  BY OnlySeq, OnlyEmpty DEF NonBlank
<1>2. ASSUME NEW x \in Line
      PROVE  /\ NonBlank(<<x>>) \in Seq(Line)
             /\ NonBlank(Append(L, x)) = NonBlank(L) \o NonBlank(<<x>>)
  <2>1. PICK B : B = Line
    OBVIOUS
  <2>2. PICK some : some = Seq(Letters) \ {<<>>}
    OBVIOUS
  <2>3. PICK one : one = <<x>>
    OBVIOUS
  <2>4. one \in Seq(B) /\ L \in Seq(B)
    BY <2>1, <2>3
  <2>5. Append(L, x) = L \o one
    BY <2>1, <2>3, AppendIsConcat
  <2>6. Only(L \o one, some) = Only(L, some) \o Only(one, some)
    BY <2>4, OnlyConcat
  <2>7. Only(one, some) \in Seq(B)
    BY <2>4, OnlySeq
  <2>. QED  BY <2>1, <2>2, <2>3, <2>5, <2>6, <2>7 DEF NonBlank
<1>. QED  BY <1>1, <1>2

(* The line the consoler is about to write.                                *)
Pending == IF cpc \in {"send", "killed"} THEN <<stdinbuf>> ELSE <<>>

(* A line is where the consoler or main left it: typed, written, read or   *)
(* taken.  While the consoler edits, its buffer is the line that is being  *)
(* typed, and so is the prompt for as long as somebody can type; main that *)
(* waits has no line left.                                                 *)
TypedInv ==
  /\ cpc \in {"poll", "esc", "send", "failed", "done", "dead", "killed"}
  /\ heard \in Seq(Keys) /\ stdinbuf \in Line /\ prompt \in Line
  /\ took \in Seq(Line) /\ combuf \in Seq(Line) /\ fromCon \in Seq(Line)
  /\ took \o combuf \o NonBlank(fromCon) \o NonBlank(Pending) = NonBlank(Edited(heard).lines)
  /\ cpc \in {"poll", "esc"} => stdinbuf = Edited(heard).cur
  /\ cpc \in {"poll", "esc"} /\ eof = "open" => prompt = Edited(heard).cur
  /\ cpc = "send" => prompt = <<>> /\ Edited(heard).cur = <<>>
  /\ mpc = "poll" => combuf = <<>>

LEMMA TypedInit == Init => TypedInv
<1> SUFFICES ASSUME Init PROVE TypedInv
  OBVIOUS
<1>1. <<>> \in Seq(Keys) /\ <<>> \in Line /\ <<>> \in Seq(Line) /\ <<>> \o <<>> = <<>>
  BY ConcatEmptySeq DEF Line
<1>2. NonBlank(<<>>) = <<>> /\ Edited(<<>>) = NoEdit
  BY <1>1, NonBlankFacts, EditedEmpty
<1>3. NoEdit.lines = <<>> /\ NoEdit.cur = <<>>
  BY DEF NoEdit
<1>. QED  BY <1>1, <1>2, <1>3 DEF Init, TypedInv, Pending

(* A step that moves no line and takes no key.                             *)
Still ==
  /\ UNCHANGED <<heard, stdinbuf, took, combuf, fromCon>>
  /\ eof' = eof \/ eof' # "open"
  /\ \/ UNCHANGED <<cpc, prompt>>
     \/ cpc = "poll" /\ cpc' = "poll" /\ prompt' = stdinbuf
     \/ cpc = "poll" /\ cpc' = "esc" /\ prompt' = prompt
     \/ cpc = "esc" /\ cpc' = "poll" /\ prompt' = prompt
     \/ cpc = "send" /\ cpc' = "killed" /\ prompt' = prompt
     \/ cpc = "poll" /\ cpc' \in {"failed", "done"} /\ prompt' = <<>>
     \/ cpc = "failed" /\ cpc' = "dead" /\ prompt' = prompt
  /\ mpc' = mpc \/ mpc' # "poll" \/ combuf = <<>>

LEMMA StillTyped == ASSUME TypedInv, Still PROVE TypedInv'
<1>1. <<>> \in Line
  BY DEF Line
<1>2. Pending' = Pending /\ NonBlank(Pending)' = NonBlank(Pending')
  BY DEF TypedInv, Still, Pending
<1>. QED  BY <1>1, <1>2 DEF TypedInv, Still

LEMMA KeyTyped ==
  ASSUME TypedInv, Char \/ Backspace \/ Return \/ StdinGone PROVE TypedInv'
<1> USE DEF TypedInv
<1>1. /\ cpc = "poll" /\ UNCHANGED <<took, combuf, fromCon, mpc, eof>>
      /\ stdinbuf = Edited(heard).cur /\ (eof = "open" => prompt = stdinbuf)
  BY DEF Char, Backspace, Return, Key, StdinGone, pipes, main, term
<1>2. PICK e \in Edits : e = Edited(heard)
  BY EditedType
<1>3. e.lines \in Seq(Line) /\ <<>> \in Line /\ <<>> \in Seq(Line)
  BY DEF Edits, Line
<1> DEFINE a == took \o combuf \o NonBlank(fromCon)
<1>4. a \in Seq(Line) /\ NonBlank(<<>>) = <<>> /\ Pending = <<>>
  BY <1>1, NonBlankFacts, ConcatProperties DEF Pending
<1>5. a = NonBlank(e.lines)
  BY <1>2, <1>4, ConcatEmptySeq
<1>6. CASE Char
  <2>1. PICK c \in Letters : /\ stdinbuf' = Append(stdinbuf, c) /\ prompt' = Append(prompt, c)
                            /\ heard' = Append(heard, c) /\ cpc' = cpc
    BY <1>6 DEF Char
  <2>2. c \in Keys
    BY DEF Keys
  <2>3. Edited(heard') = EditKey(e, c) /\ heard' \in Seq(Keys)
    BY <1>2, <2>1, <2>2, EditedAppend, AppendProperties
  <2>4. EditKey(e, c) = [lines |-> e.lines, cur |-> Append(e.cur, c)]
    BY <2>2, EditKeyType
  <2>5. stdinbuf' \in Line /\ prompt' \in Line
    BY <1>1, <2>1, AppendProperties DEF Line
  <2>6. Pending' = <<>>
    BY <1>1, <2>1 DEF Pending
  <2>7. Edited(heard').lines = e.lines /\ Edited(heard').cur = stdinbuf'
        /\ (eof = "open" => prompt' = stdinbuf')
    BY <1>1, <1>2, <2>1, <2>3, <2>4
  <2>. QED  BY <1>1, <1>2, <1>4, <2>1, <2>3, <2>5, <2>6, <2>7
<1>7. CASE Backspace
  <2>1. /\ stdinbuf' = SubSeq(stdinbuf, 1, Len(stdinbuf) - 1)
        /\ prompt' = IF stdinbuf = <<>> THEN prompt ELSE stdinbuf'
        /\ heard' = Append(heard, "Backspace") /\ cpc' = cpc
    BY <1>7 DEF Backspace
  <2>2. "Backspace" \in Keys
    BY DEF Keys
  <2>3. Edited(heard') = EditKey(e, "Backspace") /\ heard' \in Seq(Keys)
    BY <1>2, <2>1, <2>2, EditedAppend, AppendProperties
  <2>4. EditKey(e, "Backspace") = [lines |-> e.lines, cur |-> SubSeq(e.cur, 1, Len(e.cur) - 1)]
    BY <2>2, EditKeyType
  <2>5. stdinbuf' \in Line /\ (stdinbuf = <<>> => stdinbuf' = <<>>)
    BY <2>1 DEF Line
  <2>6. Pending' = <<>>
    BY <1>1, <2>1 DEF Pending
  <2>7. Edited(heard').lines = e.lines /\ Edited(heard').cur = stdinbuf'
        /\ (eof = "open" => prompt' = stdinbuf')
    BY <1>1, <1>2, <2>1, <2>3, <2>4, <2>5, SMTT(20)
  <2>. QED  BY <1>1, <1>2, <1>4, <2>1, <2>3, <2>5, <2>6, <2>7
<1>8. CASE Return
  <2>1. /\ stdinbuf' = stdinbuf /\ prompt' = <<>>
        /\ heard' = Append(heard, "Return") /\ cpc' = "send"
    BY <1>8 DEF Return
  <2>2. "Return" \in Keys
    BY DEF Keys
  <2>3. Edited(heard') = EditKey(e, "Return") /\ heard' \in Seq(Keys)
    BY <1>2, <2>1, <2>2, EditedAppend, AppendProperties
  <2>4. EditKey(e, "Return") = [lines |-> Append(e.lines, e.cur), cur |-> <<>>]
    BY <2>2, EditKeyType
  <2>5. Pending' = <<stdinbuf>>
    BY <2>1 DEF Pending
  <2>6. Edited(heard').lines = Append(e.lines, stdinbuf) /\ Edited(heard').cur = <<>>
    BY <1>1, <1>2, <2>3, <2>4
  <2>7. NonBlank(Append(e.lines, stdinbuf)) = NonBlank(e.lines) \o NonBlank(<<stdinbuf>>)
    BY <1>3, NonBlankFacts
  <2>8. a' = a
    BY <1>1
  <2>9. a' \o NonBlank(Pending') = NonBlank(Edited(heard').lines)
    BY <1>5, <2>5, <2>6, <2>7, <2>8
  <2>. QED  BY <1>1, <1>3, <2>1, <2>3, <2>6, <2>9
<1>9. CASE StdinGone
  <2>1. /\ stdinbuf' = <<>> /\ prompt' = prompt /\ eof = "end"
        /\ heard' = Append(heard, "End") /\ cpc' = cpc
    BY <1>9 DEF StdinGone
  <2>2. "End" \in Keys
    BY DEF Keys
  <2>3. Edited(heard') = EditKey(e, "End") /\ heard' \in Seq(Keys)
    BY <1>2, <2>1, <2>2, EditedAppend, AppendProperties
  <2>4. EditKey(e, "End") = [lines |-> e.lines, cur |-> <<>>]
    BY <2>2, EditKeyType
  <2>5. Pending' = <<>>
    BY <1>1, <2>1 DEF Pending
  <2>6. Edited(heard').lines = e.lines /\ Edited(heard').cur = stdinbuf' /\ eof' # "open"
    BY <1>1, <2>1, <2>3, <2>4
  <2>. QED  BY <1>1, <1>2, <1>3, <1>4, <2>1, <2>3, <2>5, <2>6
<1>. QED  BY <1>6, <1>7, <1>8, <1>9

LEMMA SendTyped == ASSUME TypedInv, SendLine PROVE TypedInv'
<1> USE DEF TypedInv
<1>1. /\ cpc = "send" /\ cpc' = "poll" /\ fromCon' = Append(fromCon, stdinbuf) /\ stdinbuf' = <<>>
      /\ UNCHANGED <<took, combuf, heard, prompt, mpc, eof>>
  BY DEF SendLine, main, term
<1>2. <<>> \in Line /\ <<>> \in Seq(Line) /\ fromCon' \in Seq(Line)
  BY <1>1, AppendProperties DEF Line
<1>3. Pending = <<stdinbuf>> /\ Pending' = <<>>
  BY <1>1 DEF Pending
<1> DEFINE a == took \o combuf  b == NonBlank(fromCon)  x == NonBlank(<<stdinbuf>>)
<1>4. /\ a \in Seq(Line) /\ b \in Seq(Line) /\ x \in Seq(Line) /\ NonBlank(<<>>) = <<>>
      /\ NonBlank(fromCon') = b \o x
  BY <1>1, NonBlankFacts, ConcatProperties
<1>5. a \o b \o x = NonBlank(Edited(heard).lines) /\ a' = a
  BY <1>1, <1>3
<1> HIDE DEF a, b, x
<1>6. a \o (b \o x) = a \o b \o x /\ a \o b \o x \in Seq(Line)
  <2> HIDE DEF TypedInv
  <2>1. PICK aa \in Seq(Line), bb \in Seq(Line), xx \in Seq(Line) : aa = a /\ bb = b /\ xx = x
    BY <1>4
  <2>2. aa \o (bb \o xx) = aa \o bb \o xx /\ aa \o bb \o xx \in Seq(Line)
    BY Regroup
  <2>. QED  BY <2>1, <2>2
<1>7. a' \o NonBlank(fromCon') \o NonBlank(Pending') = NonBlank(Edited(heard).lines)
  BY <1>3, <1>4, <1>5, <1>6, ConcatEmptySeq
<1>. QED  BY <1>1, <1>2, <1>7 DEF a

LEMMA ReadTyped == ASSUME TypedInv, ReadLines PROVE TypedInv'
<1> USE DEF TypedInv
<1>1. /\ combuf = <<>> /\ combuf' = NonBlank(fromCon) /\ fromCon' = <<>> /\ mpc' = "lines"
      /\ UNCHANGED <<took, heard, prompt, stdinbuf, cpc, eof>>
  BY DEF ReadLines, MainAt, con, term
<1>2. Pending' = Pending /\ Pending \in Seq(Line)
  <2>1. <<stdinbuf>> \in Seq(Line) /\ <<>> \in Seq(Line)
    OBVIOUS
  <2>. QED  BY <1>1, <2>1 DEF Pending
<1>3. NonBlank(fromCon) \in Seq(Line) /\ NonBlank(<<>>) = <<>>
  BY NonBlankFacts
<1>4. took \o <<>> = took /\ (took \o NonBlank(fromCon)) \o <<>> = took \o NonBlank(fromCon)
  BY <1>3, ConcatEmptySeq, ConcatProperties
<1>. QED  BY <1>1, <1>2, <1>3, <1>4

LEMMA TakeTyped == ASSUME TypedInv, TakeLine PROVE TypedInv'
<1> USE DEF TypedInv
<1>1. /\ combuf # <<>> /\ combuf' = Tail(combuf) /\ took' = Append(took, Head(combuf))
      /\ UNCHANGED <<mpc, heard, prompt, stdinbuf, cpc, fromCon, eof>> /\ mpc = "lines"
  BY DEF TakeLine, MainAt, con, pipes, term
<1>2. Pending' = Pending
  BY <1>1 DEF Pending
<1>3. took' \in Seq(Line) /\ combuf' \in Seq(Line) /\ took' \o combuf' = took \o combuf
  BY <1>1, MoveOne
<1>. QED  BY <1>1, <1>2, <1>3

LEMMA OthersStill ==
  ASSUME TypedInv, [Next]_vars,
         ~(Char \/ Backspace \/ Return \/ StdinGone \/ SendLine \/ ReadLines \/ TakeLine)
  PROVE  Still
<1> USE DEF Still, con, pipes, main, term
<1>1. CASE ShowText
  <2>1. PICK text : ShowLines(text) \/ ShowFails(text)
    BY <1>1 DEF ShowText
  <2>2. cpc = "poll" /\ UNCHANGED <<heard, stdinbuf, took, combuf, fromCon, mpc, eof>>
    BY <1>1 DEF ShowText
  <2>. QED  BY <2>1, <2>2 DEF ShowLines, ShowFails
<1>2. CASE Escape
  BY <1>2 DEF Escape, Key
<1>3. CASE EscapeRead \/ BrokenPipe \/ HangUp \/ Fail
  BY <1>3 DEF EscapeRead, BrokenPipe, HangUp, Fail
<1>4. CASE LinesDone \/ Quits \/ ConsolerClosed \/ ServerCloses
  BY <1>4 DEF LinesDone, Quits, ConsolerClosed, ServerCloses, LeaveLoop
<1>5. CASE FreeAp \/ FreeCap \/ WaitPid
  BY <1>5 DEF FreeAp, FreeCap, WaitPid
<1>6. ASSUME NEW p \in Procs, ConsoleMsg(p) \/ SayInterrupted(p) PROVE Still
  <2>1. CASE SayBroken(p)
    <3>1. UNCHANGED <<con, combuf, took, fromCon, eof>>
      BY <2>1 DEF SayBroken, Ends
    <3>2. mpc' = mpc \/ mpc' # "poll"
      BY <2>1 DEF SayBroken, Ends
    <3>. QED  BY <3>1, <3>2
  <2>2. CASE SayWait(p) \/ SayRefused(p) \/ SayWrite(p) \/ SayPost(p) \/ SayInterrupted(p)
    BY <2>2 DEF SayWait, SayRefused, SayInterrupted, GiveUp, SayWrite, SayPost
  <2>. QED  BY <1>6, <2>1, <2>2 DEF ConsoleMsg
<1>7. CASE StdinEnds \/ (\E press \in Presses : PressKey(press)) \/ (\E kind \in Kinds : Reply(kind))
  BY <1>7 DEF StdinEnds, PressKey, Reply
<1>8. ASSUME NEW k \in Kids, ReplyForks(k) \/ KidSays(k) \/ KidEnds(k) PROVE Still
  <2>1. CASE ReplyForks(k) \/ KidSays(k)
    BY <2>1 DEF ReplyForks, KidSays
  <2>2. CASE KidEnds(k)
    <3>1. UNCHANGED <<con, combuf, took, fromCon, eof>>
      BY <2>2 DEF KidEnds, Ends
    <3>2. mpc' = mpc \/ mpc' # "poll"
      BY <2>2 DEF KidEnds, Ends
    <3>. QED  BY <3>1, <3>2
  <2>. QED  BY <1>8, <2>1, <2>2
<1>9. CASE UNCHANGED vars
  BY <1>9 DEF vars
<1>. QED  BY <1>1, <1>2, <1>3, <1>4, <1>5, <1>6, <1>7, <1>8, <1>9 DEF Next, Consoler, MainLoop, Env

(* Every line that is typed reaches main once, in its order and as it was  *)
(* edited, and the prompt shows what was typed so far for as long as       *)
(* somebody can type, whatever is printed in between and however long the  *)
(* pipes stay full (consoler.c, the loop of main in client.c).             *)
THEOREM TypedAsSent == Spec => []TypedLinesArrive
<1>1. TypedInv /\ [Next]_vars => TypedInv'
  <2> SUFFICES ASSUME TypedInv, [Next]_vars PROVE TypedInv'
    OBVIOUS
  <2>. QED  BY KeyTyped, SendTyped, ReadTyped, TakeTyped, OthersStill, StillTyped
<1>2. TypedInv => TypedLinesArrive
  BY DEF TypedInv, TypedLinesArrive, Pending
<1>. QED  BY <1>1, <1>2, TypedInit, PTL DEF Spec
=============================================================================
