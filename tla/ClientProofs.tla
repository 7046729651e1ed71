---------------------------- MODULE ClientProofs ----------------------------
(***************************************************************************)
(* Proofs about the main loop of the client, for any number of lines of    *)
(* the server and of the user, and about its table of children.            *)
(***************************************************************************)
EXTENDS ClientMain, ChildTable, SequenceLemmas, TLAPS

Pieces == ServerPieces \cup UserPieces

LEMMA PieceTypes ==
  /\ \A r \in Reply : /\ Piece("server", r, "head") \in ServerPieces
                      /\ Piece("server", r, "tail") \in ServerPieces
  /\ \A i \in Input : Piece("user", i, "tail") \in UserPieces
  /\ \A p \in ServerPieces : p.from = "server" /\ p.line \in Reply /\ p.part \in {"head", "tail"}
  /\ \A p \in UserPieces : p.from = "user" /\ p.line \in Input /\ p.part = "tail"
  /\ UserPieces \cap ServerPieces = {}
BY DEF Piece, UserPieces, ServerPieces

(* A line of combuf ends at its first piece that ends one.                 *)
LEMMA FirstLine ==
  ASSUME combuf \in Seq(Pieces), LineEnd # {}
  PROVE  \E n \in 1..Len(combuf) :
           /\ NextLine = SubSeq(combuf, 1, n) /\ NextLine \in Seq(Pieces)
           /\ Len(NextLine) = n /\ Head(NextLine) = combuf[1] /\ Last(NextLine) = combuf[n]
           /\ combuf[n].part = "tail" /\ \A k \in 1..n-1 : combuf[k].part = "head"
<1>1. LineEnd \in SUBSET Nat /\ LineEnd \subseteq 1..Len(combuf)
  BY DEF LineEnd
<1>2. PICK n \in LineEnd : \A k \in LineEnd : n <= k
  BY <1>1, LeastOfSome
<1>3. (CHOOSE k \in LineEnd : \A j \in LineEnd : k <= j) = n
  <2>1. \A k \in LineEnd : (\A j \in LineEnd : k <= j) => k = n
    <3> TAKE k \in LineEnd
    <3> HAVE \A j \in LineEnd : k <= j
    <3>1. k <= n /\ n <= k /\ k \in Nat /\ n \in Nat
      BY <1>1, <1>2
    <3>. QED  BY <3>1
  <2>. QED  BY <1>2, <2>1
<1>4. NextLine = SubSeq(combuf, 1, n)
  BY <1>3 DEF NextLine
<1>5. n \in 1..Len(combuf) /\ combuf[n].part = "tail"
  BY <1>1 DEF LineEnd
<1>6. \A k \in 1..n-1 : combuf[k].part = "head"
  <2> TAKE k \in 1..n-1
  <2>1. k \in 1..Len(combuf) /\ ~(n <= k)
    BY <1>5
  <2>2. k \notin LineEnd /\ combuf[k] \in Pieces
    BY <1>2, <2>1
  <2>. QED  BY <2>1, <2>2, PieceTypes DEF LineEnd, Pieces
<1>7. PICK l : l = SubSeq(combuf, 1, n)
  OBVIOUS
<1>8. l \in Seq(Pieces) /\ Len(l) = n /\ \A k \in 1..n : l[k] = combuf[k]
  BY <1>5, <1>7, SubSeqProperties
<1>9. Head(l) = combuf[1] /\ Last(l) = combuf[n]
  BY <1>5, <1>8 DEF Last
<1>. QED  BY <1>4, <1>5, <1>6, <1>7, <1>8, <1>9
-----------------------------------------------------------------------------
(* What the user typed, as it is on its way: taken, in combuf or in infd.  *)
OnceInv ==
  /\ typed \in Seq(Input)
  /\ took \in Seq(Seq(Pieces)) /\ combuf \in Seq(Pieces)
  /\ srv \in Seq(ServerPieces) /\ late \in Seq(ServerPieces) /\ usr \in Seq(UserPieces)
  /\ LET all == FromUser(FlattenSeq(took) \o combuf) \o usr
     IN  /\ Len(all) = Len(typed)
         /\ \A k \in 1..Len(typed) : all[k].line = typed[k]

LEMMA FromUserFacts ==
  ASSUME NEW s \in Seq(Pieces), NEW t \in Seq(Pieces)
  PROVE  /\ FromUser(s) \in Seq(Pieces) /\ FromUser(s \o t) = FromUser(s) \o FromUser(t)
         /\ t \in Seq(UserPieces) => FromUser(t) = t
         /\ t \in Seq(ServerPieces) => FromUser(t) = <<>>
<1>1. FromUser(s) = Only(s, UserPieces) /\ FromUser(t) = Only(t, UserPieces)
      /\ FromUser(s \o t) = Only(s \o t, UserPieces)
  BY DEF FromUser
<1>2. Only(s, UserPieces) \in Seq(Pieces)
  BY OnlySeq
<1>3. Only(s \o t, UserPieces) = Only(s, UserPieces) \o Only(t, UserPieces)
  BY OnlyConcat
<1>4. t \in Seq(UserPieces) => Only(t, UserPieces) = t
  BY OnlyAll
<1>5. t \in Seq(ServerPieces) => Only(t, UserPieces) = <<>>
  BY PieceTypes, OnlyNone
<1>. QED  BY <1>1, <1>2, <1>3, <1>4, <1>5

LEMMA MorePieces ==
  ASSUME NEW s PROVE (s \in Seq(UserPieces) \/ s \in Seq(ServerPieces)) => s \in Seq(Pieces)
BY DEF Pieces

LEMMA OnceInit == Init => OnceInv
<1> SUFFICES ASSUME Init PROVE OnceInv
  OBVIOUS
<1>1. FlattenSeq(<<>>) = <<>> /\ <<>> \o <<>> = <<>> /\ FromUser(<<>>) = <<>>
  BY FlattenEmpty, ConcatEmptySeq, EmptySeq, OnlyEmpty DEF FromUser
<1>2. /\ <<>> \in Seq(Input) /\ <<>> \in Seq(Seq(Pieces)) /\ <<>> \in Seq(Pieces)
      /\ <<>> \in Seq(ServerPieces) /\ <<>> \in Seq(UserPieces) /\ Len(<<>>) = 0
  OBVIOUS
<1>. QED  BY <1>1, <1>2 DEF Init, OnceInv

LEMMA SendOnce ==
  ASSUME OnceInv, (\E r \in Replies : ServerSends(r)) \/ TailArrives PROVE OnceInv'
<1>1. UNCHANGED <<typed, took, combuf, usr>>
  BY DEF ServerSends, TailArrives, main
<1>2. srv' \in Seq(ServerPieces) /\ late' \in Seq(ServerPieces)
  <2>1. CASE TailArrives
    BY <2>1 DEF TailArrives, OnceInv
  <2>2. ASSUME NEW r \in Replies, ServerSends(r) PROVE srv' \in Seq(ServerPieces) /\ late' \in Seq(ServerPieces)
    <3>1. r \in Reply
      BY ClientMainAssumption
    <3>2. PICK h \in ServerPieces, t \in ServerPieces : Server(r) = <<h, t>>
      BY <3>1, PieceTypes DEF Server
    <3>3. Server(r)[1] = h /\ Server(r)[2] = t /\ Server(r) \in Seq(ServerPieces) /\ <<t>> \in Seq(ServerPieces)
      BY <3>2
    <3>4. srv \o Server(r) \in Seq(ServerPieces) /\ Append(srv, h) \in Seq(ServerPieces)
      BY <3>3, ConcatProperties, AppendProperties DEF OnceInv
    <3>. QED  BY <2>2, <3>3, <3>4 DEF ServerSends, OnceInv
  <2>. QED  BY <2>1, <2>2
<1>. QED  BY <1>1, <1>2 DEF OnceInv

LEMMA TypeOnce ==
  ASSUME OnceInv, NEW i \in Inputs, UserTypes(i) PROVE OnceInv'
<1>0. /\ typed \in Seq(Input)
      /\ took \in Seq(Seq(Pieces)) /\ combuf \in Seq(Pieces)
      /\ srv \in Seq(ServerPieces) /\ late \in Seq(ServerPieces) /\ usr \in Seq(UserPieces)
  BY DEF OnceInv
<1>1. /\ typed' = Append(typed, i) /\ usr' = usr \o User(i)
      /\ UNCHANGED <<took, combuf, srv, late>>
  BY DEF UserTypes, main
<1>2. PICK p \in UserPieces : p = Piece("user", i, "tail") /\ p.line = i
  BY ClientMainAssumption, PieceTypes DEF Piece
<1>3. usr' = Append(usr, p) /\ usr' \in Seq(UserPieces)
  <2>1. User(i) = <<p>> /\ <<p>> \in Seq(UserPieces)
    BY <1>2 DEF User
  <2>2. Append(usr, p) = usr \o <<p>>
    BY <1>0, AppendIsConcat
  <2>3. Append(usr, p) \in Seq(UserPieces)
    BY <1>0, AppendProperties
  <2>. QED  BY <1>1, <2>1, <2>2, <2>3
<1>4. typed' \in Seq(Input)
  BY <1>0, <1>1, ClientMainAssumption, AppendProperties
<1> DEFINE a == FromUser(FlattenSeq(took) \o combuf)
<1>5. a \in Seq(Pieces) /\ usr \in Seq(Pieces) /\ p \in Pieces /\ a' = a
  <2>1. FlattenSeq(took) \in Seq(Pieces)
    BY <1>0, FlattenIsSeq
  <2>2. FlattenSeq(took) \o combuf \in Seq(Pieces)
    BY <1>0, <2>1, ConcatProperties
  <2>. QED  BY <1>0, <1>1, <2>2, FromUserFacts, MorePieces DEF Pieces
<1>6. Len(a \o usr) = Len(typed) /\ \A k \in 1..Len(typed) : (a \o usr)[k].line = typed[k]
  BY DEF OnceInv
<1> HIDE DEF a
<1>7. PICK all \in Seq(Pieces) : all = a \o usr
  BY <1>5, ConcatProperties
<1>8. a \o usr' = Append(all, p)
  BY <1>3, <1>5, <1>7
<1>9. /\ Len(Append(all, p)) = Len(typed')
      /\ \A k \in 1..Len(typed') : Append(all, p)[k].line = typed'[k]
  <2>1. PICK N \in Nat : N = Len(typed)
    BY <1>0
  <2>2. PICK both \in Seq(Pieces) : both = Append(all, p)
    BY <1>5, <1>7, AppendProperties
  <2>3. Len(both) = N + 1 /\ both[N + 1] = p /\ \A k \in 1..N : both[k] = all[k]
    BY <1>6, <1>7, <2>1, <2>2, AppendProperties
  <2>4. /\ Len(typed') = N + 1 /\ typed'[N + 1] = i /\ \A k \in 1..N : typed'[k] = typed[k]
        /\ i \in Input
    BY <1>0, <1>1, <2>1, ClientMainAssumption, AppendProperties
  <2>5. \A k \in 1..N+1 : k \in 1..N \/ k = N + 1
    OBVIOUS
  <2>6. \A k \in 1..N : all[k].line = typed[k]
    BY <1>6, <1>7, <2>1
  <2>. QED  BY <1>2, <2>2, <2>3, <2>4, <2>5, <2>6
<1>. QED  BY <1>0, <1>1, <1>3, <1>4, <1>5, <1>8, <1>9 DEF a, OnceInv

LEMMA ReadOnce ==
  ASSUME OnceInv, ReadServer \/ ReadUser PROVE OnceInv'
<1>0. /\ typed \in Seq(Input)
      /\ took \in Seq(Seq(Pieces)) /\ combuf \in Seq(Pieces)
      /\ srv \in Seq(ServerPieces) /\ late \in Seq(ServerPieces) /\ usr \in Seq(UserPieces)
  BY DEF OnceInv
<1>1. UNCHANGED <<typed, took, late>>
  BY DEF ReadServer, ReadUser
<1>2. PICK f \in Seq(Pieces) : f = FlattenSeq(took)
  BY <1>0, FlattenIsSeq
<1>3. PICK c \in Seq(Pieces), v \in Seq(Pieces), u \in Seq(Pieces) : c = combuf /\ v = srv /\ u = usr
  BY <1>0, MorePieces
<1>4. f \o c \in Seq(Pieces) /\ FromUser(f \o c) \in Seq(Pieces)
  <2>1. f \o c \in Seq(Pieces)
    BY ConcatProperties
  <2>. QED  BY <2>1, FromUserFacts
<1>5. CASE ReadServer
  <2>1. combuf' = c \o v /\ srv' = <<>> /\ usr' = usr
    BY <1>3, <1>5 DEF ReadServer
  <2>2. f \o (c \o v) = (f \o c) \o v /\ c \o v \in Seq(Pieces)
    <3>1. Associates(f, c, v)
      BY <1>2, <1>3, JoinsEitherWay
    <3>2. c \o v \in Seq(Pieces)
      BY <1>3, ConcatProperties
    <3>. QED  BY <3>1, <3>2 DEF Associates
  <2>3. FromUser((f \o c) \o v) = FromUser(f \o c) \o <<>>
    BY <1>0, <1>3, <1>4, FromUserFacts
  <2>4. FromUser(f \o combuf') = FromUser(f \o c)
    BY <1>4, <2>1, <2>2, <2>3, ConcatEmptySeq
  <2>5. FlattenSeq(took') = f /\ FlattenSeq(took) = f /\ combuf = c
    BY <1>1, <1>2, <1>3
  <2>. QED  BY <1>0, <1>1, <2>1, <2>2, <2>4, <2>5, <<>> \in Seq(ServerPieces) DEF OnceInv
<1>6. CASE ReadUser
  <2>1. combuf' = c \o u /\ usr' = <<>> /\ srv' = srv
    BY <1>3, <1>6 DEF ReadUser
  <2>2. f \o (c \o u) = (f \o c) \o u /\ c \o u \in Seq(Pieces)
    <3>1. Associates(f, c, u)
      BY <1>2, <1>3, JoinsEitherWay
    <3>2. c \o u \in Seq(Pieces)
      BY <1>3, ConcatProperties
    <3>. QED  BY <3>1, <3>2 DEF Associates
  <2>3. FromUser((f \o c) \o u) = FromUser(f \o c) \o u
    <3>1. PICK w \in Seq(Pieces) : w = f \o c
      BY <1>4
    <3>2. FromUser(w \o u) = FromUser(w) \o FromUser(u)
      BY <1>3, <3>1, FromUserFacts
    <3>3. FromUser(u) = u
      BY <1>0, <1>3, FromUserFacts
    <3>. QED  BY <3>1, <3>2, <3>3
  <2>4. FromUser(f \o c) \o u \in Seq(Pieces)
    BY <1>4, ConcatProperties
  <2>5. FromUser(f \o combuf') \o usr' = FromUser(f \o c) \o u
    BY <2>1, <2>2, <2>3, <2>4, ConcatEmptySeq
  <2>6. FlattenSeq(took') = f /\ FlattenSeq(took) = f /\ combuf = c /\ usr = u
    BY <1>1, <1>2, <1>3
  <2>. QED  BY <1>0, <1>1, <2>1, <2>2, <2>5, <2>6, <<>> \in Seq(UserPieces) DEF OnceInv
<1>. QED  BY <1>5, <1>6

LEMMA TakeOnce ==
  ASSUME OnceInv, NEW loop, TakeLine(loop) PROVE OnceInv'
<1>0. /\ typed \in Seq(Input)
      /\ took \in Seq(Seq(Pieces)) /\ combuf \in Seq(Pieces)
      /\ srv \in Seq(ServerPieces) /\ late \in Seq(ServerPieces) /\ usr \in Seq(UserPieces)
  BY DEF OnceInv
<1>1. /\ LineEnd # {} /\ took' = Append(took, NextLine)
      /\ combuf' = SubSeq(combuf, Len(NextLine) + 1, Len(combuf))
      /\ UNCHANGED <<typed, srv, late, usr>>
  BY DEF TakeLine, env
<1>2. PICK n \in 1..Len(combuf) :
        NextLine = SubSeq(combuf, 1, n) /\ NextLine \in Seq(Pieces) /\ Len(NextLine) = n
  BY <1>0, <1>1, FirstLine
<1>3. PICK l \in Seq(Pieces) : l = NextLine
  BY <1>2
<1>4. PICK c \in Seq(Pieces) : c = combuf
  BY <1>0
<1>5. /\ n \in 0..Len(c) /\ l = SubSeq(c, 1, n) /\ combuf' = SubSeq(c, n + 1, Len(c))
  BY <1>1, <1>2, <1>3, <1>4
<1>6. PICK rest \in Seq(Pieces) : rest = combuf' /\ l \o rest = c
  BY <1>5, SplitAt
<1>7. took' \in Seq(Seq(Pieces)) /\ FlattenSeq(took') = FlattenSeq(took) \o l
  <2>1. PICK B : B = Seq(Pieces)
    OBVIOUS
  <2>2. took \in Seq(B) /\ l \in B
    BY <1>0, <2>1
  <2>3. Append(took, l) \in Seq(B)
    BY <2>2, AppendProperties
  <2>. QED  BY <1>0, <1>1, <1>3, <2>1, <2>3, FlattenAppend
<1>8. FlattenSeq(took') \o combuf' = FlattenSeq(took) \o combuf
  <2>1. PICK f \in Seq(Pieces) : f = FlattenSeq(took)
    BY <1>0, FlattenIsSeq
  <2>2. (f \o l) \o rest = f \o (l \o rest)
    <3>1. l \in Seq(Pieces) /\ rest \in Seq(Pieces) /\ f \in Seq(Pieces)
      BY <1>3, <1>6, <2>1
    <3>2. Associates(f, l, rest)
      BY <3>1, JoinsEitherWay
    <3>. QED  BY <3>2 DEF Associates
  <2>. QED  BY <1>4, <1>6, <1>7, <2>1, <2>2
<1>. QED  BY <1>0, <1>1, <1>6, <1>7, <1>8 DEF OnceInv

(* A step that moves no piece.                                             *)
LEMMA OthersOnce ==
  ASSUME OnceInv, UNCHANGED <<typed, took, combuf, srv, late, usr>> PROVE OnceInv'
BY DEF OnceInv

(* The steps that take a line.                                             *)
Takes ==
  \/ ServerLine \/ ServerLineFails
  \/ Exit \/ Show \/ Download \/ Results \/ PassOn \/ BrokenPipe

LEMMA TakesLine == ASSUME Takes PROVE \E loop \in {"server", "user"} : TakeLine(loop)
BY DEF Takes, ServerLine, ServerLineFails, Exit, Show, Download, Results, PassOn, BrokenPipe, UserLine

(* The steps that touch neither a line nor a buffer.                       *)
Ending == ServerClosed \/ UserClosed \/ LinesDone \/ BufferFull \/ PollFails
Apart ==
  \/ \E end \in {"server", "user"} : Closes(end) \/ FillsUp(end)
  \/ OtherConnects \/ SetRemoved

LEMMA OnceStep == OnceInv /\ [Next]_vars => OnceInv'
<1> SUFFICES ASSUME OnceInv, [Next]_vars PROVE OnceInv'
  OBVIOUS
<1>1. CASE Takes
  BY <1>1, TakesLine, TakeOnce
<1>2. CASE Ending
  BY <1>2, OthersOnce DEF Ending, ServerClosed, UserClosed, LinesDone, BufferFull, PollFails, env
<1>3. CASE Apart
  BY <1>3, OthersOnce DEF Apart, Closes, FillsUp, OtherConnects, SetRemoved, main
<1>4. CASE \E i \in 1..MaxReplies + MaxInputs : ChildStep(i)
  BY <1>4, OthersOnce DEF ChildStep, env
<1>5. CASE UNCHANGED vars
  BY <1>5, OthersOnce DEF vars
<1>. QED  BY <1>1, <1>2, <1>3, <1>4, <1>5, SendOnce, TypeOnce, ReadOnce
             DEF Next, Main, ServerSide, UserSide, Takes, Ending, Apart

(* Every line the user typed is taken once and in its order, whatever the  *)
(* server sends into the same buffer (main's loop over combuf).            *)
THEOREM TypedTakenOnce == Spec => []TypedOnce
<1>1. OnceInv => TypedOnce
  <2> SUFFICES ASSUME OnceInv PROVE TypedOnce
    OBVIOUS
  <2>0. /\ typed \in Seq(Input)
        /\ took \in Seq(Seq(Pieces)) /\ combuf \in Seq(Pieces) /\ usr \in Seq(UserPieces)
    BY DEF OnceInv
  <2>1. FlattenSeq(took) \o combuf \in Seq(Pieces)
    BY <2>0, FlattenIsSeq, ConcatProperties
  <2>2. FromUser(FlattenSeq(took) \o combuf) \in Seq(Pieces) /\ usr \in Seq(Pieces)
    BY <2>0, <2>1, FromUserFacts, MorePieces
  <2>3. PICK all \in Seq(Pieces) : all = FromUser(FlattenSeq(took) \o combuf) \o usr
    BY <2>2, ConcatProperties
  <2>4. Len(all) = Len(typed) /\ \A k \in 1..Len(typed) : all[k].line = typed[k]
    BY <2>3 DEF OnceInv
  <2>5. DOMAIN all = 1..Len(typed) /\ typed = [k \in 1..Len(typed) |-> typed[k]]
    BY <2>0, <2>3, <2>4
  <2>6. [k \in DOMAIN all |-> all[k].line] = typed
    BY <2>4, <2>5
  <2>. QED  BY <2>3, <2>6 DEF TypedOnce
<1>. QED  BY <1>1, OnceInit, OnceStep, PTL DEF Spec
-----------------------------------------------------------------------------
(* A head is followed by its tail, a tail by a head.                       *)
Paired(z) ==
  \A k \in DOMAIN z :
    /\ z[k].part = "head" =>
         k + 1 \in DOMAIN z /\ z[k + 1].part = "tail" /\ z[k + 1].line = z[k].line
    /\ z[k].part = "tail" /\ k + 1 \in DOMAIN z => z[k + 1].part = "head"

Whole(z) == Paired(z) /\ (z # <<>> => z[1].part = "head")

LEMMA PairedSuffix ==
  ASSUME NEW z \in Seq(Pieces), NEW n \in 0..Len(z), NEW w, w = SubSeq(z, n + 1, Len(z)), Paired(z)
  PROVE  Paired(w) /\ (n > 0 /\ z[n].part = "tail" => Whole(w))
<1>1. PICK N \in Nat : N = Len(z)
  OBVIOUS
<1>2. /\ w \in Seq(Pieces) /\ w \in Seq(Pieces)
      /\ \A i \in DOMAIN w : n + i \in n+1..N /\ w[i] = z[n + i]
  BY <1>1, SplitAt
<1>3. DOMAIN w = 1..N - n /\ DOMAIN z = 1..N
  <2>1. Len(w) = N - n
    <3>1. PICK m \in Nat : m = n + 1
      OBVIOUS
    <3>2. w = SubSeq(z, m, N) /\ \A i \in m..N : z[i] \in Pieces
      BY <1>1, <3>1
    <3>3. Len(w) = IF m <= N THEN N - m + 1 ELSE 0
      BY <1>1, <3>1, <3>2, SubSeqProperties
    <3>. QED  BY <1>1, <3>1, <3>3
  <2>. QED  BY <1>1, <1>2, <2>1
<1>4. Paired(w)
  <2> SUFFICES ASSUME NEW k \in DOMAIN w
               PROVE  /\ w[k].part = "head" =>
                           k + 1 \in DOMAIN w /\ w[k + 1].part = "tail" /\ w[k + 1].line = w[k].line
                      /\ w[k].part = "tail" /\ k + 1 \in DOMAIN w => w[k + 1].part = "head"
    BY DEF Paired
  <2>1. /\ k \in Nat /\ n \in Nat /\ n + k \in DOMAIN z /\ (n + k) + 1 = n + (k + 1)
        /\ w[k] = z[n + k] /\ (k + 1 \in DOMAIN w <=> (n + k) + 1 \in DOMAIN z)
    <3>1. k \in 1..N - n /\ n \in 0..N
      BY <1>1, <1>3
    <3>2. k \in Nat /\ n \in Nat
      BY <3>1
    <3>3. n + k \in 1..N /\ (n + k) + 1 = n + (k + 1) /\ (k + 1 \in 1..N - n <=> (n + k) + 1 \in 1..N)
      BY <1>1, <3>1
    <3>4. w[k] = z[n + k]
      BY <1>2
    <3>. QED  BY <1>3, <3>2, <3>3, <3>4
  <2>2. k + 1 \in DOMAIN w => w[k + 1] = z[(n + k) + 1]
    BY <1>2, <2>1
  <2>. QED  BY <2>1, <2>2 DEF Paired
<1>5. ASSUME n > 0, z[n].part = "tail", w # <<>> PROVE w[1].part = "head"
  <2>1. 1 \in DOMAIN w
    BY <1>2, <1>5
  <2>2. n \in DOMAIN z /\ n + 1 \in DOMAIN z /\ w[1] = z[n + 1]
    BY <1>1, <1>2, <1>3, <1>5, <2>1
  <2>. QED  BY <1>5, <2>2 DEF Paired
<1>. QED  BY <1>4, <1>5 DEF Whole

LEMMA PairedMore ==
  ASSUME NEW z \in Seq(Pieces), Paired(z), NEW r \in Reply
  PROVE  Paired(z \o Server(r)) /\ (Whole(z) => Whole(z \o Server(r)))
<1>1. PICK N \in Nat : N = Len(z)
  OBVIOUS
<1>2. PICK h \in ServerPieces, t \in ServerPieces :
        /\ h = Piece("server", r, "head") /\ t = Piece("server", r, "tail")
        /\ h.part = "head" /\ t.part = "tail" /\ h.line = t.line
  <2>1. Piece("server", r, "head") \in ServerPieces /\ Piece("server", r, "tail") \in ServerPieces
    BY PieceTypes
  <2>2. /\ Piece("server", r, "head").part = "head" /\ Piece("server", r, "tail").part = "tail"
        /\ Piece("server", r, "head").line = Piece("server", r, "tail").line
    BY DEF Piece
  <2>. QED  BY <2>1, <2>2
<1>3. PICK two \in Seq(Pieces) : two = Server(r) /\ Len(two) = 2 /\ two[1] = h /\ two[2] = t
  <2>1. h \in Pieces /\ t \in Pieces
    BY <1>2 DEF Pieces
  <2>2. Server(r) = <<h, t>>
    BY <1>2 DEF Server
  <2>3. PICK p : p = <<h, t>>
    OBVIOUS
  <2>4. p \in Seq(Pieces) /\ Len(p) = 2 /\ p[1] = h /\ p[2] = t
    BY <2>1, <2>3
  <2>. QED  BY <2>2, <2>3, <2>4
<1>4. PICK w \in Seq(Pieces) : w = z \o two
  BY ConcatProperties
<1>5. /\ DOMAIN w = 1..N+2 /\ DOMAIN z = 1..N /\ w[N + 1] = h /\ w[N + 2] = t
      /\ \A k \in 1..N : w[k] = z[k]
  <2>1. /\ Len(w) = N + 2
        /\ \A k \in 1..N + 2 : w[k] = IF k <= N THEN z[k] ELSE two[k - N]
    <3>1. /\ Len(z \o two) = Len(z) + Len(two)
          /\ \A k \in 1..Len(z) + Len(two) :
               (z \o two)[k] = IF k <= Len(z) THEN z[k] ELSE two[k - Len(z)]
      BY <1>3, ConcatProperties
    <3>. QED  BY <1>1, <1>3, <1>4, <3>1
  <2>2. N + 1 \in 1..N+2 /\ ~(N + 1 <= N) /\ (N + 1) - N = 1
    OBVIOUS
  <2>3. N + 2 \in 1..N+2 /\ ~(N + 2 <= N) /\ (N + 2) - N = 2
    OBVIOUS
  <2>4. \A k \in 1..N : k \in 1..N+2 /\ k <= N
    OBVIOUS
  <2>. QED  BY <1>1, <1>3, <1>4, <2>1, <2>2, <2>3, <2>4
<1>6. Paired(w)
  <2> SUFFICES ASSUME NEW k \in DOMAIN w
               PROVE  /\ w[k].part = "head" =>
                           k + 1 \in DOMAIN w /\ w[k + 1].part = "tail" /\ w[k + 1].line = w[k].line
                      /\ w[k].part = "tail" /\ k + 1 \in DOMAIN w => w[k + 1].part = "head"
    BY DEF Paired
  <2>1. CASE k \in 1..N-1
    <3>1. k \in DOMAIN z /\ k + 1 \in DOMAIN z /\ w[k] = z[k] /\ w[k + 1] = z[k + 1] /\ k + 1 \in DOMAIN w
      BY <1>5, <2>1
    <3>. QED  BY <3>1 DEF Paired
  <2>2. CASE k = N /\ N > 0
    <3>1. k \in DOMAIN z /\ k + 1 \notin DOMAIN z /\ w[k] = z[k] /\ w[k + 1] = h
      BY <1>5, <2>2
    <3>2. z[k].part # "head"
      BY <3>1 DEF Paired
    <3>. QED  BY <1>2, <3>1, <3>2
  <2>3. CASE k = N + 1
    <3>1. k + 1 = N + 2 /\ k + 1 \in DOMAIN w
      BY <1>5, <2>3
    <3>. QED  BY <1>2, <1>5, <2>3, <3>1
  <2>4. CASE k = N + 2
    <3>1. k + 1 \notin DOMAIN w
      BY <1>5, <2>4
    <3>. QED  BY <1>2, <1>5, <2>4, <3>1
  <2>. QED  BY <1>5, <2>1, <2>2, <2>3, <2>4
<1>7. ASSUME Whole(z) PROVE w[1].part = "head"
  <2>1. CASE N = 0
    BY <1>2, <1>5, <2>1
  <2>2. CASE N # 0
    BY <1>1, <1>5, <1>7, <2>2 DEF Whole
  <2>. QED  BY <2>1, <2>2
<1>. QED  BY <1>3, <1>4, <1>6, <1>7 DEF Whole

(* The lines of the server on their way.                                   *)
FromServer(s) == Only(s, ServerPieces)
Stream == FromServer(combuf) \o srv \o late

LEMMA FromServerFacts ==
  ASSUME NEW s \in Seq(Pieces), NEW t \in Seq(Pieces)
  PROVE  /\ FromServer(s) \in Seq(Pieces) /\ FromServer(s \o t) = FromServer(s) \o FromServer(t)
         /\ t \in Seq(UserPieces) => FromServer(t) = <<>>
         /\ t \in Seq(ServerPieces) => FromServer(t) = t
<1>1. Only(s, ServerPieces) \in Seq(Pieces)
  BY OnlySeq
<1>2. Only(s \o t, ServerPieces) = Only(s, ServerPieces) \o Only(t, ServerPieces)
  BY OnlyConcat
<1>3. t \in Seq(ServerPieces) => Only(t, ServerPieces) = t
  BY OnlyAll
<1>4. t \in Seq(UserPieces) => Only(t, ServerPieces) = <<>>
  BY PieceTypes, OnlyNone
<1>. QED  BY <1>1, <1>2, <1>3, <1>4 DEF FromServer

(* The server's lines come in their order, whole unless Cut, and the       *)
(* user's loop takes all that it read: only a head of the server can be    *)
(* left over when poll is called.                                          *)
PairInv ==
  /\ pc \in {"poll", "server", "user", "ended", "killed"}
  /\ Paired(Stream)
  /\ pc \in {"poll", "server"} => combuf \in Seq(ServerPieces)
  /\ pc = "poll" => LineEnd = {}
  /\ ~Cut => /\ late = <<>> /\ Whole(srv)
             /\ pc \in {"poll", "server"} => Whole(combuf)
             /\ pc = "user" => combuf \in Seq(UserPieces)

(* Why shellReturn is what it is.                                          *)
EndInv ==
  /\ shellReturn \in {"no", "success", "failure"}
  /\ shellReturn = "success" =>
       "user" \notin up \/ TookOneOf({"EXIT"}) \/ full # "no"
  /\ shellReturn = "failure" =>
       \/ "server" \notin up
       \/ \E k \in DOMAIN took : Headless(took[k])
       \/ TookOneOf({"RESULT", "SENDLIST", "DOWNLOAD"})
       \/ MayRefuse /\ TookOneOf({"TEXT", "RESULTS", "HELP"})
       \/ full # "no" \/ "poll" \in failed
  /\ ~Cut => \A k \in DOMAIN took : ~Headless(took[k])

Types ==
  /\ took \in Seq(Seq(Pieces)) /\ combuf \in Seq(Pieces)
  /\ srv \in Seq(ServerPieces) /\ late \in Seq(ServerPieces) /\ usr \in Seq(UserPieces)

LEMMA OnceTypes == OnceInv => Types
BY DEF OnceInv, Types

LEMMA StreamType == ASSUME Types PROVE Stream \in Seq(Pieces)
<1>1. FromServer(combuf) \in Seq(Pieces) /\ srv \in Seq(Pieces) /\ late \in Seq(Pieces)
  BY FromServerFacts, MorePieces DEF Types
<1>. QED  BY <1>1, Regroup DEF Stream

LEMMA WholeNoTail ==
  ASSUME NEW z \in Seq(Pieces), Whole(z), \A k \in DOMAIN z : z[k].part # "tail" PROVE z = <<>>
<1> SUFFICES ASSUME z # <<>> PROVE FALSE
  OBVIOUS
<1>1. 1 \in DOMAIN z
  OBVIOUS
<1>2. z[1].part = "head"
  BY DEF Whole
<1>3. 1 + 1 \in DOMAIN z /\ z[1 + 1].part = "tail"
  BY <1>1, <1>2 DEF Whole, Paired
<1>. QED  BY <1>3

LEMMA NoTailFromServer ==
  ASSUME NEW z \in Seq(Pieces), \A k \in DOMAIN z : z[k].part # "tail" PROVE z \in Seq(ServerPieces)
<1>1. \A k \in 1..Len(z) : z[k] \in ServerPieces
  <2> TAKE k \in 1..Len(z)
  <2>1. z[k] \in Pieces /\ k \in DOMAIN z
    OBVIOUS
  <2>. QED  BY <2>1, PieceTypes DEF Pieces
<1>. QED  BY <1>1

LEMMA PairInit == Init => PairInv /\ EndInv
<1> SUFFICES ASSUME Init PROVE PairInv /\ EndInv
  OBVIOUS
<1>1. <<>> \in Seq(ServerPieces) /\ DOMAIN <<>> = {} /\ <<>> \o <<>> = <<>>
  OBVIOUS
<1>2. Stream = <<>> /\ LineEnd = {}
  <2>1. FromServer(<<>>) = <<>>
    BY OnlyEmpty DEF FromServer
  <2>. QED  BY <1>1, <2>1 DEF Init, Stream, LineEnd
<1>3. Whole(<<>>) /\ Paired(<<>>)
  BY <1>1 DEF Whole, Paired
<1>. QED  BY <1>1, <1>2, <1>3 DEF Init, PairInv, EndInv

(* What the loop takes off the front of combuf.                            *)
LEMMA TakenLine ==
  ASSUME Types, PairInv, NEW loop \in {"server", "user"}, TakeLine(loop)
  PROVE  /\ Head(NextLine) \in Pieces
         /\ Head(NextLine).from = "user" => Last(NextLine) = Head(NextLine)
         /\ loop = "server" /\ Head(NextLine).part = "head" => Last(NextLine).line = Head(NextLine).line
         /\ loop = "server" => Head(NextLine).from = "server"
         /\ loop = "server" /\ ~Cut => Head(NextLine).part = "head"
         /\ loop = "user" /\ ~Cut => Head(NextLine).from = "user"
<1>0. pc = loop /\ LineEnd # {} /\ combuf \in Seq(Pieces)
  BY DEF TakeLine, Types
<1>1. PICK n \in 1..Len(combuf) :
        /\ Head(NextLine) = combuf[1] /\ Last(NextLine) = combuf[n]
        /\ combuf[n].part = "tail" /\ \A k \in 1..n-1 : combuf[k].part = "head"
  BY <1>0, FirstLine
<1>2. 1 \in 1..Len(combuf) /\ combuf[1] \in Pieces /\ DOMAIN combuf = 1..Len(combuf)
  BY <1>0, <1>1
<1>3. ASSUME combuf[1].part = "tail" PROVE n = 1
  <2>1. 1 \notin 1..n-1
    BY <1>1, <1>3
  <2>. QED  BY <1>1, <2>1
<1>4. combuf[1].from = "user" => combuf[n] = combuf[1]
  BY <1>2, <1>3, PieceTypes DEF Pieces
<1>5. ASSUME loop = "server" PROVE combuf[1].from = "server"
  <2>1. combuf \in Seq(ServerPieces)
    BY <1>0, <1>5 DEF PairInv
  <2>2. combuf[1] \in ServerPieces
    BY <1>2, <2>1
  <2>. QED  BY <2>2, PieceTypes
<1>6. ASSUME loop = "server", combuf[1].part = "head" PROVE combuf[n].line = combuf[1].line
  <2>1. n # 1 /\ 2 \in 1..Len(combuf)
    BY <1>0, <1>1, <1>6
  <2>2. PICK c \in Seq(Pieces), d \in Seq(Pieces) : c = combuf /\ Stream = c \o d
    <3>1. FromServer(combuf) = combuf
      <4>1. combuf \in Seq(ServerPieces)
        BY <1>0, <1>6 DEF PairInv
      <4>. QED  BY <1>0, <4>1, FromServerFacts
    <3>2. srv \in Seq(Pieces) /\ late \in Seq(Pieces) /\ srv \o late \in Seq(Pieces)
      BY MorePieces, ConcatProperties DEF Types
    <3>3. Associates(combuf, srv, late)
      BY <1>0, <3>2, JoinsEitherWay
    <3>. QED  BY <1>0, <3>1, <3>2, <3>3 DEF Stream, Associates
  <2>3. PICK z \in Seq(Pieces) : z = Stream
    BY StreamType
  <2>4. /\ 1 \in DOMAIN z /\ z[1] = combuf[1] /\ z[2] = combuf[2]
    <3>1. /\ Len(z) = Len(c) + Len(d)
          /\ \A i \in 1..Len(c) + Len(d) : z[i] = IF i <= Len(c) THEN c[i] ELSE d[i - Len(c)]
      BY <2>2, <2>3, ConcatProperties
    <3>2. Len(c) \in Nat /\ Len(d) \in Nat /\ 2 \in 1..Len(c)
      BY <2>1, <2>2
    <3>3. 1 \in 1..Len(c) + Len(d) /\ 2 \in 1..Len(c) + Len(d) /\ 1 <= Len(c) /\ 2 <= Len(c)
      BY <3>2
    <3>. QED  BY <2>2, <2>3, <3>1, <3>3
  <2>5. 1 + 1 \in DOMAIN z /\ z[1 + 1].part = "tail" /\ z[1 + 1].line = z[1].line
    BY <1>6, <2>3, <2>4 DEF PairInv, Paired
  <2>6. n = 2
    <3>1. 2 \notin 1..n-1
      BY <1>1, <2>4, <2>5
    <3>. QED  BY <1>1, <2>1, <3>1
  <2>. QED  BY <2>4, <2>5, <2>6
<1>7. ASSUME loop = "server", ~Cut PROVE combuf[1].part = "head"
  BY <1>0, <1>2, <1>7 DEF PairInv, Whole
<1>8. ASSUME loop = "user", ~Cut PROVE combuf[1].from = "user"
  <2>1. combuf \in Seq(UserPieces)
    BY <1>0, <1>8 DEF PairInv
  <2>2. combuf[1] \in UserPieces
    BY <1>2, <2>1
  <2>. QED  BY <2>2, PieceTypes
<1>. QED  BY <1>1, <1>2, <1>4, <1>5, <1>6, <1>7, <1>8

LEMMA PairedEnd ==
  ASSUME NEW a \in Seq(Pieces), NEW w \in Seq(Pieces), Paired(a \o w) PROVE Paired(w)
<1>1. PICK n \in Nat, M \in Nat : n = Len(a) /\ M = Len(w)
  OBVIOUS
<1>2. PICK z \in Seq(Pieces) : z = a \o w
  BY ConcatProperties
<1>3. DOMAIN z = 1..n+M /\ DOMAIN w = 1..M /\ \A k \in 1..M : z[n + k] = w[k]
  <2>1. Len(z) = n + M /\ \A k \in 1..n + M : z[k] = IF k <= n THEN a[k] ELSE w[k - n]
    BY <1>1, <1>2, ConcatProperties
  <2>2. \A k \in 1..M : n + k \in 1..n+M /\ ~(n + k <= n) /\ (n + k) - n = k
    BY <1>1
  <2>. QED  BY <1>1, <1>2, <2>1, <2>2
<1> SUFFICES ASSUME NEW k \in DOMAIN w
             PROVE  /\ w[k].part = "head" =>
                         k + 1 \in DOMAIN w /\ w[k + 1].part = "tail" /\ w[k + 1].line = w[k].line
                    /\ w[k].part = "tail" /\ k + 1 \in DOMAIN w => w[k + 1].part = "head"
  BY DEF Paired
<1>4. /\ n + k \in DOMAIN z /\ w[k] = z[n + k] /\ (n + k) + 1 = n + (k + 1)
      /\ (k + 1 \in DOMAIN w <=> (n + k) + 1 \in DOMAIN z)
  <2>1. k \in 1..M
    BY <1>3
  <2>2. n + k \in 1..n+M /\ (n + k) + 1 = n + (k + 1) /\ (k + 1 \in 1..M <=> (n + k) + 1 \in 1..n+M)
    <3>1. \A i \in 1..M : /\ n + i \in 1..n+M /\ (n + i) + 1 = n + (i + 1)
                          /\ (i + 1 \in 1..M <=> (n + i) + 1 \in 1..n+M)
      <4>1. n \in Nat /\ M \in Nat
        BY <1>1
      <4>. QED  BY <4>1
    <3>. QED  BY <2>1, <3>1
  <2>. QED  BY <1>3, <2>1, <2>2
<1>5. k + 1 \in DOMAIN w => w[k + 1] = z[(n + k) + 1]
  BY <1>3, <1>4
<1>. QED  BY <1>2, <1>4, <1>5 DEF Paired

(* What is left of paired pieces when the first are taken.                 *)
LEMMA RegroupPieces ==
  ASSUME NEW a \in Seq(Pieces), NEW b \in Seq(Pieces), NEW c \in Seq(Pieces)
  PROVE  (a \o b) \o c = a \o (b \o c)
<1>1. Associates(a, b, c)
  BY JoinsEitherWay
<1>. QED  BY <1>1 DEF Associates

LEMMA PairedRest ==
  ASSUME NEW a \in Seq(Pieces), NEW b \in Seq(Pieces), NEW v \in Seq(Pieces), NEW e \in Seq(Pieces),
         Paired(((a \o b) \o v) \o e)
  PROVE  Paired((b \o v) \o e)
<1>1. PICK bv : bv \in Seq(Pieces) /\ bv = b \o v
  BY Regroup
<1>2. PICK w : w \in Seq(Pieces) /\ w = bv \o e
  <2>1. bv \o e \in Seq(Pieces)
    BY <1>1, ConcatProperties
  <2>. QED  BY <2>1
<1>3. (a \o b) \o v = a \o bv
  BY <1>1, RegroupPieces
<1>4. (a \o bv) \o e = a \o w
  <2>1. Associates(a, bv, e)
    BY <1>1, JoinsEitherWay
  <2>. QED  BY <1>2, <2>1 DEF Associates
<1>5. Paired(a \o w)
  BY <1>3, <1>4
<1>6. Paired(w)
  BY <1>2, <1>5, PairedEnd
<1>. QED  BY <1>1, <1>2, <1>6

(* The line that is taken and what it leaves: a line of the server is a    *)
(* head and its tail as long as none was cut off.                          *)
LEMMA TakenStream ==
  ASSUME Types, PairInv, NEW loop \in {"server", "user"}, TakeLine(loop)
  PROVE  /\ Paired(Stream')
         /\ loop = "server" => combuf' \in Seq(ServerPieces)
         /\ ~Cut /\ loop = "server" => Whole(combuf')
         /\ ~Cut /\ loop = "user" => combuf' \in Seq(UserPieces)
<1>0. /\ pc = loop /\ LineEnd # {} /\ combuf \in Seq(Pieces)
      /\ combuf' = SubSeq(combuf, Len(NextLine) + 1, Len(combuf)) /\ UNCHANGED <<srv, late>>
  BY DEF TakeLine, Types, env
<1>1. PICK n \in 1..Len(combuf) :
        Len(NextLine) = n /\ combuf[n].part = "tail"
  BY <1>0, FirstLine
<1>2. PICK c \in Seq(Pieces) : c = combuf
  BY <1>0
<1>3. n \in 0..Len(c) /\ n > 0 /\ combuf' = SubSeq(c, n + 1, Len(c)) /\ c[n].part = "tail"
  BY <1>0, <1>1, <1>2
<1>4. PICK l \in Seq(Pieces), rest \in Seq(Pieces) :
        l = SubSeq(c, 1, n) /\ rest = combuf' /\ l \o rest = c
  <2>1. /\ SubSeq(c, 1, n) \in Seq(Pieces) /\ SubSeq(c, n + 1, Len(c)) \in Seq(Pieces)
        /\ SubSeq(c, 1, n) \o SubSeq(c, n + 1, Len(c)) = c
    <3>1. c \in Seq(Pieces) /\ n \in 0..Len(c)
      BY <1>2, <1>3
    <3>. QED  BY <3>1, SplitAt
  <2>. QED  BY <1>3, <2>1
<1>5. Paired(Stream')
  <2>1. PICK v \in Seq(Pieces), e \in Seq(Pieces) : v = srv /\ e = late
    BY MorePieces DEF Types
  <2>2. PICK a \in Seq(Pieces), b \in Seq(Pieces) : a = FromServer(l) /\ b = FromServer(rest)
    BY <1>4, FromServerFacts
  <2>3. FromServer(c) = a \o b
    <3>1. l \in Seq(Pieces) /\ rest \in Seq(Pieces) /\ c = l \o rest
      BY <1>4
    <3>2. FromServer(l \o rest) = FromServer(l) \o FromServer(rest)
      BY <3>1, FromServerFacts
    <3>. QED  BY <2>2, <3>1, <3>2
  <2>4. Stream' = (b \o v) \o e /\ Stream = ((a \o b) \o v) \o e
    BY <1>0, <1>2, <1>4, <2>1, <2>2, <2>3 DEF Stream
  <2>5. Paired((b \o v) \o e)
    <3>1. a \in Seq(Pieces) /\ b \in Seq(Pieces) /\ v \in Seq(Pieces) /\ e \in Seq(Pieces)
      BY <2>1, <2>2
    <3>2. Paired(((a \o b) \o v) \o e)
      BY <2>4 DEF PairInv
    <3>. QED  BY <3>1, <3>2, PairedRest
  <2>. QED  BY <2>4, <2>5
<1>6. ASSUME loop = "server" PROVE combuf' \in Seq(ServerPieces)
  <2>1. c \in Seq(ServerPieces)
    BY <1>0, <1>2, <1>6 DEF PairInv
  <2>. QED  BY <1>3, <2>1, SplitAt
<1>7. ASSUME ~Cut, loop = "server" PROVE Whole(combuf')
  <2>1. Paired(c)
    BY <1>0, <1>2, <1>7 DEF PairInv, Whole
  <2>. QED  BY <1>3, <2>1, PairedSuffix
<1>8. ASSUME ~Cut, loop = "user" PROVE combuf' \in Seq(UserPieces)
  <2>1. c \in Seq(UserPieces)
    BY <1>0, <1>2, <1>8 DEF PairInv
  <2>. QED  BY <1>3, <2>1, SplitAt
<1>. QED  BY <1>5, <1>6, <1>7, <1>8

LEMMA TakesPair ==
  ASSUME Types, PairInv, Takes PROVE PairInv'
<1>1. PICK loop \in {"server", "user"} : TakeLine(loop)
  BY TakesLine
<1>2. pc = loop /\ UNCHANGED <<srv, late>> /\ (pc' = pc \/ pc' \in {"ended", "killed"})
  BY <1>1
     DEF TakeLine, env, Takes, ServerLine, ServerLineFails, Exit, Show, Download, Results, PassOn,
         BrokenPipe, UserLine
<1>3. /\ Paired(Stream')
      /\ loop = "server" => combuf' \in Seq(ServerPieces)
      /\ ~Cut /\ loop = "server" => Whole(combuf')
      /\ ~Cut /\ loop = "user" => combuf' \in Seq(UserPieces)
  BY <1>1, TakenStream
<1>. QED  BY <1>2, <1>3 DEF PairInv

LEMMA SendPair ==
  ASSUME Types, PairInv, (\E r \in Replies : ServerSends(r)) \/ TailArrives PROVE PairInv'
<1>1. UNCHANGED <<combuf, pc>> /\ FromServer(combuf)' = FromServer(combuf)
  BY DEF ServerSends, TailArrives, FromServer, main
<1>2. PICK a \in Seq(Pieces), v \in Seq(Pieces), e \in Seq(Pieces) :
        a = FromServer(combuf) /\ v = srv /\ e = late
  BY FromServerFacts, MorePieces DEF Types
<1>3. LineEnd' = LineEnd
  BY <1>1 DEF LineEnd
<1>4. CASE TailArrives
  <2>1. srv' = v \o e /\ late' = <<>> /\ late # <<>>
    BY <1>2, <1>4 DEF TailArrives
  <2>2. (a \o (v \o e)) \o <<>> = (a \o v) \o e
    <3>1. a \o (v \o e) = (a \o v) \o e
      BY <1>2, ConcatAssociative
    <3>2. (a \o v) \o e \in Seq(Pieces)
      BY <1>2, Regroup
    <3>. QED  BY <3>1, <3>2, ConcatEmptySeq
  <2>3. Stream' = Stream
    BY <1>1, <1>2, <2>1, <2>2 DEF Stream
  <2>. QED  BY <1>1, <1>3, <2>1, <2>3 DEF PairInv
<1>5. ASSUME NEW r \in Replies, ServerSends(r) PROVE PairInv'
  <2>1. r \in Reply /\ late = <<>>
    BY <1>5, ClientMainAssumption DEF ServerSends
  <2>2. PICK p, h, t : /\ p \in Seq(Pieces)
                       /\ p = Server(r) /\ p = <<h, t>> /\ h = p[1] /\ t = p[2]
    <3>1. PICK h \in ServerPieces, t \in ServerPieces : Server(r) = <<h, t>>
      BY <2>1, PieceTypes DEF Server
    <3>2. PICK p : p = <<h, t>>
      OBVIOUS
    <3>3. p \in Seq(Pieces) /\ p[1] = h /\ p[2] = t
      BY <3>1, <3>2 DEF Pieces
    <3>. QED  BY <3>1, <3>2, <3>3
  <2>3. \/ srv' = v \o p /\ late' = <<>>
        \/ Cut /\ srv' = Append(v, h) /\ late' = <<t>>
    BY <1>2, <1>5, <2>1, <2>2 DEF ServerSends
  <2>4. Paired((a \o v) \o p) /\ a \o v \in Seq(Pieces)
    <3>1. PICK w \in Seq(Pieces) : w = a \o v
      BY <1>2, ConcatProperties
    <3>2. Stream = w
      BY <1>2, <2>1, <3>1, ConcatEmptySeq DEF Stream
    <3>3. Paired(w \o Server(r))
      BY <2>1, <3>2, PairedMore DEF PairInv
    <3>. QED  BY <2>2, <3>1, <3>3
  <2>5. Stream' = (a \o v) \o p
    <3>1. CASE srv' = v \o p /\ late' = <<>>
      <4>1. a \o (v \o p) = (a \o v) \o p
        BY <1>2, <2>2, ConcatAssociative
      <4>2. (a \o v) \o p \in Seq(Pieces)
        BY <2>2, <2>4, ConcatProperties
      <4>. QED  BY <1>1, <1>2, <3>1, <4>1, <4>2, ConcatEmptySeq DEF Stream
    <3>2. CASE srv' = Append(v, h) /\ late' = <<t>>
      <4>1. h \in Pieces /\ t \in Pieces
        BY <2>2
      <4>2. PICK x \in Seq(Pieces), y \in Seq(Pieces) : x = <<h>> /\ y = <<t>> /\ p = x \o y
        <5>1. PICK x, y : x = <<h>> /\ y = <<t>>
          OBVIOUS
        <5>2. x \in Seq(Pieces) /\ y \in Seq(Pieces)
          BY <4>1, <5>1
        <5>3. Len(x) = 1 /\ Len(y) = 1 /\ x[1] = h /\ y[1] = t
          BY <5>1
        <5>4. p = x \o y
          <6>1. Len(x \o y) = 2 /\ (x \o y)[1] = x[1] /\ (x \o y)[2] = y[1] /\ x \o y \in Seq(Pieces)
            <7>1. Len(x \o y) = Len(x) + Len(y) /\ x \o y \in Seq(Pieces)
              BY <5>2, ConcatProperties
            <7>2. \A i \in 1..Len(x) + Len(y) : (x \o y)[i] = IF i <= Len(x) THEN x[i] ELSE y[i - Len(x)]
              BY <5>2, ConcatProperties
            <7>. QED  BY <5>3, <7>1, <7>2
          <6>2. Len(p) = 2 /\ p[1] = h /\ p[2] = t
            BY <2>2
          <6>3. \A k \in 1..2 : k = 1 \/ k = 2
            OBVIOUS
          <6>. QED  BY <2>2, <5>3, <6>1, <6>2, <6>3, SeqEqual
        <5>. QED  BY <5>1, <5>2, <5>4
      <4>3. Append(v, h) = v \o x
        BY <1>2, <4>1, <4>2, AppendIsConcat
      <4>4. (a \o (v \o x)) \o y = (a \o v) \o p
        <5>1. a \o (v \o x) = (a \o v) \o x
          BY <1>2, <4>2, ConcatAssociative
        <5>2. PICK w \in Seq(Pieces) : w = a \o v
          BY <2>4
        <5>3. (w \o x) \o y = w \o (x \o y)
          BY <4>2, <5>2, ConcatAssociative
        <5>. QED  BY <4>2, <5>1, <5>2, <5>3
      <4>. QED  BY <1>1, <1>2, <3>2, <4>2, <4>3, <4>4 DEF Stream
    <3>. QED  BY <2>3, <3>1, <3>2
  <2>6. ~Cut => late' = <<>> /\ Whole(srv')
    <3>1. ASSUME ~Cut PROVE late' = <<>> /\ Whole(srv')
      <4>1. Whole(v)
        BY <1>2, <3>1 DEF PairInv
      <4>2. Whole(v \o Server(r))
        BY <1>2, <2>1, <4>1, PairedMore DEF Whole
      <4>. QED  BY <2>2, <2>3, <3>1, <4>2
    <3>. QED  BY <3>1
  <2>. QED  BY <1>1, <1>3, <2>4, <2>5, <2>6 DEF PairInv
<1>. QED  BY <1>4, <1>5

LEMMA ReadPair ==
  ASSUME Types, PairInv, ReadServer \/ ReadUser PROVE PairInv'
<1>0. pc = "poll" /\ LineEnd = {} /\ combuf \in Seq(ServerPieces) /\ UNCHANGED late
  BY DEF ReadServer, ReadUser, PairInv
<1>1. PICK c \in Seq(Pieces), v \in Seq(Pieces), e \in Seq(Pieces), u \in Seq(Pieces) :
        c = combuf /\ v = srv /\ e = late /\ u = usr
  BY MorePieces DEF Types
<1>2. c \in Seq(ServerPieces) /\ v \in Seq(ServerPieces) /\ u \in Seq(UserPieces)
  BY <1>0, <1>1 DEF Types
<1>3. Stream = (c \o v) \o e
  <2>1. FromServer(c) = c
    BY <1>1, <1>2, FromServerFacts
  <2>. QED  BY <1>1, <2>1 DEF Stream
<1>4. ~Cut => c = <<>>
  <2>1. ASSUME ~Cut PROVE c = <<>>
    <3>1. Whole(c) /\ \A k \in DOMAIN c : c[k].part # "tail"
      BY <1>0, <1>1, <2>1 DEF PairInv, LineEnd
    <3>. QED  BY <1>1, <3>1, WholeNoTail
  <2>. QED  BY <2>1
<1>5. CASE ReadServer
  <2>1. combuf' = c \o v /\ srv' = <<>> /\ pc' = "server"
    BY <1>1, <1>5 DEF ReadServer
  <2>2. PICK w \in Seq(ServerPieces) : w = c \o v
    BY <1>2, ConcatProperties
  <2>3. w \in Seq(Pieces) /\ FromServer(w) = w
    BY <2>2, MorePieces, FromServerFacts
  <2>4. Stream' = Stream
    BY <1>0, <1>1, <1>3, <2>1, <2>2, <2>3, ConcatEmptySeq DEF Stream
  <2>5. ~Cut => Whole(srv') /\ Whole(combuf')
    <3>1. Whole(<<>>)
      BY DEF Whole, Paired
    <3>2. ~Cut => combuf' = srv
      BY <1>1, <1>2, <1>4, <2>1, ConcatEmptySeq
    <3>. QED  BY <2>1, <3>1, <3>2 DEF PairInv
  <2>. QED  BY <1>0, <2>1, <2>2, <2>4, <2>5 DEF PairInv
<1>6. CASE ReadUser
  <2>1. combuf' = c \o u /\ srv' = srv /\ pc' = "user"
    BY <1>1, <1>6 DEF ReadUser
  <2>2. FromServer(c \o u) = c
    <3>1. FromServer(c \o u) = FromServer(c) \o FromServer(u)
      BY <1>1, FromServerFacts
    <3>2. FromServer(c) = c /\ FromServer(u) = <<>>
      BY <1>1, <1>2, FromServerFacts
    <3>. QED  BY <1>1, <3>1, <3>2, ConcatEmptySeq
  <2>3. Stream' = Stream
    BY <1>0, <1>1, <1>3, <2>1, <2>2 DEF Stream
  <2>4. ~Cut => combuf' \in Seq(UserPieces)
    BY <1>2, <1>4, <2>1, ConcatEmptySeq
  <2>. QED  BY <1>0, <2>1, <2>3, <2>4 DEF PairInv
<1>. QED  BY <1>5, <1>6

LEMMA OthersPair ==
  ASSUME PairInv, UNCHANGED <<combuf, srv, late, pc>> PROVE PairInv'
BY DEF PairInv, Stream, LineEnd

LEMMA DonePair ==
  ASSUME Types, PairInv, Ending PROVE PairInv'
<1>1. UNCHANGED <<combuf, srv, late>> /\ Stream' = Stream /\ LineEnd' = LineEnd
  BY DEF Ending, ServerClosed, UserClosed, LinesDone, BufferFull, PollFails, env, Stream, LineEnd
<1>2. CASE pc' = "ended"
  BY <1>1, <1>2 DEF PairInv
<1>3. CASE pc' = "poll"
  <2>1. LinesDone /\ LineEnd = {} /\ pc \in {"server", "user"}
    BY <1>3 DEF Ending, ServerClosed, UserClosed, LinesDone, BufferFull, PollFails
  <2>2. PICK c \in Seq(Pieces) : c = combuf
    BY DEF Types
  <2>3. \A k \in DOMAIN c : c[k].part # "tail"
    BY <2>1, <2>2 DEF LineEnd
  <2>4. c \in Seq(ServerPieces)
    BY <2>2, <2>3, NoTailFromServer
  <2>5. ~Cut => Whole(c)
    <3>1. CASE pc = "server"
      BY <2>2, <3>1 DEF PairInv
    <3>2. CASE pc = "user" /\ ~Cut
      <4>1. c \in Seq(UserPieces)
        BY <2>2, <3>2 DEF PairInv
      <4>2. c = <<>>
        <5>1. \A k \in 1..Len(c) : c[k] \in UserPieces /\ k \in DOMAIN c
          BY <4>1
        <5>2. Len(c) = 0
          <6>1. ASSUME Len(c) # 0 PROVE FALSE
            <7>1. 1 \in 1..Len(c)
              BY <2>2, <6>1
            <7>. QED  BY <2>3, <5>1, <7>1, PieceTypes
          <6>. QED  BY <6>1
        <5>. QED  BY <2>2, <5>2, EmptySeq
      <4>. QED  BY <4>2 DEF Whole, Paired
    <3>. QED  BY <2>1, <3>1, <3>2
  <2>. QED  BY <1>1, <1>3, <2>1, <2>2, <2>4, <2>5 DEF PairInv
<1>4. pc' \in {"poll", "ended"}
  BY DEF Ending, ServerClosed, UserClosed, LinesDone, BufferFull, PollFails
<1>. QED  BY <1>2, <1>3, <1>4

LEMMA PairStep == Types /\ PairInv /\ [Next]_vars => PairInv'
<1> SUFFICES ASSUME Types, PairInv, [Next]_vars PROVE PairInv'
  OBVIOUS
<1>1. CASE Takes
  BY <1>1, TakesPair
<1>2. CASE \E i \in Inputs : UserTypes(i)
  BY <1>2, OthersPair DEF UserTypes, main
<1>3. CASE Apart
  BY <1>3, OthersPair DEF Apart, Closes, FillsUp, OtherConnects, SetRemoved, main
<1>4. CASE \E i \in 1..MaxReplies + MaxInputs : ChildStep(i)
  BY <1>4, OthersPair DEF ChildStep, env
<1>5. CASE UNCHANGED vars
  BY <1>5, OthersPair DEF vars
<1>. QED  BY <1>1, <1>2, <1>3, <1>4, <1>5, SendPair, ReadPair, DonePair
             DEF Next, Main, ServerSide, UserSide, Takes, Ending, Apart
-----------------------------------------------------------------------------
(* The causes an action can leave behind last: took only grows, and the    *)
(* other variables they are read from change in one direction.             *)
LEMMA CausesStay ==
  ASSUME EndInv, UNCHANGED <<shellReturn, took>>, up' \in SUBSET up,
         full' = full \/ full' # "no", failed \subseteq failed',
         set' = set \/ set' = "removed"
  PROVE  EndInv'
<1>1. MayRefuse => MayRefuse'
  BY DEF MayRefuse
<1>2. \A lines : TookOneOf(lines)' = TookOneOf(lines)
  BY DEF TookOneOf
<1>. QED  BY <1>1, <1>2 DEF EndInv

LEMMA EndTakes ==
  ASSUME Types, PairInv, EndInv, Takes PROVE EndInv'
<1>1. PICK loop \in {"server", "user"} : TakeLine(loop)
  BY TakesLine
<1>2. PICK l : l = NextLine
  OBVIOUS
<1>3. /\ Head(l) \in Pieces
      /\ Head(l).from = "user" => Last(l) = Head(l)
      /\ loop = "server" /\ Head(l).part = "head" => Last(l).line = Head(l).line
      /\ loop = "server" => Head(l).from = "server"
      /\ loop = "server" /\ ~Cut => Head(l).part = "head"
      /\ loop = "user" /\ ~Cut => Head(l).from = "user"
  BY <1>1, <1>2, TakenLine
<1>4. PICK N \in Nat : N = Len(took)
  BY DEF Types
<1>5. /\ DOMAIN took = 1..N /\ DOMAIN took' = 1..N+1 /\ took'[N + 1] = l
      /\ \A k \in 1..N : took'[k] = took[k]
  <2>1. took' = Append(took, l)
    BY <1>1, <1>2 DEF TakeLine
  <2>2. PICK T : took \in Seq(T) /\ l \in T
    <3>1. combuf \in Seq(Pieces) /\ LineEnd # {}
      BY <1>1 DEF Types, TakeLine
    <3>. QED  BY <1>2, <3>1, FirstLine DEF Types
  <2>. QED  BY <1>4, <2>1, <2>2, AppendProperties
<1>6. up' = up /\ full' = full /\ set' = set
  BY <1>1 DEF TakeLine, env
<1>7. failed \subseteq failed' /\ (MayRefuse => MayRefuse')
  <2>1. failed' = failed \/ Refused
    <3>1. CASE ServerLine
      <4>1. loop = "server"
        BY <1>1, <3>1 DEF ServerLine, TakeLine
      <4>2. Head(NextLine).line \in Reply
        BY <1>2, <1>3, <4>1, PieceTypes DEF Pieces
      <4>3. Head(NextLine).line \in {"TEXT", "RESULT", "SENDLIST"}
        BY <4>2 DEF Reply
      <4>. QED  BY <3>1, <4>3 DEF ServerLine, Shown
    <3>2. CASE ~ServerLine
      BY <3>2 DEF Takes, ServerLineFails, Exit, Show, Download, Results, PassOn, BrokenPipe, Shown
    <3>. QED  BY <3>1, <3>2
  <2>. QED  BY <1>6, <2>1 DEF Refused, MayRefuse
<1>8. ~Cut => \A k \in DOMAIN took' : ~Headless(took'[k])
  <2>1. \A k \in 1..N+1 : k \in 1..N \/ k = N + 1
    OBVIOUS
  <2>2. ~Cut => ~Headless(l)
    BY <1>3 DEF Headless
  <2>. QED  BY <1>5, <2>1, <2>2 DEF EndInv
<1>9. /\ \A lines : TookOneOf(lines) => TookOneOf(lines)'
      /\ (\E k \in DOMAIN took : Headless(took[k])) => \E k \in DOMAIN took' : Headless(took'[k])
  <2>1. \A k \in 1..N : k \in 1..N+1
    OBVIOUS
  <2>. QED  BY <1>5, <2>1 DEF TookOneOf
<1>10. /\ \A lines : Last(l).line \in lines => TookOneOf(lines)'
       /\ Headless(l) => \E k \in DOMAIN took' : Headless(took'[k])
  <2>1. N + 1 \in DOMAIN took' /\ took'[N + 1] = l
    BY <1>5
  <2>. QED  BY <2>1 DEF TookOneOf
<1>11. CASE shellReturn' = shellReturn
  <2>1. "poll" \in failed => "poll" \in failed'
    BY <1>7
  <2>2. /\ TookOneOf({"EXIT"}) => TookOneOf({"EXIT"})'
        /\ TookOneOf({"RESULT", "SENDLIST", "DOWNLOAD"}) => TookOneOf({"RESULT", "SENDLIST", "DOWNLOAD"})'
        /\ TookOneOf({"TEXT", "RESULTS", "HELP"}) => TookOneOf({"TEXT", "RESULTS", "HELP"})'
    BY <1>9
  <2>. QED  BY <1>6, <1>7, <1>8, <1>9, <1>11, <2>1, <2>2 DEF EndInv
<1>12. ASSUME NEW word \in Input, loop = "user", IsWord(word), word # "word" PROVE Last(l).line = word
  BY <1>2, <1>3, <1>12 DEF IsWord
<1>13. CASE Exit
  <2>1. loop = "user" /\ IsWord("EXIT") /\ shellReturn' = "success"
    BY <1>1, <1>13 DEF Exit, UserLine, TakeLine
  <2>2. Last(l).line \in {"EXIT"}
    BY <1>12, <2>1 DEF Input
  <2>. QED  BY <1>8, <1>10, <2>1, <2>2 DEF EndInv
<1>14. ASSUME shellReturn' = "failure", Last(l).line \in {"RESULT", "SENDLIST", "DOWNLOAD"} PROVE EndInv'
  <2>1. TookOneOf({"RESULT", "SENDLIST", "DOWNLOAD"})'
    BY <1>10, <1>14
  <2>. QED  BY <1>8, <1>14, <2>1 DEF EndInv
<1>15. ASSUME shellReturn' = "failure", Refused, Last(l).line \in {"TEXT", "RESULTS", "HELP"} PROVE EndInv'
  <2>1. TookOneOf({"TEXT", "RESULTS", "HELP"})'
    BY <1>10, <1>15
  <2>2. MayRefuse'
    BY <1>6, <1>15 DEF Refused, MayRefuse
  <2>. QED  BY <1>8, <1>15, <2>1, <2>2 DEF EndInv
<1>16. CASE ServerLine /\ shellReturn' # shellReturn
  <2>1. loop = "server"
    BY <1>1, <1>16 DEF ServerLine, TakeLine
  <2>2. Head(l).part = "head" /\ Head(l).line = "TEXT" /\ Refused /\ shellReturn' = "failure"
    BY <1>2, <1>16 DEF ServerLine
  <2>. QED  BY <1>3, <1>15, <2>1, <2>2
<1>17. CASE ServerLineFails
  <2>1. loop = "server" /\ shellReturn' = "failure"
    BY <1>1, <1>17 DEF ServerLineFails, TakeLine
  <2>2. CASE Head(l).part = "tail"
    <3>1. \E k \in DOMAIN took' : Headless(took'[k])
      BY <1>3, <1>10, <2>1, <2>2 DEF Headless
    <3>. QED  BY <1>8, <2>1, <3>1 DEF EndInv
  <2>3. CASE Head(l).part # "tail"
    <3>1. Head(l) \in ServerPieces
      BY <1>3, <2>1, PieceTypes DEF Pieces
    <3>2. Head(l).part = "head" /\ Head(l).line \in Reply /\ Head(l).line # "TEXT"
      BY <1>2, <1>17, <2>3, <3>1, PieceTypes DEF ServerLineFails
    <3>. QED  BY <1>3, <1>14, <2>1, <3>2 DEF Reply
  <2>. QED  BY <2>2, <2>3
<1>18. CASE Download /\ shellReturn' # shellReturn
  <2>1. loop = "user" /\ IsWord("DOWNLOAD") /\ shellReturn' = "failure"
    BY <1>1, <1>18 DEF Download, UserLine, TakeLine
  <2>2. Last(l).line = "DOWNLOAD"
    BY <1>12, <2>1 DEF Input
  <2>. QED  BY <1>14, <2>1, <2>2
<1>19. CASE Results /\ shellReturn' # shellReturn
  <2>1. loop = "user" /\ IsWord("RESULTS") /\ Refused /\ shellReturn' = "failure"
    BY <1>1, <1>19 DEF Results, UserLine, TakeLine
  <2>2. Last(l).line = "RESULTS"
    BY <1>12, <2>1 DEF Input
  <2>. QED  BY <1>15, <2>1, <2>2
<1>20. CASE PassOn /\ shellReturn' # shellReturn
  <2>1. CASE "server" \notin up
    <3>1. shellReturn' = "failure"
      BY <1>20 DEF PassOn
    <3>. QED  BY <1>6, <1>8, <2>1, <3>1 DEF EndInv
  <2>2. CASE "server" \in up
    <3>1. UserLine("HELP") /\ Refused /\ shellReturn' = "failure"
      BY <1>20, <2>2 DEF PassOn
    <3>2. loop = "user" /\ IsWord("HELP")
      BY <1>1, <3>1 DEF UserLine, TakeLine
    <3>3. Last(l).line = "HELP"
      BY <1>12, <3>2 DEF Input
    <3>. QED  BY <1>15, <3>1, <3>3
  <2>. QED  BY <2>1, <2>2
<1>21. CASE Show \/ BrokenPipe
  BY <1>11, <1>21 DEF Show, BrokenPipe
<1>. QED  BY <1>11, <1>13, <1>16, <1>17, <1>18, <1>19, <1>20, <1>21 DEF Takes

LEMMA EndStep == Types /\ PairInv /\ EndInv /\ [Next]_vars => EndInv'
<1> SUFFICES ASSUME Types, PairInv, EndInv, [Next]_vars PROVE EndInv'
  OBVIOUS
<1>1. CASE Takes
  BY <1>1, EndTakes
<1>2. CASE Ending /\ ~LinesDone
  BY <1>2 DEF Ending, ServerClosed, UserClosed, BufferFull, PollFails, NothingFromServer, env, EndInv
<1>3. CASE LinesDone \/ ReadServer \/ ReadUser
  BY <1>3, CausesStay DEF LinesDone, ReadServer, ReadUser, env
<1>4. CASE Apart
  BY <1>4, CausesStay DEF Apart, Closes, FillsUp, OtherConnects, SetRemoved, main
<1>5. CASE (\E r \in Replies : ServerSends(r)) \/ TailArrives \/ (\E i \in Inputs : UserTypes(i))
  BY <1>5, CausesStay DEF ServerSends, TailArrives, UserTypes, main
<1>6. CASE \E i \in 1..MaxReplies + MaxInputs : ChildStep(i)
  BY <1>6, CausesStay DEF ChildStep, env
<1>7. CASE UNCHANGED vars
  BY <1>7, CausesStay DEF vars
<1>. QED  BY <1>1, <1>2, <1>3, <1>4, <1>5, <1>6, <1>7
             DEF Next, Main, ServerSide, UserSide, Takes, Ending, Apart, Ending, Apart

(* The client gives up only for the causes it may have, ends well only if  *)
(* the user wanted it to, and never takes the middle of a reply for a line *)
(* if the replies arrive whole (main, processServerReply).                 *)
THEOREM EndsForAReason == Spec => []WhyItEnds
<1>1. Init => OnceInv /\ PairInv /\ EndInv
  BY OnceInit, PairInit
<1>2. OnceInv /\ PairInv /\ EndInv /\ [Next]_vars => (OnceInv /\ PairInv /\ EndInv)'
  BY OnceStep, OnceTypes, PairStep, EndStep
<1>3. EndInv => WhyItEnds
  BY DEF EndInv, WhyItEnds
<1>. QED  BY <1>1, <1>2, <1>3, PTL DEF Spec
-----------------------------------------------------------------------------
(* The table of children, for every size of an item and every initial      *)
(* size, also one that is no multiple of an item.                          *)

(* Multiplication by a positive number is strictly monotonic.              *)
LEMMA LessCancel ==
  ASSUME NEW s \in Nat \ {0}, NEW x \in Nat, NEW y \in Nat, s * x < s * y
  PROVE  x < y
<1>1. SUFFICES ASSUME x >= y PROVE FALSE
  OBVIOUS
<1>2. PICK d \in Nat : x = y + d
  <2>1. x - y \in Nat /\ x = y + (x - y)
    BY <1>1
  <2> QED BY <2>1
<1>3. s * x = s * y + s * d
  BY <1>2
<1>4. s * d \in Nat /\ s * x \in Nat /\ s * y \in Nat
  BY SMT
<1> QED BY <1>3, <1>4

(* And weakly so in its second factor.                                     *)
LEMMA TimesMono ==
  ASSUME NEW s \in Nat, NEW x \in Nat, NEW y \in Nat, x <= y
  PROVE  s * x <= s * y
<1>1. PICK d \in Nat : y = x + d
  <2>1. y - x \in Nat /\ y = x + (y - x)
    OBVIOUS
  <2> QED BY <2>1
<1>2. s * y = s * x + s * d
  BY <1>1
<1>3. s * d \in Nat /\ s * x \in Nat
  BY SMT
<1> QED BY <1>2, <1>3

(* A positive factor does not make a number smaller.                       *)
LEMMA AtLeast ==
  ASSUME NEW s \in Nat \ {0}, NEW x \in Nat
  PROVE  x <= s * x
<1>1. x * 1 <= x * s
  BY TimesMono
<1> QED BY <1>1

(* If the test of addArrayItem finds room, the block has it too.           *)
LEMMA RoomIsAllocated ==
  ASSUME TableInv, ~Full
  PROVE  ItemSize * (itemcount + 1) <= alloc
<1> DEFINE n == itemcount
<1>1. n \in Nat
  BY DEF TableInv, TableTypeOK, itemcount
<1>2. ItemSize \in Nat \ {0}
  BY ChildTableAssumption
<1>3. ItemSize * (n + 1) < memsize
  <2>1. ItemSize * (n + 1) \in Nat
    BY <1>1, <1>2, SMT
  <2> QED BY <2>1 DEF TableInv, TableTypeOK, Full
<1>4. CASE memsize = alloc
  <2>1. ItemSize * (n + 1) \in Nat
    BY <1>1, <1>2, SMT
  <2> QED BY <1>3, <1>4, <2>1 DEF TableInv, TableTypeOK
<1>5. CASE \E a \in 0..alloc : alloc = ItemSize * a /\ memsize <= ItemSize * (a + 1)
  <2>1. PICK a \in 0..alloc : alloc = ItemSize * a /\ memsize <= ItemSize * (a + 1)
    BY <1>5
  <2>0. a \in Nat
    BY DEF TableInv, TableTypeOK
  <2>2. ItemSize * (n + 1) \in Nat /\ ItemSize * (a + 1) \in Nat
    BY <1>1, <1>2, <2>0, SMT
  <2>3. ItemSize * (n + 1) < ItemSize * (a + 1)
    BY <1>3, <2>1, <2>2 DEF TableInv, TableTypeOK
  <2>4. n + 1 < a + 1
    BY <2>3, <2>0, <1>1, <1>2, LessCancel
  <2>5. n + 1 <= a
    BY <2>4, <1>1, <2>0
  <2>6. ItemSize * (n + 1) <= ItemSize * a
    BY <2>5, <2>0, <1>1, <1>2, TimesMono
  <2> QED BY <2>6, <2>1
<1> QED BY <1>4, <1>5 DEF TableInv, SizesAgree

LEMMA TableInitInv == TableInit => TableInv
<1> SUFFICES ASSUME TableInit PROVE TableInv
  OBVIOUS
<1>1. TableTypeOK /\ SizesAgree
  BY ChildTableAssumption DEF TableInit, TableTypeOK, SizesAgree
<1>2. extent = ItemSize * itemcount /\ extent <= alloc
  BY ChildTableAssumption DEF TableInit, itemcount
<1> QED BY <1>1, <1>2 DEF TableInv, WithinBlock

LEMMA TableNextInv == TableInv /\ [TableNext]_tableVars => TableInv'
<1> SUFFICES ASSUME TableInv, [TableNext]_tableVars PROVE TableInv'
  OBVIOUS
<1> USE DEF TableInv
<1>0. /\ ItemSize \in Nat \ {0} /\ itemcount \in Nat
      /\ memsize \in Nat /\ alloc \in Nat
  BY ChildTableAssumption DEF TableTypeOK, itemcount
<1>00. ItemSize * (itemcount + 1) \in Nat /\ ItemSize * (itemcount + 10) \in Nat /\ ItemSize * 10 \in Nat
  BY <1>0, SMT
<1>1. ASSUME NEW c \in Children, AddChild(c) PROVE TableInv'
  <2> USE <1>1 DEF AddChild, Adding, Store
  <2>1. TableTypeOK'
    BY <1>00 DEF TableTypeOK
  <2>2. itemcount' = itemcount + 1
    BY DEF TableTypeOK, itemcount
  <2>3. extent' = ItemSize * itemcount'
    BY <2>2
  <2>4. WithinBlock'
    BY RoomIsAllocated DEF WithinBlock
  <2>5. SizesAgree'
    BY DEF SizesAgree
  <2> QED BY <2>1, <2>3, <2>4, <2>5
<1>2. ASSUME NEW c \in Children, AddChildGrowing(c) PROVE TableInv'
  <2> USE <1>2 DEF AddChildGrowing, Adding, Store, NewSize
  <2>1. TableTypeOK'
    BY <1>0, <1>00 DEF TableTypeOK
  <2>2. itemcount' = itemcount + 1
    BY DEF TableTypeOK, itemcount
  <2>3. extent' = ItemSize * itemcount'
    BY <2>2
  <2>4. ItemSize * (itemcount + 1) <= ItemSize * (itemcount + 10)
    <3>1. itemcount + 1 \in Nat /\ itemcount + 10 \in Nat /\ itemcount + 1 <= itemcount + 10
      BY <1>0
    <3> QED BY <1>0, <3>1, TimesMono
  <2>5. WithinBlock'
    BY <2>4 DEF WithinBlock
  <2>6. SizesAgree'
    <3>1. ItemSize * (itemcount + 11) = ItemSize * (itemcount + 1) + ItemSize * 10
      BY <1>0, SMT
    <3>2. memsize + ItemSize * 10 <= ItemSize * (itemcount + 11)
      BY <3>1, <1>0, <1>00 DEF Full
    <3>3. itemcount + 10 \in Nat /\ (itemcount + 10) + 1 = itemcount + 11
      BY <1>0
    <3>4. itemcount + 10 <= ItemSize * (itemcount + 10)
      BY <1>0, <3>3, AtLeast
    <3>5. itemcount + 10 \in 0..ItemSize * (itemcount + 10)
      BY <1>00, <3>3, <3>4
    <3> QED BY <3>2, <3>3, <3>5 DEF SizesAgree
  <2> QED BY <2>1, <2>3, <2>5, <2>6
<1>3. ASSUME NEW c \in Children, AddChildFails(c) PROVE TableInv'
  BY <1>3 DEF AddChildFails, Adding, TableTypeOK, WithinBlock, SizesAgree, itemcount
<1>4. CASE UNCHANGED tableVars
  BY <1>4 DEF tableVars, TableTypeOK, WithinBlock, SizesAgree, itemcount
<1> QED BY <1>1, <1>2, <1>3, <1>4 DEF TableNext

(* The inductive invariant holds in every reachable state.                 *)
THEOREM TableInvariant == TableSpec => []TableInv
BY TableInitInv, TableNextInv, PTL DEF TableSpec

(* addArrayItem never writes beyond the block realloc gave it.             *)
THEOREM NeverPastTheBlock == TableSpec => []WithinBlock
<1>1. TableInv => WithinBlock
  BY DEF TableInv
<1> QED BY <1>1, TableInvariant, PTL

(* memsize is never more than one item ahead of the block.                 *)
THEOREM AtMostOneItemAhead == TableSpec => []SizesAgree
<1>1. TableInv => SizesAgree
  BY DEF TableInv
<1> QED BY <1>1, TableInvariant, PTL

(* A child in the table keeps its place.                                   *)
THEOREM ChildrenKeepTheirPlace == TableSpec => TableGrows
<1> DEFINE A == /\ Len(items') >= Len(items)
                /\ SubSeq(items', 1, Len(items)) = items
<1>1. TableInv /\ [TableNext]_tableVars => [A]_tableVars
  <2> SUFFICES ASSUME TableInv, TableNext PROVE A
    OBVIOUS
  <2>1. items \in Seq(Children)
    BY DEF TableInv, TableTypeOK
  <2>2. CASE items' = items
    BY <2>1, <2>2
  <2>3. ASSUME NEW c \in Children, items' = Append(items, c) PROVE A
    BY <2>1, <2>3
  <2> QED BY <2>2, <2>3 DEF TableNext, AddChild, AddChildGrowing, AddChildFails, Store
<1> QED BY <1>1, TableInvariant, PTL DEF TableSpec, TableGrows
=============================================================================
