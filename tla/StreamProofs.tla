---------------------------- MODULE StreamProofs ----------------------------
(***************************************************************************)
(* Proofs about what crosses a stream.  First the transfer of a list, for  *)
(* every share, all names and sizes and every width of an int; the         *)
(* worker's buffer is empty when the transfer begins, as in the run        *)
(* (Inherited = {<<>>}).  Then the cutting of any stream into lines        *)
(* (LineStream), for every stream, buffer and token and however read cuts  *)
(* the stream.                                                             *)
(***************************************************************************)
EXTENDS ListTransfer, LineStream, SequenceLemmas, FiniteSetTheorems, TLAPS

Lines == Names \cup IntRange

(* The files that were sent, in the order of the walk.                     *)
Sent == Only(SubSeq(share, 1, at), Files)

(* What is on its way when the worker is through with r of the files F and *)
(* has read h lines of the next: their pairs, and if t is 1 the name x that *)
(* no size follows.                                                        *)
Pairs(F, n, h, r, t, x) ==
  /\ Len(n) = 2 * (Len(F) - r) - h + t
  /\ \A k \in r+1..Len(F) :
       /\ 2 * (k - r) - h > 1 => n[2 * (k - r) - h - 1] = F[k].name
       /\ n[2 * (k - r) - h] = AsInt(F[k].size)
  /\ t = 1 /\ n # <<>> => n[Len(n)] = x

(* The name that was read last, with r files done: the next file's, or x.  *)
NameOf(F, r, x) == IF r < Len(F) THEN F[r + 1].name ELSE x

(* The sender was killed between the name of a file and its size.          *)
NextName == share[at + 1].name
Torn == send = "killed" /\ at < Len(share) /\ share[at + 1] \in Files

(* What is listed: the files done whose size came through, and perhaps the *)
(* one without a size.                                                     *)
Listed(F, r) == NamesOf(Only(SubSeq(F, 1, r), Sized))
ListedAs(F, r) ==
  \/ NamesOf(list) = Listed(F, r)
  \/ /\ Torn /\ r = Len(F) /\ net = <<>> /\ recv # "size"
     /\ NamesOf(list) = Append(Listed(F, r), NextName)

Transfer ==
  \E r \in 0..Len(Sent), t \in {0, 1} :
    /\ recv = "name" => Pairs(Sent, net, 0, r, t, NextName)
    /\ recv = "size" => Pairs(Sent, net, 1, r, t, NextName) /\ file.name = NameOf(Sent, r, NextName)
    /\ t = 1 => Torn
    /\ ListedAs(Sent, r)
    /\ send = "ok" /\ status = -2 => r = Len(Sent)

Entries == [name : Lines \cup {NoText}, size : Int]
Types ==
  /\ send \in {"walk", "ok", "failed", "killed"} /\ recv \in {"name", "size", "ended"}
  /\ share \in Seq(Item) /\ at \in 0..Len(share)
  /\ file \in Entries /\ list \in Seq(Entries) /\ net \in Seq(Lines)
  /\ dirs = 1 + Len(Only(SubSeq(share, 1, at), Dirs))

(* How the two sides may stop.                                             *)
Endings ==
  /\ status \in {0, -2, -3} /\ (status = 0 <=> recv # "ended")
  /\ send = "walk" /\ recv = "ended" => status = -3
  /\ send = "ok" => at = Len(share)
  /\ send = "failed" /\ status # -3 =>
       \/ \E i \in 1..Len(share) : share[i].kind = "unreadable"
       \/ Len(Only(share, Dirs)) >= OpenDirs

TransferInv == Types /\ Endings /\ Transfer

(* A number that went through an int is one.                               *)
LEMMA AnInt == ASSUME NEW n \in Int PROVE AsInt(n) \in IntRange
<1>1. Half \in Nat /\ 2 * Half > 0 /\ 2 * Half \in Nat
  BY ListTransferAssumption
<1>2. (n + Half) % (2 * Half) \in 0..2 * Half - 1
  BY <1>1
<1>. QED  BY <1>1, <1>2 DEF AsInt, IntRange

LEMMA ItemKinds ==
  /\ Files \subseteq Item /\ Dirs \subseteq Item
  /\ \A i \in Item : /\ i.kind = "file" <=> i \in Files
                     /\ i.kind = "dir" <=> i \in Dirs
  /\ \A f \in Files : f.name \in Names /\ f.size \in Nat
<1>1. ASSUME NEW f \in Files PROVE f.kind = "file" /\ f.name \in Names /\ f.size \in Nat
  BY ListTransferAssumption DEF Files
<1>2. PICK d, u : d = [kind |-> "dir"] /\ u = [kind |-> "unreadable"]
  OBVIOUS
<1>3. d.kind = "dir" /\ u.kind = "unreadable"
  BY <1>2
<1>4. Dirs = {d} /\ Item = Files \cup Dirs \cup {u}
  BY <1>2 DEF Dirs, Item
<1>. QED  BY <1>1, <1>3, <1>4

(* The names of a sequence.                                                *)
LEMMA NamesType ==
  ASSUME NEW A, NEW s \in Seq(A)
  PROVE  /\ NamesOf(s) \in Seq({x.name : x \in A}) /\ Len(NamesOf(s)) = Len(s)
         /\ \A k \in 1..Len(s) : NamesOf(s)[k] = s[k].name
<1>1. PICK N \in Nat : N = Len(s)
  OBVIOUS
<1>2. PICK B : B = {x.name : x \in A}
  OBVIOUS
<1>3. \A k \in 1..N : s[k].name \in B
  BY <1>1, <1>2
<1>4. PICK n : n = NamesOf(s)
  OBVIOUS
<1>5. n = [k \in 1..N |-> s[k].name]
  BY <1>1, <1>4 DEF NamesOf
<1>6. n \in Seq(B) /\ Len(n) = N /\ \A k \in 1..N : n[k] = s[k].name
  BY <1>3, <1>5
<1>. QED  BY <1>1, <1>2, <1>4, <1>6

LEMMA NamesEmpty == NamesOf(<<>>) = <<>>
<1>1. Len(<<>>) = 0
  OBVIOUS
<1>. QED  BY <1>1 DEF NamesOf

LEMMA NamesAppend ==
  ASSUME NEW A, NEW s \in Seq(A), NEW x \in A
  PROVE  NamesOf(Append(s, x)) = Append(NamesOf(s), x.name)
<1>1. PICK B : B = {y.name : y \in A}
  OBVIOUS
<1>2. PICK u \in Seq(A) : /\ u = Append(s, x) /\ Len(u) = Len(s) + 1 /\ u[Len(s) + 1] = x
                          /\ \A k \in 1..Len(s) : u[k] = s[k]
  <2>1. /\ Append(s, x) \in Seq(A) /\ Len(Append(s, x)) = Len(s) + 1 /\ Append(s, x)[Len(s) + 1] = x
        /\ \A k \in 1..Len(s) : Append(s, x)[k] = s[k]
    BY AppendProperties
  <2>. QED  BY <2>1
<1>3. PICK n, v : n = NamesOf(s) /\ v = NamesOf(u)
  OBVIOUS
<1>4. /\ n \in Seq(B) /\ Len(n) = Len(s) /\ \A k \in 1..Len(s) : n[k] = s[k].name
      /\ v \in Seq(B) /\ Len(v) = Len(u) /\ \A k \in 1..Len(u) : v[k] = u[k].name
  BY <1>1, <1>2, <1>3, NamesType
<1>5. Len(v) = Len(n) + 1 /\ Len(n) \in Nat
  BY <1>2, <1>4
<1>6. \A k \in 1..Len(n) : v[k] = n[k]
  BY <1>2, <1>4, <1>5
<1>7. v[Len(n) + 1] = x.name
  BY <1>2, <1>4, <1>5
<1>8. v = Append(n, v[Len(n) + 1])
  BY <1>4, <1>5, <1>6, IsAppend
<1>. QED  BY <1>2, <1>3, <1>7, <1>8

LEMMA NamesConcat ==
  ASSUME NEW A, NEW s \in Seq(A), NEW t \in Seq(A)
  PROVE  NamesOf(s \o t) = NamesOf(s) \o NamesOf(t)
<1>1. PICK B : B = {y.name : y \in A}
  OBVIOUS
<1>2. PICK u : u = s \o t
  OBVIOUS
<1>3. /\ u \in Seq(A) /\ Len(u) = Len(s) + Len(t) /\ Len(s) \in Nat /\ Len(t) \in Nat
      /\ \A k \in 1..Len(s) + Len(t) : u[k] = IF k <= Len(s) THEN s[k] ELSE t[k - Len(s)]
  BY <1>2, ConcatProperties
<1>4. PICK v, n, m : v = NamesOf(u) /\ n = NamesOf(s) /\ m = NamesOf(t)
  OBVIOUS
<1>5. /\ v \in Seq(B) /\ Len(v) = Len(u) /\ \A k \in 1..Len(u) : v[k] = u[k].name
      /\ n \in Seq(B) /\ Len(n) = Len(s) /\ \A k \in 1..Len(s) : n[k] = s[k].name
      /\ m \in Seq(B) /\ Len(m) = Len(t) /\ \A k \in 1..Len(t) : m[k] = t[k].name
  BY <1>1, <1>3, <1>4, NamesType
<1>6. PICK w : w = n \o m
  OBVIOUS
<1>7. /\ w \in Seq(B) /\ Len(w) = Len(s) + Len(t)
      /\ \A k \in 1..Len(s) + Len(t) : w[k] = IF k <= Len(s) THEN n[k] ELSE m[k - Len(s)]
  <2>1. n \in Seq(B) /\ m \in Seq(B) /\ Len(n) = Len(s) /\ Len(m) = Len(t)
    BY <1>5
  <2>2. n \o m \in Seq(B) /\ Len(n \o m) = Len(n) + Len(m)
    BY <2>1, ConcatProperties
  <2>3. \A k \in 1..Len(n) + Len(m) : (n \o m)[k] = IF k <= Len(n) THEN n[k] ELSE m[k - Len(n)]
    BY <2>1, ConcatProperties
  <2>. QED  BY <1>6, <2>1, <2>2, <2>3
<1>8. ASSUME NEW k \in 1..Len(s) + Len(t) PROVE v[k] = w[k]
  <2>1. CASE k <= Len(s)
    <3>1. k \in 1..Len(s) /\ k \in 1..Len(u)
      BY <1>3, <2>1
    <3>. QED  BY <1>3, <1>5, <1>7, <2>1, <3>1
  <2>2. CASE ~(k <= Len(s))
    <3>1. k - Len(s) \in 1..Len(t)
      BY <1>3, <2>2
    <3>. QED  BY <1>3, <1>5, <1>7, <2>2, <3>1
  <2>. QED  BY <2>1, <2>2
<1>9. v = w
  BY <1>3, <1>5, <1>7, <1>8, SeqEqual
<1>. QED  BY <1>2, <1>4, <1>6, <1>9

(* One element further in a sequence.                                      *)
LEMMA OneMore ==
  ASSUME NEW A, NEW s \in Seq(A), NEW n \in 0..Len(s), n < Len(s)
  PROVE  /\ SubSeq(s, 1, n) \in Seq(A) /\ s[n + 1] \in A
         /\ SubSeq(s, 1, n + 1) = Append(SubSeq(s, 1, n), s[n + 1])
<1>1. n \in Nat /\ Len(s) \in Nat /\ n + 1 \in 1..Len(s) /\ n + 1 \in Nat
  OBVIOUS
<1>2. s[n + 1] \in A
  BY <1>1
<1>3. PICK u \in Seq(A), v \in Seq(A) :
        /\ u = SubSeq(s, 1, n) /\ v = SubSeq(s, 1, n + 1) /\ Len(u) = n /\ Len(v) = n + 1
        /\ \A k \in 1..n : u[k] = s[k]
        /\ \A k \in 1..n+1 : v[k] = s[k]
  <2>1. PICK m \in Int : m = n + 1
    BY <1>1
  <2>2. ASSUME NEW i \in {n, m}
        PROVE  /\ SubSeq(s, 1, i) \in Seq(A) /\ Len(SubSeq(s, 1, i)) = i
               /\ \A k \in 1..i : SubSeq(s, 1, i)[k] = s[k]
    <3>1. i \in Nat /\ i \in Int /\ \A k \in 1..i : s[k] \in A
      BY <1>1, <2>1
    <3>2. /\ SubSeq(s, 1, i) \in Seq(A)
          /\ Len(SubSeq(s, 1, i)) = IF 1 <= i THEN i - 1 + 1 ELSE 0
          /\ \A k \in 1..i - 1 + 1 : SubSeq(s, 1, i)[k] = s[1 + k - 1]
      BY <3>1, SubSeqProperties
    <3>. QED  BY <3>1, <3>2
  <2>3. /\ SubSeq(s, 1, n) \in Seq(A) /\ Len(SubSeq(s, 1, n)) = n
        /\ \A k \in 1..n : SubSeq(s, 1, n)[k] = s[k]
    BY <2>2
  <2>4. /\ SubSeq(s, 1, m) \in Seq(A) /\ Len(SubSeq(s, 1, m)) = m
        /\ \A k \in 1..m : SubSeq(s, 1, m)[k] = s[k]
    BY <2>2
  <2>. QED  BY <2>1, <2>3, <2>4
<1>4. Len(v) = Len(u) + 1 /\ (\A k \in 1..Len(u) : v[k] = u[k]) /\ v[Len(u) + 1] = s[n + 1]
  BY <1>1, <1>3
<1>5. v = Append(u, v[Len(u) + 1])
  BY <1>3, <1>4, IsAppend
<1>. QED  BY <1>2, <1>3, <1>4, <1>5

LEMMA OnlyFurther ==
  ASSUME NEW A, NEW s \in Seq(A), NEW n \in 0..Len(s), n < Len(s), NEW S
  PROVE  /\ Only(SubSeq(s, 1, n), S) \in Seq(A)
         /\ Only(SubSeq(s, 1, n + 1), S) =
              IF s[n + 1] \in S THEN Append(Only(SubSeq(s, 1, n), S), s[n + 1])
              ELSE Only(SubSeq(s, 1, n), S)
<1>1. PICK u \in Seq(A), x \in A :
        u = SubSeq(s, 1, n) /\ x = s[n + 1] /\ SubSeq(s, 1, n + 1) = Append(u, x)
  BY OneMore
<1>2. Only(u, S) \in Seq(A)
  BY <1>1, OnlySeq
<1>3. Only(Append(u, x), S) = IF x \in S THEN Append(Only(u, S), x) ELSE Only(u, S)
  <2>1. u \in Seq(A) /\ x \in A
    BY <1>1
  <2>2. \A y \in A : Only(Append(u, y), S) = IF y \in S THEN Append(Only(u, S), y) ELSE Only(u, S)
    BY <2>1, OnlyAppend
  <2>. QED  BY <2>1, <2>2
<1>. QED  BY <1>1, <1>2, <1>3
-----------------------------------------------------------------------------
(* The two lines of a file.                                                *)
LEMMA LinesOfFile ==
  ASSUME NEW f \in Files
  PROVE  /\ <<f.name, AsInt(f.size)>> \in Seq(Lines) /\ Len(<<f.name, AsInt(f.size)>>) = 2
         /\ <<f.name, AsInt(f.size)>>[1] = f.name /\ <<f.name, AsInt(f.size)>>[2] = AsInt(f.size)
<1>1. f.name \in Lines /\ AsInt(f.size) \in Lines
  BY ItemKinds, AnInt DEF Lines
<1>2. PICK b \in Lines, c \in Lines : b = f.name /\ c = AsInt(f.size)
  BY <1>1
<1>3. PICK q : q = <<b, c>>
  OBVIOUS
<1>4. q \in Seq(Lines) /\ Len(q) = 2 /\ q[1] = b /\ q[2] = c
  BY <1>2, <1>3
<1>. QED  BY <1>2, <1>3, <1>4

(* A file that is sent adds its name and its size.                         *)
LEMMA PairsSend ==
  ASSUME NEW F \in Seq(Files), NEW n \in Seq(Lines), NEW h \in {0, 1}, NEW r \in 0..Len(F), NEW x, NEW z,
         NEW f \in Files, Pairs(F, n, h, r, 0, x)
  PROVE  /\ Pairs(Append(F, f), n \o <<f.name, AsInt(f.size)>>, h, r, 0, z)
         /\ n \o <<f.name, AsInt(f.size)>> \in Seq(Lines)
<1>1. PICK N \in Nat, L \in Nat : N = Len(F) /\ L = Len(n)
  OBVIOUS
<1>2. PICK G \in Seq(Files) : /\ G = Append(F, f) /\ Len(G) = N + 1 /\ G[N + 1] = f
                              /\ \A k \in 1..N : G[k] = F[k]
  <2>1. /\ Append(F, f) \in Seq(Files) /\ Len(Append(F, f)) = N + 1 /\ Append(F, f)[N + 1] = f
        /\ \A k \in 1..N : Append(F, f)[k] = F[k]
    BY <1>1, AppendProperties
  <2>. QED  BY <2>1
<1>3. PICK p \in Seq(Lines) : p = <<f.name, AsInt(f.size)>> /\ Len(p) = 2 /\ p[1] = f.name /\ p[2] = AsInt(f.size)
  BY LinesOfFile
<1>4. PICK m \in Seq(Lines) : /\ m = n \o p /\ Len(m) = L + 2
                              /\ \A k \in 1..L : m[k] = n[k]
                              /\ m[L + 1] = f.name /\ m[L + 2] = AsInt(f.size)
  <2>0. PICK q : q = n \o p
    OBVIOUS
  <2>1. /\ q \in Seq(Lines) /\ Len(q) = L + 2
        /\ \A k \in 1..L + 2 : q[k] = IF k <= L THEN n[k] ELSE p[k - L]
    BY <1>1, <1>3, <2>0, ConcatProperties
  <2>2. /\ L + 1 \in 1..L+2 /\ L + 2 \in 1..L+2 /\ (L + 1) - L = 1 /\ (L + 2) - L = 2
        /\ \A k \in 1..L : k \in 1..L+2 /\ k <= L
    BY <1>1
  <2>3. (\A k \in 1..L : q[k] = n[k]) /\ q[L + 1] = f.name /\ q[L + 2] = AsInt(f.size)
    <3>1. \A k \in 1..L : q[k] = n[k]
      BY <2>1, <2>2
    <3>2. ~(L + 1 <= L) /\ ~(L + 2 <= L)
      BY <1>1
    <3>3. q[L + 1] = p[1] /\ q[L + 2] = p[2]
      BY <2>1, <2>2, <3>2
    <3>. QED  BY <1>3, <3>1, <3>3
  <2>. QED  BY <2>0, <2>1, <2>3
<1>5. L = 2 * (N - r) - h /\ r \in 0..N
  BY <1>1 DEF Pairs
<1>6. Len(m) = 2 * (Len(G) - r) - h + 0
  BY <1>1, <1>2, <1>4, <1>5
<1>7. ASSUME NEW k \in r+1..N+1
      PROVE  /\ 2 * (k - r) - h > 1 => m[2 * (k - r) - h - 1] = G[k].name
             /\ m[2 * (k - r) - h] = AsInt(G[k].size)
  <2>1. CASE k = N + 1
    <3>1. 2 * (k - r) - h = L + 2 /\ 2 * (k - r) - h - 1 = L + 1
      BY <1>1, <1>5, <2>1
    <3>. QED  BY <1>2, <1>4, <2>1, <3>1
  <2>2. CASE k \in r+1..N
    <3>1. /\ 2 * (k - r) - h \in 1..L
          /\ 2 * (k - r) - h > 1 => 2 * (k - r) - h - 1 \in 1..L
          /\ k \in 1..N
      BY <1>1, <1>5, <2>2
    <3>2. /\ 2 * (k - r) - h > 1 => n[2 * (k - r) - h - 1] = F[k].name
          /\ n[2 * (k - r) - h] = AsInt(F[k].size)
      BY <1>1, <2>2 DEF Pairs
    <3>. QED  BY <1>2, <1>4, <3>1, <3>2
  <2>. QED  BY <1>1, <2>1, <2>2
<1>8. Pairs(G, m, h, r, 0, z)
  <2>1. PICK M \in Nat, t \in {0, 1} : M = N + 1 /\ t = 0
    BY <1>1
  <2>2. Len(G) = M /\ Len(m) = 2 * (M - r) - h + t /\ t # 1
    BY <1>2, <1>6, <2>1
  <2>3. \A k \in r+1..M : /\ 2 * (k - r) - h > 1 => m[2 * (k - r) - h - 1] = G[k].name
                          /\ m[2 * (k - r) - h] = AsInt(G[k].size)
    BY <1>7, <2>1
  <2>4. Pairs(G, m, h, r, t, z)
    BY <2>2, <2>3 DEF Pairs
  <2>. QED  BY <2>1, <2>4
<1>. QED  BY <1>2, <1>3, <1>4, <1>8

(* The sender dies behind a name.                                          *)
LEMMA PairsTorn ==
  ASSUME NEW F \in Seq(Files), NEW n \in Seq(Lines), NEW h \in {0, 1}, NEW r \in 0..Len(F), NEW x \in Lines,
         Pairs(F, n, h, r, 0, x)
  PROVE  Pairs(F, Append(n, x), h, r, 1, x)
<1>1. PICK N \in Nat, L \in Nat : N = Len(F) /\ L = Len(n)
  OBVIOUS
<1>2. PICK m \in Seq(Lines) : /\ m = Append(n, x) /\ Len(m) = L + 1 /\ m[L + 1] = x
                              /\ \A k \in 1..L : m[k] = n[k]
  <2>1. /\ Append(n, x) \in Seq(Lines) /\ Len(Append(n, x)) = L + 1 /\ Append(n, x)[L + 1] = x
        /\ \A k \in 1..L : Append(n, x)[k] = n[k]
    BY <1>1, AppendProperties
  <2>. QED  BY <2>1
<1>3. L = 2 * (N - r) - h /\ r \in 0..N
  BY <1>1 DEF Pairs
<1>4. ASSUME NEW k \in r+1..N
      PROVE  /\ 2 * (k - r) - h > 1 => m[2 * (k - r) - h - 1] = F[k].name
             /\ m[2 * (k - r) - h] = AsInt(F[k].size)
  <2>1. /\ 2 * (k - r) - h \in 1..L
        /\ 2 * (k - r) - h > 1 => 2 * (k - r) - h - 1 \in 1..L
    BY <1>1, <1>3
  <2>2. /\ 2 * (k - r) - h > 1 => n[2 * (k - r) - h - 1] = F[k].name
        /\ n[2 * (k - r) - h] = AsInt(F[k].size)
    BY <1>1 DEF Pairs
  <2>. QED  BY <1>2, <2>1, <2>2
<1>5. Len(m) = 2 * (N - r) - h + 1
  BY <1>1, <1>2, <1>3
<1>. QED  BY <1>1, <1>2, <1>4, <1>5 DEF Pairs

(* What is left of the lines when one was read, seen from its front.       *)
LEMMA RestOf ==
  ASSUME NEW n \in Seq(Lines), n # <<>>
  PROVE  /\ Tail(n) \in Seq(Lines) /\ Len(Tail(n)) = Len(n) - 1 /\ Head(n) = n[1] /\ Len(n) \in Nat \ {0}
         /\ \A i \in 1..Len(n) - 1 : Tail(n)[i] = n[i + 1]
         /\ Tail(n) # <<>> => Len(n) > 1 /\ Tail(n)[Len(Tail(n))] = n[Len(n)]
<1>1. /\ Tail(n) \in Seq(Lines) /\ Len(Tail(n)) = Len(n) - 1 /\ Head(n) = n[1] /\ Len(n) \in Nat \ {0}
      /\ \A i \in 1..Len(Tail(n)) : Tail(n)[i] = n[i + 1]
  BY HeadTailProperties
<1>2. Tail(n) # <<>> => Len(Tail(n)) \in 1..Len(Tail(n))
  BY <1>1
<1>. QED  BY <1>1, <1>2

(* The worker reads a name.                                                *)
LEMMA PairsName ==
  ASSUME NEW F \in Seq(Files), NEW n \in Seq(Lines), NEW r \in 0..Len(F), NEW t \in {0, 1}, NEW x,
         Pairs(F, n, 0, r, t, x), n # <<>>
  PROVE  Pairs(F, Tail(n), 1, r, t, x) /\ Head(n) = NameOf(F, r, x)
<1>1. PICK N \in Nat, L \in Nat : N = Len(F) /\ L = Len(n) /\ L # 0
  OBVIOUS
<1>2. PICK m \in Seq(Lines) : /\ m = Tail(n) /\ Len(m) = L - 1 /\ \A i \in 1..L-1 : m[i] = n[i + 1]
                              /\ m # <<>> => L > 1 /\ m[Len(m)] = n[L]
  BY <1>1, RestOf
<1>3. L = 2 * (N - r) + t /\ r \in 0..N
  BY <1>1 DEF Pairs
<1>4. \A k \in r+1..N : /\ 2 * (k - r) > 1 => n[2 * (k - r) - 1] = F[k].name
                        /\ n[2 * (k - r)] = AsInt(F[k].size)
  BY <1>1 DEF Pairs
<1>5. ASSUME NEW k \in r+1..N
      PROVE  /\ 2 * (k - r) - 1 > 1 => m[2 * (k - r) - 1 - 1] = F[k].name
             /\ m[2 * (k - r) - 1] = AsInt(F[k].size)
  <2>1. /\ 2 * (k - r) - 1 \in 1..L-1 /\ (2 * (k - r) - 1) + 1 = 2 * (k - r) /\ 2 * (k - r) > 1
        /\ 2 * (k - r) - 1 > 1 => /\ 2 * (k - r) - 1 - 1 \in 1..L-1
                                  /\ (2 * (k - r) - 1 - 1) + 1 = 2 * (k - r) - 1
    BY <1>1, <1>3
  <2>. QED  BY <1>2, <1>4, <2>1
<1>6. Len(m) = 2 * (N - r) - 1 + t
  BY <1>1, <1>2, <1>3
<1>7. n[1] = NameOf(F, r, x)
  <2>1. CASE r < N
    <3>1. r + 1 \in r+1..N /\ 2 * ((r + 1) - r) > 1 /\ 2 * ((r + 1) - r) - 1 = 1
      BY <1>1, <1>3, <2>1
    <3>. QED  BY <1>1, <1>4, <2>1, <3>1 DEF NameOf
  <2>2. CASE r = N
    <3>1. t = 1 /\ L = 1 /\ ~(r < N)
      BY <1>1, <1>3, <2>2
    <3>. QED  BY <1>1, <3>1 DEF Pairs, NameOf
  <2>. QED  BY <1>1, <1>3, <2>1, <2>2
<1>8. t = 1 /\ m # <<>> => m[Len(m)] = x
  BY <1>1, <1>2 DEF Pairs
<1>9. Pairs(F, m, 1, r, t, x)
  BY <1>1, <1>5, <1>6, <1>8 DEF Pairs
<1>. QED  BY <1>2, <1>7, <1>9, RestOf

(* The worker reads a size: it is that of the file whose name it has.      *)
LEMMA PairsSize ==
  ASSUME NEW F \in Seq(Files), NEW n \in Seq(Lines), NEW r \in 0..Len(F), NEW t \in {0, 1}, NEW x,
         Pairs(F, n, 1, r, t, x), n # <<>>
  PROVE  r < Len(F) /\ Head(n) = AsInt(F[r + 1].size) /\ Pairs(F, Tail(n), 0, r + 1, t, x)
<1>1. PICK N \in Nat, L \in Nat : N = Len(F) /\ L = Len(n) /\ L # 0
  OBVIOUS
<1>2. PICK m \in Seq(Lines) : /\ m = Tail(n) /\ Len(m) = L - 1 /\ \A i \in 1..L-1 : m[i] = n[i + 1]
                              /\ m # <<>> => L > 1 /\ m[Len(m)] = n[L]
  BY <1>1, RestOf
<1>3. L = 2 * (N - r) - 1 + t /\ r \in 0..N /\ r < N
  BY <1>1 DEF Pairs
<1>4. \A k \in r+1..N : /\ 2 * (k - r) - 1 > 1 => n[2 * (k - r) - 1 - 1] = F[k].name
                        /\ n[2 * (k - r) - 1] = AsInt(F[k].size)
  BY <1>1 DEF Pairs
<1>5. ASSUME NEW k \in r+1+1..N
      PROVE  m[2 * (k - (r + 1)) - 0 - 1] = F[k].name /\ m[2 * (k - (r + 1)) - 0] = AsInt(F[k].size)
  <2>1. /\ 2 * (k - (r + 1)) - 0 \in 1..L-1 /\ (2 * (k - (r + 1)) - 0) + 1 = 2 * (k - r) - 1
        /\ 2 * (k - (r + 1)) - 0 - 1 \in 1..L-1 /\ (2 * (k - (r + 1)) - 0 - 1) + 1 = 2 * (k - r) - 1 - 1
        /\ 2 * (k - r) - 1 > 1 /\ k \in r+1..N
    BY <1>1, <1>3
  <2>. QED  BY <1>2, <1>4, <2>1
<1>6. Len(m) = 2 * (N - (r + 1)) - 0 + t
  BY <1>1, <1>2, <1>3
<1>7. n[1] = AsInt(F[r + 1].size)
  <2>1. r + 1 \in r+1..N /\ 2 * ((r + 1) - r) - 1 = 1
    BY <1>1, <1>3
  <2>. QED  BY <1>4, <2>1
<1>8. t = 1 /\ m # <<>> => m[Len(m)] = x
  BY <1>1, <1>2 DEF Pairs
<1>9. Pairs(F, m, 0, r + 1, t, x)
  BY <1>1, <1>5, <1>6, <1>8 DEF Pairs
<1>. QED  BY <1>1, <1>2, <1>3, <1>7, <1>9, RestOf

(* No line is left: every pair was read, or the last name has no size.     *)
LEMMA PairsOut ==
  ASSUME NEW F \in Seq(Files), NEW h \in {0, 1}, NEW r \in 0..Len(F), NEW t \in {0, 1}, NEW x,
         Pairs(F, <<>>, h, r, t, x)
  PROVE  r = Len(F) /\ t = h /\ Pairs(F, <<>>, 0, r, 0, x)
<1>1. PICK N \in Nat : N = Len(F)
  OBVIOUS
<1>2. Len(<<>>) = 0
  OBVIOUS
<1>3. 0 = 2 * (N - r) - h + t /\ r \in 0..N
  BY <1>1, <1>2 DEF Pairs
<1>4. r = N /\ t = h
  BY <1>1, <1>3
<1>5. Pairs(F, <<>>, 0, r, 0, x)
  BY <1>1, <1>2, <1>4 DEF Pairs
<1>. QED  BY <1>1, <1>4, <1>5

(* What is listed when one file more is done, or one more was sent.        *)
LEMMA ListedType ==
  ASSUME NEW F \in Seq(Files), NEW r \in 0..Len(F)
  PROVE  Only(SubSeq(F, 1, r), Sized) \in Seq(Files)
BY SplitAt, OnlySeq

LEMMA ListedNext ==
  ASSUME NEW F \in Seq(Files), NEW r \in 0..Len(F), r < Len(F)
  PROVE  Listed(F, r + 1) = IF AsInt(F[r + 1].size) >= 0
                            THEN Append(Listed(F, r), F[r + 1].name) ELSE Listed(F, r)
<1>1. PICK f \in Files : f = F[r + 1] /\ (f \in Sized <=> AsInt(f.size) >= 0)
  BY OneMore DEF Sized
<1>2. PICK o \in Seq(Files) : o = Only(SubSeq(F, 1, r), Sized)
  BY ListedType
<1>3. Only(SubSeq(F, 1, r + 1), Sized) = IF f \in Sized THEN Append(o, f) ELSE o
  BY <1>1, <1>2, OnlyFurther
<1>4. NamesOf(Append(o, f)) = Append(NamesOf(o), f.name)
  BY <1>1, <1>2, NamesAppend
<1>. QED  BY <1>1, <1>2, <1>3, <1>4 DEF Listed

LEMMA ListedKeeps ==
  ASSUME NEW F \in Seq(Files), NEW f \in Files, NEW r \in 0..Len(F)
  PROVE  Listed(Append(F, f), r) = Listed(F, r)
<1>1. PICK G \in Seq(Files) : /\ G = Append(F, f) /\ Len(G) = Len(F) + 1
                              /\ \A k \in 1..Len(F) : G[k] = F[k]
  <2>1. /\ Append(F, f) \in Seq(Files) /\ Len(Append(F, f)) = Len(F) + 1
        /\ \A k \in 1..Len(F) : Append(F, f)[k] = F[k]
    BY AppendProperties
  <2>. QED  BY <2>1
<1>2. r \in Int /\ \A k \in 1..r : F[k] \in Files /\ G[k] \in Files /\ F[k] = G[k]
  BY <1>1
<1>3. PICK a \in Seq(Files), b \in Seq(Files) :
        /\ a = SubSeq(F, 1, r) /\ b = SubSeq(G, 1, r) /\ Len(a) = r /\ Len(b) = r
        /\ \A k \in 1..r : a[k] = F[k] /\ b[k] = G[k]
  <2>1. ASSUME NEW s, \A k \in 1..r : s[k] \in Files
        PROVE  /\ SubSeq(s, 1, r) \in Seq(Files) /\ Len(SubSeq(s, 1, r)) = r
               /\ \A k \in 1..r : SubSeq(s, 1, r)[k] = s[k]
    <3>1. /\ SubSeq(s, 1, r) \in Seq(Files)
          /\ Len(SubSeq(s, 1, r)) = IF 1 <= r THEN r - 1 + 1 ELSE 0
          /\ \A k \in 1..r - 1 + 1 : SubSeq(s, 1, r)[k] = s[1 + k - 1]
      BY <1>2, <2>1, SubSeqProperties
    <3>. QED  BY <1>2, <3>1
  <2>. QED  BY <1>2, <2>1
<1>4. a = b
  BY <1>2, <1>3, SeqEqual
<1>. QED  BY <1>1, <1>3, <1>4 DEF Listed
(* What a filter keeps of a sequence begins with what it keeps of a prefix. *)
Continues(x, y, A) == \E a \in Seq(A) : x = y \o a

LEMMA OnlyPrefix ==
  ASSUME NEW A, NEW s \in Seq(A), NEW k \in 0..Len(s), NEW S
  PROVE  Continues(Only(s, S), Only(SubSeq(s, 1, k), S), A)
<1>1. PICK u, v : u = SubSeq(s, 1, k) /\ v = SubSeq(s, k + 1, Len(s))
  OBVIOUS
<1>2. u \in Seq(A) /\ v \in Seq(A) /\ u \o v = s
  BY <1>1, SplitAt
<1>3. Only(v, S) \in Seq(A)
  BY <1>2, OnlySeq
<1>4. Only(u \o v, S) = Only(u, S) \o Only(v, S)
  <2>1. \A x \in Seq(A), y \in Seq(A) : Only(x \o y, S) = Only(x, S) \o Only(y, S)
    BY OnlyConcat
  <2>. QED  BY <1>2, <2>1
<1>. QED  BY <1>1, <1>2, <1>3, <1>4 DEF Continues
-----------------------------------------------------------------------------
LEMMA SentType == ASSUME Types PROVE Sent \in Seq(Files)
<1>1. SubSeq(share, 1, at) \in Seq(Item)
  BY SplitAt DEF Types
<1>. QED  BY <1>1, OnlyIn DEF Sent

(* The walk goes one item on.                                              *)
LEMMA Walked ==
  ASSUME Types, at < Len(share), share' = share, at' = at + 1, NEW S
  PROVE  /\ at' \in 0..Len(share) /\ share[at + 1] \in Item
         /\ Only(SubSeq(share, 1, at), S) \in Seq(Item)
         /\ Only(SubSeq(share', 1, at'), S) =
              IF share[at + 1] \in S THEN Append(Only(SubSeq(share, 1, at), S), share[at + 1])
              ELSE Only(SubSeq(share, 1, at), S)
<1>1. PICK s \in Seq(Item), n \in Nat : n \in 0..Len(s) /\ s = share /\ n = at /\ n < Len(s)
  BY DEF Types
<1>2. n + 1 \in 0..Len(s) /\ n + 1 \in 1..Len(s)
  BY <1>1
<1>3. /\ Only(SubSeq(s, 1, n), S) \in Seq(Item)
      /\ Only(SubSeq(s, 1, n + 1), S) =
           IF s[n + 1] \in S THEN Append(Only(SubSeq(s, 1, n), S), s[n + 1])
           ELSE Only(SubSeq(s, 1, n), S)
  <2>1. s \in Seq(Item) /\ n \in 0..Len(s) /\ n < Len(s)
    BY <1>1
  <2>. QED  BY <2>1, OnlyFurther
<1>. QED  BY <1>1, <1>2, <1>3

LEMMA WalkedSoFar ==
  ASSUME Types, NEW S
  PROVE  Continues(Only(share, S), Only(SubSeq(share, 1, at), S), Item)
BY OnlyPrefix DEF Types

LEMMA OneMoreDir ==
  ASSUME Types, Walking("dir") PROVE Len(Only(share, Dirs)) >= dirs
<1>1. PICK s \in Seq(Item), n \in Nat, m \in Nat :
        s = share /\ n = at /\ m = n + 1 /\ {n, m} \subseteq 0..Len(s) /\ n < Len(s) /\ s[n + 1] \in Dirs
  BY ItemKinds DEF Types, Walking
<1>2. PICK o \in Seq(Item), d \in Item :
        o = Only(SubSeq(s, 1, n), Dirs) /\ d = s[n + 1] /\ Only(SubSeq(s, 1, m), Dirs) = Append(o, d)
  <2>1. s \in Seq(Item) /\ n \in 0..Len(s) /\ n < Len(s)
    BY <1>1
  <2>2. /\ Only(SubSeq(s, 1, n), Dirs) \in Seq(Item)
        /\ Only(SubSeq(s, 1, n + 1), Dirs) =
           IF s[n + 1] \in Dirs THEN Append(Only(SubSeq(s, 1, n), Dirs), s[n + 1])
           ELSE Only(SubSeq(s, 1, n), Dirs)
    BY <2>1, OnlyFurther
  <2>. QED  BY <1>1, <2>1, <2>2, ItemKinds
<1>3. PICK a \in Seq(Item) : Only(s, Dirs) = Append(o, d) \o a
  <2>1. s \in Seq(Item) /\ m \in 0..Len(s)
    BY <1>1
  <2>2. Continues(Only(s, Dirs), Only(SubSeq(s, 1, m), Dirs), Item)
    BY <2>1, OnlyPrefix
  <2>. QED  BY <1>2, <2>2 DEF Continues
<1>4. PICK p \in Seq(Item) : p = Append(o, d) /\ Len(p) = Len(o) + 1
  BY <1>2, AppendProperties
<1>5. Len(p \o a) = Len(p) + Len(a) /\ Len(a) \in Nat /\ Len(p) \in Nat /\ Len(o) \in Nat
  BY <1>2, <1>3, <1>4, ConcatProperties
<1>6. dirs = 1 + Len(o)
  BY <1>1, <1>2 DEF Types
<1>. QED  BY <1>1, <1>3, <1>4, <1>5, <1>6

LEMMA TransferInit ==
  ASSUME Inherited = {<<>>}, Init PROVE TransferInv
<1>1. /\ share \in Seq(Item) /\ at = 0 /\ dirs = 1 /\ send = "walk" /\ net = <<>> /\ recv = "name"
      /\ file \in Entries /\ list = <<>> /\ status = 0
  <2>1. share \in Seq(Item) /\ net = <<>>
    BY ListTransferAssumption DEF Init
  <2>2. file \in Entries
    <3>1. PICK nm, sz : file = [name |-> nm, size |-> sz] /\ nm = NoText /\ sz \in {0} \cup FileSizes
      BY DEF Init
    <3>2. \A x \in Lines \cup {NoText}, y \in Int : [name |-> x, size |-> y] \in Entries
      BY DEF Entries
    <3>. QED  BY <3>1, <3>2, ListTransferAssumption
  <2>. QED  BY <2>1, <2>2 DEF Init
<1>2. SubSeq(share, 1, at) = <<>> /\ at \in 0..Len(share)
  BY <1>1, SubSeqEmpty
<1>3. Only(SubSeq(share, 1, at), Dirs) = <<>> /\ Sent = <<>> /\ Len(<<>>) = 0
  BY <1>2, OnlyEmpty DEF Sent
<1>4. list \in Seq(Entries) /\ net \in Seq(Lines)
  BY <1>1
<1>5. Types
  BY <1>1, <1>2, <1>3, <1>4 DEF Types
<1>6. Endings
  BY <1>1 DEF Endings
<1>7. Pairs(Sent, net, 0, 0, 0, NextName)
  BY <1>1, <1>3 DEF Pairs
<1>8. NamesOf(list) = Listed(Sent, 0)
  <2>1. SubSeq(<<>>, 1, 0) = <<>>
    BY SubSeqEmpty
  <2>. QED  BY <1>1, <1>3, <2>1, OnlyEmpty DEF Listed
<1>9. 0 \in 0..Len(Sent)
  BY <1>3
<1>10. Transfer
  BY <1>1, <1>7, <1>8, <1>9 DEF Transfer, ListedAs
<1>. QED  BY <1>5, <1>6, <1>10 DEF TransferInv

(* A file is sent.                                                         *)
LEMMA SendFileInv ==
  ASSUME TransferInv, SendFile PROVE TransferInv'
<1>0. /\ Types /\ send = "walk" /\ at < Len(share) /\ share[at + 1].kind = "file"
      /\ at' = at + 1 /\ UNCHANGED <<share, dirs, send, recv, file, list, status>>
      /\ net' = net \o <<share[at + 1].name, AsInt(share[at + 1].size)>>
  BY DEF TransferInv, SendFile, Walking
<1>1. PICK f \in Files : f = share[at + 1] /\ f \notin Dirs
  <2>1. share[at + 1] \in Item
    BY <1>0, Walked
  <2>. QED  BY <1>0, <2>1, ItemKinds
<1>2. PICK F, n, z : /\ F \in Seq(Files) /\ F = Sent
                     /\ n \in Seq(Lines) /\ n = net
                     /\ z = NextName'
  BY <1>0, SentType DEF Types
<1>3. PICK G \in Seq(Files) : G = Append(F, f) /\ G = Sent' /\ Len(G) = Len(F) + 1
  <2>1. Append(F, f) = Sent'
    BY <1>0, <1>1, <1>2, Walked DEF Sent
  <2>2. Append(F, f) \in Seq(Files) /\ Len(Append(F, f)) = Len(F) + 1
    BY <1>1, <1>2, AppendProperties
  <2>. QED  BY <2>1, <2>2
<1>4. PICK m \in Seq(Lines) : m = net' /\ m = n \o <<f.name, AsInt(f.size)>>
  <2>1. n \o <<f.name, AsInt(f.size)>> \in Seq(Lines)
    BY <1>1, <1>2, LinesOfFile, ConcatProperties
  <2>. QED  BY <1>0, <1>1, <1>2, <2>1
<1>5. Types'
  <2>1. at' \in 0..Len(share) /\ Only(SubSeq(share', 1, at'), Dirs) = Only(SubSeq(share, 1, at), Dirs)
    BY <1>0, <1>1, Walked
  <2>. QED  BY <1>0, <1>4, <2>1 DEF Types
<1>6. Endings'
  BY <1>0 DEF TransferInv, Endings
<1>7. PICK r \in 0..Len(F) :
        /\ recv = "name" => Pairs(F, n, 0, r, 0, NextName)
        /\ recv = "size" => Pairs(F, n, 1, r, 0, NextName) /\ file.name = NameOf(F, r, NextName)
        /\ NamesOf(list) = Listed(F, r)
  BY <1>0, <1>2 DEF TransferInv, Transfer, ListedAs, Torn
<1>8. r \in 0..Len(G)
  BY <1>2, <1>3
<1>9. /\ recv = "name" => Pairs(G, m, 0, r, 0, z)
      /\ recv = "size" => Pairs(G, m, 1, r, 0, z) /\ file.name = NameOf(G, r, z)
  <2>1. ASSUME NEW h \in {0, 1}, Pairs(F, n, h, r, 0, NextName) PROVE Pairs(G, m, h, r, 0, z)
    <3>1. PICK x : x = NextName
      OBVIOUS
    <3>2. F \in Seq(Files) /\ f \in Files /\ n \in Seq(Lines) /\ r \in 0..Len(F) /\ Pairs(F, n, h, r, 0, x)
      BY <1>1, <1>2, <1>7, <2>1, <3>1
    <3>3. Pairs(Append(F, f), n \o <<f.name, AsInt(f.size)>>, h, r, 0, z)
      BY <3>2, PairsSend
    <3>. QED  BY <1>3, <1>4, <3>3
  <2>2. ASSUME recv = "size" PROVE file.name = NameOf(G, r, z)
    <3>1. Len(n) = 2 * (Len(F) - r) - 1 + 0 /\ Len(n) \in Nat /\ Len(F) \in Nat
      BY <1>2, <1>7, <2>2 DEF Pairs
    <3>2. r < Len(F) /\ r + 1 \in 1..Len(F) /\ r < Len(G)
      BY <1>3, <1>7, <3>1
    <3>3. G[r + 1] = F[r + 1]
      <4>1. F \in Seq(Files) /\ f \in Files
        BY <1>1, <1>2
      <4>2. \A k \in 1..Len(F) : Append(F, f)[k] = F[k]
        BY <4>1, AppendProperties
      <4>. QED  BY <1>3, <3>2, <4>2
    <3>. QED  BY <1>7, <2>2, <3>2, <3>3 DEF NameOf
  <2>. QED  BY <1>7, <2>1, <2>2
<1>10. NamesOf(list) = Listed(G, r)
  <2>1. F \in Seq(Files) /\ f \in Files /\ r \in 0..Len(F)
    BY <1>1, <1>2, <1>7
  <2>2. Listed(Append(F, f), r) = Listed(F, r)
    BY <2>1, ListedKeeps
  <2>. QED  BY <1>3, <1>7, <2>2
<1>11. Transfer'
  BY <1>0, <1>2, <1>3, <1>4, <1>8, <1>9, <1>10 DEF Transfer, ListedAs
<1>. QED  BY <1>5, <1>6, <1>11 DEF TransferInv

(* A directory is opened: the files stay as they are.                      *)
LEMMA DescendInv ==
  ASSUME TransferInv, Descend PROVE TransferInv'
<1>0. /\ Types /\ send = "walk" /\ at < Len(share) /\ share[at + 1].kind = "dir" /\ dirs' = dirs + 1
      /\ at' = at + 1 /\ UNCHANGED <<share, send, net, recv, file, list, status>>
  BY DEF TransferInv, Descend, Walking
<1>1. PICK d \in Dirs : d = share[at + 1] /\ d \notin Files
  <2>1. share[at + 1] \in Item
    BY <1>0, Walked
  <2>. QED  BY <1>0, <2>1, ItemKinds
<1>2. PICK F, z : F \in Seq(Files) /\ F = Sent /\ z = NextName'
  BY <1>0, SentType
<1>3. F = Sent'
  BY <1>0, <1>1, <1>2, Walked DEF Sent
<1>4. Types'
  <2>1. PICK o \in Seq(Item), i \in Item : o = Only(SubSeq(share, 1, at), Dirs) /\ i = d
    BY <1>0, <1>1, Walked
  <2>2. at' \in 0..Len(share) /\ Only(SubSeq(share', 1, at'), Dirs) = Append(o, i)
    BY <1>0, <1>1, <2>1, Walked
  <2>3. Len(Append(o, i)) = Len(o) + 1 /\ Len(o) \in Nat
    BY <2>1, AppendProperties
  <2>. QED  BY <1>0, <2>1, <2>2, <2>3 DEF Types
<1>5. Endings'
  BY <1>0 DEF TransferInv, Endings
<1>6. PICK r \in 0..Len(F) :
        /\ recv = "name" => Pairs(F, net, 0, r, 0, NextName)
        /\ recv = "size" => Pairs(F, net, 1, r, 0, NextName) /\ file.name = NameOf(F, r, NextName)
        /\ NamesOf(list) = Listed(F, r)
  BY <1>0, <1>2 DEF TransferInv, Transfer, ListedAs, Torn
<1>7. /\ recv = "name" => Pairs(F, net, 0, r, 0, z)
      /\ recv = "size" => Pairs(F, net, 1, r, 0, z) /\ file.name = NameOf(F, r, z)
  <2>1. ASSUME NEW h \in {0, 1}, Pairs(F, net, h, r, 0, NextName) PROVE Pairs(F, net, h, r, 0, z)
    BY <2>1 DEF Pairs
  <2>2. ASSUME recv = "size" PROVE file.name = NameOf(F, r, z)
    <3>1. Len(net) = 2 * (Len(F) - r) - 1 + 0 /\ Len(net) \in Nat /\ Len(F) \in Nat
      BY <1>0, <1>2, <1>6, <2>2 DEF Pairs, Types
    <3>2. r < Len(F)
      BY <1>6, <3>1
    <3>. QED  BY <1>6, <2>2, <3>2 DEF NameOf
  <2>. QED  BY <1>6, <2>1, <2>2
<1>8. Transfer'
  BY <1>0, <1>2, <1>3, <1>6, <1>7 DEF Transfer, ListedAs
<1>. QED  BY <1>4, <1>5, <1>8 DEF TransferInv

(* What the other steps have in common: the walk goes no further.          *)
LEMMA SameSent ==
  ASSUME UNCHANGED <<share, at>>
  PROVE  Sent' = Sent /\ NextName' = NextName /\ (Torn' <=> send' = "killed" /\ at < Len(share) /\ share[at + 1] \in Files)
BY DEF Sent, NextName, Torn

(* The walk comes to its end or breaks off.                                *)
LEMMA WalkOverInv ==
  ASSUME TransferInv, WalkFails \/ WalkEnds PROVE TransferInv'
<1>0. /\ Types /\ Endings /\ send = "walk" /\ send' \in {"ok", "failed"}
      /\ UNCHANGED <<share, at, dirs, net, recv, file, list, status>>
      /\ send' = "ok" => at = Len(share)
  BY DEF TransferInv, WalkFails, WalkEnds, Walking
<1>1. Types'
  BY <1>0 DEF Types
<1>2. status # -2 /\ (send' = "failed" /\ status # -3 => WalkFails /\ recv # "ended")
  BY <1>0 DEF Endings, WalkEnds
<1>3. ASSUME WalkFails, recv # "ended"
      PROVE  \/ \E i \in 1..Len(share) : share[i].kind = "unreadable"
             \/ Len(Only(share, Dirs)) >= OpenDirs
  <2>1. CASE Walking("unreadable")
    <3>1. at + 1 \in 1..Len(share) /\ share[at + 1].kind = "unreadable"
      BY <1>0, <2>1 DEF Walking, Types
    <3>. QED  BY <3>1
  <2>2. CASE Walking("dir") /\ dirs = OpenDirs
    BY <1>0, <2>2, OneMoreDir
  <2>. QED  BY <1>3, <2>1, <2>2 DEF WalkFails
<1>4. Endings'
  BY <1>0, <1>2, <1>3 DEF Endings
<1>5. Transfer'
  <2>1. PICK r \in 0..Len(Sent) :
          /\ recv = "name" => Pairs(Sent, net, 0, r, 0, NextName)
          /\ recv = "size" => Pairs(Sent, net, 1, r, 0, NextName) /\ file.name = NameOf(Sent, r, NextName)
          /\ NamesOf(list) = Listed(Sent, r)
    BY <1>0 DEF TransferInv, Transfer, ListedAs, Torn
  <2>. QED  BY <1>0, <1>2, <2>1, SameSent DEF Transfer, ListedAs
<1>. QED  BY <1>1, <1>4, <1>5 DEF TransferInv

(* The sender is killed.                                                   *)
LEMMA KilledInv ==
  ASSUME TransferInv, Killed PROVE TransferInv'
<1>0. /\ Types /\ Endings /\ send = "walk" /\ send' = "killed"
      /\ UNCHANGED <<share, at, dirs, recv, file, list, status>>
      /\ \/ UNCHANGED net
         \/ at < Len(share) /\ share[at + 1].kind = "file" /\ net' = Append(net, NextName)
  BY DEF TransferInv, Killed, Walking, NextName
<1>1. ASSUME at < Len(share), share[at + 1].kind = "file"
      PROVE  share[at + 1] \in Files /\ NextName \in Lines
  <2>1. share[at + 1] \in Item
    BY <1>0, <1>1 DEF Types
  <2>. QED  BY <1>1, <2>1, ItemKinds DEF NextName, Lines
<1>2. Types'
  <2>1. net \in Seq(Lines) /\ (NextName \in Lines => Append(net, NextName) \in Seq(Lines))
    BY <1>0, AppendProperties DEF Types
  <2>2. net' \in Seq(Lines)
    BY <1>0, <1>1, <2>1
  <2>. QED  BY <1>0, <2>2 DEF Types
<1>3. Endings'
  BY <1>0 DEF Endings
<1>4. PICK F, n, x : /\ F \in Seq(Files) /\ F = Sent
                     /\ n \in Seq(Lines) /\ n = net /\ x = NextName
  BY <1>0, SentType DEF Types
<1>5. PICK r \in 0..Len(F) :
        /\ recv = "name" => Pairs(F, n, 0, r, 0, x)
        /\ recv = "size" => Pairs(F, n, 1, r, 0, x) /\ file.name = NameOf(F, r, x)
        /\ NamesOf(list) = Listed(F, r)
  BY <1>0, <1>4 DEF TransferInv, Transfer, ListedAs, Torn
<1>6. ASSUME UNCHANGED net PROVE Transfer'
  BY <1>0, <1>4, <1>5, <1>6, SameSent DEF Transfer, ListedAs
<1>7. ASSUME at < Len(share), share[at + 1].kind = "file", net' = Append(net, NextName)
      PROVE  Transfer'
  <2>1. F \in Seq(Files) /\ n \in Seq(Lines) /\ x \in Lines /\ r \in 0..Len(F)
    BY <1>1, <1>4, <1>5, <1>7
  <2>2. /\ recv = "name" => Pairs(F, Append(n, x), 0, r, 1, x)
        /\ recv = "size" => Pairs(F, Append(n, x), 1, r, 1, x)
    BY <1>5, <2>1, PairsTorn
  <2>3. Torn'
    BY <1>0, <1>1, <1>7, SameSent
  <2>4. net' = Append(n, x) /\ Sent' = F /\ NextName' = x
    BY <1>0, <1>4, <1>7, SameSent
  <2>. QED  BY <1>0, <1>5, <2>1, <2>2, <2>3, <2>4 DEF Transfer, ListedAs
<1>8. Transfer'
  BY <1>0, <1>6, <1>7
<1>. QED  BY <1>2, <1>3, <1>8 DEF TransferInv

(* The worker stops at the end of the stream, or because a read fails.     *)
LEMMA WorkerStopsInv ==
  ASSUME TransferInv, ListEnds \/ ReadFails PROVE TransferInv'
<1>0. /\ Types /\ Endings /\ recv \in {"name", "size"} /\ recv' = "ended"
      /\ UNCHANGED <<share, at, dirs, send, net, file, list>>
      /\ \/ status' = -3
         \/ status' = -2 /\ recv = "name" /\ net = <<>> /\ send # "walk"
  BY DEF TransferInv, ListEnds, ReadFails, Finish, AtEnd
<1>1. Types'
  BY <1>0 DEF Types
<1>2. Endings'
  BY <1>0 DEF Endings
<1>3. PICK r \in 0..Len(Sent), t \in {0, 1} :
        /\ recv = "name" => Pairs(Sent, net, 0, r, t, NextName)
        /\ t = 1 => Torn
        /\ ListedAs(Sent, r)
  BY DEF TransferInv, Transfer
<1>4. status' = -2 => r = Len(Sent)
  <2>1. PICK F, x : F \in Seq(Files) /\ F = Sent /\ x = NextName
    BY <1>0, SentType
  <2>2. r \in 0..Len(F) /\ (status' = -2 => Pairs(F, <<>>, 0, r, t, x))
    BY <1>0, <1>3, <2>1
  <2>. QED  BY <2>1, <2>2, PairsOut
<1>5. ListedAs(Sent, r)'
  BY <1>0, <1>3, SameSent DEF ListedAs, Torn, Sent, NextName
<1>6. Transfer'
  BY <1>0, <1>3, <1>4, <1>5, SameSent DEF Transfer, ListedAs
<1>. QED  BY <1>1, <1>2, <1>6 DEF TransferInv

(* The worker's struct flEntry stays one.                                  *)
LEMMA EntryType ==
  ASSUME Types
  PROVE  /\ \A l \in Lines : [file EXCEPT !.name = l] \in Entries /\ [file EXCEPT !.name = l].name = l
         /\ \A l : Strtol(l) \in Int /\ [file EXCEPT !.size = Strtol(l)] \in Entries
         /\ Append(list, file) \in Seq(Entries) /\ NamesOf(Append(list, file)) = Append(NamesOf(list), file.name)
<1>1. PICK nm \in Lines \cup {NoText}, sz \in Int : file = [name |-> nm, size |-> sz]
  BY DEF Types, Entries
<1>2. \A a \in Lines \cup {NoText}, b \in Int : [name |-> a, size |-> b] \in Entries
  BY DEF Entries
<1>3. \A l : Strtol(l) \in Int
  <2>1. IntRange \subseteq Int
    BY ListTransferAssumption DEF IntRange
  <2>2. ASSUME NEW l PROVE Strtol(l) \in Int
    <3>1. CASE l \in IntRange
      BY <2>1, <3>1 DEF Strtol
    <3>2. CASE l \notin IntRange
      BY <3>2 DEF Strtol
    <3>. QED  BY <3>1, <3>2
  <2>. QED  BY <2>2
<1>4. ASSUME NEW l \in Lines PROVE [file EXCEPT !.name = l] \in Entries /\ [file EXCEPT !.name = l].name = l
  <2>1. [file EXCEPT !.name = l] = [name |-> l, size |-> sz]
    BY <1>1
  <2>. QED  BY <1>2, <2>1
<1>5. ASSUME NEW l PROVE [file EXCEPT !.size = Strtol(l)] \in Entries
  <2>1. PICK n \in Int : n = Strtol(l)
    BY <1>3
  <2>2. [file EXCEPT !.size = n] = [name |-> nm, size |-> n]
    BY <1>1
  <2>. QED  BY <1>2, <2>1, <2>2
<1>6. list \in Seq(Entries) /\ file \in Entries
  BY DEF Types
<1>7. Append(list, file) \in Seq(Entries)
  BY <1>6, AppendProperties
<1>8. NamesOf(Append(list, file)) = Append(NamesOf(list), file.name)
  BY <1>6, NamesAppend
<1>. QED  BY <1>3, <1>4, <1>5, <1>7, <1>8

(* The worker reads a name.                                                *)
LEMMA TakeNameInv ==
  ASSUME TransferInv, TakeName PROVE TransferInv'
<1>0. /\ Types /\ Endings /\ recv = "name" /\ recv' = "size" /\ net # <<>> /\ net' = Tail(net)
      /\ file' = [file EXCEPT !.name = Head(net)]
      /\ UNCHANGED <<share, at, dirs, send, list, status>>
  BY DEF TransferInv, TakeName
<1>1. PICK n \in Seq(Lines), m \in Seq(Lines), l \in Lines :
        n = net /\ m = net' /\ m = Tail(n) /\ l = Head(n) /\ n # <<>>
  BY <1>0, HeadTailProperties DEF Types
<1>2. file' \in Entries /\ file'.name = l
  BY <1>0, <1>1, EntryType
<1>3. Types'
  BY <1>0, <1>1, <1>2 DEF Types
<1>4. Endings'
  BY <1>0 DEF Endings
<1>5. PICK F, x : F \in Seq(Files) /\ F = Sent /\ x = NextName
  BY <1>0, SentType
<1>6. PICK r \in 0..Len(F), t \in {0, 1} :
        /\ Pairs(F, n, 0, r, t, x)
        /\ t = 1 => Torn
        /\ NamesOf(list) = Listed(F, r)
        /\ send = "ok" /\ status = -2 => r = Len(F)
  BY <1>0, <1>1, <1>5 DEF TransferInv, Transfer, ListedAs
<1>7. Pairs(F, m, 1, r, t, x) /\ l = NameOf(F, r, x)
  <2>1. F \in Seq(Files) /\ n \in Seq(Lines) /\ r \in 0..Len(F) /\ t \in {0, 1} /\ Pairs(F, n, 0, r, t, x)
    BY <1>1, <1>5, <1>6
  <2>. QED  BY <1>1, <2>1, PairsName
<1>8. Sent' = F /\ NextName' = x /\ (Torn => Torn')
  BY <1>0, <1>5, SameSent DEF Torn
<1>9. Transfer'
  BY <1>0, <1>1, <1>2, <1>6, <1>7, <1>8 DEF Transfer, ListedAs
<1>. QED  BY <1>3, <1>4, <1>9 DEF TransferInv

(* The worker reads a size, which belongs to the name it has, and lists    *)
(* the file if the size came through.                                      *)
LEMMA TakeSizeInv ==
  ASSUME TransferInv, TakeSize PROVE TransferInv'
<1>0. /\ Types /\ Endings /\ recv = "size" /\ recv' = "name" /\ net # <<>> /\ net' = Tail(net)
      /\ UNCHANGED <<share, at, dirs, send, status>>
  BY DEF TransferInv, TakeSize, Entry
<1>1. PICK n \in Seq(Lines), m \in Seq(Lines), l \in Lines :
        n = net /\ m = net' /\ m = Tail(n) /\ l = Head(n) /\ n # <<>>
  BY <1>0, HeadTailProperties DEF Types
<1>2. /\ IsNumber(l) /\ Strtol(l) >= 0 => list' = Append(list, file) /\ UNCHANGED file
      /\ ~(IsNumber(l) /\ Strtol(l) >= 0) => file' = [file EXCEPT !.size = Strtol(l)] /\ UNCHANGED list
  BY <1>1 DEF TakeSize, Entry
<1>3. Types'
  <2>1. file' \in Entries /\ list' \in Seq(Entries)
    BY <1>0, <1>2, EntryType DEF Types
  <2>. QED  BY <1>0, <1>1, <2>1 DEF Types
<1>4. Endings'
  BY <1>0 DEF Endings
<1>5. PICK F, x : F \in Seq(Files) /\ F = Sent /\ x = NextName
  BY <1>0, SentType
<1>6. PICK r \in 0..Len(F), t \in {0, 1} :
        /\ Pairs(F, n, 1, r, t, x) /\ file.name = NameOf(F, r, x)
        /\ t = 1 => Torn
        /\ NamesOf(list) = Listed(F, r)
        /\ send = "ok" /\ status = -2 => r = Len(F)
  BY <1>0, <1>1, <1>5 DEF TransferInv, Transfer, ListedAs
<1>7. r < Len(F) /\ l = AsInt(F[r + 1].size) /\ Pairs(F, m, 0, r + 1, t, x)
  <2>1. F \in Seq(Files) /\ n \in Seq(Lines) /\ r \in 0..Len(F) /\ t \in {0, 1} /\ Pairs(F, n, 1, r, t, x)
    BY <1>1, <1>5, <1>6
  <2>. QED  BY <1>1, <2>1, PairsSize
<1>8. NamesOf(list') = Listed(F, r + 1)
  <2>1. F \in Seq(Files) /\ r \in 0..Len(F)
    BY <1>5, <1>6
  <2>2. Listed(F, r + 1) = IF l >= 0 THEN Append(Listed(F, r), F[r + 1].name) ELSE Listed(F, r)
    BY <1>7, <2>1, ListedNext
  <2>3. IsNumber(l) /\ Strtol(l) = l
    <3>1. F[r + 1] \in Files
      BY <1>7, <2>1, OneMore
    <3>2. l \in IntRange
      BY <1>7, <3>1, AnInt, ItemKinds
    <3>. QED  BY <3>2 DEF IsNumber, Strtol
  <2>4. file.name = F[r + 1].name
    BY <1>6, <1>7 DEF NameOf
  <2>. QED  BY <1>0, <1>2, <1>6, <2>2, <2>3, <2>4, EntryType
<1>9. Sent' = F /\ NextName' = x /\ (Torn => Torn')
  BY <1>0, <1>5, SameSent DEF Torn
<1>10. r + 1 \in 0..Len(F) /\ ~(send = "ok" /\ status = -2)
  BY <1>0, <1>5, <1>6, <1>7 DEF Endings
<1>11. Transfer'
  BY <1>0, <1>1, <1>6, <1>7, <1>8, <1>9, <1>10 DEF Transfer, ListedAs
<1>. QED  BY <1>3, <1>4, <1>11 DEF TransferInv

(* The stream ends behind a name: it is listed without its size.           *)
LEMMA NoSizeInv ==
  ASSUME TransferInv, NoSize PROVE TransferInv'
<1>0. /\ Types /\ Endings /\ recv = "size" /\ recv' = "name" /\ net = <<>>
      /\ UNCHANGED <<share, at, dirs, send, status, net>>
      /\ \/ list' = Append(list, file) /\ UNCHANGED file
         \/ file' = [file EXCEPT !.size = Strtol(NoText)] /\ UNCHANGED list
  BY DEF TransferInv, NoSize, Entry, AtEnd
<1>1. Types'
  <2>1. file' \in Entries /\ list' \in Seq(Entries)
    BY <1>0, EntryType DEF Types
  <2>. QED  BY <1>0, <2>1 DEF Types
<1>2. Endings'
  BY <1>0 DEF Endings
<1>3. PICK F, x : F \in Seq(Files) /\ F = Sent /\ x = NextName
  BY <1>0, SentType
<1>4. PICK r \in 0..Len(F), t \in {0, 1} :
        /\ Pairs(F, <<>>, 1, r, t, x) /\ file.name = NameOf(F, r, x)
        /\ t = 1 => Torn
        /\ NamesOf(list) = Listed(F, r)
  BY <1>0, <1>3 DEF TransferInv, Transfer, ListedAs
<1>5. r = Len(F) /\ t = 1 /\ Pairs(F, <<>>, 0, r, 0, x)
  <2>1. F \in Seq(Files) /\ r \in 0..Len(F) /\ t \in {0, 1}
    BY <1>3, <1>4
  <2>. QED  BY <1>4, <2>1, PairsOut
<1>6. file.name = x
  <2>1. ~(r < Len(F))
    BY <1>3, <1>5
  <2>. QED  BY <1>4, <2>1 DEF NameOf
<1>7. NamesOf(list') = Listed(F, r) \/ NamesOf(list') = Append(Listed(F, r), x)
  BY <1>0, <1>4, <1>6, EntryType
<1>8. Sent' = F /\ NextName' = x /\ Torn'
  BY <1>0, <1>3, <1>4, <1>5, SameSent DEF Torn
<1>9. Transfer'
  BY <1>0, <1>4, <1>5, <1>7, <1>8 DEF Transfer, ListedAs
<1>. QED  BY <1>1, <1>2, <1>9 DEF TransferInv

LEMMA TransferStep == TransferInv /\ [Next]_vars => TransferInv'
<1> SUFFICES ASSUME TransferInv, [Next]_vars PROVE TransferInv'
  OBVIOUS
<1>1. CASE SendFile
  BY <1>1, SendFileInv
<1>2. CASE Descend
  BY <1>2, DescendInv
<1>3. CASE WalkFails \/ WalkEnds
  BY <1>3, WalkOverInv
<1>4. CASE Killed
  BY <1>4, KilledInv
<1>5. CASE ListEnds \/ ReadFails
  BY <1>5, WorkerStopsInv
<1>6. CASE TakeName
  BY <1>6, TakeNameInv
<1>7. CASE TakeSize
  BY <1>7, TakeSizeInv
<1>8. CASE NoSize
  BY <1>8, NoSizeInv
<1>9. CASE UNCHANGED vars
  <2>1. /\ share' = share /\ at' = at /\ dirs' = dirs /\ send' = send /\ net' = net
        /\ recv' = recv /\ file' = file /\ list' = list /\ status' = status
    BY <1>9 DEF vars
  <2>2. Sent' = Sent /\ NextName' = NextName /\ Torn' = Torn
    BY <2>1 DEF Sent, NextName, Torn
  <2>3. Types' /\ Endings'
    BY <2>1 DEF TransferInv, Types, Endings
  <2>4. Transfer'
    BY <2>1, <2>2 DEF TransferInv, Transfer, ListedAs
  <2>. QED  BY <2>3, <2>4 DEF TransferInv
<1>. QED  BY <1>1, <1>2, <1>3, <1>4, <1>5, <1>6, <1>7, <1>8, <1>9 DEF Next, Sender, Receiver

LEMMA TransferAlways == Inherited = {<<>>} /\ Spec => []TransferInv
<1>1. Inherited = {<<>>} /\ Init => TransferInv
  BY TransferInit
<1>. QED  BY <1>1, TransferStep, PTL DEF Spec

(* Three facts about sequences of items.                                   *)
LEMMA SizedItems ==
  ASSUME NEW x \in Seq(Item), NEW y \in Seq(Item)
  PROVE  Only(x \o y, Sized) = Only(x, Sized) \o Only(y, Sized) /\ Only(y, Sized) \in Seq(Item)
<1>1. Only(x \o y, Sized) = Only(x, Sized) \o Only(y, Sized)
  BY OnlyConcat
<1>2. Only(y, Sized) \in Seq(Item)
  BY OnlySeq
<1>. QED  BY <1>1, <1>2

LEMMA RegroupItems ==
  ASSUME NEW x \in Seq(Item), NEW y \in Seq(Item), NEW z \in Seq(Item)
  PROVE  (x \o y) \o z = x \o (y \o z)
<1>1. Associates(x, y, z)
  BY JoinsEitherWay
<1>. QED  BY <1>1 DEF Associates

LEMMA NamesOfMore ==
  ASSUME NEW o \in Seq(Item), NEW b \in Seq(Item), NEW c \in Seq(Item)
  PROVE  IsPrefix(NamesOf(o), NamesOf((o \o b) \o c))
<1>1. PICK d \in Seq(Item) : d = b \o c
  BY ConcatProperties
<1>2. (o \o b) \o c = o \o d
  BY <1>1, RegroupItems
<1>3. NamesOf(o \o d) = NamesOf(o) \o NamesOf(d)
  BY NamesConcat
<1>4. PICK B : B = {x.name : x \in Item}
  OBVIOUS
<1>5. NamesOf(o) \in Seq(B) /\ NamesOf(d) \in Seq(B)
  BY <1>4, NamesType
<1>6. IsPrefix(NamesOf(o), NamesOf(o) \o NamesOf(d))
  BY <1>5, PrefixOfConcat
<1>. QED  BY <1>2, <1>3, <1>6

(* What is listed continues to the whole list.                             *)
LEMMA ListedBegins ==
  ASSUME Types, NEW r \in 0..Len(Sent)
  PROVE  /\ IsPrefix(Listed(Sent, r), NamesOf(Listable))
         /\ at = Len(share) => Sent = SharedFiles /\ Listed(Sent, Len(Sent)) = NamesOf(Listable)
<1>1. PICK F \in Seq(Files), s \in Seq(Item), all \in Seq(Files) :
        F = Sent /\ s = share /\ all = SharedFiles /\ all = Only(s, Files)
  BY SentType, OnlyIn DEF Types, SharedFiles
<1>2. PICK a \in Seq(Item) : all = F \o a
  BY <1>1, WalkedSoFar DEF Sent, Continues, SharedFiles
<1>3. PICK o \in Seq(Files) : o = Only(SubSeq(F, 1, r), Sized)
  BY <1>1, ListedType
<1>4. PICK w \in Seq(Files) : w = Only(F, Sized)
  BY <1>1, OnlySeq
<1>5. PICK b \in Seq(Files) : w = o \o b
  <2>1. F \in Seq(Files) /\ r \in 0..Len(F)
    BY <1>1
  <2>2. Continues(Only(F, Sized), Only(SubSeq(F, 1, r), Sized), Files)
    BY <2>1, OnlyPrefix
  <2>. QED  BY <1>3, <1>4, <2>2 DEF Continues
<1>6. PICK c \in Seq(Item) : Only(all, Sized) = w \o c
  <2>1. F \in Seq(Item) /\ a \in Seq(Item)
    BY <1>1, <1>2, ItemKinds
  <2>2. Only(F \o a, Sized) = Only(F, Sized) \o Only(a, Sized) /\ Only(a, Sized) \in Seq(Item)
    <3>1. PICK x, y : x = F /\ y = a
      OBVIOUS
    <3>2. x \in Seq(Item) /\ y \in Seq(Item)
      BY <2>1, <3>1
    <3>3. Only(x \o y, Sized) = Only(x, Sized) \o Only(y, Sized) /\ Only(y, Sized) \in Seq(Item)
      BY <3>2, SizedItems
    <3>. QED  BY <3>1, <3>3
  <2>. QED  BY <1>2, <1>4, <2>2
<1>7. IsPrefix(NamesOf(o), NamesOf(Only(all, Sized)))
  <2>1. o \in Seq(Item) /\ b \in Seq(Item) /\ c \in Seq(Item)
    BY <1>3, <1>5, <1>6, ItemKinds
  <2>2. IsPrefix(NamesOf(o), NamesOf((o \o b) \o c))
    BY <2>1, NamesOfMore
  <2>. QED  BY <1>5, <1>6, <2>2
<1>8. ASSUME at = Len(share) PROVE Sent = SharedFiles
  <2>1. SubSeq(s, 1, Len(s)) = s
    BY <1>1, SubSeqFull
  <2>. QED  BY <1>1, <1>8, <2>1 DEF Sent
<1>9. SubSeq(F, 1, Len(F)) = F
  BY <1>1, SubSeqFull
<1>. QED  BY <1>1, <1>3, <1>7, <1>8, <1>9 DEF Listed, Listable

(* However the transfer ends, the names in the list are names of shared    *)
(* files in the order of the walk, at most the last without its size.      *)
THEOREM NamesAndSizesStay == Inherited = {<<>>} /\ Spec => []NamesAsShared
<1>1. TransferInv => NamesAsShared
  <2> SUFFICES ASSUME TransferInv PROVE NamesAsShared
    OBVIOUS
  <2>1. Types /\ Transfer
    BY DEF TransferInv
  <2>2. PICK r \in 0..Len(Sent) : ListedAs(Sent, r)
    BY <2>1 DEF Transfer
  <2>3. IsPrefix(Listed(Sent, r), NamesOf(Listable))
    BY <2>1, <2>2, ListedBegins
  <2>4. CASE NamesOf(list) = Listed(Sent, r)
    BY <2>3, <2>4 DEF NamesAsShared
  <2>5. CASE Torn /\ NamesOf(list) = Append(Listed(Sent, r), NextName)
    <3>1. PICK B, x : x = NextName /\ B = {i.name : i \in Files}
      OBVIOUS
    <3>2. x \in B
      BY <2>5, <3>1 DEF Torn, NextName
    <3>3. PICK n \in Seq(B) : n = Listed(Sent, r)
      <4>1. PICK o \in Seq(Files) : o = Only(SubSeq(Sent, 1, r), Sized)
        BY <2>1, <2>2, SentType, ListedType
      <4>. QED  BY <3>1, <4>1, NamesType DEF Listed
    <3>4. Append(n, x) # <<>> /\ Front(Append(n, x)) = n /\ Last(Append(n, x)) = x
      BY <3>2, <3>3, AppendProperties DEF Front, Last
    <3>. QED  BY <2>3, <2>5, <3>1, <3>3, <3>4 DEF NamesAsShared, Torn, NextName
  <2>. QED  BY <2>2, <2>4, <2>5 DEF ListedAs
<1>. QED  BY <1>1, TransferAlways, PTL

(* A transfer that ends well on both sides has listed every file that can  *)
(* be listed, and the walk only breaks off for a reason.                   *)
THEOREM WholeListWhenOk == Inherited = {<<>>} /\ Spec => []CompleteWhenOk
<1>1. TransferInv => CompleteWhenOk
  <2> SUFFICES ASSUME TransferInv PROVE CompleteWhenOk
    OBVIOUS
  <2>1. Types /\ Endings /\ Transfer
    BY DEF TransferInv
  <2>2. ASSUME send = "ok", status = -2 PROVE NamesOf(list) = NamesOf(Listable)
    <3>1. PICK r \in 0..Len(Sent) : NamesOf(list) = Listed(Sent, r) /\ r = Len(Sent)
      BY <2>1, <2>2 DEF Transfer, ListedAs, Torn
    <3>2. at = Len(share)
      BY <2>1, <2>2 DEF Endings
    <3>. QED  BY <2>1, <3>1, <3>2, ListedBegins
  <2>. QED  BY <2>1, <2>2 DEF CompleteWhenOk, Endings
<1>. QED  BY <1>1, TransferAlways, PTL
-----------------------------------------------------------------------------
(* Lines in a stream (LineStream).                                         *)
Char == Letters \cup {CR, LF}

(* A piece of a sequence.                                                  *)
LEMMA Piece ==
  ASSUME NEW A, NEW s \in Seq(A), NEW p \in 0..Len(s), NEW q \in p..Len(s)
  PROVE  /\ SubSeq(s, p + 1, q) \in Seq(A) /\ Len(SubSeq(s, p + 1, q)) = q - p
         /\ \A i \in 1..q-p : SubSeq(s, p + 1, q)[i] = s[p + i]
<1>1. PICK c, d \in Nat : c = p + 1 /\ d = q
  OBVIOUS
<1>2. \A i \in c..d : s[i] \in A
  BY <1>1
<1>3. /\ SubSeq(s, c, d) \in Seq(A)
      /\ Len(SubSeq(s, c, d)) = IF c <= d THEN d - c + 1 ELSE 0
      /\ \A i \in 1..d-c+1 : SubSeq(s, c, d)[i] = s[c + i - 1]
  BY <1>1, <1>2, SubSeqProperties
<1>4. Len(SubSeq(s, c, d)) = q - p
  BY <1>1, <1>3
<1>5. ASSUME NEW i \in 1..q-p PROVE SubSeq(s, c, d)[i] = s[p + i]
  <2>1. i \in 1..d-c+1 /\ c + i - 1 = p + i
    BY <1>1
  <2>. QED  BY <1>3, <2>1
<1>. QED  BY <1>1, <1>3, <1>4, <1>5

LEMMA SamePiece ==
  ASSUME NEW A, NEW s \in Seq(A), NEW t \in Seq(A), NEW p \in 0..Len(s), NEW q \in p..Len(s),
         q <= Len(t), \A i \in p+1..q : s[i] = t[i]
  PROVE  SubSeq(s, p + 1, q) = SubSeq(t, p + 1, q)
<1>1. PICK x : x = SubSeq(s, p + 1, q)
  OBVIOUS
<1>2. PICK y : y = SubSeq(t, p + 1, q)
  OBVIOUS
<1>3. x \in Seq(A) /\ Len(x) = q - p /\ \A i \in 1..q-p : x[i] = s[p + i]
  BY <1>1, Piece
<1>4. y \in Seq(A) /\ Len(y) = q - p /\ \A i \in 1..q-p : y[i] = t[p + i]
  <2>1. p \in 0..Len(t) /\ q \in p..Len(t)
    OBVIOUS
  <2>. QED  BY <1>2, <2>1, Piece
<1>5. \A i \in 1..q-p : x[i] = y[i]
  <2>1. \A i \in 1..q-p : p + i \in p+1..q
    OBVIOUS
  <2>. QED  BY <1>3, <1>4, <2>1
<1>6. Len(x) = Len(y) /\ \A i \in 1..Len(x) : x[i] = y[i]
  BY <1>3, <1>4, <1>5
<1>7. x = y
  BY <1>3, <1>4, <1>6, SeqEqual
<1>. QED  BY <1>1, <1>2, <1>7

(* The lines of s that end at n or before, and which of them one is.       *)
Before(s, n) == {e \in FullLines(s) : e <= n}
Rank(s, e) == Cardinality(Before(s, e))

LEMMA LinePlaces ==
  ASSUME NEW s \in Seq(Char) PROVE \A e \in FullLines(s) : e \in 1..Len(s) /\ e \in Nat \ {0}
BY DEF FullLines, LineEnds

LEMMA BeforeFinite ==
  ASSUME NEW s \in Seq(Char), NEW n \in Nat
  PROVE  /\ Before(s, n) \subseteq 1..Len(s) /\ Before(s, n) \subseteq 1..n
         /\ IsFiniteSet(Before(s, n)) /\ Cardinality(Before(s, n)) \in Nat
<1>1. Before(s, n) \subseteq 1..Len(s) /\ Before(s, n) \subseteq 1..n
  BY DEF Before, FullLines, LineEnds
<1>2. IsFiniteSet(1..n)
  BY FS_Interval
<1>3. IsFiniteSet(Before(s, n))
  BY <1>1, <1>2, FS_Subset
<1>. QED  BY <1>1, <1>3, FS_CardinalityType

LEMMA BeforeAll == ASSUME NEW s \in Seq(Char) PROVE Before(s, Len(s)) = FullLines(s)
BY DEF Before, FullLines, LineEnds

(* The next line is one more.                                              *)
LEMMA NextRank ==
  ASSUME NEW s \in Seq(Char), NEW b \in Nat, NEW e \in Nat, b < e,
         \A i \in b+1..e-1 : i \notin FullLines(s)
  PROVE  /\ e \notin FullLines(s) => Before(s, e) = Before(s, b)
         /\ e \in FullLines(s) =>
              /\ Before(s, e) = Before(s, b) \cup {e}
              /\ Rank(s, e) = Cardinality(Before(s, b)) + 1
<1>1. \A i \in FullLines(s) : i \in Nat /\ (i <= e <=> i <= b \/ i = e)
  <2> TAKE i \in FullLines(s)
  <2>1. i \in Nat /\ i \notin b+1..e-1
    BY DEF FullLines, LineEnds
  <2>. QED  BY <2>1
<1>2. e \notin Before(s, b)
  BY DEF Before
<1>3. e \notin FullLines(s) => Before(s, e) = Before(s, b)
  BY <1>1 DEF Before
<1>4. ASSUME e \in FullLines(s)
      PROVE  Before(s, e) = Before(s, b) \cup {e} /\ Rank(s, e) = Cardinality(Before(s, b)) + 1
  <2>1. Before(s, e) = Before(s, b) \cup {e}
    BY <1>1, <1>4 DEF Before
  <2>2. IsFiniteSet(Before(s, b))
    BY BeforeFinite
  <2>3. Cardinality(Before(s, b) \cup {e}) = Cardinality(Before(s, b)) + 1
    BY <1>2, <2>2, FS_AddElement
  <2>. QED  BY <2>1, <2>3 DEF Rank
<1>. QED  BY <1>3, <1>4

(* The lines have the ranks from 1 on, each its own.                       *)
LEMMA RankRange ==
  ASSUME NEW s \in Seq(Char), NEW n \in Nat, NEW e \in Before(s, n)
  PROVE  e \in Nat /\ Rank(s, e) \in 1..Cardinality(Before(s, n))
<1>1. e \in Nat /\ e \in FullLines(s) /\ e <= n
  BY LinePlaces DEF Before
<1>2. e \in Before(s, e) /\ Before(s, e) \subseteq Before(s, n)
  <2>1. \A f \in FullLines(s) : f \in Nat /\ (f <= e => f <= n)
    BY <1>1, LinePlaces
  <2>2. e <= e
    BY <1>1
  <2>. QED  BY <1>1, <2>1, <2>2, Zenon DEF Before
<1>3. IsFiniteSet(Before(s, e)) /\ Rank(s, e) \in Nat /\ Rank(s, e) # 0
  <2>1. IsFiniteSet(Before(s, e)) /\ Rank(s, e) \in Nat
    BY <1>1, BeforeFinite DEF Rank
  <2>2. Before(s, e) # {}
    BY <1>2
  <2>. QED  BY <2>1, <2>2, FS_EmptySet DEF Rank
<1>4. IsFiniteSet(Before(s, n)) /\ Cardinality(Before(s, n)) \in Nat
  BY BeforeFinite
<1>5. Cardinality(Before(s, e)) <= Cardinality(Before(s, n))
  BY <1>2, <1>4, FS_Subset
<1>. QED  BY <1>1, <1>3, <1>4, <1>5 DEF Rank

LEMMA RankMono ==
  ASSUME NEW s \in Seq(Char), NEW e \in FullLines(s), NEW f \in FullLines(s), e < f
  PROVE  Rank(s, e) < Rank(s, f)
<1>1. e \in Nat /\ f \in Nat
  BY DEF FullLines, LineEnds
<1>2. Before(s, e) \cup {f} \subseteq Before(s, f) /\ f \notin Before(s, e)
  <2>1. \A i \in FullLines(s) : i \in Nat /\ (i <= e => i <= f)
    BY <1>1, LinePlaces
  <2>2. f <= f /\ ~(f <= e)
    BY <1>1
  <2>. QED  BY <1>1, <2>1, <2>2, Zenon DEF Before
<1>3. /\ IsFiniteSet(Before(s, e)) /\ Cardinality(Before(s, e)) \in Nat
      /\ IsFiniteSet(Before(s, f)) /\ Cardinality(Before(s, f)) \in Nat
  BY <1>1, BeforeFinite
<1>4. Cardinality(Before(s, e) \cup {f}) = Cardinality(Before(s, e)) + 1
  BY <1>2, <1>3, FS_AddElement
<1>5. Cardinality(Before(s, e) \cup {f}) <= Cardinality(Before(s, f))
  BY <1>2, <1>3, FS_Subset
<1>. QED  BY <1>3, <1>4, <1>5 DEF Rank

LEMMA RankOne ==
  ASSUME NEW s \in Seq(Char), NEW e \in FullLines(s), NEW f \in FullLines(s), Rank(s, e) = Rank(s, f)
  PROVE  e = f
<1>1. e \in Nat /\ f \in Nat
  BY DEF FullLines, LineEnds
<1>2. Rank(s, e) \in Nat
  BY <1>1, BeforeFinite DEF Rank
<1>3. ~(e < f) /\ ~(f < e)
  BY <1>2, RankMono
<1>. QED  BY <1>1, <1>3

LEMMA RankOnto ==
  ASSUME NEW s \in Seq(Char), NEW n \in Nat, NEW k \in 1..Cardinality(Before(s, n))
  PROVE  \E e \in Before(s, n) : Rank(s, e) = k
<1> DEFINE Onto(m) == \A j \in 1..Cardinality(Before(s, m)) : \E e \in Before(s, m) : Rank(s, e) = j
           T == {m \in Nat : Onto(m)}
<1>1. 0 \in T
  <2>1. Before(s, 0) = {}
    <3>1. \A i \in FullLines(s) : ~(i <= 0)
      BY LinePlaces
    <3>. QED  BY <3>1 DEF Before
  <2>2. Cardinality(Before(s, 0)) = 0
    BY <2>1, FS_EmptySet
  <2>3. 1..0 = {}
    OBVIOUS
  <2>. QED  BY <2>2, <2>3
<1>2. ASSUME NEW m \in Nat, m \in T PROVE m + 1 \in T
  <2>1. Onto(m)
    BY <1>2
  <2>2. PICK e \in Nat : e = m + 1
    OBVIOUS
  <2>3. \A i \in m+1..e-1 : i \notin FullLines(s)
    BY <2>2
  <2>4. CASE e \notin FullLines(s)
    <3>1. Before(s, e) = Before(s, m)
      BY <2>2, <2>3, <2>4, NextRank
    <3>. QED  BY <2>1, <2>2, <3>1
  <2>5. CASE e \in FullLines(s)
    <3>1. Before(s, e) = Before(s, m) \cup {e} /\ Rank(s, e) = Cardinality(Before(s, m)) + 1
      BY <2>2, <2>3, <2>5, NextRank
    <3>2. PICK c \in Nat : c = Cardinality(Before(s, m))
      BY BeforeFinite
    <3>3. Cardinality(Before(s, e)) = c + 1
      BY <3>1, <3>2 DEF Rank
    <3>4. \A j \in 1..c+1 : j \in 1..c \/ j = c + 1
      BY <3>2
    <3>5. Onto(e)
      BY <2>1, <3>1, <3>2, <3>3, <3>4
    <3>. QED  BY <2>2, <3>5
  <2>. QED  BY <2>4, <2>5
<1>3. T = Nat
  <2>1. T \in SUBSET Nat
    OBVIOUS
  <2> HIDE DEF T
  <2>. QED  BY <1>1, <1>2, <2>1, Induction
<1>. QED  BY <1>3
(* l is the lines of s that end at n or before.                            *)
UpTo(l, s, n) ==
  /\ l \in Seq(Seq(Char)) /\ Len(l) = Cardinality(Before(s, n))
  /\ \A e \in Before(s, n) : l[Rank(s, e)] = LineEnding(s, e)

LEMMA LinesOfParts ==
  ASSUME NEW s \in Seq(Char)
  PROVE  /\ Cardinality(FullLines(s)) \in Nat
         /\ DOMAIN LinesOf(s) = 1..Cardinality(FullLines(s))
         /\ \A e \in FullLines(s) :
              Rank(s, e) \in 1..Cardinality(FullLines(s)) /\ LinesOf(s)[Rank(s, e)] = LineEnding(s, e)
<1> DEFINE F == FullLines(s)
           end(k) == CHOOSE e \in F : Cardinality({f \in F : f <= e}) = k
<1>1. PICK N \in Nat : N = Cardinality(F)
  BY BeforeAll, BeforeFinite
<1>2. LinesOf(s) = [k \in 1..N |-> LineEnding(s, end(k))]
  BY <1>1 DEF LinesOf
<1>3. ASSUME NEW e \in F PROVE Rank(s, e) \in 1..N /\ end(Rank(s, e)) = e
  <2>1. e \in Before(s, Len(s))
    BY <1>3, BeforeAll
  <2>2. Rank(s, e) \in 1..N
    BY <1>1, <2>1, RankRange, BeforeAll
  <2>3. \A f \in F : Cardinality({i \in F : i <= f}) = Rank(s, f)
    BY DEF Rank, Before
  <2>4. \A f \in F : Rank(s, f) = Rank(s, e) => f = e
    BY <1>3, RankOne
  <2> HIDE DEF F
  <2>5. PICK k : k = Rank(s, e)
    OBVIOUS
  <2>6. end(k) = e
    BY <1>3, <2>3, <2>4, <2>5
  <2>. QED  BY <2>2, <2>5, <2>6
<1>. QED  BY <1>1, <1>2, <1>3

LEMMA UpToAll ==
  ASSUME NEW s \in Seq(Char), NEW l, UpTo(l, s, Len(s))
  PROVE  l = LinesOf(s)
<1>1. PICK N \in Nat : N = Cardinality(FullLines(s))
  BY LinesOfParts
<1>2. DOMAIN l = 1..N /\ DOMAIN LinesOf(s) = 1..N
  BY <1>1, LinesOfParts, BeforeAll DEF UpTo
<1>3. ASSUME NEW k \in 1..N PROVE l[k] = LinesOf(s)[k]
  <2>1. PICK e \in FullLines(s) : Rank(s, e) = k
    BY <1>1, RankOnto, BeforeAll
  <2>2. LinesOf(s)[Rank(s, e)] = LineEnding(s, e)
    BY LinesOfParts
  <2>3. l[Rank(s, e)] = LineEnding(s, e)
    BY BeforeAll DEF UpTo
  <2>. QED  BY <2>1, <2>2, <2>3
<1>4. l = [k \in 1..N |-> l[k]]
  BY <1>2 DEF UpTo
<1>5. LinesOf(s) = [k \in 1..N |-> LinesOf(s)[k]]
  BY <1>1 DEF LinesOf
<1>. QED  BY <1>3, <1>4, <1>5

(* What stands before the end of a line is where it begins.                *)
LEMMA LineFrom ==
  ASSUME NEW s \in Seq(Char), NEW e \in LineEnds(s), NEW p \in 0..e-1,
         p = 0 \/ s[p] = LF, \A i \in p+1..e-1 : s[i] # LF
  PROVE  LineEnding(s, e) = SubSeq(s, p + 1, IF e > p + 1 /\ s[e - 1] = CR THEN e - 2 ELSE e - 1)
<1> DEFINE before == {i \in LineEnds(s) : i < e}
           begin  == IF before = {} THEN 1 ELSE Max(before) + 1
           last   == IF e > begin /\ s[e - 1] = CR THEN e - 2 ELSE e - 1
<1>0. e \in Nat /\ e \in 1..Len(s) /\ Len(s) \in Nat
  BY DEF LineEnds
<1>1. \A i \in before : i \in 1..p /\ s[i] = LF
  BY <1>0 DEF LineEnds
<1>2. p > 0 => p \in before
  BY <1>0 DEF LineEnds
<1>3. begin = p + 1
  <2>1. CASE p = 0
    <3>1. before = {}
      BY <1>1, <2>1
    <3>. QED  BY <2>1, <3>1
  <2>2. CASE p > 0
    <3>1. before \in SUBSET (0..p) /\ before # {}
      BY <1>1, <1>2, <2>2
    <3> HIDE DEF before
    <3>2. Max(before) \in before /\ \A k \in before : k <= Max(before)
      <4>1. p \in Nat
        BY <1>0
      <4>. QED  BY <3>1, <4>1, MaxOfSome
    <3>3. Max(before) \in 1..p /\ p <= Max(before)
      BY <1>1, <1>2, <2>2, <3>2
    <3>4. Max(before) = p
      BY <1>0, <3>3
    <3>. QED  BY <3>1, <3>4
  <2>. QED  BY <1>0, <2>1, <2>2
<1>4. LineEnding(s, e) = SubSeq(s, begin, last)
  BY DEF LineEnding
<1> HIDE DEF begin
<1>. QED  BY <1>3, <1>4
-----------------------------------------------------------------------------
(* What searchToken finds: m leading separators, and the first separator j *)
(* behind them.                                                            *)
Separates(w, m) ==
  /\ m \in 0..Len(w)
  /\ \A i \in 1..m : w[i] = LF \/ (w[i] = CR /\ i < m /\ w[i + 1] = LF)
  /\ m < Len(w) => SepAt(w, m + 1) = 0
TokenEnds(w, m, j) ==
  /\ j \in m+2..Len(w) /\ SepAt(w, j) \in {1, 2}
  /\ \A i \in m+1..j-1 : SepAt(w, i) = 0

LEMMA SepParts ==
  ASSUME NEW w \in Seq(Char), NEW i \in 1..Len(w)
  PROVE  /\ SepAt(w, i) \in {0, 1, 2}
         /\ SepAt(w, i) = 1 <=> w[i] = LF
         /\ SepAt(w, i) = 2 <=> w[i] = CR /\ i < Len(w) /\ w[i + 1] = LF
BY LineStreamAssumption DEF SepAt

LEMMA LeadingParts ==
  ASSUME NEW w \in Seq(Char) PROVE Separates(w, Leading(w))
<1> DEFINE All(k) == \A i \in 1..k : w[i] = LF \/ (w[i] = CR /\ i < k /\ w[i + 1] = LF)
           T == {k \in 0..Len(w) : All(k)}
<1>1. PICK N \in Nat : N = Len(w)
  OBVIOUS
<1>2. PICK m \in 0..N : m = Leading(w) /\ All(m) /\ \A k \in 0..N : All(k) => k <= m
  <2>1. T \in SUBSET (0..N) /\ 0 \in T
    BY <1>1
  <2>2. Max(T) = Leading(w)
    BY <1>1 DEF Leading
  <2> HIDE DEF T
  <2>3. Max(T) \in T /\ \A k \in T : k <= Max(T)
    BY <1>1, <2>1, MaxOfSome
  <2>. QED  BY <1>1, <2>2, <2>3 DEF T
<1>3. ASSUME m < N PROVE SepAt(w, m + 1) = 0
  <2>1. m + 1 \in 1..N /\ m + 1 \in 0..N /\ \A i \in 1..m+1 : i \in 1..m \/ i = m + 1
    BY <1>3
  <2>2. w[m + 1] # LF
    <3>1. ASSUME w[m + 1] = LF PROVE All(m + 1)
      <4> TAKE i \in 1..m+1
      <4>. QED  BY <1>2, <2>1, <3>1
    <3>. QED  BY <1>2, <2>1, <3>1
  <2>3. ~(w[m + 1] = CR /\ m + 1 < N /\ w[(m + 1) + 1] = LF)
    <3>1. ASSUME w[m + 1] = CR, m + 1 < N, w[m + 2] = LF PROVE FALSE
      <4>1. All(m + 2)
        <5> TAKE i \in 1..m+2
        <5>1. i \in 1..m \/ i = m + 1 \/ i = m + 2
          OBVIOUS
        <5>. QED  BY <1>2, <3>1, <5>1
      <4>2. m + 2 \in 0..N
        BY <3>1
      <4>. QED  BY <1>2, <4>1, <4>2
    <3>2. (m + 1) + 1 = m + 2
      OBVIOUS
    <3>. QED  BY <3>1, <3>2
  <2>. QED  BY <1>1, <2>1, <2>2, <2>3, SepParts
<1>. QED  BY <1>1, <1>2, <1>3 DEF Separates

LEMMA SearchParts ==
  ASSUME NEW w \in Seq(Char), NEW m, m = Leading(w), NEW t, t = SearchToken(w)
  PROVE  /\ Separates(w, m)
         /\ t.found \in BOOLEAN
         /\ ~t.found => \A i \in m+1..Len(w) : SepAt(w, i) = 0
         /\ t.found => \E j \in Nat :
              TokenEnds(w, m, j) /\ t.start = m /\ t.length = j - 1 - m /\ t.full = j - 1 + SepAt(w, j)
<1>1. Separates(w, m) /\ m \in 0..Len(w) /\ Len(w) \in Nat
  BY LeadingParts DEF Separates
<1>2. \A i \in m+1..Len(w) : i \in 1..Len(w) /\ SepAt(w, i) \in {0, 1, 2}
  BY <1>1, SepParts
<1>3. CASE Ends(w) = {}
  <2>1. t.found = FALSE
    BY <1>3 DEF SearchToken
  <2>2. \A i \in m+1..Len(w) : SepAt(w, i) = 0
    BY <1>2, <1>3 DEF Ends
  <2>. QED  BY <1>1, <2>1, <2>2
<1>4. CASE Ends(w) # {}
  <2>1. Ends(w) \in SUBSET Nat
    BY <1>1 DEF Ends
  <2>2. PICK j \in Ends(w) : j = Min(Ends(w)) /\ \A i \in Ends(w) : j <= i
    BY <1>4, <2>1, MinOfSome
  <2>3. j \in m+1..Len(w) /\ SepAt(w, j) > 0 /\ \A i \in m+1..j-1 : SepAt(w, i) = 0
    <3>1. j \in m+1..Len(w) /\ SepAt(w, j) > 0
      BY DEF Ends
    <3>2. ASSUME NEW i \in m+1..j-1 PROVE SepAt(w, i) = 0
      <4>1. i \in m+1..Len(w) /\ ~(j <= i)
        BY <1>1, <3>1
      <4>2. i \notin Ends(w)
        BY <2>2, <4>1
      <4>. QED  BY <1>2, <4>1, <4>2 DEF Ends
    <3>. QED  BY <3>1, <3>2
  <2>4. j # m + 1
    BY <1>1, <2>3 DEF Separates
  <2>5. TokenEnds(w, m, j) /\ j \in Nat
    BY <1>1, <1>2, <2>3, <2>4 DEF TokenEnds
  <2>6. t = [found |-> TRUE, start |-> m, length |-> j - 1 - m, full |-> j - 1 + SepAt(w, j)]
    BY <1>4, <2>2 DEF SearchToken
  <2>. QED  BY <1>1, <2>5, <2>6
<1>. QED  BY <1>3, <1>4
-----------------------------------------------------------------------------
(* w is what of s stands behind b, up to r; b is 0 or the end of a line.   *)
Stands(w, s, b, r) ==
  /\ w \in Seq(Char) /\ b \in Nat /\ r \in Nat /\ b <= r /\ r <= Len(s) /\ Len(w) = r - b
  /\ \A i \in 1..r-b : w[i] = s[b + i]
  /\ b = 0 \/ s[b] = LF

(* Leading separators end no line but empty ones.                          *)
LEMMA BlankLines ==
  ASSUME NEW s \in Seq(Char), NEW w, NEW b, NEW r, Stands(w, s, b, r),
         NEW m, Separates(w, m), NEW e \in b+1..b+m
  PROVE  e \notin FullLines(s)
<1>0. /\ b \in Nat /\ r \in Nat /\ b <= r /\ r <= Len(s) /\ Len(w) = r - b /\ m \in 0..r-b
      /\ e \in Nat /\ Len(s) \in Nat
  BY DEF Stands, Separates
<1> SUFFICES ASSUME e \in FullLines(s) PROVE FALSE
  OBVIOUS
<1>1. e \in LineEnds(s) /\ LineEnding(s, e) # <<>>
  BY DEF FullLines
<1> DEFINE T == {i \in b..e-1 : i = b \/ s[i] = LF}
<1>2. PICK p \in b..e-1 : (p = b \/ s[p] = LF) /\ \A i \in p+1..e-1 : s[i] # LF
  <2>1. T \in SUBSET (0..e-1) /\ b \in T /\ e - 1 \in Nat
    BY <1>0
  <2> HIDE DEF T
  <2>2. Max(T) \in T /\ \A k \in T : k <= Max(T)
    BY <2>1, MaxOfSome
  <2>3. PICK p \in T : \A k \in T : k <= p
    BY <2>2
  <2>4. p \in b..e-1 /\ (p = b \/ s[p] = LF)
    BY DEF T
  <2>5. ASSUME NEW i \in p+1..e-1 PROVE s[i] # LF
    <3>1. i \in b..e-1 /\ ~(i <= p)
      BY <1>0, <2>4
    <3>. QED  BY <2>3, <3>1 DEF T
  <2>. QED  BY <2>4, <2>5
<1>3. \A i \in p+1..e-1 : i + 1 = e /\ s[i] = CR
  <2> TAKE i \in p+1..e-1
  <2>1. PICK k \in Nat : k = i - b
    BY <1>0
  <2>2. k \in 1..m /\ k \in 1..r-b /\ b + k = i
    BY <1>0, <2>1
  <2>3. w[k] = s[i] /\ w[k] # LF
    BY <1>2, <2>2 DEF Stands
  <2>4. w[k] = CR /\ k < m /\ w[k + 1] = LF
    BY <2>2, <2>3 DEF Separates
  <2>5. k + 1 \in 1..r-b /\ b + (k + 1) = i + 1
    BY <1>0, <2>2, <2>4
  <2>6. s[i + 1] = LF
    <3>1. w[k + 1] = s[b + (k + 1)]
      BY <2>5 DEF Stands
    <3>. QED  BY <2>4, <2>5, <3>1
  <2>7. i + 1 \notin p+1..e-1
    BY <1>2, <2>6
  <2>. QED  BY <1>0, <2>3, <2>4, <2>7
<1>4. e = p + 1 \/ (e = p + 2 /\ s[e - 1] = CR)
  <2>1. CASE e - 1 \in p+1..e-1
    <3>1. p + 1 \in p+1..e-1
      BY <1>0, <2>1
    <3>. QED  BY <1>0, <1>3, <2>1, <3>1
  <2>2. CASE e - 1 \notin p+1..e-1
    BY <1>0, <2>2
  <2>. QED  BY <2>1, <2>2
<1>5. LineEnding(s, e) = SubSeq(s, p + 1, IF e > p + 1 /\ s[e - 1] = CR THEN e - 2 ELSE e - 1)
  <2>1. p \in 0..e-1 /\ (p = 0 \/ s[p] = LF)
    BY <1>0, <1>2 DEF Stands
  <2>. QED  BY <1>1, <1>2, <2>1, LineFrom
<1>6. LineEnding(s, e) = SubSeq(s, p + 1, p)
  <2>1. p \in Nat
    BY <1>0, <1>2
  <2>. QED  BY <1>0, <1>4, <1>5, <2>1
<1>7. SubSeq(s, p + 1, p) = <<>>
  <2>1. p \in Nat
    BY <1>0, <1>2
  <2>. QED  BY <2>1, SubSeqEmpty
<1>. QED  BY <1>1, <1>6, <1>7

(* No line ends where no separator is.                                     *)
LEMMA NoSeparator ==
  ASSUME NEW s \in Seq(Char), NEW w, NEW b, NEW r, Stands(w, s, b, r),
         NEW k \in 1..Len(w), SepAt(w, k) = 0
  PROVE  s[b + k] # LF /\ b + k \notin FullLines(s)
<1>1. w \in Seq(Char) /\ k \in 1..r-b
  BY DEF Stands
<1>2. w[k] # LF
  BY <1>1, SepParts
<1>3. s[b + k] # LF
  BY <1>1, <1>2 DEF Stands
<1>. QED  BY <1>3 DEF FullLines, LineEnds

(* No token: no line ends in the buffer.                                   *)
LEMMA NoToken ==
  ASSUME NEW s \in Seq(Char), NEW w, NEW b, NEW r, Stands(w, s, b, r), ~SearchToken(w).found
  PROVE  Before(s, r) = Before(s, b)
<1>0. b \in Nat /\ r \in Nat /\ b <= r /\ r <= Len(s) /\ Len(w) = r - b /\ w \in Seq(Char)
  BY DEF Stands
<1>1. PICK m \in Nat : Separates(w, m) /\ m <= Len(w) /\ \A i \in m+1..Len(w) : SepAt(w, i) = 0
  <2>1. Separates(w, Leading(w)) /\ \A i \in Leading(w)+1..Len(w) : SepAt(w, i) = 0
    BY <1>0, SearchParts
  <2>2. Leading(w) \in Nat /\ Leading(w) <= Len(w)
    BY <1>0, <2>1 DEF Separates
  <2>. QED  BY <2>1, <2>2
<1>2. \A e \in b+1..r : e \notin FullLines(s)
  <2> TAKE e \in b+1..r
  <2>1. CASE e \in b+1..b+m
    BY <1>1, <2>1, BlankLines
  <2>2. CASE e \notin b+1..b+m
    <3>1. PICK k \in Nat : k = e - b
      BY <1>0
    <3>2. k \in m+1..Len(w) /\ k \in 1..Len(w) /\ b + k = e
      BY <1>0, <1>1, <2>2, <3>1
    <3>. QED  BY <1>1, <3>2, NoSeparator
  <2>. QED  BY <2>1, <2>2
<1>3. \A e \in FullLines(s) : e \in Nat /\ (e <= r <=> e <= b)
  <2> TAKE e \in FullLines(s)
  <2>1. e \in Nat /\ e \notin b+1..r
    BY <1>2, LinePlaces
  <2>. QED  BY <1>0, <2>1
<1>. QED  BY <1>3 DEF Before
(* A token: the next line, which ends where the buffer is cut.             *)
LEMMA NextToken ==
  ASSUME NEW s \in Seq(Char), NEW w, NEW b, NEW r, Stands(w, s, b, r),
         NEW t, t = SearchToken(w), t.found
  PROVE  /\ t.full \in 1..r-b /\ t.length \in Nat
         /\ b + t.full \in FullLines(s) /\ s[b + t.full] = LF
         /\ \A i \in b+1..b+t.full-1 : i \notin FullLines(s)
         /\ LineEnding(s, b + t.full) = Token(w, t)
         /\ Token(w, t) \in Seq(Char) /\ Len(Token(w, t)) = t.length
<1>0. b \in Nat /\ r \in Nat /\ b <= r /\ r <= Len(s) /\ Len(w) = r - b /\ w \in Seq(Char) /\ Len(s) \in Nat
  BY DEF Stands
<1>1. PICK m \in Nat, j \in Nat :
        /\ Separates(w, m) /\ TokenEnds(w, m, j)
        /\ t.start = m /\ t.length = j - 1 - m /\ t.full = j - 1 + SepAt(w, j)
  <2>1. Separates(w, Leading(w)) /\ \E j \in Nat :
          TokenEnds(w, Leading(w), j) /\ t.start = Leading(w) /\ t.length = j - 1 - Leading(w)
          /\ t.full = j - 1 + SepAt(w, j)
    BY <1>0, SearchParts
  <2>2. Leading(w) \in Nat
    BY <1>0, <2>1 DEF Separates
  <2>. QED  BY <2>1, <2>2
<1>2. /\ j \in m+2..r-b /\ SepAt(w, j) \in {1, 2}
      /\ \A i \in m+1..j-1 : SepAt(w, i) = 0
  BY <1>0, <1>1 DEF TokenEnds
<1>3. PICK f \in Nat : f = t.full /\ f = j - 1 + SepAt(w, j)
  BY <1>1, <1>2
<1>4. /\ f \in j..r-b /\ w[f] = LF
      /\ f = j \/ (f = j + 1 /\ w[j] = CR)
      /\ \A i \in 1..f-1 : i \in 1..m \/ i \in m+1..j-1 \/ (i = j /\ f = j + 1 /\ w[i] = CR)
  <2>1. CASE SepAt(w, j) = 1
    <3>1. w[j] = LF /\ f = j
      BY <1>0, <1>2, <1>3, <2>1, SepParts
    <3>. QED  BY <1>0, <1>2, <3>1
  <2>2. CASE SepAt(w, j) = 2
    <3>1. w[j] = CR /\ j < r - b /\ w[j + 1] = LF /\ f = j + 1
      BY <1>0, <1>2, <1>3, <2>2, SepParts
    <3>. QED  BY <1>0, <1>2, <3>1
  <2>. QED  BY <1>2, <2>1, <2>2
<1>5. PICK e \in Nat : e = b + f
  BY <1>0
<1>6. e \in LineEnds(s) /\ s[e] = LF /\ e <= r /\ e \in 1..Len(s)
  <2>1. f \in 1..r-b
    BY <1>2, <1>4
  <2>2. w[f] = s[b + f]
    BY <2>1 DEF Stands
  <2>. QED  BY <1>0, <1>4, <1>5, <2>1, <2>2 DEF LineEnds
(* Between the leading separators and e no line ends.                      *)
<1>7. \A i \in b+m+1..e-1 : s[i] # LF
  <2> TAKE i \in b+m+1..e-1
  <2>1. PICK k \in Nat : k = i - b
    BY <1>0, <1>1
  <2>2. k \in 1..f-1 /\ k \notin 1..m /\ b + k = i /\ k \in 1..r-b
    BY <1>0, <1>1, <1>4, <1>5, <2>1
  <2>3. CASE k \in m+1..j-1
    <3>1. k \in 1..Len(w) /\ SepAt(w, k) = 0
      BY <1>0, <1>2, <2>2, <2>3
    <3>. QED  BY <2>2, <3>1, NoSeparator
  <2>4. CASE w[k] = CR
    <3>1. w[k] = s[b + k]
      BY <2>2 DEF Stands
    <3>. QED  BY <2>2, <2>4, <3>1, LineStreamAssumption
  <2>. QED  BY <1>4, <2>2, <2>3, <2>4
<1>8. \A i \in b+1..e-1 : i \notin FullLines(s)
  <2> TAKE i \in b+1..e-1
  <2>1. CASE i \in b+1..b+m
    BY <1>1, <2>1, BlankLines
  <2>2. CASE i \in b+m+1..e-1
    BY <1>7, <2>2 DEF FullLines, LineEnds
  <2>. QED  BY <1>0, <1>1, <1>5, <2>1, <2>2
<1>9. PICK p \in Nat : p = b + m /\ p \in 0..e-1 /\ (p = 0 \/ s[p] = LF)
  <2>1. PICK p \in Nat : p = b + m
    BY <1>0, <1>1
  <2>2. CASE m = 0
    BY <1>0, <1>2, <1>4, <1>5, <2>1, <2>2 DEF Stands
  <2>3. CASE m > 0
    <3>1. m \in 1..m /\ m \in 1..r-b
      BY <1>0, <1>1, <1>2, <2>3
    <3>2. w[m] = LF
      BY <1>1, <3>1 DEF Separates
    <3>3. w[m] = s[b + m]
      BY <3>1 DEF Stands
    <3>. QED  BY <1>0, <1>1, <1>2, <1>4, <1>5, <2>1, <3>2, <3>3
  <2>. QED  BY <1>1, <2>2, <2>3
<1>10. LineEnding(s, e) = SubSeq(s, p + 1, IF e > p + 1 /\ s[e - 1] = CR THEN e - 2 ELSE e - 1)
  <2>1. \A i \in p+1..e-1 : s[i] # LF
    BY <1>7, <1>9
  <2>. QED  BY <1>6, <1>9, <2>1, LineFrom
(* A CR before the LF is the separator's.                                  *)
<1>11. (IF e > p + 1 /\ s[e - 1] = CR THEN e - 2 ELSE e - 1) = b + j - 1
  <2>1. j - 1 \in m+1..j-1 /\ j - 1 \in 1..r-b /\ j \in 1..r-b
    BY <1>0, <1>1, <1>2
  <2>2. w[j - 1] = s[b + (j - 1)] /\ w[j] = s[b + j]
    BY <2>1 DEF Stands
  <2>3. CASE f = j
    <3>1. e - 1 = b + (j - 1) /\ w[j] = LF
      BY <1>0, <1>2, <1>4, <1>5, <2>3
    <3>2. SepAt(w, j - 1) = 0
      BY <1>2, <2>1
    <3>3. (j - 1) + 1 = j /\ j - 1 < Len(w)
      BY <1>0, <2>1
    <3>4. w[j - 1] # CR
      BY <1>0, <2>1, <3>1, <3>2, <3>3, SepParts
    <3>5. s[e - 1] # CR
      BY <2>2, <3>1, <3>4
    <3>. QED  BY <1>0, <1>2, <2>3, <1>5, <3>5
  <2>4. CASE f = j + 1 /\ w[j] = CR
    <3>1. e - 1 = b + j /\ e - 2 = b + j - 1 /\ e > p + 1
      BY <1>0, <1>1, <1>2, <1>5, <1>9, <2>4
    <3>2. s[e - 1] = CR
      BY <2>2, <2>4, <3>1
    <3>. QED  BY <3>1, <3>2
  <2>. QED  BY <1>4, <2>3, <2>4
<1>12. Token(w, t) = SubSeq(w, m + 1, j - 1)
  <2>1. t.start + t.length = j - 1
    BY <1>1, <1>2
  <2>. QED  BY <1>1, <2>1 DEF Token
<1>13. f \in 1..r-b /\ m + 1 \in 1..Len(w) /\ j - 1 \in m+1..Len(w) /\ j - 1 - m \in Nat \ {0}
  BY <1>0, <1>1, <1>2, <1>4
<1>14. /\ Token(w, t) \in Seq(Char) /\ Len(Token(w, t)) = j - 1 - m
       /\ \A i \in 1..j-1-m : Token(w, t)[i] = w[m + i]
  <2>1. PICK q \in Nat : q = j - 1
    BY <1>1, <1>13
  <2>2. m \in 0..Len(w) /\ q \in m..Len(w)
    BY <1>0, <1>1, <1>13, <2>1
  <2>3. /\ SubSeq(w, m + 1, q) \in Seq(Char) /\ Len(SubSeq(w, m + 1, q)) = q - m
        /\ \A i \in 1..q-m : SubSeq(w, m + 1, q)[i] = w[m + i]
    BY <1>0, <2>2, Piece
  <2>4. Token(w, t) = SubSeq(w, m + 1, q) /\ q - m = j - 1 - m
    BY <1>12, <2>1
  <2>. QED  BY <2>3, <2>4
<1>15. /\ LineEnding(s, e) \in Seq(Char) /\ Len(LineEnding(s, e)) = j - 1 - m
       /\ \A i \in 1..j-1-m : LineEnding(s, e)[i] = s[p + i]
  <2>1. PICK q \in Nat : q = b + j - 1
    BY <1>0, <1>1, <1>13
  <2>2. p \in 0..Len(s) /\ q \in p..Len(s) /\ q - p = j - 1 - m
    BY <1>0, <1>1, <1>2, <1>9, <2>1
  <2>3. LineEnding(s, e) = SubSeq(s, p + 1, q)
    BY <1>10, <1>11, <2>1
  <2>4. /\ SubSeq(s, p + 1, q) \in Seq(Char) /\ Len(SubSeq(s, p + 1, q)) = q - p
        /\ \A i \in 1..q-p : SubSeq(s, p + 1, q)[i] = s[p + i]
    BY <2>2, Piece
  <2>. QED  BY <2>2, <2>3, <2>4
<1>16. LineEnding(s, e) = Token(w, t)
  <2>1. ASSUME NEW i \in 1..j-1-m PROVE w[m + i] = s[p + i]
    <3>1. m + i \in 1..r-b /\ b + (m + i) = p + i
      BY <1>0, <1>1, <1>2, <1>9
    <3>. QED  BY <3>1 DEF Stands
  <2>2. PICK x \in Seq(Char) : x = LineEnding(s, e)
    BY <1>15
  <2>3. PICK y \in Seq(Char) : y = Token(w, t)
    BY <1>14
  <2>4. Len(x) = Len(y) /\ Len(x) = j - 1 - m /\ \A i \in 1..j-1-m : x[i] = y[i]
    BY <1>14, <1>15, <2>1, <2>2, <2>3
  <2>5. x = y
    BY <2>4, SeqEqual
  <2>. QED  BY <2>2, <2>3, <2>5
<1>17. e \in FullLines(s)
  <2>1. LineEnding(s, e) # <<>>
    BY <1>13, <1>15
  <2>. QED  BY <1>6, <2>1 DEF FullLines
<1>18. /\ f \in 1..r-b /\ j - 1 - m \in Nat
       /\ b + f \in FullLines(s) /\ s[b + f] = LF
       /\ \A i \in b+1..b+f-1 : i \notin FullLines(s)
       /\ LineEnding(s, b + f) = Token(w, t)
  <2>1. f \in 1..r-b /\ j - 1 - m \in Nat
    BY <1>13
  <2>2. b + f = e
    BY <1>5
  <2>3. b + f \in FullLines(s) /\ s[b + f] = LF /\ LineEnding(s, b + f) = Token(w, t)
    BY <1>6, <1>16, <1>17, <2>2
  <2>4. \A i \in b+1..b+f-1 : i \notin FullLines(s)
    <3> TAKE i \in b+1..b+f-1
    <3>1. i \in b+1..e-1
      BY <1>0, <1>5
    <3>. QED  BY <1>8, <3>1
  <2>. QED  BY <2>1, <2>3, <2>4
<1>. QED  BY <1>1, <1>3, <1>14, <1>18

(* The buffer goes on behind the token.                                    *)
LEMMA NextLine ==
  ASSUME NEW s \in Seq(Char), NEW w, NEW b, NEW r, Stands(w, s, b, r),
         NEW l, UpTo(l, s, b), NEW t, t = SearchToken(w), t.found
  PROVE  /\ b + t.full \in b..r
         /\ Stands(Rest(w, t), s, b + t.full, r)
         /\ UpTo(Append(l, Token(w, t)), s, b + t.full)
<1>0. b \in Nat /\ r \in Nat /\ b <= r /\ r <= Len(s) /\ Len(w) = r - b /\ w \in Seq(Char) /\ Len(s) \in Nat
  BY DEF Stands
<1>1. PICK f \in 1..r-b : f = t.full
  BY NextToken
<1>2. PICK e \in Nat : e = b + f /\ b < e /\ e <= r
  BY <1>0, <1>1
<1>3. /\ e \in FullLines(s) /\ s[e] = LF /\ LineEnding(s, e) = Token(w, t) /\ Token(w, t) \in Seq(Char)
      /\ \A i \in b+1..e-1 : i \notin FullLines(s)
  <2>1. b + t.full = e
    BY <1>1, <1>2
  <2>2. b + t.full \in FullLines(s) /\ s[b + t.full] = LF /\ LineEnding(s, b + t.full) = Token(w, t) /\ Token(w, t) \in Seq(Char)
    BY NextToken
  <2>3. ASSUME NEW i \in b+1..e-1 PROVE i \notin FullLines(s)
    <3>1. i \in b+1..b+t.full-1
      BY <1>0, <1>1, <1>2
    <3>. QED  BY <3>1, NextToken
  <2>. QED  BY <2>1, <2>2, <2>3
<1>4. Stands(Rest(w, t), s, e, r)
  <2>1. PICK q \in Nat : q = Len(w) /\ f \in 0..Len(w) /\ q \in f..Len(w) /\ q - f = r - e
    BY <1>0, <1>1, <1>2
  <2>2. /\ SubSeq(w, f + 1, q) \in Seq(Char) /\ Len(SubSeq(w, f + 1, q)) = q - f
        /\ \A i \in 1..q-f : SubSeq(w, f + 1, q)[i] = w[f + i]
    BY <1>0, <2>1, Piece
  <2>3. Rest(w, t) = SubSeq(w, f + 1, q)
    BY <1>1, <2>1 DEF Rest
  <2>4. ASSUME NEW i \in 1..r-e PROVE w[f + i] = s[e + i]
    <3>1. i \in Nat \ {0} /\ i <= r - e
      BY <1>0, <1>2
    <3>2. f \in Nat \ {0}
      BY <1>0, <1>1
    <3>3. f + i \in 1..r-b /\ b + (f + i) = e + i
      BY <1>0, <1>2, <3>1, <3>2
    <3>. QED  BY <3>3 DEF Stands
  <2>. QED  BY <1>0, <1>2, <1>3, <2>1, <2>2, <2>3, <2>4 DEF Stands
<1>5. UpTo(Append(l, Token(w, t)), s, e)
  <2>1. Before(s, e) = Before(s, b) \cup {e} /\ Rank(s, e) = Cardinality(Before(s, b)) + 1
    BY <1>0, <1>2, <1>3, NextRank
  <2>2. PICK c \in Nat : c = Cardinality(Before(s, b))
    BY <1>0, BeforeFinite
  <2>3. PICK x \in Seq(Char) : x = Token(w, t)
    BY <1>3
  <2>4. l \in Seq(Seq(Char)) /\ Len(l) = c /\ \A i \in Before(s, b) : l[Rank(s, i)] = LineEnding(s, i)
    BY <2>2 DEF UpTo
  <2>5. /\ Append(l, x) \in Seq(Seq(Char)) /\ Len(Append(l, x)) = c + 1 /\ Append(l, x)[c + 1] = x
        /\ \A i \in 1..c : Append(l, x)[i] = l[i]
    BY <2>2, <2>4
  <2>6. \A i \in Before(s, b) : Rank(s, i) \in 1..c
    BY <1>0, <2>2, RankRange
  <2>7. Cardinality(Before(s, e)) = c + 1 /\ Rank(s, e) = c + 1
    BY <2>1, <2>2 DEF Rank
  <2>8. \A i \in Before(s, e) : Append(l, x)[Rank(s, i)] = LineEnding(s, i)
    <3>1. Append(l, x)[Rank(s, e)] = LineEnding(s, e)
      BY <1>3, <2>3, <2>5, <2>7
    <3>2. \A i \in Before(s, b) : Append(l, x)[Rank(s, i)] = LineEnding(s, i)
      BY <2>4, <2>5, <2>6
    <3>. QED  BY <2>1, <3>1, <3>2
  <2>. QED  BY <2>3, <2>5, <2>7, <2>8 DEF UpTo
<1>6. b + t.full = e /\ e \in b..r
  BY <1>0, <1>1, <1>2
<1>. QED  BY <1>4, <1>5, <1>6

(* u is what of s stands behind r.                                         *)
Follows(u, s, r) ==
  u \in Seq(Char) /\ Len(u) = Len(s) - r /\ \A i \in 1..Len(u) : u[i] = s[r + i]

(* read appends the next piece of the stream.                              *)
LEMMA ReadMore ==
  ASSUME NEW s \in Seq(Char), NEW w, NEW b, NEW r, Stands(w, s, b, r),
         NEW u, Follows(u, s, r), NEW k \in 1..Len(u)
  PROVE  /\ Stands(w \o SubSeq(u, 1, k), s, b, r + k)
         /\ Follows(SubSeq(u, k + 1, Len(u)), s, r + k)
<1>1. b \in Nat /\ r \in Nat /\ b <= r /\ r <= Len(s) /\ Len(w) = r - b /\ w \in Seq(Char) /\ Len(s) \in Nat
  BY DEF Stands
<1>2. u \in Seq(Char) /\ Len(u) = Len(s) - r /\ \A i \in 1..Len(u) : u[i] = s[r + i]
  BY DEF Follows
<1>3. PICK q \in Nat : q = r + k /\ q <= Len(s)
  BY <1>1, <1>2
<1>4. PICK x \in Seq(Char) : x = SubSeq(u, 1, k) /\ Len(x) = k /\ \A i \in 1..k : x[i] = u[i]
  <2>1. PICK p : p = 0
    OBVIOUS
  <2>2. p \in 0..Len(u) /\ k \in p..Len(u) /\ p + 1 = 1 /\ k - p = k
    BY <1>2, <2>1
  <2>3. /\ SubSeq(u, p + 1, k) \in Seq(Char) /\ Len(SubSeq(u, p + 1, k)) = k - p
        /\ \A i \in 1..k-p : SubSeq(u, p + 1, k)[i] = u[p + i]
    BY <1>2, <2>2, Piece
  <2>4. \A i \in 1..k : p + i = i
    BY <2>1
  <2>5. PICK x : x = SubSeq(u, p + 1, k)
    OBVIOUS
  <2>6. x \in Seq(Char) /\ Len(x) = k
    BY <2>2, <2>3, <2>5
  <2>7. \A i \in 1..k : x[i] = u[p + i]
    BY <2>2, <2>3, <2>5
  <2>8. \A i \in 1..k : x[i] = u[i]
    BY <2>4, <2>7
  <2>9. x = SubSeq(u, 1, k)
    BY <2>2, <2>5
  <2>. QED  BY <2>6, <2>8, <2>9
<1>5. PICK y \in Seq(Char) : y = SubSeq(u, k + 1, Len(u)) /\ Len(y) = Len(s) - q /\ \A i \in 1..Len(s)-q : y[i] = u[k + i]
  <2>0. PICK n \in Nat : n = Len(u)
    BY <1>2
  <2>1. k \in 0..Len(u) /\ n \in k..Len(u) /\ n - k = Len(s) - q
    BY <1>1, <1>2, <1>3, <2>0
  <2>2. /\ SubSeq(u, k + 1, n) \in Seq(Char) /\ Len(SubSeq(u, k + 1, n)) = n - k
        /\ \A i \in 1..n-k : SubSeq(u, k + 1, n)[i] = u[k + i]
    BY <1>2, <2>1, Piece
  <2>. QED  BY <2>0, <2>1, <2>2
<1>6. Stands(w \o x, s, b, q)
  <2>0. PICK v \in Seq(Char) : v = w
    BY <1>1, <1>2
  <2>1. /\ w \o x \in Seq(Char) /\ Len(w \o x) = Len(w) + Len(x)
        /\ \A i \in 1..Len(w)+Len(x) : (w \o x)[i] = IF i <= Len(w) THEN w[i] ELSE x[i - Len(w)]
    <3>1. /\ v \o x \in Seq(Char) /\ Len(v \o x) = Len(v) + Len(x)
          /\ \A i \in 1..Len(v)+Len(x) : (v \o x)[i] = IF i <= Len(v) THEN v[i] ELSE x[i - Len(v)]
      BY ConcatProperties
    <3>. QED  BY <2>0, <3>1
  <2>2. Len(w) + Len(x) = q - b
    BY <1>1, <1>2, <1>3, <1>4
  <2>3. ASSUME NEW i \in 1..q-b PROVE (w \o x)[i] = s[b + i]
    <3>1. CASE i <= r - b
      <4>1. i \in 1..r-b
        BY <1>1, <1>2, <3>1
      <4>2. w[i] = s[b + i]
        BY <4>1 DEF Stands
      <4>. QED  BY <1>1, <1>2, <2>1, <2>2, <3>1, <4>2
    <3>2. CASE ~(i <= r - b)
      <4>0. PICK j \in Int : j = i - (r - b)
        BY <1>1, <1>2
      <4>1. j \in 1..k /\ j \in 1..Len(u) /\ r + j = b + i
        BY <1>1, <1>2, <1>3, <3>2, <4>0
      <4>2. x[j] = u[j] /\ u[j] = s[r + j]
        BY <1>2, <1>4, <4>1
      <4>3. (w \o x)[i] = x[j]
        BY <1>1, <1>2, <2>1, <2>2, <3>2, <4>0
      <4>. QED  BY <4>1, <4>2, <4>3
    <3>. QED  BY <3>1, <3>2
  <2>4. PICK z : z = w \o x
    OBVIOUS
  <2>5. z \in Seq(Char) /\ Len(z) = q - b /\ \A i \in 1..q-b : z[i] = s[b + i]
    BY <2>1, <2>2, <2>3, <2>4
  <2>6. b <= q /\ (b = 0 \/ s[b] = LF)
    BY <1>1, <1>3 DEF Stands
  <2>7. Stands(z, s, b, q)
    BY <1>1, <1>3, <2>5, <2>6 DEF Stands
  <2>. QED  BY <2>4, <2>7
<1>7. ASSUME NEW i \in 1..Len(s)-q PROVE y[i] = s[q + i]
  <2>1. k + i \in 1..Len(u) /\ r + (k + i) = q + i
    <3>1. PICK n \in Nat, m \in Nat : n = Len(s) /\ m = Len(u)
      BY <1>1, <1>2
    <3>2. m = n - r /\ k \in Nat \ {0}
      BY <1>2, <3>1
    <3>3. i \in Nat /\ i <= n - q
      BY <1>3, <3>1
    <3>4. k + i \in 1..m /\ r + (k + i) = q + i
      BY <1>1, <1>3, <3>1, <3>2, <3>3
    <3>. QED  BY <3>1, <3>4
  <2>2. u[k + i] = s[r + (k + i)]
    BY <1>2, <2>1
  <2>. QED  BY <1>5, <2>1, <2>2
<1>8. Follows(y, s, q)
  BY <1>5, <1>7 DEF Follows
<1>. QED  BY <1>3, <1>4, <1>5, <1>6, <1>8

(* Where the line that ends at e begins.                                   *)
LEMMA LineStart ==
  ASSUME NEW s \in Seq(Char), NEW e \in LineEnds(s)
  PROVE  \E p \in 0..e-1 : (p = 0 \/ s[p] = LF) /\ \A i \in p+1..e-1 : s[i] # LF
<1> DEFINE T == {i \in 0..e-1 : i = 0 \/ s[i] = LF}
<1>0. e \in Nat \ {0}
  BY DEF LineEnds
<1>1. T \in SUBSET (0..e-1) /\ 0 \in T /\ e - 1 \in Nat
  BY <1>0
<1>2. PICK p \in T : \A k \in T : k <= p
  <2> HIDE DEF T
  <2>1. Max(T) \in T /\ \A k \in T : k <= Max(T)
    BY <1>1, MaxOfSome
  <2>. QED  BY <2>1
<1>3. p \in 0..e-1 /\ (p = 0 \/ s[p] = LF)
  OBVIOUS
<1>4. ASSUME NEW i \in p+1..e-1 PROVE s[i] # LF
  <2>1. i \in 0..e-1 /\ ~(i <= p)
    BY <1>0, <1>3
  <2>. QED  BY <1>2, <2>1
<1>. QED  BY <1>3, <1>4

(* The lines of what has arrived are the lines of s that end in it.        *)
LEMMA PrefixLines ==
  ASSUME NEW s \in Seq(Char), NEW R \in 0..Len(s), NEW p, p = SubSeq(s, 1, R)
  PROVE  /\ p \in Seq(Char) /\ Len(p) = R
         /\ FullLines(p) = Before(s, R)
         /\ \A e \in Before(s, R) : LineEnding(p, e) = LineEnding(s, e)
<1>1. p \in Seq(Char) /\ Len(p) = R /\ \A i \in 1..R : p[i] = s[i]
  <2>1. PICK z : z = 0
    OBVIOUS
  <2>2. z \in 0..Len(s) /\ R \in z..Len(s) /\ z + 1 = 1 /\ R - z = R /\ \A i \in 1..R : z + i = i
    BY <2>1
  <2>3. /\ SubSeq(s, z + 1, R) \in Seq(Char) /\ Len(SubSeq(s, z + 1, R)) = R - z
        /\ \A i \in 1..R-z : SubSeq(s, z + 1, R)[i] = s[z + i]
    BY <2>2, Piece
  <2>4. p = SubSeq(s, z + 1, R)
    BY <2>2
  <2>5. p \in Seq(Char) /\ Len(p) = R /\ \A i \in 1..R : p[i] = s[z + i]
    BY <2>2, <2>3, <2>4
  <2>. QED  BY <2>2, <2>5
<1>2. LineEnds(p) = {i \in LineEnds(s) : i <= R}
  <2>1. \A i : i \in 1..Len(p) <=> i \in 1..Len(s) /\ i <= R
    BY <1>1
  <2>. QED  BY <1>1, <2>1 DEF LineEnds
<1>3. ASSUME NEW e \in LineEnds(p) PROVE LineEnding(p, e) = LineEnding(s, e)
  <2>1. e \in 1..R /\ e \in LineEnds(s)
    BY <1>1, <1>2 DEF LineEnds
  <2>2. PICK q \in 0..e-1 : (q = 0 \/ s[q] = LF) /\ \A i \in q+1..e-1 : s[i] # LF
    BY <2>1, LineStart
  <2>3. \A i \in 1..e-1 : p[i] = s[i]
    BY <1>1, <2>1
  <2>4. (q = 0 \/ p[q] = LF) /\ \A i \in q+1..e-1 : p[i] # LF
    BY <2>1, <2>2, <2>3
  <2>5. PICK last : last = IF e > q + 1 /\ s[e - 1] = CR THEN e - 2 ELSE e - 1
    OBVIOUS
  <2>6. last = IF e > q + 1 /\ p[e - 1] = CR THEN e - 2 ELSE e - 1
    BY <2>1, <2>2, <2>3, <2>5
  <2>7. LineEnding(s, e) = SubSeq(s, q + 1, last)
    BY <2>1, <2>2, <2>5, LineFrom
  <2>8. LineEnding(p, e) = SubSeq(p, q + 1, last)
    BY <1>1, <2>4, <2>6, LineFrom
  <2>9. last \in q..R /\ q \in 0..R /\ q \in 0..Len(s) /\ last \in q..Len(s)
    BY <2>1, <2>2, <2>5
  <2>10. last <= Len(p) /\ \A i \in q+1..last : s[i] = p[i]
    BY <1>1, <2>9
  <2>11. SubSeq(s, q + 1, last) = SubSeq(p, q + 1, last)
    BY <1>1, <2>9, <2>10, SamePiece
  <2>. QED  BY <2>7, <2>8, <2>11
<1>4. FullLines(p) = Before(s, R)
  BY <1>2, <1>3 DEF FullLines, Before
<1>5. \A e \in Before(s, R) : e \in LineEnds(p)
  BY <1>4 DEF FullLines
<1>. QED  BY <1>1, <1>3, <1>4, <1>5

LEMMA UpToPrefix ==
  ASSUME NEW s \in Seq(Char), NEW R \in 0..Len(s), NEW l, UpTo(l, s, R)
  PROVE  l = LinesOf(SubSeq(s, 1, R))
<1>1. PICK p : p = SubSeq(s, 1, R)
  OBVIOUS
<1>2. /\ p \in Seq(Char) /\ Len(p) = R /\ FullLines(p) = Before(s, R)
      /\ \A e \in Before(s, R) : LineEnding(p, e) = LineEnding(s, e)
  BY <1>1, PrefixLines
<1>3. Before(p, Len(p)) = Before(s, R)
  BY <1>2, BeforeAll
<1>4. ASSUME NEW e \in Before(s, R) PROVE Rank(p, e) = Rank(s, e)
  <2>1. e \in Nat /\ e <= R
    BY <1>4, LinePlaces DEF Before
  <2>2. \A f \in FullLines(s) : f \in Nat
    BY LinePlaces
  <2>3. \A f \in FullLines(s) : f <= e => f <= R
    BY <2>1, <2>2
  <2>4. Before(p, e) = Before(s, e)
    BY <1>2, <2>3, Zenon DEF Before
  <2>. QED  BY <2>4 DEF Rank
<1>5. UpTo(l, p, Len(p))
  BY <1>2, <1>3, <1>4 DEF UpTo
<1>. QED  BY <1>1, <1>2, <1>5, UpToAll

(* What was handed on is a prefix of all the lines.                        *)
LEMMA UpToSome ==
  ASSUME NEW s \in Seq(Char), NEW n \in Nat, NEW l, UpTo(l, s, n)
  PROVE  /\ Len(LinesOf(s)) = Cardinality(FullLines(s))
         /\ l = SubSeq(LinesOf(s), 1, Len(l))
<1>1. PICK N \in Nat : N = Cardinality(FullLines(s))
  BY LinesOfParts
<1>2. PICK x : x = LinesOf(s) /\ DOMAIN x = 1..N /\ x = [k \in 1..N |-> x[k]]
  <2>1. PICK x : x = LinesOf(s)
    OBVIOUS
  <2>2. DOMAIN x = 1..N
    BY <1>1, <2>1, LinesOfParts
  <2>3. x = [k \in 1..N |-> x[k]]
    BY <1>1, <2>1 DEF LinesOf
  <2>. QED  BY <2>1, <2>2, <2>3
<1>3. PICK A : \A k \in 1..N : x[k] \in A
  <2>1. \A k \in 1..N : x[k] \in {x[i] : i \in 1..N}
    OBVIOUS
  <2>. QED  BY <2>1
<1>4. x \in Seq(A) /\ Len(x) = N
  BY <1>2, <1>3
<1>5. PICK c \in Nat : c = Cardinality(Before(s, n))
  BY BeforeFinite
<1>6. l \in Seq(Seq(Char)) /\ Len(l) = c
  BY <1>5 DEF UpTo
<1>7. c <= N
  <2>1. Before(s, n) \subseteq FullLines(s) /\ IsFiniteSet(FullLines(s))
    <3>1. IsFiniteSet(Before(s, Len(s)))
      BY BeforeFinite
    <3>. QED  BY <3>1, BeforeAll DEF Before
  <2>. QED  BY <1>1, <1>5, <2>1, FS_Subset
<1>8. ASSUME NEW k \in 1..c PROVE l[k] = x[k]
  <2>1. PICK e \in Before(s, n) : Rank(s, e) = k
    BY <1>5, RankOnto
  <2>2. e \in FullLines(s)
    BY DEF Before
  <2>3. x[Rank(s, e)] = LineEnding(s, e)
    BY <1>2, <2>2, LinesOfParts
  <2>4. l[Rank(s, e)] = LineEnding(s, e)
    BY DEF UpTo
  <2>. QED  BY <2>1, <2>3, <2>4
<1>9. PICK y : y = SubSeq(x, 1, c)
  OBVIOUS
<1>10. y \in Seq(A) /\ Len(y) = c /\ \A i \in 1..c : y[i] = x[i]
  BY <1>4, <1>7, <1>9
<1>11. l = [k \in 1..c |-> l[k]] /\ y = [k \in 1..c |-> y[k]]
  BY <1>6, <1>10
<1>12. l = y
  BY <1>8, <1>10, <1>11
<1>. QED  BY <1>1, <1>2, <1>4, <1>6, <1>9, <1>12
-----------------------------------------------------------------------------
(* What of the stream has been read.                                       *)
Reached == Len(sent) - Len(unread)

(* The buffer holds what was read behind the lines handed on.              *)
StreamInv ==
  /\ StreamTypeOK
  /\ Len(unread) <= Len(sent) /\ Follows(unread, sent, Reached)
  /\ \E b \in 0..Reached : Stands(buf, sent, b, Reached) /\ UpTo(lines, sent, b)
  /\ pc = "read" \/ ret = 0 => ~SearchToken(buf).found
  /\ ret = 0 => unread = <<>> \/ Len(buf) = BufMax - 1
  /\ ret # 1 => pc = "end"
  /\ pc = "end" /\ SearchToken(buf).found => TooLong(SearchToken(buf))

LEMMA StreamsAre ==
  \A s : s \in Streams <=> s \in Seq(Char) /\ Len(s) <= MaxStream
<1> TAKE s
<1>1. ASSUME s \in Streams PROVE s \in Seq(Char) /\ Len(s) <= MaxStream
  <2>1. PICK n \in 0..MaxStream : s \in [1..n -> Char]
    BY <1>1 DEF Streams, Char
  <2>. QED  BY <2>1, LineStreamAssumption
<1>2. ASSUME s \in Seq(Char), Len(s) <= MaxStream PROVE s \in Streams
  <2>1. PICK n \in Nat : n = Len(s)
    BY <1>2
  <2>2. n \in 0..MaxStream /\ s \in [1..n -> Char]
    BY <1>2, <2>1, LineStreamAssumption
  <2>. QED  BY <2>2 DEF Streams, Char
<1>. QED  BY <1>1, <1>2

(* What the parts of the invariant say of the buffer and of the stream.    *)
LEMMA StreamParts ==
  ASSUME StreamInv
  PROVE  /\ sent \in Seq(Char) /\ unread \in Seq(Char) /\ buf \in Seq(Char) /\ lines \in Seq(Seq(Char))
         /\ Len(unread) \in Nat /\ Len(sent) \in Nat /\ Len(buf) \in Nat
         /\ Len(sent) <= MaxStream /\ Len(unread) <= Len(sent) /\ Reached \in 0..Len(sent)
         /\ Len(unread) = Len(sent) - Reached /\ Len(buf) < BufMax
<1>1. sent \in Seq(Char) /\ unread \in Seq(Char) /\ Len(sent) <= MaxStream
  BY StreamsAre DEF StreamInv, StreamTypeOK
<1>2. buf \in Seq(Char) /\ lines \in Seq(Seq(Char)) /\ Len(unread) <= Len(sent) /\ Len(buf) < BufMax
  BY DEF StreamInv, StreamTypeOK, Char
<1>. QED  BY <1>1, <1>2 DEF Reached

LEMMA StreamInitially == StreamInit => StreamInv
<1> SUFFICES ASSUME StreamInit PROVE StreamInv
  OBVIOUS
<1>1. /\ sent \in Streams /\ unread = sent /\ buf = <<>> /\ lines = <<>>
      /\ pc \in {"read", "search"} /\ ret = 1
  BY DEF StreamInit
<1>2. sent \in Seq(Char) /\ Len(sent) \in Nat /\ Reached = 0
  BY <1>1, StreamsAre DEF Reached
<1>3. Stands(<<>>, sent, 0, 0)
  BY <1>2 DEF Stands
<1>4. UpTo(<<>>, sent, 0)
  <2>1. Before(sent, 0) = {}
    <3>1. \A i \in FullLines(sent) : ~(i <= 0)
      BY <1>2, LinePlaces
    <3>. QED  BY <3>1 DEF Before
  <2>2. Cardinality(Before(sent, 0)) = 0
    BY <2>1, FS_EmptySet
  <2>. QED  BY <2>1, <2>2 DEF UpTo
<1>5. ~SearchToken(<<>>).found
  <2>1. Ends(<<>>) = {}
    <3>1. Leading(<<>>) = 0
      <4>1. Separates(<<>>, Leading(<<>>))
        <5>1. <<>> \in Seq(Char)
          OBVIOUS
        <5>. QED  BY <5>1, LeadingParts
      <4>. QED  BY <4>1 DEF Separates
    <3>. QED  BY <3>1 DEF Ends
  <2>. QED  BY <2>1 DEF SearchToken
<1>6. StreamTypeOK
  BY <1>1, LineStreamAssumption DEF StreamTypeOK
<1>7. Len(unread) <= Len(sent) /\ Follows(unread, sent, Reached)
  BY <1>1, <1>2 DEF Follows
<1>8. \E b \in 0..Reached : Stands(buf, sent, b, Reached) /\ UpTo(lines, sent, b)
  BY <1>1, <1>2, <1>3, <1>4
<1>. QED  BY <1>1, <1>2, <1>5, <1>6, <1>7, <1>8 DEF StreamInv

(* read appends a piece of the stream to the buffer.                       *)
LEMMA ReadKeeps == StreamInv /\ Read => StreamInv'
<1> SUFFICES ASSUME StreamInv, Read PROVE StreamInv'
  OBVIOUS
<1>0. /\ sent \in Seq(Char) /\ unread \in Seq(Char) /\ buf \in Seq(Char) /\ lines \in Seq(Seq(Char))
      /\ Len(unread) \in Nat /\ Len(sent) \in Nat /\ Len(buf) \in Nat
      /\ Len(sent) <= MaxStream /\ Reached \in 0..Len(sent) /\ Len(unread) = Len(sent) - Reached
  BY StreamParts
<1>1. /\ pc = "read" /\ unread # <<>> /\ Room > 0 /\ pc' = "search"
      /\ sent' = sent /\ lines' = lines /\ ret' = ret /\ ret = 1
  BY DEF Read, StreamInv, StreamTypeOK
<1>2. PICK k \in 1..Len(unread) :
        /\ k <= Room
        /\ buf' = buf \o SubSeq(unread, 1, k)
        /\ unread' = SubSeq(unread, k + 1, Len(unread))
  <2>1. Room \in Nat /\ Len(unread) \in Nat
    BY <1>0, <1>1, LineStreamAssumption DEF Room
  <2>2. PICK n \in {Room, Len(unread)} : n = Min({Room, Len(unread)}) /\ \A i \in {Room, Len(unread)} : n <= i
    BY <2>1, MinOfSome
  <2>3. PICK k \in 1..Min({Room, Len(unread)}) :
          buf' = buf \o SubSeq(unread, 1, k) /\ unread' = SubSeq(unread, k + 1, Len(unread))
    BY DEF Read
  <2>4. k \in 1..Len(unread) /\ k <= Room
    BY <2>1, <2>2
  <2>. QED  BY <2>3, <2>4
<1>3. PICK b \in 0..Reached : Stands(buf, sent, b, Reached) /\ UpTo(lines, sent, b)
  BY DEF StreamInv
<1>4. Stands(buf', sent, b, Reached + k) /\ Follows(unread', sent, Reached + k)
  <2>1. Follows(unread, sent, Reached)
    BY DEF StreamInv
  <2>. QED  BY <1>0, <1>2, <1>3, <2>1, ReadMore
<1>5. Reached' = Reached + k /\ Reached' \in 0..Len(sent) /\ b \in 0..Reached'
  <2>1. PICK R \in 0..Len(sent) : R = Reached
    BY <1>0
  <2>2. Reached' = Len(sent') - Len(unread')
    BY DEF Reached
  <2>3. Reached' = Len(sent) - (Len(sent) - (R + k)) /\ k <= Len(sent) - R
    BY <1>0, <1>1, <1>2, <1>4, <2>1, <2>2 DEF Follows
  <2>. QED  BY <1>0, <1>3, <2>1, <2>3
<1>6. buf' \in Seq(Char) /\ Len(buf') = Len(buf) + k
  BY <1>0, <1>3, <1>4 DEF Stands
<1>7. StreamTypeOK'
  <2>1. unread' \in Streams
    <3>1. Len(unread') = Len(sent) - (Reached + k)
      BY <1>4 DEF Follows
    <3>2. PICK R \in 0..Len(sent) : R = Reached
      BY <1>0
    <3>3. Len(sent) - (R + k) <= MaxStream
      BY <1>0, LineStreamAssumption
    <3>4. unread' \in Seq(Char)
      BY <1>4 DEF Follows
    <3>. QED  BY <3>1, <3>2, <3>3, <3>4, StreamsAre
  <2>2. Len(buf') < BufMax
    BY <1>0, <1>2, <1>6, LineStreamAssumption DEF Room
  <2>. QED  BY <1>1, <1>6, <2>1, <2>2 DEF StreamInv, StreamTypeOK, Char
<1>8. Follows(unread', sent', Reached')
  BY <1>1, <1>4, <1>5
<1>9. Len(unread') <= Len(sent')
  BY <1>0, <1>5, <1>8 DEF Follows
<1>10. \E c \in 0..Reached' : Stands(buf', sent', c, Reached') /\ UpTo(lines', sent', c)
  BY <1>1, <1>3, <1>4, <1>5
<1>. QED  BY <1>1, <1>7, <1>8, <1>10, <1>9 DEF StreamInv

(* A line is handed on.                                                    *)
LEMMA LineKeeps == StreamInv /\ Line => StreamInv'
<1> SUFFICES ASSUME StreamInv, Line PROVE StreamInv'
  OBVIOUS
<1>0. /\ sent \in Seq(Char) /\ buf \in Seq(Char) /\ lines \in Seq(Seq(Char))
      /\ Len(sent) \in Nat /\ Len(buf) \in Nat /\ Reached \in 0..Len(sent) /\ Len(buf) < BufMax
  BY StreamParts
<1>1. PICK t : /\ t = SearchToken(buf) /\ t.found
               /\ lines' = Append(lines, Token(buf, t)) /\ buf' = Rest(buf, t)
  BY DEF Line
<1>2. pc = "search" /\ pc' = pc /\ sent' = sent /\ unread' = unread /\ ret' = ret /\ ret = 1
  BY DEF Line, StreamInv, StreamTypeOK
<1>3. PICK b \in 0..Reached : Stands(buf, sent, b, Reached) /\ UpTo(lines, sent, b)
  BY DEF StreamInv
<1>4. /\ b + t.full \in b..Reached
      /\ Stands(buf', sent, b + t.full, Reached) /\ UpTo(lines', sent, b + t.full)
  BY <1>0, <1>1, <1>3, NextLine
<1>5. Reached' = Reached
  BY <1>2 DEF Reached
<1>6. PICK c \in 0..Reached : c >= b /\ Stands(buf', sent, c, Reached) /\ UpTo(lines', sent, c)
  <2>1. b + t.full \in 0..Reached /\ b + t.full >= b
    BY <1>0, <1>3, <1>4
  <2>. QED  BY <1>4, <2>1
<1>7. StreamTypeOK'
  <2>1. buf' \in Seq(Char) /\ lines' \in Seq(Seq(Char)) /\ Len(buf') = Reached - c /\ Len(buf) = Reached - b
    BY <1>3, <1>6 DEF Stands, UpTo
  <2>2. Len(buf') < BufMax
    BY <1>0, <1>3, <1>6, <2>1, LineStreamAssumption
  <2>. QED  BY <1>2, <2>1, <2>2 DEF StreamInv, StreamTypeOK, Char
<1>8. Len(unread') <= Len(sent') /\ Follows(unread', sent', Reached')
  BY <1>2, <1>5 DEF StreamInv
<1>. QED  BY <1>2, <1>5, <1>6, <1>7, <1>8 DEF StreamInv

(* The other steps leave buffer, stream and lines alone.                   *)
LEMMA OtherKeeps ==
  ASSUME StreamInv, ReadNothing \/ ReadError \/ LineTooLong \/ NoLine \/ UNCHANGED streamVars
  PROVE  StreamInv'
<1>1. sent' = sent /\ unread' = unread /\ buf' = buf /\ lines' = lines
  BY DEF ReadNothing, ReadError, LineTooLong, NoLine, streamVars
<1>2. Reached' = Reached
  BY <1>1 DEF Reached
<1>3. \E b \in 0..Reached' : Stands(buf', sent', b, Reached') /\ UpTo(lines', sent', b)
  BY <1>1, <1>2 DEF StreamInv
<1>4. Len(unread') <= Len(sent') /\ Follows(unread', sent', Reached')
  BY <1>1, <1>2 DEF StreamInv
<1>5. PICK found \in BOOLEAN, long \in BOOLEAN : 
        found = SearchToken(buf).found /\ long = TooLong(SearchToken(buf))
  <2>1. SearchToken(buf).found \in BOOLEAN
    BY StreamParts, SearchParts
  <2>2. TooLong(SearchToken(buf)) \in BOOLEAN
    BY DEF TooLong
  <2>. QED  BY <2>1, <2>2
<1>6. /\ StreamTypeOK
      /\ (pc = "read" \/ ret = 0) => ~found
      /\ ret = 0 => unread = <<>> \/ Len(buf) = BufMax - 1
      /\ ret # 1 => pc = "end"
      /\ pc = "end" /\ found => long
  BY <1>5 DEF StreamInv
<1> SUFFICES /\ StreamTypeOK'
             /\ (pc' = "read" \/ ret' = 0) => ~found
             /\ ret' = 0 => unread = <<>> \/ Len(buf) = BufMax - 1
             /\ ret' # 1 => pc' = "end"
             /\ pc' = "end" /\ found => long
  BY <1>1, <1>3, <1>4, <1>5 DEF StreamInv
<1>7. CASE ReadNothing
  <2>1. Room = 0 => Len(buf) = BufMax - 1
    BY StreamParts, LineStreamAssumption DEF Room
  <2>. QED  BY <1>1, <1>6, <1>7, <2>1 DEF ReadNothing, StreamTypeOK
<1>8. CASE ReadError
  BY <1>1, <1>6, <1>8 DEF ReadError, StreamTypeOK
<1>9. CASE LineTooLong
  BY <1>1, <1>5, <1>6, <1>9 DEF LineTooLong, StreamTypeOK
<1>10. CASE NoLine
  BY <1>1, <1>5, <1>6, <1>10 DEF NoLine, StreamTypeOK
<1>11. CASE UNCHANGED streamVars
  BY <1>1, <1>6, <1>11 DEF streamVars, StreamTypeOK
<1>. QED  BY <1>7, <1>8, <1>9, <1>10, <1>11

THEOREM StreamInvariant == StreamSpec => []StreamInv
<1>1. StreamInit => StreamInv
  BY StreamInitially
<1>2. StreamInv /\ [StreamNext]_streamVars => StreamInv'
  BY ReadKeeps, LineKeeps, OtherKeeps DEF StreamNext
<1>. QED  BY <1>1, <1>2, PTL DEF StreamSpec

(* Types are kept and the buffer has always room for its NUL (StreamTypeOK). *)
THEOREM StreamTyped == StreamSpec => []StreamTypeOK
<1>1. StreamInv => StreamTypeOK
  BY DEF StreamInv
<1>. QED  BY <1>1, StreamInvariant, PTL

(* Without a token in the buffer every line that has arrived is handed on. *)
LEMMA AllHandedOn ==
  ASSUME StreamInv, ~SearchToken(buf).found
  PROVE  UpTo(lines, sent, Reached)
<1>1. PICK b \in 0..Reached : Stands(buf, sent, b, Reached) /\ UpTo(lines, sent, b)
  BY DEF StreamInv
<1>2. sent \in Seq(Char)
  BY StreamParts
<1>3. Before(sent, Reached) = Before(sent, b)
  BY <1>1, <1>2, NoToken
<1>. QED  BY <1>1, <1>3 DEF UpTo

(* Back at read the lines are those of what has arrived, in whatever       *)
(* pieces it came (LinesAsSent): processIncomingData, getTokenFromStream.  *)
THEOREM LinesInOrder == StreamSpec => []LinesAsSent
<1>1. StreamInv => LinesAsSent
  <2> SUFFICES ASSUME StreamInv, pc = "read" PROVE lines = LinesOf(Arrived)
    BY DEF LinesAsSent
  <2>1. UpTo(lines, sent, Reached)
    BY AllHandedOn DEF StreamInv
  <2>2. sent \in Seq(Char) /\ Reached \in 0..Len(sent)
    BY StreamParts
  <2>3. lines = LinesOf(SubSeq(sent, 1, Reached))
    BY <2>1, <2>2, UpToPrefix
  <2>. QED  BY <2>3 DEF Arrived, Reached
<1>. QED  BY <1>1, StreamInvariant, PTL

(* A stream that fits leaves room whenever a line is missing.              *)
LEMMA FitsLeavesRoom ==
  ASSUME StreamInv, ~SearchToken(buf).found, Fits(sent), unread # <<>>
  PROVE  Len(buf) < BufMax - 1
<1>1. PICK b \in 0..Reached : Stands(buf, sent, b, Reached) /\ UpTo(lines, sent, b)
  BY DEF StreamInv
<1>2. PICK R \in 0..Len(sent) : R = Reached
  BY StreamParts
<1>3. /\ sent \in Seq(Char) /\ Len(sent) \in Nat /\ R < Len(sent) /\ Len(buf) = R - b /\ b \in 0..R
  <2>1. Len(unread) # 0 /\ Len(unread) \in Nat /\ Len(unread) = Len(sent) - Reached /\ sent \in Seq(Char)
    <3>1. unread \in Seq(Char)
      BY StreamParts
    <3>. QED  BY <3>1, StreamParts
  <2>. QED  BY <1>1, <1>2, <2>1 DEF Stands
<1>4. CASE R = 0
  BY <1>3, <1>4, LineStreamAssumption
<1>5. CASE R # 0
  <2>1. Before(sent, R) = Before(sent, b)
    BY <1>1, <1>2, <1>3, NoToken
  <2>2. PICK T : T = {0} \cup {e \in FullLines(sent) : e <= R}
    OBVIOUS
  <2>3. T = {0} \cup Before(sent, b)
    BY <2>1, <2>2 DEF Before
  <2>4. Before(sent, b) \subseteq 1..b
    BY <1>3, BeforeFinite
  <2>5. T \in SUBSET (0..b) /\ T # {} /\ b \in Nat
    BY <1>3, <2>3, <2>4
  <2>6. PICK x \in T : x = Max(T)
    BY <2>5, MaxOfSome
  <2>7. R \in 1..Len(sent)-1
    BY <1>3, <1>5
  <2>8. R - Max(T) < BufMax - 1
    BY <2>2, <2>7 DEF Fits
  <2>9. x \in 0..b
    BY <2>5
  <2>. QED  BY <1>3, <2>6, <2>8, <2>9, LineStreamAssumption
<1>. QED  BY <1>4, <1>5

(* The end of the loop tells why (EndsRight): 0 is the end of the stream,  *)
(* -1 with a line in the buffer is a line too long for the token.          *)
THEOREM EndTellsWhy == StreamSpec => []EndsRight
<1>1. ASSUME StreamInv, ret = 0, Fits(sent) PROVE unread = <<>> /\ lines = LinesOf(sent)
  <2>1. ~SearchToken(buf).found
    BY <1>1 DEF StreamInv
  <2>2. unread = <<>>
    <3>1. PICK n \in Nat : n = Len(buf)
      BY <1>1, StreamParts
    <3>2. unread = <<>> \/ n = BufMax - 1
      BY <1>1, <3>1 DEF StreamInv
    <3>3. unread # <<>> => n < BufMax - 1
      BY <1>1, <2>1, <3>1, FitsLeavesRoom
    <3>. QED  BY <3>2, <3>3, LineStreamAssumption
  <2>3. Reached = Len(sent) /\ sent \in Seq(Char)
    BY <1>1, <2>2, StreamParts DEF Reached
  <2>4. UpTo(lines, sent, Len(sent))
    BY <1>1, <2>1, <2>3, AllHandedOn
  <2>. QED  BY <2>2, <2>3, <2>4, UpToAll
<1>2. ASSUME StreamInv, pc = "end", ret = -1, SearchToken(buf).found
      PROVE  /\ lines = SubSeq(LinesOf(sent), 1, Len(lines))
             /\ Len(lines) < Len(LinesOf(sent))
             /\ Token(buf, SearchToken(buf)) = LinesOf(sent)[Len(lines) + 1]
             /\ Len(LinesOf(sent)[Len(lines) + 1]) > TokenMax
  <2>1. PICK b \in 0..Reached : Stands(buf, sent, b, Reached) /\ UpTo(lines, sent, b)
    BY <1>2 DEF StreamInv
  <2>2. PICK s \in Seq(Char) : s = sent /\ b \in Nat
    BY <1>2, StreamParts
  <2>3. PICK t : t = SearchToken(buf) /\ t.found /\ TooLong(t)
    BY <1>2 DEF StreamInv
  <2>4. /\ t.full \in 1..Reached-b /\ t.length \in Nat
        /\ b + t.full \in FullLines(s)
        /\ LineEnding(s, b + t.full) = Token(buf, t)
        /\ Len(Token(buf, t)) = t.length
    BY <2>1, <2>2, <2>3, NextToken
  <2>5. PICK e \in Nat : e = b + t.full /\ b < e /\ \A i \in b+1..e-1 : i \notin FullLines(s)
    <3>1. PICK f \in Nat \ {0} : f = t.full
      BY <2>2, <2>4
    <3>2. PICK e \in Nat : e = b + f /\ b < e
      BY <2>2, <3>1
    <3>3. \A i \in b+1..b+t.full-1 : i \notin FullLines(s)
      BY <2>1, <2>2, <2>3, NextToken
    <3>4. ASSUME NEW i \in b+1..e-1 PROVE i \notin FullLines(s)
      <4>1. i \in b+1..b+t.full-1
        BY <2>2, <3>1, <3>2
      <4>. QED  BY <3>3, <4>1
    <3>. QED  BY <3>1, <3>2, <3>4
  <2>6. e \in FullLines(s) /\ Rank(s, e) = Cardinality(Before(s, b)) + 1
    BY <2>2, <2>4, <2>5, NextRank
  <2>7. PICK N \in Nat : N = Cardinality(FullLines(s))
    BY LinesOfParts
  <2>8. PICK c \in Nat : c = Len(lines) /\ Rank(s, e) = c + 1
    <3>1. Cardinality(Before(s, b)) \in Nat
      BY <2>2, BeforeFinite
    <3>. QED  BY <2>1, <2>2, <2>6, <3>1 DEF UpTo
  <2>9. c + 1 \in 1..N /\ LinesOf(s)[c + 1] = LineEnding(s, e)
    BY <2>6, <2>7, <2>8, LinesOfParts
  <2>10. Len(LinesOf(s)) = N /\ lines = SubSeq(LinesOf(s), 1, Len(lines))
    BY <2>1, <2>2, <2>7, UpToSome
  <2>11. LinesOf(s)[c + 1] = Token(buf, t)
    BY <2>4, <2>5, <2>9
  <2>12. t.length > TokenMax
    BY <2>3 DEF TooLong
  <2>13. Len(LinesOf(s)[c + 1]) > TokenMax
    BY <2>4, <2>11, <2>12
  <2>. QED  BY <2>2, <2>3, <2>7, <2>8, <2>9, <2>10, <2>11, <2>13
<1>3. StreamInv => EndsRight
  BY <1>1, <1>2 DEF EndsRight
<1>. QED  BY <1>3, StreamInvariant, PTL
=============================================================================
