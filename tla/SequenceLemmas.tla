--------------------------- MODULE SequenceLemmas ---------------------------
(***************************************************************************)
(* Lemmas about numbers and sequences that the proofs of several modules   *)
(* need: induction over a set of numbers and over a set of sequences, that *)
(* a recursive function exists, the filter Only, FlattenSeq, and how       *)
(* sequences are cut and joined.                                           *)
(***************************************************************************)
EXTENDS SeqFilter, SequencesExt, SequenceTheorems, WellFoundedInduction, TLAPS

(* A set of numbers has a least one.                                       *)
LEMMA LeastOfSome ==
  ASSUME NEW T \in SUBSET Nat, T # {}
  PROVE  \E m \in T : \A k \in T : m <= k
<1> DEFINE R == OpToRel(<, Nat)
<1>1. IsWellFoundedOn(R, Nat)
  BY NatLessThanWellFounded
<1>2. PICK m \in T : \A k \in T : ~(<<k, m>> \in R)
  <2> HIDE DEF R
  <2>. QED  BY <1>1, WFMin
<1>3. ASSUME NEW k \in T PROVE m <= k
  <2>1. k \in Nat /\ m \in Nat
    OBVIOUS
  <2>2. <<k, m>> \in Nat \X Nat /\ <<k, m>>[1] = k /\ <<k, m>>[2] = m
    BY <2>1
  <2>3. R = {ss \in Nat \X Nat : ss[1] < ss[2]}
    BY Zenon DEF OpToRel
  <2>4. ~(<<k, m>> \in {ss \in Nat \X Nat : ss[1] < ss[2]})
    BY <1>2, <2>3
  <2>5. ~(k < m)
    BY <2>2, <2>4
  <2>. QED  BY <2>1, <2>5
<1>. QED  BY <1>3

(* What Min and Max choose.                                                *)
LEMMA MinOfSome ==
  ASSUME NEW T \in SUBSET Nat, T # {} PROVE Min(T) \in T /\ \A k \in T : Min(T) <= k
<1>1. PICK x \in T : \A y \in T : x <= y
  BY LeastOfSome
<1>. QED  BY <1>1 DEF Min

LEMMA MaxOfSome ==
  ASSUME NEW n \in Nat, NEW T \in SUBSET (0..n), T # {} 
  PROVE  Max(T) \in T /\ \A k \in T : k <= Max(T)
<1> DEFINE below == {n - x : x \in T}
<1>1. below \in SUBSET Nat /\ below # {}
  <2>1. \A x \in T : n - x \in Nat
    OBVIOUS
  <2>2. below # {}
    OBVIOUS
  <2>. QED  BY <2>1, <2>2
<1>3. PICK b \in below : \A y \in below : b <= y
  <2> HIDE DEF below
  <2>. QED  BY <1>1, LeastOfSome
<1>4. PICK x \in T : b = n - x
  OBVIOUS
<1>5. \A y \in T : x >= y
  <2> TAKE y \in T
  <2>1. b <= n - y
    BY <1>3
  <2>. QED  BY <1>4, <2>1
<1>6. Max(T) \in T /\ \A y \in T : Max(T) >= y
  BY <1>5 DEF Max
<1>. QED  BY <1>6

(* Induction, for a set of numbers.                                        *)
LEMMA Induction ==
  ASSUME NEW T \in SUBSET Nat, 0 \in T, \A n \in Nat : n \in T => n + 1 \in T
  PROVE  T = Nat
<1> SUFFICES ASSUME Nat \ T # {} PROVE FALSE
  OBVIOUS
<1>1. PICK m \in Nat \ T : \A k \in Nat \ T : m <= k
  BY LeastOfSome
<1>2. m # 0 /\ m - 1 \in Nat /\ m - 1 \in T
  BY <1>1
<1>. QED  BY <1>1, <1>2

(* Induction up to N.                                                      *)
LEMMA InductionTo ==
  ASSUME NEW N \in Nat, NEW T, 0 \in T, \A n \in 0..N-1 : n \in T => n + 1 \in T
  PROVE  \A n \in 0..N : n \in T
<1> DEFINE U == {n \in Nat : n <= N => n \in T}
<1>1. U \in SUBSET Nat /\ 0 \in U
  OBVIOUS
<1>2. ASSUME NEW n \in Nat, n \in U PROVE n + 1 \in U
  BY <1>2
<1> HIDE DEF U
<1>3. U = Nat
  BY <1>1, <1>2, Induction
<1>. QED  BY <1>3 DEF U

(* f starts with base and goes on by step.                                 *)
IsRec(f, N, V, base, step) ==
  /\ f \in [0..N -> V]
  /\ f[0] = base
  /\ \A n \in 1..N : f[n] = step[<<n, f[n - 1]>>]

(* There is such a function.                                               *)
LEMMA Recursion ==
  ASSUME NEW N \in Nat, NEW V, NEW base \in V, NEW step \in [(1..N) \X V -> V]
  PROVE  \E f : IsRec(f, N, V, base, step)
<1> DEFINE T == {n \in 0..N : \E f : IsRec(f, n, V, base, step)}
<1>1. 0 \in T
  <2>1. IsRec([n \in 0..0 |-> base], 0, V, base, step)
    BY DEF IsRec
  <2>. QED  BY <2>1
<1>2. ASSUME NEW n \in 0..N-1, n \in T PROVE n + 1 \in T
  <2>1. PICK f : IsRec(f, n, V, base, step)
    BY <1>2
  <2> DEFINE g == [k \in 0..n+1 |-> IF k <= n THEN f[k] ELSE step[<<n + 1, f[n]>>]]
  <2>2. f[n] \in V /\ n + 1 \in 1..N
    BY <2>1 DEF IsRec
  <2>3. step[<<n + 1, f[n]>>] \in V
    BY <2>2
  <2>4. g \in [0..n+1 -> V] /\ g[0] = base
    BY <2>1, <2>3 DEF IsRec
  <2>5. ASSUME NEW k \in 1..n+1 PROVE g[k] = step[<<k, g[k - 1]>>]
    <3>1. CASE k <= n
      <4>1. k \in 1..n /\ k \in 0..n+1 /\ k - 1 \in 0..n+1 /\ k - 1 <= n
        BY <3>1
      <4>2. g[k] = f[k] /\ g[k - 1] = f[k - 1]
        BY <3>1, <4>1
      <4>3. f[k] = step[<<k, f[k - 1]>>]
        BY <2>1, <4>1 DEF IsRec
      <4>. QED  BY <4>2, <4>3
    <3>2. CASE k = n + 1
      <4>1. k \in 0..n+1 /\ k - 1 \in 0..n+1 /\ ~(k <= n) /\ k - 1 <= n /\ k - 1 = n
        BY <3>2
      <4>2. g[k] = step[<<k, f[n]>>] /\ g[k - 1] = f[n]
        BY <3>2, <4>1
      <4>. QED  BY <4>1, <4>2
    <3>. QED  BY <3>1, <3>2
  <2>6. IsRec(g, n + 1, V, base, step)
    BY <2>4, <2>5, n + 1 \in Nat DEF IsRec
  <2>. QED  BY <2>6, n + 1 \in 0..N
<1> HIDE DEF T
<1>3. \A n \in 0..N : n \in T
  BY <1>1, <1>2, InductionTo
<1>. QED  BY <1>3 DEF T

(* A sequence that agrees with s on its elements and has one more.         *)
LEMMA IsAppend ==
  ASSUME NEW A, NEW s \in Seq(A), NEW t \in Seq(A), Len(t) = Len(s) + 1,
         \A k \in 1..Len(s) : t[k] = s[k]
  PROVE  t = Append(s, t[Len(s) + 1])
<1>1. PICK x \in A : x = t[Len(s) + 1]
  OBVIOUS
<1>2. PICK u : u = Append(s, x)
  OBVIOUS
<1>3. /\ u \in Seq(A) /\ Len(u) = Len(s) + 1 /\ u[Len(s) + 1] = x
      /\ \A k \in 1..Len(s) : u[k] = s[k]
  BY <1>2, AppendProperties
<1>4. \A k \in 1..Len(u) : k \in 1..Len(s) \/ k = Len(s) + 1
  BY <1>3
<1>5. u = t
  BY <1>1, <1>3, <1>4, SeqEqual
<1>. QED  BY <1>1, <1>2, <1>5

(* Induction, for a set of sequences: what holds of the empty one and is   *)
(* kept by appending holds of all.                                         *)
LEMMA SequenceInduction ==
  ASSUME NEW A, NEW T, T \in SUBSET Seq(A), <<>> \in T,
         \A s \in T : \A x \in A : Append(s, x) \in T
  PROVE  T = Seq(A)
<1> DEFINE U == {n \in Nat : \A s \in Seq(A) : Len(s) = n => s \in T}
<1>1. U \in SUBSET Nat /\ 0 \in U
  BY EmptySeq
<1>2. ASSUME NEW n \in Nat, n \in U PROVE n + 1 \in U
  <2> SUFFICES ASSUME NEW s \in Seq(A), Len(s) = n + 1 PROVE s \in T
    OBVIOUS
  <2>1. PICK t \in Seq(A), x \in A : s = Append(t, x)
    <3>1. s # <<>>
      OBVIOUS
    <3>. QED  BY <3>1, SequenceEmptyOrAppend
  <2>2. Len(t) = n
    BY <2>1
  <2>. QED  BY <1>2, <2>1, <2>2
<1> HIDE DEF U
<1>3. U = Nat
  BY <1>1, <1>2, Induction
<1>4. \A s \in Seq(A) : Len(s) \in U
  BY <1>3
<1>. QED  BY <1>4 DEF U

(* f[n] is what the filter keeps of the first n elements of s.            *)
Keeps(f, s, S, A) ==
  /\ f \in [0..Len(s) -> Seq(A)]
  /\ f[0] = <<>>
  /\ \A n \in 1..Len(s) :
       f[n] = IF s[n] \in S THEN Append(f[n - 1], s[n]) ELSE f[n - 1]
  /\ Only(s, S) = f[Len(s)]

(* Only is the recursive function it is written as.                        *)
LEMMA OnlyParts ==
  ASSUME NEW A, NEW s \in Seq(A), NEW S
  PROVE  \E f : Keeps(f, s, S, A)
<1>1. PICK N \in Nat : N = Len(s)
  OBVIOUS
<1>2. PICK step \in [(1..N) \X Seq(A) -> Seq(A)] :
        \A n \in 1..N : \A v \in Seq(A) :
          step[<<n, v>>] = IF s[n] \in S THEN Append(v, s[n]) ELSE v
  <2> DEFINE st == [p \in (1..N) \X Seq(A) |-> IF s[p[1]] \in S THEN Append(p[2], s[p[1]]) ELSE p[2]]
  <2>1. st \in [(1..N) \X Seq(A) -> Seq(A)]
    BY <1>1
  <2>2. \A n \in 1..N : \A v \in Seq(A) : st[<<n, v>>] = IF s[n] \in S THEN Append(v, s[n]) ELSE v
    OBVIOUS
  <2> HIDE DEF st
  <2>. QED  BY <2>1, <2>2
<1>3. PICK h : IsRec(h, N, Seq(A), <<>>, step)
  BY Recursion, <<>> \in Seq(A)
<1> DEFINE IsFilter(f) ==
             f = [n \in 0..N |-> IF n = 0 THEN <<>>
                                 ELSE IF s[n] \in S THEN Append(f[n - 1], s[n]) ELSE f[n - 1]]
<1>4. IsFilter(h)
  <2>1. h \in [0..N -> Seq(A)] /\ h[0] = <<>>
    BY <1>3 DEF IsRec
  <2>2. ASSUME NEW n \in 1..N PROVE h[n] = IF s[n] \in S THEN Append(h[n - 1], s[n]) ELSE h[n - 1]
    <3>1. n - 1 \in 0..N
      OBVIOUS
    <3>2. h[n - 1] \in Seq(A) /\ h[n] = step[<<n, h[n - 1]>>]
      BY <1>3, <2>1, <3>1 DEF IsRec
    <3>. QED  BY <1>2, <3>2
  <2>3. \A n \in 0..N : n = 0 \/ n \in 1..N
    OBVIOUS
  <2>. QED  BY <2>1, <2>2, <2>3
<1>5. PICK f : IsFilter(f) /\ Only(s, S) = f[N]
  <2>1. IsFilter(CHOOSE f : IsFilter(f))
    BY <1>4
  <2>2. Only(s, S) = (CHOOSE f : IsFilter(f))[N]
    BY <1>1 DEF Only
  <2>. QED  BY <2>1, <2>2
<1>6. /\ f[0] = <<>>
      /\ \A n \in 1..N : f[n] = IF s[n] \in S THEN Append(f[n - 1], s[n]) ELSE f[n - 1]
  <2>1. 0 \in 0..N /\ \A n \in 1..N : n \in 0..N /\ n # 0
    OBVIOUS
  <2>. QED  BY <1>5, <2>1
<1> DEFINE T == {k \in 0..N : f[k] \in Seq(A)}
<1>7. 0 \in T
  <2>1. 0 \in 0..N /\ <<>> \in Seq(A)
    OBVIOUS
  <2>. QED  BY <1>6, <2>1
<1>8. ASSUME NEW n \in 0..N-1, n \in T PROVE n + 1 \in T
  <2>1. n + 1 \in 1..N /\ (n + 1) - 1 = n /\ s[n + 1] \in A /\ f[n] \in Seq(A) /\ n + 1 \in 0..N
    BY <1>1, <1>8
  <2>2. f[n + 1] = IF s[n + 1] \in S THEN Append(f[n], s[n + 1]) ELSE f[n]
    BY <1>6, <2>1
  <2>3. Append(f[n], s[n + 1]) \in Seq(A)
    BY <2>1
  <2>4. f[n + 1] \in Seq(A)
    BY <2>1, <2>2, <2>3
  <2>. QED  BY <2>1, <2>4
<1> HIDE DEF T
<1>9. \A n \in 0..N : n \in T
  BY <1>7, <1>8, InductionTo
<1>10. f \in [0..N -> Seq(A)]
  <2>1. f = [n \in 0..N |-> f[n]]
    BY <1>5
  <2>. QED  BY <1>9, <2>1 DEF T
<1>. QED  BY <1>1, <1>5, <1>6, <1>10 DEF Keeps

(* The filter of nothing.                                                  *)
LEMMA OnlyEmpty == ASSUME NEW S PROVE Only(<<>>, S) = <<>>
<1>1. <<>> \in Seq({}) /\ Len(<<>>) = 0
  OBVIOUS
<1>2. PICK f : Keeps(f, <<>>, S, {})
  BY <1>1, OnlyParts
<1>. QED  BY <1>1, <1>2 DEF Keeps

(* A filter makes no elements.                                             *)
LEMMA OnlySeq ==
  ASSUME NEW A, NEW s \in Seq(A), NEW S PROVE Only(s, S) \in Seq(A)
<1>1. PICK f : Keeps(f, s, S, A)
  BY OnlyParts
<1>. QED  BY <1>1 DEF Keeps

(* An element that is appended is kept or not.                             *)
LEMMA OnlyAppend ==
  ASSUME NEW A, NEW s \in Seq(A), NEW x \in A, NEW S
  PROVE  Only(Append(s, x), S) = IF x \in S THEN Append(Only(s, S), x) ELSE Only(s, S)
<1> DEFINE t == Append(s, x)  N == Len(s)
<1>1. /\ N \in Nat /\ t \in Seq(A) /\ Len(t) = N + 1 /\ t[N + 1] = x
      /\ \A n \in 1..N : t[n] = s[n]
  OBVIOUS
<1> HIDE DEF t
<1>2. PICK f : Keeps(f, s, S, A)
  BY OnlyParts
<1>3. PICK g : Keeps(g, t, S, A)
  BY <1>1, OnlyParts
<1>4. f[N] = g[N]
  <2> DEFINE T == {n \in 0..N : f[n] = g[n]}
  <2>1. 0 \in T
    BY <1>1, <1>2, <1>3 DEF Keeps
  <2>2. ASSUME NEW n \in 0..N-1, n \in T PROVE n + 1 \in T
    <3>1. n + 1 \in 1..N /\ n + 1 \in 1..N+1 /\ (n + 1) - 1 = n /\ t[n + 1] = s[n + 1]
      BY <1>1
    <3>2. f[n + 1] = IF s[n + 1] \in S THEN Append(f[n], s[n + 1]) ELSE f[n]
      BY <1>2, <3>1 DEF Keeps
    <3>3. g[n + 1] = IF t[n + 1] \in S THEN Append(g[n], t[n + 1]) ELSE g[n]
      BY <1>1, <1>3, <3>1 DEF Keeps
    <3>. QED  BY <2>2, <3>1, <3>2, <3>3
  <2> HIDE DEF T
  <2>3. \A n \in 0..N : n \in T
    BY <1>1, <2>1, <2>2, InductionTo
  <2>. QED  BY <1>1, <2>3 DEF T
<1>5. N + 1 \in 1..N+1 /\ (N + 1) - 1 = N
  BY <1>1
<1>. QED  BY <1>1, <1>2, <1>3, <1>4, <1>5 DEF t, Keeps

(* The filter of a concatenation.                                          *)
LEMMA OnlyConcat ==
  ASSUME NEW A, NEW s \in Seq(A), NEW t \in Seq(A), NEW S
  PROVE  Only(s \o t, S) = Only(s, S) \o Only(t, S)
<1> DEFINE T == {u \in Seq(A) : Only(s \o u, S) = Only(s, S) \o Only(u, S)}
<1>0. Only(s, S) \in Seq(A)
  BY OnlySeq
<1>1. <<>> \in T
  <2>1. s \o <<>> = s /\ Only(s, S) \o <<>> = Only(s, S) /\ <<>> \in Seq(A)
    BY <1>0
  <2>. QED  BY <2>1, OnlyEmpty
<1>2. ASSUME NEW u \in T, NEW x \in A PROVE Append(u, x) \in T
  <2>1. u \in Seq(A) /\ s \o u \in Seq(A) /\ s \o Append(u, x) = Append(s \o u, x) /\ Append(u, x) \in Seq(A)
    OBVIOUS
  <2>2. Only(u, S) \in Seq(A)
    BY <2>1, OnlySeq
  <2>3. Only(s, S) \o Append(Only(u, S), x) = Append(Only(s, S) \o Only(u, S), x)
    BY <1>0, <2>2
  <2>4. Only(Append(u, x), S) = IF x \in S THEN Append(Only(u, S), x) ELSE Only(u, S)
    BY <2>1, OnlyAppend
  <2>5. Only(Append(s \o u, x), S) = IF x \in S THEN Append(Only(s \o u, S), x) ELSE Only(s \o u, S)
    <3> DEFINE w == s \o u
    <3>1. w \in Seq(A)
      BY <2>1
    <3> HIDE DEF w
    <3>2. Only(Append(w, x), S) = IF x \in S THEN Append(Only(w, S), x) ELSE Only(w, S)
      BY <3>1, OnlyAppend
    <3>. QED  BY <3>2 DEF w
  <2>. QED  BY <2>1, <2>3, <2>4, <2>5
<1> HIDE DEF T
<1>3. T = Seq(A)
  <2>1. T \in SUBSET Seq(A)
    BY DEF T
  <2>. QED  BY <1>1, <1>2, <2>1, SequenceInduction
<1>. QED  BY <1>3 DEF T

(* What a filter keeps belongs to its set.                                 *)
LEMMA OnlyIn ==
  ASSUME NEW A, NEW s \in Seq(A), NEW S PROVE Only(s, S) \in Seq(S)
<1> DEFINE T == {u \in Seq(A) : Only(u, S) \in Seq(S)}
<1>1. <<>> \in T
  BY OnlyEmpty, <<>> \in Seq(A), <<>> \in Seq(S)
<1>2. ASSUME NEW u \in T, NEW x \in A PROVE Append(u, x) \in T
  <2>1. u \in Seq(A) /\ Only(u, S) \in Seq(S) /\ Append(u, x) \in Seq(A)
    OBVIOUS
  <2>2. x \in S => Append(Only(u, S), x) \in Seq(S)
    BY <2>1
  <2>. QED  BY <2>1, <2>2, OnlyAppend
<1> HIDE DEF T
<1>3. T = Seq(A)
  <2>1. T \in SUBSET Seq(A)
    BY DEF T
  <2>. QED  BY <1>1, <1>2, <2>1, SequenceInduction
<1>. QED  BY <1>3 DEF T

(* A filter that everything passes, and one that nothing passes.           *)
LEMMA OnlyAll ==
  ASSUME NEW A, NEW S, A \subseteq S, NEW s \in Seq(A) PROVE Only(s, S) = s
<1> DEFINE T == {u \in Seq(A) : Only(u, S) = u}
<1>1. <<>> \in T
  BY OnlyEmpty, <<>> \in Seq(A)
<1>2. ASSUME NEW u \in T, NEW x \in A PROVE Append(u, x) \in T
  <2>1. u \in Seq(A) /\ x \in S /\ Append(u, x) \in Seq(A)
    OBVIOUS
  <2>. QED  BY <2>1, OnlyAppend
<1> HIDE DEF T
<1>3. T = Seq(A)
  <2>1. T \in SUBSET Seq(A)
    BY DEF T
  <2>. QED  BY <1>1, <1>2, <2>1, SequenceInduction
<1>. QED  BY <1>3 DEF T

LEMMA OnlyNone ==
  ASSUME NEW A, NEW S, A \cap S = {}, NEW s \in Seq(A) PROVE Only(s, S) = <<>>
<1> DEFINE T == {u \in Seq(A) : Only(u, S) = <<>>}
<1>1. <<>> \in T
  BY OnlyEmpty, <<>> \in Seq(A)
<1>2. ASSUME NEW u \in T, NEW x \in A PROVE Append(u, x) \in T
  <2>1. u \in Seq(A) /\ x \notin S /\ Append(u, x) \in Seq(A)
    OBVIOUS
  <2>. QED  BY <2>1, OnlyAppend
<1> HIDE DEF T
<1>3. T = Seq(A)
  <2>1. T \in SUBSET Seq(A)
    BY DEF T
  <2>. QED  BY <1>1, <1>2, <2>1, SequenceInduction
<1>. QED  BY <1>3 DEF T

(* f[n] is the concatenation of the first n sequences of ss.               *)
Joins(f, ss, A) ==
  /\ f \in [1..Len(ss) -> Seq(A)]
  /\ f[1] = ss[1]
  /\ \A n \in 2..Len(ss) : f[n] = f[n - 1] \o ss[n]
  /\ FlattenSeq(ss) = f[Len(ss)]

(* Nothing, flattened.                                                     *)
LEMMA FlattenEmpty == FlattenSeq(<<>>) = <<>>
BY DEF FlattenSeq

(* FlattenSeq is a recursive function, too.                                *)
LEMMA FlattenParts ==
  ASSUME NEW A, NEW ss \in Seq(Seq(A)), ss # <<>>
  PROVE  \E f : Joins(f, ss, A)
<1>0. PICK M \in Nat : M = Len(ss) /\ M # 0
  OBVIOUS
<1>1. PICK N \in Nat : M = N + 1
  BY <1>0, M - 1 \in Nat
<1>2. \A n \in 1..N+1 : ss[n] \in Seq(A)
  <2>1. \A n \in 1..M : ss[n] \in Seq(A)
    BY <1>0
  <2>. QED  BY <1>1, <2>1
<1>3. PICK step \in [(1..N) \X Seq(A) -> Seq(A)] :
        \A n \in 1..N : \A v \in Seq(A) : step[<<n, v>>] = v \o ss[n + 1]
  <2> DEFINE st == [p \in (1..N) \X Seq(A) |-> p[2] \o ss[p[1] + 1]]
  <2>1. st \in [(1..N) \X Seq(A) -> Seq(A)]
    <3>1. \A p \in (1..N) \X Seq(A) : p[1] + 1 \in 1..N+1 /\ p[2] \in Seq(A)
      OBVIOUS
    <3>2. \A p \in (1..N) \X Seq(A) : p[2] \o ss[p[1] + 1] \in Seq(A)
      BY <1>2, <3>1, ConcatProperties
    <3>. QED  BY <3>2
  <2>2. \A n \in 1..N : \A v \in Seq(A) : st[<<n, v>>] = v \o ss[n + 1]
    OBVIOUS
  <2> HIDE DEF st
  <2>. QED  BY <2>1, <2>2
<1>4. PICK h : IsRec(h, N, Seq(A), ss[1], step)
  BY <1>2, Recursion, 1 \in 1..N+1
<1> DEFINE IsJoin(f) ==
             f = [i \in 1..M |-> IF i = 1 THEN ss[i] ELSE f[i - 1] \o ss[i]]
           g == [i \in 1..N+1 |-> h[i - 1]]
<1>5. IsJoin(g)
  <2>1. h \in [0..N -> Seq(A)] /\ h[0] = ss[1]
    BY <1>4 DEF IsRec
  <2>2. ASSUME NEW i \in 2..N+1 PROVE g[i] = g[i - 1] \o ss[i]
    <3>1. i - 1 \in 1..N /\ i - 1 \in 1..N+1 /\ (i - 1) - 1 \in 0..N /\ (i - 1) + 1 = i /\ i \in 1..N+1
      OBVIOUS
    <3>2. h[i - 1] = h[(i - 1) - 1] \o ss[i]
      <4>1. h[i - 1] = step[<<i - 1, h[(i - 1) - 1]>>]
        BY <1>4, <3>1 DEF IsRec
      <4>2. h[(i - 1) - 1] \in Seq(A)
        BY <2>1, <3>1
      <4>3. step[<<i - 1, h[(i - 1) - 1]>>] = h[(i - 1) - 1] \o ss[(i - 1) + 1]
        BY <1>3, <3>1, <4>2
      <4>. QED  BY <3>1, <4>1, <4>3
    <3>. QED  BY <3>1, <3>2
  <2>3. g[1] = ss[1] /\ \A i \in 1..N+1 : i = 1 \/ i \in 2..N+1
    BY <2>1
  <2> HIDE DEF g
  <2>4. \A i \in 1..N+1 : g[i] = IF i = 1 THEN ss[i] ELSE g[i - 1] \o ss[i]
    BY <2>2, <2>3
  <2>5. g = [i \in 1..N+1 |-> g[i]]
    BY DEF g
  <2>. QED  BY <1>1, <2>4, <2>5
<1>6. PICK f : IsJoin(f) /\ FlattenSeq(ss) = f[M]
  <2>1. IsJoin(CHOOSE f : IsJoin(f))
    BY <1>5
  <2>2. FlattenSeq(ss) = (CHOOSE f : IsJoin(f))[M]
    BY <1>0 DEF FlattenSeq
  <2>. QED  BY <2>1, <2>2
<1>7. f[1] = ss[1] /\ \A n \in 2..N+1 : f[n] = f[n - 1] \o ss[n]
  <2>1. 1 \in 1..N+1 /\ \A n \in 2..N+1 : n \in 1..N+1 /\ n # 1
    OBVIOUS
  <2>. QED  BY <1>1, <1>6, <2>1
<1> DEFINE T == {k \in 0..N : f[k + 1] \in Seq(A)}
<1>8. 0 \in T
  <2>1. 0 \in 0..N /\ ss[1] \in Seq(A) /\ 0 + 1 = 1
    BY <1>2, 1 \in 1..N+1
  <2>. QED  BY <1>7, <2>1
<1>9. ASSUME NEW n \in 0..N-1, n \in T PROVE n + 1 \in T
  <2>1. (n + 1) + 1 \in 2..N+1 /\ ((n + 1) + 1) - 1 = n + 1 /\ n + 1 \in 0..N /\ (n + 1) + 1 \in 1..N+1
    OBVIOUS
  <2>2. f[n + 1] \in Seq(A) /\ ss[(n + 1) + 1] \in Seq(A)
    BY <1>2, <1>9, <2>1
  <2>3. f[(n + 1) + 1] = f[n + 1] \o ss[(n + 1) + 1]
    BY <1>7, <2>1
  <2>4. f[n + 1] \o ss[(n + 1) + 1] \in Seq(A)
    BY <2>2, ConcatProperties
  <2>. QED  BY <2>1, <2>3, <2>4
<1> HIDE DEF T
<1>10. \A n \in 0..N : n \in T
  BY <1>8, <1>9, InductionTo
<1>11. f \in [1..N+1 -> Seq(A)]
  <2>1. f = [n \in 1..N+1 |-> f[n]]
    BY <1>1, <1>6
  <2>2. ASSUME NEW n \in 1..N+1 PROVE f[n] \in Seq(A)
    <3>1. n - 1 \in 0..N /\ (n - 1) + 1 = n
      OBVIOUS
    <3>2. n - 1 \in T
      BY <1>10, <3>1
    <3>. QED  BY <3>1, <3>2 DEF T
  <2>. QED  BY <2>1, <2>2
<1>. QED  BY <1>0, <1>1, <1>6, <1>7, <1>11 DEF Joins

(* The elements of a flattened sequence are those of its parts.            *)
LEMMA FlattenIsSeq ==
  ASSUME NEW A, NEW ss \in Seq(Seq(A)) PROVE FlattenSeq(ss) \in Seq(A)
<1>1. CASE ss = <<>>
  BY <1>1, FlattenEmpty, <<>> \in Seq(A)
<1>2. CASE ss # <<>>
  <2>1. PICK f : Joins(f, ss, A)
    BY <1>2, FlattenParts
  <2>2. Len(ss) \in 1..Len(ss)
    BY <1>2
  <2>. QED  BY <2>1, <2>2 DEF Joins
<1>. QED  BY <1>1, <1>2

(* A part that is appended comes last.                                     *)
LEMMA FlattenAppend ==
  ASSUME NEW A, NEW ss \in Seq(Seq(A)), NEW s \in Seq(A)
  PROVE  FlattenSeq(Append(ss, s)) = FlattenSeq(ss) \o s
<1>1. PICK N \in Nat : N = Len(ss)
  OBVIOUS
<1>2. PICK tt \in Seq(Seq(A)) :
        /\ tt = Append(ss, s) /\ Len(tt) = N + 1 /\ tt[N + 1] = s /\ tt # <<>>
        /\ \A n \in 1..N : tt[n] = ss[n]
  <2>1. PICK B : B = Seq(A)
    OBVIOUS
  <2>2. ss \in Seq(B) /\ s \in B
    BY <2>1
  <2>3. /\ Append(ss, s) \in Seq(B) /\ Append(ss, s) # <<>> /\ Len(Append(ss, s)) = N + 1
        /\ Append(ss, s)[N + 1] = s /\ \A n \in 1..N : Append(ss, s)[n] = ss[n]
    BY <1>1, <2>2, AppendProperties
  <2>. QED  BY <2>1, <2>3
<1>3. PICK g : Joins(g, tt, A)
  BY <1>2, FlattenParts
<1>4. CASE ss = <<>>
  <2>1. N = 0 /\ FlattenSeq(tt) = tt[1] /\ <<>> \o s = s
    BY <1>1, <1>2, <1>3, <1>4 DEF Joins
  <2>. QED  BY <1>2, <1>4, <2>1, FlattenEmpty
<1>5. CASE ss # <<>>
  <2>0. N >= 1
    BY <1>1, <1>5
  <2>1. PICK f : Joins(f, ss, A)
    BY <1>5, FlattenParts
  <2> DEFINE T == {k \in 0..N-1 : f[k + 1] = g[k + 1]}
  <2>2. 0 \in T
    BY <1>1, <1>2, <1>3, <2>0, <2>1, 1 \in 1..N DEF Joins
  <2>3. ASSUME NEW n \in 0..(N-1)-1, n \in T PROVE n + 1 \in T
    <3>1. /\ (n + 1) + 1 \in 2..N /\ (n + 1) + 1 \in 2..N+1 /\ (n + 1) + 1 \in 1..N
          /\ ((n + 1) + 1) - 1 = n + 1 /\ n + 1 \in 0..N-1
      OBVIOUS
    <3>2. f[n + 1] = g[n + 1] /\ tt[(n + 1) + 1] = ss[(n + 1) + 1]
      BY <1>2, <2>3, <3>1
    <3>3. f[(n + 1) + 1] = f[n + 1] \o ss[(n + 1) + 1]
      BY <1>1, <2>1, <3>1 DEF Joins
    <3>4. g[(n + 1) + 1] = g[n + 1] \o tt[(n + 1) + 1]
      BY <1>2, <1>3, <3>1 DEF Joins
    <3>. QED  BY <3>1, <3>2, <3>3, <3>4
  <2> HIDE DEF T
  <2>4. \A n \in 0..N-1 : n \in T
    BY <2>0, <2>2, <2>3, InductionTo, N - 1 \in Nat
  <2>5. N - 1 \in T /\ (N - 1) + 1 = N
    BY <2>0, <2>4
  <2>6. g[N + 1] = g[N] \o tt[N + 1]
    <3>1. N + 1 \in 2..N+1 /\ (N + 1) - 1 = N
      BY <2>0
    <3>. QED  BY <1>2, <1>3, <3>1 DEF Joins
  <2>7. FlattenSeq(tt) = g[N + 1] /\ FlattenSeq(ss) = f[N]
    BY <1>1, <1>2, <1>3, <2>1 DEF Joins
  <2>. QED  BY <1>2, <2>5, <2>6, <2>7 DEF T
<1>. QED  BY <1>4, <1>5
-----------------------------------------------------------------------------
(* A sequence is its first k elements and the others.                      *)
LEMMA SplitAt ==
  ASSUME NEW S, NEW s \in Seq(S), NEW k \in 0..Len(s)
  PROVE  /\ SubSeq(s, 1, k) \in Seq(S) /\ SubSeq(s, k + 1, Len(s)) \in Seq(S)
         /\ SubSeq(s, 1, k) \o SubSeq(s, k + 1, Len(s)) = s
         /\ \A i \in DOMAIN SubSeq(s, k + 1, Len(s)) :
              k + i \in k+1..Len(s) /\ SubSeq(s, k + 1, Len(s))[i] = s[k + i]
<1>1. Len(s) \in Nat /\ k \in Nat /\ \A i \in 1..Len(s) : s[i] \in S
  OBVIOUS
<1>2. SubSeq(s, 1, k) \in Seq(S)
  BY <1>1, SubSeqProperties
<1> DEFINE m == k + 1  rest == SubSeq(s, m, Len(s))
<1>3. /\ rest \in Seq(S) /\ Len(rest) = Len(s) - k
      /\ \A i \in 1..Len(s) - k : rest[i] = s[k + i]
  <2>1. m \in Int /\ Len(s) \in Int /\ \A i \in m..Len(s) : s[i] \in S
    BY <1>1
  <2> HIDE DEF m
  <2>2. /\ rest \in Seq(S)
        /\ Len(rest) = IF m <= Len(s) THEN Len(s) - m + 1 ELSE 0
        /\ \A i \in 1..Len(s) - m + 1 : rest[i] = s[m + i - 1]
    BY <2>1, SubSeqProperties
  <2> HIDE DEF rest
  <2>. QED  BY <1>1, <2>2 DEF m
<1>4. SubSeq(s, 1, k) \o rest = SubSeq(s, 1, Len(s))
  <2>1. 1 \in 1..Len(s)+1 /\ k \in 1-1..Len(s) /\ Len(s) \in k..Len(s)
    BY <1>1
  <2>. QED  BY <2>1, ConcatAdjacentSubSeq
<1>5. SubSeq(s, 1, Len(s)) = s
  BY SubSeqFull
<1> HIDE DEF rest
<1>6. DOMAIN rest = 1..Len(s) - k
  BY <1>3, LenProperties
<1>7. SubSeq(s, 1, k) \o rest = s
  BY <1>4, <1>5
<1>8. \A i \in DOMAIN rest : k + i \in k+1..Len(s) /\ rest[i] = s[k + i]
  BY <1>1, <1>3, <1>6
<1>. QED  BY <1>2, <1>3, <1>7, <1>8 DEF rest

(* What comes first in a concatenation is a prefix of it.                  *)
LEMMA PrefixOfConcat ==
  ASSUME NEW S, NEW s \in Seq(S), NEW t \in Seq(S) PROVE IsPrefix(s, s \o t)
<1>1. Len(s \o t) = Len(s) + Len(t) /\ Len(s) \in Nat /\ Len(t) \in Nat
  BY ConcatProperties
<1>2. SubSeq(s, 1, Len(s)) = s
  BY SubSeqFull
<1>3. SubSeq(s \o t, 1, Len(s)) = s
  <2>1. CASE Len(s) = 0
    BY <1>2, <2>1, SubSeqEmpty
  <2>2. CASE Len(s) # 0
    BY <1>1, <1>2, <2>2, SubSeqOfConcat1
  <2>. QED  BY <2>1, <2>2
<1>. QED  BY <1>1, <1>2, <1>3 DEF IsPrefix

(* Concatenation is associative.                                           *)
Associates(a, b, c) == (a \o b) \o c = a \o (b \o c)

LEMMA JoinsEitherWay ==
  ASSUME NEW A, NEW a \in Seq(A), NEW b \in Seq(A), NEW c \in Seq(A)
  PROVE  Associates(a, b, c)
<1>1. (a \o b) \o c = a \o (b \o c)
  BY ConcatAssociative, SMTT(30)
<1>. QED  BY <1>1 DEF Associates

LEMMA Regroup ==
  ASSUME NEW A, NEW a \in Seq(A), NEW b \in Seq(A), NEW c \in Seq(A)
  PROVE  a \o (b \o c) = a \o b \o c /\ a \o b \o c \in Seq(A) /\ b \o c \in Seq(A)
<1>1. a \o b \in Seq(A) /\ b \o c \in Seq(A)
  BY ConcatProperties
<1>2. (a \o b) \o c \in Seq(A)
  BY <1>1, ConcatProperties
<1>3. Associates(a, b, c)
  BY JoinsEitherWay
<1>. QED  BY <1>1, <1>2, <1>3 DEF Associates

(* An element moves from the front of t to the end of s.                   *)
LEMMA MoveOne ==
  ASSUME NEW A, NEW s \in Seq(A), NEW t \in Seq(A), t # <<>>
  PROVE  /\ Append(s, Head(t)) \in Seq(A) /\ Tail(t) \in Seq(A)
         /\ Append(s, Head(t)) \o Tail(t) = s \o t
<1>1. PICK x \in A : x = Head(t)
  BY HeadTailProperties
<1>2. PICK one \in Seq(A) : one = <<x>>
  <2>1. <<x>> \in Seq(A)
    OBVIOUS
  <2>. QED  BY <2>1
<1>3. PICK rest \in Seq(A) : rest = Tail(t)
  BY HeadTailProperties
<1>4. t = one \o rest
  <2>1. Len(t) = 1 + Len(rest) /\ \A i \in 1..Len(rest) : rest[i] = t[i + 1]
    BY <1>3, HeadTailProperties
  <2>2. Len(t) \in Nat /\ Len(rest) \in Nat /\ t[1] = x /\ Len(one) = 1 /\ one[1] = x
    BY <1>1, <1>2
  <2>3. PICK both \in Seq(A) : both = one \o rest
    BY ConcatProperties
  <2>4. Len(both) = 1 + Len(rest) /\ both[1] = x /\ \A i \in 1..Len(rest) : both[i + 1] = rest[i]
    <3>1. /\ Len(both) = Len(one) + Len(rest)
          /\ \A i \in 1..Len(one) + Len(rest) :
               both[i] = IF i <= Len(one) THEN one[i] ELSE rest[i - Len(one)]
      BY <2>3, ConcatProperties
    <3>2. \A i \in 1..Len(rest) : i + 1 \in 1..1 + Len(rest) /\ ~(i + 1 <= 1) /\ (i + 1) - 1 = i
      BY <2>2
    <3>3. 1 \in 1..1 + Len(rest) /\ 1 <= 1
      BY <2>2
    <3>. QED  BY <2>2, <3>1, <3>2, <3>3
  <2>5. \A i \in 1..Len(t) : t[i] = both[i]
    <3> TAKE i \in 1..Len(t)
    <3>1. i = 1 \/ (i - 1 \in 1..Len(rest) /\ (i - 1) + 1 = i)
      BY <2>1, <2>2
    <3>. QED  BY <2>1, <2>2, <2>4, <3>1
  <2>6. Len(t) = Len(both)
    BY <2>1, <2>4
  <2>. QED  BY <2>3, <2>5, <2>6, SeqEqual
<1>5. Append(s, x) = s \o one /\ Append(s, x) \in Seq(A)
  BY <1>2, AppendIsConcat, AppendProperties
<1>6. (s \o one) \o rest = s \o (one \o rest)
  BY ConcatAssociative
<1>. QED  BY <1>1, <1>3, <1>4, <1>5, <1>6
=============================================================================
