----------------------------- MODULE Tokenizer ------------------------------
(***************************************************************************)
(* searchToken and extractToken (tokenizer.c) for the separators of a line *)
(* stream, "\r\n" and "\n", which searchToken sorts by length so that the  *)
(* longer one is tried first.                                              *)
(***************************************************************************)
EXTENDS Integers, Sequences, FiniteSetsExt

CONSTANTS
  CR, LF,       \* '\r' and '\n'
  TokenMax      \* bufmax of the token

(* Length of the separator that starts at position i of s, 0 if none does. *)
(* The comparison stops at the NUL that readToBuf writes behind the data.  *)
SepAt(s, i) ==
  CASE s[i] = LF -> 1
    [] s[i] = CR /\ i < Len(s) /\ s[i + 1] = LF -> 2
    [] OTHER -> 0

(* The leading separators: the longest prefix made of separators only.     *)
Leading(s) ==
  Max({k \in 0..Len(s) :
         \A i \in 1..k : \/ s[i] = LF
                         \/ s[i] = CR /\ i < k /\ s[i + 1] = LF})

(* Where the token ends: the first separator behind the leading ones.      *)
Ends(s) == {j \in Leading(s)+1..Len(s) : SepAt(s, j) > 0}

(* Mutant: the separators are tried in the order they are given.           *)
SearchToken_Unsorted(s) ==
  LET start == Leading(s)
      ends  == {j \in start+1..Len(s) : s[j] = LF}
      end   == Min(ends)
  IN  IF ends = {}
      THEN [found |-> FALSE, start |-> start, length |-> Len(s) - start, full |-> Len(s)]
      ELSE [found |-> TRUE, start |-> start, length |-> end - 1 - start, full |-> end]

(* searchToken: tokenstart, tokenlength, fulllength and the return value.  *)
SearchToken(s) ==
  LET start == Leading(s)
      end   == Min(Ends(s))
  IN  IF Ends(s) = {}
      THEN [found |-> FALSE, start |-> start, length |-> Len(s) - start, full |-> Len(s)]
      ELSE [found |-> TRUE, start |-> start, length |-> end - 1 - start,
            full |-> end - 1 + SepAt(s, end)]

(* Mutant: what counts is the token with its separators.                   *)
TooLong_Full(t) == t.full > TokenMax

(* extractToken refuses what does not fit and otherwise splits the buffer. *)
TooLong(t) == t.length > TokenMax
Token(s, t) == SubSeq(s, t.start + 1, t.start + t.length)
Rest(s, t)  == SubSeq(s, t.full + 1, Len(s))
=============================================================================
