-------------------------- MODULE MCServerSession ---------------------------
(* Conversations for ServerSession, with every command.                    *)
EXTENDS ServerSession

EveryCommand == Command

(* The filter of the properties is SelectSeq.                              *)
ASSUME FilterIsSelectSeq ==
  \A s \in UNION {[1..n -> 1..3] : n \in 0..4} : \A S \in SUBSET (1..3) :
    Only(s, S) = SelectSeq(s, LAMBDA x : x \in S)
=============================================================================
