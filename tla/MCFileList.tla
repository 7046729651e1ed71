----------------------------- MODULE MCFileList -----------------------------
(* Values for the model checker; the sets themselves are in the .cfg files. *)
EXTENDS FileListInv

CONSTANTS w1, w2, r1

(* A search matches every file of every client but one.                    *)
MCPattern == [r \in Readers |-> Entry \ {<<w1, 1>>}]
=============================================================================
