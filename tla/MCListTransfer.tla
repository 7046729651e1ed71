--------------------------- MODULE MCListTransfer ---------------------------
(* Shares of up to three items for ListTransfer: files named a and 1, *)
(* of a size inside int, beyond it and wrapping round into it.             *)
EXTENDS ListTransfer

CONSTANTS a, Search

MCNames == {a, 1}
MCFileSizes == {1, 2, 5}
MCCommands == {Search}
MCShares == UNION {[1..n -> Item] : n \in 0..3}
Nothing == {<<>>}
OneCommand == {<<Search>>}
=============================================================================
