----------------------------- MODULE MCConsole ------------------------------
(* The keys and one child for Console.                                     *)
EXTENDS Console

CONSTANTS k1

(* One letter is enough: it makes EXIT alone, another line when repeated.  *)
(* An arrow is an escape and characters that are read with it, as a key    *)
(* pressed soon after an escape is.                                        *)
SomePresses == Press \ {"a", "Arrow"}
=============================================================================
