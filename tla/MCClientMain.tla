---------------------------- MODULE MCClientMain ----------------------------
(* The lines of the server and of the user for ClientMain.                 *)
EXTENDS ClientMain

AllReplies == Reply
AllInputs == Input
=============================================================================
