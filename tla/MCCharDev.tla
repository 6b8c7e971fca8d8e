---------------------------- MODULE MCCharDev ----------------------------
(* CharDev for TLC: two processes, a transfer of two pieces.               *)
EXTENDS CharDev

MCProcs == {"user1", "user2"}
=============================================================================
