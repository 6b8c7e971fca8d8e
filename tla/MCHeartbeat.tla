--------------------------- MODULE MCHeartbeat ---------------------------
(* Heartbeat for TLC: the second is three jiffies, the first arming one.   *)
EXTENDS Heartbeat
=============================================================================
