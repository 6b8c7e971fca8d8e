---------------------------- MODULE MCMonitor ----------------------------
(* Monitor for TLC: three units between checks, seven between dumps, so    *)
(* that the throttle ends between two checks; loads on both sides of one   *)
(* and of three.                                                           *)
EXTENDS Monitor

MCAvenrun == {0, 2047, 2048, 8191, 8192}
=============================================================================
