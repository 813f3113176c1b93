---------------------------- MODULE MCFrameClock ----------------------------
(* Small instance of FrameClock.  The numbers keep the order and the odd   *)
(* remainders of the real ones: a frame of 4 1/3 ms against an interval of *)
(* 4, delays of more than 9 ms given up, lateness of 10 forgiven.          *)
EXTENDS FrameClock

MCRequests == {0, 11}
MCWorks == {0, 5, 31}
=============================================================================
