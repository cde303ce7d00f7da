---------------------------- MODULE MCLogReading ----------------------------
(* A small instance of LogReading for TLC.                                  *)
EXTENDS LogReading

MCRequests == {1, 9}
=============================================================================
