------------------------------ MODULE MCLock ------------------------------
(* RunLock for TLC: one owner that dies and two processes that reclaim. *)
EXTENDS RunLock

CONSTANTS p1, p2, p3
=============================================================================
