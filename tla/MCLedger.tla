------------------------------ MODULE MCLedger ------------------------------
(* EventLedger for TLC: a batch of two events and its reordering conflict.   *)
EXTENDS EventLedger

CONSTANTS k1, k2, k3, b1, b2

MCBatchDrafts ==
  { <<[key |-> k1, body |-> b1], [key |-> k2, body |-> b1]>>,
    <<[key |-> k2, body |-> b1], [key |-> k3, body |-> b2]>> }

\* Clean cuts alone, and every fault.
MCFaultSets == { {"line", "partial"}, {"line", "partial", "newline", "io"} }

\* A crash between a line and its newline.
NewlineCut == { {"line", "newline"} }
=============================================================================
