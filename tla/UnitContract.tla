---------------------------- MODULE UnitContract ----------------------------
(***************************************************************************)
(* What a TaskUnit promises, leases and ledger left out: it is tried at    *)
(* most MaxRetries + 1 times, a try ends by giving the unit back, by       *)
(* failing it when the budget is spent, or by binding its one canonical    *)
(* bundle; only a bound unit completes, and a completed or failed unit     *)
(* never changes again.                                                    *)
(***************************************************************************)
EXTENDS Naturals

CONSTANTS Units, Bundles, MaxRetries, NoBundle

VARIABLES
  phase,   \* unit -> "ready", "running", "bound", "completed", "failed"
  tries,   \* unit -> tries begun
  bundle   \* unit -> the canonical bundle

vars == <<phase, tries, bundle>>

Init ==
  /\ phase = [u \in Units |-> "ready"]
  /\ tries = [u \in Units |-> 0]
  /\ bundle = [u \in Units |-> NoBundle]

Start(u) ==
  /\ phase[u] = "ready"
  /\ tries[u] <= MaxRetries
  /\ phase' = [phase EXCEPT ![u] = "running"]
  /\ tries' = [tries EXCEPT ![u] = @ + 1]
  /\ UNCHANGED bundle

GiveBack(u) ==
  /\ phase[u] = "running"
  /\ tries[u] <= MaxRetries
  /\ phase' = [phase EXCEPT ![u] = "ready"]
  /\ UNCHANGED <<tries, bundle>>

GiveUp(u) ==
  /\ phase[u] = "running"
  /\ tries[u] = MaxRetries + 1
  /\ phase' = [phase EXCEPT ![u] = "failed"]
  /\ UNCHANGED <<tries, bundle>>

Bind(u, b) ==
  /\ phase[u] = "running"
  /\ phase' = [phase EXCEPT ![u] = "bound"]
  /\ bundle' = [bundle EXCEPT ![u] = b]
  /\ UNCHANGED tries

Finish(u) ==
  /\ phase[u] = "bound"
  /\ phase' = [phase EXCEPT ![u] = "completed"]
  /\ UNCHANGED <<tries, bundle>>

Next == \E u \in Units :
          \/ Start(u) \/ GiveBack(u) \/ GiveUp(u) \/ Finish(u)
          \/ \E b \in Bundles : Bind(u, b)

Spec == Init /\ [][Next]_vars
=============================================================================
