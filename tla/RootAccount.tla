---------------------------- MODULE RootAccount ----------------------------
(***************************************************************************)
(* What the graph operations promise about one root: it is expanded,       *)
(* resolved, completed and paid in this order, each once, and its budget   *)
(* is divided without loss, no two shares more than one unit apart.        *)
(***************************************************************************)
EXTENDS Integers, FiniteSets

CONSTANTS Units, RootBudget

VARIABLES stage, paid

\* The units of reward handed out, each one with its payee and its number there.
HandedOut(pay) == UNION {{u} \X (1..pay[u]) : u \in Units}

Total(pay) == Cardinality(HandedOut(pay))

Fair(pay, payees) ==
  /\ \A u \in Units \ payees : pay[u] = 0
  /\ \A u, v \in payees : pay[u] - pay[v] <= 1
  /\ Total(pay) = RootBudget

Open == stage = "open" /\ paid = [u \in Units |-> 0]

Expand   == stage = "open" /\ stage' = "expanded" /\ UNCHANGED paid
Resolve  == stage = "expanded" /\ stage' = "resolved" /\ UNCHANGED paid
Complete == stage \in {"open", "resolved"} /\ stage' = "completed" /\ UNCHANGED paid

Settle ==
  /\ stage = "completed" /\ stage' = "settled"
  /\ paid' \in [Units -> 0..RootBudget]
  /\ \E payees \in (SUBSET Units) \ {{}} : Fair(paid', payees)

Spec == Open /\ [][Expand \/ Resolve \/ Complete \/ Settle]_<<stage, paid>>
=============================================================================
