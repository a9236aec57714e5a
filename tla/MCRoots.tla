----------------------------- MODULE MCRoots -------------------------------
(***************************************************************************)
(* The roots for TLC.  A behaviour runs one root, seen from one side: as a *)
(* factorization root, as a Lean root, or as a root of the replay          *)
(* experiments; what belongs to the other sides stands still.              *)
(***************************************************************************)
EXTENDS Factorization, ScenarioRoot, LeanProofs

\* Three nodes, at most one mechanism off.
MCNodes == 1..3
MCModes == {{}, {"verification"}, {"requeue"}, {"merge_gate"}, {"slot_integrity"}}

\* The modes of Exp4: nothing, one or two mechanisms off.
MCExp4Modes == {m \in SUBSET {"verification", "parser_policy", "requeue", "merge_gate"} : Cardinality(m) <= 2}

VARIABLE subject

NoFactorization ==
  /\ target = 2 /\ requested = 1
  /\ policy = [verification |-> TRUE, slotIntegrity |-> TRUE, mergeGate |-> TRUE]
  /\ ranges = <<>> /\ bound = <<>> /\ failed = {} /\ merged = Running

NoLean ==
  /\ deps = [n \in Nodes |-> {}] /\ root = 1 /\ shape = "simple" /\ off = {}
  /\ retries = [n \in Nodes |-> 0]
  /\ flight = [n \in Nodes |-> "none"] /\ carried = [n \in Nodes |-> <<>>]
  /\ memory = [n \in Nodes |-> 0] /\ canonical = [n \in Nodes |-> 0]
  /\ stopped = {} /\ early = {} /\ outcome = "planned"

NoScenario ==
  /\ plan = [exp |-> "exp2", case |-> [domain |-> "lean", witness |-> {}, dependent |-> FALSE],
             off |-> {}, kind |-> "none", targets |-> {}, every |-> FALSE, workers |-> 1]
  /\ tries = <<<<>>, <<>>>> /\ phase = <<"ready", "ready">>
  /\ routes = <<>> /\ merges = <<>> /\ ending = "running"

RootsInit ==
  \/ subject = "factorization" /\ Init /\ NoLean /\ NoScenario
  \/ subject = "lean" /\ NoFactorization /\ LeanInit /\ NoScenario
  \/ subject = "scenario" /\ NoFactorization /\ NoLean /\ ReplayInit

RootsNext ==
  \/ subject = "factorization" /\ Next /\ UNCHANGED <<subject, leanVars, replayVars>>
  \/ subject = "lean" /\ LeanNext /\ UNCHANGED <<subject, vars, replayVars>>
  \/ subject = "scenario" /\ ReplayNext /\ UNCHANGED <<subject, vars, leanVars>>

RootsSpec == RootsInit /\ [][RootsNext]_<<subject, vars, leanVars, replayVars>>
=============================================================================
