------------------------------ MODULE MCEngine ------------------------------
(***************************************************************************)
(* The two halves of protocol_engine.py for TLC: the lifecycle of units    *)
(* (ProtocolEngine) and the graph operations of a root (TaskGraph).  A     *)
(* behaviour exercises one of them, its subject; the other stands still.   *)
(***************************************************************************)
EXTENDS ProtocolEngine, TaskGraph, TLC

CONSTANTS
  MaxNamed,       \* submission ids used in a run of the coordinator
  OtherAttempts,  \* attempts in a run of any other caller
  OtherNamed      \* submission ids used in a run of any other caller

VARIABLE subject

\* What TaskGraph takes for granted of its constants.
ASSUME GraphAssumption

\* Attempts only have names, and a proposal is any relation and any choice of
\* slots over the children.
Symmetry == Permutations(Attempts) \cup Permutations(Children)

Coordinator == [fresh |-> TRUE, ownLeases |-> FALSE, shadow |-> FALSE]

Issued == {a \in Attempts : leaseState[a] # "Unissued"}
Named  == {s \in Submissions : submission[s] # "Unrecorded" \/ report[s] # "Unrecorded"}

WithinBounds ==
  IF usage = Coordinator
  THEN Cardinality(Named) <= MaxNamed
  ELSE Cardinality(Issued) <= OtherAttempts /\ Cardinality(Named) <= OtherNamed

EngineInit ==
  /\ Init /\ GraphInit
  /\ \/ subject = "units" /\ proposal = [needs |-> [c \in Children |-> {}], slots |-> Children]
     \/ subject = "graph" /\ usage = Coordinator

EngineNext ==
  \/ subject = "units" /\ Next /\ WithinBounds' /\ UNCHANGED <<subject, rootVars>>
  \/ subject = "graph" /\ GraphNext /\ UNCHANGED <<subject, vars>>

EngineSpec == EngineInit /\ [][EngineNext]_<<subject, vars, rootVars>>
=============================================================================
