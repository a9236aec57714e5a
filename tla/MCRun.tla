------------------------------- MODULE MCRun -------------------------------
(* ExperimentRun for TLC: one or two roots of one condition with coverage    *)
(* tails.                                                                    *)
EXTENDS ExperimentRun

TwoRoots == 1 .. 2
OneUnitThenTwo == <<{1}, {1, 2}>>
OneRoot == {1}
OneUnit == <<{1}>>
OneCondition == [r \in Roots |-> "condition"]
=============================================================================
