\* Exp2 to Exp4 without an ablation and without the requeue: a terminal attempt
\* whose failed submission comes after the lease.
SPECIFICATION ReplaySpec
CONSTANTS
  MaxRetries = 1
  Exp4Modes = {{}, {"requeue"}}
  Slowable = {"unparsed"}
INVARIANT EveryRootProjects
CHECK_DEADLOCK FALSE
