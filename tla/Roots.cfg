\* Primes, prime powers, products of two and of three primes, with and without
\* enough budget; every graph of three nodes; every plan of a replayed root of
\* two children, every mode of Exp4.
SPECIFICATION RootsSpec
CONSTANTS
  Targets = {2, 3, 4, 5, 7, 9, 15, 16, 30, 35, 37, 49, 50, 58}
  Requested = {1, 2, 3}
  MaxChildren = 3
  Budget = 2
  Nodes <- MCNodes
  Modes <- MCModes
  Exp4Modes <- MCExp4Modes
  MaxRetries = 1
  NodeRetries = 1
  MaxGraphChildren = 3
  MaxDepth = 3
  Slowable = {"unparsed"}
CHECK_DEADLOCK FALSE
INVARIANTS ResolvedIsRight VerdictIsDetermined
INVARIANTS ProofsHold AssemblyInOrder
INVARIANTS OnlyLateFailuresAreRefused OriginIsTheChilds WrongNeedsAblation RoutesExplained
