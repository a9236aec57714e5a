--------------------------- MODULE Factorization ---------------------------
(***************************************************************************)
(* The factorization plugin of src/src/tokenshare/plugins/factorization/:  *)
(* one root task from its split into candidate ranges, over the answers of *)
(* the executors and their verification, to the merge.                     *)
(*                                                                         *)
(* An executor may answer anything the parser lets through: RangeResult    *)
(* makes sure that a factor divides the target it names and lies in the    *)
(* range it names, and nothing else.  Only verification asks whether the   *)
(* answer is about the child's own range, and whether a range said to hold *)
(* no factor holds none.  A rejected answer is followed by another one, or *)
(* the child fails.                                                        *)
(*                                                                         *)
(* The mechanisms an experiment may switch off are part of the behaviour:  *)
(* the verification, the binding of results to slots, the merge gate.      *)
(***************************************************************************)
EXTENDS Integers, FiniteSets, FiniteSetsExt, Sequences

CONSTANTS
  Targets,      \* the numbers a root may ask about
  Requested,    \* values of requested_child_count
  MaxChildren,  \* max_children_per_unit
  Budget        \* primality_recheck_max_divisors

ASSUME FactorizationAssumption ==
  /\ Targets \subseteq Nat \ {0, 1}
  /\ Requested \subseteq Nat \ {0}
  /\ MaxChildren \in Nat \ {0} /\ Budget \in Nat \ {0}

VARIABLES
  target,     \* target_n
  requested,  \* requested_child_count
  policy,     \* which mechanisms are on
  ranges,     \* the candidate ranges, one per child, <<>> before the split
  bound,      \* child -> its canonical range result, NoResult before
  failed,     \* children that have failed
  merged      \* how the root ended

vars == <<target, requested, policy, ranges, bound, failed, merged>>

Policies == [verification : BOOLEAN, slotIntegrity : BOOLEAN, mergeGate : BOOLEAN]

Slots    == DOMAIN ranges
NoResult == [own |-> FALSE, index |-> 0, slot |-> 0, factor |-> 0]
Ended(kind, factors) == [kind |-> kind, factors |-> factors, early |-> FALSE]
Running  == Ended("running", <<>>)

(***************************************************************************)
(* The split.                                                              *)
(***************************************************************************)

ISqrt(n) == Max({r \in 1..n : r * r <= n})

\* Mutant: the remainder is left out.
ContiguousRangesShort(first, last, count) ==
  LET base == (last - first + 1) \div count
  IN [i \in 1..count |-> <<first + (i - 1) * base, first + i * base - 1>>]

\* _partition_contiguous_ranges: the first ranges take one more until the
\* remainder is used up.
ContiguousRanges(first, last, count) ==
  LET size  == last - first + 1
      base  == size \div count
      extra == size % count
      Start(i) == first + (i - 1) * base + Min({i - 1, extra})
  IN [i \in 1..count |-> <<Start(i), Start(i + 1) - 1>>]

\* partition_candidate_ranges over the complete domain 2..isqrt: no child
\* without a candidate and no more children than the policy allows.
CandidateRanges ==
  LET last == ISqrt(target)
  IN ContiguousRanges(2, last, Min({last - 1, requested, MaxChildren}))

\* 2 and 3 have no candidates and no children.
Direct == target \in {2, 3}

Init ==
  /\ target \in Targets /\ requested \in Requested /\ policy \in Policies
  /\ ranges = <<>> /\ bound = <<>> /\ failed = {} /\ merged = Running

CompleteDirectly ==
  /\ ranges = <<>> /\ merged = Running
  /\ Direct
  /\ merged' = Ended("direct", <<target>>)
  /\ UNCHANGED <<target, requested, policy, ranges, bound, failed>>

Split ==
  /\ ranges = <<>> /\ merged = Running
  /\ ~Direct
  /\ ranges' = CandidateRanges
  /\ bound' = [i \in DOMAIN ranges' |-> NoResult]
  /\ UNCHANGED <<target, requested, policy, failed, merged>>

(***************************************************************************)
(* The answers and their verification.                                     *)
(***************************************************************************)

Within(i) == ranges[i][1]..ranges[i][2]
Divides(d) == target % d = 0

\* RangeResult: the factor an answer names lies in the range it names, and
\* divides the target it names.
Parses(a) ==
  a.factor # 0 => a.factor \in Within(a.slot) /\ (a.own => Divides(a.factor))

\* What an answer may say: about this target and partition or a foreign one,
\* for child index, of the range of slot, with a factor or (0) that there is
\* none.
Answers ==
  {a \in [own : BOOLEAN, index : Slots, slot : Slots, factor : 0..ISqrt(target)] :
     Parses(a) /\ (~a.own => a.index = a.slot)}

\* _check_child_input_alignment.
Aligned(i, a) == a.own /\ a.index = i /\ a.slot = i

\* _verify_found_factor and _verify_no_factor: every divisor of a range said
\* to hold none is tried.
FactorHolds(i, a)   == a.factor \in Within(i) /\ Divides(a.factor)
NoFactorHolds(i, a) == \A d \in Within(i) : ~Divides(d)

\* Mutant: a range said to hold no factor is taken at its word.
AcceptsWord(i, a) == Aligned(i, a)

\* verify_range_result.
Accepts(i, a) ==
  Aligned(i, a) /\ IF a.factor # 0 THEN FactorHolds(i, a) ELSE NoFactorHolds(i, a)

\* verify_submission judges the answer; without verification whatever parses
\* passes.
Passes(i, a) == policy.verification => Accepts(i, a)

Open(i) == bound[i] = NoResult /\ i \notin failed

\* A verified answer is bound, and the child completed with it.
CompleteChild(i) ==
  /\ merged = Running /\ Open(i)
  /\ \E a \in Answers : Passes(i, a) /\ bound' = [bound EXCEPT ![i] = a]
  /\ UNCHANGED <<target, requested, policy, ranges, failed, merged>>

FailChild(i) ==
  /\ merged = Running /\ Open(i)
  /\ failed' = failed \cup {i}
  /\ UNCHANGED <<target, requested, policy, ranges, bound, merged>>

(***************************************************************************)
(* Readiness.                                                              *)
(***************************************************************************)

\* _verified_canonical_range_results.
Results == {i \in Slots : bound[i] # NoResult /\ Passes(i, bound[i])}

Witnesses(children) == {i \in children : bound[i].factor # 0}

\* evaluate_merge_readiness: the children to merge, those with the smallest
\* factor found or all when none found any.
SmallestWitness ==
  {{i} : i \in {j \in Witnesses(Results) :
                  \A k \in Witnesses(Results) : bound[j].factor <= bound[k].factor}}

\* Mutant: a witness has to wait for the other ranges.
ReadyWhenComplete == IF Results # Slots THEN {} ELSE IF Witnesses(Slots) # {} THEN SmallestWitness ELSE {Slots}

Ready ==
  IF Witnesses(Results) # {} THEN SmallestWitness
  ELSE IF Results = Slots THEN {Slots} ELSE {}

HopelessFailure == Ready = {} /\ failed # {}

(***************************************************************************)
(* The merge.                                                              *)
(***************************************************************************)

\* Mutant: a number the budget does not suffice for counts as a prime.
PrimeVerdictOptimistic(n) ==
  IF n = 2 THEN "prime"
  ELSE IF n % 2 = 0 THEN "composite"
  ELSE IF \E d \in 3..ISqrt(n) : n % d = 0 /\ (d - 1) \div 2 < Budget THEN "composite"
  ELSE "prime"

\* _is_prime_with_budget tries 2 and then the odd numbers up to the root; the
\* odd number d is the (d+1)/2-th of them.
PrimeVerdict(n) ==
  LET odd == {d \in 3..ISqrt(n) : d % 2 = 1}
      Tried(d) == (d - 1) \div 2 < Budget
  IN CASE n = 2 -> "prime"
       [] n > 2 /\ n % 2 = 0 -> "composite"
       [] n % 2 = 1 /\ (\E d \in odd : Tried(d) /\ n % d = 0) -> "composite"
       [] n % 2 = 1 /\ (\A d \in odd : Tried(d) /\ n % d # 0) -> "prime"
       [] OTHER -> "unknown"

\* _validate_slot_result_bindings.
Bindings(children) == \A i \in children : bound[i].own /\ bound[i].index = i

\* _validate_complete_candidate_coverage: no gap and no overlap.
Coverage(children) ==
  \A d \in 2..ISqrt(target) : Cardinality({i \in children : d \in Within(bound[i].slot)}) = 1

\* Of one target, coverage and partition, those of the plan.
OfOneRoot(children) == \A i \in children : bound[i].own

\* All of them together, or witnesses alone.
CompleteSet(children) == children = Slots /\ OfOneRoot(children) /\ Coverage(children)
WitnessSet(children)  == children \notin {{}, Slots} /\ OfOneRoot(children) /\ children = Witnesses(children)

\* FactorizationMergeResult for the smallest factor found: two primes, or
\* nothing.
FactorResult(factor) ==
  LET cofactor == target \div factor
  IN IF PrimeVerdict(factor) = "prime" /\ PrimeVerdict(cofactor) = "prime"
       THEN Ended("semiprime", <<factor, cofactor>>) ELSE Ended("unresolved", <<>>)

\* merge_required_range_results: a refusal, a prime certificate, or what the
\* factor gives.
MergeRangeResults(children, integrity) ==
  IF ~(CompleteSet(children) \/ WitnessSet(children)) \/ (integrity /\ ~Bindings(children))
    THEN Ended("refused", <<>>)
  ELSE IF Witnesses(children) = {} THEN Ended("certificate", <<target>>)
  ELSE FactorResult(Min({bound[i].factor : i \in Witnesses(children)}))

\* build_merge: without a witness every slot must be there.  Rotating the
\* slots, which it does when they are not checked, changes no outcome.
BuildMerge(children, integrity) ==
  IF children # Slots /\ Witnesses(children) = {} THEN Ended("incomplete", <<>>)
  ELSE MergeRangeResults(children, integrity)

Merge ==
  /\ ranges # <<>> /\ merged = Running
  /\ \E children \in Ready : merged' = BuildMerge(children, policy.slotIntegrity)
  /\ UNCHANGED <<target, requested, policy, ranges, bound, failed>>

\* Without the merge gate the completed children are merged as they are.
PrematureMerge ==
  /\ ranges # <<>> /\ merged = Running
  /\ ~policy.mergeGate /\ Ready = {}
  /\ merged' = [BuildMerge({i \in Slots : bound[i] # NoResult}, TRUE) EXCEPT !.early = TRUE]
  /\ UNCHANGED <<target, requested, policy, ranges, bound, failed>>

FailRoot ==
  /\ ranges # <<>> /\ merged = Running
  /\ HopelessFailure
  /\ merged' = Ended("failed", <<>>)
  /\ UNCHANGED <<target, requested, policy, ranges, bound, failed>>

Next ==
  \/ CompleteDirectly \/ Split
  \/ \E i \in Slots : CompleteChild(i) \/ FailChild(i)
  \/ Merge \/ PrematureMerge \/ FailRoot

Spec == Init /\ [][Next]_vars

-----------------------------------------------------------------------------

\* Prime by definition, and a factorization by definition: the target itself or
\* two factors, all a root is resolved by, and each a prime.
IsPrime(n) == n > 1 /\ \A d \in 2..(n - 1) : n % d # 0

Right(factors) ==
  /\ \/ factors = <<target>>
     \/ Len(factors) = 2 /\ target = factors[1] * factors[2]
  /\ \A k \in DOMAIN factors : IsPrime(factors[k])

Resolved == merged.factors # <<>>

\* With verification a root is resolved only by its prime factorization,
\* whatever the executors answer, in whatever order the children end, also
\* when slots are not checked and the gate is open; without it a pair of
\* factors is still right, and a wrong certificate needs a false claim that a
\* range holds no factor (plugins/factorization/merge_policy.py:83,
\* plugins/factorization/runtime_adapter.py:781).
ResolvedIsRight ==
  Resolved => \/ Right(merged.factors)
              \/ /\ ~policy.verification /\ merged.kind = "certificate"
                 /\ \E i \in Slots : bound[i].factor = 0 /\ \E d \in Within(bound[i].slot) : Divides(d)

\* How the merge of verified results ends does not depend on the order of the
\* children or on the witness that is merged: it is never refused, and it
\* resolves every prime and every product of two primes the budget suffices
\* for.  And the gate and the plugin agree: what the gate holds back the
\* plugin refuses itself (plugins/factorization/merge_policy.py:160,
\* local_runtime/coordinator.py:1205).
VerdictIsDetermined ==
  /\ merged.early => merged.kind = "incomplete"
  /\ policy.verification /\ ~merged.early =>
       /\ merged.kind \notin {"refused", "incomplete"}
       /\ merged.kind = "unresolved" =>
            \A p \in 2..ISqrt(target) :
              Right(<<p, target \div p>>) => "unknown" \in {PrimeVerdict(p), PrimeVerdict(target \div p)}
=============================================================================
