---------------------------- MODULE ScenarioRoot ----------------------------
(***************************************************************************)
(* One root of the replay experiments, from its plan to its typed result   *)
(* (src/src/tokenshare/experiments/): Exp2 replays recorded answers, Exp3  *)
(* injects a fault into the first attempt of some units, Exp4 switches     *)
(* mechanisms of the protocol off and challenges a unit.  The run leaves   *)
(* submissions, reports and recoveries in the ledger, and the records of   *)
(* the hooks and of the route observer; the projector makes the result     *)
(* from both and refuses evidence that does not fit together.              *)
(*                                                                         *)
(* The plan is fixed for a behaviour.  A source answer is chosen when its  *)
(* attempt is executed; what becomes of it is a function of the plan, of   *)
(* the attempt and of the answer, so an attempt is its answer and its end. *)
(* Two children, as many as a challenge and its sibling need; a factor is  *)
(* in the range of one of them or of none.  The merge unit is left to      *)
(* Factorization and LeanProofs: verified children merge into a right      *)
(* result, and a target without a factor in any range is a prime.  Roots   *)
(* are not resumed here and no worker dies.                                *)
(***************************************************************************)
EXTENDS Naturals, Sequences, SequencesExt, FiniteSets

CONSTANTS
  MaxRetries,   \* protocol_config.max_retries: 2, for Exp4 1
  Exp4Modes,    \* the sets of mechanisms an Exp4 root may switch off
  Slowable      \* the answers that may be older than the lease allows

ASSUME ReplayAssumption == MaxRetries \in Nat \ {0}

Children   == {1, 2}
Mechanisms == {"verification", "parser_policy", "requeue", "merge_gate"}
Losses     == {"RECOVERABLE_NO_RETURN", "REQUIRED_CHILD_DELAY"}

\* CHALLENGE_INJECTION_BOUNDARIES and _FAULT_TYPES.
Boundary ==
  [INVALID_PARSED_CANDIDATE       |-> "after_parser_before_verification",
   PARSER_REQUIRED_CANONICAL_JSON |-> "before_plugin_parser",
   RECOVERABLE_NO_RETURN          |-> "after_source_usage",
   REQUIRED_CHILD_DELAY           |-> "after_source_usage"]
Families   == DOMAIN Boundary
FaultTypes == {"false_positive", "false_negative", "no_return", "late_submission", "executor_error"}

\* EXP4_MODE_DISABLED_MECHANISMS.
AllModes == {off \in SUBSET Mechanisms : Cardinality(off) <= 2}

VARIABLES
  plan,        \* what build_scenario fixed
  tries,       \* child -> its attempts in order
  phase,       \* child -> where it stands
  routes,      \* recovery_records of the route observer
  merges,      \* merge_records of the route observer
  ending       \* how the run ended

replayVars == <<plan, tries, phase, routes, merges, ending>>

(***************************************************************************)
(* The plan.                                                               *)
(***************************************************************************)

\* target_rule: the divisor ranges, without one and for Lean the last unit.
DelayTargets(domain, witness) ==
  IF domain = "lean" \/ witness = {} THEN {2} ELSE witness

\* build_challenge_plan.
ChallengeTargets(family, domain, witness) ==
  IF family = "REQUIRED_CHILD_DELAY" THEN DelayTargets(domain, witness) ELSE {1}

\* The roots of an inventory: the range with a factor, or the dependency of
\* the second Lean node on the first, is the case's.
Cases ==
  [domain : {"factorization"}, witness : {{}, {1}, {2}}, dependent : {FALSE}]
    \cup [domain : {"lean"}, witness : {{}}, dependent : BOOLEAN]

\* _fault_targets: evenly spread, at least the first.
FaultPlans ==
  {[exp |-> "exp3", case |-> c, off |-> {}, kind |-> f, targets |-> T, every |-> FALSE, workers |-> 2] :
     c \in Cases, f \in FaultTypes, T \in {{1}, {1, 2}}}

ChallengePlans ==
  {[exp |-> "exp4", case |-> c, off |-> off, kind |-> f,
    targets |-> ChallengeTargets(f, c.domain, c.witness),
    every |-> f = "PARSER_REQUIRED_CANONICAL_JSON", workers |-> 2] :
     c \in Cases, f \in Families, off \in Exp4Modes \cap AllModes}

ReplayPlans ==
  {[exp |-> "exp2", case |-> c, off |-> {}, kind |-> "none", targets |-> {}, every |-> FALSE, workers |-> w] :
     c \in Cases, w \in {1, 2}}

On(m)   == m \notin plan.off
Lean    == plan.case.domain = "lean"
Witness == plan.case.witness

\* _applies, _fault_applies.
Applies(c, n) == c \in plan.targets /\ (plan.every \/ n = 1)

Challenged(c, n, families) == plan.exp = "exp4" /\ plan.kind \in families /\ Applies(c, n)
Faulty(c, n, faults)       == plan.exp = "exp3" /\ plan.kind \in faults /\ Applies(c, n)

(***************************************************************************)
(* An attempt: the answer a of the n-th attempt of child c.                *)
(***************************************************************************)

\* A source without a response; a response whose content is no text; text
\* that is no JSON; JSON the parser rejects; a right answer; a wrong one; a
\* range with a factor said to hold none; a proof the checker cannot judge.
\* Answers are told apart where anything can come of the difference: without
\* the parser nobody reads a text, which then is the same whatever it says.
Readings(c) ==
  {"right", "wrong"} \cup (IF c \in Witness THEN {"blind"} ELSE {})
                    \cup (IF Lean THEN {"untestable"} ELSE {})

SourceAnswers(c) ==
  {"absent", "unparsed"}
    \cup (IF On("parser_policy") THEN Readings(c) ELSE {"empty"})
    \cup (IF plan.kind = "PARSER_REQUIRED_CANONICAL_JSON" THEN {"garbled"} ELSE {})

HasRaw(a) == a # "absent"
IsText(a) == a \notin {"absent", "empty"}
IsJson(a) == a \notin {"absent", "empty", "garbled"}
Parsed(a) == a \in {"right", "wrong", "blind", "untestable"}

\* The parser's candidate, absent where the text is passed on unparsed.
HasCandidate(a) == On("parser_policy") /\ Parsed(a)

\* select_parser_route, record_parser_result.
ParserRecord(a) ==
  IF ~IsText(a) THEN "none"
  ELSE IF ~On("parser_policy") THEN "bypassed"
  ELSE IF Parsed(a) THEN "parsed" ELSE "rejected"

\* after_parsed_candidate_persisted, transform_submission: the candidate is
\* replaced by a wrong one.
Spoilt(c, n, a) ==
  /\ HasCandidate(a)
  /\ Faulty(c, n, {"false_positive"}) \/ Challenged(c, n, {"INVALID_PARSED_CANDIDATE"})

NoRecord == [boundary |-> "none", opportunity |-> FALSE, injected |-> FALSE, wrong |-> FALSE]
Record(boundary, injected, wrong) ==
  [boundary |-> boundary, opportunity |-> injected, injected |-> injected, wrong |-> wrong]

\* Mutant: an answer that is no JSON leaves no record.
ChallengeRecordIfInjected(c, n, a) ==
  CASE Challenged(c, n, Losses) -> Record(Boundary[plan.kind], TRUE, FALSE)
    [] Challenged(c, n, {"PARSER_REQUIRED_CANONICAL_JSON"}) /\ IsJson(a) ->
         Record("before_plugin_parser", TRUE, FALSE)
    [] Challenged(c, n, {"INVALID_PARSED_CANDIDATE"}) /\ HasCandidate(a) ->
         Record("after_parser_before_verification", TRUE, TRUE)
    [] OTHER -> NoRecord

\* What ModeBlindChallengeController records: a missed opportunity, too.
ChallengeRecord(c, n, a) ==
  CASE Challenged(c, n, Losses) -> Record(Boundary[plan.kind], TRUE, FALSE)
    [] Challenged(c, n, {"PARSER_REQUIRED_CANONICAL_JSON"}) ->
         Record("before_plugin_parser", IsJson(a), FALSE)
    [] Challenged(c, n, {"INVALID_PARSED_CANDIDATE"}) ->
         Record("after_parser_before_verification", HasCandidate(a), HasCandidate(a))
    [] OTHER -> NoRecord

\* What ScenarioHooks records of a fault.
FaultRecord(c, n, a) ==
  \/ Faulty(c, n, {"no_return", "late_submission", "executor_error"})
  \/ Faulty(c, n, {"false_positive", "false_negative"}) /\ HasCandidate(a)

\* The result_kind that leaves the executor.
SubmittedKind(c, n, a) ==
  CASE Faulty(c, n, {"no_return"}) \/ Challenged(c, n, Losses) -> "no_return"
    [] Faulty(c, n, {"late_submission"}) -> "late_submission"
    [] Faulty(c, n, {"executor_error"}) -> "executor_error"
    [] OTHER -> IF IsText(a) /\ (~On("parser_policy") \/ Parsed(a)) THEN "succeeded" ELSE "failed"

\* _execute_unit: without the parser policy any raw output is a success.
Kind(c, n, a) ==
  IF ~On("parser_policy") /\ HasRaw(a) THEN "succeeded" ELSE SubmittedKind(c, n, a)

\* Mutant: the candidate is verified before it is replaced.
VerdictOriginal(c, n, a) ==
  IF ~On("verification") \/ (HasCandidate(a) /\ a = "right" /\ ~Faulty(c, n, {"false_negative"}))
  THEN "bound" ELSE "rejected"

\* What the plugin says of a submission: a raw one is no result, one that
\* names another request has no report.
Verdict(c, n, a) ==
  CASE ~On("verification") -> "bound"
    [] HasCandidate(a) /\ a = "untestable" /\ ~Faulty(c, n, {"false_negative"}) -> "checker_error"
    [] HasCandidate(a) /\ a = "right" /\ ~Spoilt(c, n, a) /\ ~Faulty(c, n, {"false_negative"}) -> "bound"
    [] OTHER -> "rejected"

\* How an attempt ends: without a submission, with one that is rejected as
\* too late, with one that reports a failure, or as verified.
EndOf(c, n, a, slow) ==
  CASE SubmittedKind(c, n, a) = "no_return" -> "lost"
    [] SubmittedKind(c, n, a) # "no_return" /\ (slow \/ SubmittedKind(c, n, a) = "late_submission") -> "late"
    [] SubmittedKind(c, n, a) # "no_return" /\ ~slow /\ SubmittedKind(c, n, a) # "late_submission" ->
         IF Kind(c, n, a) # "succeeded" THEN "failed" ELSE Verdict(c, n, a)

\* An answer that is thrown away is the same whatever it says, and whenever it
\* comes, as long as no passed-on text leaves a record of itself.
ThrownAway(c, n, a) ==
  On("parser_policy") /\ SubmittedKind(c, n, a) \in {"no_return", "late_submission"}

Attempt(answer, slow) == [answer |-> answer, slow |-> slow, end |-> "flight"]

Ordinal(c)  == Len(tries[c])
Executed    == {e \in Children \X (1..(MaxRetries + 1)) : e[2] <= Ordinal(e[1])}
Try(e)      == tries[e[1]][e[2]]
RecordOf(e) == ChallengeRecord(e[1], e[2], Try(e).answer)

(***************************************************************************)
(* Readiness and the plugin's merge.                                       *)
(***************************************************************************)

Completed == {c \in Children : phase[c] = "done"}
Bound(c)  == Last(tries[c]).answer
Ruined(c) == Spoilt(c, Ordinal(c), Bound(c))

ClaimsFactor(c) == Bound(c) = "wrong" \/ (Bound(c) = "right" /\ c \in Witness)

\* RangeResult accepts it: no raw text, and no factor of one less.
IsResult(c) == HasCandidate(Bound(c)) /\ ~(Ruined(c) /\ ClaimsFactor(c))

FactorResults   == {c \in Completed : IsResult(c)}
FactorWitnesses == {c \in FactorResults : ClaimsFactor(c)}

\* evaluate_merge_readiness; Lean waits for all.
MergeReady ==
  IF Lean THEN Completed = Children
  ELSE FactorWitnesses # {} \/ FactorResults = Children

\* build_merge of the children C.  A result of a foreign target is refused;
\* one that only is in the wrong place may pass.
PluginMerge(C) ==
  IF Lean THEN IF C = Children /\ On("verification") THEN {"right"} ELSE {"incomplete"}
  ELSE IF \E c \in C : ~IsResult(c) THEN {"raised"}
  ELSE IF C # Children /\ C \cap FactorWitnesses = {} THEN {"incomplete"}
  ELSE IF \E c \in C : Ruined(c) THEN {"raised"}
  ELSE IF \E c \in C : Bound(c) = "wrong" THEN {"raised", "right"}
  ELSE IF \E c \in C : Bound(c) = "blind" THEN {"wrong"}
  ELSE {"right"}

\* One witness is enough; which of several is the smallest is not said.
Selections == IF Lean \/ FactorWitnesses = {} THEN {Completed} ELSE {{c} : c \in FactorWitnesses}

(***************************************************************************)
(* The run.                                                                *)
(***************************************************************************)

ReplayInit ==
  /\ plan \in ReplayPlans \cup FaultPlans \cup ChallengePlans
  /\ tries = [c \in Children |-> <<>>]
  /\ phase = [c \in Children |-> "ready"]
  /\ routes = <<>> /\ merges = <<>>
  /\ ending = "running"

Live == ending = "running"
In(p)   == {c \in Children : phase[c] = p}
Control == In("retry") \cup In("requeue") # {}

Available(c) == phase[c] = "ready" /\ (plan.case.dependent /\ c = 2 => phase[1] = "done")

\* Units are leased while workers are free, nothing is to be recovered and
\* the merge is not ready.
CanDispatch(c) ==
  /\ Live /\ Available(c)
  /\ Cardinality(In("flight")) < plan.workers
  /\ ~MergeReady /\ ~Control

\* The attempt is executed at once; its result waits for its logical time.
Dispatch(c) ==
  /\ CanDispatch(c)
  /\ \A b \in Children : CanDispatch(b) => c <= b
  /\ plan.case.dependent /\ c = 2 => On("verification")
  /\ \E a \in SourceAnswers(c), slow \in BOOLEAN :
       /\ slow => a \in Slowable
       /\ ThrownAway(c, Ordinal(c) + 1, a) => a = "right" /\ ~slow
       /\ tries' = [tries EXCEPT ![c] = Append(@, Attempt(a, slow))]
  /\ phase' = [phase EXCEPT ![c] = "flight"]
  /\ UNCHANGED <<plan, routes, merges, ending>>

\* LeanCanonicalDependencyUnavailableError: an unchecked proof is no
\* dependency.
DependencyUnavailable ==
  /\ plan.case.dependent /\ ~On("verification")
  /\ CanDispatch(2)
  /\ ending' = "no_dependency"
  /\ UNCHANGED <<plan, tries, phase, routes, merges>>

\* _execute_unit.  Results of one instant come before their recoveries.
Take(c) ==
  /\ Live /\ phase[c] = "flight"
  /\ In("requeue") = {} /\ \A b \in Children : ~CanDispatch(b)
  /\ LET t == Last(tries[c])
         e == EndOf(c, Ordinal(c), t.answer, t.slow)
     IN /\ tries' = [tries EXCEPT ![c] = [@ EXCEPT ![Ordinal(c)] = [t EXCEPT !.end = e]]]
        /\ phase' = [phase EXCEPT ![c] = IF e = "bound" THEN "done" ELSE "retry"]
        /\ ending' = IF e = "checker_error" THEN "checker_error" ELSE ending
  /\ UNCHANGED <<plan, routes, merges>>

MergeRecord(boundary, c, outcome) ==
  [boundary |-> boundary, attempt |-> <<c, IF c = 0 THEN 0 ELSE Ordinal(c)>>,
   gate |-> MergeReady, canonical |-> Completed, outcome |-> outcome]

\* Mutant: the gate is looked at only after the requeue.
RecoveryMergeLate(c) == merges' = merges /\ phase' = [phase EXCEPT ![c] = "requeue"] /\ UNCHANGED <<routes, ending>>

\* before_recovery_merge: without the gate, and with what is there not enough,
\* the plugin is made to merge it.  The run stops, whatever comes of it.
RecoveryMerge(c) ==
  IF MergeReady \/ On("merge_gate")
    THEN /\ merges' = Append(merges, MergeRecord("recovery_premerge", c, "not_attempted"))
         /\ phase' = [phase EXCEPT ![c] = "requeue"]
         /\ UNCHANGED <<routes, ending>>
    ELSE \E outcome \in PluginMerge(Completed) :
         /\ merges' = Append(merges, MergeRecord("recovery_premerge", c,
                                       IF outcome = "raised" THEN "not_attempted" ELSE outcome))
         /\ ending' = IF outcome = "raised" THEN "raised" ELSE "premature"
         /\ routes' = IF outcome = "raised" \/ On("requeue") THEN routes
                      ELSE Append(routes, [attempt |-> <<c, Ordinal(c)>>, status |-> "preempted_by_merge_first"])
         /\ UNCHANGED phase

\* The retry event: _record_recovery, and for the last retry the failure of
\* the child and of the root.
Retry(c) ==
  /\ Live /\ phase[c] = "retry" /\ \A b \in In("retry") : c <= b
  /\ IF Ordinal(c) > MaxRetries
       THEN /\ phase' = [phase EXCEPT ![c] = "failed"]
            /\ ending' = "failed"
            /\ UNCHANGED <<routes, merges>>
       ELSE IF plan.exp = "exp4" THEN RecoveryMerge(c)
       ELSE phase' = [phase EXCEPT ![c] = "requeue"] /\ UNCHANGED <<routes, merges, ending>>
  /\ UNCHANGED <<plan, tries>>

\* before_requeue: applied when it keeps the run from a replacement.
RequeueRoute(c) ==
  [attempt |-> <<c, Ordinal(c)>>, status |-> IF On("requeue") THEN "not_reached" ELSE "applied"]

\* The requeue event: _finish_requeue.
Requeue(c) ==
  /\ Live /\ phase[c] = "requeue"
  /\ In("retry") = {} /\ \A b \in In("requeue") : c <= b
  /\ routes' = IF plan.exp = "exp4" THEN Append(routes, RequeueRoute(c)) ELSE routes
  /\ IF On("requeue") THEN phase' = [phase EXCEPT ![c] = "ready"] /\ UNCHANGED ending
     ELSE ending' = "requeue_refused" /\ UNCHANGED phase
  /\ UNCHANGED <<plan, tries, merges>>

\* Nothing is pending and nothing can be dispatched: the merge, or a stall.
MergeOrStall ==
  /\ Live /\ In("flight") = {} /\ ~Control
  /\ \A c \in Children : ~CanDispatch(c)
  /\ ~(plan.case.dependent /\ ~On("verification") /\ CanDispatch(2))
  /\ merges' = IF plan.exp = "exp4" THEN Append(merges, MergeRecord("normal_merge", 0, "not_attempted")) ELSE merges
  /\ IF MergeReady THEN \E C \in Selections : ending' \in PluginMerge(C) ELSE ending' = "stalled"
  /\ UNCHANGED <<plan, tries, phase, routes>>

ReplayNext ==
  \/ \E c \in Children : Dispatch(c) \/ Take(c) \/ Retry(c) \/ Requeue(c)
  \/ DependencyUnavailable \/ MergeOrStall

ReplaySpec == ReplayInit /\ [][ReplayNext]_replayVars

(***************************************************************************)
(* The projector.                                                          *)
(***************************************************************************)

RunEnded == ending # "running"
Failed == CHOOSE c \in Children : phase[c] = "failed"

\* _challenge_projection: an executed attempt the plan applies to has left
\* its record, at the boundary of the family.
ChallengeEvidence ==
  \A e \in Executed :
    plan.exp = "exp4" /\ Applies(e[1], e[2]) =>
      /\ RecordOf(e).boundary = Boundary[plan.kind]
      /\ RecordOf(e).injected => RecordOf(e).opportunity

\* _natural_rejection_stage: the submission that explains the recovery of the
\* last attempt of the failed child.  Of a late one only a success is taken.
NaturalRejection ==
  LET n == Ordinal(Failed)
      t == Last(tries[Failed])
  IN \/ t.end \in {"rejected", "failed"}
     \/ t.end = "late" /\ Kind(Failed, n, t.answer) = "succeeded"

\* _candidate_terminal_failure: why the recovered attempts of the root, not
\* only those of the failed child, came to nothing.  A late answer is a lost one.
Cause(e) ==
  CASE Try(e).end \in {"lost", "late"} -> "provider_transport_exhausted"
    [] Try(e).end = "failed" ->
         IF IsText(Try(e).answer) /\ ~Parsed(Try(e).answer)
         THEN "model_parse_exhausted" ELSE "provider_transport_exhausted"
    [] Try(e).end = "rejected" -> "model_verification_exhausted"
    [] OTHER -> "none"

\* A rejection is read from its report, any other end from its recovery.
Explained(e) ==
  \/ Try(e).end = "rejected"
  \/ e[2] < Ordinal(e[1]) \/ phase[e[1]] \notin {"flight", "retry"}
\* Mutant: the last attempt of a child decides.
CausesOfTheLast == {Cause(e) : e \in {d \in Executed : Explained(d) /\ d[2] = Ordinal(d[1])}} \ {"none"}

Causes == {Cause(e) : e \in {d \in Executed : Explained(d)}} \ {"none"}
FailureOrigin ==
  IF Cardinality(Causes) = 1 THEN CHOOSE o \in Causes : TRUE ELSE "mixed_candidate_acquisition_failure"

\* _exp4_processing_failure: a refused replacement or a premature merge.
Applied == {i \in DOMAIN routes : routes[i].status = "applied"}
Probed  == {i \in DOMAIN merges : merges[i].boundary = "recovery_premerge" /\ merges[i].outcome # "not_attempted"}
ProcessingFailure == plan.exp = "exp4" /\ (Probed # {} \/ Applied # {})

\* _exp4_controlled_no_final: the ends an ablation explains by itself.
Unchecked == ~On("verification") /\ Completed # {}
LeanDeadEnd ==
  ending = "incomplete" /\ Lean /\ Completed = Children /\ Last(merges).gate
FactorDeadEnd ==
  /\ ending = "stalled" /\ ~Lean /\ ~On("parser_policy")
  /\ Completed = Children /\ ~Last(merges).gate
ControlledNoFinal ==
  plan.exp = "exp4" /\ Unchecked /\ (ending = "no_dependency" \/ LeanDeadEnd \/ FactorDeadEnd)

\* _project_started_runtime_failure: run_root raised, and the run is kept as a
\* failure of the runtime unless an ablation explains it.
Raised == ending \in {"raised", "incomplete", "stalled", "no_dependency"}

\* What the projector makes of the root: its kind of result, or "error" when
\* it refuses the evidence and raises.  A factorization is checked by its
\* product: a false certificate of primality passes as a correct final.
Projected ==
  IF ~ChallengeEvidence THEN "error"
  ELSE CASE ending \in {"right", "wrong"} -> "correct_final"
         [] ending = "failed" -> IF NaturalRejection THEN "no_final" ELSE "error"
         [] ending = "checker_error" -> "infrastructure_invalid"
         [] ending \in {"premature", "requeue_refused"} -> IF ProcessingFailure THEN "no_final" ELSE "error"
         [] Raised -> IF ControlledNoFinal THEN "no_final" ELSE "infrastructure_invalid"

\* _recovery_projection: the attempts that were replaced.
Replaced == {e \in Executed : <<e[1], e[2] + 1>> \in Executed}

\* escaped_to_canonical_or_root.
Escaped(e) == Try(e).end = "bound"

\* _ablation_projection: the route a disabled mechanism took, "missing" when
\* the run has no evidence of one.
TargetTries == {e \in Executed : e[1] \in plan.targets}

Premerges == {i \in DOMAIN merges : merges[i].boundary = "recovery_premerge"}
Decided   == {i \in DOMAIN routes : routes[i].status # "not_reached"}

RouteStatus(m) ==
  CASE m = "verification" ->
         IF \E e \in TargetTries :
              /\ Escaped(e)
              /\ RecordOf(e) # NoRecord \/ ParserRecord(Try(e).answer) # "none"
         THEN "applied" ELSE "missing"
    [] m = "parser_policy" ->
         IF \E e \in TargetTries : ParserRecord(Try(e).answer) # "none" THEN "applied" ELSE "missing"
    [] m = "requeue" ->
         IF Decided = {} THEN "missing" ELSE routes[Max(Decided)].status
    [] m = "merge_gate" ->
         IF Premerges = {} THEN "missing"
         ELSE IF merges[Max(Premerges)].outcome = "not_attempted" THEN "not_reached" ELSE "applied"

(***************************************************************************)
(* The reducer: what a root adds to the rates of its cell.                 *)
(***************************************************************************)

\* The status of the recorded report.
Status(e) ==
  CASE Try(e).end = "bound" -> "accepted"
    [] Try(e).end = "rejected" -> "rejected"
    [] Try(e).end = "checker_error" -> "error"
    [] OTHER -> "none"

\* The challenges that were injected, and the candidates known to be wrong: of
\* the faults of Exp3 those that reached the verification.
Injected == {e \in Executed : RecordOf(e).injected}
Wrong ==
  IF plan.exp = "exp4" THEN {e \in Injected : RecordOf(e).wrong}
  ELSE {e \in Executed : /\ Faulty(e[1], e[2], {"false_positive"})
                         /\ HasCandidate(Try(e).answer)
                         /\ Status(e) # "none"}
Intercepted == {e \in Wrong : Status(e) = "rejected"}
WrongBound  == {e \in Wrong : Escaped(e)}

\* A raw text was passed on; an attempt of the target was accepted.
RawExposed == {e \in TargetTries : ParserRecord(Try(e).answer) = "bypassed"}
\* Mutant: an accepted attempt counts whether a text was passed on or not.
RawAcceptedAlways == {e \in TargetTries : RecordOf(e) # NoRecord /\ Escaped(e)}
RawAccepted ==
  IF RawExposed = {} THEN {} ELSE {e \in TargetTries : RecordOf(e) # NoRecord /\ Escaped(e)}

\* The rates of Exp4 read from two kinds of records: their numerators come from
\* the ablations, their denominators from the challenges.
Applicable ==
  {r \in {"wrong_canonical", "raw_only", "stuck"} :
     CASE r = "wrong_canonical" -> plan.kind = "INVALID_PARSED_CANDIDATE"
       [] r = "raw_only" -> plan.kind = "PARSER_REQUIRED_CANONICAL_JSON" /\ ~On("parser_policy")
       [] r = "stuck" -> plan.kind = "RECOVERABLE_NO_RETURN" /\ ~On("requeue")}

\* What the root adds to the numerator and to the denominator: where roots are
\* counted, it counts once.
Once(b) == IF b THEN 1 ELSE 0
Numerator ==
  [wrong_canonical |-> Once(~On("verification") /\ WrongBound # {}),
   raw_only        |-> Once(RawAccepted # {}),
   stuck           |-> Once(RouteStatus("requeue") = "applied")]
Denominator ==
  [wrong_canonical |-> Cardinality(Wrong),
   raw_only        |-> Once(RawExposed # {}),
   stuck           |-> Once(Injected # {})]

(***************************************************************************)
(* Properties.                                                             *)
(***************************************************************************)

\* A root that ended has a row in the results: a failure is not taken out of
\* the denominator.
EveryRootProjects == RunEnded => Projected # "error"

\* There is one run the projector refuses: the last attempt of a child failed,
\* and its submission came after the lease had expired.
OnlyLateFailuresAreRefused ==
  RunEnded /\ Projected = "error" =>
    /\ ending = "failed"
    /\ Last(tries[Failed]).end = "late"
    /\ Kind(Failed, Ordinal(Failed), Last(tries[Failed]).answer) # "succeeded"

\* A failed root names one cause only if every attempt of the failed child came
\* to nothing by it; what happened to its sibling can only make it "mixed".
OriginIsTheChilds ==
  ending = "failed" /\ FailureOrigin # "mixed_candidate_acquisition_failure" =>
    \A e \in Executed : e[1] = Failed => Cause(e) = FailureOrigin

\* While the mode verifies, no fault and no challenge gets through: no faulty
\* attempt is bound, what is canonical is a right candidate, a final is what it
\* is taken for, and a root is called invalid for its infrastructure only if the checker's
\* environment failed.  Of the candidates known to be wrong the reducer counts
\* each one that was judged as intercepted.
WrongNeedsAblation ==
  On("verification") =>
    /\ \A e \in Wrong : Status(e) \in {"accepted", "rejected"} => e \in Intercepted
    /\ \A e \in Executed : FaultRecord(e[1], e[2], Try(e).answer) => ~Escaped(e)
    /\ \A c \in Completed : Bound(c) = "right" /\ HasCandidate(Bound(c)) /\ ~Ruined(c)
    /\ RunEnded /\ Projected = "correct_final" => ending = "right"
    /\ RunEnded /\ Projected = "infrastructure_invalid" => ending = "checker_error"

\* An ablation is credited with the end of a run if and only if it ended it:
\* the requeue route is applied when a replacement was refused, preempted when
\* a premature merge came first, and the merge-gate route is applied when the
\* premature merge was tried.  Without the requeue no attempt is replaced,
\* whatever failed at the same instant.  Without the gate a replacement is refused only
\* if there was nothing left to merge too early.  And a challenge of an answer
\* that got as far as the disabled parser or verifier leaves its route.
RoutesExplained ==
  RunEnded /\ plan.exp = "exp4" =>
    /\ ~On("requeue") =>
         /\ Replaced = {}
         /\ RouteStatus("requeue") = "applied" <=> ending = "requeue_refused"
         /\ RouteStatus("requeue") = "preempted_by_merge_first" <=> ending = "premature"
    /\ ~On("merge_gate") =>
         /\ RouteStatus("merge_gate") = "applied" <=> ending = "premature"
         /\ ending = "requeue_refused" => MergeReady
    /\ \A e \in Executed :
         RecordOf(e).injected /\ plan.kind \notin Losses =>
           /\ ~On("parser_policy") => RouteStatus("parser_policy") = "applied"
           /\ ~On("verification") /\ Escaped(e) => RouteStatus("verification") = "applied"
    /\ ending \in {"requeue_refused", "premature"} => plan.off \cap {"requeue", "merge_gate"} # {}
    /\ \A r \in Applicable : Numerator[r] <= Denominator[r]
=============================================================================
