--------------------------- MODULE ExperimentRun ---------------------------
(***************************************************************************)
(* One run directory over any number of processes: run_experiment of       *)
(* src/src/tokenshare/experiments/cli.py, the roots it executes or resumes *)
(* (runtime.py), the journal of paid provider calls (provider.py) and the  *)
(* write-once files all of them share (storage.py).                        *)
(*                                                                         *)
(* A process works through the roots in order.  It may die at any step;    *)
(* what it has written stays and the next process, started with --resume,  *)
(* decides from the files alone.  RunLock keeps two processes apart, so    *)
(* here there is one at a time, and no pid is used twice.                  *)
(***************************************************************************)
EXTENDS Naturals, FiniteSetsExt

CONSTANTS
  Roots,       \* 1 .. n, in the order in which they are executed
  Planned,     \* [Roots -> set of numbers]: planned_ai_unit_ids
  Condition,   \* [Roots -> condition_id]
  Downstream,  \* the roots whose coverage tail is required
  Attempts,    \* ordinals of a unit: range(3) in a tail, max_retries + 1 before it
  Answers,     \* what a provider may answer
  MaxFaults,   \* bound: crashes and failed writes
  None

\* How a call can end.  "accepted" and "rejected" tell what the plugin makes of
\* the content; "mismatch" is a wrong model; "config" means nothing was sent.
WithBody == {"accepted", "rejected", "mismatch"}
Outcomes == WithBody \cup {"transport", "config", "unknown"}
ConditionErrors == {"mismatch", "config"}

\* How a protocol can end, and what is then known of a root.
Statuses == {"clean", "condition", "infrastructure"}
Results  == Statuses \cup {"blocked", "dead"}
Protocol(r) == [status : Statuses, targets : SUBSET Planned[r], predispatch : SUBSET Planned[r]]

ASSUME RunAssumption ==
  /\ Roots \subseteq Nat /\ Downstream \subseteq Roots
  /\ \A r \in Roots : Planned[r] \subseteq Nat
  /\ Attempts \in Nat \ {0} /\ MaxFaults \in Nat
  /\ Answers \subseteq WithBody \cup {"transport"}
  /\ None \notin Outcomes \cup Results
  /\ \A ordinals \in SUBSET (0 .. Attempts - 1) : None # ordinals
  /\ \A r \in Roots : \A p \in Protocol(r) : None # p

Calls == {<<r, u, o>> : r \in Roots, u \in UNION {Planned[r] : r \in Roots}, o \in 0 .. Attempts - 1}

VARIABLES
  runFiles,   \* inventories and run.json: "absent", "partial" or "complete"
  started,    \* events.jsonl of a root: "no", "now", or "cut" by the end of a process
  protocol,   \* protocol.json of a root
  traces,     \* coverage-tail traces: the ordinals of a unit's attempts
  result,     \* result.json of a root
  journal,    \* intent, response and terminal file of a call
  sent,       \* how often a call went to the provider
  faults,     \* crashes and failed writes so far
  \* the memory of the process:
  pc, root,   \* where it is, in which root
  entry,      \* the provider entry it was given: "real", or "offline"
  calling,    \* calls in flight: stage, and the answer to come
  failed,     \* the adapter's condition_error is set
  attempts,   \* the ordinals the adapter has for the current tail unit
  blocked     \* blocked_condition_origins

files  == <<runFiles, started, protocol, traces, result, journal, sent>>
memory == <<pc, root, entry, calling, failed, attempts, blocked>>
vars   == <<files, faults, memory>>

Idle == [stage |-> "none", answer |-> None]

Init ==
  /\ runFiles = "absent"
  /\ started = [r \in Roots |-> "no"]
  /\ protocol = [r \in Roots |-> None]
  /\ traces = [r \in Roots |-> [u \in Planned[r] |-> None]]
  /\ result = [r \in Roots |-> None]
  /\ journal = [c \in Calls |-> [intent |-> "none", response |-> None, terminal |-> None]]
  /\ sent = [c \in Calls |-> 0]
  /\ faults = 0
  /\ pc = "down" /\ root = 0 /\ entry = "none" /\ failed = FALSE
  /\ calling = [c \in Calls |-> Idle]
  /\ attempts = {} /\ blocked = {}

-----------------------------------------------------------------------------
\* What a process finds in the files.

\* _started_without_protocol.
Dead(r) == started[r] # "no" /\ protocol[r] = None

\* The tail of a root without condition or infrastructure failure is required.
TailRequired(r) == protocol[r].status = "clean" /\ r \in Downstream

Uncovered(r) == {u \in protocol[r].targets : traces[r][u] = None}

\* _protocol_tail_pending.
TailPending(r) == TailRequired(r) /\ Uncovered(r) # {}

\* A call that some process has begun.
Journaled(c) == journal[c].intent # "none" \/ journal[c].terminal # None

\* _protocol_tail_requires_provider: the frozen request of a target always has
\* ordinal 0, whatever ordinal its tail has come to.
TailRequiresProvider(r) ==
  \E u \in Uncovered(r) \ protocol[r].predispatch : ~Journaled(<<r, u, 0>>)

NeedsProvider(r) ==
  /\ result[r] = None /\ ~Dead(r)
  /\ \/ protocol[r] = None
     \/ TailPending(r) /\ TailRequiresProvider(r)

\* The entry that run_experiment hands to every root: preflighted with its
\* secret, or the stand-in of _journal_resume_entry.
Entry == IF \E r \in Roots : NeedsProvider(r) THEN "real" ELSE "offline"

-----------------------------------------------------------------------------
\* The life of a process.

\* A fresh run writes its inventories first and run.json last.
StartFresh ==
  /\ pc = "down" /\ runFiles = "absent"
  /\ runFiles' = "partial"
  /\ pc' = "fresh" /\ entry' = Entry
  /\ UNCHANGED <<started, protocol, traces, result, journal, sent, faults,
                 root, calling, failed, attempts, blocked>>

WriteRunConfig ==
  /\ pc = "fresh"
  /\ runFiles' = "complete"
  /\ pc' = "root" /\ root' = 1
  /\ UNCHANGED <<started, protocol, traces, result, journal, sent, faults,
                 entry, calling, failed, attempts, blocked>>

\* --resume: run.json must be readable.
Resume ==
  /\ pc = "down" /\ runFiles = "complete"
  /\ \E r \in Roots : result[r] = None
  /\ pc' = "root" /\ root' = 1 /\ entry' = Entry
  /\ UNCHANGED <<files, faults, calling, failed, attempts, blocked>>

\* The process ends: its memory is gone and its pid is dead.
End ==
  /\ pc' = "down" /\ root' = 0 /\ entry' = "none" /\ failed' = FALSE
  /\ calling' = [c \in Calls |-> Idle]
  /\ attempts' = {} /\ blocked' = {}
  /\ started' = [r \in Roots |->
       IF started[r] = "now" /\ protocol[r] = None THEN "cut" ELSE started[r]]

Crash ==
  /\ pc # "down" /\ faults < MaxFaults
  /\ faults' = faults + 1
  /\ End
  /\ UNCHANGED <<runFiles, protocol, traces, result, journal, sent>>

\* The loop over the roots has reached its end.
Finish ==
  /\ pc = "root" /\ root \notin Roots
  /\ End
  /\ UNCHANGED <<runFiles, protocol, traces, result, journal, sent, faults>>

-----------------------------------------------------------------------------
\* One root, up to protocol.json.

SkipCommitted ==
  /\ pc = "root" /\ root \in Roots /\ result[root] # None
  /\ root' = root + 1
  /\ UNCHANGED <<files, faults, pc, entry, calling, failed, attempts, blocked>>

\* Mutant: a root is taken up whatever became of its condition.
FreeUnchecked(r) == r \in Roots /\ result[r] = None

\* A root without result, whose condition has not failed in this process.
Free(r) == r \in Roots /\ result[r] = None /\ Condition[r] \notin blocked

\* _invalid_root_result, for a blocked condition.
CommitBlocked ==
  /\ pc = "root" /\ root \in Roots
  /\ result[root] = None /\ Condition[root] \in blocked
  /\ result' = [result EXCEPT ![root] = "blocked"]
  /\ root' = root + 1
  /\ UNCHANGED <<runFiles, started, protocol, traces, journal, sent, faults,
                 pc, entry, calling, failed, attempts, blocked>>

\* ... and for a root whose protocol was cut off.
CommitDead ==
  /\ pc = "root" /\ Free(root) /\ Dead(root)
  /\ result' = [result EXCEPT ![root] = "dead"]
  /\ root' = root + 1
  /\ UNCHANGED <<runFiles, started, protocol, traces, journal, sent, faults,
                 pc, entry, calling, failed, attempts, blocked>>

\* Mutant: a root without protocol.json is executed, started or not.
ExecuteRootAgain ==
  /\ pc = "root" /\ Free(root) /\ protocol[root] = None
  /\ started' = [started EXCEPT ![root] = IF @ = "no" THEN "now" ELSE @]
  /\ pc' = "protocol" /\ failed' = FALSE
  /\ UNCHANGED <<runFiles, protocol, traces, result, journal, sent, faults,
                 root, entry, calling, attempts, blocked>>

\* execute_root_context: the ledger gets its first events before any call.
ExecuteRoot ==
  /\ pc = "root" /\ Free(root) /\ started[root] = "no"
  /\ started' = [started EXCEPT ![root] = "now"]
  /\ pc' = "protocol" /\ failed' = FALSE
  /\ UNCHANGED <<runFiles, protocol, traces, result, journal, sent, faults,
                 root, entry, calling, attempts, blocked>>

\* resume_root_context goes on from protocol.json.
ResumeRoot ==
  /\ pc = "root" /\ Free(root) /\ protocol[root] # None
  /\ pc' = "snapshot"
  /\ UNCHANGED <<files, faults, root, entry, calling, failed, attempts, blocked>>

InFlight(c) == calling[c].stage \in {"intent", "sent", "stored"}

\* The protocol is over and protocol.json is written: how it ended, which units
\* were never dispatched, and which of those (Lean) could not be requested.
EndProtocol(status, predispatch) ==
  /\ pc = "protocol"
  /\ \A c \in Calls : ~InFlight(c)
  /\ failed <=> status = "condition"
  /\ LET targets == {u \in Planned[root] : journal[<<root, u, 0>>].intent = "none"} IN
     /\ predispatch \subseteq targets
     /\ predispatch # {} => status = "clean" /\ root \in Downstream
     /\ protocol' = [protocol EXCEPT ![root] =
          [status |-> status, targets |-> targets, predispatch |-> predispatch]]
  /\ pc' = "snapshot" /\ calling' = [c \in Calls |-> Idle]
  /\ UNCHANGED <<runFiles, started, traces, result, journal, sent, faults,
                 root, entry, failed, attempts, blocked>>

\* A root can complete although one of its calls met a condition error, when
\* another unit's answer was enough: run_root_slice takes that for impossible and
\* raises, and nobody catches it.
RaiseCompleted ==
  /\ pc = "protocol" /\ failed
  /\ \A c \in Calls : ~InFlight(c)
  /\ \E c \in Calls : c[1] = root /\ journal[c].terminal = "accepted"
  /\ End
  /\ UNCHANGED <<runFiles, protocol, traces, result, journal, sent, faults>>

-----------------------------------------------------------------------------
\* A paid call: call_provider_once below _call_provider_with_resume.

Stage(c, stage, answer) ==
  calling' = [calling EXCEPT ![c] = [stage |-> stage, answer |-> answer]]

\* The protocol tries a unit again only after its earlier attempts failed; after
\* a condition error the adapter refuses every call.
MayCallInProtocol(c) ==
  /\ pc = "protocol" /\ ~failed
  /\ c[1] = root /\ c[2] \in Planned[root]
  /\ \A o \in 0 .. c[3] - 1 : /\ calling[<<c[1], c[2], o>>].stage = "done"
                             /\ journal[<<c[1], c[2], o>>].terminal # "accepted"

TailUnit == Min(Uncovered(root))

\* The call that run_coverage_tail has come to.
TailCall(c) ==
  /\ pc = "tail" /\ Uncovered(root) # {}
  /\ c = <<root, TailUnit, Cardinality(attempts)>>

\* Mutant: an intent without terminal is taken for a call never made.
WriteIntentAgain(c) ==
  /\ MayCallInProtocol(c) \/ TailCall(c)
  /\ calling[c].stage = "none" /\ journal[c].terminal = None
  /\ journal' = [journal EXCEPT ![c].intent = "written"]
  /\ Stage(c, "intent", None)
  /\ UNCHANGED <<runFiles, started, protocol, traces, result, sent, faults,
                 pc, root, entry, failed, attempts, blocked>>

WriteIntent(c) ==
  /\ MayCallInProtocol(c) \/ TailCall(c)
  /\ calling[c].stage = "none" /\ ~Journaled(c)
  /\ journal' = [journal EXCEPT ![c].intent = "written"]
  /\ Stage(c, "intent", None)
  /\ UNCHANGED <<runFiles, started, protocol, traces, result, sent, faults,
                 pc, root, entry, failed, attempts, blocked>>

\* Without its secret, a call ends before it is sent.
Unconfigured(c) ==
  /\ calling[c].stage = "intent" /\ entry = "offline"
  /\ journal' = [journal EXCEPT ![c].terminal = "config"]
  /\ Stage(c, "done", None)
  /\ failed' = TRUE
  /\ UNCHANGED <<runFiles, started, protocol, traces, result, sent, faults,
                 pc, root, entry, attempts, blocked>>

Send(c) ==
  /\ calling[c].stage = "intent" /\ entry = "real"
  /\ sent' = [sent EXCEPT ![c] = @ + 1]
  /\ \E answer \in Answers : Stage(c, "sent", answer)
  /\ UNCHANGED <<runFiles, started, protocol, traces, result, journal, faults,
                 pc, root, entry, failed, attempts, blocked>>

WriteResponse(c) ==
  /\ calling[c].stage = "sent" /\ calling[c].answer \in WithBody
  /\ journal' = [journal EXCEPT ![c].response = calling[c].answer]
  /\ Stage(c, "stored", calling[c].answer)
  /\ UNCHANGED <<runFiles, started, protocol, traces, result, sent, faults,
                 pc, root, entry, failed, attempts, blocked>>

WriteTerminal(c) ==
  /\ \/ calling[c].stage = "sent" /\ calling[c].answer \notin WithBody
     \/ calling[c].stage = "stored"
  /\ journal' = [journal EXCEPT ![c].terminal = calling[c].answer]
  /\ Stage(c, "done", None)
  /\ failed' = (failed \/ calling[c].answer \in ConditionErrors)
  /\ UNCHANGED <<runFiles, started, protocol, traces, result, sent, faults,
                 pc, root, entry, attempts, blocked>>

\* A response that cannot be stored, or a failed write: the call raises.  The
\* protocol takes it for a failed attempt and goes on; a tail takes the process
\* with it, which is a crash.
WriteFails(c) ==
  /\ pc = "protocol" /\ calling[c].stage \in {"sent", "stored"} /\ faults < MaxFaults
  /\ faults' = faults + 1
  /\ Stage(c, "done", None)
  /\ UNCHANGED <<files, pc, root, entry, failed, attempts, blocked>>

\* Mutant: recovery does not look for a stored response.
RecoverUnknown(c) ==
  /\ TailCall(c) /\ calling[c].stage = "none"
  /\ journal[c].intent # "none" /\ journal[c].terminal = None
  /\ journal' = [journal EXCEPT ![c].terminal = "unknown"]
  /\ UNCHANGED <<runFiles, started, protocol, traces, result, sent, faults, memory>>

\* Mutant: only a call whose response was stored is recovered.
RecoverStored(c) ==
  /\ TailCall(c) /\ calling[c].stage = "none"
  /\ journal[c].response # None /\ journal[c].terminal = None
  /\ journal' = [journal EXCEPT ![c].terminal = journal[c].response]
  /\ UNCHANGED <<runFiles, started, protocol, traces, result, sent, faults, memory>>

\* recover_interrupted_call: nothing is sent.
Recover(c) ==
  /\ TailCall(c) /\ calling[c].stage = "none"
  /\ journal[c].intent # "none" /\ journal[c].terminal = None
  /\ journal' = [journal EXCEPT ![c].terminal =
       IF journal[c].response # None THEN journal[c].response ELSE "unknown"]
  /\ UNCHANGED <<runFiles, started, protocol, traces, result, sent, faults, memory>>

-----------------------------------------------------------------------------
\* One root, from protocol.json to result.json.

\* Traces of units that could not be requested are in the snapshot.
WriteSnapshotTrace(u) ==
  /\ pc = "snapshot" /\ u \in protocol[root].predispatch /\ traces[root][u] = None
  /\ traces' = [traces EXCEPT ![root][u] = {}]
  /\ UNCHANGED <<runFiles, started, protocol, result, journal, sent, faults, memory>>

AfterSnapshot ==
  /\ pc = "snapshot"
  /\ \A u \in protocol[root].predispatch : traces[root][u] # None
  /\ pc' = IF TailRequired(root) THEN "tail" ELSE "commit"
  /\ failed' = FALSE
  /\ UNCHANGED <<files, faults, root, entry, calling, attempts, blocked>>

\* Mutant: a trace holds its last attempt only.
ConsumeFresh(c) ==
  LET outcome == journal[c].terminal IN
  /\ TailCall(c) /\ ~InFlight(c)
  /\ outcome \notin ConditionErrors \cup {None}
  /\ IF outcome = "accepted" \/ c[3] + 1 = Attempts
     THEN traces' = [traces EXCEPT ![root][c[2]] = {c[3]}] /\ attempts' = {}
     ELSE attempts' = attempts \cup {c[3]} /\ UNCHANGED traces
  /\ calling' = [calling EXCEPT ![c] = Idle]
  /\ UNCHANGED <<runFiles, started, protocol, result, journal, sent, faults,
                 pc, root, entry, failed, blocked>>

\* The outcome of a call, just made, recovered or read again: the first accepted
\* one, or the last ordinal, closes the unit with a trace of all its attempts.
Consume(c) ==
  LET outcome == journal[c].terminal IN
  /\ TailCall(c) /\ ~InFlight(c)
  /\ outcome \notin ConditionErrors \cup {None}
  /\ IF outcome = "accepted" \/ c[3] + 1 = Attempts
     THEN /\ traces' = [traces EXCEPT ![root][c[2]] = attempts \cup {c[3]}]
          /\ attempts' = {}
     ELSE /\ attempts' = attempts \cup {c[3]}
          /\ UNCHANGED traces
  /\ calling' = [calling EXCEPT ![c] = Idle]
  /\ UNCHANGED <<runFiles, started, protocol, result, journal, sent, faults,
                 pc, root, entry, failed, blocked>>

\* ProviderConditionError leaves run_coverage_tail, and nobody catches it.
Raise(c) ==
  /\ TailCall(c) /\ ~InFlight(c)
  /\ journal[c].terminal \in ConditionErrors
  /\ End
  /\ UNCHANGED <<runFiles, protocol, traces, result, journal, sent, faults>>

EndTail ==
  /\ pc = "tail" /\ Uncovered(root) = {}
  /\ pc' = "commit"
  /\ UNCHANGED <<files, faults, root, entry, calling, failed, attempts, blocked>>

\* _commit_result; a condition failure blocks the later roots of the condition.
Commit ==
  /\ pc = "commit"
  /\ result' = [result EXCEPT ![root] = protocol[root].status]
  /\ blocked' = IF protocol[root].status = "condition"
                THEN blocked \cup {Condition[root]} ELSE blocked
  /\ pc' = "root" /\ root' = root + 1
  /\ UNCHANGED <<runFiles, started, protocol, traces, journal, sent, faults,
                 entry, calling, failed, attempts>>

-----------------------------------------------------------------------------

NextRoot == SkipCommitted \/ CommitBlocked \/ CommitDead \/ ExecuteRoot \/ ResumeRoot \/ Finish

Call(c) == \/ WriteIntent(c) \/ Unconfigured(c) \/ Send(c)
           \/ WriteResponse(c) \/ WriteTerminal(c) \/ Recover(c)

Close == \/ \E s \in Statuses :
              \E p \in SUBSET Planned[root] : EndProtocol(s, p)
         \/ \E u \in Planned[root] : WriteSnapshotTrace(u)
         \/ RaiseCompleted \/ AfterSnapshot \/ EndTail \/ Commit

Step == \/ StartFresh \/ WriteRunConfig \/ Resume
        \/ NextRoot
        \/ root \in Roots /\ Close
        \/ \E c \in Calls : Call(c) \/ Consume(c) \/ Raise(c)

Next == Step \/ Crash \/ \E c \in Calls : WriteFails(c)

\* A process that runs goes on, a provider call ends by its timeout, and a run
\* that ended without all its results is resumed.
Spec == Init /\ [][Next]_vars /\ WF_vars(Step)

-----------------------------------------------------------------------------

\* A process is at work in one of the run's roots.
InRoot == pc \in {"protocol", "snapshot", "tail", "commit"}

RootsTyped ==
  /\ runFiles \in {"absent", "partial", "complete"}
  /\ started \in [Roots -> {"no", "now", "cut"}]
  /\ DOMAIN protocol = Roots
  /\ \A r \in Roots : protocol[r] # None =>
       protocol[r] \in Protocol(r) /\ protocol[r].predispatch \subseteq protocol[r].targets
  /\ DOMAIN traces = Roots
  /\ \A r \in Roots : traces[r] \in [Planned[r] -> {None} \cup SUBSET (0 .. Attempts - 1)]
  /\ result \in [Roots -> Results \cup {None}]

CallsTyped ==
  /\ journal \in [Calls -> [intent : {"none", "written"}, response : WithBody \cup {None},
                            terminal : Outcomes \cup {None}]]
  /\ sent \in [Calls -> Nat]
  /\ calling \in [Calls -> [stage : {"none", "intent", "sent", "stored", "done"},
                            answer : Answers \cup {None}]]

\* The state is well typed; a process in a root is in one of the run's roots.
TypeOK ==
  /\ RootsTyped /\ CallsTyped
  /\ pc \in {"down", "fresh", "root", "protocol", "snapshot", "tail", "commit"}
  /\ root \in Nat /\ (InRoot => root \in Roots)
  /\ entry \in {"none", "real", "offline"} /\ failed \in BOOLEAN
  /\ attempts \subseteq 0 .. Attempts - 1 /\ faults \in 0 .. MaxFaults

\* A call goes to the provider at most once, however many processes come to it,
\* and only after its intent is on disk (provider.py:202).
SentOnce ==
  \A c \in Calls : sent[c] <= 1 /\ (sent[c] = 1 => journal[c].intent # "none")

\* An answer that was stored is what the call's terminal says, also when another
\* process writes it: a paid response is never reported as unknown.
StoredIsReported ==
  \A c \in Calls :
    journal[c].response # None /\ journal[c].terminal # None =>
      journal[c].terminal = journal[c].response

\* The journal of calls, the provider's view of them and the files agree across
\* every process that dies between two writes (provider.py:227).
JournalKept == TypeOK /\ SentOnce /\ StoredIsReported

\* A protocol that a process left unfinished is never taken up by another one.
CutStaysCut == \A r \in Roots : started[r] = "cut" => protocol[r] = None

\* In a committed root with a tail, every unit the protocol did not dispatch has
\* a trace, and the trace holds exactly the calls made for it in all processes.
TailAccounted ==
  \A r \in Roots :
    result[r] = "clean" /\ r \in Downstream =>
      \A u \in protocol[r].targets :
        traces[r][u] = {o \in 0 .. Attempts - 1 : Journaled(<<r, u, o>>)}

\* Within a process, a condition failure is the end of paid calls for its
\* condition (execution.py:39); a resumed process has forgotten it.
FailStop ==
  [][\A c \in Calls : sent'[c] # sent[c] => Condition[c[1]] \notin blocked]_vars

\* What a process was cut off in, and what it has seen fail, is not tried again
\* (cli.py:1424, :1441).
FailuresStand == []CutStaysCut /\ FailStop

\* Every root gets its result if the run is resumed often enough (cli.py:1197):
\* the stand-in entry without secret, which is for journals only (cli.py:809),
\* and a condition error in a tail are not the end of all progress.
Completes == runFiles = "complete" ~> \A r \in Roots : result[r] # None

\* A condition error in a tail, which every later process meets again.
Wedged(r) ==
  /\ protocol[r] # None /\ protocol[r].status = "clean" /\ r \in Downstream
  /\ \E u \in protocol[r].targets, o \in 0 .. Attempts - 1 :
       journal[<<r, u, o>>].terminal \in ConditionErrors

\* ... and nothing else keeps a run from its end.
CompletesOrWedged ==
  runFiles = "complete" ~> (\A r \in Roots : result[r] # None) \/ \E r \in Roots : Wedged(r)
=============================================================================
