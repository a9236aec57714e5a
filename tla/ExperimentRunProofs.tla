------------------------ MODULE ExperimentRunProofs -------------------------
(***************************************************************************)
(* The run directory for any roots, units, conditions, number of attempts  *)
(* and faults, over any number of processes: no call is sent twice and no  *)
(* stored answer is lost, what was cut off or has failed is not tried      *)
(* again, and a tail accounts for every call.                              *)
(***************************************************************************)
EXTENDS ExperimentRun, FiniteSetTheorems, WellFoundedInduction, TLAPS

\* Where a process is in its root.
Placed ==
  /\ InRoot => result[root] = None /\ Condition[root] \notin blocked
  /\ pc = "protocol" => started[root] = "now" /\ protocol[root] = None
  /\ pc \in {"snapshot", "tail", "commit"} => protocol[root] # None

\* A protocol is written by the process that started it.
Begun == \A r \in Roots : started[r] # "now" => protocol[r] = None

\* Nothing is known of a call without an intent.
Intended(c) ==
  journal[c].intent = "none" =>
    sent[c] = 0 /\ journal[c].response = None /\ journal[c].terminal = None

\* A call in flight is one of this root's, and has written what its stage says.
InHand(c) ==
  /\ calling[c].stage # "none" =>
       /\ c[1] = root /\ pc \in {"protocol", "tail"}
       /\ journal[c].intent = "written"
  /\ calling[c].stage # "none" /\ pc = "tail" => TailCall(c)
  /\ InFlight(c) => journal[c].terminal = None
  /\ calling[c].stage \in {"intent", "sent"} => journal[c].response = None
  /\ calling[c].stage = "intent" => sent[c] = 0
  /\ calling[c].stage \in {"sent", "stored"} => calling[c].answer \in Answers
  /\ calling[c].stage = "stored" => journal[c].response = calling[c].answer

\* It was sent once, and its terminal says what was stored.
Reported(c) ==
  /\ sent[c] <= 1
  /\ journal[c].response # None /\ journal[c].terminal # None =>
       journal[c].terminal = journal[c].response

CallKept(c) == Intended(c) /\ InHand(c) /\ Reported(c)

JournalInv == TypeOK /\ Placed /\ Begun /\ \A c \in Calls : CallKept(c)

\* What a tail goes on from: an answer that is neither good nor final.
Spent(c) == journal[c].terminal \notin {None, "accepted"} \cup ConditionErrors

Ordinals == 0 .. Attempts - 1

\* The ordinals of a unit that some process has begun.
Made(r, u) == {o \in Ordinals : Journaled(<<r, u, o>>)}

\* Before protocol.json a unit's calls begin with ordinal 0, and nothing is traced.
Unprotocolled(r) ==
  /\ \A u \in Planned[r] : traces[r][u] = None
  /\ \A u \in Planned[r], o \in Ordinals : Journaled(<<r, u, o>>) => Journaled(<<r, u, 0>>)

\* After it a target's calls are made one after the other, each because the one
\* before it was spent, and a trace holds them all.
Protocolled(r) ==
  \A u \in protocol[r].targets :
    /\ \A o \in Ordinals : Journaled(<<r, u, o>>) => \A p \in 0 .. o - 1 : Spent(<<r, u, p>>)
    /\ traces[r][u] # None => traces[r][u] = Made(r, u)
    /\ u \in protocol[r].predispatch => Made(r, u) = {}

\* How far a process is with the unit of its tail.
Consumed ==
  /\ pc # "tail" => attempts = {}
  /\ pc = "tail" =>
       /\ TailRequired(root)
       /\ \A u \in protocol[root].predispatch : traces[root][u] # None
       /\ Uncovered(root) = {} => attempts = {}
       /\ attempts = 0 .. Cardinality(attempts) - 1
       /\ \A o \in attempts : Spent(<<root, TailUnit, o>>)

\* A root is committed when its tail is covered.
Covered ==
  /\ pc = "commit" /\ TailRequired(root) => Uncovered(root) = {}
  /\ \A r \in Roots : result[r] = "clean" =>
       /\ protocol[r] # None /\ protocol[r].status = "clean"
       /\ r \in Downstream => Uncovered(r) = {}

RootsAccounted ==
  \A r \in Roots : /\ protocol[r] = None => Unprotocolled(r)
                   /\ protocol[r] # None => Protocolled(r)

TailInv == RootsAccounted /\ Consumed /\ Covered
-----------------------------------------------------------------------------

USE RunAssumption

\* A call is of a root, a unit and an ordinal.
LEMMA CallFacts ==
  ASSUME NEW c \in Calls
  PROVE  /\ c = <<c[1], c[2], c[3]>> /\ c[1] \in Roots /\ c[3] \in Ordinals
         /\ c[3] \in Nat /\ c[3] < Attempts
BY DEF Calls, Ordinals

\* Nothing is begun.
LEMMA InitJournal == Init => JournalInv
<1> SUFFICES ASSUME Init PROVE JournalInv
  OBVIOUS
<1>1. RootsTyped
  BY DEF Init, RootsTyped, Results
<1>2. CallsTyped
  BY DEF Init, CallsTyped, Idle
<1>3. /\ root \in Nat /\ (InRoot => root \in Roots)
      /\ entry \in {"none", "real", "offline"} /\ attempts \subseteq 0 .. Attempts - 1
      /\ pc \in {"down", "fresh", "root", "protocol", "snapshot", "tail", "commit"}
      /\ faults \in 0 .. MaxFaults
  BY DEF Init, InRoot
<1>4. failed \in BOOLEAN
  BY DEF Init
<1>5. TypeOK
  BY <1>1, <1>2, <1>3, <1>4 DEF TypeOK
<1>6. Placed /\ Begun
  BY DEF Init, Placed, Begun, InRoot
<1>7. \A c \in Calls : CallKept(c)
  BY DEF Init, CallKept, Intended, InHand, Reported, Idle, InFlight
<1> QED BY <1>5, <1>6, <1>7 DEF JournalInv

\* The files of calls are left alone.
JournalLeft == UNCHANGED <<journal, sent>>

\* The end of a process, whatever ended it.
LEMMA EndJournal ==
  ASSUME JournalInv, End, JournalLeft, UNCHANGED <<runFiles, protocol, traces, result>>,
         faults' \in 0 .. MaxFaults
  PROVE  JournalInv'
<1> USE DEF JournalInv, JournalLeft
<1>1. TypeOK'
  BY DEF TypeOK, RootsTyped, CallsTyped, End, Idle, InRoot
<1>2. Placed' /\ Begun'
  BY DEF TypeOK, RootsTyped, Placed, Begun, End, InRoot
<1>3. \A c \in Calls : CallKept(c)'
  BY DEF CallKept, Intended, InHand, Reported, End, Idle, InFlight
<1> QED BY <1>1, <1>2, <1>3

\* A step between roots, and the first one into a root.
LEMMA BetweenJournal ==
  ASSUME JournalInv,
         StartFresh \/ WriteRunConfig \/ Resume \/ SkipCommitted \/ CommitBlocked \/ CommitDead
           \/ ExecuteRoot \/ ResumeRoot
  PROVE  JournalInv'
<1> USE DEF JournalInv
<1>1. JournalLeft /\ calling' = calling /\ protocol' = protocol /\ traces' = traces
      /\ pc \notin {"protocol", "tail"} /\ pc' \notin {"tail"}
  BY DEF JournalLeft, StartFresh, WriteRunConfig, Resume, SkipCommitted, CommitBlocked, CommitDead,
         ExecuteRoot, ResumeRoot, files, memory
<1>2. TypeOK'
  <2>1. Entry \in {"real", "offline"}
    BY DEF Entry
  <2>2. RootsTyped'
    BY <1>1 DEF TypeOK, RootsTyped, StartFresh, WriteRunConfig, Resume, SkipCommitted, CommitBlocked,
       CommitDead, ExecuteRoot, ResumeRoot, Free, Results, files, memory
  <2>3. CallsTyped'
    BY <1>1 DEF TypeOK, CallsTyped, JournalLeft
  <2>4. root' \in Nat /\ (InRoot' => root' \in Roots)
    BY DEF TypeOK, InRoot, StartFresh, WriteRunConfig, Resume, SkipCommitted, CommitBlocked,
       CommitDead, ExecuteRoot, ResumeRoot, Free, files, memory
  <2>5. /\ pc' \in {"fresh", "root", "protocol", "snapshot"}
        /\ attempts' = attempts /\ faults' = faults
        /\ entry' \in {entry, Entry} /\ failed' \in {failed, FALSE}
    BY DEF TypeOK, InRoot, StartFresh, WriteRunConfig, Resume, SkipCommitted, CommitBlocked,
       CommitDead, ExecuteRoot, ResumeRoot, files, memory
  <2> QED BY <2>1, <2>2, <2>3, <2>4, <2>5 DEF TypeOK
<1>3. Placed'
  BY DEF TypeOK, RootsTyped, CallsTyped, Placed, Begun, InRoot, Free, StartFresh, WriteRunConfig, Resume, SkipCommitted,
     CommitBlocked, CommitDead, ExecuteRoot, ResumeRoot, files, memory
<1>4. Begun'
  BY DEF TypeOK, RootsTyped, CallsTyped, Begun, StartFresh, WriteRunConfig, Resume, SkipCommitted,
     CommitBlocked, CommitDead, ExecuteRoot, ResumeRoot, files, memory
<1>5. \A c \in Calls : CallKept(c)'
  BY <1>1 DEF JournalLeft, CallKept, Intended, InHand, InFlight, Reported
<1> QED BY <1>2, <1>3, <1>4, <1>5

\* The steps of a root other than its calls.
LEMMA CloseJournal ==
  ASSUME JournalInv, root \in Roots, Close
  PROVE  JournalInv'
<1> USE DEF JournalInv
<1>1. CASE RaiseCompleted
  BY <1>1, EndJournal DEF RaiseCompleted, JournalLeft, TypeOK
<1>2. ASSUME NEW s \in Statuses, NEW p \in SUBSET Planned[root], EndProtocol(s, p) PROVE JournalInv'
  <2> DEFINE targets == {u \in Planned[root] : journal[<<root, u, 0>>].intent = "none"}
  <2>1. /\ pc = "protocol" /\ pc' = "snapshot" /\ root' = root /\ p \subseteq targets
        /\ protocol' = [protocol EXCEPT ![root] =
             [status |-> s, targets |-> targets, predispatch |-> p]]
        /\ calling' = [c \in Calls |-> Idle]
        /\ UNCHANGED <<runFiles, started, traces, result, journal, sent, faults,
                       root, entry, failed, attempts, blocked>>
    BY <1>2 DEF EndProtocol
  <2>2. protocol'[root] \in Protocol(root) /\ protocol'[root] # None
        /\ \A r \in Roots \ {root} : protocol'[r] = protocol[r]
    BY <2>1 DEF Protocol, TypeOK, RootsTyped, CallsTyped
  <2>3. TypeOK'
    BY <2>1, <2>2 DEF TypeOK, RootsTyped, CallsTyped, InRoot, Idle
  <2>4. Placed' /\ Begun'
    BY <2>1, <2>2 DEF TypeOK, RootsTyped, Placed, Begun, InRoot
  <2>5. \A c \in Calls : CallKept(c)'
    BY <2>1 DEF CallKept, Intended, InHand, Idle, InFlight, Reported
  <2> QED BY <2>3, <2>4, <2>5
<1>3. ASSUME NEW u \in Planned[root], WriteSnapshotTrace(u) PROVE JournalInv'
  <2>1. TypeOK'
    BY <1>3 DEF WriteSnapshotTrace, TypeOK, RootsTyped, CallsTyped, InRoot, memory
  <2>2. Placed' /\ Begun'
    BY <1>3 DEF WriteSnapshotTrace, memory, Placed, Begun, InRoot
  <2>3. \A c \in Calls : CallKept(c)'
    BY <1>3 DEF WriteSnapshotTrace, memory, CallKept, Intended, InHand, InFlight, Reported
  <2> QED BY <2>1, <2>2, <2>3
<1>4. CASE AfterSnapshot \/ EndTail
  <2>1. TypeOK'
    BY <1>4 DEF AfterSnapshot, EndTail, TypeOK, RootsTyped, CallsTyped, InRoot, files
  <2>2. Placed' /\ Begun'
    BY <1>4 DEF AfterSnapshot, EndTail, files, Placed, Begun, InRoot
  <2>3. \A c \in Calls : CallKept(c)'
    BY <1>4 DEF AfterSnapshot, EndTail, files, CallKept, Intended, InHand, InFlight, Reported, TailCall
  <2> QED BY <2>1, <2>2, <2>3
<1>5. CASE Commit
  <2>1. protocol[root].status \in Statuses
    BY <1>5 DEF Commit, TypeOK, RootsTyped, CallsTyped, Placed, Protocol
  <2>2. TypeOK'
    BY <1>5, <2>1 DEF Commit, TypeOK, RootsTyped, CallsTyped, InRoot, Results
  <2>3. Placed' /\ Begun'
    BY <1>5 DEF Commit, Placed, Begun, InRoot
  <2>4. \A c \in Calls : CallKept(c)'
    BY <1>5 DEF Commit, CallKept, Intended, InHand, InFlight, Reported
  <2> QED BY <2>2, <2>3, <2>4
<1> QED BY <1>1, <1>2, <1>3, <1>4, <1>5 DEF Close

\* A call in its stages leaves the rest alone.
LEMMA CallTypes ==
  ASSUME JournalInv, NEW c \in Calls,
         Call(c) \/ WriteFails(c)
  PROVE  TypeOK'
<1> USE DEF JournalInv, TypeOK, Stage
<1>1. /\ UNCHANGED <<runFiles, started, protocol, traces, result, pc, root, entry, attempts, blocked>>
      /\ failed' \in BOOLEAN /\ faults' \in 0 .. MaxFaults
  <2>1. CASE Call(c)
    BY <2>1 DEF Call, WriteIntent, Unconfigured, Send, WriteResponse, WriteTerminal, Recover, memory
  <2>2. CASE WriteFails(c)
    BY <2>2 DEF WriteFails, files
  <2> QED BY <2>1, <2>2
<1>2. RootsTyped'
  BY <1>1 DEF RootsTyped
<1>3. CallsTyped'
  <2>1. CASE WriteIntent(c)
    <3>1. journal' = [journal EXCEPT ![c].intent = "written"] /\ sent' = sent
          /\ calling' = [calling EXCEPT ![c] = [stage |-> "intent", answer |-> None]]
      BY <2>1 DEF WriteIntent
    <3>2. [journal[c] EXCEPT !.intent = "written"] \in
            [intent : {"none", "written"}, response : WithBody \cup {None}, terminal : Outcomes \cup {None}]
      BY DEF CallsTyped
    <3>3. CallsTyped
      OBVIOUS
    <3> HIDE DEF JournalInv
    <3> QED BY <3>1, <3>2, <3>3 DEF CallsTyped
  <2>2. CASE Unconfigured(c)
    <3>1. "config" \in Outcomes
      BY DEF Outcomes
    <3>2. journal' = [journal EXCEPT ![c].terminal = "config"] /\ sent' = sent
          /\ calling' = [calling EXCEPT ![c] = [stage |-> "done", answer |-> None]]
      BY <2>2 DEF Unconfigured
    <3> QED BY <3>1, <3>2 DEF CallsTyped
  <2>6. CASE WriteFails(c)
    <3>1. UNCHANGED <<journal, sent>> /\ calling' = [calling EXCEPT ![c] = [stage |-> "done", answer |-> None]]
      BY <2>6 DEF WriteFails, files
    <3> QED BY <3>1 DEF CallsTyped
  <2>7. CASE Recover(c)
    <3>1. \E t \in Outcomes : journal' = [journal EXCEPT ![c].terminal = t]
      BY <2>7 DEF CallsTyped, Recover, Outcomes
    <3> QED BY <2>7, <3>1 DEF CallsTyped, Recover, memory
  <2>3. CASE Send(c)
    BY <2>3 DEF CallsTyped, Send
  <2>4. CASE WriteResponse(c)
    BY <2>4 DEF CallsTyped, WriteResponse
  <2>5. CASE WriteTerminal(c)
    <3>1. calling[c].answer \in Outcomes
      BY <2>5 DEF CallsTyped, WriteTerminal, CallKept, InHand, Outcomes
    <3> QED BY <2>5, <3>1 DEF CallsTyped, WriteTerminal
  <2> QED BY <2>1, <2>3, <2>4, <2>5, <2>2, <2>6, <2>7 DEF Call
<1> QED BY <1>1, <1>2, <1>3 DEF InRoot

\* The stages of a call, each of which writes what the next one finds.
LEMMA CallJournal ==
  ASSUME JournalInv, NEW c \in Calls,
         Call(c) \/ WriteFails(c)
  PROVE  JournalInv'
<1> USE DEF JournalInv, TypeOK, CallsTyped, Stage
<1>1. TypeOK'
  BY CallTypes
<1>2. UNCHANGED <<runFiles, started, protocol, traces, result, pc, root, entry, attempts, blocked>>
  BY DEF Call, WriteIntent, Unconfigured, Send, WriteResponse, WriteTerminal, Recover, WriteFails,
     files, memory
<1>3. Placed' /\ Begun'
  BY <1>2 DEF Placed, Begun, InRoot
<1>4. \A d \in Calls \ {c} : journal'[d] = journal[d] /\ calling'[d] = calling[d] /\ sent'[d] = sent[d]
  BY DEF Call, WriteIntent, Unconfigured, Send, WriteResponse, WriteTerminal, Recover, WriteFails,
     files, memory
<1>5. \A d \in Calls : TailCall(d)' <=> TailCall(d)
  BY <1>2 DEF TailCall, TailUnit, Uncovered
<1>6. \A d \in Calls \ {c} : CallKept(d)'
  BY <1>2, <1>4, <1>5 DEF CallKept, Intended, InHand, InFlight, Reported
<1>7. CallKept(c)
  OBVIOUS
<1>8. ASSUME WriteIntent(c) PROVE CallKept(c)'
  <2>1. /\ ~Journaled(c) /\ calling[c].stage = "none" /\ sent' = sent
        /\ journal'[c] = [journal[c] EXCEPT !.intent = "written"]
        /\ calling'[c] = [stage |-> "intent", answer |-> None]
    BY <1>8 DEF WriteIntent
  <2>2. c[1] = root /\ pc \in {"protocol", "tail"} /\ (pc = "tail" => TailCall(c))
    BY <1>8 DEF WriteIntent, MayCallInProtocol, TailCall
  <2>3. journal[c].intent = "none" /\ sent[c] = 0 /\ journal[c].response = None /\ journal[c].terminal = None
    BY <2>1 DEF Journaled, CallKept, Intended
  <2> QED BY <1>2, <1>5, <2>1, <2>2, <2>3 DEF CallKept, Intended, InHand, InFlight, Reported
<1>9. ASSUME Unconfigured(c) PROVE CallKept(c)'
  <2>1. /\ calling[c].stage = "intent" /\ sent' = sent
        /\ journal'[c] = [journal[c] EXCEPT !.terminal = "config"]
        /\ calling'[c] = [stage |-> "done", answer |-> None]
    BY <1>9 DEF Unconfigured
  <2> QED BY <1>2, <1>5, <2>1 DEF CallKept, Intended, InHand, InFlight, Reported
<1>10. ASSUME Send(c) PROVE CallKept(c)'
  <2>1. /\ calling[c].stage = "intent" /\ sent'[c] = sent[c] + 1 /\ journal' = journal
        /\ \E answer \in Answers : calling'[c] = [stage |-> "sent", answer |-> answer]
    BY <1>10 DEF Send
  <2> QED BY <1>2, <1>5, <2>1 DEF CallKept, Intended, InHand, InFlight, Reported
<1>11. ASSUME WriteResponse(c) PROVE CallKept(c)'
  <2>1. /\ calling[c].stage = "sent" /\ sent' = sent
        /\ journal'[c] = [journal[c] EXCEPT !.response = calling[c].answer]
        /\ calling'[c] = [stage |-> "stored", answer |-> calling[c].answer]
    BY <1>11 DEF WriteResponse
  <2> QED BY <1>2, <1>5, <2>1 DEF CallKept, Intended, InHand, InFlight, Reported
<1>12. ASSUME WriteTerminal(c) PROVE CallKept(c)'
  <2>1. /\ calling[c].stage \in {"sent", "stored"} /\ sent' = sent
        /\ calling[c].stage = "sent" => journal[c].response = None
        /\ calling[c].stage = "stored" => journal[c].response = calling[c].answer
        /\ journal'[c] = [journal[c] EXCEPT !.terminal = calling[c].answer]
        /\ calling'[c] = [stage |-> "done", answer |-> None]
    BY <1>12 DEF WriteTerminal, CallKept, InHand
  <2> QED BY <1>2, <1>5, <2>1 DEF CallKept, Intended, InHand, InFlight, Reported
<1>13. ASSUME Recover(c) PROVE CallKept(c)'
  <2>1. /\ calling' = calling /\ calling[c].stage = "none" /\ sent' = sent
        /\ journal[c].intent # "none"
        /\ \E t \in Outcomes : /\ journal'[c] = [journal[c] EXCEPT !.terminal = t]
                               /\ journal[c].response # None => t = journal[c].response
    BY <1>13 DEF Recover, memory, Outcomes
  <2> QED BY <1>2, <1>5, <2>1 DEF CallKept, Intended, InHand, InFlight, Reported
<1>14. ASSUME WriteFails(c) PROVE CallKept(c)'
  <2>1. /\ calling[c].stage \in {"sent", "stored"} /\ sent' = sent /\ journal' = journal
        /\ calling'[c] = [stage |-> "done", answer |-> None]
    BY <1>14 DEF WriteFails, files
  <2> QED BY <1>2, <1>5, <2>1 DEF CallKept, Intended, InHand, InFlight, Reported
<1>15. CallKept(c)'
  BY <1>8, <1>9, <1>10, <1>11, <1>12, <1>13, <1>14 DEF Call
<1> QED BY <1>1, <1>3, <1>6, <1>15

\* Consuming an outcome touches the tail's traces and frees its call.
LEMMA ConsumeJournal ==
  ASSUME JournalInv, NEW c \in Calls, Consume(c)
  PROVE  JournalInv'
<1> USE DEF JournalInv, TypeOK
<1>1. /\ TailCall(c) /\ pc = "tail" /\ ~InFlight(c)
      /\ calling' = [calling EXCEPT ![c] = Idle]
      /\ attempts' = {} \/ attempts' = attempts \cup {c[3]}
      /\ traces' = traces \/ traces' = [traces EXCEPT ![root][c[2]] = attempts \cup {c[3]}]
      /\ UNCHANGED <<runFiles, started, protocol, result, journal, sent, faults,
                     pc, root, entry, failed, blocked>>
  BY DEF Consume, TailCall
<1>2. \A d \in Calls : (calling[d].stage # "none" => d = c) /\ calling'[d].stage = "none"
  BY <1>1 DEF CallKept, InHand, TailCall, Idle, CallsTyped
<1>3. c[3] \in 0 .. Attempts - 1
  BY CallFacts DEF Ordinals
<1>4. RootsTyped'
  BY <1>1, <1>3 DEF RootsTyped
<1>5. CallsTyped'
  BY <1>1 DEF CallsTyped, Idle
<1>6. TypeOK'
  BY <1>1, <1>3, <1>4, <1>5 DEF InRoot
<1>7. Placed' /\ Begun'
  BY <1>1 DEF Placed, Begun, InRoot
<1>8. \A d \in Calls : CallKept(d)'
  BY <1>1, <1>2 DEF CallKept, Intended, InHand, InFlight, Reported
<1> QED BY <1>6, <1>7, <1>8

\* Every step of every process.
LEMMA NextJournal == JournalInv /\ [Next]_vars => JournalInv'
<1> SUFFICES ASSUME JournalInv, [Next]_vars PROVE JournalInv'
  OBVIOUS
<1>1. CASE StartFresh \/ WriteRunConfig \/ Resume
  BY <1>1, BetweenJournal
<1>2. CASE NextRoot
  <2>1. CASE Finish
    BY <2>1, EndJournal DEF Finish, JournalLeft, JournalInv, TypeOK
  <2> QED BY <1>2, <2>1, BetweenJournal DEF NextRoot
<1>3. CASE root \in Roots /\ Close
  BY <1>3, CloseJournal
<1>4. ASSUME NEW c \in Calls, Call(c) \/ Consume(c) \/ Raise(c) PROVE JournalInv'
  <2>1. CASE Raise(c)
    BY <2>1, EndJournal DEF Raise, JournalLeft, JournalInv, TypeOK
  <2> QED BY <1>4, <2>1, CallJournal, ConsumeJournal
<1>5. CASE Crash
  <2>1. faults' \in 0 .. MaxFaults
    BY <1>5 DEF Crash, JournalInv, TypeOK
  <2> QED BY <1>5, <2>1, EndJournal DEF Crash, JournalLeft
<1>6. ASSUME NEW c \in Calls, WriteFails(c) PROVE JournalInv'
  BY <1>6, CallJournal
<1>7. CASE UNCHANGED vars
  <2>1. UNCHANGED <<runFiles, started, protocol, traces, result, journal, sent, faults, pc, root,
                    entry, calling, failed, attempts, blocked>>
    BY <1>7 DEF vars, files, memory
  <2>2. TypeOK'
    BY <2>1 DEF JournalInv, TypeOK, RootsTyped, CallsTyped, InRoot
  <2>3. Placed' /\ Begun'
    BY <2>1 DEF JournalInv, Placed, Begun, InRoot
  <2>4. \A c \in Calls : CallKept(c)'
    BY <2>1 DEF JournalInv, CallKept, Intended, InHand, InFlight, Reported, TailCall, TailUnit, Uncovered
  <2> QED BY <2>2, <2>3, <2>4 DEF JournalInv
<1> QED BY <1>1, <1>2, <1>3, <1>4, <1>5, <1>6, <1>7 DEF Next, Step

-----------------------------------------------------------------------------

\* The files and a process agree on every call, for any roots and faults.
THEOREM JournalIsKept == Spec => []JournalInv
BY InitJournal, NextJournal, PTL DEF Spec

\* No call is paid twice, none without its intent on disk, and a stored answer
\* is what its call reports, in whichever process.
THEOREM JournalAlwaysKept == Spec => []JournalKept
<1>1. JournalInv => JournalKept
  BY DEF JournalInv, JournalKept, TypeOK, CallsTyped, SentOnce, StoredIsReported, CallKept,
     Intended, Reported
<1> QED BY <1>1, JournalIsKept, PTL

\* A protocol that was cut off is not taken up again, and a process makes no
\* call for a condition that it has seen fail.
THEOREM FailuresAlwaysStand == Spec => FailuresStand
<1>1. JournalInv => CutStaysCut
  BY DEF JournalInv, Begun, CutStaysCut
<1>2. JournalInv /\ [Next]_vars => [\A c \in Calls : sent'[c] # sent[c] => Condition[c[1]] \notin blocked]_vars
  <2> SUFFICES ASSUME JournalInv, Next, NEW c \in Calls, sent'[c] # sent[c]
               PROVE  Condition[c[1]] \notin blocked
    OBVIOUS
  <2>1. PICK d \in Calls : Send(d)
    BY DEF Next, Step, StartFresh, WriteRunConfig, Resume, NextRoot, SkipCommitted, CommitBlocked,
       CommitDead, ExecuteRoot, ResumeRoot, Finish, Close, EndProtocol, WriteSnapshotTrace,
       RaiseCompleted, AfterSnapshot, EndTail, Commit, Call, WriteIntent, Unconfigured,
       WriteResponse, WriteTerminal, Recover, Consume, Raise, Crash, WriteFails, files, memory
  <2>2. d = c /\ calling[c].stage = "intent"
    BY <2>1 DEF Send, JournalInv, TypeOK, CallsTyped
  <2> QED BY <2>2 DEF JournalInv, CallKept, InHand, Placed, InRoot
<1> QED BY <1>1, <1>2, JournalIsKept, PTL DEF Spec, FailuresStand, FailStop

-----------------------------------------------------------------------------
\* The tail of a root: what it has consumed, what it has made, what it has left.

\* A set of naturals has a least one.
LEMMA LeastOf ==
  ASSUME NEW S \in SUBSET Nat, S # {}
  PROVE  Min(S) \in S
<1>1. IsWellFoundedOn(OpToRel(<, Nat), Nat)
  BY NatLessThanWellFounded
<1>2. \E x \in S : \A y \in S : ~(<<y, x>> \in OpToRel(<, Nat))
  BY <1>1, WFMin
<1>3. PICK x \in S : \A y \in S : <<y, x>> \notin OpToRel(<, Nat)
  BY <1>2
<1>4. ASSUME NEW y \in S PROVE x <= y
  <2>1. ~(y < x)
    BY <1>3 DEF OpToRel
  <2> QED BY <2>1
<1> QED BY <1>4 DEF Min

\* The tail's unit is one of its targets, without a trace.
LEMMA TailUnitFacts ==
  ASSUME JournalInv, root \in Roots, protocol[root] # None, Uncovered(root) # {}
  PROVE  /\ TailUnit \in Uncovered(root) /\ TailUnit \in protocol[root].targets
         /\ TailUnit \in Planned[root] /\ traces[root][TailUnit] = None
<1>1. protocol[root].targets \subseteq Planned[root] /\ Planned[root] \subseteq Nat
  BY DEF JournalInv, TypeOK, RootsTyped, Protocol
<1> QED BY <1>1, LeastOf DEF Uncovered, TailUnit

\* A tail's attempts are counted.
LEMMA AttemptsFacts ==
  ASSUME JournalInv
  PROVE  /\ Cardinality(attempts) \in Nat
         /\ Cardinality({}) = 0
         /\ \A n \in Nat : Cardinality(0 .. n) = n + 1
<1>1. IsFiniteSet(0 .. Attempts - 1)
  BY FS_Interval
<1>2. IsFiniteSet(attempts)
  BY <1>1, FS_Subset DEF JournalInv, TypeOK
<1>3. \A n \in Nat : Cardinality(0 .. n) = n + 1
  <2> TAKE n \in Nat
  <2>1. Cardinality(0 .. n) = IF 0 > n THEN 0 ELSE n - 0 + 1
    BY FS_Interval
  <2> QED BY <2>1
<1> QED BY <1>2, <1>3, FS_CardinalityType, FS_EmptySet

\* The calls of a planned unit.
LEMMA UnitCalls ==
  ASSUME NEW r \in Roots, NEW u \in Planned[r], NEW o \in Ordinals
  PROVE  <<r, u, o>> \in Calls
BY DEF Calls, Ordinals

\* Calls that get on leave what is known of roots, if no call is begun.
LEMMA RootsKept ==
  ASSUME JournalInv, RootsAccounted, protocol' = protocol, traces' = traces,
         \A c \in Calls : Journaled(c)' <=> Journaled(c),
         \A c \in Calls : Spent(c) => Spent(c)'
  PROVE  RootsAccounted'
<1> SUFFICES ASSUME NEW r \in Roots
             PROVE  /\ protocol'[r] = None => Unprotocolled(r)'
                    /\ protocol'[r] # None => Protocolled(r)'
  BY DEF RootsAccounted
<1>1. protocol[r] # None => protocol[r].targets \subseteq Planned[r]
  BY DEF JournalInv, TypeOK, RootsTyped, Protocol
<1>2. \A u \in Planned[r], o \in Ordinals : Journaled(<<r, u, o>>)' <=> Journaled(<<r, u, o>>)
  BY UnitCalls
<1>3. ASSUME protocol[r] = None PROVE Unprotocolled(r)'
  BY <1>2, <1>3 DEF RootsAccounted, Unprotocolled, Ordinals
<1>4. ASSUME protocol[r] # None PROVE Protocolled(r)'
  <2> SUFFICES ASSUME NEW u \in protocol[r].targets
               PROVE  /\ \A o \in Ordinals : Journaled(<<r, u, o>>)' =>
                           \A q \in 0 .. o - 1 : Spent(<<r, u, q>>)'
                      /\ traces[r][u] # None => traces[r][u] = Made(r, u)'
                      /\ u \in protocol[r].predispatch => Made(r, u)' = {}
    BY DEF Protocolled
  <2>1. u \in Planned[r] /\ Protocolled(r)
    BY <1>1, <1>4 DEF RootsAccounted
  <2>2. Made(r, u)' = Made(r, u)
    BY <1>2, <2>1 DEF Made, Ordinals
  <2>3. \A o \in Ordinals, q \in Nat : q < o => q \in Ordinals /\ <<r, u, q>> \in Calls
    <3> SUFFICES ASSUME NEW o \in Ordinals, NEW q \in Nat, q < o
                 PROVE  q \in Ordinals /\ <<r, u, q>> \in Calls
      OBVIOUS
    <3>1. q \in Ordinals
      BY DEF Ordinals
    <3> QED BY <2>1, <3>1, UnitCalls
  <2> QED BY <1>2, <2>1, <2>2, <2>3 DEF Protocolled, Ordinals
<1> QED BY <1>3, <1>4

\* ... and leave a tail where it is.
LEMMA ConsumedKept ==
  ASSUME JournalInv, Consumed, UNCHANGED <<pc, root, protocol, traces, attempts>>,
         \A c \in Calls : Spent(c) => Spent(c)'
  PROVE  Consumed'
<1>1. TailRequired(root)' = TailRequired(root) /\ Uncovered(root)' = Uncovered(root) /\ TailUnit' = TailUnit
  BY DEF TailRequired, Uncovered, TailUnit
<1>2. ASSUME pc = "tail", NEW o \in attempts, Spent(<<root, TailUnit, o>>)
      PROVE  Spent(<<root, TailUnit, o>>)'
  <2>1. root \in Roots /\ protocol[root] # None /\ o \in Ordinals
    BY <1>2 DEF JournalInv, TypeOK, InRoot, Placed, Ordinals
  <2>2. Uncovered(root) # {}
    BY <1>2 DEF Consumed
  <2>3. <<root, TailUnit, o>> \in Calls
    BY <2>1, <2>2, TailUnitFacts, UnitCalls
  <2> QED BY <1>1, <1>2, <2>3
<1> QED BY <1>1, <1>2 DEF Consumed

\* ... and what is committed as it is.
LEMMA CoveredKept ==
  ASSUME Covered, UNCHANGED <<pc, root, protocol, traces, result>>
  PROVE  Covered'
BY DEF Covered, TailRequired, Uncovered

\* A call is begun: in a protocol after the earlier ordinals of its unit, in a
\* tail after they were spent.
LEMMA BeginTail ==
  ASSUME JournalInv, TailInv, NEW c \in Calls, WriteIntent(c)
  PROVE  TailInv'
<1>1. /\ journal' = [journal EXCEPT ![c].intent = "written"]
      /\ MayCallInProtocol(c) \/ TailCall(c)
      /\ UNCHANGED <<started, protocol, traces, result, pc, root, attempts>>
  BY DEF WriteIntent
<1>2. /\ \A d \in Calls \ {c} : journal'[d] = journal[d]
      /\ journal'[c].terminal = journal[c].terminal /\ journal'[c].intent = "written"
  BY <1>1 DEF JournalInv, TypeOK, CallsTyped
<1>3. /\ \A d \in Calls : Spent(d) => Spent(d)'
      /\ \A d \in Calls \ {c} : Journaled(d)' <=> Journaled(d)
      /\ Journaled(c)'
  BY <1>2 DEF Spent, Journaled
<1>4. Consumed' /\ Covered'
  BY <1>1, <1>3, ConsumedKept, CoveredKept DEF TailInv
<1>5. c = <<root, c[2], c[3]>> /\ c[3] \in Ordinals /\ root \in Roots
  BY <1>1, CallFacts DEF MayCallInProtocol, TailCall
<1>6. ASSUME NEW r \in Roots, NEW u \in Planned[r], NEW o \in Ordinals, r # root \/ u # c[2] \/ o # c[3]
      PROVE  Journaled(<<r, u, o>>)' <=> Journaled(<<r, u, o>>)
  <2>1. <<r, u, o>> \in Calls \ {c}
    BY <1>5, <1>6, UnitCalls
  <2> QED BY <2>1, <1>3
<1>7. \A r \in Roots : protocol[r] # None => protocol[r].targets \subseteq Planned[r]
  BY DEF JournalInv, TypeOK, RootsTyped, Protocol
<1>8. ASSUME NEW r \in Roots, protocol[r] = None PROVE Unprotocolled(r)'
  <2>1. Unprotocolled(r) /\ 0 \in Ordinals
    BY <1>8 DEF TailInv, RootsAccounted, Ordinals
  <2>2. ASSUME NEW u \in Planned[r], NEW o \in Ordinals, Journaled(<<r, u, o>>)'
        PROVE  Journaled(<<r, u, 0>>)'
    <3>1. CASE r # root \/ u # c[2] \/ o # c[3]
      <4>1. Journaled(<<r, u, 0>>)
        BY <1>6, <2>1, <2>2, <3>1 DEF Unprotocolled
      <4> QED BY <4>1, <2>1, <1>3, UnitCalls
    <3>2. CASE r = root /\ u = c[2] /\ o = c[3]
      <4>1. MayCallInProtocol(c)
        BY <1>1, <1>8, <3>2 DEF TailCall, JournalInv, Placed
      <4>2. CASE o = 0
        BY <2>2, <4>2
      <4>3. CASE o # 0
        <5>1. calling[<<root, c[2], 0>>].stage = "done" /\ <<root, c[2], 0>> \in Calls
          BY <4>1, <4>3, <3>2, <1>5, <2>1, UnitCalls DEF MayCallInProtocol, Ordinals
        <5>2. Journaled(<<root, c[2], 0>>)
          BY <5>1 DEF JournalInv, CallKept, InHand, Journaled
        <5> QED BY <5>1, <5>2, <3>2, <1>3
      <4> QED BY <4>2, <4>3
    <3> QED BY <3>1, <3>2
  <2>3. \A u \in Planned[r] : traces'[r][u] = None
    BY <1>1, <2>1 DEF Unprotocolled
  <2> QED BY <2>2, <2>3 DEF Unprotocolled, Ordinals
<1>9. ASSUME NEW r \in Roots, protocol[r] # None PROVE Protocolled(r)'
  <2> SUFFICES ASSUME NEW u \in protocol[r].targets
               PROVE  /\ \A o \in Ordinals : Journaled(<<r, u, o>>)' =>
                           \A q \in 0 .. o - 1 : Spent(<<r, u, q>>)'
                      /\ traces[r][u] # None => traces[r][u] = Made(r, u)'
                      /\ u \in protocol[r].predispatch => Made(r, u)' = {}
    BY <1>1 DEF Protocolled
  <2>1. u \in Planned[r] /\ Protocolled(r)
    BY <1>7, <1>9 DEF TailInv, RootsAccounted
  <2>2. ASSUME NEW o \in Ordinals, NEW q \in 0 .. o - 1, Spent(<<r, u, q>>) PROVE Spent(<<r, u, q>>)'
    <3>1. q \in Ordinals
      BY DEF Ordinals
    <3> QED BY <1>3, <2>1, <2>2, <3>1, UnitCalls
  <2>3. CASE r # root \/ u # c[2]
    <3>1. Made(r, u)' = Made(r, u)
      BY <1>6, <2>1, <2>3 DEF Made, Ordinals
    <3> QED BY <1>6, <2>1, <2>2, <2>3, <3>1 DEF Protocolled, Ordinals
  <2>4. CASE r = root /\ u = c[2]
    <3>1. TailCall(c)
      BY <1>1, <1>9, <2>4 DEF MayCallInProtocol, JournalInv, Placed
    <3>2. /\ pc = "tail" /\ u = TailUnit /\ c[3] = Cardinality(attempts) /\ Uncovered(root) # {}
          /\ traces[r][u] = None
      BY <1>9, <2>4, <3>1, TailUnitFacts DEF TailCall
    <3>3. u \notin protocol[r].predispatch
      BY <2>4, <3>2 DEF TailInv, Consumed
    <3>4. \A q \in 0 .. c[3] - 1 : Spent(<<r, u, q>>)
      BY <2>4, <3>2 DEF TailInv, Consumed
    <3>5. ASSUME NEW o \in Ordinals, Journaled(<<r, u, o>>)', NEW q \in 0 .. o - 1
          PROVE  Spent(<<r, u, q>>)
      <4>1. CASE o = c[3]
        BY <3>4, <4>1
      <4>2. CASE o # c[3]
        BY <1>6, <2>1, <3>5, <4>2 DEF Protocolled
      <4> QED BY <4>1, <4>2
    <3> QED BY <2>2, <3>2, <3>3, <3>5
  <2> QED BY <2>3, <2>4
<1>10. RootsAccounted'
  BY <1>1, <1>8, <1>9 DEF RootsAccounted
<1> QED BY <1>4, <1>10 DEF TailInv

\* A call gets on: no other call is begun, and what was spent stays so.
LEMMA CallTail ==
  ASSUME JournalInv, TailInv, NEW c \in Calls,
         \/ Unconfigured(c) \/ Send(c) \/ WriteResponse(c) \/ WriteTerminal(c) \/ Recover(c)
         \/ WriteFails(c)
  PROVE  TailInv'
<1>1. UNCHANGED <<protocol, traces, result, pc, root, attempts>>
  BY DEF Unconfigured, Send, WriteResponse, WriteTerminal, Recover, WriteFails, files, memory
<1>2. \A d \in Calls \ {c} : journal'[d] = journal[d]
  BY DEF Unconfigured, Send, WriteResponse, WriteTerminal, Recover, WriteFails, files,
     JournalInv, TypeOK, CallsTyped
<1>3. journal[c].intent = "written"
  BY DEF Unconfigured, Send, WriteResponse, WriteTerminal, Recover, WriteFails,
     JournalInv, CallKept, InHand, TypeOK, CallsTyped
<1>4. journal'[c].intent = journal[c].intent
  BY DEF Unconfigured, Send, WriteResponse, WriteTerminal, Recover, WriteFails, files,
     JournalInv, TypeOK, CallsTyped
<1>5. journal'[c].terminal = journal[c].terminal \/ journal[c].terminal = None
  BY DEF Unconfigured, Send, WriteResponse, WriteTerminal, Recover, WriteFails, files,
     JournalInv, TypeOK, CallsTyped, CallKept, InHand, InFlight
<1>6. /\ \A d \in Calls : Journaled(d)' <=> Journaled(d)
      /\ \A d \in Calls : Spent(d) => Spent(d)'
  BY <1>2, <1>3, <1>4, <1>5 DEF Journaled, Spent
<1> QED BY <1>1, <1>6, RootsKept, ConsumedKept, CoveredKept DEF TailInv

\* An outcome is consumed: the unit's trace is what was made for it, or its next
\* ordinal is due.
LEMMA ConsumeTail ==
  ASSUME JournalInv, TailInv, NEW c \in Calls, Consume(c)
  PROVE  TailInv'
<1> DEFINE n == Cardinality(attempts)
           u == TailUnit
           closes == journal[c].terminal = "accepted" \/ c[3] + 1 = Attempts
<1>1. /\ pc = "tail" /\ Uncovered(root) # {} /\ c = <<root, u, n>>
      /\ journal[c].terminal \notin ConditionErrors \cup {None}
      /\ UNCHANGED <<protocol, result, journal, pc, root>>
      /\ closes => traces' = [traces EXCEPT ![root][u] = attempts \cup {n}] /\ attempts' = {}
      /\ ~closes => traces' = traces /\ attempts' = attempts \cup {n}
  BY DEF Consume, TailCall
<1>2. /\ root \in Roots /\ protocol[root] # None /\ result[root] = None /\ TailRequired(root)
      /\ Protocolled(root)
  BY <1>1 DEF JournalInv, TypeOK, InRoot, Placed, TailInv, RootsAccounted, Consumed
<1>3. u \in protocol[root].targets /\ u \in Planned[root] /\ traces[root][u] = None
  BY <1>1, <1>2, TailUnitFacts
<1>4. /\ attempts = 0 .. n - 1 /\ \A o \in attempts : Spent(<<root, u, o>>)
      /\ n \in Ordinals /\ n \in Nat
      /\ \A q \in protocol[root].predispatch : traces[root][q] # None
  BY <1>1, CallFacts, AttemptsFacts DEF TailInv, Consumed
<1>5. attempts \cup {n} = 0 .. n
  BY <1>4
<1>6. /\ \A d \in Calls : Journaled(d)' <=> Journaled(d)
      /\ \A d \in Calls : Spent(d)' <=> Spent(d)
  BY <1>1 DEF Journaled, Spent
<1>7. CASE closes
  <2>1. Made(root, u) = 0 .. n
    <3>1. \A o \in Ordinals : Journaled(<<root, u, o>>) => o <= n
      <4> SUFFICES ASSUME NEW o \in Ordinals, Journaled(<<root, u, o>>), n < o PROVE FALSE
        BY <1>4 DEF Ordinals
      <4>1. Spent(c)
        BY <1>1, <1>2, <1>3, <1>4 DEF Protocolled, Ordinals
      <4>2. c[3] + 1 = Attempts
        BY <1>7, <4>1 DEF Spent
      <4>3. n + 1 = Attempts
        BY <1>1, <4>2
      <4> QED BY <1>4, <4>3 DEF Ordinals
    <3>2. \A o \in 0 .. n : Journaled(<<root, u, o>>)
      BY <1>1, <1>4, <1>5 DEF Spent, Journaled
    <3> QED BY <1>4, <3>1, <3>2 DEF Made, Ordinals
  <2>2. /\ traces'[root][u] = Made(root, u)
        /\ \A q \in Planned[root] \ {u} : traces'[root][q] = traces[root][q]
        /\ \A r \in Roots \ {root} : traces'[r] = traces[r]
    <3>1. traces' = [traces EXCEPT ![root][u] = Made(root, u)]
      BY <1>1, <1>5, <1>7, <2>1
    <3>2. DOMAIN traces = Roots /\ DOMAIN traces[root] = Planned[root]
      BY <1>2 DEF JournalInv, TypeOK, RootsTyped
    <3> HIDE DEF u
    <3> QED BY <1>2, <1>3, <3>1, <3>2
  <2>3. \A r \in Roots : protocol[r] # None =>
          protocol[r].targets \subseteq Planned[r] /\ protocol[r].predispatch \subseteq Planned[r]
    BY DEF JournalInv, TypeOK, RootsTyped, Protocol
  <2>4. ASSUME NEW r \in Roots, protocol[r] = None PROVE Unprotocolled(r)'
    <3>1. r # root /\ Unprotocolled(r)
      BY <1>2, <2>4 DEF TailInv, RootsAccounted
    <3> QED BY <1>1, <2>2, <3>1 DEF Unprotocolled, Journaled
  <2>5. ASSUME NEW r \in Roots, protocol[r] # None PROVE Protocolled(r)'
    <3>1. Protocolled(r)
      BY <2>5 DEF TailInv, RootsAccounted
    <3>2. \A q \in Planned[r] : Made(r, q)' = Made(r, q)
      BY <1>1 DEF Made, Journaled
    <3>3. \A q \in protocol[r].targets : traces'[r][q] = traces[r][q] \/ traces'[r][q] = Made(r, q)
      BY <2>2, <2>3, <2>5
    <3>4. \A q \in protocol[r].targets, o, l \in Ordinals :
            /\ Journaled(<<r, q, o>>)' <=> Journaled(<<r, q, o>>)
            /\ Spent(<<r, q, l>>)' <=> Spent(<<r, q, l>>)
      BY <1>1 DEF Journaled, Spent
    <3> QED BY <1>1, <2>3, <2>5, <3>1, <3>2, <3>3, <3>4 DEF Protocolled, Ordinals
  <2>6. RootsAccounted'
    BY <1>1, <2>4, <2>5 DEF RootsAccounted
  <2>7. Made(root, u) # None
    <3>1. Made(root, u) \in SUBSET (0 .. Attempts - 1)
      BY DEF Made, Ordinals
    <3> QED BY <3>1
  <2>8. Consumed'
    <3>1. attempts' = {} /\ TailRequired(root)'
      BY <1>1, <1>2, <1>7 DEF TailRequired
    <3>2. \A q \in protocol[root].predispatch : traces'[root][q] # None
      BY <1>2, <1>4, <2>2, <2>3, <2>7
    <3>3. attempts' = 0 .. Cardinality(attempts') - 1
      BY <3>1, AttemptsFacts
    <3> QED BY <1>1, <3>1, <3>2, <3>3 DEF Consumed
  <2>9. Covered'
    <3>1. \A r \in Roots \ {root} : Uncovered(r)' = Uncovered(r)
      BY <1>1, <2>2 DEF Uncovered
    <3> QED BY <1>1, <1>2, <3>1 DEF TailInv, Covered, JournalInv, TypeOK, RootsTyped, Results, Statuses
  <2> QED BY <2>6, <2>8, <2>9 DEF TailInv
<1>8. CASE ~closes
  <2>1. RootsAccounted' /\ Covered'
    BY <1>1, <1>6, <1>8, RootsKept, CoveredKept DEF TailInv
  <2>2. TailUnit' = TailUnit /\ TailRequired(root)' = TailRequired(root) /\ Uncovered(root)' = Uncovered(root)
    BY <1>1, <1>8 DEF TailUnit, Uncovered, TailRequired
  <2>3. attempts' = 0 .. n /\ Cardinality(attempts') = n + 1
    BY <1>1, <1>4, <1>5, <1>8, AttemptsFacts
  <2>4. Spent(c)
    BY <1>1, <1>8 DEF Spent
  <2>5. \A o \in attempts' : Spent(<<root, u, o>>)'
    <3> SUFFICES ASSUME NEW o \in attempts' PROVE Spent(<<root, u, o>>)
      BY <1>1, <2>2 DEF Spent
    <3>1. o \in attempts \/ o = n
      BY <1>1, <1>8
    <3> QED BY <1>1, <1>4, <2>4, <3>1
  <2>6. attempts' = 0 .. Cardinality(attempts') - 1
    BY <1>4, <2>3
  <2>7. Consumed'
    BY <1>1, <1>2, <1>4, <1>8, <2>2, <2>5, <2>6 DEF Consumed
  <2> QED BY <2>1, <2>7 DEF TailInv
<1> QED BY <1>7, <1>8

\* The end of a process forgets what it had consumed.
LEMMA EndTailInv ==
  ASSUME JournalInv, TailInv, End, UNCHANGED <<protocol, traces, result, journal>>
  PROVE  TailInv'
<1>1. /\ \A c \in Calls : Journaled(c)' <=> Journaled(c)
      /\ \A c \in Calls : Spent(c) => Spent(c)'
  BY DEF Journaled, Spent
<1>2. RootsAccounted'
  BY <1>1, RootsKept DEF TailInv
<1>3. Consumed' /\ Covered'
  BY DEF TailInv, Consumed, Covered, End, Uncovered
<1> QED BY <1>2, <1>3 DEF TailInv

\* A step between roots, and the first one into a root.
LEMMA BetweenTail ==
  ASSUME JournalInv, TailInv,
         StartFresh \/ WriteRunConfig \/ Resume \/ SkipCommitted \/ CommitBlocked \/ CommitDead
           \/ ExecuteRoot \/ ResumeRoot
  PROVE  TailInv'
<1>1. /\ UNCHANGED <<protocol, traces, journal, attempts>>
      /\ pc # "tail" /\ pc' \notin {"tail", "commit"}
      /\ \A r \in Roots : result'[r] = "clean" => result[r] = "clean"
  BY DEF StartFresh, WriteRunConfig, Resume, SkipCommitted, CommitBlocked, CommitDead,
     ExecuteRoot, ResumeRoot, Free, files, memory, JournalInv, TypeOK, RootsTyped
<1>2. /\ \A c \in Calls : Journaled(c)' <=> Journaled(c)
      /\ \A c \in Calls : Spent(c) => Spent(c)'
  BY <1>1 DEF Journaled, Spent
<1>3. RootsAccounted'
  BY <1>1, <1>2, RootsKept DEF TailInv
<1>4. Consumed' /\ Covered'
  BY <1>1 DEF TailInv, Consumed, Covered, Uncovered
<1> QED BY <1>3, <1>4 DEF TailInv

\* The steps of a root other than its calls.
LEMMA CloseTail ==
  ASSUME JournalInv, TailInv, root \in Roots, Close
  PROVE  TailInv'
<1>1. CASE RaiseCompleted
  BY <1>1, EndTailInv DEF RaiseCompleted
<1>2. ASSUME NEW s \in Statuses, NEW p \in SUBSET Planned[root], EndProtocol(s, p) PROVE TailInv'
  <2> DEFINE targets == {u \in Planned[root] : journal[<<root, u, 0>>].intent = "none"}
  <2>1. /\ pc = "protocol" /\ pc' = "snapshot" /\ root' = root /\ p \subseteq targets
        /\ protocol' = [protocol EXCEPT ![root] =
             [status |-> s, targets |-> targets, predispatch |-> p]]
        /\ UNCHANGED <<traces, result, journal, attempts>>
    BY <1>2 DEF EndProtocol
  <2>2. /\ protocol'[root] = [status |-> s, targets |-> targets, predispatch |-> p]
        /\ protocol'[root].targets = targets /\ protocol'[root].predispatch = p
        /\ \A r \in Roots \ {root} : protocol'[r] = protocol[r]
    BY <2>1 DEF JournalInv, TypeOK, RootsTyped
  <2>3. /\ result[root] = None /\ protocol[root] = None /\ Unprotocolled(root)
        /\ 0 \in Ordinals
    BY <2>1 DEF JournalInv, Placed, InRoot, TailInv, RootsAccounted, Ordinals
  <2>4. ASSUME NEW u \in targets, NEW o \in Ordinals PROVE ~Journaled(<<root, u, o>>)
    <3>1. ~Journaled(<<root, u, 0>>)
      BY <2>3, UnitCalls DEF JournalInv, CallKept, Intended, Journaled
    <3> QED BY <2>3, <3>1 DEF Unprotocolled
  <2>5. ASSUME NEW r \in Roots, protocol'[r] = None PROVE Unprotocolled(r)'
    <3>1. r # root
      <4>1. targets \in SUBSET Planned[root]
        OBVIOUS
      <4> HIDE DEF targets
      <4>2. protocol'[root] \in Protocol(root)
        BY <4>1, <2>2 DEF Protocol
      <4> QED BY <2>5, <4>2
    <3>2. Unprotocolled(r)
      BY <2>2, <2>5, <3>1 DEF TailInv, RootsAccounted
    <3> QED BY <2>1, <3>2 DEF Unprotocolled, Journaled
  <2>6. ASSUME NEW r \in Roots, protocol'[r] # None PROVE Protocolled(r)'
    <3>1. CASE r # root
      <4>1. Protocolled(r) /\ protocol'[r] = protocol[r]
        BY <2>2, <2>6, <3>1 DEF TailInv, RootsAccounted
      <4> QED BY <2>1, <4>1 DEF Protocolled, Made, Journaled, Spent
    <3>2. CASE r = root
      <4>1. \A u \in targets : traces'[r][u] = None /\ Made(r, u)' = {}
                              /\ \A o \in Ordinals : ~Journaled(<<r, u, o>>)'
        BY <2>1, <2>3, <2>4, <3>2 DEF Unprotocolled, Made, Journaled
      <4> HIDE DEF targets
      <4> SUFFICES ASSUME NEW u \in targets
                   PROVE  /\ \A o \in Ordinals : Journaled(<<r, u, o>>)' =>
                               \A q \in 0 .. o - 1 : Spent(<<r, u, q>>)'
                          /\ traces'[r][u] # None => traces'[r][u] = Made(r, u)'
                          /\ u \in p => Made(r, u)' = {}
        BY <2>2, <3>2 DEF Protocolled
      <4> QED BY <4>1
    <3> QED BY <3>1, <3>2
  <2>7. RootsAccounted'
    BY <2>5, <2>6 DEF RootsAccounted
  <2>8. Consumed'
    BY <2>1 DEF TailInv, Consumed
  <2>9. Covered'
    <3>1. \A r \in Roots \ {root} : Uncovered(r)' = Uncovered(r)
      BY <2>1, <2>2 DEF Uncovered
    <3> QED BY <2>1, <2>2, <2>3, <3>1 DEF TailInv, Covered, Results, Statuses
  <2> QED BY <2>7, <2>8, <2>9 DEF TailInv
<1>3. ASSUME NEW u \in Planned[root], WriteSnapshotTrace(u) PROVE TailInv'
  <2>1. /\ pc = "snapshot" /\ u \in protocol[root].predispatch /\ traces[root][u] = None
        /\ UNCHANGED <<protocol, result, journal, pc, root, attempts>>
        /\ traces' = [traces EXCEPT ![root][u] = {}]
    BY <1>3 DEF WriteSnapshotTrace, memory
  <2>2. /\ protocol[root] # None /\ result[root] = None /\ Protocolled(root)
        /\ protocol[root].predispatch \subseteq protocol[root].targets
        /\ Made(root, u) = {}
    BY <2>1 DEF JournalInv, TypeOK, RootsTyped, Placed, InRoot, TailInv, RootsAccounted, Protocolled
  <2>3. /\ traces'[root][u] = {}
        /\ \A q \in Planned[root] \ {u} : traces'[root][q] = traces[root][q]
        /\ \A r \in Roots \ {root} : traces'[r] = traces[r]
    BY <2>1 DEF JournalInv, TypeOK, RootsTyped
  <2>4. \A r \in Roots : protocol[r] # None => protocol[r].targets \subseteq Planned[r]
    BY DEF JournalInv, TypeOK, RootsTyped, Protocol
  <2>5. ASSUME NEW r \in Roots, protocol[r] = None PROVE Unprotocolled(r)'
    <3>1. r # root /\ Unprotocolled(r)
      BY <2>2, <2>5 DEF TailInv, RootsAccounted
    <3> QED BY <2>1, <2>3, <3>1 DEF Unprotocolled, Journaled
  <2>6. ASSUME NEW r \in Roots, protocol[r] # None PROVE Protocolled(r)'
    <3>1. Protocolled(r)
      BY <2>6 DEF TailInv, RootsAccounted
    <3>2. \A q \in Planned[r] : Made(r, q)' = Made(r, q)
      BY <2>1 DEF Made, Journaled
    <3>3. \A q \in protocol[r].targets : traces'[r][q] = traces[r][q] \/ traces'[r][q] = Made(r, q)
      BY <2>2, <2>3, <2>4, <2>6
    <3>4. \A q \in protocol[r].targets, o, l \in Ordinals :
            /\ Journaled(<<r, q, o>>)' <=> Journaled(<<r, q, o>>)
            /\ Spent(<<r, q, l>>)' <=> Spent(<<r, q, l>>)
      BY <2>1 DEF Journaled, Spent
    <3> QED BY <2>1, <2>4, <2>6, <3>1, <3>2, <3>3, <3>4 DEF Protocolled, Ordinals
  <2>7. RootsAccounted'
    BY <2>1, <2>5, <2>6 DEF RootsAccounted
  <2>8. Consumed'
    BY <2>1 DEF TailInv, Consumed
  <2>9. Covered'
    <3>1. \A r \in Roots \ {root} : Uncovered(r)' = Uncovered(r)
      BY <2>1, <2>3 DEF Uncovered
    <3> QED BY <2>1, <2>2, <3>1 DEF TailInv, Covered, Results, Statuses
  <2> QED BY <2>7, <2>8, <2>9 DEF TailInv
<1>4. CASE AfterSnapshot \/ EndTail \/ Commit
  <2>1. UNCHANGED <<protocol, traces, journal>> /\ pc \in {"snapshot", "tail", "commit"}
    BY <1>4 DEF AfterSnapshot, EndTail, Commit, files
  <2>2. /\ \A c \in Calls : Journaled(c)' <=> Journaled(c)
        /\ \A c \in Calls : Spent(c) => Spent(c)'
    BY <2>1 DEF Journaled, Spent
  <2>3. RootsAccounted'
    BY <2>1, <2>2, RootsKept DEF TailInv
  <2>4. protocol[root] # None
    BY <2>1 DEF JournalInv, Placed
  <2>5. CASE AfterSnapshot
    <3>1. /\ UNCHANGED <<root, result, attempts>> /\ attempts = {}
          /\ pc' = IF TailRequired(root) THEN "tail" ELSE "commit"
          /\ \A u \in protocol[root].predispatch : traces[root][u] # None
      BY <2>5 DEF AfterSnapshot, files, TailInv, Consumed
    <3>2. attempts' = 0 .. Cardinality(attempts') - 1
      BY <3>1, AttemptsFacts
    <3>3. Consumed'
      BY <2>1, <3>1, <3>2 DEF Consumed, TailRequired
    <3>4. Covered'
      BY <2>1, <2>5, <3>1 DEF AfterSnapshot, TailInv, Covered, TailRequired, Uncovered
    <3> QED BY <2>3, <3>3, <3>4 DEF TailInv
  <2>6. CASE EndTail
    <3>1. UNCHANGED <<root, result, attempts>> /\ pc' = "commit" /\ attempts = {}
          /\ Uncovered(root) = {}
      BY <2>6 DEF EndTail, files, TailInv, Consumed
    <3>2. Consumed' /\ Covered'
      BY <2>1, <2>6, <3>1 DEF EndTail, TailInv, Consumed, Covered, TailRequired, Uncovered
    <3> QED BY <2>3, <3>2 DEF TailInv
  <2>7. CASE Commit
    <3>1. /\ pc = "commit" /\ pc' = "root" /\ attempts' = attempts
          /\ result'[root] = protocol[root].status
          /\ \A r \in Roots \ {root} : result'[r] = result[r]
      BY <2>7 DEF Commit, JournalInv, TypeOK, RootsTyped
    <3>2. \A r \in Roots : Uncovered(r)' = Uncovered(r)
      BY <2>1 DEF Uncovered
    <3>3. Consumed' /\ Covered'
      BY <2>1, <2>4, <3>1, <3>2 DEF TailInv, Consumed, Covered, TailRequired
    <3> QED BY <2>3, <3>3 DEF TailInv
  <2> QED BY <1>4, <2>5, <2>6, <2>7
<1> QED BY <1>1, <1>2, <1>3, <1>4 DEF Close

\* No root has a protocol, a trace or a call.
LEMMA InitTail == Init => TailInv
<1> SUFFICES ASSUME Init PROVE TailInv
  OBVIOUS
<1>1. ASSUME NEW r \in Roots PROVE protocol[r] = None /\ Unprotocolled(r)
  <2>1. \A u \in Planned[r], o \in Ordinals : ~Journaled(<<r, u, o>>)
    BY UnitCalls DEF Init, Journaled
  <2> QED BY <2>1 DEF Init, Unprotocolled
<1>2. Consumed /\ Covered
  BY DEF Init, Consumed, Covered, Results, Statuses
<1> QED BY <1>1, <1>2 DEF TailInv, RootsAccounted

\* Every step of every process.
LEMMA NextTail == JournalInv /\ TailInv /\ [Next]_vars => TailInv'
<1> SUFFICES ASSUME JournalInv, TailInv, [Next]_vars PROVE TailInv'
  OBVIOUS
<1>1. CASE StartFresh \/ WriteRunConfig \/ Resume
  BY <1>1, BetweenTail
<1>2. CASE NextRoot
  <2>1. CASE Finish
    BY <2>1, EndTailInv DEF Finish
  <2> QED BY <1>2, <2>1, BetweenTail DEF NextRoot
<1>3. CASE root \in Roots /\ Close
  BY <1>3, CloseTail
<1>4. ASSUME NEW c \in Calls, Call(c) \/ Consume(c) \/ Raise(c) PROVE TailInv'
  <2>1. CASE Raise(c)
    BY <2>1, EndTailInv DEF Raise
  <2>2. CASE WriteIntent(c)
    BY <2>2, BeginTail
  <2> QED BY <1>4, <2>1, <2>2, CallTail, ConsumeTail DEF Call
<1>5. CASE Crash
  BY <1>5, EndTailInv DEF Crash
<1>6. ASSUME NEW c \in Calls, WriteFails(c) PROVE TailInv'
  BY <1>6, CallTail
<1>7. CASE UNCHANGED vars
  <2>1. UNCHANGED <<protocol, traces, result, journal, pc, root, attempts>>
    BY <1>7 DEF vars, files, memory
  <2>2. /\ \A c \in Calls : Journaled(c)' <=> Journaled(c)
        /\ \A c \in Calls : Spent(c) => Spent(c)'
    BY <2>1 DEF Journaled, Spent
  <2> QED BY <2>1, <2>2, RootsKept, ConsumedKept, CoveredKept DEF TailInv
<1> QED BY <1>1, <1>2, <1>3, <1>4, <1>5, <1>6, <1>7 DEF Next, Step

\* In a committed root with a tail every unit that the protocol did not dispatch
\* has a trace of exactly the calls that were made for it, in all processes.
THEOREM TailAlwaysAccounted == Spec => []TailAccounted
<1>1. JournalInv /\ TailInv => TailAccounted
  <2> SUFFICES ASSUME JournalInv, TailInv, NEW r \in Roots, result[r] = "clean", r \in Downstream,
                      NEW u \in protocol[r].targets
               PROVE  traces[r][u] = Made(r, u)
    BY DEF TailAccounted, Made, Ordinals
  <2>1. protocol[r] # None /\ Uncovered(r) = {}
    BY DEF TailInv, Covered
  <2> QED BY <2>1 DEF TailInv, RootsAccounted, Protocolled, Uncovered
<1>2. Init => TailInv
  BY InitTail
<1> QED BY <1>1, <1>2, JournalIsKept, NextTail, PTL DEF Spec
=============================================================================
