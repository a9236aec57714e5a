---------------------------- MODULE EventLedger ----------------------------
(***************************************************************************)
(* The JSONL event ledger of src/src/tokenshare/storage/events.py: one     *)
(* EventLedger object, the file behind it, and what a crash or an I/O      *)
(* error may leave in the file.                                            *)
(*                                                                         *)
(* A call checks its idempotency keys against memory, writes its lines,    *)
(* flushes, and only then updates memory and returns.  A hash is taken as  *)
(* the history it commits to: the entries from the first to its own.       *)
(*                                                                         *)
(* faults says where a write may be cut in this behaviour: between two     *)
(* lines ("line"), inside the JSON of a line ("partial"), between the JSON *)
(* and its newline ("newline", a separate write once a line outgrows the   *)
(* text buffer).  "io" lets the call raise instead of the process dying,   *)
(* so that the object lives on with a memory that no longer matches the    *)
(* file.                                                                   *)
(***************************************************************************)
EXTENDS Integers, Sequences

CONSTANTS
  Keys,          \* idempotency keys
  Bodies,        \* what an event says: type, object, task and payload
  Batches,       \* batch ids
  BatchDrafts,   \* the draft lists callers pass to append_batch
  MaxLines,      \* bound of the lines in the file
  FaultSets,     \* the sets of faults considered
  NoBatch,       \* batch_id of an event appended alone
  Garbled        \* a line that is not valid JSON

Drafts  == [key : Keys, body : Bodies]
Entries == [key : Keys, body : Bodies, batch : Batches \cup {NoBatch},
            index : 0..MaxLines, size : 0..MaxLines]
Lines   == [seq : Nat \ {0}, prev : Seq(Entries), entry : Entries]

ASSUME LedgerAssumption ==
  /\ BatchDrafts \subseteq Seq(Drafts) \ {<<>>}
  /\ MaxLines \in Nat
  /\ FaultSets \subseteq SUBSET {"line", "partial", "newline", "io"}
  /\ NoBatch \notin Batches
  /\ Garbled \notin Lines

VARIABLES
  faults,    \* the faults that may strike in this behaviour
  disk,      \* the lines of the file
  tail,      \* "ended" if the last line has its newline, else "open"
  opened,    \* is there an EventLedger object?
  mem,       \* EventLedger._events
  tip,       \* EventLedger._last_event_hash
  writing,   \* the lines of the running append
  written,   \* how many of them are in the file
  told,      \* events returned to callers
  toldBatches \* batches returned to callers, as their entries

memVars   == <<opened, mem, tip>>
writeVars == <<writing, written>>
toldVars  == <<told, toldBatches>>
vars == <<faults, disk, tail, memVars, writeVars, toldVars>>

\* event_hash covers prev_event_hash and the event itself.
HashOf(line) == Append(line.prev, line.entry)
TipOf(lines) == IF lines = <<>> THEN <<>> ELSE HashOf(lines[Len(lines)])

\* read_all raises on a line that is not JSON.
Readable == \A i \in DOMAIN disk : disk[i] # Garbled

\* Mutant: only the events' own hashes are checked.
VerifiedUnlinked == Readable

\* verify_hash_chain and read_verified_snapshot.
Verified ==
  /\ Readable
  /\ \A i \in DOMAIN disk :
       /\ disk[i].seq = i
       /\ disk[i].prev = TipOf(SubSeq(disk, 1, i - 1))

Init ==
  /\ faults \in FaultSets
  /\ disk = <<>>
  /\ tail = "ended"
  /\ opened = TRUE
  /\ mem = <<>>
  /\ tip = <<>>
  /\ writing = <<>>
  /\ written = 0
  /\ told = {}
  /\ toldBatches = {}

Idle == opened /\ writing = <<>>

\* _by_idempotency_key: of two events with one key the later one is found.
Holds(k) == \E i \in DOMAIN mem : mem[i].entry.key = k
IsFor(i, k) ==
  /\ mem[i].entry.key = k
  /\ \A j \in DOMAIN mem : mem[j].entry.key = k => j <= i

(***************************************************************************)
(* Calls.  One that raises a conflict changes nothing and is left out.     *)
(***************************************************************************)

Single(k, b) == [key |-> k, body |-> b, batch |-> NoBatch, index |-> 0, size |-> 0]

\* append of a new key: the line it will write.
AppendEvent(k, b) ==
  /\ Idle
  /\ ~Holds(k)
  /\ Len(disk) < MaxLines
  /\ writing' = <<[seq |-> Len(mem) + 1, prev |-> tip, entry |-> Single(k, b)]>>
  /\ written' = 0
  /\ UNCHANGED <<faults, disk, tail, memVars, toldVars>>

\* append of a known key with the same signature: the batch fields are not
\* part of it.
AppendAgain(k, b) ==
  /\ Idle
  /\ \E i \in DOMAIN mem :
       /\ IsFor(i, k)
       /\ mem[i].entry.body = b
       /\ told' = told \cup {mem[i]}
  /\ UNCHANGED <<faults, disk, tail, memVars, writeVars, toldBatches>>

BatchEntries(drafts, id) ==
  [i \in DOMAIN drafts |->
     [key |-> drafts[i].key, body |-> drafts[i].body,
      batch |-> id, index |-> i, size |-> Len(drafts)]]

\* _build_batch_events: contiguous numbers, each line chained to the last.
BatchLines(drafts, id) ==
  LET entries == BatchEntries(drafts, id)
  IN  [i \in DOMAIN drafts |->
         [seq |-> Len(mem) + i,
          prev |-> tip \o SubSeq(entries, 1, i - 1), entry |-> entries[i]]]

DistinctKeys(drafts) ==
  \A i, j \in DOMAIN drafts : drafts[i].key = drafts[j].key => i = j

\* Mutant: a batch of which some events exist is written anyway.
AppendBatchPartial(drafts, id) ==
  /\ Idle
  /\ DistinctKeys(drafts)
  /\ \E i \in DOMAIN drafts : ~Holds(drafts[i].key)
  /\ Len(disk) + Len(drafts) <= MaxLines
  /\ writing' = BatchLines(drafts, id)
  /\ written' = 0
  /\ UNCHANGED <<faults, disk, tail, memVars, toldVars>>

\* append_batch of new keys under a new batch id.
AppendBatch(drafts, id) ==
  /\ Idle
  /\ DistinctKeys(drafts)
  /\ \A i \in DOMAIN drafts : ~Holds(drafts[i].key)
  /\ \A i \in DOMAIN mem : mem[i].entry.batch # id
  /\ Len(disk) + Len(drafts) <= MaxLines
  /\ writing' = BatchLines(drafts, id)
  /\ written' = 0
  /\ UNCHANGED <<faults, disk, tail, memVars, toldVars>>

\* The events found for the keys of a batch.
Found(drafts) == {i \in DOMAIN mem : \E d \in DOMAIN drafts : IsFor(i, drafts[d].key)}

\* Mutant: the events that exist are enough.
AppendBatchAgainPartial(drafts, id) ==
  /\ Idle
  /\ DistinctKeys(drafts)
  /\ Found(drafts) # {}
  /\ \A i \in Found(drafts) : \E d \in DOMAIN drafts : mem[i].entry = BatchEntries(drafts, id)[d]
  /\ told' = told \cup {mem[i] : i \in Found(drafts)}
  /\ toldBatches' = toldBatches \cup {BatchEntries(drafts, id)}
  /\ UNCHANGED <<faults, disk, tail, memVars, writeVars>>

\* append_batch of a batch that is already there, field by field.
AppendBatchAgain(drafts, id) ==
  /\ Idle
  /\ DistinctKeys(drafts)
  /\ \A d \in DOMAIN drafts : \E i \in DOMAIN mem :
       IsFor(i, drafts[d].key) /\ mem[i].entry = BatchEntries(drafts, id)[d]
  /\ told' = told \cup {mem[i] : i \in Found(drafts)}
  /\ toldBatches' = toldBatches \cup {BatchEntries(drafts, id)}
  /\ UNCHANGED <<faults, disk, tail, memVars, writeVars>>

\* Bytes put after a line that lacks its newline spoil that line.
Put(line) ==
  disk' = IF tail = "open" THEN [disk EXCEPT ![Len(disk)] = Garbled]
                           ELSE Append(disk, line)

\* One more line reaches the file, newline included.
WriteLine ==
  /\ written < Len(writing)
  /\ Put(writing[written + 1])
  /\ tail' = "ended"
  /\ written' = written + 1
  /\ UNCHANGED <<faults, memVars, writing, toldVars>>

WrittenBatch ==
  IF writing[1].entry.batch = NoBatch
  THEN {} ELSE {[i \in DOMAIN writing |-> writing[i].entry]}

\* Mutant: the hash of the last event is not renewed.
AcknowledgeKeepTip ==
  /\ writing # <<>>
  /\ written = Len(writing)
  /\ mem' = mem \o writing
  /\ told' = told \cup {writing[i] : i \in DOMAIN writing}
  /\ toldBatches' = toldBatches \cup WrittenBatch
  /\ writing' = <<>>
  /\ written' = 0
  /\ UNCHANGED <<faults, disk, tail, opened, tip>>

\* After flush and fsync: memory follows and the call returns its events.
Acknowledge ==
  /\ writing # <<>>
  /\ written = Len(writing)
  /\ mem' = mem \o writing
  /\ tip' = HashOf(writing[Len(writing)])
  /\ told' = told \cup {writing[i] : i \in DOMAIN writing}
  /\ toldBatches' = toldBatches \cup WrittenBatch
  /\ writing' = <<>>
  /\ written' = 0
  /\ UNCHANGED <<faults, disk, tail, opened>>

(***************************************************************************)
(* Faults, and opening the ledger again.                                   *)
(***************************************************************************)

\* What a write that stops here leaves in the file.
Cut ==
  \/ /\ "line" \in faults
     /\ UNCHANGED <<disk, tail>>
  \/ /\ "partial" \in faults
     /\ written < Len(writing)
     /\ Put(Garbled)
     /\ tail' = "open"
  \/ /\ "newline" \in faults
     /\ written < Len(writing)
     /\ Put(writing[written + 1])
     /\ tail' = "open"

\* The process dies, in a write or between two calls.
Crash ==
  /\ opened
  /\ Cut
  /\ opened' = FALSE
  /\ mem' = <<>>
  /\ tip' = <<>>
  /\ writing' = <<>>
  /\ written' = 0
  /\ UNCHANGED <<faults, toldVars>>

\* The write or the fsync raises: the call fails, memory stays as it was.
IOError ==
  /\ "io" \in faults
  /\ writing # <<>>
  /\ Cut
  /\ writing' = <<>>
  /\ written' = 0
  /\ UNCHANGED <<faults, memVars, toldVars>>

\* __init__: the file is read, not verified.
Open ==
  /\ ~opened
  /\ Readable
  /\ opened' = TRUE
  /\ mem' = disk
  /\ tip' = TipOf(disk)
  /\ UNCHANGED <<faults, disk, tail, writeVars, toldVars>>

AppendOne == \E k \in Keys, b \in Bodies : AppendEvent(k, b) \/ AppendAgain(k, b)
AppendMany == \E drafts \in BatchDrafts, id \in Batches :
                AppendBatch(drafts, id) \/ AppendBatchAgain(drafts, id)

Next == AppendOne \/ AppendMany \/ WriteLine \/ Acknowledge \/ Crash \/ IOError \/ Open

Spec == Init /\ [][Next]_vars

-----------------------------------------------------------------------------

\* The state is well typed.
TypeOK ==
  /\ faults \in FaultSets
  /\ disk \in Seq(Lines \cup {Garbled})
  /\ tail \in {"ended", "open"}
  /\ opened \in BOOLEAN
  /\ mem \in Seq(Lines)
  /\ tip \in Seq(Entries)
  /\ writing \in Seq(Lines)
  /\ written \in 0..Len(writing)
  /\ told \in SUBSET Lines
  /\ toldBatches \in SUBSET Seq(Entries)

Told(e) == e.seq \in DOMAIN disk /\ disk[e.seq] = e

\* Append-only: an event a caller was given back stays in the file, at its
\* event_seq.
ToldStays == \A e \in told : Told(e)

\* Crashes that cut between lines or inside the JSON of a line, and no other
\* fault.
CleanFaults == faults \cap {"newline", "io"} = {}

\* After any number of such crashes no event a caller was given back is lost
\* or moved.  It needs the condition: a crash that eats a newline lets the
\* next append spoil the line.
CrashKeepsTold == CleanFaults => ToldStays

\* They leave a chain that verify_hash_chain accepts: the numbers and the
\* hashes an object computes from memory fit the file another object left.
ChainVerifies == CleanFaults /\ Readable => Verified

\* A batch that append_batch returned is in the file as a whole, in order and
\* without a gap, though such crashes may have left parts of other batches there.
ToldBatchWhole ==
  CleanFaults => \A b \in toldBatches :
    \E before \in 0..(Len(disk) - Len(b)) :
      \A i \in DOMAIN b :
        disk[before + i] # Garbled /\ disk[before + i].entry = b[i]

\* What crashes leave can be gone on with: a chain that verifies and no hole in a
\* batch that was returned (storage/events.py:288).
CrashesLeaveOrder == ChainVerifies /\ ToldBatchWhole

\* Whatever was cut and whatever raised: a file that read_verified_snapshot
\* accepts holds one event per idempotency key and every event a caller was
\* given back.
VerifiedLosesNothing ==
  Verified => /\ \A i, j \in DOMAIN disk : disk[i].entry.key = disk[j].entry.key => i = j
              /\ ToldStays

\* The ledger is a KeyedLog: the log is the file up to a line cut short.
Whole == IF disk # <<>> /\ disk[Len(disk)] = Garbled
         THEN SubSeq(disk, 1, Len(disk) - 1) ELSE disk

Log == INSTANCE KeyedLog WITH
  Entries <- Entries,
  log  <- [i \in DOMAIN Whole |-> Whole[i].entry],
  told <- {<<e.seq, e.entry>> : e \in told}

\* Under such crashes every step records one new key, tells a caller or changes
\* nothing.
KeepsLog == Log!Init /\ [][CleanFaults => Log!Next]_(Log!vars)
=============================================================================
