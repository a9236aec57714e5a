------------------------ MODULE EventLedgerProofs ------------------------
(***************************************************************************)
(* Proofs about EventLedger, for every set of keys, bodies and batches and *)
(* every length of the file.                                               *)
(***************************************************************************)
EXTENDS EventLedger, SequenceTheorems, TLAPS

-----------------------------------------------------------------------------
(* What the sequence helpers build.                                        *)

\* The entries of a batch are entries, one per draft.
LEMMA BatchEntriesType ==
  ASSUME NEW drafts \in Seq(Drafts), NEW id \in Batches, Len(drafts) <= MaxLines
  PROVE  /\ BatchEntries(drafts, id) \in Seq(Entries)
         /\ Len(BatchEntries(drafts, id)) = Len(drafts)
         /\ \A i \in 1..Len(drafts) :
              /\ BatchEntries(drafts, id)[i].key = drafts[i].key
              /\ BatchEntries(drafts, id)[i].batch = id
              /\ BatchEntries(drafts, id)[i].index = i
              /\ BatchEntries(drafts, id)[i].size = Len(drafts)
<1> DEFINE E == [i \in 1..Len(drafts) |->
                   [key |-> drafts[i].key, body |-> drafts[i].body,
                    batch |-> id, index |-> i, size |-> Len(drafts)]]
<1>1. /\ Len(drafts) \in Nat
      /\ DOMAIN drafts = 1..Len(drafts)
  BY LenProperties
<1>2. BatchEntries(drafts, id) = E
  BY <1>1 DEF BatchEntries
<1>3. ASSUME NEW i \in 1..Len(drafts)
      PROVE  E[i] \in Entries
  <2>1. drafts[i] \in Drafts
    BY ElementOfSeq
  <2>2. i \in 0..MaxLines /\ Len(drafts) \in 0..MaxLines
    BY <1>1, LedgerAssumption
  <2> QED
    BY <2>1, <2>2 DEF Entries, Drafts
<1>4. E \in [1..Len(drafts) -> Entries]
  BY <1>3
<1>5. E \in Seq(Entries) /\ Len(E) = Len(drafts)
  BY <1>1, <1>4, SeqDef
<1> QED
  BY <1>2, <1>5

\* The lines of a batch are lines, numbered from the next event on, each
\* chained to the history before it.
LEMMA BatchLinesType ==
  ASSUME NEW drafts \in Seq(Drafts), NEW id \in Batches, Len(drafts) <= MaxLines,
         tip \in Seq(Entries), mem \in Seq(Lines)
  PROVE  /\ BatchLines(drafts, id) \in Seq(Lines)
         /\ Len(BatchLines(drafts, id)) = Len(drafts)
         /\ \A i \in 1..Len(drafts) :
              /\ BatchLines(drafts, id)[i].seq = Len(mem) + i
              /\ BatchLines(drafts, id)[i].entry = BatchEntries(drafts, id)[i]
              /\ BatchLines(drafts, id)[i].prev
                   = tip \o SubSeq(BatchEntries(drafts, id), 1, i - 1)
<1> DEFINE entries == BatchEntries(drafts, id)
           L == [i \in 1..Len(drafts) |->
                   [seq |-> Len(mem) + i,
                    prev |-> tip \o SubSeq(entries, 1, i - 1), entry |-> entries[i]]]
<1>1. /\ Len(drafts) \in Nat
      /\ DOMAIN drafts = 1..Len(drafts)
      /\ Len(mem) \in Nat
  BY LenProperties
<1>2. BatchLines(drafts, id) = L
  BY <1>1 DEF BatchLines
<1>3. entries \in Seq(Entries) /\ Len(entries) = Len(drafts)
  BY BatchEntriesType
<1>4. ASSUME NEW i \in 1..Len(drafts)
      PROVE  L[i] \in Lines
  <2>1. SubSeq(entries, 1, i - 1) \in Seq(Entries)
    BY <1>1, <1>3, SubSeqProperties
  <2>2. tip \o SubSeq(entries, 1, i - 1) \in Seq(Entries)
    BY <2>1, ConcatProperties
  <2>3. entries[i] \in Entries
    BY <1>3, ElementOfSeq
  <2>4. Len(mem) + i \in Nat \ {0}
    BY <1>1
  <2> QED
    BY <2>2, <2>3, <2>4 DEF Lines
<1>5. L \in [1..Len(drafts) -> Lines]
  BY <1>4
<1>6. L \in Seq(Lines)
  BY <1>1, <1>5, SeqDef
<1>7. Len(L) = Len(drafts)
  BY <1>1, <1>6, LenProperties
<1>8. \A i \in 1..Len(drafts) :
        /\ L[i].seq = Len(mem) + i
        /\ L[i].entry = entries[i]
        /\ L[i].prev = tip \o SubSeq(entries, 1, i - 1)
  OBVIOUS
<1> HIDE DEF L
<1> QED
  BY <1>2, <1>6, <1>7, <1>8

-----------------------------------------------------------------------------
(* Type correctness.                                                       *)

TypeInv == TypeOK /\ (tail = "open" => disk # <<>>)

\* Appending a line or spoiling the last one.
LEMMA PutType ==
  ASSUME TypeInv, NEW line \in Lines \cup {Garbled}, Put(line)
  PROVE  /\ disk' \in Seq(Lines \cup {Garbled})
         /\ disk' # <<>>
         /\ Len(disk') >= Len(disk)
<1> DEFINE S == Lines \cup {Garbled}
<1>1. disk \in Seq(S) /\ Garbled \in S /\ line \in S /\ tail \in {"ended", "open"}
  BY DEF TypeInv, TypeOK
<1>2. CASE tail = "open"
  <2>1. disk # <<>> /\ disk' = [disk EXCEPT ![Len(disk)] = Garbled]
    BY <1>2 DEF TypeInv, Put
  <2>2. Len(disk) \in 1..Len(disk)
    BY <1>1, <2>1, EmptySeq
  <2>3. disk' \in Seq(S) /\ Len(disk') = Len(disk)
    BY <1>1, <2>1, <2>2, ExceptSeq
  <2> QED
    BY <2>2, <2>3, EmptySeq
<1>3. CASE tail = "ended"
  <2>1. disk' = Append(disk, line)
    BY <1>3 DEF Put
  <2> QED
    BY <1>1, <2>1, AppendProperties
<1> QED
  BY <1>1, <1>2, <1>3

\* The hash of the last of some lines is a history.
LEMMA TipOfType ==
  ASSUME NEW lines \in Seq(Lines)
  PROVE  TipOf(lines) \in Seq(Entries)
<1>1. CASE lines = <<>>
  BY <1>1, EmptySeq DEF TipOf
<1>2. CASE lines # <<>>
  <2>1. Len(lines) \in 1..Len(lines)
    BY <1>2, EmptySeq
  <2>2. lines[Len(lines)] \in Lines
    BY <2>1, ElementOfSeq
  <2>3. /\ lines[Len(lines)].prev \in Seq(Entries)
        /\ lines[Len(lines)].entry \in Entries
    BY <2>2 DEF Lines
  <2> QED
    BY <1>2, <2>3, AppendProperties DEF TipOf, HashOf
<1> QED
  BY <1>1, <1>2

\* The initial state is well typed.
LEMMA InitTypeInv == Init => TypeInv
  BY EmptySeq DEF Init, TypeInv, TypeOK

\* Every step keeps the types.
LEMMA NextTypeInv == TypeInv /\ [Next]_vars => TypeInv'
<1> SUFFICES ASSUME TypeInv, [Next]_vars
             PROVE  TypeInv'
  OBVIOUS
<1>0. /\ faults \in FaultSets
      /\ disk \in Seq(Lines \cup {Garbled}) /\ tail \in {"ended", "open"}
      /\ opened \in BOOLEAN /\ mem \in Seq(Lines) /\ tip \in Seq(Entries)
      /\ writing \in Seq(Lines) /\ written \in 0..Len(writing)
      /\ told \in SUBSET Lines /\ toldBatches \in SUBSET Seq(Entries)
      /\ (tail = "open" => disk # <<>>)
  BY DEF TypeInv, TypeOK
<1>a. Len(mem) \in Nat /\ Len(writing) \in Nat /\ Len(disk) \in Nat
  BY <1>0, LenProperties
<1>b. <<>> \in Seq(Lines) /\ Len(<<>>) = 0 /\ <<>> \in Seq(Entries)
  BY EmptySeq
<1>c. \A i \in DOMAIN mem : mem[i] \in Lines
  BY <1>0, LenProperties, ElementOfSeq
<1>1. ASSUME NEW k \in Keys, NEW b \in Bodies, AppendEvent(k, b)
      PROVE  TypeInv'
  <2> DEFINE line == [seq |-> Len(mem) + 1, prev |-> tip, entry |-> Single(k, b)]
  <2>1. line \in Lines
    BY <1>0, <1>a, LedgerAssumption DEF Lines, Entries, Single
  <2>2. writing' = <<line>> /\ written' = 0
    BY <1>1 DEF AppendEvent
  <2>3. writing' \in Seq(Lines) /\ 0 \in 0..Len(writing')
    BY <2>1, <2>2
  <2> QED
    BY <1>0, <1>1, <2>2, <2>3 DEF AppendEvent, TypeInv, TypeOK, memVars, toldVars
<1>2. ASSUME NEW k \in Keys, NEW b \in Bodies, AppendAgain(k, b)
      PROVE  TypeInv'
  <2>1. told' \in SUBSET Lines
    BY <1>0, <1>2, <1>c DEF AppendAgain
  <2> QED
    BY <1>0, <1>2, <2>1 DEF AppendAgain, TypeInv, TypeOK, memVars, writeVars
<1>3. ASSUME NEW drafts \in BatchDrafts, NEW id \in Batches, AppendBatch(drafts, id)
      PROVE  TypeInv'
  <2>1. drafts \in Seq(Drafts) /\ Len(drafts) \in Nat
    BY LedgerAssumption, LenProperties
  <2>2. Len(drafts) <= MaxLines
    BY <1>3, <1>a, <2>1, LedgerAssumption DEF AppendBatch
  <2>3. writing' \in Seq(Lines) /\ written' = 0 /\ Len(writing') \in Nat
    BY <1>0, <1>3, <2>1, <2>2, BatchLinesType DEF AppendBatch
  <2> QED
    BY <1>0, <1>3, <2>3 DEF AppendBatch, TypeInv, TypeOK, memVars, toldVars
<1>4. ASSUME NEW drafts \in BatchDrafts, NEW id \in Batches, AppendBatchAgain(drafts, id)
      PROVE  TypeInv'
  <2>1. told' \in SUBSET Lines
    BY <1>0, <1>4, <1>c DEF AppendBatchAgain, Found
  <2>2. drafts \in Seq(Drafts) /\ Len(drafts) \in Nat /\ DOMAIN drafts = 1..Len(drafts)
    BY LedgerAssumption, LenProperties
  <2>3. BatchEntries(drafts, id) \in Seq(Entries)
    <3> DEFINE B == BatchEntries(drafts, id)
    <3>1. \A d \in 1..Len(drafts) : B[d] \in Entries
      BY <1>4, <1>c, <2>2 DEF AppendBatchAgain, Lines
    <3>2. B = [d \in 1..Len(drafts) |-> B[d]]
      BY <2>2 DEF BatchEntries
    <3>3. B \in [1..Len(drafts) -> Entries]
      BY <3>1, <3>2
    <3> QED
      BY <2>2, <3>3, SeqDef
  <2> QED
    BY <1>0, <1>4, <2>1, <2>3 DEF AppendBatchAgain, TypeInv, TypeOK, memVars, writeVars
<1>5. ASSUME WriteLine
      PROVE  TypeInv'
  <2>1. writing[written + 1] \in Lines
    BY <1>0, <1>5, <1>a, ElementOfSeq DEF WriteLine
  <2>2. disk' \in Seq(Lines \cup {Garbled})
    BY <1>5, <2>1, PutType DEF WriteLine
  <2> QED
    BY <1>0, <1>5, <1>a, <2>2 DEF WriteLine, TypeInv, TypeOK, memVars, toldVars
<1>6. ASSUME Acknowledge
      PROVE  TypeInv'
  <2>1. Len(writing) \in 1..Len(writing) /\ DOMAIN writing = 1..Len(writing)
    BY <1>0, <1>6, EmptySeq, LenProperties DEF Acknowledge
  <2>2. \A i \in DOMAIN writing : writing[i] \in Lines
    BY <1>0, <2>1, ElementOfSeq
  <2>3. mem' \in Seq(Lines)
    BY <1>0, <1>6, ConcatProperties DEF Acknowledge
  <2>4. tip' \in Seq(Entries)
    BY <1>6, <2>1, <2>2, AppendProperties DEF Acknowledge, HashOf, Lines
  <2>5. toldBatches' \in SUBSET Seq(Entries)
    <3> DEFINE B == [i \in 1..Len(writing) |-> writing[i].entry]
    <3>1. B \in [1..Len(writing) -> Entries]
      BY <2>1, <2>2 DEF Lines
    <3>2. B \in Seq(Entries)
      BY <1>a, <3>1, SeqDef
    <3> QED
      BY <1>0, <1>6, <2>1, <3>2 DEF Acknowledge, WrittenBatch
  <2>6. told' \in SUBSET Lines
    BY <1>0, <1>6, <2>2 DEF Acknowledge
  <2> QED
    BY <1>0, <1>6, <1>b, <2>3, <2>4, <2>5, <2>6 DEF Acknowledge, TypeInv, TypeOK
<1>7. ASSUME Cut
      PROVE  /\ disk' \in Seq(Lines \cup {Garbled}) /\ tail' \in {"ended", "open"}
             /\ tail' = "open" => disk' # <<>>
  <2>1. CASE UNCHANGED <<disk, tail>>
    BY <1>0, <2>1
  <2>2. CASE Put(Garbled) /\ tail' = "open"
    BY <2>2, PutType
  <2>3. CASE written < Len(writing) /\ Put(writing[written + 1]) /\ tail' = "open"
    <3>1. writing[written + 1] \in Lines
      BY <1>0, <1>a, <2>3, ElementOfSeq
    <3> QED
      BY <2>3, <3>1, PutType
  <2> QED
    BY <1>7, <2>1, <2>2, <2>3 DEF Cut
<1>8. CASE Crash
  <2>1. Cut
    BY <1>8 DEF Crash
  <2>2. mem' \in Seq(Lines) /\ tip' \in Seq(Entries) /\ writing' \in Seq(Lines)
    BY <1>8, <1>b DEF Crash
  <2>3. written' \in 0..Len(writing')
    BY <1>8, <1>b DEF Crash
  <2>4. opened' \in BOOLEAN /\ told' = told /\ toldBatches' = toldBatches /\ faults' = faults
    BY <1>8 DEF Crash, toldVars
  <2> QED
    BY <1>0, <1>7, <2>1, <2>2, <2>3, <2>4 DEF TypeInv, TypeOK
<1>9. CASE IOError
  BY <1>0, <1>7, <1>9, <1>b DEF IOError, TypeInv, TypeOK, memVars, toldVars
<1>10. CASE Open
  <2>1. disk \in Seq(Lines)
    <3>1. \A i \in 1..Len(disk) : disk[i] \in Lines
      BY <1>0, <1>10, ElementOfSeq, LenProperties DEF Open, Readable
    <3>2. disk \in [1..Len(disk) -> Lines]
      BY <1>0, <3>1, LenProperties
    <3> QED
      BY <1>a, <3>2, SeqDef
  <2> QED
    BY <1>0, <1>10, <2>1, TipOfType DEF Open, TypeInv, TypeOK, writeVars, toldVars
<1>11. CASE UNCHANGED vars
  BY <1>0, <1>11 DEF vars, memVars, writeVars, toldVars, TypeInv, TypeOK
<1> QED
  BY <1>1, <1>2, <1>3, <1>4, <1>5, <1>6, <1>8, <1>9, <1>10, <1>11
  DEF Next, AppendOne, AppendMany

\* Every reachable state of the ledger is well typed, whatever is cut where.
THEOREM LedgerTypeOK == Spec => []TypeOK
<1>1. TypeInv => TypeOK
  BY DEF TypeInv
<1> QED
  BY InitTypeInv, NextTypeInv, <1>1, PTL DEF Spec

-----------------------------------------------------------------------------
(* A file that verifies has lost nothing.  The argument: once a line is    *)
(* spoiled or out of its place the file never verifies again, and as long  *)
(* as it is not, memory is a prefix of the file and a running append       *)
(* either continues right behind that memory or cannot write one line      *)
(* without breaking the numbering.                                         *)

Numbered == \A i \in 1..Len(disk) : disk[i] # Garbled /\ disk[i].seq = i

\* The lines of a running append are new and numbered from memory on.
WritingNew ==
  /\ writing # <<>> => opened
  /\ \A i \in 1..Len(writing) :
       /\ writing[i].seq = Len(mem) + i
       /\ \A j \in 1..Len(writing) : writing[i].entry.key = writing[j].entry.key => i = j
       /\ \A j \in 1..Len(mem) : mem[j].entry.key # writing[i].entry.key

UniqueKeys ==
  \A i, j \in 1..Len(disk) : disk[i].entry.key = disk[j].entry.key => i = j

AllTold == \A e \in told : e.seq \in 1..Len(disk) /\ disk[e.seq] = e

MemoryInDisk ==
  opened => /\ Len(mem) <= Len(disk)
            /\ \A i \in 1..Len(mem) : mem[i] = disk[i]

InStep == /\ Len(disk) = Len(mem) + written
          /\ \A i \in 1..written : disk[Len(mem) + i] = writing[i]
Astray == written = 0 /\ Len(disk) > Len(mem)

NumberedInv ==
  Numbered => /\ UniqueKeys
              /\ AllTold
              /\ MemoryInDisk
              /\ (writing # <<>> => InStep \/ Astray)

LossInv == TypeInv /\ WritingNew /\ NumberedInv

\* A write that leaves the file numbered put its line in the right place.
LEMMA PutNumbered ==
  ASSUME TypeInv, NEW line \in Lines \cup {Garbled}, Put(line), Numbered'
  PROVE  /\ Numbered
         /\ line \in Lines
         /\ line.seq = Len(disk) + 1
         /\ Len(disk') = Len(disk) + 1
         /\ disk'[Len(disk) + 1] = line
         /\ \A i \in 1..Len(disk) : disk'[i] = disk[i]
<1> DEFINE S == Lines \cup {Garbled}
<1>1. disk \in Seq(S) /\ Len(disk) \in Nat /\ line \in S /\ tail \in {"ended", "open"}
  BY LenProperties DEF TypeInv, TypeOK
<1>2. CASE tail = "open"
  <2>1. disk # <<>> /\ disk' = [disk EXCEPT ![Len(disk)] = Garbled] /\ Garbled \in S
    BY <1>2 DEF TypeInv, Put
  <2>2. Len(disk) \in 1..Len(disk)
    BY <1>1, <2>1, EmptySeq
  <2>3. Len(disk') = Len(disk) /\ disk'[Len(disk)] = Garbled
    BY <1>1, <2>1, <2>2, ExceptSeq
  <2> QED
    BY <2>2, <2>3 DEF Numbered
<1>3. CASE tail = "ended"
  <2>1. disk' = Append(disk, line)
    BY <1>3 DEF Put
  <2>2. /\ Len(disk') = Len(disk) + 1
        /\ disk'[Len(disk) + 1] = line
        /\ \A i \in 1..Len(disk) : disk'[i] = disk[i]
    BY <1>1, <2>1, AppendProperties
  <2>3. \A i \in 1..(Len(disk) + 1) : disk'[i] # Garbled /\ disk'[i].seq = i
    BY <2>2 DEF Numbered
  <2>4. line # Garbled /\ line.seq = Len(disk) + 1
    BY <1>1, <2>2, <2>3
  <2>5. Numbered
    BY <1>1, <2>2, <2>3 DEF Numbered
  <2> QED
    BY <1>1, <2>2, <2>4, <2>5
<1> QED
  BY <1>1, <1>2, <1>3

\* One more line of the running append, in a file that stays numbered.
LEMMA WriteInStep ==
  ASSUME LossInv, written < Len(writing), Put(writing[written + 1]), Numbered'
  PROVE  /\ Numbered
         /\ Len(disk) = Len(mem) + written
         /\ Len(disk') = Len(disk) + 1
         /\ disk'[Len(disk) + 1] = writing[written + 1]
         /\ \A i \in 1..Len(disk) : disk'[i] = disk[i]
         /\ \A i \in 1..written : disk[Len(mem) + i] = writing[i]
         /\ UniqueKeys'
<1>1. /\ writing \in Seq(Lines) /\ mem \in Seq(Lines) /\ written \in 0..Len(writing)
      /\ Len(writing) \in Nat /\ Len(mem) \in Nat /\ Len(disk) \in Nat
  BY LenProperties DEF LossInv, TypeInv, TypeOK
<1>2. written + 1 \in 1..Len(writing)
  BY <1>1
<1>3. writing[written + 1] \in Lines /\ writing # <<>>
  BY <1>1, <1>2, ElementOfSeq, EmptySeq
<1>4. /\ Numbered
      /\ writing[written + 1].seq = Len(disk) + 1
      /\ Len(disk') = Len(disk) + 1
      /\ disk'[Len(disk) + 1] = writing[written + 1]
      /\ \A i \in 1..Len(disk) : disk'[i] = disk[i]
  BY <1>3, PutNumbered DEF LossInv
<1>5. writing[written + 1].seq = Len(mem) + (written + 1) /\ opened
  BY <1>2, <1>3 DEF LossInv, WritingNew
<1>6. Len(disk) = Len(mem) + written
  BY <1>1, <1>4, <1>5
<1>7. InStep /\ UniqueKeys /\ MemoryInDisk
  BY <1>1, <1>3, <1>4, <1>6 DEF LossInv, NumberedInv, Astray
<1>8. ASSUME NEW j \in 1..Len(disk)
      PROVE  disk[j].entry.key # writing[written + 1].entry.key
  <2>1. CASE j \in 1..Len(mem)
    BY <1>2, <1>5, <1>7, <2>1 DEF LossInv, WritingNew, MemoryInDisk
  <2>2. CASE j > Len(mem)
    <3>1. j - Len(mem) \in 1..written /\ j = Len(mem) + (j - Len(mem))
      BY <1>1, <1>6, <2>2
    <3>2. disk[j] = writing[j - Len(mem)]
      BY <1>7, <3>1 DEF InStep
    <3>3. j - Len(mem) \in 1..Len(writing) /\ j - Len(mem) # written + 1
      BY <1>1, <3>1
    <3> QED
      BY <1>2, <3>2, <3>3 DEF LossInv, WritingNew
  <2> QED
    BY <1>1, <2>1, <2>2
<1>9. UniqueKeys'
  <2> SUFFICES ASSUME NEW i \in 1..(Len(disk) + 1), NEW j \in 1..(Len(disk) + 1),
                      disk'[i].entry.key = disk'[j].entry.key
               PROVE  i = j
    BY <1>4 DEF UniqueKeys
  <2>1. CASE i \in 1..Len(disk) /\ j \in 1..Len(disk)
    BY <1>4, <1>7, <2>1 DEF UniqueKeys
  <2>2. CASE i \in 1..Len(disk) /\ j = Len(disk) + 1
    BY <1>4, <1>8, <2>2
  <2>3. CASE i = Len(disk) + 1 /\ j \in 1..Len(disk)
    BY <1>4, <1>8, <2>3
  <2> QED
    BY <1>1, <2>1, <2>2, <2>3
<1> QED
  BY <1>4, <1>6, <1>7, <1>9 DEF InStep

\* What a cut leaves behind, in a file that stays numbered.
LEMMA CutNumbered ==
  ASSUME LossInv, Cut, Numbered'
  PROVE  /\ Numbered
         /\ Len(disk') >= Len(disk)
         /\ \A i \in 1..Len(disk) : disk'[i] = disk[i]
         /\ UniqueKeys'
<1>0. Len(disk) \in Nat
  BY LenProperties DEF LossInv, TypeInv, TypeOK
<1>1. CASE UNCHANGED <<disk, tail>>
  BY <1>0, <1>1 DEF LossInv, NumberedInv, Numbered, UniqueKeys
<1>2. CASE Put(Garbled)
  BY <1>2, PutNumbered, LedgerAssumption DEF LossInv
<1>3. CASE written < Len(writing) /\ Put(writing[written + 1])
  BY <1>0, <1>3, WriteInStep
<1> QED
  BY <1>1, <1>2, <1>3 DEF Cut

\* An empty file has lost nothing.
LEMMA InitLossInv == Init => LossInv
<1> SUFFICES ASSUME Init PROVE LossInv
  OBVIOUS
<1>1. /\ disk = <<>> /\ mem = <<>> /\ writing = <<>> /\ told = {}
      /\ Len(disk) = 0 /\ Len(mem) = 0 /\ Len(writing) = 0
  BY EmptySeq DEF Init
<1>2. WritingNew /\ NumberedInv
  BY <1>1 DEF WritingNew, NumberedInv, UniqueKeys, AllTold, MemoryInDisk
<1> QED
  BY <1>2, InitTypeInv DEF LossInv

\* No step of the ledger, cut or not, loses what a numbered file holds.
LEMMA NextLossInv == LossInv /\ [Next]_vars => LossInv'
<1> SUFFICES ASSUME LossInv, [Next]_vars PROVE LossInv'
  OBVIOUS
<1>0. TypeInv'
  BY NextTypeInv DEF LossInv
<1>a. /\ disk \in Seq(Lines \cup {Garbled}) /\ mem \in Seq(Lines)
      /\ writing \in Seq(Lines) /\ written \in 0..Len(writing)
      /\ Len(disk) \in Nat /\ Len(mem) \in Nat /\ Len(writing) \in Nat
      /\ DOMAIN mem = 1..Len(mem) /\ DOMAIN writing = 1..Len(writing)
      /\ told \in SUBSET Lines
  BY LenProperties DEF LossInv, TypeInv, TypeOK
<1>b. Len(<<>>) = 0
  BY EmptySeq
\* A call that starts to write: the file and memory stay, the lines are new.
<1>c. ASSUME Idle, UNCHANGED <<disk, tail, memVars, toldVars>>, written' = 0, WritingNew'
      PROVE  LossInv'
  <2>1. Numbered' => Numbered /\ UniqueKeys' /\ AllTold' /\ MemoryInDisk'
    BY <1>c DEF memVars, toldVars, LossInv, NumberedInv, Numbered, UniqueKeys,
                AllTold, MemoryInDisk
  <2>2. MemoryInDisk' => InStep' \/ Astray'
    BY <1>a, <1>c DEF Idle, memVars, MemoryInDisk, InStep, Astray
  <2> QED
    BY <1>0, <1>c, <2>1, <2>2 DEF LossInv, NumberedInv
\* A call that answers from memory.
<1>d. ASSUME Idle, UNCHANGED <<disk, tail, memVars, writeVars>>,
             \A e \in told' : e \in told \/ \E i \in 1..Len(mem) : e = mem[i]
      PROVE  LossInv'
  <2>1. WritingNew'
    BY <1>d DEF memVars, writeVars, LossInv, WritingNew
  <2>2. Numbered' => Numbered /\ UniqueKeys' /\ MemoryInDisk' /\ (writing' # <<>> => InStep' \/ Astray')
    BY <1>d DEF memVars, writeVars, LossInv, NumberedInv, Numbered, UniqueKeys,
                MemoryInDisk, InStep, Astray
  <2>3. ASSUME Numbered, NEW i \in 1..Len(mem)
        PROVE  mem[i].seq \in 1..Len(disk) /\ disk[mem[i].seq] = mem[i]
    <3>1. mem[i] = disk[i] /\ i \in 1..Len(disk)
      BY <1>a, <1>d, <2>3 DEF Idle, LossInv, NumberedInv, MemoryInDisk
    <3> QED
      BY <2>3, <3>1 DEF Numbered
  <2>4. Numbered => AllTold'
    BY <1>d, <2>3 DEF LossInv, NumberedInv, AllTold
  <2> QED
    BY <1>0, <2>1, <2>2, <2>4 DEF LossInv, NumberedInv
<1>1. ASSUME NEW k \in Keys, NEW b \in Bodies, AppendEvent(k, b)
      PROVE  LossInv'
  <2>1. writing' = <<[seq |-> Len(mem) + 1, prev |-> tip, entry |-> Single(k, b)]>>
    BY <1>1 DEF AppendEvent
  <2>2. /\ Len(writing') = 1
        /\ writing'[1].seq = Len(mem) + 1
        /\ writing'[1].entry.key = k
    BY <2>1 DEF Single
  <2>3. \A j \in 1..Len(mem) : mem[j].entry.key # k
    BY <1>1, <1>a DEF AppendEvent, Holds
  <2>4. WritingNew'
    BY <1>1, <2>2, <2>3 DEF AppendEvent, Idle, memVars, WritingNew
  <2> QED
    BY <1>1, <1>c, <2>4 DEF AppendEvent
<1>2. ASSUME NEW k \in Keys, NEW b \in Bodies, AppendAgain(k, b)
      PROVE  LossInv'
  BY <1>2, <1>a, <1>d DEF AppendAgain
<1>3. ASSUME NEW drafts \in BatchDrafts, NEW id \in Batches, AppendBatch(drafts, id)
      PROVE  LossInv'
  <2> DEFINE W == BatchLines(drafts, id)
  <2>1. drafts \in Seq(Drafts) /\ Len(drafts) \in Nat /\ DOMAIN drafts = 1..Len(drafts)
    BY LedgerAssumption, LenProperties
  <2>2. Len(drafts) <= MaxLines
    BY <1>3, <1>a, <2>1, LedgerAssumption DEF AppendBatch
  <2>3. /\ Len(W) = Len(drafts)
        /\ \A i \in 1..Len(drafts) :
             W[i].seq = Len(mem) + i /\ W[i].entry.key = drafts[i].key
    BY <2>1, <2>2, BatchLinesType, BatchEntriesType DEF LossInv, TypeInv, TypeOK
  <2>4. /\ \A i, j \in 1..Len(drafts) : drafts[i].key = drafts[j].key => i = j
        /\ \A i \in 1..Len(drafts), j \in 1..Len(mem) : mem[j].entry.key # drafts[i].key
    BY <1>3, <1>a, <2>1 DEF AppendBatch, DistinctKeys, Holds
  <2>5. writing' = W /\ mem' = mem /\ opened'
    BY <1>3 DEF AppendBatch, Idle, memVars
  <2> HIDE DEF W
  <2>6. WritingNew'
    BY <2>3, <2>4, <2>5 DEF WritingNew
  <2> QED
    BY <1>3, <1>c, <2>6 DEF AppendBatch
<1>4. ASSUME NEW drafts \in BatchDrafts, NEW id \in Batches, AppendBatchAgain(drafts, id)
      PROVE  LossInv'
  <2>1. \A i \in Found(drafts) : i \in 1..Len(mem)
    BY <1>a DEF Found
  <2>2. told' = told \cup {mem[i] : i \in Found(drafts)}
    BY <1>4 DEF AppendBatchAgain
  <2>3. \A e \in told' : e \in told \/ \E i \in 1..Len(mem) : e = mem[i]
    BY <2>1, <2>2
  <2> QED
    BY <1>4, <1>d, <2>3 DEF AppendBatchAgain
<1>5. ASSUME WriteLine
      PROVE  LossInv'
  <2>1. WritingNew' /\ written' = written + 1 /\ writing' = writing /\ mem' = mem
    BY <1>5 DEF WriteLine, memVars, LossInv, WritingNew
  <2>2. ASSUME Numbered'
        PROVE  UniqueKeys' /\ AllTold' /\ MemoryInDisk' /\ InStep'
    <3>1. /\ Numbered
          /\ Len(disk) = Len(mem) + written
          /\ Len(disk') = Len(disk) + 1
          /\ disk'[Len(disk) + 1] = writing[written + 1]
          /\ \A i \in 1..Len(disk) : disk'[i] = disk[i]
          /\ \A i \in 1..written : disk[Len(mem) + i] = writing[i]
          /\ UniqueKeys'
      BY <1>5, <2>2, WriteInStep DEF WriteLine
    <3>2. AllTold'
      BY <1>5, <1>a, <3>1 DEF WriteLine, toldVars, LossInv, NumberedInv, AllTold
    <3>3. MemoryInDisk'
      BY <1>5, <1>a, <3>1 DEF WriteLine, memVars, LossInv, NumberedInv, MemoryInDisk
    <3>4. ASSUME NEW i \in 1..(written + 1)
          PROVE  disk'[Len(mem) + i] = writing[i]
      <4>1. CASE i \in 1..written
        BY <1>a, <3>1, <4>1
      <4>2. CASE i = written + 1
        BY <1>a, <3>1, <4>2
      <4> QED
        BY <1>a, <4>1, <4>2
    <3>5. InStep'
      BY <1>a, <2>1, <3>1, <3>4 DEF InStep
    <3> QED
      BY <3>1, <3>2, <3>3, <3>5
  <2> QED
    BY <1>0, <2>1, <2>2 DEF LossInv, NumberedInv
<1>6. ASSUME Acknowledge
      PROVE  LossInv'
  <2>1. /\ writing # <<>> /\ written = Len(writing) /\ writing' = <<>> /\ written' = 0
        /\ mem' = mem \o writing /\ disk' = disk /\ opened' = opened
        /\ told' = told \cup {writing[i] : i \in 1..Len(writing)}
    BY <1>6, <1>a DEF Acknowledge
  <2>2. Len(writing) \in 1..Len(writing)
    BY <1>a, <2>1, EmptySeq
  <2>3. /\ Len(mem') = Len(mem) + Len(writing)
        /\ \A i \in 1..Len(mem) : mem'[i] = mem[i]
        /\ \A i \in (Len(mem) + 1)..(Len(mem) + Len(writing)) : mem'[i] = writing[i - Len(mem)]
    BY <1>a, <2>1, ConcatProperties
  <2>4. WritingNew'
    BY <1>b, <2>1 DEF WritingNew
  <2>5. ASSUME Numbered'
        PROVE  UniqueKeys' /\ AllTold' /\ MemoryInDisk'
    <3>1. Numbered /\ UniqueKeys /\ AllTold /\ MemoryInDisk /\ InStep /\ opened
      BY <1>a, <2>1, <2>2, <2>5 DEF Numbered, LossInv, NumberedInv, WritingNew, Astray
    <3>2. UniqueKeys'
      BY <2>1, <3>1 DEF UniqueKeys
    <3>3. \A i \in 1..Len(writing) :
            writing[i].seq \in 1..Len(disk) /\ disk[writing[i].seq] = writing[i]
      BY <1>a, <2>1, <3>1 DEF LossInv, WritingNew, InStep
    <3>4. AllTold'
      BY <2>1, <3>1, <3>3 DEF AllTold
    <3>5. ASSUME NEW i \in 1..(Len(mem) + Len(writing))
          PROVE  mem'[i] = disk[i]
      <4>1. CASE i \in 1..Len(mem)
        BY <2>3, <3>1, <4>1 DEF MemoryInDisk
      <4>2. CASE i > Len(mem)
        <5>1. i - Len(mem) \in 1..Len(writing) /\ i = Len(mem) + (i - Len(mem))
          BY <1>a, <4>2
        <5>2. disk[i] = writing[i - Len(mem)]
          BY <2>1, <3>1, <5>1 DEF InStep
        <5> QED
          BY <1>a, <2>3, <4>2, <5>2
      <4> QED
        BY <1>a, <4>1, <4>2
    <3>6. MemoryInDisk'
      BY <1>a, <2>1, <2>3, <3>1, <3>5 DEF MemoryInDisk, InStep
    <3> QED
      BY <3>2, <3>4, <3>6
  <2> QED
    BY <1>0, <2>1, <2>4, <2>5 DEF LossInv, NumberedInv
<1>7. ASSUME Crash
      PROVE  LossInv'
  <2>1. /\ Cut /\ opened' = FALSE /\ writing' = <<>> /\ told' = told
    BY <1>7 DEF Crash, toldVars
  <2>2. WritingNew'
    BY <1>b, <2>1 DEF WritingNew
  <2>3. ASSUME Numbered'
        PROVE  UniqueKeys' /\ AllTold' /\ MemoryInDisk'
    <3>1. /\ Numbered /\ UniqueKeys' /\ Len(disk') >= Len(disk)
          /\ \A i \in 1..Len(disk) : disk'[i] = disk[i]
      BY <2>1, <2>3, CutNumbered
    <3>2. Len(disk') \in Nat
      BY <1>0, LenProperties DEF TypeInv, TypeOK
    <3>3. AllTold
      BY <3>1 DEF LossInv, NumberedInv
    <3>4. AllTold'
      BY <1>a, <2>1, <3>1, <3>2, <3>3 DEF AllTold
    <3>5. MemoryInDisk'
      BY <2>1 DEF MemoryInDisk
    <3> QED
      BY <3>1, <3>4, <3>5
  <2> QED
    BY <1>0, <2>1, <2>2, <2>3 DEF LossInv, NumberedInv
<1>8. ASSUME IOError
      PROVE  LossInv'
  <2>1. /\ Cut /\ writing' = <<>> /\ told' = told /\ mem' = mem /\ opened' = opened
    BY <1>8 DEF IOError, memVars, toldVars
  <2>2. WritingNew'
    BY <1>b, <2>1 DEF WritingNew
  <2>3. ASSUME Numbered'
        PROVE  UniqueKeys' /\ AllTold' /\ MemoryInDisk'
    <3>1. /\ Numbered /\ UniqueKeys' /\ Len(disk') >= Len(disk)
          /\ \A i \in 1..Len(disk) : disk'[i] = disk[i]
      BY <2>1, <2>3, CutNumbered
    <3>2. Len(disk') \in Nat
      BY <1>0, LenProperties DEF TypeInv, TypeOK
    <3>3. AllTold /\ MemoryInDisk
      BY <3>1 DEF LossInv, NumberedInv
    <3>4. AllTold'
      BY <1>a, <2>1, <3>1, <3>2, <3>3 DEF AllTold
    <3>5. MemoryInDisk'
      BY <1>a, <2>1, <3>1, <3>2, <3>3 DEF MemoryInDisk
    <3> QED
      BY <3>1, <3>4, <3>5
  <2> QED
    BY <1>0, <2>1, <2>2, <2>3 DEF LossInv, NumberedInv
<1>9. ASSUME Open
      PROVE  LossInv'
  <2>1. /\ writing' = writing /\ writing = <<>> /\ mem' = disk /\ disk' = disk /\ told' = told
    BY <1>9 DEF Open, writeVars, toldVars, LossInv, WritingNew
  <2> QED
    BY <1>0, <1>a, <1>b, <2>1 DEF LossInv, WritingNew, NumberedInv, Numbered, UniqueKeys,
                                  AllTold, MemoryInDisk
<1>10. CASE UNCHANGED vars
  BY <1>0, <1>10 DEF vars, memVars, writeVars, toldVars, LossInv, WritingNew, NumberedInv,
                     Numbered, UniqueKeys, AllTold, MemoryInDisk, InStep, Astray
<1> QED
  BY <1>1, <1>2, <1>3, <1>4, <1>5, <1>6, <1>7, <1>8, <1>9, <1>10
  DEF Next, AppendOne, AppendMany

\* A file that read_verified_snapshot accepts holds one event per idempotency
\* key and every event a caller was given back, whatever was cut or raised.
THEOREM LedgerVerifiedLosesNothing == Spec => []VerifiedLosesNothing
<1>1. LossInv => VerifiedLosesNothing
  <2> SUFFICES ASSUME LossInv, Verified
               PROVE  /\ \A i, j \in DOMAIN disk :
                           disk[i].entry.key = disk[j].entry.key => i = j
                      /\ ToldStays
    BY DEF VerifiedLosesNothing
  <2>1. DOMAIN disk = 1..Len(disk)
    BY LenProperties DEF LossInv, TypeInv, TypeOK
  <2>2. Numbered
    BY <2>1 DEF Verified, Readable, Numbered
  <2> QED
    BY <2>1, <2>2 DEF LossInv, NumberedInv, UniqueKeys, AllTold, ToldStays, Told
<1> QED
  BY InitLossInv, NextLossInv, <1>1, PTL DEF Spec

-----------------------------------------------------------------------------
(* Crashes that cut a write between lines or inside the JSON of a line:    *)
(* the ledger keeps every event it returned and implements KeyedLog.  The  *)
(* two cuts left out are those that do not (see EventLedger).              *)

\* The faults of a behaviour are fixed at its start.
LEMMA FaultsStay == [Next]_vars => (CleanFaults' <=> CleanFaults)
<1> SUFFICES ASSUME [Next]_vars PROVE faults' = faults
  BY DEF CleanFaults
<1> QED
  BY DEF Next, AppendOne, AppendMany, AppendEvent, AppendAgain, AppendBatch, AppendBatchAgain,
         WriteLine, Acknowledge, Crash, IOError, Open, vars

\* The lines up to n are in order.
Sound(n) == \A i \in 1..n : disk[i] # Garbled /\ disk[i].seq = i

\* A readable file is in order; a running object is in step with it.
InOrder ==
  /\ opened => Readable /\ InStep
  /\ Readable => tail = "ended" /\ Sound(Len(disk))

\* An unreadable file is one cut short in its last line.
CutShort ==
  ~Readable => /\ ~opened
               /\ Len(disk) > 0
               /\ disk[Len(disk)] = Garbled
               /\ Sound(Len(disk) - 1)
               /\ AllTold
               /\ \A i, j \in 1..(Len(disk) - 1) :
                    disk[i].entry.key = disk[j].entry.key => i = j

CleanInv == LossInv /\ InOrder /\ CutShort

\* The types that the second argument needs.
LEMMA CleanTypes ==
  ASSUME TypeInv
  PROVE  /\ disk \in Seq(Lines \cup {Garbled}) /\ mem \in Seq(Lines)
         /\ writing \in Seq(Lines) /\ written \in 0..Len(writing)
         /\ Len(disk) \in Nat /\ Len(mem) \in Nat /\ Len(writing) \in Nat
         /\ DOMAIN disk = 1..Len(disk) /\ DOMAIN mem = 1..Len(mem)
         /\ DOMAIN writing = 1..Len(writing)
         /\ told \in SUBSET Lines
         /\ writing = <<>> => written = 0
<1>1. /\ disk \in Seq(Lines \cup {Garbled}) /\ mem \in Seq(Lines)
      /\ writing \in Seq(Lines) /\ written \in 0..Len(writing) /\ told \in SUBSET Lines
  BY DEF TypeInv, TypeOK
<1>2. writing = <<>> => Len(writing) = 0
  BY EmptySeq
<1> QED
  BY <1>1, <1>2, LenProperties

\* A readable file is numbered, with all that LossInv says of it.
LEMMA CleanReadable ==
  ASSUME CleanInv, Readable
  PROVE  Numbered /\ UniqueKeys /\ AllTold /\ MemoryInDisk /\ tail = "ended"
<1>1. Numbered /\ tail = "ended"
  BY DEF CleanInv, InOrder, Sound, Numbered
<1> QED
  BY <1>1 DEF CleanInv, LossInv, NumberedInv

\* A write that goes on puts its line at the end, in order.
LEMMA CleanWrite ==
  ASSUME CleanInv, WriteLine
  PROVE  /\ opened /\ Readable
         /\ writing[written + 1] \in Lines
         /\ writing[written + 1].seq = Len(disk) + 1
         /\ disk' = Append(disk, writing[written + 1])
         /\ Len(disk') = Len(disk) + 1
         /\ disk'[Len(disk) + 1] = writing[written + 1]
         /\ \A i \in 1..Len(disk) : disk'[i] = disk[i]
<1>1. TypeInv
  BY DEF CleanInv, LossInv
<1>2. written + 1 \in 1..Len(writing) /\ writing # <<>>
  BY <1>1, CleanTypes, EmptySeq DEF WriteLine
<1>3. writing[written + 1] \in Lines
  BY <1>1, <1>2, CleanTypes, ElementOfSeq
<1>4. opened /\ Readable /\ InStep /\ tail = "ended"
  BY <1>2, CleanReadable DEF CleanInv, LossInv, WritingNew, InOrder
<1>5. writing[written + 1].seq = Len(disk) + 1
  BY <1>1, <1>2, <1>4, CleanTypes DEF CleanInv, LossInv, WritingNew, InStep
<1>6. disk' = Append(disk, writing[written + 1])
  BY <1>4 DEF WriteLine, Put
<1> QED
  BY <1>1, <1>3, <1>4, <1>5, <1>6, CleanTypes, AppendProperties

\* A crash leaves the file as it is or with a spoiled line at its end.
LEMMA CleanCut ==
  ASSUME CleanInv, CleanFaults, opened, Cut
  PROVE  /\ Readable
         /\ \/ UNCHANGED <<disk, tail>>
            \/ /\ disk' = Append(disk, Garbled)
               /\ Len(disk') = Len(disk) + 1
               /\ disk'[Len(disk) + 1] = Garbled
               /\ \A i \in 1..Len(disk) : disk'[i] = disk[i]
<1>1. TypeInv /\ Readable /\ tail = "ended"
  BY CleanReadable DEF CleanInv, LossInv, InOrder
<1>2. UNCHANGED <<disk, tail>> \/ Put(Garbled)
  BY DEF Cut, CleanFaults
<1>3. ASSUME Put(Garbled)
      PROVE  disk' = Append(disk, Garbled)
  BY <1>1, <1>3 DEF Put
<1> QED
  BY <1>1, <1>2, <1>3, CleanTypes, AppendProperties

\* An empty file is in order.
LEMMA InitCleanInv == Init => CleanInv
<1> SUFFICES ASSUME Init PROVE CleanInv
  OBVIOUS
<1>1. /\ disk = <<>> /\ mem = <<>> /\ Len(disk) = 0 /\ Len(mem) = 0
      /\ written = 0 /\ tail = "ended" /\ LossInv
  BY EmptySeq, InitLossInv DEF Init
<1>2. DOMAIN disk = {}
  BY <1>1
<1>3. Readable
  BY <1>2 DEF Readable
<1> QED
  BY <1>1, <1>3 DEF CleanInv, InOrder, CutShort, Sound, InStep

\* Every step under clean cuts.
LEMMA NextCleanInv == CleanFaults /\ CleanInv /\ [Next]_vars => CleanInv'
<1> SUFFICES ASSUME CleanFaults, CleanInv, [Next]_vars PROVE CleanInv'
  OBVIOUS
<1>0. LossInv' /\ TypeInv /\ TypeInv'
  BY NextLossInv DEF CleanInv, LossInv
<1>t. Len(disk) \in Nat /\ Len(mem) \in Nat /\ DOMAIN disk = 1..Len(disk)
  BY <1>0, CleanTypes
<1>u. DOMAIN disk' = 1..Len(disk')
  BY <1>0, LenProperties DEF TypeInv, TypeOK
\* Steps of an idle object leave the file alone.
<1>a. ASSUME Idle, UNCHANGED <<disk, tail, opened, mem>>, written' = 0
      PROVE  CleanInv'
  <2>1. Readable /\ InStep /\ written = 0
    BY <1>0, <1>a, CleanTypes DEF Idle, CleanInv, InOrder
  <2>2. Readable' /\ InStep'
    BY <1>a, <2>1 DEF Readable, InStep
  <2> QED
    BY <1>0, <1>a, <2>1, <2>2 DEF CleanInv, InOrder, CutShort, Sound
<1>1. ASSUME AppendOne \/ AppendMany
      PROVE  CleanInv'
  <2>1. Idle /\ UNCHANGED <<disk, tail, opened, mem>> /\ (written' = 0 \/ written' = written)
    BY <1>1 DEF AppendOne, AppendMany, AppendEvent, AppendAgain, AppendBatch, AppendBatchAgain,
                memVars, writeVars
  <2>2. written = 0
    BY <1>0, <2>1, CleanTypes DEF Idle
  <2> QED
    BY <1>a, <2>1, <2>2
<1>2. ASSUME WriteLine
      PROVE  CleanInv'
  <2>1. /\ opened /\ Readable
        /\ writing[written + 1] \in Lines
        /\ writing[written + 1].seq = Len(disk) + 1
        /\ Len(disk') = Len(disk) + 1
        /\ disk'[Len(disk) + 1] = writing[written + 1]
        /\ \A i \in 1..Len(disk) : disk'[i] = disk[i]
    BY <1>2, CleanWrite
  <2>2. Sound(Len(disk)) /\ InStep
    BY <2>1 DEF CleanInv, InOrder
  <2>3. writing[written + 1] # Garbled
    BY <2>1, LedgerAssumption
  <2>4. \A i \in 1..(Len(disk) + 1) : disk'[i] # Garbled /\ disk'[i].seq = i
    BY <1>t, <2>1, <2>2, <2>3 DEF Sound
  <2>5. Readable' /\ Sound(Len(disk))'
    BY <1>u, <2>1, <2>4 DEF Readable, Sound
  <2>6. /\ tail' = "ended" /\ opened' = opened /\ mem' = mem /\ writing' = writing
        /\ written' = written + 1
    BY <1>2 DEF WriteLine, memVars
  <2>7. InStep'
    <3>1. written \in Nat
      BY <1>0, CleanTypes
    <3>2. ASSUME NEW i \in 1..(written + 1)
          PROVE  disk'[Len(mem) + i] = writing[i]
      <4>1. CASE i \in 1..written
        BY <1>t, <2>1, <2>2, <3>1, <4>1 DEF InStep
      <4>2. CASE i = written + 1
        BY <1>t, <2>1, <2>2, <3>1, <4>2 DEF InStep
      <4> QED
        BY <3>1, <4>1, <4>2
    <3> QED
      BY <1>t, <2>1, <2>2, <2>6, <3>1, <3>2 DEF InStep
  <2> QED
    BY <1>0, <2>5, <2>6, <2>7 DEF CleanInv, InOrder, CutShort
<1>3. ASSUME Acknowledge
      PROVE  CleanInv'
  <2>1. /\ writing # <<>> /\ written = Len(writing) /\ written' = 0
        /\ mem' = mem \o writing /\ disk' = disk /\ tail' = tail /\ opened' = opened
    BY <1>3 DEF Acknowledge
  <2>2. opened /\ Readable /\ InStep /\ tail = "ended" /\ Sound(Len(disk))
    BY <2>1 DEF CleanInv, LossInv, WritingNew, InOrder
  <2>3. Len(mem') = Len(mem) + Len(writing)
    BY <1>0, <2>1, CleanTypes, ConcatProperties
  <2>4. InStep' /\ Readable'
    BY <1>t, <2>1, <2>2, <2>3 DEF InStep, Readable
  <2> QED
    BY <1>0, <2>1, <2>2, <2>4 DEF CleanInv, InOrder, CutShort, Sound
<1>4. ASSUME Crash
      PROVE  CleanInv'
  <2>1. Cut /\ opened /\ ~opened' /\ told' = told
    BY <1>4 DEF Crash, toldVars
  <2>2. /\ Readable
        /\ \/ UNCHANGED <<disk, tail>>
           \/ /\ Len(disk') = Len(disk) + 1
              /\ disk'[Len(disk) + 1] = Garbled
              /\ \A i \in 1..Len(disk) : disk'[i] = disk[i]
    BY <2>1, CleanCut
  <2>3. Sound(Len(disk)) /\ tail = "ended" /\ UniqueKeys /\ AllTold
    BY <2>2, CleanReadable DEF CleanInv, InOrder
  <2>4. CASE UNCHANGED <<disk, tail>>
    BY <1>0, <2>1, <2>2, <2>3, <2>4 DEF CleanInv, InOrder, CutShort, Sound, Readable
  <2>5. CASE /\ Len(disk') = Len(disk) + 1
             /\ disk'[Len(disk) + 1] = Garbled
             /\ \A i \in 1..Len(disk) : disk'[i] = disk[i]
    <3>1. ~Readable'
      BY <1>t, <1>u, <2>5 DEF Readable
    <3>2. Sound(Len(disk) - 1)'
      BY <1>t, <2>3, <2>5 DEF Sound
    <3>3. AllTold'
      BY <1>t, <2>1, <2>3, <2>5 DEF AllTold
    <3>4. \A i, j \in 1..(Len(disk') - 1) :
            disk'[i].entry.key = disk'[j].entry.key => i = j
      BY <1>t, <2>3, <2>5 DEF UniqueKeys
    <3> QED
      BY <1>0, <1>t, <2>1, <2>5, <3>1, <3>2, <3>3, <3>4 DEF CleanInv, InOrder, CutShort
  <2> QED
    BY <2>2, <2>4, <2>5
<1>5. CASE IOError
  BY <1>5 DEF IOError, CleanFaults
<1>6. ASSUME Open
      PROVE  CleanInv'
  <2>1. /\ Readable /\ mem' = disk /\ disk' = disk /\ tail' = tail /\ opened'
        /\ writing = <<>> /\ written' = written
    BY <1>6 DEF Open, writeVars, CleanInv, LossInv, WritingNew
  <2>2. written = 0
    BY <1>0, <2>1, CleanTypes
  <2>3. Readable' /\ InStep'
    BY <1>t, <2>1, <2>2 DEF Readable, InStep
  <2> QED
    BY <1>0, <2>1, <2>3 DEF CleanInv, InOrder, CutShort, Sound
<1>7. CASE UNCHANGED vars
  <2>1. /\ UNCHANGED <<disk, tail, opened, mem, writing, written, told>>
    BY <1>7 DEF vars, memVars, writeVars, toldVars
  <2> QED
    BY <1>0, <2>1 DEF CleanInv, InOrder, CutShort, Sound, Readable, InStep, AllTold
<1> QED
  BY <1>1, <1>2, <1>3, <1>4, <1>5, <1>6, <1>7 DEF Next

\* An event a caller was given back stays in the file at its event_seq,
\* whatever crashes between lines or inside a line follow.
THEOREM LedgerToldStays == Spec => []CrashKeepsTold
<1>1. CleanInv => ToldStays
  <2> SUFFICES ASSUME CleanInv PROVE AllTold /\ DOMAIN disk = 1..Len(disk)
    BY DEF ToldStays, Told, AllTold
  <2>1. DOMAIN disk = 1..Len(disk)
    BY CleanTypes DEF CleanInv, LossInv
  <2>2. CASE Readable
    BY <2>1, <2>2, CleanReadable
  <2>3. CASE ~Readable
    BY <2>1, <2>3 DEF CleanInv, CutShort
  <2> QED
    BY <2>2, <2>3
<1>2. Init => (CleanFaults => CleanInv)
  BY InitCleanInv
<1>3. (CleanFaults => CleanInv) /\ [Next]_vars => (CleanFaults => CleanInv)'
  BY NextCleanInv, FaultsStay
<1>4. (CleanFaults => CleanInv) => CrashKeepsTold
  BY <1>1 DEF CrashKeepsTold
<1> QED
  BY <1>2, <1>3, <1>4, PTL DEF Spec

-----------------------------------------------------------------------------
(* The same crashes leave a chain that verifies and no batch with a hole.  *)
(* The hashes an object computes from memory fit the file, because memory  *)
(* is the file and each line is chained to the one before it.  A batch may *)
(* be told from lines found by their keys, anywhere in the file: they are  *)
(* one batch in order because an event of a batch always has its earlier   *)
(* parts right behind it and no part is there twice.                       *)

\* The lines that are whole: all of a readable file, all but the last of one
\* that was cut short.
Good == IF Readable THEN Len(disk) ELSE Len(disk) - 1

HashBefore(i) == IF i = 1 THEN <<>> ELSE HashOf(disk[i - 1])

\* Each line is chained to the one before it.
Linked == \A i \in 1..Good : disk[i].prev = HashBefore(i)

\* So are memory's last hash and the lines about to be written.
TipKnown == opened => tip = IF Len(mem) = 0 THEN <<>> ELSE HashOf(mem[Len(mem)])

WritingLinked ==
  \A i \in 1..Len(writing) :
    writing[i].prev = IF i = 1 THEN tip ELSE HashOf(writing[i - 1])

\* An event of a batch stands behind those of lower index, without a gap.
Behind(i) ==
  /\ disk[i].entry.index \in 1..i
  /\ \A k \in 1..disk[i].entry.index :
       /\ disk[(i - disk[i].entry.index) + k].entry.batch = disk[i].entry.batch
       /\ disk[(i - disk[i].entry.index) + k].entry.index = k

Gapless == \A i \in 1..Good : disk[i].entry.batch # NoBatch => Behind(i)

\* No two events are the same part of the same batch.
PartsOnce ==
  \A i, j \in 1..Good :
    /\ disk[i].entry.batch = disk[j].entry.batch /\ disk[i].entry.batch # NoBatch
    /\ disk[i].entry.index = disk[j].entry.index
    => i = j

\* A running append is of one batch, new to memory, or of none.
WritingBatch ==
  \A i \in 1..Len(writing) :
    writing[i].entry.batch # NoBatch =>
      /\ writing[i].entry.index = i
      /\ \A j \in 1..Len(writing) : writing[j].entry.batch = writing[i].entry.batch
      /\ \A j \in 1..Len(mem) : mem[j].entry.batch # writing[i].entry.batch

\* The batch b stands in the file as a whole.
StandsWhole(b) ==
  \E before \in 0..(Good - Len(b)) :
    \A i \in 1..Len(b) : disk[before + i].entry = b[i]

ToldWhole == \A b \in toldBatches : StandsWhole(b)

OrderInv ==
  /\ CleanInv /\ Linked /\ TipKnown /\ WritingLinked
  /\ Gapless /\ PartsOnce /\ WritingBatch /\ ToldWhole

\* The whole lines under clean cuts.
LEMMA GoodLines ==
  ASSUME CleanInv
  PROVE  /\ Good \in Nat /\ Good <= Len(disk)
         /\ \A i \in 1..Good : disk[i] \in Lines /\ disk[i] # Garbled /\ disk[i].seq = i
         /\ Readable => Good = Len(disk)
<1>1. TypeInv
  BY DEF CleanInv, LossInv
<1>2. /\ Good \in Nat /\ Good <= Len(disk)
      /\ Readable => Good = Len(disk)
      /\ Sound(Good)
  <2>1. CASE Readable
    <3>1. Good = Len(disk) /\ Sound(Len(disk))
      BY <2>1 DEF Good, CleanInv, InOrder
    <3> QED
      BY <1>1, <3>1, CleanTypes
  <2>2. CASE ~Readable
    <3>1. Good = Len(disk) - 1 /\ Sound(Len(disk) - 1) /\ Len(disk) > 0
      BY <2>2 DEF Good, CleanInv, CutShort
    <3> QED
      BY <1>1, <2>2, <3>1, CleanTypes
  <2> QED
    BY <2>1, <2>2
<1>3. ASSUME NEW i \in 1..Good PROVE disk[i] \in Lines
  <2>0. Len(disk) \in Nat /\ disk \in Seq(Lines \cup {Garbled})
    BY <1>1, CleanTypes
  <2>1. i \in 1..Len(disk)
    BY <1>2, <2>0
  <2>2. disk[i] \in Lines \cup {Garbled}
    BY <2>1, <2>0, ElementOfSeq
  <2> QED
    BY <1>2, <2>2 DEF Sound
<1> QED
  BY <1>2, <1>3 DEF Sound

\* A running object: the file is its memory and what it has written of a batch.
LEMMA OpenLines ==
  ASSUME CleanInv, opened
  PROVE  /\ Readable /\ Good = Len(mem) + written
         /\ Len(mem) \in Nat /\ written \in Nat
         /\ \A i \in 1..Len(mem) : mem[i] = disk[i]
         /\ \A i \in 1..written : disk[Len(mem) + i] = writing[i]
<1>1. TypeInv /\ Readable /\ InStep
  BY DEF CleanInv, LossInv, InOrder
<1>2. MemoryInDisk
  BY <1>1, CleanReadable
<1> QED
  BY <1>1, <1>2, CleanTypes, GoodLines DEF InStep, MemoryInDisk

FileInOrder == Linked /\ Gapless /\ PartsOnce

\* What is true of the whole lines does not depend on anything else.
LEMMA SameLines ==
  ASSUME CleanInv, Good' = Good, \A i \in 1..Good : disk'[i] = disk[i], FileInOrder
  PROVE  FileInOrder'
<1>1. Good \in Nat
  BY GoodLines
<1>2. Linked'
  <2> SUFFICES ASSUME NEW i \in 1..Good PROVE disk'[i].prev = HashBefore(i)'
    BY DEF Linked
  <2>1. disk'[i] = disk[i] /\ (i # 1 => disk'[i - 1] = disk[i - 1])
    BY <1>1
  <2> QED
    BY <2>1 DEF FileInOrder, Linked, HashBefore, HashOf
<1>3. Gapless'
  <2> SUFFICES ASSUME NEW i \in 1..Good, disk[i].entry.batch # NoBatch PROVE Behind(i)'
    BY DEF Gapless
  <2>1. Behind(i)
    BY DEF FileInOrder, Gapless
  <2> DEFINE d == disk[i].entry.index
  <2>2. d \in 1..i /\ disk'[i] = disk[i]
    BY <2>1 DEF Behind
  <2>3. ASSUME NEW k \in 1..d PROVE disk'[(i - d) + k] = disk[(i - d) + k]
    <3>1. (i - d) + k \in 1..Good
      BY <1>1, <2>2
    <3> QED
      BY <3>1
  <2> QED
    BY <2>1, <2>2, <2>3 DEF Behind
<1>4. PartsOnce'
  BY DEF FileInOrder, PartsOnce
<1> QED
  BY <1>2, <1>3, <1>4 DEF FileInOrder

\* Nor does a batch that stands in them fall.
LEMMA StillWhole ==
  ASSUME CleanInv, Good' \in Nat, Good' >= Good, \A i \in 1..Good : disk'[i] = disk[i],
         NEW b \in Seq(Entries), StandsWhole(b)
  PROVE  StandsWhole(b)'
<1>1. Len(b) \in Nat /\ Good \in Nat
  BY GoodLines, LenProperties
<1>2. PICK before \in 0..(Good - Len(b)) : \A i \in 1..Len(b) : disk[before + i].entry = b[i]
  BY DEF StandsWhole
<1>3. before \in 0..(Good' - Len(b))
  BY <1>1
<1>4. ASSUME NEW i \in 1..Len(b) PROVE disk'[before + i].entry = b[i]
  <2>1. before + i \in 1..Good
    BY <1>1
  <2> QED
    BY <1>2, <2>1
<1> QED
  BY <1>3, <1>4 DEF StandsWhole

\* One more line, of a running append.
LEMMA LineInOrder ==
  ASSUME OrderInv, WriteLine, Readable'
  PROVE  /\ Good' = Good + 1 /\ Good \in Nat
         /\ \A i \in 1..Good : disk'[i] = disk[i]
         /\ FileInOrder'
<1> DEFINE line == writing[written + 1]
<1>1. CleanInv /\ opened /\ Readable /\ TypeInv
  BY CleanWrite DEF OrderInv, CleanInv, LossInv
<1>2. /\ Good = Len(disk) /\ Good \in Nat /\ Good = Len(mem) + written
      /\ Len(mem) \in Nat /\ written \in Nat
      /\ \A i \in 1..Len(mem) : mem[i] = disk[i]
      /\ \A i \in 1..written : disk[Len(mem) + i] = writing[i]
  BY <1>1, GoodLines, OpenLines
<1>3. /\ Good' = Good + 1 /\ disk'[Good + 1] = line
      /\ \A i \in 1..Good : disk'[i] = disk[i]
  BY <1>1, <1>2, CleanWrite DEF Good
<1>4. written + 1 \in 1..Len(writing) /\ Len(writing) \in Nat
  BY <1>1, <1>2, CleanTypes DEF WriteLine
<1>5. Linked'
  <2>1. ASSUME NEW i \in 1..Good PROVE disk'[i].prev = HashBefore(i)'
    <3>1. disk'[i] = disk[i] /\ (i # 1 => disk'[i - 1] = disk[i - 1])
      BY <1>2, <1>3
    <3> QED
      BY <3>1 DEF OrderInv, Linked, HashBefore, HashOf
  <2>2. ASSUME NEW n \in Nat, n = Good + 1 PROVE line.prev = HashBefore(n)'
    <3>1. line.prev = IF written + 1 = 1 THEN tip ELSE HashOf(writing[(written + 1) - 1])
      BY <1>4 DEF OrderInv, WritingLinked
    <3>2. HashBefore(n)' = IF Good = 0 THEN <<>> ELSE HashOf(disk'[Good])
      BY <1>2, <2>2 DEF HashBefore, HashOf
    <3>3. CASE written = 0
      <4>1. tip = IF Good = 0 THEN <<>> ELSE HashOf(mem[Good])
        BY <1>1, <1>2, <3>3 DEF OrderInv, TipKnown
      <4>2. Good # 0 => mem[Good] = disk'[Good]
        BY <1>2, <1>3, <3>3
      <4> QED
        BY <3>1, <3>2, <3>3, <4>1, <4>2
    <3>4. CASE written # 0
      <4>1. disk'[Good] = writing[written] /\ Good # 0
        BY <1>2, <1>3, <3>4
      <4>2. (written + 1) - 1 = written /\ written + 1 # 1
        BY <1>2, <3>4
      <4> QED
        BY <3>1, <3>2, <4>1, <4>2
    <3> QED
      BY <3>3, <3>4
  <2>3. ASSUME NEW i \in 1..Good' PROVE disk'[i].prev = HashBefore(i)'
    <3>1. i \in Nat /\ (i \in 1..Good \/ i = Good + 1)
      BY <1>2, <1>3
    <3> QED
      BY <1>3, <2>1, <2>2, <3>1
  <2> QED
    BY <2>3 DEF Linked
<1>6. Gapless'
  <2>1. ASSUME NEW i \in 1..Good, disk[i].entry.batch # NoBatch PROVE Behind(i)'
    <3> DEFINE d == disk[i].entry.index
    <3>1. Behind(i)
      BY <2>1 DEF OrderInv, Gapless
    <3>2. d \in 1..i /\ disk'[i] = disk[i]
      BY <1>3, <3>1 DEF Behind
    <3>3. ASSUME NEW k \in 1..d PROVE disk'[(i - d) + k] = disk[(i - d) + k]
      <4>1. (i - d) + k \in 1..Good
        BY <1>2, <3>2
      <4> QED
        BY <1>3, <4>1
    <3> QED
      BY <3>1, <3>2, <3>3 DEF Behind
  <2>2. ASSUME NEW n \in Nat, n = Good + 1, line.entry.batch # NoBatch PROVE Behind(n)'
    <3>1. /\ line.entry.index = written + 1
          /\ \A j \in 1..Len(writing) : writing[j].entry.batch = line.entry.batch
          /\ \A j \in 1..Len(writing) : writing[j].entry.index = j
      BY <1>4, <2>2 DEF OrderInv, WritingBatch
    <3>2. n - (written + 1) = Len(mem) /\ written + 1 \in 1..n /\ disk'[n] = line
      BY <1>2, <1>3, <2>2
    <3>3. ASSUME NEW k \in 1..(written + 1) PROVE disk'[Len(mem) + k] = writing[k] /\ k \in 1..Len(writing)
      <4>1. CASE k \in 1..written
        <5>1. Len(mem) + k \in 1..Good
          BY <1>2, <4>1
        <5> QED
          BY <1>2, <1>3, <1>4, <4>1, <5>1
      <4>2. CASE k = written + 1
        BY <1>2, <1>3, <1>4, <4>2
      <4> QED
        BY <1>2, <4>1, <4>2
    <3>4. disk'[n].entry.index = written + 1 /\ disk'[n].entry.batch = line.entry.batch
      BY <3>1, <3>2
    <3>5. ASSUME NEW k \in 1..(written + 1)
          PROVE  /\ disk'[Len(mem) + k].entry.batch = line.entry.batch
                 /\ disk'[Len(mem) + k].entry.index = k
      BY <3>1, <3>3
    <3> QED
      BY <3>2, <3>4, <3>5 DEF Behind
  <2>3. ASSUME NEW i \in 1..Good', disk'[i].entry.batch # NoBatch PROVE Behind(i)'
    <3>1. i \in Nat /\ (i \in 1..Good \/ i = Good + 1)
      BY <1>2, <1>3
    <3> QED
      BY <1>3, <2>1, <2>2, <2>3, <3>1
  <2> QED
    BY <2>3 DEF Gapless
<1>7. PartsOnce'
  <2>1. ASSUME NEW j \in 1..Good, disk[j].entry.batch = line.entry.batch, line.entry.batch # NoBatch,
               disk[j].entry.index = line.entry.index
        PROVE  FALSE
    <3>1. /\ line.entry.index = written + 1
          /\ \A q \in 1..Len(writing) : writing[q].entry.batch = line.entry.batch
          /\ \A q \in 1..Len(writing) : writing[q].entry.index = q
          /\ \A q \in 1..Len(mem) : mem[q].entry.batch # line.entry.batch
      BY <1>4, <2>1 DEF OrderInv, WritingBatch
    <3>2. CASE j \in 1..Len(mem)
      BY <1>2, <2>1, <3>1, <3>2
    <3>3. CASE j > Len(mem)
      <4>1. j - Len(mem) \in 1..written /\ j = Len(mem) + (j - Len(mem))
        BY <1>2, <3>3
      <4>2. disk[j] = writing[j - Len(mem)]
        BY <1>2, <4>1
      <4>3. j - Len(mem) \in 1..Len(writing) /\ j - Len(mem) # written + 1
        BY <1>2, <1>4, <4>1
      <4> QED
        BY <2>1, <3>1, <4>2, <4>3
    <3> QED
      BY <1>2, <3>2, <3>3
  <2>2. ASSUME NEW i \in 1..(Good + 1), NEW j \in 1..(Good + 1),
               disk'[i].entry.batch = disk'[j].entry.batch, disk'[i].entry.batch # NoBatch,
               disk'[i].entry.index = disk'[j].entry.index
        PROVE  i = j
    <3>1. (i \in 1..Good \/ i = Good + 1) /\ (j \in 1..Good \/ j = Good + 1)
      BY <1>2
    <3>2. CASE i \in 1..Good /\ j \in 1..Good
      BY <1>3, <2>2, <3>2 DEF OrderInv, PartsOnce
    <3>3. CASE i \in 1..Good /\ j = Good + 1
      BY <1>3, <2>1, <2>2, <3>3
    <3>4. CASE i = Good + 1 /\ j \in 1..Good
      BY <1>3, <2>1, <2>2, <3>4
    <3> QED
      BY <3>1, <3>2, <3>3, <3>4
  <2> QED
    BY <1>3, <2>2 DEF PartsOnce
<1> QED
  BY <1>2, <1>3, <1>5, <1>6, <1>7 DEF FileInOrder

\* A history that grows by the next of some entries.
LEMMA HistoryGrows ==
  ASSUME NEW s \in Seq(Entries), NEW e \in Seq(Entries), NEW i \in 1..Len(e)
  PROVE  Append(s \o SubSeq(e, 1, i - 1), e[i]) = s \o SubSeq(e, 1, i)
<1>1. /\ Len(s) \in Nat /\ Len(e) \in Nat /\ e[i] \in Entries
  BY LenProperties, ElementOfSeq
<1>2. /\ SubSeq(e, 1, i - 1) \in Seq(Entries) /\ Len(SubSeq(e, 1, i - 1)) = i - 1
      /\ \A k \in 1..(i - 1) : SubSeq(e, 1, i - 1)[k] = e[k]
      /\ SubSeq(e, 1, i) \in Seq(Entries) /\ Len(SubSeq(e, 1, i)) = i
      /\ \A k \in 1..i : SubSeq(e, 1, i)[k] = e[k]
  BY <1>1, SubSeqProperties
<1> DEFINE p == SubSeq(e, 1, i - 1)
           q == SubSeq(e, 1, i)
<1> HIDE DEF p, q
<1>3. p \in Seq(Entries) /\ q \in Seq(Entries) /\ Len(p) = i - 1 /\ Len(q) = i
      /\ (\A k \in 1..(i - 1) : p[k] = e[k]) /\ (\A k \in 1..i : q[k] = e[k])
  BY <1>2 DEF p, q
<1>4. /\ s \o p \in Seq(Entries) /\ Len(s \o p) = Len(s) + (i - 1)
      /\ \A k \in 1..(Len(s) + (i - 1)) : (s \o p)[k] = IF k <= Len(s) THEN s[k] ELSE p[k - Len(s)]
  <2>1. /\ s \o p \in Seq(Entries) /\ Len(s \o p) = Len(s) + Len(p)
        /\ \A k \in 1..(Len(s) + Len(p)) : (s \o p)[k] = IF k <= Len(s) THEN s[k] ELSE p[k - Len(s)]
    BY <1>3, ConcatProperties
  <2>2. Len(s) + Len(p) = Len(s) + (i - 1)
    BY <1>3
  <2> QED
    BY <2>1, <2>2
<1>5. /\ s \o q \in Seq(Entries) /\ Len(s \o q) = Len(s) + i
      /\ \A k \in 1..(Len(s) + i) : (s \o q)[k] = IF k <= Len(s) THEN s[k] ELSE q[k - Len(s)]
  BY <1>1, <1>3, ConcatProperties
<1>6. /\ Append(s \o p, e[i]) \in Seq(Entries)
      /\ Len(Append(s \o p, e[i])) = Len(s) + i
      /\ \A k \in 1..(Len(s) + (i - 1)) : Append(s \o p, e[i])[k] = (s \o p)[k]
      /\ Append(s \o p, e[i])[Len(s) + i] = e[i]
  BY <1>1, <1>4, AppendProperties
<1>7. ASSUME NEW k \in 1..(Len(s) + i)
      PROVE  Append(s \o p, e[i])[k] = (s \o q)[k]
  <2>1. CASE k = Len(s) + i
    <3>1. (s \o q)[k] = q[i] /\ i \in 1..i
      BY <1>1, <1>5, <2>1
    <3> QED
      BY <1>3, <1>6, <2>1, <3>1
  <2>2. CASE k \in 1..Len(s)
    BY <1>1, <1>4, <1>5, <1>6, <2>2
  <2>3. CASE k \in (Len(s) + 1)..(Len(s) + (i - 1))
    <3>1. k - Len(s) \in 1..(i - 1) /\ k - Len(s) \in 1..i /\ ~(k <= Len(s))
          /\ k \in 1..(Len(s) + (i - 1))
      BY <1>1, <2>3
    <3>2. p[k - Len(s)] = q[k - Len(s)]
      BY <1>3, <3>1
    <3> QED
      BY <1>4, <1>5, <1>6, <3>1, <3>2
  <2>4. k = Len(s) + i \/ k \in 1..Len(s) \/ k \in (Len(s) + 1)..(Len(s) + (i - 1))
    BY <1>1
  <2> QED
    BY <2>1, <2>2, <2>3, <2>4
<1> QED
  BY <1>5, <1>6, <1>7, SeqEqual DEF p, q

\* The lines of a new batch are chained to memory and to one another.
LEMMA BatchLinked ==
  ASSUME TypeInv, NEW drafts \in Seq(Drafts), NEW id \in Batches, Len(drafts) <= MaxLines,
         NEW i \in 1..Len(drafts)
  PROVE  BatchLines(drafts, id)[i].prev
           = IF i = 1 THEN tip ELSE HashOf(BatchLines(drafts, id)[i - 1])
<1> DEFINE E == BatchEntries(drafts, id)
           L == BatchLines(drafts, id)
<1>1. tip \in Seq(Entries) /\ mem \in Seq(Lines) /\ Len(drafts) \in Nat
  BY LenProperties DEF TypeInv, TypeOK
<1>2. E \in Seq(Entries) /\ Len(E) = Len(drafts)
  BY BatchEntriesType
<1>3. \A k \in 1..Len(drafts) : L[k].prev = tip \o SubSeq(E, 1, k - 1) /\ L[k].entry = E[k]
  BY <1>1, BatchLinesType
<1> HIDE DEF E, L
<1>4. CASE i = 1
  <2>1. SubSeq(E, 1, 0) = <<>>
    BY <1>2, SubSeqProperties, EmptySeq
  <2>2. tip \o <<>> = tip
    BY <1>1, ConcatEmptySeq
  <2>3. L[i].prev = tip \o SubSeq(E, 1, i - 1) /\ i - 1 = 0
    BY <1>3, <1>4
  <2>4. L[i].prev = tip
    BY <2>1, <2>2, <2>3
  <2> QED
    BY <1>4, <2>4 DEF L
<1>5. CASE i # 1
  <2>1. i - 1 \in 1..Len(drafts)
    BY <1>1, <1>5
  <2>2. HashOf(L[i - 1]) = Append(tip \o SubSeq(E, 1, (i - 1) - 1), E[i - 1])
    BY <1>3, <2>1 DEF HashOf
  <2>3. HashOf(L[i - 1]) = tip \o SubSeq(E, 1, i - 1)
    BY <1>1, <1>2, <2>1, <2>2, HistoryGrows
  <2> QED
    BY <1>3, <1>5, <2>3 DEF L
<1> QED
  BY <1>4, <1>5

\* A batch all of whose parts are found stands whole: its last part has the
\* others behind it, and each part is there only once.
LEMMA FoundWhole ==
  ASSUME OrderInv, NEW drafts \in BatchDrafts, NEW id \in Batches, AppendBatchAgain(drafts, id)
  PROVE  StandsWhole(BatchEntries(drafts, id))
<1> DEFINE b == BatchEntries(drafts, id)
           n == Len(drafts)
<1>1. /\ drafts \in Seq(Drafts) /\ n \in Nat /\ n >= 1 /\ DOMAIN drafts = 1..n
  BY LedgerAssumption, LenProperties, EmptySeq
<1>2. b = [i \in 1..n |->
             [key |-> drafts[i].key, body |-> drafts[i].body, batch |-> id, index |-> i, size |-> n]]
  BY <1>1 DEF BatchEntries
<1>3. Len(b) = n
  BY <1>1, <1>2
<1>4. \A i \in 1..n : b[i].batch = id /\ b[i].index = i
  BY <1>2
<1> HIDE DEF b
<1>5. /\ opened /\ writing = <<>> /\ CleanInv /\ TypeInv
      /\ \A d \in 1..n : \E i \in DOMAIN mem : mem[i].entry = b[d]
  BY <1>1 DEF AppendBatchAgain, Idle, OrderInv, CleanInv, LossInv, b
<1>6. \A d \in 1..n : \E i \in 1..Good : disk[i].entry = b[d]
  <2>1. /\ DOMAIN mem = 1..Len(mem) /\ Good = Len(mem) + written
        /\ Len(mem) \in Nat /\ written \in Nat /\ \A i \in 1..Len(mem) : mem[i] = disk[i]
    BY <1>5, CleanTypes, OpenLines
  <2> QED
    BY <1>5, <2>1
<1>7. id # NoBatch /\ Good \in Nat
  BY <1>5, LedgerAssumption, GoodLines
<1>8. PICK last \in 1..Good : disk[last].entry = b[n]
  BY <1>1, <1>6
<1>9. Behind(last) /\ disk[last].entry.index = n /\ disk[last].entry.batch = id
  BY <1>1, <1>4, <1>7, <1>8 DEF OrderInv, Gapless
<1>10. n \in 1..last /\ last - n \in 0..(Good - n)
  BY <1>1, <1>7, <1>9 DEF Behind
<1>11. ASSUME NEW k \in 1..n PROVE disk[(last - n) + k].entry = b[k]
  <2>1. disk[(last - n) + k].entry.batch = id /\ disk[(last - n) + k].entry.index = k
    BY <1>9 DEF Behind
  <2>2. PICK i \in 1..Good : disk[i].entry = b[k]
    BY <1>6
  <2>3. (last - n) + k \in 1..Good
    BY <1>1, <1>7, <1>10
  <2>4. i = (last - n) + k
    BY <1>4, <1>7, <2>1, <2>2, <2>3 DEF OrderInv, PartsOnce
  <2> QED
    BY <2>2, <2>4
<1> QED
  BY <1>3, <1>10, <1>11 DEF StandsWhole, b

\* The start of an append touches neither the file nor memory.
LEMMA AppendOrder ==
  ASSUME CleanFaults, OrderInv, CleanInv', AppendOne \/ AppendMany
  PROVE  OrderInv'
<1>0. CleanInv /\ TypeInv
  BY DEF OrderInv, CleanInv, LossInv
<1>1. UNCHANGED <<disk, opened, mem, tip>> /\ opened
  BY DEF AppendOne, AppendMany, AppendEvent, AppendAgain, AppendBatch, AppendBatchAgain,
         Idle, memVars
<1>2. Good' = Good /\ FileInOrder'
  <2>1. Good' = Good /\ \A i \in 1..Good : disk'[i] = disk[i]
    BY <1>1 DEF Good, Readable
  <2> QED
    BY <1>0, <2>1, SameLines DEF OrderInv, FileInOrder
<1>3. TipKnown'
  BY <1>1 DEF OrderInv, TipKnown, HashOf
<1>4. WritingLinked' /\ WritingBatch'
  <2>1. ASSUME NEW k \in Keys, NEW b \in Bodies, AppendEvent(k, b)
        PROVE  WritingLinked' /\ WritingBatch'
    <3>1. writing' = <<[seq |-> Len(mem) + 1, prev |-> tip, entry |-> Single(k, b)]>>
      BY <2>1 DEF AppendEvent
    <3>2. /\ Len(writing') = 1 /\ writing'[1].prev = tip'
          /\ writing'[1].entry.batch = NoBatch
      BY <1>1, <3>1 DEF Single
    <3>3. \A i \in 1..Len(writing') : i = 1
      BY <3>2
    <3> QED
      BY <3>2, <3>3 DEF WritingLinked, WritingBatch
  <2>2. ASSUME NEW drafts \in BatchDrafts, NEW id \in Batches, AppendBatch(drafts, id)
        PROVE  WritingLinked' /\ WritingBatch'
    <3>1. drafts \in Seq(Drafts) /\ Len(drafts) \in Nat
      BY LedgerAssumption, LenProperties
    <3>2. Len(drafts) <= MaxLines /\ tip \in Seq(Entries) /\ mem \in Seq(Lines)
      BY <1>0, <2>2, <3>1, CleanTypes, LedgerAssumption DEF AppendBatch, TypeInv, TypeOK
    <3>3. /\ writing' = BatchLines(drafts, id) /\ Len(writing') = Len(drafts)
          /\ \A i \in 1..Len(drafts) : writing'[i].entry = BatchEntries(drafts, id)[i]
      BY <2>2, <3>1, <3>2, BatchLinesType DEF AppendBatch
    <3>4. \A i \in 1..Len(drafts) : /\ BatchEntries(drafts, id)[i].batch = id
                                    /\ BatchEntries(drafts, id)[i].index = i
      BY <3>1, <3>2, BatchEntriesType
    <3>5. \A j \in 1..Len(mem) : mem[j].entry.batch # id
      BY <1>0, <2>2, CleanTypes DEF AppendBatch
    <3>6. WritingBatch'
      BY <1>1, <3>3, <3>4, <3>5 DEF WritingBatch
    <3>7. ASSUME NEW i \in 1..Len(drafts)
          PROVE  writing'[i].prev = IF i = 1 THEN tip ELSE HashOf(writing'[i - 1])
      BY <1>0, <3>1, <3>2, <3>3, BatchLinked
    <3>8. WritingLinked'
      BY <1>1, <3>3, <3>7 DEF WritingLinked, HashOf
    <3> QED
      BY <3>6, <3>8
  <2>3. ASSUME UNCHANGED writing
        PROVE  WritingLinked' /\ WritingBatch'
    BY <1>1, <2>3 DEF OrderInv, WritingLinked, WritingBatch, HashOf
  <2> QED
    BY <2>1, <2>2, <2>3 DEF AppendOne, AppendMany, AppendAgain, AppendBatchAgain, writeVars
<1>5. ToldWhole'
  <2>1. ASSUME NEW b \in toldBatches' PROVE StandsWhole(b)
    <3>1. CASE b \in toldBatches
      BY <3>1 DEF OrderInv, ToldWhole
    <3>2. CASE b \notin toldBatches
      BY <2>1, <3>2, FoundWhole DEF AppendOne, AppendMany, AppendEvent, AppendAgain, AppendBatch,
         AppendBatchAgain, toldVars
    <3> QED
      BY <3>1, <3>2
  <2> QED
    BY <1>1, <1>2, <2>1 DEF ToldWhole, StandsWhole
<1> QED
  BY <1>2, <1>3, <1>4, <1>5 DEF OrderInv, FileInOrder

\* What a call returns is in the file behind its memory.
LEMMA AcknowledgeOrder ==
  ASSUME OrderInv, CleanInv', Acknowledge
  PROVE  OrderInv'
<1>0. CleanInv /\ TypeInv
  BY DEF OrderInv, CleanInv, LossInv
<1>1. /\ writing # <<>> /\ written = Len(writing) /\ UNCHANGED <<disk, opened>>
      /\ mem' = mem \o writing /\ tip' = HashOf(writing[Len(writing)]) /\ writing' = <<>>
      /\ toldBatches' = toldBatches \cup WrittenBatch
  BY DEF Acknowledge
<1>2. opened /\ Len(writing) \in Nat /\ Len(writing) >= 1 /\ DOMAIN writing = 1..Len(writing)
  BY <1>0, <1>1, CleanTypes, EmptySeq DEF CleanInv, LossInv, WritingNew
<1>3. Good' = Good /\ FileInOrder'
  <2>1. Good' = Good /\ \A i \in 1..Good : disk'[i] = disk[i]
    BY <1>1 DEF Good, Readable
  <2> QED
    BY <1>0, <2>1, SameLines DEF OrderInv, FileInOrder
<1>4. TipKnown'
  <2>1. /\ Len(mem') = Len(mem) + Len(writing) /\ Len(mem) \in Nat
        /\ mem'[Len(mem) + Len(writing)] = writing[Len(writing)]
    <3>1. mem \in Seq(Lines) /\ writing \in Seq(Lines) /\ Len(mem) \in Nat
      BY <1>0, CleanTypes
    <3>2. Len(mem) + Len(writing) \in 1..(Len(mem) + Len(writing))
      BY <1>2, <3>1
    <3>3. /\ Len(mem \o writing) = Len(mem) + Len(writing)
          /\ (mem \o writing)[Len(mem) + Len(writing)]
               = IF Len(mem) + Len(writing) <= Len(mem) THEN mem[Len(mem) + Len(writing)]
                 ELSE writing[(Len(mem) + Len(writing)) - Len(mem)]
      BY <3>1, <3>2, ConcatProperties
    <3>4. (Len(mem) + Len(writing)) - Len(mem) = Len(writing)
          /\ ~(Len(mem) + Len(writing) <= Len(mem))
      BY <1>2, <3>1
    <3> QED
      BY <1>1, <3>1, <3>3, <3>4
  <2>2. Len(mem') # 0 /\ mem'[Len(mem')] = writing[Len(writing)]
    BY <1>2, <2>1
  <2> QED
    BY <1>1, <2>2 DEF TipKnown, HashOf
<1>5. WritingLinked' /\ WritingBatch'
  <2>1. Len(writing') = 0
    BY <1>1, EmptySeq
  <2> QED
    BY <2>1 DEF WritingLinked, WritingBatch
<1>6. ToldWhole'
  <2>1. ASSUME NEW b \in WrittenBatch PROVE StandsWhole(b)
    <3>1. b = [i \in 1..Len(writing) |-> writing[i].entry]
      BY <1>2, <2>1 DEF WrittenBatch
    <3>2. Len(b) = Len(writing)
      BY <1>2, <3>1
    <3>3. /\ Good = Len(mem) + Len(writing) /\ Len(mem) \in Nat
          /\ \A i \in 1..Len(writing) : disk[Len(mem) + i] = writing[i]
      BY <1>0, <1>1, <1>2, OpenLines
    <3>4. Len(mem) \in 0..(Good - Len(b))
      BY <1>2, <3>2, <3>3
    <3>5. \A i \in 1..Len(b) : disk[Len(mem) + i].entry = b[i]
      BY <3>1, <3>2, <3>3
    <3> QED
      BY <3>4, <3>5 DEF StandsWhole
  <2>2. ASSUME NEW b \in toldBatches' PROVE StandsWhole(b)
    BY <1>1, <2>1 DEF OrderInv, ToldWhole
  <2> QED
    BY <1>1, <1>3, <2>2 DEF ToldWhole, StandsWhole
<1> QED
  BY <1>3, <1>4, <1>5, <1>6 DEF OrderInv, FileInOrder

\* Every step under clean cuts keeps the file in order.
LEMMA NextOrderInv == CleanFaults /\ OrderInv /\ [Next]_vars => OrderInv'
<1> SUFFICES ASSUME CleanFaults, OrderInv, [Next]_vars PROVE OrderInv'
  OBVIOUS
<1>0. CleanInv /\ CleanInv' /\ TypeInv
  BY NextCleanInv DEF OrderInv, CleanInv, LossInv
<1>1. Good \in Nat /\ toldBatches \in SUBSET Seq(Entries)
  BY <1>0, GoodLines DEF TypeInv, TypeOK
<1>a. ASSUME Good' = Good, \A i \in 1..Good : disk'[i] = disk[i], UNCHANGED toldBatches
      PROVE  FileInOrder' /\ ToldWhole'
  <2>1. FileInOrder'
    BY <1>0, <1>a, SameLines DEF OrderInv, FileInOrder
  <2>2. ASSUME NEW b \in toldBatches PROVE StandsWhole(b)'
    BY <1>0, <1>1, <1>a, StillWhole DEF OrderInv, ToldWhole
  <2> QED
    BY <1>a, <2>1, <2>2 DEF ToldWhole
<1>2. CASE AppendOne \/ AppendMany
  BY <1>0, <1>2, AppendOrder
<1>3. CASE Acknowledge
  BY <1>0, <1>3, AcknowledgeOrder
<1>4. CASE WriteLine
  <2>1. Readable'
    BY <1>0, <1>4, OpenLines, CleanWrite DEF WriteLine, memVars, CleanInv, InOrder
  <2>2. Good' = Good + 1 /\ (\A i \in 1..Good : disk'[i] = disk[i]) /\ FileInOrder'
    BY <1>4, <2>1, LineInOrder
  <2>3. UNCHANGED <<opened, mem, tip, writing, toldBatches>>
    BY <1>4 DEF WriteLine, memVars, toldVars
  <2>4. ToldWhole'
    <3>1. ASSUME NEW b \in toldBatches PROVE StandsWhole(b)'
      BY <1>0, <1>1, <2>2, StillWhole DEF OrderInv, ToldWhole
    <3> QED
      BY <2>3, <3>1 DEF ToldWhole
  <2>5. TipKnown' /\ WritingLinked' /\ WritingBatch'
    BY <2>3 DEF OrderInv, TipKnown, WritingLinked, WritingBatch, HashOf
  <2> QED
    BY <1>0, <2>2, <2>4, <2>5 DEF OrderInv, FileInOrder
<1>5. CASE Crash
  <2>1. opened /\ Cut /\ ~opened' /\ writing' = <<>> /\ toldBatches' = toldBatches
    BY <1>5 DEF Crash, toldVars
  <2>2. Good' = Good /\ \A i \in 1..Good : disk'[i] = disk[i]
    <3>1. Readable /\ Good = Len(disk) /\ DOMAIN disk' = 1..Len(disk')
      BY <1>0, <2>1, CleanCut, GoodLines, LenProperties DEF CleanInv, LossInv, TypeInv, TypeOK
    <3>2. CASE UNCHANGED <<disk, tail>>
      BY <3>1, <3>2 DEF Good, Readable
    <3>3. CASE /\ Len(disk') = Len(disk) + 1 /\ disk'[Len(disk) + 1] = Garbled
               /\ \A i \in 1..Len(disk) : disk'[i] = disk[i]
      <4>1. ~Readable'
        BY <1>1, <3>1, <3>3 DEF Readable
      <4> QED
        BY <1>1, <3>1, <3>3, <4>1 DEF Good
    <3> QED
      BY <1>0, <2>1, <3>2, <3>3, CleanCut
  <2>3. FileInOrder' /\ ToldWhole'
    BY <1>a, <2>1, <2>2
  <2>4. Len(writing') = 0
    BY <2>1, EmptySeq
  <2> QED
    BY <1>0, <2>1, <2>3, <2>4 DEF OrderInv, FileInOrder, TipKnown, WritingLinked, WritingBatch
<1>6. CASE Open
  <2>1. /\ disk' = disk /\ mem' = disk /\ tip' = TipOf(disk) /\ writing' = writing
        /\ toldBatches' = toldBatches /\ ~opened
    BY <1>6 DEF Open, writeVars, toldVars
  <2>2. FileInOrder' /\ ToldWhole'
    <3>1. Good' = Good /\ \A i \in 1..Good : disk'[i] = disk[i]
      BY <2>1 DEF Good, Readable
    <3> QED
      BY <1>a, <2>1, <3>1
  <2>3. Len(writing') = 0
    BY <1>0, <2>1, EmptySeq DEF CleanInv, LossInv, WritingNew
  <2>4. tip' = IF Len(disk) = 0 THEN <<>> ELSE HashOf(disk[Len(disk)])
    BY <1>0, <2>1, CleanTypes, EmptySeq DEF TipOf
  <2>5. TipKnown'
    BY <2>1, <2>4 DEF TipKnown, HashOf
  <2> QED
    BY <1>0, <2>2, <2>3, <2>5 DEF OrderInv, FileInOrder, WritingLinked, WritingBatch
<1>7. CASE UNCHANGED vars
  <2>1. UNCHANGED <<disk, opened, mem, tip, writing, toldBatches>>
    BY <1>7 DEF vars, memVars, writeVars, toldVars
  <2>2. FileInOrder' /\ ToldWhole'
    <3>1. Good' = Good /\ \A i \in 1..Good : disk'[i] = disk[i]
      BY <2>1 DEF Good, Readable
    <3> QED
      BY <1>a, <2>1, <3>1
  <2>3. TipKnown' /\ WritingLinked' /\ WritingBatch'
    BY <2>1 DEF OrderInv, TipKnown, WritingLinked, WritingBatch, HashOf
  <2> QED
    BY <1>0, <2>2, <2>3 DEF OrderInv, FileInOrder
<1>8. CASE IOError
  BY <1>8 DEF IOError, CleanFaults
<1> QED
  BY <1>2, <1>3, <1>4, <1>5, <1>6, <1>7, <1>8 DEF Next

\* In an empty file everything is in order.
LEMMA InitOrderInv == Init => OrderInv
<1> SUFFICES ASSUME Init PROVE OrderInv
  OBVIOUS
<1>1. /\ CleanInv /\ disk = <<>> /\ mem = <<>> /\ writing = <<>> /\ tip = <<>>
      /\ toldBatches = {} /\ Len(disk) = 0 /\ Len(mem) = 0 /\ Len(writing) = 0
  BY InitCleanInv, EmptySeq DEF Init
<1>2. Good <= 0 /\ Good \in Nat
  BY <1>1, GoodLines
<1> QED
  BY <1>1, <1>2 DEF OrderInv, Linked, TipKnown, WritingLinked, Gapless, PartsOnce, WritingBatch,
     ToldWhole

\* What the invariant says of a file that can be read.
LEMMA OrderVerifies ==
  ASSUME OrderInv, Readable
  PROVE  Verified
<1>1. /\ Good = Len(disk) /\ Good \in Nat /\ disk \in Seq(Lines \cup {Garbled})
      /\ DOMAIN disk = 1..Len(disk) /\ \A i \in 1..Good : disk[i].seq = i
  BY GoodLines, CleanTypes DEF OrderInv, CleanInv, LossInv
<1>2. ASSUME NEW i \in 1..Len(disk) PROVE disk[i].prev = TipOf(SubSeq(disk, 1, i - 1))
  <2>1. disk[i].prev = HashBefore(i)
    BY <1>1 DEF OrderInv, Linked
  <2>2. CASE i = 1
    <3>1. SubSeq(disk, 1, i - 1) = <<>>
      BY <1>1, <2>2, SubSeqProperties, EmptySeq
    <3> QED
      BY <2>1, <2>2, <3>1 DEF HashBefore, TipOf
  <2>3. CASE i # 1
    <3>1. /\ SubSeq(disk, 1, i - 1) \in Seq(Lines \cup {Garbled})
          /\ Len(SubSeq(disk, 1, i - 1)) = i - 1
          /\ \A k \in 1..(i - 1) : SubSeq(disk, 1, i - 1)[k] = disk[k]
      BY <1>1, SubSeqProperties
    <3>2. i - 1 \in 1..(i - 1) /\ i - 1 # 0
      BY <1>1, <2>3
    <3>3. SubSeq(disk, 1, i - 1) # <<>>
      BY <3>1, <3>2, EmptySeq
    <3>4. TipOf(SubSeq(disk, 1, i - 1)) = HashOf(disk[i - 1])
      BY <3>1, <3>2, <3>3 DEF TipOf
    <3> QED
      BY <2>1, <2>3, <3>4 DEF HashBefore
  <2> QED
    BY <2>2, <2>3
<1> QED
  BY <1>1, <1>2 DEF Verified

\* After any crashes that cut between lines or inside a line the file, if it
\* can be read, passes verify_hash_chain, and every batch a caller was given
\* back stands in it whole, in order and without a gap.
THEOREM LedgerStaysInOrder == Spec => []CrashesLeaveOrder
<1>1. ASSUME CleanFaults => OrderInv PROVE CrashesLeaveOrder
  <2>1. ChainVerifies
    BY <1>1, OrderVerifies DEF ChainVerifies
  <2>2. ASSUME CleanFaults, NEW b \in toldBatches
        PROVE  \E before \in 0..(Len(disk) - Len(b)) :
                 \A i \in DOMAIN b :
                   disk[before + i] # Garbled /\ disk[before + i].entry = b[i]
    <3>1. OrderInv /\ CleanInv /\ TypeInv
      BY <1>1, <2>2 DEF OrderInv, CleanInv, LossInv
    <3>2. b \in Seq(Entries) /\ DOMAIN b = 1..Len(b) /\ Len(b) \in Nat
      BY <3>1, <2>2, LenProperties DEF TypeInv, TypeOK
    <3>3. PICK before \in 0..(Good - Len(b)) : \A i \in 1..Len(b) : disk[before + i].entry = b[i]
      BY <3>1, <2>2 DEF OrderInv, ToldWhole, StandsWhole
    <3>4. Good \in Nat /\ Good <= Len(disk) /\ (\A i \in 1..Good : disk[i] # Garbled)
          /\ Len(disk) \in Nat
      BY <3>1, GoodLines, CleanTypes
    <3>5. before \in 0..(Len(disk) - Len(b))
      BY <3>2, <3>4
    <3>6. \A i \in 1..Len(b) : before + i \in 1..Good
      BY <3>2, <3>4
    <3> QED
      BY <3>2, <3>3, <3>4, <3>5, <3>6
  <2> QED
    BY <2>1, <2>2 DEF CrashesLeaveOrder, ToldBatchWhole
<1>2. Init => (CleanFaults => OrderInv)
  BY InitOrderInv
<1>3. (CleanFaults => OrderInv) /\ [Next]_vars => (CleanFaults => OrderInv)'
  BY NextOrderInv, FaultsStay
<1>4. (CleanFaults => OrderInv) => CrashesLeaveOrder
  BY <1>1
<1> QED
  BY <1>2, <1>3, <1>4, PTL DEF Spec

-----------------------------------------------------------------------------
(* The ledger implements KeyedLog.                                         *)

LogBar  == [i \in DOMAIN Whole |-> Whole[i].entry]
ToldBar == {<<e.seq, e.entry>> : e \in told}

\* A readable file is the log; so is one cut short, without its last line.
LEMMA WholeReadable ==
  ASSUME TypeInv, Readable
  PROVE  Whole = disk /\ LogBar \in Seq(Entries) /\ Len(LogBar) = Len(disk)
         /\ LogBar = [i \in 1..Len(disk) |-> disk[i].entry]
<1>1. DOMAIN disk = 1..Len(disk) /\ Len(disk) \in Nat /\ disk \in Seq(Lines \cup {Garbled})
  BY CleanTypes
<1>2. disk # <<>> => Len(disk) \in 1..Len(disk)
  BY <1>1, EmptySeq
<1>3. Whole = disk
  BY <1>1, <1>2 DEF Whole, Readable
<1>4. \A i \in 1..Len(disk) : disk[i] \in Lines
  BY <1>1, ElementOfSeq DEF Readable
<1>5. LogBar = [i \in 1..Len(disk) |-> disk[i].entry]
  BY <1>1, <1>3 DEF LogBar
<1>6. LogBar \in [1..Len(disk) -> Entries]
  BY <1>4, <1>5 DEF Lines
<1>7. LogBar \in Seq(Entries)
  BY <1>1, <1>6, SeqDef
<1>8. Len(LogBar) = Len(disk)
  BY <1>1, <1>6, <1>7, LenProperties
<1> QED
  BY <1>3, <1>5, <1>7, <1>8

\* Callers are told of entries in the log only.
LEMMA TellStep ==
  ASSUME CleanInv, CleanInv', Readable, disk' = disk, told \subseteq told'
  PROVE  Log!Tell
<1>1. TypeInv /\ DOMAIN disk = 1..Len(disk)
  BY CleanTypes DEF CleanInv, LossInv
<1>2. AllTold'
  BY CleanReadable DEF CleanInv, LossInv, NumberedInv, InOrder, Numbered, Readable, Sound
<1>3. LogBar = [i \in 1..Len(disk) |-> disk[i].entry] /\ LogBar' = LogBar
  BY <1>1, WholeReadable DEF LogBar, Whole
<1>4. ASSUME NEW e \in told'
      PROVE  <<e.seq, e.entry>> \in {<<i, LogBar[i]>> : i \in DOMAIN LogBar}
  <2>1. e.seq \in 1..Len(disk) /\ disk[e.seq] = e
    BY <1>2 DEF AllTold
  <2>2. e.seq \in DOMAIN LogBar /\ LogBar[e.seq] = e.entry
    BY <1>3, <2>1
  <2> QED
    BY <2>2
<1>5. ToldBar' \subseteq {<<i, LogBar[i]>> : i \in DOMAIN LogBar} /\ ToldBar \subseteq ToldBar'
  BY <1>4 DEF ToldBar
<1> QED
  BY <1>3, <1>5 DEF Log!Tell, LogBar, ToldBar

\* A line that reaches the file records its entry, under a new key.
LEMMA RecordStep ==
  ASSUME CleanInv, CleanInv', WriteLine
  PROVE  \E e \in Entries : Log!Record(e)
<1> DEFINE line == writing[written + 1]
<1>0. TypeInv /\ TypeInv' /\ Len(disk) \in Nat
  BY CleanTypes DEF CleanInv, LossInv
<1>1. /\ opened /\ Readable /\ line \in Lines
      /\ Len(disk') = Len(disk) + 1
      /\ disk'[Len(disk) + 1] = line
      /\ \A i \in 1..Len(disk) : disk'[i] = disk[i]
  BY CleanWrite
<1>2. Readable' /\ told' = told
  BY <1>1 DEF CleanInv, InOrder, WriteLine, memVars, toldVars
<1>3. UniqueKeys'
  BY <1>2 DEF CleanInv, LossInv, NumberedInv, InOrder, Numbered, Sound
<1>4. /\ LogBar = [i \in 1..Len(disk) |-> disk[i].entry]
      /\ LogBar \in Seq(Entries) /\ Len(LogBar) = Len(disk)
  BY <1>0, <1>1, WholeReadable
<1>5. LogBar' = [i \in 1..Len(disk') |-> disk'[i].entry]
  <2>1. DOMAIN disk' = 1..Len(disk') /\ disk' \in Seq(Lines \cup {Garbled})
    BY <1>0, LenProperties DEF TypeInv, TypeOK
  <2>2. disk'[Len(disk')] # Garbled
    BY <1>0, <1>1, LedgerAssumption
  <2>3. Whole' = disk'
    BY <2>2 DEF Whole
  <2> QED
    BY <2>1, <2>3 DEF LogBar
<1>6. line.entry \in Entries
  BY <1>1 DEF Lines
<1>7. LogBar' = Append(LogBar, line.entry)
  <2>1. Append(LogBar, line.entry) = [i \in 1..(Len(disk) + 1) |->
                                        IF i = Len(disk) + 1 THEN line.entry ELSE LogBar[i]]
    BY <1>0, <1>4, <1>6
  <2>2. \A i \in 1..(Len(disk) + 1) :
          disk'[i].entry = IF i = Len(disk) + 1 THEN line.entry ELSE LogBar[i]
    BY <1>0, <1>1, <1>4
  <2> QED
    BY <1>1, <1>5, <2>1, <2>2
<1>8. \A i \in DOMAIN LogBar : LogBar[i].key # line.entry.key
  <2> SUFFICES ASSUME NEW i \in 1..Len(disk), disk[i].entry.key = line.entry.key
               PROVE  FALSE
    BY <1>4
  <2> QED
    BY <1>0, <1>1, <1>3 DEF UniqueKeys
<1>9. ToldBar' = ToldBar
  BY <1>2 DEF ToldBar
<1> QED
  BY <1>6, <1>7, <1>8, <1>9 DEF Log!Record, LogBar, ToldBar

\* A crash may cut a line short: the log does not change.
LEMMA CrashStep ==
  ASSUME CleanFaults, CleanInv, CleanInv', Crash
  PROVE  LogBar' = LogBar /\ ToldBar' = ToldBar
<1>0. TypeInv /\ TypeInv' /\ Len(disk) \in Nat /\ disk \in Seq(Lines \cup {Garbled})
  BY CleanTypes DEF CleanInv, LossInv
<1>1. opened /\ Cut /\ told' = told
  BY DEF Crash, toldVars
<1>2. Readable /\ (disk' = disk \/ disk' = Append(disk, Garbled))
  BY <1>1, CleanCut
<1>3. Whole = disk
  BY <1>0, <1>2, WholeReadable
<1>4. Whole' = disk
  <2>1. CASE disk' = disk
    BY <1>3, <2>1 DEF Whole
  <2>2. CASE disk' = Append(disk, Garbled)
    <3>1. disk' # <<>> /\ Len(disk') = Len(disk) + 1 /\ disk'[Len(disk')] = Garbled
      BY <1>0, <2>2, AppendProperties, EmptySeq
    <3>2. Whole' = SubSeq(Append(disk, Garbled), 1, Len(disk))
      BY <1>0, <2>2, <3>1 DEF Whole
    <3>3. SubSeq(Append(disk, Garbled), 1, Len(disk)) = disk
      BY <1>0, HeadTailAppend, AppendProperties, SubSeqProperties, SeqEqual
    <3> QED
      BY <3>2, <3>3
  <2> QED
    BY <1>2, <2>1, <2>2
<1> QED
  BY <1>1, <1>3, <1>4 DEF LogBar, ToldBar

\* Every step is a KeyedLog step or leaves the log and what was told alone.
LEMMA NextLogStep ==
  ASSUME CleanFaults, CleanInv, CleanInv', [Next]_vars
  PROVE  [Log!Next]_(Log!vars)
<1>1. CASE WriteLine
  BY <1>1, RecordStep DEF Log!Next
<1>2. CASE Crash
  BY <1>2, CrashStep DEF Log!vars, LogBar, ToldBar
<1>3. CASE Acknowledge
  <2>1. disk' = disk /\ told \subseteq told' /\ writing # <<>>
    BY <1>3 DEF Acknowledge
  <2>2. Readable
    BY <2>1 DEF CleanInv, LossInv, WritingNew, InOrder
  <2> QED
    BY <2>1, <2>2, TellStep DEF Log!Next
<1>4. CASE AppendOne \/ AppendMany
  <2>1. Idle /\ disk' = disk /\ told \subseteq told'
    BY <1>4 DEF AppendOne, AppendMany, AppendEvent, AppendAgain, AppendBatch, AppendBatchAgain,
                memVars, writeVars, toldVars
  <2>2. Readable
    BY <2>1 DEF Idle, CleanInv, InOrder
  <2> QED
    BY <2>1, <2>2, TellStep DEF Log!Next
<1>5. CASE Open \/ UNCHANGED vars
  <2>1. disk' = disk /\ told' = told
    BY <1>5 DEF Open, vars, memVars, writeVars, toldVars
  <2>2. LogBar' = LogBar /\ ToldBar' = ToldBar
    BY <2>1 DEF LogBar, ToldBar, Whole
  <2> QED
    BY <2>2 DEF Log!vars, LogBar, ToldBar
<1>6. ~IOError
  BY DEF IOError, CleanFaults
<1> QED
  BY <1>1, <1>2, <1>3, <1>4, <1>5, <1>6 DEF Next

\* The file, up to a line cut short, is a KeyedLog: it only grows, one entry
\* per idempotency key, and what callers were told of stays in its place.
THEOREM LedgerKeepsLog == Spec => KeepsLog
<1>1. Init => Log!Init
  <2> SUFFICES ASSUME Init PROVE LogBar = <<>> /\ ToldBar = {}
    BY DEF Log!Init, LogBar, ToldBar
  <2>1. disk = <<>> /\ told = {}
    BY DEF Init
  <2> QED
    BY <2>1 DEF LogBar, ToldBar, Whole
<1>2. Init => (CleanFaults => CleanInv)
  BY InitCleanInv
<1>3. (CleanFaults => CleanInv) /\ [Next]_vars => (CleanFaults => CleanInv)'
  BY NextCleanInv, FaultsStay
<1>4. (CleanFaults => CleanInv) /\ (CleanFaults => CleanInv)' /\ [Next]_vars
        => [CleanFaults => Log!Next]_(Log!vars)
  BY NextLogStep, FaultsStay
<1> QED
  BY <1>1, <1>2, <1>3, <1>4, PTL DEF Spec, KeepsLog
=============================================================================
