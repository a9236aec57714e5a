---------------------------- MODULE StorageProofs ----------------------------
(***************************************************************************)
(* What processes share through files.                                     *)
(*                                                                         *)
(* RunLock: the run lock excludes every second process as long as nobody   *)
(* removes a lock other than the stale one it read, for any number of      *)
(* processes and crashes at any step.                                      *)
(*                                                                         *)
(* ArtifactStore: what save_bytes has returned stays, the manifest is      *)
(* committed after the data, and a crash never stands in the way of the    *)
(* same save, for any number of writers and of crashes, and any data.      *)
(*                                                                         *)
(* MaterializedIndex: a rebuild of the index fails only by refusing its    *)
(* events, one that refuses changes nothing, it accepts exactly the        *)
(* ledgers of whole batches, and the tables of one that committed agree    *)
(* with one another, for every order the engine's batches come in, any     *)
(* number of them cut short, any tables and any number of rebuilds that    *)
(* died.                                                                   *)
(***************************************************************************)
EXTENDS RunLock, ArtifactStore, MaterializedIndex, FiniteSetTheorems, WellFoundedInduction, TLAPS

-----------------------------------------------------------------------------
(* The run lock.                                                           *)

\* A process that has created the file and not yet removed it.
Owning(p) == pc[p] \in {"created", "held", "release"}

\* The file names whoever created it, as long as that process lives.
OwnersOwn ==
  ~raced => \A p \in Processes :
    Owning(p) => /\ lock # None
                 /\ lock.owner = p
                 /\ Holds(p) => lock.written

\* What is about to be removed belonged to a process that has ended.
StaleEnded ==
  \A p \in Processes : pc[p] \in {"stale", "remove"} => ~IsRunning(seen[p])

LockInv == TypeOK /\ OwnersOwn /\ StaleEnded

\* The type invariant, from the assumption that None is no process: what the
\* file and the two reads of __enter__ may hold.
THEOREM LockTypeOK == Spec => []TypeOK
<1>1. Init => TypeOK
  BY DEF Init, TypeOK, Places, Files
<1>2. TypeOK /\ [Next]_vars => TypeOK'
  <2> SUFFICES ASSUME TypeOK, [Next]_vars PROVE TypeOK'
    OBVIOUS
  <2> USE DEF TypeOK, Goto, Places, Files
  <2>1. ASSUME NEW p \in Processes, Enter(p) PROVE TypeOK'
    <3>1. Owner \in Processes \cup {None}
      BY DEF Owner
    <3>2. CASE Create(p)
      BY <3>2 DEF Create
    <3>3. CASE Write(p)
      BY <3>3 DEF Write
    <3>4. CASE FindExisting(p)
      BY <3>4 DEF FindExisting
    <3>5. CASE ReadOwner(p)
      BY <3>1, <3>5 DEF ReadOwner
    <3> QED BY <2>1, <3>2, <3>3, <3>4, <3>5 DEF Enter
  <2>2. ASSUME NEW p \in Processes, Reclaim(p) PROVE TypeOK'
    <3>1. CASE ReadAgain(p)
      BY <3>1 DEF ReadAgain
    <3>2. CASE Remove(p)
      BY <3>2 DEF Remove
    <3> QED BY <2>2, <3>1, <3>2 DEF Reclaim
  <2>3. ASSUME NEW p \in Processes, Exit(p) PROVE TypeOK'
    <3>1. CASE ReadOwn(p)
      BY <3>1 DEF ReadOwn
    <3>2. CASE Release(p)
      BY <3>2 DEF Release
    <3> QED BY <2>3, <3>1, <3>2 DEF Exit
  <2>4. ASSUME NEW p \in Processes, Crash(p) PROVE TypeOK'
    BY <2>4 DEF Crash
  <2>5. CASE UNCHANGED vars
    BY <2>5 DEF vars
  <2> QED BY <2>1, <2>2, <2>3, <2>4, <2>5 DEF Next
<1> QED BY <1>1, <1>2, PTL DEF Spec

\* A process that ended stays so.
LEMMA EndedStays ==
  ASSUME TypeOK, [Next]_vars, NEW q \in Processes, pc[q] \in Ended
  PROVE  pc'[q] \in Ended
<1> USE DEF TypeOK, Goto, IsRunning, Ended
<1>1. ASSUME NEW p \in Processes, Enter(p) PROVE pc'[q] \in Ended
  BY <1>1 DEF Enter, Create, Write, FindExisting, ReadOwner
<1>2. ASSUME NEW p \in Processes, Reclaim(p) PROVE pc'[q] \in Ended
  BY <1>2 DEF Reclaim, ReadAgain, Remove
<1>3. ASSUME NEW p \in Processes, Exit(p) PROVE pc'[q] \in Ended
  BY <1>3 DEF Exit, ReadOwn, Release
<1>4. ASSUME NEW p \in Processes, Crash(p) PROVE pc'[q] \in Ended
  BY <1>4 DEF Crash
<1> QED BY <1>1, <1>2, <1>3, <1>4 DEF Next, vars

\* Every step keeps what is removed stale, and the owner in the file.
LEMMA LockStep == LockInv /\ TypeOK' /\ [Next]_vars => LockInv'
<1> SUFFICES ASSUME LockInv, TypeOK', [Next]_vars PROVE OwnersOwn' /\ StaleEnded'
  BY DEF LockInv
<1> USE DEF LockInv
<1>1. \A q \in Processes : pc[q] \in Ended => pc'[q] \in Ended
  BY EndedStays
<1>2. StaleEnded'
  <2> SUFFICES ASSUME NEW q \in Processes, pc'[q] \in {"stale", "remove"}
               PROVE  pc'[seen'[q]] \in Ended
    BY DEF StaleEnded, IsRunning
  <2>1. seen'[q] # None /\ seen'[q] \in Processes
    BY DEF TypeOK
  <2>2. pc[seen'[q]] \in Ended
    <3> USE DEF TypeOK, Goto, StaleEnded, IsRunning
    <3>1. ASSUME NEW p \in Processes, Enter(p) PROVE pc[seen'[q]] \in Ended
      <4>1. CASE ReadOwner(p)
        BY <2>1, <4>1 DEF ReadOwner
      <4>2. CASE Create(p) \/ Write(p) \/ FindExisting(p)
        BY <4>2 DEF Create, Write, FindExisting
      <4> QED BY <3>1, <4>1, <4>2 DEF Enter
    <3>2. ASSUME NEW p \in Processes, Reclaim(p) PROVE pc[seen'[q]] \in Ended
      BY <3>2 DEF Reclaim, ReadAgain, Remove
    <3>3. ASSUME NEW p \in Processes, Exit(p) PROVE pc[seen'[q]] \in Ended
      BY <3>3 DEF Exit, ReadOwn, Release
    <3>4. ASSUME NEW p \in Processes, Crash(p) PROVE pc[seen'[q]] \in Ended
      BY <3>4 DEF Crash
    <3> QED BY <3>1, <3>2, <3>3, <3>4 DEF Next, vars
  <2> QED BY <1>1, <2>1, <2>2
<1>3. OwnersOwn'
  <2> SUFFICES ASSUME ~raced', NEW q \in Processes, Owning(q)'
               PROVE  /\ lock' # None
                      /\ lock'.owner = q
                      /\ Holds(q)' => lock'.written
    BY DEF OwnersOwn
  <2> USE DEF TypeOK, Goto, OwnersOwn, Owning, Holds
  <2>1. ASSUME NEW p \in Processes, Create(p)
        PROVE  lock' # None /\ lock'.owner = q /\ (Holds(q)' => lock'.written)
    <3>1. lock' = [owner |-> p, written |-> FALSE] /\ lock' \in Files
      BY <2>1 DEF Create, Files
    <3>2. ~raced /\ lock = None /\ pc'[p] = "created"
      BY <2>1 DEF Create
    <3>3. q = p
      BY <2>1, <3>2 DEF Create
    <3> QED BY <3>1, <3>2, <3>3, LockAssumption
  <2>2. ASSUME NEW p \in Processes, Write(p)
        PROVE  lock' # None /\ lock'.owner = q /\ (Holds(q)' => lock'.written)
    <3>1. ~raced /\ pc[p] = "created" /\ lock # None /\ lock.owner = p
      BY <2>2 DEF Write
    <3>2. lock' = [owner |-> p, written |-> TRUE] /\ lock' \in Files
      <4>1. lock' = [lock EXCEPT !.written = TRUE] /\ lock \in Files
        BY <2>2, <3>1 DEF Write
      <4> QED BY <3>1, <4>1 DEF Files
    <3>3. q = p
      BY <2>2, <3>1 DEF Write
    <3> QED BY <3>2, <3>3, LockAssumption
  <2>3. ASSUME NEW p \in Processes, FindExisting(p) \/ ReadOwner(p) \/ ReadAgain(p)
        PROVE  lock' # None /\ lock'.owner = q /\ (Holds(q)' => lock'.written)
    BY <2>3 DEF FindExisting, ReadOwner, ReadAgain
  <2>4. ASSUME NEW p \in Processes, Remove(p)
        PROVE  lock' # None /\ lock'.owner = q /\ (Holds(q)' => lock'.written)
    <3>1. ~raced /\ Owning(q) /\ IsRunning(q)
      BY <2>4 DEF Remove, IsRunning, Ended
    <3>2. lock # None /\ lock.owner = q
      BY <3>1
    <3>3. lock.owner = seen[p]
      BY <2>4, <3>2 DEF Remove
    <3>4. ~IsRunning(seen[p])
      BY <2>4 DEF Remove, StaleEnded
    <3> QED BY <3>1, <3>2, <3>3, <3>4
  <2>5. ASSUME NEW p \in Processes, ReadOwn(p)
        PROVE  lock' # None /\ lock'.owner = q /\ (Holds(q)' => lock'.written)
    BY <2>5 DEF ReadOwn
  <2>6. ASSUME NEW p \in Processes, Release(p)
        PROVE  lock' # None /\ lock'.owner = q /\ (Holds(q)' => lock'.written)
    <3>1. ~raced /\ pc[p] = "release" /\ q # p /\ Owning(q)
      BY <2>6 DEF Release
    <3>2. lock.owner = p /\ lock.owner = q
      BY <3>1
    <3> QED BY <3>1, <3>2
  <2>7. ASSUME NEW p \in Processes, Crash(p)
        PROVE  lock' # None /\ lock'.owner = q /\ (Holds(q)' => lock'.written)
    BY <2>7 DEF Crash
  <2>8. CASE UNCHANGED vars
    BY <2>8 DEF vars
  <2> QED BY <2>1, <2>2, <2>3, <2>4, <2>5, <2>6, <2>7, <2>8
             DEF Next, Enter, Reclaim, Exit
<1> QED BY <1>2, <1>3

\* The lock of a run directory has one holder, named by the file, unless a
\* process has removed a lock that replaced the one it read.
THEOREM LockExclusiveUnlessRaced == Spec => []ExclusiveUnlessRaced
<1>1. Init => LockInv
  BY DEF Init, LockInv, TypeOK, Places, Files, OwnersOwn, Owning, StaleEnded
<1>2. LockInv /\ TypeOK' /\ [Next]_vars => LockInv'
  BY LockStep
<1>3. LockInv => ExclusiveUnlessRaced
  <2> SUFFICES ASSUME LockInv, ~raced PROVE
        MutualExclusion /\ \A p \in Processes : Holds(p) => Owner = p
    BY DEF ExclusiveUnlessRaced
  <2>1. \A p \in Processes : Holds(p) => lock # None /\ lock.owner = p /\ lock.written
    BY DEF LockInv, OwnersOwn, Owning, Holds
  <2> QED BY <2>1 DEF MutualExclusion, Owner
<1> QED BY <1>1, <1>2, <1>3, LockTypeOK, PTL DEF Spec

-----------------------------------------------------------------------------
(* The artifact store.                                                     *)

\* A writer past the write of its target.
PastWrite(w) == step[w] \in {"mark", "markRename", "clean"}

\* Markers follow files, the manifest follows the data, whoever writes.
Layered ==
  /\ \A t \in Targets : marker[t] # Absent => file[t] # Absent
  /\ file["manifest"] # Absent => marker["data"] # Absent
  /\ \A w \in Writers : Saving(w) =>
       /\ request[w] \in Refs
       /\ target[w] = "manifest" => marker["data"] # Absent
       /\ PastWrite(w) => file[target[w]] # Absent
       /\ step[w] = "clean" => marker[target[w]] # Absent
       /\ step[w] = "check" => target[w] = "data"

\* Without a clash there is one content, from the check of the first save on.
Agreed ==
  ~clashed =>
    /\ marker["data"] \in {Absent, file["data"]}
    /\ file["manifest"] # Absent => file["manifest"].content = file["data"]
    /\ marker["manifest"] # Absent => marker["manifest"].content = file["data"]
    /\ \A ref \in returned : file["data"] = ref.content /\ marker["data"] = ref.content
    /\ \A v, w \in Writers : Saving(v) /\ Saving(w) => request[v].content = request[w].content
    /\ \A w \in Writers : Saving(w) =>
         /\ step[w] # "check" => file["data"] \in {Absent, request[w].content}
         /\ target[w] = "manifest" \/ PastWrite(w) => file["data"] = request[w].content

\* Without a race there is one writer, and nobody touches what it has seen.
Alone ==
  /\ clashed => overlapped
  /\ ~overlapped =>
       /\ \A v, w \in Writers : Saving(v) /\ Saving(w) => v = w
       /\ marker["manifest"] \in {Absent, file["manifest"]}
       /\ \A ref \in returned : file["manifest"] = ref /\ marker["manifest"] = ref
       /\ \A w \in Writers :
            /\ step[w] \in {"write", "rename"} => file[target[w]] = Absent
            /\ step[w] = "rename" => <<w, target[w]>> \in temps
            /\ PastWrite(w) => file[target[w]] = Value(w)
            /\ step[w] = "failed" =>
                 \/ file["data"] \notin {Absent, request[w].content}
                 \/ file["manifest"] \notin {Absent, request[w]}

StoreInv == StoreTypes /\ Layered /\ Agreed /\ Alone

-----------------------------------------------------------------------------

\* Every operation keeps the types.
LEMMA StoreTypeStep ==
  ASSUME StoreAssumption, StoreTypes, Layered, [StoreNext]_storeVars
  PROVE  StoreTypes'
<1> USE DEF storeVars, writerVars, history, Saving, Value, Proceed, StoreAssumption, StoreTypes,
   Targets, Steps, Refs, Layered
<1>1. ASSUME NEW w \in Writers, NEW ref \in Refs, Begin(w, ref) PROVE StoreTypes'
  BY <1>1 DEF Begin
<1>2. ASSUME NEW w \in Writers, Check(w) PROVE StoreTypes'
  BY <1>2 DEF Check
<1>3. ASSUME NEW w \in Writers, Look(w) PROVE StoreTypes'
  BY <1>3 DEF Look
<1>4. ASSUME NEW w \in Writers, WriteTemp(w) PROVE StoreTypes'
  BY <1>4 DEF WriteTemp
<1>5. ASSUME NEW w \in Writers, Rename(w) PROVE StoreTypes'
  BY <1>5 DEF Rename
<1>6. ASSUME NEW w \in Writers, Mark(w) PROVE StoreTypes'
  BY <1>6 DEF Mark
<1>7. ASSUME NEW w \in Writers, MarkRename(w) PROVE StoreTypes'
  BY <1>7 DEF MarkRename
<1>8. ASSUME NEW w \in Writers, Clean(w) PROVE StoreTypes'
  BY <1>8 DEF Clean
<1>9. ASSUME NEW w \in Writers, CrashSave(w) PROVE StoreTypes'
  BY <1>9 DEF CrashSave
<1>10. CASE UNCHANGED storeVars
  BY <1>10
<1> QED
  BY <1>1, <1>2, <1>3, <1>4, <1>5, <1>6, <1>7, <1>8, <1>9, <1>10 DEF StoreNext

\* The steps of a save come in their order.
LEMMA LayeredStep ==
  ASSUME StoreAssumption, StoreTypes, Layered, [StoreNext]_storeVars
  PROVE  Layered'
<1> USE DEF storeVars, writerVars, history, Saving, Value, Proceed, StoreAssumption, StoreTypes,
   Targets, Steps, Refs, Layered, PastWrite
<1>1. ASSUME NEW w \in Writers, NEW ref \in Refs, Begin(w, ref) PROVE Layered'
  BY <1>1 DEF Begin
<1>2. ASSUME NEW w \in Writers, Check(w) PROVE Layered'
  BY <1>2 DEF Check
<1>3. ASSUME NEW w \in Writers, Look(w) PROVE Layered'
  BY <1>3 DEF Look
<1>4. ASSUME NEW w \in Writers, WriteTemp(w) PROVE Layered'
  BY <1>4 DEF WriteTemp
<1>5. ASSUME NEW w \in Writers, Rename(w) PROVE Layered'
  BY <1>5 DEF Rename
<1>6. ASSUME NEW w \in Writers, Mark(w) PROVE Layered'
  BY <1>6 DEF Mark
<1>7. ASSUME NEW w \in Writers, MarkRename(w) PROVE Layered'
  BY <1>7 DEF MarkRename
<1>8. ASSUME NEW w \in Writers, Clean(w) PROVE Layered'
  BY <1>8 DEF Clean
<1>9. ASSUME NEW w \in Writers, CrashSave(w) PROVE Layered'
  BY <1>9 DEF CrashSave
<1>10. CASE UNCHANGED storeVars
  BY <1>10
<1> QED
  BY <1>1, <1>2, <1>3, <1>4, <1>5, <1>6, <1>7, <1>8, <1>9, <1>10 DEF StoreNext

\* A rename of other data needs a clash.
LEMMA AgreedStep ==
  ASSUME StoreAssumption, StoreTypes, Layered, Agreed, [StoreNext]_storeVars
  PROVE  Agreed'
<1> USE DEF storeVars, writerVars, history, Saving, Value, Proceed, StoreAssumption, StoreTypes,
   Targets, Steps, Refs, Layered, Agreed, PastWrite
<1>1. ASSUME NEW w \in Writers, NEW ref \in Refs, Begin(w, ref) PROVE Agreed'
  <2>1. /\ step'[w] = "check" /\ request'[w] = ref /\ target'[w] = "data"
        /\ \A v \in Writers \ {w} : step'[v] = step[v] /\ request'[v] = request[v] /\ target'[v] = target[v]
        /\ UNCHANGED <<file, marker, temps, returned>>
    BY <1>1 DEF Begin
  <2>2. ~clashed' => ~clashed /\ \A v \in Writers : Saving(v) => request[v].content = ref.content
    BY <1>1 DEF Begin
  <2> QED BY <1>1, <2>1, <2>2
<1>2. ASSUME NEW w \in Writers, Check(w) PROVE Agreed'
  BY <1>2 DEF Check
<1>3. ASSUME NEW w \in Writers, Look(w) PROVE Agreed'
  BY <1>3 DEF Look
<1>4. ASSUME NEW w \in Writers, WriteTemp(w) PROVE Agreed'
  BY <1>4 DEF WriteTemp
<1>5. ASSUME NEW w \in Writers, Rename(w) PROVE Agreed'
  BY <1>5 DEF Rename
<1>6. ASSUME NEW w \in Writers, Mark(w) PROVE Agreed'
  BY <1>6 DEF Mark
<1>7. ASSUME NEW w \in Writers, MarkRename(w) PROVE Agreed'
  BY <1>7 DEF MarkRename
<1>8. ASSUME NEW w \in Writers, Clean(w) PROVE Agreed'
  BY <1>8 DEF Clean
<1>9. ASSUME NEW w \in Writers, CrashSave(w) PROVE Agreed'
  BY <1>9 DEF CrashSave
<1>10. CASE UNCHANGED storeVars
  BY <1>10
<1> QED
  BY <1>1, <1>2, <1>3, <1>4, <1>5, <1>6, <1>7, <1>8, <1>9, <1>10 DEF StoreNext

\* What a lone writer has looked at is still so when it acts.
LEMMA AloneStep ==
  ASSUME StoreAssumption, StoreTypes, Layered, Agreed, Alone, [StoreNext]_storeVars
  PROVE  Alone'
<1> USE DEF storeVars, writerVars, history, Saving, Value, Proceed, StoreAssumption, StoreTypes,
   Targets, Steps, Refs, Layered, Agreed, Alone, PastWrite
<1>1. ASSUME NEW w \in Writers, NEW ref \in Refs, Begin(w, ref) PROVE Alone'
  <2>1. /\ step'[w] = "check" /\ request'[w] = ref /\ target'[w] = "data"
        /\ \A v \in Writers \ {w} : step'[v] = step[v] /\ request'[v] = request[v] /\ target'[v] = target[v]
        /\ UNCHANGED <<file, marker, temps, returned>>
    BY <1>1 DEF Begin
  <2>2. /\ ~overlapped' => ~overlapped /\ \A v \in Writers : ~Saving(v)
        /\ clashed' => clashed \/ overlapped'
    BY <1>1 DEF Begin
  <2> QED BY <1>1, <2>1, <2>2
<1>2. ASSUME NEW w \in Writers, Check(w) PROVE Alone'
  BY <1>2 DEF Check
<1>3. ASSUME NEW w \in Writers, Look(w) PROVE Alone'
  BY <1>3 DEF Look
<1>4. ASSUME NEW w \in Writers, WriteTemp(w) PROVE Alone'
  BY <1>4 DEF WriteTemp
<1>5. ASSUME NEW w \in Writers, Rename(w) PROVE Alone'
  BY <1>5 DEF Rename
<1>6. ASSUME NEW w \in Writers, Mark(w) PROVE Alone'
  BY <1>6 DEF Mark
<1>7. ASSUME NEW w \in Writers, MarkRename(w) PROVE Alone'
  <2>1. CASE target[w] = "data"
    BY <1>7, <2>1 DEF MarkRename
  <2>2. CASE target[w] = "manifest"
    <3>1. ~overlapped => file[target[w]] = Value(w)
      BY <1>7 DEF MarkRename
    <3>2. ~overlapped => marker'["manifest"] = file["manifest"]
      BY <1>7, <2>2, <3>1 DEF MarkRename
    <3> QED BY <1>7, <2>2, <3>1, <3>2 DEF MarkRename
  <2> QED BY <2>1, <2>2
<1>8. ASSUME NEW w \in Writers, Clean(w) PROVE Alone'
  <2>1. CASE target[w] = "data"
    BY <1>8, <2>1 DEF Clean
  <2>2. CASE target[w] = "manifest"
    <3>1. ~overlapped => file[target[w]] = Value(w)
      BY <1>8 DEF Clean
    <3>2. marker[target[w]] # Absent
      BY <1>8 DEF Clean
    <3>3. ~overlapped => file["manifest"] = request[w] /\ marker["manifest"] = request[w]
      BY <1>8, <2>2, <3>1, <3>2 DEF Clean
    <3> QED BY <1>8, <2>2, <3>3 DEF Clean
  <2> QED BY <2>1, <2>2
<1>9. ASSUME NEW w \in Writers, CrashSave(w) PROVE Alone'
  BY <1>9 DEF CrashSave
<1>10. CASE UNCHANGED storeVars
  BY <1>10
<1> QED
  BY <1>1, <1>2, <1>3, <1>4, <1>5, <1>6, <1>7, <1>8, <1>9, <1>10 DEF StoreNext

\* Nothing is saved.
LEMMA StoreInvInit == ASSUME StoreAssumption, StoreInit PROVE StoreInv
<1> USE DEF StoreInit, Targets, Saving, PastWrite, StoreAssumption
<1>1. StoreTypes
  <2>1. DOMAIN file = Targets /\ DOMAIN marker = Targets
    OBVIOUS
  <2>2. step \in [Writers -> Steps] /\ target \in [Writers -> Targets]
    BY DEF Steps
  <2>3. request \in [Writers -> Refs \cup {Absent}] /\ saves \in 0..MaxSaves
    OBVIOUS
  <2>4. \A t \in Targets : file[t] = Absent /\ marker[t] = Absent
    OBVIOUS
  <2> QED BY <2>1, <2>2, <2>3, <2>4 DEF StoreTypes
<1>2. Layered /\ Agreed
  BY DEF Layered, Agreed
<1>3. Alone
  BY DEF Alone
<1> QED BY <1>1, <1>2, <1>3 DEF StoreInv

\* The invariant of the store.
THEOREM StoreInvariant == ASSUME StoreAssumption PROVE StoreSpec => []StoreInv
<1>1. StoreInit => StoreInv
  BY StoreInvInit
<1>2. StoreInv /\ [StoreNext]_storeVars => StoreInv'
  BY StoreTypeStep, LayeredStep, AgreedStep, AloneStep DEF StoreInv
<1> QED BY <1>1, <1>2, PTL DEF StoreSpec

\* Files and markers hold what a writer has asked to save, or nothing.
THEOREM StoreTypeOK == ASSUME StoreAssumption PROVE StoreSpec => []StoreTypes
<1>1. StoreInv => StoreTypes
  BY DEF StoreInv
<1> QED BY <1>1, StoreInvariant, PTL

\* What save_bytes has returned verifies unless saves of different data
\* overlap, and loads unless two saves overlap.
THEOREM StoreSavedStays == ASSUME StoreAssumption PROVE StoreSpec => []SavedStays
<1>1. StoreInv => SavedStays
  BY DEF StoreInv, Agreed, Alone, SavedStays, Loads, Verifies
<1> QED BY <1>1, StoreInvariant, PTL

\* A committed manifest never stands without committed data.
THEOREM StoreManifestComesLast == ASSUME StoreAssumption PROVE StoreSpec => []ManifestComesLast
<1>1. StoreInv => ManifestComesLast
  BY DEF StoreInv, StoreTypes, Targets, Layered, Agreed, ManifestComesLast
<1> QED BY <1>1, StoreInvariant, PTL

\* A save fails only on other data or another created_at.
THEOREM StoreFailsOnlyOnConflict == ASSUME StoreAssumption PROVE StoreSpec => []FailsOnlyOnConflict
<1>1. StoreInv => FailsOnlyOnConflict
  BY DEF StoreInv, Alone, FailsOnlyOnConflict
<1> QED BY <1>1, StoreInvariant, PTL

-----------------------------------------------------------------------------
(* The index.  A kind of batch comes once, what a batch holds is a matter  *)
(* of its kind, and the one object that two kinds speak of is the root,    *)
(* which is not expanded after it is completed.  This is an invariant of   *)
(* the ledger, cut batches included; that of the tables needs it when the  *)
(* rows are inserted.  The second one says of every batch that it stands   *)
(* in the ledger as it was planned or as a part of it, and where each kind *)
(* of contribution change comes from.  The third one, the story, is that   *)
(* of a ledger of whole batches only: with it the tables agree.            *)

EventTypes ==
  Changes \cup Credits \cup
    {"leased", "released", "created", "running", "ended", "recovery", "request", "submission", "report",
     "bound", "invoked", "proposal", "decision", "plan", "relation", "expanded", "link", "merge", "resolved",
     "settlement", "pruned"}

Events == [type : EventTypes, obj : Nat, batch : Kinds \cup {"none"}, index : Nat, size : Nat]
LedgerTyped == ledger \in Seq(Events) /\ ledger # <<>>

OnceTypes == {"bound", "decision", "link", "merge", "resolved", "settlement", "pruned"}

\* The batch an event belongs to and the object it is about, type by type.
Claims == {"schedule", "reschedule", "dispatch"}

AtHome(type, obj, batch) ==
  /\ type = "unit"     => \/ batch = "none" /\ obj = 0
                          \/ batch = "expansion" /\ obj \in {1, 2}
                          \/ batch = "link" /\ obj = 3
  /\ type \in {"leased", "created", "running", "processing"} => batch \in Claims
  /\ type \in {"released", "ended", "recovery", "ready", "failed"} => batch = "recovery"
  /\ type \in {"request", "submission", "report", "bound", "invoked"} => batch = "none"
  /\ type \in {"proposal", "plan", "expanded"} => batch = "expansion" /\ obj = 0
  /\ type = "relation" => batch = "expansion"
  /\ type = "decision" => batch \in {"expansion", "completion"} /\ (batch = "expansion" => obj = 0)
  /\ type = "completed" => batch \in {"completion", "parent"} /\ (batch = "parent" => obj = 0)
  /\ type = "link"     => batch = "link" /\ obj = 3
  /\ type = "merge"    => batch = "resolution" /\ obj = 3
  /\ type = "resolved" => batch = "resolution"
  /\ type = "pending"  => batch = "none" /\ obj = 0
  /\ type = "earned"   => batch = "none" /\ obj \in {0, 1}
  /\ type = "eligible" => batch = "parent" /\ obj = 0
  /\ type = "settled"  => batch = "settlement"
  /\ type = "settlement" => batch = "settlement" /\ obj = 0
  /\ type = "cancelled"  => batch = "pruning"
  /\ type = "pruned"     => batch = "pruning" /\ obj = 0

HomesKept == \A i \in DOMAIN ledger : AtHome(ledger[i].type, ledger[i].obj, ledger[i].batch)

\* The root is completed and nothing that comes later changes it.
RootClosed ==
  \E i \in DOMAIN ledger :
    /\ ledger[i].type = "completed" /\ ledger[i].obj = 0
    /\ \A j \in DOMAIN ledger : j > i /\ ledger[j].type \in Changes /\ ledger[j].obj = 0 => ledger[j].type = "completed"

\* What may be an event of a batch of the kind, while the root is what it is.
Fits(type, obj, kind) ==
  /\ type \in EventTypes /\ obj \in Nat
  /\ AtHome(type, obj, kind)
  /\ RootClosed /\ type \in Changes /\ obj = 0 => type = "completed"

Fitting(kind) == {r \in [type : EventTypes, obj : Nat] : Fits(r.type, r.obj, kind)}

\* The types of a batch, and the objects that events of a type are about.
TypesOf(shape)       == [k \in 1..Len(shape) |-> shape[k].type]
Brought(shape, type) == {shape[k].obj : k \in {j \in DOMAIN shape : shape[j].type = type}}

\* A batch in which nothing comes twice that may come only once and no unit and
\* no contribution changes twice.
Regular(shape, kind) ==
  /\ shape \in Seq(Fitting(kind)) /\ shape # <<>>
  /\ \A i, j \in DOMAIN shape : shape[i].type \in OnceTypes /\ shape[i] = shape[j] => i = j
  /\ \A i, j \in DOMAIN shape : shape[i].type \in Changes /\ shape[j].type \in Changes /\ shape[i].obj = shape[j].obj => i = j
  /\ \A i, j \in DOMAIN shape : shape[i].type \in Credits /\ shape[j].type \in Credits /\ shape[i].obj = shape[j].obj => i = j

-----------------------------------------------------------------------------

\* A set of positions has a greatest one.
LEMMA Greatest ==
  ASSUME NEW S \in SUBSET Nat, S # {}, NEW n \in Nat, \A x \in S : x <= n
  PROVE  Max(S) \in S /\ \A x \in S : x <= Max(S)
<1> DEFINE bounds == {b \in Nat : \A x \in S : x <= b}
           less   == OpToRel(<, Nat)
<1>1. IsWellFoundedOn(less, Nat)
  BY NatLessThanWellFounded
<1>2. bounds \in SUBSET Nat /\ n \in bounds
  OBVIOUS
<1> HIDE DEF bounds
<1>3. PICK b \in bounds : \A c \in bounds : <<c, b>> \notin less
  <2> HIDE DEF less
  <2> QED BY <1>1, <1>2, WFMin
<1>4. ASSUME NEW c \in bounds PROVE b <= c
  <2>1. b \in Nat /\ c \in Nat
    BY <1>2
  <2>2. ~(c < b)
    BY <1>3, <2>1 DEF OpToRel
  <2> QED BY <2>1, <2>2
<1>5. b \in S
  <2> SUFFICES ASSUME b \notin S PROVE FALSE
    OBVIOUS
  <2>1. b \in Nat \ {0} /\ \A x \in S : x <= b - 1
    <3>1. b \in Nat /\ \A x \in S : x <= b /\ x # b /\ x \in Nat
      BY DEF bounds
    <3>2. PICK x \in S : TRUE
      OBVIOUS
    <3> QED BY <3>1, <3>2
  <2>2. b - 1 \in bounds
    BY <2>1 DEF bounds
  <2> QED BY <1>4, <2>1, <2>2
<1> QED BY <1>5 DEF Max, bounds

\* A closed root is completed.
LEMMA ClosedIsCompleted == ASSUME LedgerTyped, RootClosed PROVE State(0) = "completed"
<1> DEFINE at == About(ledger, Changes, 0)
<1>1. PICK i \in DOMAIN ledger :
        /\ ledger[i].type = "completed" /\ ledger[i].obj = 0
        /\ \A j \in DOMAIN ledger : j > i /\ ledger[j].type \in Changes /\ ledger[j].obj = 0 => ledger[j].type = "completed"
  BY DEF RootClosed
<1>2. i \in at /\ at \in SUBSET Nat /\ DOMAIN ledger = 1..Len(ledger) /\ Len(ledger) \in Nat /\ \A x \in at : x <= Len(ledger)
  BY <1>1 DEF LedgerTyped, About, Written, Changes
<1>3. Max(at) \in at /\ i <= Max(at)
  BY <1>2, Greatest
<1>4. ledger[Max(at)].type = "completed"
  <2>1. Max(at) \in DOMAIN ledger /\ ledger[Max(at)].type \in Changes /\ ledger[Max(at)].obj = 0
    BY <1>3 DEF About, Written
  <2> HIDE DEF at
  <2> QED BY <1>1, <1>2, <1>3, <2>1
<1> QED BY <1>2, <1>4 DEF State

\* The sets the engine draws from its events are finite sets of numbers.
LEMMA Drawn ==
  ASSUME LedgerTyped
  PROVE  /\ Attempt \in Nat /\ Worked \in {0, 1, 3}
         /\ IsFiniteSet(Owed) /\ Owed \subseteq Nat
         /\ IsFiniteSet(Cancellable) /\ Cancellable \subseteq Nat
         /\ ChildrenOf(ledger) \subseteq Nat
<1>1. IsFiniteSet(DOMAIN ledger) /\ \A i \in DOMAIN ledger : ledger[i].obj \in Nat
  <2>1. DOMAIN ledger = 1..Len(ledger) /\ Len(ledger) \in Nat /\ \A i \in DOMAIN ledger : ledger[i] \in Events
    BY DEF LedgerTyped
  <2> QED BY <2>1, FS_Interval DEF Events
<1>2. ASSUME NEW S \in SUBSET DOMAIN ledger
      PROVE  IsFiniteSet({ledger[i].obj : i \in S}) /\ {ledger[i].obj : i \in S} \subseteq Nat
  <2>1. IsFiniteSet(S)
    BY <1>1, FS_Subset
  <2>2. IsFiniteSet({ledger[i].obj : i \in S})
    <3> DEFINE T == {ledger[i].obj : i \in S}
               f == [i \in S |-> ledger[i].obj]
    <3>1. f \in Surjection(S, T)
      BY DEF Surjection
    <3> HIDE DEF f, T
    <3>2. IsFiniteSet(T)
      BY <2>1, <3>1, FS_Surjection
    <3> QED BY <3>2 DEF T
  <2> QED BY <1>1, <2>2
<1>3. \A types : IsFiniteSet(Objects(ledger, types)) /\ Objects(ledger, types) \subseteq Nat
  <2> SUFFICES ASSUME NEW types PROVE IsFiniteSet(Objects(ledger, types)) /\ Objects(ledger, types) \subseteq Nat
    OBVIOUS
  <2>1. Written(ledger, types) \in SUBSET DOMAIN ledger
    BY DEF Written
  <2> QED BY <1>2, <2>1 DEF Objects
<1>4. IsFiniteSet(ChildrenOf(ledger)) /\ ChildrenOf(ledger) \subseteq Nat
  <2> DEFINE S == {j \in Positions(ledger, "expansion") : ledger[j].type = "unit"}
  <2>1. S \in SUBSET DOMAIN ledger
    BY DEF Positions
  <2> HIDE DEF S
  <2>2. IsFiniteSet({ledger[i].obj : i \in S}) /\ {ledger[i].obj : i \in S} \subseteq Nat
    BY <1>2, <2>1
  <2> QED BY <2>2 DEF S, ChildrenOf
<1>5. Attempt \in Nat
  BY <1>3, FS_CardinalityType DEF Attempt
<1>6. Worked \in {0, 1, 3}
  BY DEF Worked
<1>7. IsFiniteSet(Owed) /\ Owed \subseteq Nat
  <2>1. Owed \subseteq Objects(ledger, Credits)
    BY DEF Owed
  <2> QED BY <1>3, <2>1, FS_Subset
<1>8. IsFiniteSet(Cancellable) /\ Cancellable \subseteq Nat
  <2>1. Cancellable \subseteq ChildrenOf(ledger)
    BY DEF Cancellable
  <2> QED BY <1>4, <2>1, FS_Subset
<1> QED BY <1>4, <1>5, <1>6, <1>7, <1>8

\* A function on an initial interval is a sequence.
LEMMA AsSequence ==
  ASSUME NEW X, NEW n \in Nat, NEW f \in [1..n -> X]
  PROVE  f \in Seq(X) /\ Len(f) = n
OBVIOUS
-----------------------------------------------------------------------------
(* The batches the engine may begin.                                       *)

\* A draft of what fits.
LEMMA Drafted ==
  ASSUME NEW kind, NEW type, NEW obj, Fits(type, obj, kind)
  PROVE  /\ Draft(type, obj) \in Fitting(kind)
         /\ Draft(type, obj).type = type /\ Draft(type, obj).obj = obj
BY DEF Draft, Fits, Fitting

\* A unit and an attempt are claimed together.
LEMMA ClaimShape ==
  ASSUME NEW kind \in Claims, NEW u \in Nat, NEW n \in Nat, RootClosed => u # 0, NEW shape, shape = Claim(u, n)
  PROVE  /\ Regular(shape, kind)
         /\ Brought(shape, "leased") = {n} /\ Brought(shape, "created") = {n} /\ Brought(shape, "processing") = {u}
<1>1. /\ Fits("leased", n, kind) /\ Fits("created", n, kind)
      /\ Fits("running", n, kind) /\ Fits("processing", u, kind)
  BY DEF Fits, AtHome, Claims, EventTypes, Changes, Credits
<1>2. PICK a, b, c, d : /\ a = Draft("leased", n) /\ b = Draft("created", n)
                        /\ c = Draft("running", n) /\ d = Draft("processing", u)
  OBVIOUS
<1>3. /\ a \in Fitting(kind) /\ a.type = "leased" /\ a.obj = n
      /\ b \in Fitting(kind) /\ b.type = "created" /\ b.obj = n
      /\ c \in Fitting(kind) /\ c.type = "running" /\ c.obj = n
      /\ d \in Fitting(kind) /\ d.type = "processing" /\ d.obj = u
  BY <1>1, <1>2, Drafted
<1>4. shape = <<a, b, c, d>>
  BY <1>2 DEF Claim
<1>5. shape \in Seq(Fitting(kind)) /\ DOMAIN shape = {1, 2, 3, 4} /\ shape[1] = a /\ shape[2] = b /\ shape[3] = c /\ shape[4] = d
  BY <1>3, <1>4
<1>6. Regular(shape, kind)
  <2>1. \A i \in DOMAIN shape : shape[i].type \notin OnceTypes \cup Credits /\ (shape[i].type \in Changes => i = 4)
    BY <1>3, <1>5 DEF OnceTypes, Changes, Credits
  <2> QED BY <1>4, <1>5, <2>1 DEF Regular
<1> QED BY <1>3, <1>5, <1>6 DEF Brought

\* A lease is released, its attempt ended, the unit ready again or failed.
LEMMA RecoveryShape ==
  ASSUME NEW u \in Nat, NEW n \in Nat, RootClosed => u # 0, NEW state \in {"ready", "failed"},
         NEW shape, shape = Releasing(u, n, state)
  PROVE  /\ Regular(shape, "recovery")
         /\ Brought(shape, "released") = {n} /\ Brought(shape, "recovery") = {n} /\ Brought(shape, "ended") \subseteq {n}
         /\ \A type \in Changes : Brought(shape, type) \subseteq {u}
<1> DEFINE K == "recovery"
<1>1. Fits("released", n, K) /\ Fits("ended", n, K) /\ Fits("recovery", n, K) /\ Fits(state, u, K)
  BY DEF Fits, AtHome, Claims, EventTypes, Changes, Credits
<1>2. PICK a, b, c, d : /\ a = Draft("released", n) /\ b = Draft("ended", n)
                        /\ c = Draft("recovery", n) /\ d = Draft(state, u)
  OBVIOUS
<1>3. /\ a \in Fitting(K) /\ a.type = "released" /\ a.obj = n
      /\ b \in Fitting(K) /\ b.type = "ended" /\ b.obj = n
      /\ c \in Fitting(K) /\ c.type = "recovery" /\ c.obj = n
      /\ d \in Fitting(K) /\ d.type = state /\ d.obj = u
  BY <1>1, <1>2, Drafted
<1>4. shape = IF Reported THEN <<a, c, d>> ELSE <<a, b, c, d>>
  BY <1>2 DEF Releasing
<1>5. CASE Reported
  <2>1. shape \in Seq(Fitting(K)) /\ DOMAIN shape = {1, 2, 3} /\ shape[1] = a /\ shape[2] = c /\ shape[3] = d
    BY <1>3, <1>4, <1>5
  <2>2. Regular(shape, K)
    <3>1. \A i \in DOMAIN shape : shape[i].type \notin OnceTypes \cup Credits /\ (shape[i].type \in Changes => i = 3)
      BY <1>3, <2>1 DEF OnceTypes, Changes, Credits
    <3> QED BY <1>4, <1>5, <2>1, <3>1 DEF Regular
  <2> QED BY <1>3, <2>1, <2>2 DEF Brought, Changes
<1>6. CASE ~Reported
  <2>1. /\ shape \in Seq(Fitting(K)) /\ DOMAIN shape = {1, 2, 3, 4}
        /\ shape[1] = a /\ shape[2] = b /\ shape[3] = c /\ shape[4] = d
    BY <1>3, <1>4, <1>6
  <2>2. Regular(shape, K)
    <3>1. \A i \in DOMAIN shape : shape[i].type \notin OnceTypes \cup Credits /\ (shape[i].type \in Changes => i = 4)
      BY <1>3, <2>1 DEF OnceTypes, Changes, Credits
    <3> QED BY <1>4, <1>6, <2>1, <3>1 DEF Regular
  <2> QED BY <1>3, <2>1, <2>2 DEF Brought, Changes
<1> QED BY <1>5, <1>6

\* The root is expanded into its children.
LEMMA ExpansionShape ==
  ASSUME NEW n \in 1..2, NEW m \in 0..1, m < n, NEW shape, shape = Expansion(n, m)
  PROVE  /\ Regular(shape, "expansion") /\ ValidateExpansionBatch(TypesOf(shape))
         /\ Brought(shape, "proposal") = {0} /\ Brought(shape, "plan") = {0} /\ Brought(shape, "decision") = {0}
         /\ Brought(shape, "unit") = 1..n /\ Brought(shape, "relation") = 1..m
<1> DEFINE K == "expansion"
<1>1. /\ Fits("proposal", 0, K) /\ Fits("decision", 0, K) /\ Fits("plan", 0, K) /\ Fits("expanded", 0, K)
      /\ \A o \in 1..n : Fits("unit", o, K)
      /\ \A o \in 1..m : Fits("relation", o, K)
  BY DEF Fits, AtHome, Claims, EventTypes, Changes, Credits
<1>2. PICK a, b, c, d, units, relations :
        /\ a = Draft("proposal", 0) /\ b = Draft("decision", 0) /\ c = Draft("plan", 0) /\ d = Draft("expanded", 0)
        /\ units = Numbered("unit", n) /\ relations = Numbered("relation", m)
  OBVIOUS
<1>3. /\ a \in Fitting(K) /\ a.type = "proposal" /\ a.obj = 0
      /\ b \in Fitting(K) /\ b.type = "decision" /\ b.obj = 0
      /\ c \in Fitting(K) /\ c.type = "plan" /\ c.obj = 0
      /\ d \in Fitting(K) /\ d.type = "expanded" /\ d.obj = 0
      /\ \A o \in 1..n : Draft("unit", o) \in Fitting(K) /\ Draft("unit", o).type = "unit" /\ Draft("unit", o).obj = o
      /\ \A o \in 1..m : Draft("relation", o) \in Fitting(K) /\ Draft("relation", o).type = "relation" /\ Draft("relation", o).obj = o
  BY <1>1, <1>2, Drafted
<1>4. /\ units \in Seq(Fitting(K)) /\ Len(units) = n
      /\ \A o \in 1..n : units[o] \in Fitting(K) /\ units[o].type = "unit" /\ units[o].obj = o
  <2>1. n \in Nat /\ units = [o \in 1..n |-> Draft("unit", o)]
    BY <1>2 DEF Numbered
  <2>2. units \in [1..n -> Fitting(K)] /\ \A o \in 1..n : units[o].type = "unit" /\ units[o].obj = o
    BY <1>3, <2>1
  <2> HIDE DEF K
  <2> QED BY <2>1, <2>2, AsSequence
<1>5. /\ relations \in Seq(Fitting(K)) /\ Len(relations) = m
      /\ \A o \in 1..m : relations[o] \in Fitting(K) /\ relations[o].type = "relation" /\ relations[o].obj = o
  <2>1. m \in Nat /\ relations = [o \in 1..m |-> Draft("relation", o)]
    BY <1>2 DEF Numbered
  <2>2. relations \in [1..m -> Fitting(K)] /\ \A o \in 1..m : relations[o].type = "relation" /\ relations[o].obj = o
    BY <1>3, <2>1
  <2> HIDE DEF K
  <2> QED BY <2>1, <2>2, AsSequence
<1>6. shape = <<a, b, c>> \o units \o relations \o <<d>>
  BY <1>2 DEF Expansion
<1> HIDE DEF K
<1>7. /\ shape \in Seq(Fitting(K)) /\ Len(shape) = 4 + n + m /\ DOMAIN shape = 1..(4 + n + m)
      /\ shape[1] = a /\ shape[2] = b /\ shape[3] = c
      /\ \A o \in 1..n : shape[3 + o] = units[o]
      /\ \A o \in 1..m : shape[3 + n + o] = relations[o]
      /\ shape[4 + n + m] = d
  <2>1. n \in Nat /\ m \in Nat /\ <<a, b, c>> \in Seq(Fitting(K)) /\ <<d>> \in Seq(Fitting(K))
    BY <1>3
  <2>2. PICK s, t, v : s = <<a, b, c>> \o units /\ t = s \o relations /\ v = <<d>>
    OBVIOUS
  <2>3. s \in Seq(Fitting(K)) /\ Len(s) = 3 + n /\ s[1] = a /\ s[2] = b /\ s[3] = c /\ \A o \in 1..n : s[3 + o] = units[o]
    BY <1>4, <2>1, <2>2
  <2>4. /\ t \in Seq(Fitting(K)) /\ Len(t) = 3 + n + m /\ \A k \in 1..(3 + n) : t[k] = s[k]
        /\ \A o \in 1..m : t[3 + n + o] = relations[o]
    BY <1>5, <2>1, <2>2, <2>3
  <2>5. /\ shape \in Seq(Fitting(K)) /\ Len(shape) = 4 + n + m /\ \A k \in 1..(3 + n + m) : shape[k] = t[k]
        /\ shape[4 + n + m] = d
    BY <1>6, <2>1, <2>2, <2>4
  <2> QED BY <2>1, <2>3, <2>4, <2>5
<1>8. /\ shape[1].type = "proposal" /\ shape[1].obj = 0
      /\ shape[2].type = "decision" /\ shape[2].obj = 0
      /\ shape[3].type = "plan" /\ shape[3].obj = 0
      /\ shape[4].type = "unit" /\ shape[4].obj = 1
      /\ n = 2 => shape[5].type = "unit" /\ shape[5].obj = 2
      /\ m = 1 => shape[6].type = "relation" /\ shape[6].obj = 1
      /\ shape[4 + n + m].type = "expanded"
  BY <1>3, <1>4, <1>5, <1>7
<1>9. Regular(shape, K)
  <2>1. \A i, j \in DOMAIN shape : shape[i].type \in OnceTypes => i = 2
    BY <1>7, <1>8 DEF OnceTypes
  <2>2. \A i \in DOMAIN shape : shape[i].type \in Changes => (i = 4 /\ shape[i].obj = 1) \/ (i = 5 /\ shape[i].obj = 2)
    BY <1>7, <1>8 DEF Changes
  <2>3. \A i \in DOMAIN shape : shape[i].type \notin Credits
    BY <1>7, <1>8 DEF Credits
  <2> QED BY <1>7, <2>1, <2>2, <2>3 DEF Regular
<1>10. ValidateExpansionBatch(TypesOf(shape))
  <2>1. PICK types : types = TypesOf(shape)
    OBVIOUS
  <2>2. types \in Seq(EventTypes) /\ Len(types) = 4 + n + m /\ \A k \in 1..(4 + n + m) : types[k] = shape[k].type
    <3>1. types \in [1..(4 + n + m) -> EventTypes] /\ \A k \in 1..(4 + n + m) : types[k] = shape[k].type
      BY <1>7, <2>1 DEF TypesOf, Fitting
    <3>2. 4 + n + m \in Nat
      OBVIOUS
    <3>3. types \in Seq(EventTypes)
      BY <3>1, <3>2, AsSequence
    <3> QED BY <3>1, <3>2, <3>3
  <2>3. SubSeq(types, 1, 3) = <<"proposal", "decision", "plan">>
    <3>1. PICK s : s = SubSeq(types, 1, 3)
      OBVIOUS
    <3>2. s \in Seq(EventTypes) /\ Len(s) = 3 /\ s[1] = "proposal" /\ s[2] = "decision" /\ s[3] = "plan"
      BY <1>8, <2>2, <3>1
    <3>3. <<"proposal", "decision", "plan">> = s
      BY <3>2
    <3> QED BY <3>1, <3>3
  <2>4. PICK last : last = 3 + n
    OBVIOUS
  <2>5. AllOf(types, 4, last, "unit") /\ AllOf(types, last + 1, Len(types) - 1, "relation") /\ last \in 3..(Len(types) - 1)
    BY <1>8, <2>2, <2>4 DEF AllOf
  <2>6. types[Len(types)] = "expanded" /\ Len(types) >= 4
    BY <1>8, <2>2
  <2> QED BY <2>1, <2>3, <2>5, <2>6 DEF ValidateExpansionBatch
<1>11. /\ Brought(shape, "proposal") = {0} /\ Brought(shape, "plan") = {0} /\ Brought(shape, "decision") = {0}
       /\ Brought(shape, "unit") = 1..n /\ Brought(shape, "relation") = 1..m
  <2>1. \A k \in DOMAIN shape : k \in {1, 2, 3, 4, 5, 6, 7}
    BY <1>7
  <2>2. CASE n = 1
    <3>1. Brought(shape, "proposal") = {0} /\ Brought(shape, "plan") = {0} /\ Brought(shape, "decision") = {0}
      BY <1>7, <1>8, <2>1, <2>2 DEF Brought
    <3>2. Brought(shape, "unit") = 1..n
      BY <1>7, <1>8, <2>1, <2>2 DEF Brought
    <3>3. Brought(shape, "relation") = 1..m
      BY <1>7, <1>8, <2>1, <2>2 DEF Brought
    <3> QED BY <3>1, <3>2, <3>3
  <2>3. CASE n = 2 /\ m = 0
    <3>1. Brought(shape, "proposal") = {0} /\ Brought(shape, "plan") = {0} /\ Brought(shape, "decision") = {0}
      BY <1>7, <1>8, <2>1, <2>3 DEF Brought
    <3>2. Brought(shape, "unit") = 1..n
      BY <1>7, <1>8, <2>1, <2>3 DEF Brought
    <3>3. Brought(shape, "relation") = 1..m
      BY <1>7, <1>8, <2>1, <2>3 DEF Brought
    <3> QED BY <3>1, <3>2, <3>3
  <2>4. CASE n = 2 /\ m = 1
    <3>1. Brought(shape, "proposal") = {0} /\ Brought(shape, "plan") = {0} /\ Brought(shape, "decision") = {0}
      BY <1>7, <1>8, <2>1, <2>4 DEF Brought
    <3>2. Brought(shape, "unit") = 1..n
      BY <1>7, <1>8, <2>1, <2>4 DEF Brought
    <3>3. Brought(shape, "relation") = 1..m
      BY <1>7, <1>8, <2>1, <2>4 DEF Brought
    <3> QED BY <3>1, <3>2, <3>3
  <2> QED BY <2>2, <2>3, <2>4
<1> QED BY <1>9, <1>10, <1>11 DEF K

\* A unit is completed on its own; its decision comes before.
LEMMA CompletionShape ==
  ASSUME NEW u \in Nat, NEW shape, shape = <<Draft("decision", u), Draft("completed", u)>>
  PROVE  /\ Regular(shape, "completion") /\ ValidateCompletionBatch(TypesOf(shape))
         /\ Len(shape) = 2 /\ shape[1] = Draft("decision", u) /\ shape[2] = Draft("completed", u)
         /\ Brought(shape, "decision") = {u} /\ Brought(shape, "completed") = {u}
<1> DEFINE K == "completion"
<1>1. Fits("decision", u, K) /\ Fits("completed", u, K)
  BY DEF Fits, AtHome, Claims, EventTypes, Changes, Credits
<1>2. PICK a, b : a = Draft("decision", u) /\ b = Draft("completed", u)
  OBVIOUS
<1>3. /\ a \in Fitting(K) /\ a.type = "decision" /\ a.obj = u
      /\ b \in Fitting(K) /\ b.type = "completed" /\ b.obj = u
  BY <1>1, <1>2, Drafted
<1>4. shape = <<a, b>>
  BY <1>2
<1>5. shape \in Seq(Fitting(K)) /\ Len(shape) = 2 /\ DOMAIN shape = {1, 2} /\ shape[1] = a /\ shape[2] = b
  BY <1>3, <1>4
<1>6. Regular(shape, K)
  BY <1>3, <1>4, <1>5 DEF Regular, OnceTypes, Changes, Credits
<1>7. TypesOf(shape) = <<"decision", "completed">>
  BY <1>3, <1>5 DEF TypesOf
<1> QED BY <1>2, <1>3, <1>5, <1>6, <1>7 DEF Brought, ValidateCompletionBatch

\* The merge unit and its link.
LEMMA LinkShape ==
  ASSUME NEW shape, shape = <<Draft("unit", 3), Draft("link", 3)>>
  PROVE  /\ Regular(shape, "link") /\ ValidateMergeTaskCreationBatch(TypesOf(shape))
         /\ Brought(shape, "unit") = {3} /\ Brought(shape, "link") = {3}
<1> DEFINE K == "link"
<1>1. Fits("unit", 3, K) /\ Fits("link", 3, K)
  BY DEF Fits, AtHome, Claims, EventTypes, Changes, Credits
<1>2. PICK a, b : a = Draft("unit", 3) /\ b = Draft("link", 3)
  OBVIOUS
<1>3. /\ a \in Fitting(K) /\ a.type = "unit" /\ a.obj = 3
      /\ b \in Fitting(K) /\ b.type = "link" /\ b.obj = 3
  BY <1>1, <1>2, Drafted
<1>4. shape = <<a, b>>
  BY <1>2
<1>5. shape \in Seq(Fitting(K)) /\ Len(shape) = 2 /\ DOMAIN shape = {1, 2} /\ shape[1] = a /\ shape[2] = b
  BY <1>3, <1>4
<1>6. Regular(shape, K)
  BY <1>3, <1>4, <1>5 DEF Regular, OnceTypes, Changes, Credits
<1>7. TypesOf(shape) = <<"unit", "link">>
  BY <1>3, <1>5 DEF TypesOf
<1> QED BY <1>3, <1>5, <1>6, <1>7 DEF Brought, ValidateMergeTaskCreationBatch

\* The root is completed and its contribution may be paid.
LEMMA ParentShape ==
  ASSUME NEW shape, shape = <<Draft("completed", 0), Draft("eligible", 0)>>
  PROVE  /\ Regular(shape, "parent") /\ ValidateParentCompletionBatch(TypesOf(shape))
         /\ Len(shape) = 2 /\ shape[1] = Draft("completed", 0) /\ shape[2] = Draft("eligible", 0)
         /\ Brought(shape, "completed") = {0} /\ Brought(shape, "eligible") = {0}
<1> DEFINE K == "parent"
<1>1. Fits("completed", 0, K) /\ Fits("eligible", 0, K)
  BY DEF Fits, AtHome, Claims, EventTypes, Changes, Credits
<1>2. PICK a, b : a = Draft("completed", 0) /\ b = Draft("eligible", 0)
  OBVIOUS
<1>3. /\ a \in Fitting(K) /\ a.type = "completed" /\ a.obj = 0
      /\ b \in Fitting(K) /\ b.type = "eligible" /\ b.obj = 0
  BY <1>1, <1>2, Drafted
<1>4. shape = <<a, b>>
  BY <1>2
<1>5. shape \in Seq(Fitting(K)) /\ Len(shape) = 2 /\ DOMAIN shape = {1, 2} /\ shape[1] = a /\ shape[2] = b
  BY <1>3, <1>4
<1>6. Regular(shape, K)
  BY <1>3, <1>4, <1>5 DEF Regular, OnceTypes, Changes, Credits
<1>7. PICK types : types = TypesOf(shape)
  OBVIOUS
<1>8. types = <<"completed", "eligible">>
  BY <1>3, <1>5, <1>7 DEF TypesOf
<1>9. ValidateParentCompletionBatch(types)
  BY <1>8 DEF ValidateParentCompletionBatch, AllOf
<1> QED BY <1>2, <1>3, <1>5, <1>6, <1>7, <1>9 DEF Brought

\* The outputs the merge resolves.
LEMMA ResolutionShape ==
  ASSUME NEW n \in Nat, n >= 1, NEW shape, shape = <<Draft("merge", 3)>> \o Numbered("resolved", n)
  PROVE  /\ Regular(shape, "resolution") /\ ValidateMergeResolutionBatch(TypesOf(shape))
         /\ Brought(shape, "merge") = {3} /\ Brought(shape, "resolved") = 1..n
<1> DEFINE K == "resolution"
<1>1. Fits("merge", 3, K) /\ \A o \in 1..n : Fits("resolved", o, K)
  BY DEF Fits, AtHome, Claims, EventTypes, Changes, Credits
<1>2. PICK a, s : a = Draft("merge", 3) /\ s = Numbered("resolved", n)
  OBVIOUS
<1>3. /\ a \in Fitting(K) /\ a.type = "merge" /\ a.obj = 3
      /\ \A o \in 1..n : Draft("resolved", o) \in Fitting(K) /\ Draft("resolved", o).type = "resolved" /\ Draft("resolved", o).obj = o
  BY <1>1, <1>2, Drafted
<1>4. s \in Seq(Fitting(K)) /\ Len(s) = n /\ \A o \in 1..n : s[o] \in Fitting(K) /\ s[o].type = "resolved" /\ s[o].obj = o
  <2>1. s = [o \in 1..n |-> Draft("resolved", o)]
    BY <1>2 DEF Numbered
  <2>2. s \in [1..n -> Fitting(K)] /\ \A o \in 1..n : s[o].type = "resolved" /\ s[o].obj = o
    BY <1>3, <2>1
  <2> HIDE DEF K
  <2> QED BY <2>1, <2>2, AsSequence
<1> HIDE DEF K
<1>5. /\ shape \in Seq(Fitting(K)) /\ Len(shape) = n + 1 /\ DOMAIN shape = 1..(n + 1) /\ shape[1] = a
      /\ \A o \in 1..n : shape[1 + o] = s[o]
  BY <1>2, <1>3, <1>4
<1>6. \A k \in DOMAIN shape : \/ k = 1 /\ shape[k].type = "merge" /\ shape[k].obj = 3
                              \/ k \in 2..(n + 1) /\ shape[k].type = "resolved" /\ shape[k].obj = k - 1
  <2> SUFFICES ASSUME NEW k \in DOMAIN shape, k # 1
               PROVE  k \in 2..(n + 1) /\ shape[k].type = "resolved" /\ shape[k].obj = k - 1
    BY <1>3, <1>5
  <2>1. k - 1 \in 1..n /\ k = 1 + (k - 1)
    BY <1>5
  <2> QED BY <1>4, <1>5, <2>1
<1>7. Regular(shape, K)
  <2>1. shape # <<>>
    BY <1>5
  <2>2. \A k \in DOMAIN shape : shape[k].type \notin Changes \cup Credits
    BY <1>6 DEF Changes, Credits
  <2>3. \A k, l \in DOMAIN shape : shape[k] = shape[l] => k = l
    BY <1>5, <1>6
  <2> QED BY <1>5, <2>1, <2>2, <2>3 DEF Regular
<1>8. ValidateMergeResolutionBatch(TypesOf(shape))
  <2>1. PICK types : types = TypesOf(shape)
    OBVIOUS
  <2>2. types \in Seq(EventTypes) /\ Len(types) = n + 1 /\ \A k \in 1..(n + 1) : types[k] = shape[k].type
    <3>1. types \in [1..(n + 1) -> EventTypes] /\ \A k \in 1..(n + 1) : types[k] = shape[k].type
      BY <1>5, <2>1 DEF TypesOf, Fitting
    <3>2. n + 1 \in Nat
      OBVIOUS
    <3>3. types \in Seq(EventTypes) /\ Len(types) = n + 1
      BY <3>1, <3>2, AsSequence
    <3> QED BY <3>1, <3>3
  <2>3. Head(types) = "merge" /\ Len(types) >= 2 /\ AllOf(types, 2, Len(types), "resolved")
    <3>1. \A k \in 1..(n + 1) : types[k] = shape[k].type /\ k \in DOMAIN shape
      BY <1>5, <2>2
    <3>2. 1 \in 1..(n + 1) /\ \A k \in 2..(n + 1) : k \in 1..(n + 1) /\ k # 1
      OBVIOUS
    <3>4. types[1] = "merge" /\ \A k \in 2..(n + 1) : types[k] = "resolved"
      BY <1>6, <3>1, <3>2
    <3> QED BY <2>2, <3>4 DEF AllOf
  <2> QED BY <2>1, <2>3 DEF ValidateMergeResolutionBatch
<1>9. Brought(shape, "merge") = {3} /\ Brought(shape, "resolved") = 1..n
  <2>1. Brought(shape, "merge") = {3}
    BY <1>5, <1>6 DEF Brought
  <2>2. ASSUME NEW o \in 1..n PROVE o \in Brought(shape, "resolved")
    <3>1. PICK k : k = o + 1
      OBVIOUS
    <3>2. k \in DOMAIN shape /\ k # 1 /\ k - 1 = o
      BY <1>5, <3>1
    <3>3. shape[k].type = "resolved" /\ shape[k].obj = o
      BY <1>6, <3>2
    <3> QED BY <3>2, <3>3 DEF Brought
  <2>3. Brought(shape, "resolved") \subseteq 1..n
    BY <1>6 DEF Brought
  <2> QED BY <2>1, <2>2, <2>3
<1> QED BY <1>7, <1>8, <1>9 DEF K

\* Objects that may each get an event of the type, before one that closes the
\* batch.
Closable(kind, type, last, objs) ==
  /\ type \in EventTypes \ OnceTypes /\ last \in OnceTypes
  /\ objs \subseteq Nat /\ IsFiniteSet(objs) /\ objs # {}
  /\ Fits(last, 0, kind) /\ \A o \in objs : Fits(type, o, kind)

Closed(shape, type, last, objs) ==
  /\ Brought(shape, type) = objs /\ Brought(shape, last) = {0}
  /\ Len(shape) = Cardinality(objs) + 1
  /\ Len(TypesOf(shape)) = Len(shape) /\ Len(shape) >= 2 /\ TypesOf(shape)[Len(shape)] = last
  /\ AllOf(TypesOf(shape), 1, Len(shape) - 1, type)

\* One event for each of a set of objects, and one that closes the batch.
LEMMA ClosingShape ==
  ASSUME NEW kind, NEW type, NEW last, NEW objs, Closable(kind, type, last, objs),
         NEW drafts \in Drafts(type, objs), NEW shape, shape = Append(drafts, Draft(last, 0))
  PROVE  Regular(shape, kind) /\ Closed(shape, type, last, objs)
<1>0. /\ type \in EventTypes /\ type \notin OnceTypes /\ last \in OnceTypes
      /\ objs \subseteq Nat /\ IsFiniteSet(objs) /\ objs # {}
      /\ Fits(last, 0, kind) /\ \A o \in objs : Fits(type, o, kind)
  BY DEF Closable
<1>1. PICK n : n = Cardinality(objs)
  OBVIOUS
<1>2. n \in Nat /\ n >= 1
  <2>1. n \in Nat /\ n # 0
    BY <1>0, <1>1, FS_CardinalityType, FS_EmptySet
  <2> QED BY <2>1
<1>3. PICK order \in [1..n -> objs] :
        /\ drafts = [i \in DOMAIN order |-> Draft(type, order[i])]
        /\ \A i, j \in DOMAIN order : i < j => order[i] < order[j]
  BY <1>1 DEF Drafts
<1>4. \A i, j \in 1..n : order[i] = order[j] => i = j
  <2> SUFFICES ASSUME NEW i \in 1..n, NEW j \in 1..n, i # j, order[i] = order[j] PROVE FALSE
    OBVIOUS
  <2>1. order[i] \in Nat /\ order[j] \in Nat /\ i \in Nat /\ j \in Nat
    <3>1. order[i] \in objs /\ order[j] \in objs
      BY <1>3
    <3>2. \A o \in objs : o \in Nat
      BY <1>0
    <3>3. i \in Nat /\ j \in Nat
      BY <1>2
    <3> QED BY <3>1, <3>2, <3>3
  <2>2. i < j \/ j < i
    BY <2>1
  <2> QED BY <1>3, <2>1, <2>2
<1>5. \A o \in objs : \E i \in 1..n : order[i] = o
  <2>1. order \in Injection(1..n, objs)
    BY <1>3, <1>4 DEF Injection, IsInjective
  <2>2. IsFiniteSet(1..n) /\ Cardinality(1..n) = n
    BY <1>2, FS_Interval
  <2>3. order \in Surjection(1..n, objs)
    BY <1>0, <1>1, <2>1, <2>2, FS_Injection
  <2> QED BY <2>3 DEF Surjection
<1>6. drafts \in Seq(Fitting(kind)) /\ Len(drafts) = n /\ \A k \in 1..n : drafts[k].type = type /\ drafts[k].obj = order[k]
  <2>1. \A k \in 1..n : /\ Draft(type, order[k]) \in Fitting(kind)
                        /\ Draft(type, order[k]).type = type /\ Draft(type, order[k]).obj = order[k]
    <3>1. \A k \in 1..n : Fits(type, order[k], kind)
      BY <1>0, <1>3
    <3> QED BY <3>1, Drafted
  <2>2. drafts \in [1..n -> Fitting(kind)] /\ \A k \in 1..n : drafts[k].type = type /\ drafts[k].obj = order[k]
    BY <1>3, <2>1
  <2> QED BY <1>2, <2>2, AsSequence
<1>7. PICK d : d = Draft(last, 0)
  OBVIOUS
<1>8. d \in Fitting(kind) /\ d.type = last /\ d.obj = 0
  BY <1>0, <1>7, Drafted
<1>9. /\ shape \in Seq(Fitting(kind)) /\ Len(shape) = n + 1 /\ DOMAIN shape = 1..(n + 1) /\ shape[n + 1] = d
      /\ \A k \in 1..n : shape[k].type = type /\ shape[k].obj = order[k]
  BY <1>2, <1>6, <1>7, <1>8
<1>10. \A k \in DOMAIN shape : k \in 1..n \/ k = n + 1
  BY <1>2, <1>9
<1>11. Regular(shape, kind)
  <2>1. shape # <<>>
    BY <1>2, <1>9
  <2>2. \A k \in DOMAIN shape : shape[k].type \in OnceTypes => k = n + 1
    BY <1>0, <1>9, <1>10
  <2>3. last \notin Changes \cup Credits
    BY <1>0 DEF OnceTypes, Changes, Credits
  <2>4. \A k, l \in DOMAIN shape :
          shape[k].type \in Changes \cup Credits /\ shape[l].type \in Changes \cup Credits /\ shape[k].obj = shape[l].obj => k = l
    BY <1>4, <1>8, <1>9, <1>10, <2>3
  <2> QED BY <1>9, <2>1, <2>2, <2>4 DEF Regular
<1>12. Brought(shape, type) = objs /\ Brought(shape, last) = {0}
  <2>1. \A k \in 1..n : k \in DOMAIN shape
    BY <1>2, <1>9
  <2>2. Brought(shape, type) \subseteq objs
    <3>1. \A k \in DOMAIN shape : shape[k].type = type => k \in 1..n
      BY <1>0, <1>8, <1>9, <1>10
    <3>2. \A k \in 1..n : shape[k].obj \in objs
      BY <1>3, <1>9
    <3> QED BY <3>1, <3>2 DEF Brought
  <2>3. objs \subseteq Brought(shape, type)
    BY <1>5, <1>9, <2>1 DEF Brought
  <2>4. n + 1 \in DOMAIN shape
    BY <1>2, <1>9
  <2>5. Brought(shape, last) = {0}
    BY <1>0, <1>8, <1>9, <1>10, <2>4 DEF Brought
  <2> QED BY <2>2, <2>3, <2>5
<1>13. PICK types : types = TypesOf(shape)
  OBVIOUS
<1>14. Len(types) = n + 1 /\ \A k \in 1..(n + 1) : types[k] = shape[k].type
  <2>1. types \in [1..(n + 1) -> EventTypes] /\ \A k \in 1..(n + 1) : types[k] = shape[k].type
    BY <1>9, <1>13 DEF TypesOf, Fitting
  <2>2. n + 1 \in Nat
    BY <1>2
  <2>3. types \in Seq(EventTypes) /\ Len(types) = n + 1
    BY <2>1, <2>2, AsSequence
  <2> QED BY <2>1, <2>3
<1>15. /\ Len(types) = Len(shape) /\ Len(shape) >= 2 /\ types[Len(shape)] = last
       /\ AllOf(types, 1, Len(shape) - 1, type)
  BY <1>2, <1>8, <1>9, <1>14 DEF AllOf
<1> QED BY <1>1, <1>9, <1>11, <1>12, <1>13, <1>14, <1>15 DEF Closed

\* What is claimed: a ready unit and the next attempt.
LEMMA Claiming ==
  ASSUME LedgerTyped, NEW kind \in Claims, Due(kind), NEW shape \in Shapes(kind)
  PROVE  \E u \in {0, 1, 3}, n \in Nat :
           /\ shape = Claim(u, n) /\ State(u) = "ready" /\ n = (IF kind = "schedule" THEN 1 ELSE Attempt + 1)
           /\ Regular(shape, kind)
           /\ Brought(shape, "leased") = {n} /\ Brought(shape, "created") = {n} /\ Brought(shape, "processing") = {u}
           /\ kind = "schedule" => u = 0
           /\ kind = "reschedule" => u = Worked
           /\ kind = "dispatch" => u = 3
<1>1. PICK u \in {0, 1, 3}, n \in Nat :
           /\ shape = Claim(u, n) /\ State(u) = "ready" /\ n = (IF kind = "schedule" THEN 1 ELSE Attempt + 1)
           /\ kind = "schedule" => u = 0
           /\ kind = "reschedule" => u = Worked
           /\ kind = "dispatch" => u = 3
  <2>1. Worked \in {0, 1, 3} /\ Attempt \in Nat
    BY Drawn
  <2>2. CASE kind = "schedule"
    <3>1. shape = Claim(0, 1) /\ State(0) = "ready"
      BY <2>2 DEF Shapes, Due
    <3> QED BY <2>2, <3>1
  <2>3. CASE kind = "reschedule"
    <3>1. shape = Claim(Worked, Attempt + 1) /\ State(Worked) = "ready"
      BY <2>3 DEF Shapes, Due
    <3> QED BY <2>1, <2>3, <3>1
  <2>4. CASE kind = "dispatch"
    <3>1. shape = Claim(3, Attempt + 1) /\ State(3) = "ready"
      BY <2>4 DEF Shapes, Due
    <3> QED BY <2>1, <2>4, <3>1
  <2> QED BY <2>2, <2>3, <2>4 DEF Claims
<1>2. RootClosed => u # 0
  BY <1>1, ClosedIsCompleted
<1>3. u \in Nat
  OBVIOUS
<1>4. /\ Regular(shape, kind)
      /\ Brought(shape, "leased") = {n} /\ Brought(shape, "created") = {n} /\ Brought(shape, "processing") = {u}
  BY <1>1, <1>2, <1>3, ClaimShape
<1> QED BY <1>1, <1>4

\* What a recovery is about: the current attempt at a unit without output.
LEMMA Recovering ==
  ASSUME LedgerTyped, Due("recovery"), NEW shape \in Shapes("recovery")
  PROVE  /\ Regular(shape, "recovery")
         /\ Brought(shape, "released") = {Attempt} /\ Brought(shape, "recovery") = {Attempt}
         /\ Brought(shape, "ended") \subseteq {Attempt}
         /\ \A type \in Changes : Brought(shape, type) \subseteq {Worked}
<1>1. PICK state \in {"ready", "failed"} : shape = Releasing(Worked, Attempt, state)
  BY DEF Shapes
<1>2. PICK u, n : u = Worked /\ n = Attempt
  OBVIOUS
<1>3. u \in Nat /\ n \in Nat
  BY <1>2, Drawn
<1>4. RootClosed => u # 0
  BY <1>2, ClosedIsCompleted DEF Due
<1>5. shape = Releasing(u, n, state)
  BY <1>1, <1>2
<1>6. /\ Regular(shape, "recovery")
      /\ Brought(shape, "released") = {n} /\ Brought(shape, "recovery") = {n} /\ Brought(shape, "ended") \subseteq {n}
      /\ \A type \in Changes : Brought(shape, type) \subseteq {u}
  BY <1>3, <1>4, <1>5, RecoveryShape
<1> QED BY <1>2, <1>6

\* The root has one child or two, and a relation has two ends.
LEMMA Expanding ==
  ASSUME NEW shape \in Shapes("expansion")
  PROVE  \E n \in 1..2, m \in 0..1 :
           /\ m < n
           /\ Regular(shape, "expansion") /\ ValidateExpansionBatch(TypesOf(shape))
           /\ Brought(shape, "proposal") = {0} /\ Brought(shape, "plan") = {0} /\ Brought(shape, "decision") = {0}
           /\ Brought(shape, "unit") = 1..n /\ Brought(shape, "relation") = 1..m
<1>1. PICK n \in 1..2, m \in 0..1 : m < n /\ shape = Expansion(n, m)
  BY DEF Shapes
<1> QED BY <1>1, ExpansionShape

\* The merge resolves the outputs of the children up to one of them.
LEMMA Resolving ==
  ASSUME LedgerTyped, HomesKept, NEW shape \in Shapes("resolution")
  PROVE  \E n \in ChildrenOf(ledger) :
           /\ Regular(shape, "resolution") /\ ValidateMergeResolutionBatch(TypesOf(shape))
           /\ Brought(shape, "merge") = {3} /\ Brought(shape, "resolved") = 1..n
<1>1. PICK n \in ChildrenOf(ledger) : shape = <<Draft("merge", 3)>> \o Numbered("resolved", n)
  BY DEF Shapes
<1>2. n \in Nat /\ n >= 1
  BY DEF HomesKept, AtHome, ChildrenOf, Positions
<1> QED BY <1>1, <1>2, ResolutionShape

\* What is settled is what is owed.
LEMMA Settling ==
  ASSUME LedgerTyped, Due("settlement"), NEW shape \in Shapes("settlement")
  PROVE  /\ Regular(shape, "settlement") /\ ValidateSettlementBatch(TypesOf(shape))
         /\ Brought(shape, "settled") = Owed /\ Brought(shape, "settlement") = {0}
<1>1. PICK drafts \in Drafts("settled", Owed) : shape = Append(drafts, Draft("settlement", 0))
  BY DEF Shapes
<1>2. PICK objs : objs = Owed
  OBVIOUS
<1>3. objs \in SUBSET Nat /\ IsFiniteSet(objs) /\ objs # {}
  BY <1>2, Drawn DEF Due
<1>4. /\ "settled" \in EventTypes \ OnceTypes /\ "settlement" \in OnceTypes
      /\ Fits("settlement", 0, "settlement") /\ \A o \in objs : Fits("settled", o, "settlement")
  BY <1>3 DEF Fits, AtHome, Claims, EventTypes, Changes, Credits, OnceTypes
<1>5. drafts \in Drafts("settled", objs)
  BY <1>2
<1>6. Regular(shape, "settlement") /\ Closed(shape, "settled", "settlement", objs)
  <2>1. Closable("settlement", "settled", "settlement", objs)
    BY <1>3, <1>4 DEF Closable
  <2> QED BY <1>1, <1>5, <2>1, ClosingShape
<1>7. ValidateSettlementBatch(TypesOf(shape))
  <2>1. PICK types : types = TypesOf(shape)
    OBVIOUS
  <2>2. Len(types) = Len(shape) /\ Len(shape) >= 2 /\ types[Len(shape)] = "settlement" /\ AllOf(types, 1, Len(shape) - 1, "settled")
    BY <1>6, <2>1 DEF Closed
  <2> QED BY <2>1, <2>2 DEF ValidateSettlementBatch
<1> QED BY <1>2, <1>6, <1>7 DEF Closed

\* What is pruned has not come to its end.
LEMMA Pruning ==
  ASSUME LedgerTyped, Due("pruning"), NEW shape \in Shapes("pruning")
  PROVE  /\ Regular(shape, "pruning") /\ ValidateSubtreePruningBatch(TypesOf(shape))
         /\ Brought(shape, "cancelled") = Cancellable /\ Brought(shape, "pruned") = {0}
         /\ Len(shape) = Cardinality(Cancellable) + 1
<1>1. PICK drafts \in Drafts("cancelled", Cancellable) : shape = Append(drafts, Draft("pruned", 0))
  BY DEF Shapes
<1>2. PICK objs : objs = Cancellable
  OBVIOUS
<1>3. objs \in SUBSET Nat /\ IsFiniteSet(objs) /\ objs # {}
  BY <1>2, Drawn DEF Due
<1>4. RootClosed => 0 \notin objs
  BY <1>2, ClosedIsCompleted DEF Cancellable
<1>5. /\ "cancelled" \in EventTypes \ OnceTypes /\ "pruned" \in OnceTypes
      /\ Fits("pruned", 0, "pruning") /\ \A o \in objs : Fits("cancelled", o, "pruning")
  BY <1>3, <1>4 DEF Fits, AtHome, Claims, EventTypes, Changes, Credits, OnceTypes
<1>6. drafts \in Drafts("cancelled", objs)
  BY <1>2
<1>7. Regular(shape, "pruning") /\ Closed(shape, "cancelled", "pruned", objs)
  <2>1. Closable("pruning", "cancelled", "pruned", objs)
    BY <1>3, <1>5 DEF Closable
  <2> QED BY <1>1, <1>6, <2>1, ClosingShape
<1>8. ValidateSubtreePruningBatch(TypesOf(shape))
  <2>1. PICK types : types = TypesOf(shape)
    OBVIOUS
  <2>2. Len(types) = Len(shape) /\ Len(shape) >= 2 /\ types[Len(shape)] = "pruned" /\ AllOf(types, 1, Len(shape) - 1, "cancelled")
    BY <1>7, <2>1 DEF Closed
  <2> QED BY <2>1, <2>2 DEF ValidateSubtreePruningBatch
<1> QED BY <1>2, <1>7, <1>8 DEF Closed

\* Every batch the engine may begin is regular, and the validation knows it.
LEMMA EveryShape ==
  ASSUME LedgerTyped, HomesKept, NEW kind \in Kinds, Due(kind), NEW shape \in Shapes(kind)
  PROVE  Regular(shape, kind) /\ ValidateBatch(kind, TypesOf(shape))
<1>1. CASE kind \in Claims
  BY <1>1, Claiming DEF Claims, ValidateBatch
<1>2. CASE kind = "recovery"
  BY <1>2, Recovering DEF ValidateBatch
<1>3. CASE kind = "expansion"
  BY <1>3, Expanding DEF ValidateBatch
<1>4. CASE kind = "completion"
  <2>1. PICK u : u = Worked
    OBVIOUS
  <2>2. shape = <<Draft("decision", u), Draft("completed", u)>> /\ u \in Nat
    BY <1>4, <2>1, Drawn DEF Shapes
  <2> QED BY <1>4, <2>2, CompletionShape DEF ValidateBatch
<1>5. CASE kind = "link"
  BY <1>5, LinkShape DEF ValidateBatch, Shapes
<1>6. CASE kind = "resolution"
  BY <1>6, Resolving DEF ValidateBatch
<1>7. CASE kind = "parent"
  BY <1>7, ParentShape DEF ValidateBatch, Shapes
<1>8. CASE kind = "settlement"
  BY <1>8, Settling DEF ValidateBatch
<1>9. CASE kind = "pruning"
  BY <1>9, Pruning DEF ValidateBatch
<1> QED BY <1>1, <1>2, <1>3, <1>4, <1>5, <1>6, <1>7, <1>8, <1>9 DEF Kinds, Claims

-----------------------------------------------------------------------------

SameRow(e, f) == e.type \in OnceTypes /\ e.type = f.type /\ e.obj = f.obj /\ e.batch = f.batch
RowsOnce      == \A i, j \in DOMAIN ledger : SameRow(ledger[i], ledger[j]) => i = j

\* When a whole batch has completed the root without its expansion, the root is
\* not expanded any more.
DecidedOnce ==
  \A i \in DOMAIN ledger :
    ledger[i].batch = "completion" /\ ledger[i].type = "decision" /\ ledger[i].obj = 0 /\ Complete("completion") =>
      RootClosed /\ ~Complete("expansion")

LedgerInOrder == LedgerTyped /\ HomesKept /\ RowsOnce /\ DecidedOnce

\* The events that were there stay where they are.
LEMMA Grown ==
  ASSUME LedgerTyped, NEW added \in Seq(Events), ledger' = ledger \o added
  PROVE  /\ LedgerTyped' /\ DOMAIN ledger \subseteq DOMAIN ledger' /\ DOMAIN ledger' \subseteq Nat
         /\ DOMAIN ledger' = 1..(Len(ledger) + Len(added)) /\ Len(ledger') = Len(ledger) + Len(added)
         /\ \A i \in DOMAIN ledger : ledger'[i] = ledger[i]
         /\ \A i \in (DOMAIN ledger') \ DOMAIN ledger :
              /\ i - Len(ledger) \in DOMAIN added /\ ledger'[i] = added[i - Len(ledger)]
              /\ \A j \in DOMAIN ledger : j < i
<1>1. PICK longer : longer = ledger \o added
  OBVIOUS
<1>2. /\ ledger \in Seq(Events) /\ longer \in Seq(Events) /\ Len(longer) = Len(ledger) + Len(added)
      /\ Len(ledger) \in Nat \ {0} /\ Len(added) \in Nat
      /\ DOMAIN ledger = 1..Len(ledger) /\ DOMAIN longer = 1..Len(longer) /\ DOMAIN added = 1..Len(added)
  BY <1>1 DEF LedgerTyped
<1>3. \A i \in DOMAIN longer : longer[i] = IF i <= Len(ledger) THEN ledger[i] ELSE added[i - Len(ledger)]
  BY <1>1, <1>2
<1>4. longer # <<>>
  BY <1>2
<1> QED BY <1>1, <1>2, <1>3, <1>4 DEF LedgerTyped

\* Events that are at home and repeat no row keep the order of the ledger.
LEMMA RowsKept ==
  ASSUME LedgerTyped, HomesKept, RowsOnce, NEW added \in Seq(Events), ledger' = ledger \o added,
         \A k \in DOMAIN added : AtHome(added[k].type, added[k].obj, added[k].batch),
         \A k, l \in DOMAIN added : SameRow(added[k], added[l]) => k = l,
         \A i \in DOMAIN ledger, k \in DOMAIN added : ~SameRow(ledger[i], added[k])
  PROVE  HomesKept' /\ RowsOnce'
<1> DEFINE old == DOMAIN ledger
           new == (DOMAIN ledger') \ DOMAIN ledger
<1>1. /\ \A i \in old : ledger'[i] = ledger[i]
      /\ \A i \in new : i - Len(ledger) \in DOMAIN added /\ ledger'[i] = added[i - Len(ledger)]
      /\ DOMAIN ledger' = old \cup new /\ DOMAIN ledger' \subseteq Nat /\ Len(ledger) \in Nat
  BY Grown DEF LedgerTyped
<1> HIDE DEF old, new
<1>2. HomesKept'
  <2> SUFFICES ASSUME NEW i \in DOMAIN ledger' PROVE AtHome(ledger'[i].type, ledger'[i].obj, ledger'[i].batch)
    BY DEF HomesKept
  <2>1. CASE i \in old
    BY <1>1, <2>1 DEF HomesKept, old
  <2>2. CASE i \in new
    BY <1>1, <2>2
  <2> QED BY <1>1, <2>1, <2>2
<1>4. RowsOnce'
  <2> SUFFICES ASSUME NEW i \in DOMAIN ledger', NEW j \in DOMAIN ledger', SameRow(ledger'[i], ledger'[j]) PROVE i = j
    BY DEF RowsOnce, SameRow
  <2>1. SameRow(ledger'[j], ledger'[i])
    BY DEF SameRow
  <2>2. CASE i \in old /\ j \in old
    BY <1>1, <2>2 DEF RowsOnce, old
  <2>3. CASE i \in old /\ j \in new
    BY <1>1, <2>3 DEF old
  <2>4. CASE i \in new /\ j \in old
    BY <1>1, <2>1, <2>4 DEF old
  <2>5. CASE i \in new /\ j \in new
    <3>1. i - Len(ledger) = j - Len(ledger)
      <4>1. PICK k, l : k = i - Len(ledger) /\ l = j - Len(ledger)
        OBVIOUS
      <4>2. k \in DOMAIN added /\ l \in DOMAIN added /\ SameRow(added[k], added[l])
        BY <1>1, <2>5, <4>1
      <4> QED BY <4>1, <4>2
    <3> QED BY <1>1, <3>1
  <2> QED BY <1>1, <2>2, <2>3, <2>4, <2>5
<1> QED BY <1>2, <1>4

\* A root stays closed when what comes later leaves it completed.
LEMMA StaysClosed ==
  ASSUME LedgerTyped, RootClosed, NEW added \in Seq(Events), ledger' = ledger \o added,
         \A k \in DOMAIN added : added[k].type \in Changes /\ added[k].obj = 0 => added[k].type = "completed"
  PROVE  RootClosed'
<1>1. PICK i \in DOMAIN ledger :
        /\ ledger[i].type = "completed" /\ ledger[i].obj = 0
        /\ \A j \in DOMAIN ledger : j > i /\ ledger[j].type \in Changes /\ ledger[j].obj = 0 => ledger[j].type = "completed"
  BY DEF RootClosed
<1>2. i \in DOMAIN ledger' /\ ledger'[i].type = "completed" /\ ledger'[i].obj = 0
  BY <1>1, Grown
<1>3. ASSUME NEW j \in DOMAIN ledger', j > i, ledger'[j].type \in Changes, ledger'[j].obj = 0
      PROVE  ledger'[j].type = "completed"
  <2>1. CASE j \in DOMAIN ledger
    BY <1>1, <1>3, <2>1, Grown
  <2>2. CASE j \notin DOMAIN ledger
    <3>1. j - Len(ledger) \in DOMAIN added /\ ledger'[j] = added[j - Len(ledger)]
      BY <2>2, Grown
    <3> QED BY <1>3, <3>1
  <2> QED BY <2>1, <2>2
<1> QED BY <1>2, <1>3 DEF RootClosed, Changes

\* A batch is whole or not, whatever other batches come.
LEMMA OtherBatches ==
  ASSUME LedgerTyped, NEW added \in Seq(Events), ledger' = ledger \o added, NEW kind,
         \A k \in DOMAIN added : added[k].batch # kind
  PROVE  /\ Positions(ledger', kind) = Positions(ledger, kind)
         /\ Complete(kind)' <=> Complete(kind)
<1>1. Positions(ledger', kind) = Positions(ledger, kind)
  <2>1. ASSUME NEW i \in DOMAIN ledger' PROVE ledger'[i].batch = kind => i \in DOMAIN ledger
    BY Grown
  <2> QED BY <2>1, Grown DEF Positions
<1>2. \A i \in Positions(ledger, kind) : ledger'[i].size = ledger[i].size
  BY Grown DEF Positions
<1> QED BY <1>1, <1>2 DEF Complete
-----------------------------------------------------------------------------
(* The rebuild of the index.                                               *)

\* What the tables look like at each stage of a rebuild.
TablesFit ==
  /\ next \in 1..Len(Tables) /\ tables \in [Range(Tables) -> Nat \cup {Missing}]
  /\ stage \in {"idle", "drop", "create", "insert"}
  /\ built \in Nat /\ crashed \in BOOLEAN /\ outcome # "error"
  /\ stage = "drop" => \A k \in 1..(next - 1) : tables[Tables[k]] = Missing
  /\ stage = "create" => \A k \in DOMAIN Tables : tables[Tables[k]] = IF k < next THEN Empty ELSE Missing
  /\ stage = "insert" => \A k \in DOMAIN Tables : tables[Tables[k]] = Empty
  /\ stage = "idle" /\ (outcome = "built" \/ ~crashed) =>
       \A t \in Range(Tables) : tables[t] = IF built = Empty THEN Missing ELSE built

\* What the schema wants once is there once in every ledger a rebuild accepts.
OnceWhenAccepted == Accepts(ledger) => InsertedOnce(ledger)

\* While a rebuild is at work the ledger is one that it accepts.
AtWork == stage # "idle" => Accepts(ledger)

\* A step of a rebuild keeps the tables in order; this needs that the rows of
\* an accepted ledger can be inserted.
LEMMA TableStep ==
  ASSUME TablesFit, AtWork, OnceWhenAccepted, ledger \in Seq(Events), ledger # <<>>,
         Rebuild \/ DropTable \/ CreateTable \/ InsertRows \/ CrashRebuild
  PROVE  TablesFit' /\ AtWork'
<1> DEFINE all == DOMAIN Tables
<1>1. /\ Len(Tables) \in Nat \ {0} /\ all = 1..Len(Tables) /\ next \in all
      /\ Range(Tables) = {Tables[k] : k \in all} /\ DOMAIN tables = Range(Tables)
      /\ \A i, j \in all : Tables[i] = Tables[j] => i = j
  BY IndexAssumption DEF TablesFit, Range
<1>2. ledger' = ledger
  BY DEF Rebuild, DropTable, CreateTable, InsertRows, CrashRebuild, ledgerVars
<1>3. AtWork'
  <2>1. Accepts(ledger)' = Accepts(ledger)
    BY <1>2
  <2> QED BY <2>1 DEF AtWork, Rebuild, DropTable, CreateTable, InsertRows, CrashRebuild
<1>4. CASE Rebuild
  BY <1>1, <1>3, <1>4 DEF Rebuild, TablesFit
<1>5. CASE DropTable
  <2>1. /\ tables' = [tables EXCEPT ![Tables[next]] = Missing] /\ UNCHANGED <<outcome, built, crashed>>
        /\ stage = "drop"
    BY <1>5 DEF DropTable
  <2>2. /\ tables' \in [Range(Tables) -> Nat \cup {Missing}] /\ tables'[Tables[next]] = Missing
        /\ \A k \in all : k < next => tables'[Tables[k]] = Missing
    BY <1>1, <2>1 DEF TablesFit
  <2>3. CASE next = Len(Tables)
    BY <1>1, <1>3, <1>5, <2>1, <2>2, <2>3 DEF DropTable, GotoNext, TablesFit
  <2>4. CASE next # Len(Tables)
    BY <1>1, <1>3, <1>5, <2>1, <2>2, <2>4 DEF DropTable, GotoNext, TablesFit
  <2> QED BY <2>3, <2>4
<1>6. CASE CreateTable
  <2>1. tables[Tables[next]] = Missing /\ stage = "create" /\ \A k \in all : k < next => tables[Tables[k]] = Empty
    BY <1>1, <1>6 DEF CreateTable, TablesFit
  <2>2. /\ tables' = [tables EXCEPT ![Tables[next]] = Empty] /\ UNCHANGED <<outcome, built, crashed>> /\ GotoNext("insert")
    BY <1>6, <2>1 DEF CreateTable
  <2>3. /\ tables' \in [Range(Tables) -> Nat \cup {Missing}] /\ tables'[Tables[next]] = Empty
        /\ \A k \in all : k < next => tables'[Tables[k]] = Empty
        /\ \A k \in all : k > next => tables'[Tables[k]] = Missing
    BY <1>1, <2>1, <2>2 DEF TablesFit, Empty
  <2>4. CASE next = Len(Tables)
    BY <1>1, <1>3, <2>1, <2>2, <2>3, <2>4 DEF GotoNext, TablesFit
  <2>5. CASE next # Len(Tables)
    BY <1>1, <1>3, <2>1, <2>2, <2>3, <2>5 DEF GotoNext, TablesFit
  <2> QED BY <2>4, <2>5
<1>7. CASE InsertRows
  <2>1. tables[Head(Tables)] = Empty /\ InsertedOnce(ledger)
    BY <1>1, <1>7 DEF InsertRows, TablesFit, AtWork, OnceWhenAccepted
  <2>2. /\ tables' = [t \in DOMAIN tables |-> Len(ledger)] /\ built' = Len(ledger) /\ outcome' = "built"
        /\ stage' = "idle" /\ UNCHANGED <<next, crashed>> /\ Len(ledger) \in Nat \ {0}
    BY <1>7, <2>1 DEF InsertRows
  <2> QED BY <1>1, <1>3, <2>2 DEF TablesFit, Empty
<1>8. CASE CrashRebuild
  BY <1>1, <1>3, <1>8 DEF CrashRebuild, TablesFit
<1> QED BY <1>3, <1>4, <1>5, <1>6, <1>7, <1>8

\* Events of a batch of a shape, whole or cut, at the end of the ledger.
Batched(added, kind, shape) ==
  /\ added \in Seq(Events) /\ ledger' = ledger \o added
  /\ Regular(shape, kind) /\ Len(added) \in 1..Len(shape)
  /\ \A k \in DOMAIN added :
       /\ k \in DOMAIN shape /\ added[k].type = shape[k].type /\ added[k].obj = shape[k].obj
       /\ added[k].batch = kind /\ added[k].index = k /\ added[k].size = Len(shape)

\* What a regular shape is made of.
LEMMA RegularShape ==
  ASSUME NEW kind, NEW shape, Regular(shape, kind)
  PROVE  /\ Len(shape) \in Nat /\ Len(shape) >= 1 /\ DOMAIN shape = 1..Len(shape)
         /\ \A k \in DOMAIN shape : /\ shape[k] \in [type : EventTypes, obj : Nat]
                                    /\ Fits(shape[k].type, shape[k].obj, kind)
<1>1. shape \in Seq(Fitting(kind)) /\ shape # <<>>
  BY DEF Regular
<1>2. \A k \in DOMAIN shape : shape[k] \in Fitting(kind)
  BY <1>1
<1>3. \A k \in DOMAIN shape : shape[k] \in [type : EventTypes, obj : Nat] /\ Fits(shape[k].type, shape[k].obj, kind)
  BY <1>2 DEF Fitting
<1>4. Len(shape) \in Nat /\ Len(shape) >= 1 /\ DOMAIN shape = 1..Len(shape)
  BY <1>1
<1> QED BY <1>3, <1>4

\* The engine appends a batch that it has not begun before.
LEMMA BatchAppended ==
  ASSUME LedgerTyped, HomesKept, NEW kind \in Kinds, AppendBatch(kind)
  PROVE  /\ ~Started(kind) /\ Due(kind)
         /\ \E added : \E shape \in Shapes(kind) : Batched(added, kind, shape)
<1>0. ~Started(kind) /\ Due(kind)
  BY DEF AppendBatch
<1>1. PICK shape \in Shapes(kind) : \E written \in DOMAIN shape :
        ledger' = ledger \o [i \in 1..written |->
          [type |-> shape[i].type, obj |-> shape[i].obj, batch |-> kind, index |-> i, size |-> Len(shape)]]
  BY DEF AppendBatch
<1>2. PICK written \in DOMAIN shape :
        ledger' = ledger \o [i \in 1..written |->
          [type |-> shape[i].type, obj |-> shape[i].obj, batch |-> kind, index |-> i, size |-> Len(shape)]]
  BY <1>1
<1>3. PICK added : added = [i \in 1..written |->
        [type |-> shape[i].type, obj |-> shape[i].obj, batch |-> kind, index |-> i, size |-> Len(shape)]]
  OBVIOUS
<1>4. ledger' = ledger \o added
  BY <1>2, <1>3
<1>5. Regular(shape, kind)
  BY <1>0, EveryShape
<1>6. /\ Len(shape) \in Nat /\ DOMAIN shape = 1..Len(shape)
      /\ \A k \in DOMAIN shape : shape[k] \in [type : EventTypes, obj : Nat]
  BY <1>5, RegularShape
<1>7. written \in Nat /\ written >= 1 /\ written <= Len(shape) /\ \A k \in 1..written : k \in DOMAIN shape
  BY <1>6
<1>8. /\ DOMAIN added = 1..written
      /\ \A k \in DOMAIN added :
           /\ k \in DOMAIN shape /\ added[k] \in Events
           /\ added[k].type = shape[k].type /\ added[k].obj = shape[k].obj
           /\ added[k].batch = kind /\ added[k].index = k /\ added[k].size = Len(shape)
  BY <1>3, <1>6, <1>7 DEF Events
<1>9. added \in Seq(Events) /\ Len(added) = written
  <2>1. added \in [1..written -> Events]
    BY <1>3, <1>8
  <2> QED BY <1>7, <2>1, AsSequence
<1>10. Batched(added, kind, shape)
  BY <1>4, <1>5, <1>6, <1>7, <1>8, <1>9 DEF Batched
<1> QED BY <1>0, <1>10

\* It takes the next positions, and it is whole when its last event is there.
LEMMA BatchPlaced ==
  ASSUME LedgerTyped, NEW kind, ~Started(kind), NEW shape, NEW added, Batched(added, kind, shape)
  PROVE  /\ Positions(ledger', kind) = (Len(ledger) + 1)..(Len(ledger) + Len(added))
         /\ Started(kind)' /\ (Complete(kind)' <=> Len(added) = Len(shape))
<1>1. /\ added \in Seq(Events) /\ ledger' = ledger \o added /\ Len(added) \in 1..Len(shape) /\ Len(shape) \in Nat
      /\ \A k \in DOMAIN added : added[k].batch = kind /\ added[k].size = Len(shape)
  BY RegularShape DEF Batched
<1>2. Len(added) \in Nat /\ Len(added) >= 1 /\ DOMAIN added = 1..Len(added)
  BY <1>1
<1>3. Positions(ledger', kind) = (DOMAIN ledger') \ DOMAIN ledger
  <2>1. \A i \in DOMAIN ledger : ledger'[i].batch # kind
    BY <1>1, Grown DEF Started, Positions
  <2>2. \A i \in (DOMAIN ledger') \ DOMAIN ledger : ledger'[i].batch = kind
    BY <1>1, Grown
  <2> QED BY <2>1, <2>2 DEF Positions
<1>4. ledger \in Seq(Events) /\ DOMAIN ledger = 1..Len(ledger) /\ Len(ledger) \in Nat
  BY DEF LedgerTyped
<1>5. DOMAIN ledger' = 1..(Len(ledger) + Len(added))
  BY <1>1, Grown
<1>6. Positions(ledger', kind) = (Len(ledger) + 1)..(Len(ledger) + Len(added))
  BY <1>2, <1>3, <1>4, <1>5
<1>7. Cardinality(Positions(ledger', kind)) = Len(added)
  <2>1. PICK a, b : a = Len(ledger) + 1 /\ b = Len(ledger) + Len(added)
    OBVIOUS
  <2>2. a \in Int /\ b \in Int /\ ~(a > b) /\ b - a + 1 = Len(added)
    BY <1>2, <1>4, <2>1
  <2> QED BY <1>6, <2>1, <2>2, FS_Interval
<1>8. \A i \in Positions(ledger', kind) : ledger'[i].size = Len(shape)
  BY <1>1, <1>3, Grown
<1>9. PICK i \in Positions(ledger', kind) : TRUE
  <2>1. Len(ledger) + 1 \in (Len(ledger) + 1)..(Len(ledger) + Len(added))
    BY <1>2, <1>4
  <2> QED BY <1>6, <2>1
<1> QED BY <1>6, <1>7, <1>8, <1>9 DEF Started, Complete

\* A closed root is not expanded and stays closed.
LEMMA BatchLeavesClosed ==
  ASSUME LedgerTyped, RootClosed, NEW kind, Due(kind), NEW shape, NEW added, Batched(added, kind, shape)
  PROVE  RootClosed' /\ kind # "expansion"
<1>1. added \in Seq(Events) /\ ledger' = ledger \o added
  BY DEF Batched
<1>2. \A k \in DOMAIN added : added[k].type \in Changes /\ added[k].obj = 0 => added[k].type = "completed"
  <2>1. \A k \in DOMAIN shape : Fits(shape[k].type, shape[k].obj, kind)
    BY RegularShape DEF Batched
  <2>2. \A k \in DOMAIN added : k \in DOMAIN shape /\ added[k].type = shape[k].type /\ added[k].obj = shape[k].obj
    BY DEF Batched
  <2> QED BY <2>1, <2>2 DEF Fits
<1>3. kind # "expansion"
  BY ClosedIsCompleted DEF Due
<1> QED BY <1>1, <1>2, <1>3, StaysClosed

\* A whole batch that completes the root closes it: it changes no unit twice.
LEMMA BatchCloses ==
  ASSUME LedgerTyped, NEW kind, NEW shape, NEW added, Batched(added, kind, shape),
         Len(added) = Len(shape), 0 \in Brought(shape, "completed")
  PROVE  RootClosed'
<1>1. /\ added \in Seq(Events) /\ ledger' = ledger \o added /\ Regular(shape, kind)
      /\ \A k \in DOMAIN added : k \in DOMAIN shape /\ added[k].type = shape[k].type /\ added[k].obj = shape[k].obj
  BY DEF Batched
<1>2. PICK last \in DOMAIN shape : shape[last].type = "completed" /\ shape[last].obj = 0
  BY DEF Brought
<1>3. /\ ledger \in Seq(Events) /\ DOMAIN ledger = 1..Len(ledger) /\ Len(ledger) \in Nat
      /\ DOMAIN shape = 1..Len(shape) /\ DOMAIN added = DOMAIN shape /\ Len(shape) \in Nat
  BY <1>1, RegularShape DEF LedgerTyped
<1>4. PICK i : i = Len(ledger) + last
  OBVIOUS
<1>5. i \in DOMAIN ledger' /\ i \notin DOMAIN ledger /\ i - Len(ledger) = last /\ i \in Nat
  <2>1. DOMAIN ledger' = 1..(Len(ledger) + Len(added)) /\ Len(added) = Len(shape)
    BY <1>1, Grown
  <2> QED BY <1>3, <1>4, <2>1
<1>6. ledger'[i].type = "completed" /\ ledger'[i].obj = 0
  <2>1. ledger'[i] = added[last]
    BY <1>1, <1>5, Grown
  <2> QED BY <1>1, <1>2, <1>3, <2>1
<1>7. ASSUME NEW j \in DOMAIN ledger', j > i, ledger'[j].type \in Changes, ledger'[j].obj = 0 PROVE FALSE
  <2>1. j \notin DOMAIN ledger /\ j \in Nat
    BY <1>1, <1>3, <1>4, <1>7, Grown
  <2>2. PICK k : k = j - Len(ledger)
    OBVIOUS
  <2>3. k \in DOMAIN added /\ ledger'[j] = added[k]
    BY <1>1, <2>1, <2>2, Grown
  <2>4. shape[k].type \in Changes /\ shape[k].obj = 0 /\ k \in DOMAIN shape
    BY <1>1, <1>7, <2>3
  <2>5. k = last
    BY <1>1, <1>2, <2>4 DEF Regular, Changes
  <2> QED BY <1>3, <1>4, <1>7, <2>1, <2>2, <2>5
<1> QED BY <1>5, <1>6, <1>7 DEF RootClosed

\* A batch, whole or cut, keeps the ledger in order.
LEMMA BatchKeepsOrder ==
  ASSUME LedgerInOrder, NEW kind \in Kinds, AppendBatch(kind)
  PROVE  LedgerInOrder'
<1>0. LedgerTyped /\ HomesKept /\ RowsOnce /\ DecidedOnce /\ ~Started(kind) /\ Due(kind)
  BY DEF LedgerInOrder, AppendBatch
<1>1a. PICK added : \E shape \in Shapes(kind) : Batched(added, kind, shape)
  BY <1>0, BatchAppended
<1>1. PICK shape \in Shapes(kind) : Batched(added, kind, shape)
  BY <1>1a
<1>3. ledger' = ledger \o added /\ added \in Seq(Events)
  BY <1>1 DEF Batched
<1>4. Regular(shape, kind)
  BY <1>1 DEF Batched
<1>5. \A k \in DOMAIN shape : shape[k] \in [type : EventTypes, obj : Nat] /\ Fits(shape[k].type, shape[k].obj, kind)
  BY <1>4, RegularShape
<1>6. \A k \in DOMAIN added : /\ k \in DOMAIN shape /\ added[k].type = shape[k].type /\ added[k].obj = shape[k].obj
                              /\ added[k].batch = kind
  BY <1>1 DEF Batched
<1>8. \A i \in DOMAIN ledger : ledger[i].batch # kind
  BY <1>0 DEF Started, Positions
<1>9. HomesKept' /\ RowsOnce'
  <2>1. \A k \in DOMAIN added : AtHome(added[k].type, added[k].obj, added[k].batch)
    BY <1>5, <1>6 DEF Fits
  <2>2. ASSUME NEW k \in DOMAIN added, NEW l \in DOMAIN added, SameRow(added[k], added[l]) PROVE k = l
    <3>1. k \in DOMAIN shape /\ l \in DOMAIN shape /\ shape[k].type \in OnceTypes
          /\ shape[k].type = shape[l].type /\ shape[k].obj = shape[l].obj
      BY <1>6, <2>2 DEF SameRow
    <3>2. shape[k] = shape[l]
      <4>1. \A r, q \in [type : EventTypes, obj : Nat] : r.type = q.type /\ r.obj = q.obj => r = q
        OBVIOUS
      <4>2. shape[k] \in [type : EventTypes, obj : Nat] /\ shape[l] \in [type : EventTypes, obj : Nat]
        BY <1>5, <3>1
      <4> QED BY <3>1, <4>1, <4>2
    <3> QED BY <1>4, <3>1, <3>2 DEF Regular
  <2>3. \A i \in DOMAIN ledger, k \in DOMAIN added : ~SameRow(ledger[i], added[k])
    BY <1>6, <1>8 DEF SameRow
  <2> QED BY <1>0, <1>3, <2>1, <2>2, <2>3, RowsKept
<1>10. RootClosed => RootClosed'
  BY <1>0, <1>1, BatchLeavesClosed
<1>11. \A other : other # kind => (Complete(other)' <=> Complete(other))
  BY <1>0, <1>3, <1>6, OtherBatches
<1>12. \A i \in (DOMAIN ledger') \ DOMAIN ledger : i - Len(ledger) \in DOMAIN added /\ ledger'[i] = added[i - Len(ledger)]
  BY <1>0, <1>3, Grown
<1>13. DecidedOnce'
  <2> SUFFICES ASSUME NEW i \in DOMAIN ledger', ledger'[i].batch = "completion" /\ ledger'[i].type = "decision"
                      /\ ledger'[i].obj = 0 /\ Complete("completion")'
               PROVE  RootClosed' /\ ~Complete("expansion")'
    BY DEF DecidedOnce
  <2>1. CASE kind # "completion"
    <3>1. i \in DOMAIN ledger
      BY <1>6, <1>12, <2>1
    <3>2. ledger'[i] = ledger[i]
      BY <1>0, <1>3, <3>1, Grown
    <3>3. RootClosed /\ ~Complete("expansion")
      BY <1>0, <1>11, <2>1, <3>1, <3>2 DEF DecidedOnce
    <3>4. ~Complete("expansion")'
      <4> SUFFICES ASSUME kind = "expansion" PROVE FALSE
        BY <1>11, <3>3
      <4> QED BY <1>0, <1>1, <3>3, BatchLeavesClosed
    <3> QED BY <1>10, <3>3, <3>4
  <2>2. CASE kind = "completion"
    <3>1. PICK u : u = Worked
      OBVIOUS
    <3>2. shape = <<Draft("decision", u), Draft("completed", u)>> /\ u \in Nat
      BY <1>0, <2>2, <3>1, Drawn DEF Shapes
    <3>3. Brought(shape, "decision") = {u} /\ Brought(shape, "completed") = {u}
      BY <3>2, CompletionShape
    <3>4. u = 0
      <4>1. i \notin DOMAIN ledger
        BY <1>0, <1>3, <1>8, <2>2, Grown
      <4>2. PICK k \in DOMAIN added : ledger'[i] = added[k]
        BY <1>12, <4>1
      <4>3. 0 \in Brought(shape, "decision")
        BY <1>6, <4>2 DEF Brought
      <4> QED BY <3>3, <4>3
    <3>5. ~Complete("expansion")'
      BY <1>11, <2>2, <3>1, <3>4 DEF Worked
    <3>6. Len(added) = Len(shape)
      BY <1>0, <1>1, <2>2, BatchPlaced
    <3>7. RootClosed'
      BY <1>0, <1>1, <3>3, <3>4, <3>6, BatchCloses
    <3> QED BY <3>5, <3>7
  <2> QED BY <2>1, <2>2
<1>14. LedgerTyped'
  BY <1>0, <1>3, Grown
<1> QED BY <1>9, <1>13, <1>14 DEF LedgerInOrder

\* So does an event on its own.
LEMMA SingleKeepsOrder ==
  ASSUME LedgerInOrder, NEW type \in EventTypes \ Changes, NEW obj \in Nat, ledger' = Append(ledger, Single(type, obj)),
         AtHome(type, obj, "none"),
         type \in OnceTypes => type = "bound" /\ About(ledger, {"bound"}, obj) = {}
  PROVE  LedgerInOrder'
<1>0. LedgerTyped /\ HomesKept /\ RowsOnce /\ DecidedOnce
  BY DEF LedgerInOrder
<1>1. PICK e, added : e = Single(type, obj) /\ added = <<e>>
  OBVIOUS
<1>2. e \in Events /\ e.type = type /\ e.obj = obj /\ e.batch = "none" /\ "none" \notin Kinds
  BY <1>1 DEF Events, Single, Kinds
<1>3. added \in Seq(Events) /\ DOMAIN added = {1} /\ added[1] = e
  BY <1>1, <1>2
<1>4. ledger' = ledger \o added
  BY <1>0, <1>1, <1>2 DEF LedgerTyped
<1>5. HomesKept' /\ RowsOnce'
  <2>1. \A k \in DOMAIN added : AtHome(added[k].type, added[k].obj, added[k].batch)
    BY <1>2, <1>3
  <2>2. \A k, l \in DOMAIN added : SameRow(added[k], added[l]) => k = l
    BY <1>3
  <2>3. ASSUME NEW i \in DOMAIN ledger, NEW k \in DOMAIN added, SameRow(ledger[i], added[k]) PROVE FALSE
    <3>1. ledger[i].type = "bound" /\ ledger[i].obj = obj /\ About(ledger, {"bound"}, obj) = {}
      BY <1>2, <1>3, <2>3 DEF SameRow
    <3> QED BY <3>1 DEF About, Written
  <2> QED BY <1>0, <1>3, <1>4, <2>1, <2>2, <2>3, RowsKept
<1>6. RootClosed => RootClosed'
  <2>1. \A k \in DOMAIN added : added[k].type \notin Changes
    BY <1>2, <1>3
  <2> QED BY <1>0, <1>3, <1>4, <2>1, StaysClosed
<1>7. \A kind \in Kinds : Complete(kind)' <=> Complete(kind)
  BY <1>0, <1>2, <1>3, <1>4, OtherBatches
<1>8. DecidedOnce'
  <2> SUFFICES ASSUME NEW i \in DOMAIN ledger', ledger'[i].batch = "completion" /\ ledger'[i].type = "decision"
                      /\ ledger'[i].obj = 0 /\ Complete("completion")'
               PROVE  RootClosed' /\ ~Complete("expansion")'
    BY DEF DecidedOnce
  <2>1. i \in DOMAIN ledger
    <3> SUFFICES ASSUME i \notin DOMAIN ledger PROVE FALSE
      OBVIOUS
    <3>1. i - Len(ledger) \in DOMAIN added /\ ledger'[i] = added[i - Len(ledger)]
      BY <1>0, <1>3, <1>4, Grown
    <3> QED BY <1>2, <1>3, <3>1
  <2>2. ledger'[i] = ledger[i]
    BY <1>0, <1>3, <1>4, <2>1, Grown
  <2>3. "completion" \in Kinds /\ "expansion" \in Kinds
    BY DEF Kinds
  <2>4. RootClosed /\ ~Complete("expansion")
    BY <1>0, <1>7, <2>1, <2>2, <2>3 DEF DecidedOnce
  <2> QED BY <1>6, <1>7, <2>3, <2>4
<1>9. LedgerTyped'
  BY <1>0, <1>3, <1>4, Grown
<1> QED BY <1>5, <1>8, <1>9 DEF LedgerInOrder

\* An event of the work on a unit: of its attempt or of itself, with what comes
\* before it.
LEMMA WorkEvent ==
  ASSUME LedgerTyped, AppendWork
  PROVE  \E type, obj :
           /\ obj \in Nat /\ type \in {"request", "submission", "report", "bound", "invoked"}
           /\ type \in {"bound", "invoked"} => obj = Worked
           /\ type \notin {"bound", "invoked"} => obj = Attempt
           /\ ledger' = Append(ledger, Single(type, obj)) /\ About(ledger, {type}, obj) = {}
           /\ State(Worked) = "processing"
           /\ type = "submission" => About(ledger, {"request"}, Attempt) # {}
           /\ type = "report"     => About(ledger, {"submission"}, Attempt) # {}
           /\ type = "bound"      => About(ledger, {"report"}, Attempt) # {}
           /\ type = "invoked"    => Bound(Worked) /\ Worked # 3
<1>1. PICK work : work = {Single(type, Attempt) : type \in {"request", "submission", "report"}}
                            \cup {Single(type, Worked) : type \in {"bound", "invoked"}}
  OBVIOUS
<1>2. /\ State(Worked) = "processing"
      /\ \E e \in work :
           /\ ledger' = Append(ledger, e) /\ About(ledger, {e.type}, e.obj) = {}
           /\ e.type = "submission" => About(ledger, {"request"}, Attempt) # {}
           /\ e.type = "report"     => About(ledger, {"submission"}, Attempt) # {}
           /\ e.type = "bound"      => About(ledger, {"report"}, Attempt) # {}
           /\ e.type = "invoked"    => Bound(Worked) /\ Worked # 3
  BY <1>1, Zenon DEF AppendWork
<1>3. PICK e \in work :
        /\ ledger' = Append(ledger, e) /\ About(ledger, {e.type}, e.obj) = {}
        /\ e.type = "submission" => About(ledger, {"request"}, Attempt) # {}
        /\ e.type = "report"     => About(ledger, {"submission"}, Attempt) # {}
        /\ e.type = "bound"      => About(ledger, {"report"}, Attempt) # {}
        /\ e.type = "invoked"    => Bound(Worked) /\ Worked # 3
  BY <1>2
<1>4. Attempt \in Nat /\ Worked \in Nat
  BY Drawn
<1>5. CASE \E type \in {"request", "submission", "report"} : e = Single(type, Attempt)
  <2>1. PICK type \in {"request", "submission", "report"} : e = Single(type, Attempt)
    BY <1>5
  <2>2. e.type = type /\ e.obj = Attempt
    BY <2>1 DEF Single
  <2>3. type \notin {"bound", "invoked"}
    BY <2>1
  <2>4. ledger' = Append(ledger, Single(type, Attempt)) /\ About(ledger, {type}, Attempt) = {}
    BY <1>3, <2>1, <2>2
  <2> QED BY <1>2, <1>3, <1>4, <2>1, <2>2, <2>3, <2>4
<1>6. CASE \E type \in {"bound", "invoked"} : e = Single(type, Worked)
  <2>1. PICK type \in {"bound", "invoked"} : e = Single(type, Worked)
    BY <1>6
  <2>2. e.type = type /\ e.obj = Worked
    BY <2>1 DEF Single
  <2>3. type \notin {"request", "submission", "report"}
    BY <2>1
  <2>4. ledger' = Append(ledger, Single(type, Worked)) /\ About(ledger, {type}, Worked) = {}
    BY <1>3, <2>1, <2>2
  <2> QED BY <1>2, <1>3, <1>4, <2>1, <2>2, <2>3, <2>4
<1> QED BY <1>1, <1>3, <1>5, <1>6

\* The events of the work on a unit: a unit is bound once.
LEMMA WorkKeepsOrder ==
  ASSUME LedgerInOrder, AppendWork
  PROVE  LedgerInOrder'
<1>1. PICK type, obj :
        /\ obj \in Nat /\ type \in {"request", "submission", "report", "bound", "invoked"}
        /\ ledger' = Append(ledger, Single(type, obj)) /\ About(ledger, {type}, obj) = {}
  BY WorkEvent DEF LedgerInOrder
<1>2. type \in EventTypes \ Changes
  BY <1>1 DEF EventTypes, Changes, Credits
<1>3. type \in OnceTypes => type = "bound" /\ About(ledger, {"bound"}, obj) = {}
  BY <1>1 DEF OnceTypes
<1>4. AtHome(type, obj, "none")
  BY <1>1 DEF AtHome
<1> QED BY <1>1, <1>2, <1>3, <1>4, SingleKeepsOrder

\* The events of the contributions.
LEMMA ContributionKeepsOrder ==
  ASSUME LedgerInOrder, AppendContribution
  PROVE  LedgerInOrder'
<1>1. PICK type \in {"pending", "earned"}, obj \in {0, 1} :
        ledger' = Append(ledger, Single(type, obj)) /\ (type = "pending" => obj = 0)
  BY DEF AppendContribution
<1>2. type \in EventTypes \ Changes /\ type \notin OnceTypes /\ obj \in Nat
  BY DEF EventTypes, Changes, Credits, OnceTypes
<1>3. AtHome(type, obj, "none")
  BY <1>1 DEF AtHome
<1> QED BY <1>1, <1>2, <1>3, SingleKeepsOrder

\* A ledger in order that is accepted has one event for each row of its own: a
\* unit has decisions of an expansion and of a completion only when it is the
\* root, and then one of the two batches is not whole.
LEMMA AcceptedOnce ==
  ASSUME LedgerInOrder
  PROVE  OnceWhenAccepted
<1> SUFFICES ASSUME Accepts(ledger) PROVE InsertedOnce(ledger)
  BY DEF OnceWhenAccepted
<1>0. HomesKept /\ RowsOnce /\ DecidedOnce
  BY DEF LedgerInOrder
<1>1. ASSUME NEW kind \in Kinds, NEW i \in DOMAIN ledger, ledger[i].batch = kind PROVE Complete(kind)
  <2>1. i \in Positions(ledger, kind)
    BY <1>1 DEF Positions
  <2>2. OrderedBatchEvents(ledger, kind)
    BY <1>1, <2>1 DEF Accepts, AcceptsBatch
  <2> QED BY <2>1, <2>2 DEF OrderedBatchEvents, Complete
<1>2. ASSUME NEW i \in DOMAIN ledger, NEW j \in DOMAIN ledger,
             ledger[i].type = "decision", ledger[j].type = "decision", ledger[i].obj = ledger[j].obj,
             ledger[i].batch = "expansion", ledger[j].batch = "completion"
      PROVE  FALSE
  <2>1. ledger[j].obj = 0
    BY <1>0, <1>2 DEF HomesKept, AtHome
  <2>2. Complete("expansion") /\ Complete("completion")
    BY <1>1, <1>2 DEF Kinds
  <2> QED BY <1>0, <1>2, <2>1, <2>2 DEF DecidedOnce
<1>3. ASSUME NEW i \in DOMAIN ledger, NEW j \in DOMAIN ledger, ledger[i].type \in OnceTypes,
             ledger[i].type = ledger[j].type, ledger[i].obj = ledger[j].obj
      PROVE  i = j
  <2>1. AtHome(ledger[i].type, ledger[i].obj, ledger[i].batch) /\ AtHome(ledger[j].type, ledger[j].obj, ledger[j].batch)
    BY <1>0 DEF HomesKept
  <2>2. ledger[i].batch = ledger[j].batch
    <3>1. CASE ledger[i].type = "decision"
      BY <1>2, <1>3, <2>1, <3>1 DEF AtHome
    <3>2. CASE ledger[i].type # "decision"
      BY <1>3, <2>1, <3>2 DEF AtHome, OnceTypes
    <3> QED BY <3>1, <3>2
  <2>3. SameRow(ledger[i], ledger[j])
    BY <1>3, <2>2 DEF SameRow
  <2> QED BY <1>0, <2>3 DEF RowsOnce
<1>4. ASSUME NEW type \in OnceTypes, NEW o \in Objects(ledger, {type})
      PROVE  Cardinality(About(ledger, {type}, o)) = 1
  <2>1. PICK i \in About(ledger, {type}, o) : TRUE
    BY <1>4 DEF Objects, About
  <2>2. About(ledger, {type}, o) = {i}
    BY <1>3, <1>4, <2>1 DEF About, Written
  <2> QED BY <2>2, FS_Singleton
<1> QED BY <1>4 DEF InsertedOnce, OnceTypes

\* The order is one of the ledger alone.
LEMMA LedgerUnchanged ==
  ASSUME LedgerInOrder, ledger' = ledger
  PROVE  LedgerInOrder'
<1>1. \A kind : Positions(ledger, kind)' = Positions(ledger, kind)
  BY DEF Positions
<1>2. \A kind : Complete(kind)' <=> Complete(kind)
  BY <1>1 DEF Complete
<1>3. RootClosed' <=> RootClosed
  BY DEF RootClosed
<1>4. DecidedOnce'
  BY <1>2, <1>3 DEF LedgerInOrder, DecidedOnce
<1>5. HomesKept' /\ RowsOnce' /\ LedgerTyped'
  BY DEF LedgerInOrder, HomesKept, RowsOnce, LedgerTyped
<1> QED BY <1>4, <1>5 DEF LedgerInOrder

\* What a rebuild may do at any time.
IndexInOrder == TablesFit /\ AtWork /\ LedgerInOrder

\* Every step of the engine and of a rebuild keeps both invariants.
LEMMA IndexStep ==
  ASSUME IndexInOrder, [IndexNext]_indexVars
  PROVE  IndexInOrder'
<1>0. TablesFit /\ AtWork /\ LedgerInOrder
  BY DEF IndexInOrder
<1>1. CASE Rebuild \/ DropTable \/ CreateTable \/ InsertRows \/ CrashRebuild
  <2>1. LedgerTyped /\ OnceWhenAccepted
    BY <1>0, AcceptedOnce DEF LedgerInOrder
  <2>2. TablesFit' /\ AtWork'
    BY <1>0, <1>1, <2>1, TableStep DEF LedgerTyped
  <2>3. ledger' = ledger
    BY <1>1 DEF Rebuild, DropTable, CreateTable, InsertRows, CrashRebuild, ledgerVars
  <2>4. LedgerInOrder'
    BY <1>0, <2>3, LedgerUnchanged
  <2> QED BY <2>2, <2>4 DEF IndexInOrder
<1>2. ASSUME UNCHANGED rebuildVars, stage = "idle", LedgerInOrder' PROVE IndexInOrder'
  <2>1. TablesFit'
    BY <1>0, <1>2 DEF TablesFit, rebuildVars
  <2>2. AtWork'
    BY <1>2 DEF AtWork, rebuildVars
  <2> QED BY <1>2, <2>1, <2>2 DEF IndexInOrder
<1>3. ASSUME NEW kind \in Kinds, AppendBatch(kind) PROVE IndexInOrder'
  BY <1>0, <1>2, <1>3, BatchKeepsOrder DEF AppendBatch, MayGrow
<1>4. CASE AppendWork
  BY <1>0, <1>2, <1>4, WorkKeepsOrder DEF AppendWork, MayGrow
<1>5. CASE AppendContribution
  BY <1>0, <1>2, <1>5, ContributionKeepsOrder DEF AppendContribution, MayGrow
<1>6. CASE UNCHANGED indexVars
  <2>1. ledger' = ledger /\ UNCHANGED rebuildVars
    BY <1>6 DEF indexVars, ledgerVars
  <2>2. LedgerInOrder'
    BY <1>0, <2>1, LedgerUnchanged
  <2>3. TablesFit'
    BY <1>0, <2>1 DEF TablesFit, rebuildVars
  <2>4. Accepts(ledger)' = Accepts(ledger)
    BY <2>1
  <2>5. AtWork'
    BY <1>0, <2>1, <2>4 DEF AtWork, rebuildVars
  <2> QED BY <2>2, <2>3, <2>5 DEF IndexInOrder
<1> QED BY <1>1, <1>3, <1>4, <1>5, <1>6 DEF IndexNext

\* One unit, no table.
LEMMA IndexBegins == IndexInit => IndexInOrder
<1> SUFFICES ASSUME IndexInit PROVE IndexInOrder
  OBVIOUS
<1>1. PICK e : e = Single("unit", 0)
  OBVIOUS
<1>2. ledger = <<e>> /\ e.type = "unit" /\ e.obj = 0 /\ e.batch = "none" /\ e \in Events
  BY <1>1 DEF IndexInit, Single, Events, EventTypes, Changes
<1>3. LedgerTyped /\ DOMAIN ledger = {1} /\ ledger[1] = e
  BY <1>2 DEF LedgerTyped
<1>4. LedgerInOrder
  BY <1>2, <1>3 DEF LedgerInOrder, HomesKept, AtHome, RowsOnce, SameRow, OnceTypes, DecidedOnce
<1>5. Len(Tables) \in Nat \ {0} /\ 1 \in 1..Len(Tables)
  BY IndexAssumption
<1>6. TablesFit
  BY <1>5 DEF TablesFit, IndexInit, Empty, Missing
<1>7. AtWork
  BY DEF AtWork, IndexInit
<1> QED BY <1>4, <1>6, <1>7 DEF IndexInOrder

\* A rebuild fails only by refusing its list and one that refuses changes
\* nothing, for every ledger the engine writes, cut or whole, and however often
\* a rebuild has died (storage/sqlite_index.py:35-60).
THEOREM IndexRebuildsOrKeeps == IndexSpec => []RebuildsOrKeeps
<1>1. IndexInit => IndexInOrder
  BY IndexBegins
<1>2. IndexInOrder /\ [IndexNext]_indexVars => IndexInOrder'
  BY IndexStep
<1>3. IndexInOrder => RebuildsOrKeeps
  BY DEF IndexInOrder, TablesFit, RebuildsOrKeeps
<1> QED BY <1>1, <1>2, <1>3, PTL DEF IndexSpec

-----------------------------------------------------------------------------
(* The ledgers a rebuild accepts.                                          *)

\* The objects the events of a type are about.
Of(type) == Objects(ledger, {type})

Whole == \A kind \in Kinds : Started(kind) => Complete(kind)

\* The batches of the engine that wait for one another.
Chain ==
  /\ Started("link")       => Complete("expansion")
  /\ Started("dispatch")   => Complete("link")
  /\ Started("resolution") => Complete("dispatch")

\* A batch that completes a unit on its own completes the root or a child of it.
ChildDecided ==
  \A i \in DOMAIN ledger :
    ledger[i].batch = "completion" /\ ledger[i].type = "decision" /\ ledger[i].obj # 0 => Complete("expansion")

\* A batch is the first n events of one the validation knows, after the b-th
\* event of the ledger.
PlacedAt(kind, b, n, types) ==
  /\ types \in Seq(EventTypes) /\ ValidateBatch(kind, types) /\ n \in 1..Len(types)
  /\ Positions(ledger, kind) = (b + 1)..(b + n)
  /\ \A k \in 1..n : /\ ledger[b + k].index = k /\ ledger[b + k].size = Len(types)
                     /\ ledger[b + k].type = types[k]

BatchesPlaced == \A kind \in Kinds : Started(kind) => \E types : \E b \in Nat, n \in Nat : PlacedAt(kind, b, n, types)

\* Nothing comes after a contribution is settled, and what comes before is
\* known; the root has earned by itself or through its expansion.
SettledLast ==
  \A i, j \in Written(ledger, Credits) : ledger[i].type = "settled" /\ ledger[i].obj = ledger[j].obj => j <= i

Earning ==
  /\ Of("eligible") \subseteq Of("pending")
  /\ Of("settled") \subseteq Of("eligible") \cup Of("earned")
  /\ Of("pending") # {} => Complete("expansion")
  /\ 0 \in Of("earned") => ~Complete("expansion") /\ RootClosed
  /\ 1 \in Of("earned") => Complete("expansion")

BatchesInOrder ==
  /\ Chain /\ ChildDecided /\ BatchesPlaced
  /\ ContributionsFollow(ledger) /\ SettledLast /\ Earning

\* What events at the end of the ledger are about.
LEMMA ObjectsGrow ==
  ASSUME LedgerTyped, NEW added \in Seq(Events), ledger' = ledger \o added
  PROVE  \A type : Of(type)' = Of(type) \cup Brought(added, type)
<1> SUFFICES ASSUME NEW type PROVE Of(type)' = Of(type) \cup Brought(added, type)
  OBVIOUS
<1>1. /\ DOMAIN ledger \subseteq DOMAIN ledger' /\ \A i \in DOMAIN ledger : ledger'[i] = ledger[i]
      /\ \A i \in (DOMAIN ledger') \ DOMAIN ledger : i - Len(ledger) \in DOMAIN added /\ ledger'[i] = added[i - Len(ledger)]
      /\ DOMAIN ledger' = 1..(Len(ledger) + Len(added)) /\ Len(ledger) \in Nat
      /\ DOMAIN added = 1..Len(added) /\ DOMAIN ledger = 1..Len(ledger)
  BY Grown DEF LedgerTyped
<1>2. Of(type)' \subseteq Of(type) \cup Brought(added, type)
  BY <1>1 DEF Of, Objects, Written, Brought
<1>3. Of(type) \subseteq Of(type)'
  BY <1>1 DEF Of, Objects, Written
<1>4. ASSUME NEW k \in DOMAIN added, added[k].type = type PROVE added[k].obj \in Of(type)'
  <2>1. PICK i : i = Len(ledger) + k
    OBVIOUS
  <2>2. i \in (DOMAIN ledger') \ DOMAIN ledger /\ i - Len(ledger) = k
    BY <1>1, <2>1
  <2>3. ledger'[i] = added[k]
    BY <1>1, <2>2
  <2> QED BY <1>4, <2>2, <2>3 DEF Of, Objects, Written
<1>5. Brought(added, type) \subseteq Of(type)'
  BY <1>4 DEF Brought
<1> QED BY <1>2, <1>3, <1>5

\* A batch brings what its shape does, when it is whole, and no more when it is
\* cut.
LEMMA BatchBrings ==
  ASSUME LedgerTyped, NEW kind, NEW shape, NEW added, Batched(added, kind, shape)
  PROVE  /\ \A type : Of(type)' \subseteq Of(type) \cup Brought(shape, type) /\ Of(type) \subseteq Of(type)'
         /\ Len(added) = Len(shape) => \A type : Of(type)' = Of(type) \cup Brought(shape, type)
<1>1. /\ added \in Seq(Events) /\ ledger' = ledger \o added /\ DOMAIN shape = 1..Len(shape)
      /\ \A k \in DOMAIN added : k \in DOMAIN shape /\ added[k].type = shape[k].type /\ added[k].obj = shape[k].obj
  BY RegularShape DEF Batched
<1>2. \A type : Of(type)' = Of(type) \cup Brought(added, type)
  BY <1>1, ObjectsGrow
<1>3. \A type : Brought(added, type) \subseteq Brought(shape, type)
  BY <1>1 DEF Brought
<1>4. ASSUME Len(added) = Len(shape), NEW type PROVE Brought(added, type) = Brought(shape, type)
  <2>1. DOMAIN added = DOMAIN shape
    BY <1>1, <1>4
  <2> QED BY <1>1, <2>1 DEF Brought
<1> QED BY <1>2, <1>3, <1>4

\* The kind of a batch whose shape has an event of a type.
LEMMA BroughtHome ==
  ASSUME NEW kind, NEW shape, Regular(shape, kind), NEW type, NEW o \in Brought(shape, type)
  PROVE  AtHome(type, o, kind)
<1>1. PICK k \in DOMAIN shape : shape[k].type = type /\ shape[k].obj = o
  BY DEF Brought
<1>2. Fits(shape[k].type, shape[k].obj, kind)
  BY RegularShape
<1> QED BY <1>1, <1>2 DEF Fits

\* What the events of a type are about is at home where they are.
LEMMA OfHome ==
  ASSUME HomesKept, NEW type, NEW o \in Of(type)
  PROVE  \E i \in DOMAIN ledger : ledger[i].type = type /\ ledger[i].obj = o /\ AtHome(type, o, ledger[i].batch)
<1>1. PICK i \in DOMAIN ledger : ledger[i].type = type /\ ledger[i].obj = o
  BY DEF Of, Objects, Written
<1> QED BY <1>1 DEF HomesKept

\* A kind that has begun is not begun again, so that what is whole stays whole.
LEMMA BatchesStay ==
  ASSUME LedgerTyped, NEW kind, ~Started(kind), NEW shape, NEW added, Batched(added, kind, shape)
  PROVE  \A other : /\ other # kind => /\ Positions(ledger', other) = Positions(ledger, other)
                                       /\ Started(other)' <=> Started(other)
                                       /\ Complete(other)' <=> Complete(other)
                    /\ Complete(other) => Complete(other)' /\ Started(other)'
                    /\ Started(other)  => Started(other)'
<1> SUFFICES ASSUME NEW other
             PROVE  /\ other # kind => /\ Positions(ledger', other) = Positions(ledger, other)
                                       /\ Started(other)' <=> Started(other)
                                       /\ Complete(other)' <=> Complete(other)
                    /\ Complete(other) => Complete(other)' /\ Started(other)'
                    /\ Started(other)  => Started(other)'
  OBVIOUS
<1>1. added \in Seq(Events) /\ ledger' = ledger \o added /\ \A k \in DOMAIN added : added[k].batch = kind
  BY DEF Batched
<1>2. CASE other # kind
  <2>1. Positions(ledger', other) = Positions(ledger, other) /\ (Complete(other)' <=> Complete(other))
    BY <1>1, <1>2, OtherBatches
  <2> QED BY <1>2, <2>1 DEF Started, Complete
<1>3. CASE other = kind
  BY <1>3 DEF Started, Complete
<1> QED BY <1>2, <1>3

\* A change of a contribution that the validation lets follow what there is.
MayFollow(type, obj) ==
  LET at == About(ledger, Credits, obj)
  IN IF at = {} THEN type # "eligible"
     ELSE \/ type = "eligible" /\ ledger[Max(at)].type = "pending"
          \/ type = "settled" /\ ledger[Max(at)].type \in {"eligible", "earned"}

\* Changes of different contributions, none of which is settled yet.
LEMMA CreditsGrow ==
  ASSUME LedgerTyped, ContributionsFollow(ledger), SettledLast,
         NEW added \in Seq(Events), ledger' = ledger \o added,
         \A k, l \in DOMAIN added :
           added[k].type \in Credits /\ added[l].type \in Credits /\ added[k].obj = added[l].obj => k = l,
         \A k \in DOMAIN added : added[k].type \in Credits =>
           MayFollow(added[k].type, added[k].obj) /\ added[k].obj \notin Of("settled")
  PROVE  ContributionsFollow(ledger') /\ SettledLast'
<1> DEFINE old == DOMAIN ledger
           new == (DOMAIN ledger') \ DOMAIN ledger
           before(i) == {j \in About(ledger', Credits, ledger'[i].obj) : j < i}
<1>1. /\ \A i \in old : ledger'[i] = ledger[i]
      /\ \A i \in new : i - Len(ledger) \in DOMAIN added /\ ledger'[i] = added[i - Len(ledger)] /\ \A j \in old : j < i
      /\ DOMAIN ledger' = old \cup new /\ DOMAIN ledger' \subseteq Nat /\ Len(ledger) \in Nat
  BY Grown DEF LedgerTyped
<1>2. \A i \in old, j \in new : i \in Nat /\ j \in Nat /\ ~(j < i)
  BY <1>1
<1> HIDE DEF old, new
<1>3. ASSUME NEW i \in new, NEW j \in new, ledger'[i].type \in Credits, ledger'[j].type \in Credits,
             ledger'[i].obj = ledger'[j].obj
      PROVE  i = j
  <2>1. PICK k, l : k = i - Len(ledger) /\ l = j - Len(ledger)
    OBVIOUS
  <2>2. k \in DOMAIN added /\ l \in DOMAIN added /\ ledger'[i] = added[k] /\ ledger'[j] = added[l]
    BY <1>1, <2>1
  <2>3. k = l
    BY <1>3, <2>2
  <2> QED BY <1>1, <2>1, <2>3
<1>4. ASSUME NEW i \in old PROVE before(i) = {j \in About(ledger, Credits, ledger[i].obj) : j < i}
  BY <1>1, <1>2 DEF About, Written, old
<1>5. ASSUME NEW i \in new, ledger'[i].type \in Credits PROVE before(i) = About(ledger, Credits, ledger'[i].obj)
  <2>1. ASSUME NEW j \in before(i) PROVE j \in old
    <3>1. j \in DOMAIN ledger' /\ ledger'[j].type \in Credits /\ ledger'[j].obj = ledger'[i].obj /\ j < i
      BY DEF About, Written
    <3>2. j \in new => j = i
      BY <1>3, <1>5, <3>1
    <3> QED BY <1>1, <3>1, <3>2
  <2> QED BY <1>1, <2>1 DEF About, Written, old
<1>6. \A i \in new : ledger'[i].type \in Credits =>
        MayFollow(ledger'[i].type, ledger'[i].obj) /\ ledger'[i].obj \notin Of("settled")
  BY <1>1
<1>7. ContributionsFollow(ledger')
  <2> SUFFICES ASSUME NEW i \in Written(ledger', Credits)
               PROVE  IF before(i) = {} THEN ledger'[i].type # "eligible"
                      ELSE LET latest == ledger'[Max(before(i))].type
                           IN \/ ledger'[i].type = "eligible" /\ latest = "pending"
                              \/ ledger'[i].type = "settled" /\ latest \in {"eligible", "earned"}
    BY DEF ContributionsFollow
  <2>1. i \in DOMAIN ledger' /\ ledger'[i].type \in Credits
    BY DEF Written
  <2>2. ASSUME NEW S, S \subseteq old, S # {} PROVE ledger'[Max(S)] = ledger[Max(S)]
    <3>1. old = 1..Len(ledger) /\ Len(ledger) \in Nat
      BY DEF old, LedgerTyped
    <3>2. S \in SUBSET Nat /\ \A x \in S : x <= Len(ledger)
      BY <2>2, <3>1
    <3>3. Max(S) \in S
      BY <2>2, <3>1, <3>2, Greatest
    <3> QED BY <1>1, <2>2, <3>3
  <2>3. CASE i \in old
    <3>1. PICK S : S = before(i)
      OBVIOUS
    <3>2. S = {j \in About(ledger, Credits, ledger[i].obj) : j < i} /\ S \subseteq old
      BY <1>4, <2>3, <3>1 DEF About, Written, old
    <3>3. ledger'[i] = ledger[i] /\ i \in Written(ledger, Credits)
      BY <1>1, <2>1, <2>3 DEF Written, old
    <3>4. IF S = {} THEN ledger[i].type # "eligible"
          ELSE \/ ledger[i].type = "eligible" /\ ledger[Max(S)].type = "pending"
               \/ ledger[i].type = "settled" /\ ledger[Max(S)].type \in {"eligible", "earned"}
      BY <3>2, <3>3 DEF ContributionsFollow
    <3> HIDE DEF before
    <3> QED BY <2>2, <3>1, <3>2, <3>3, <3>4
  <2>4. CASE i \in new
    <3>1. PICK S : S = before(i)
      OBVIOUS
    <3>2. S = About(ledger, Credits, ledger'[i].obj) /\ S \subseteq old
      BY <1>5, <2>1, <2>4, <3>1 DEF About, Written, old
    <3>3. IF S = {} THEN ledger'[i].type # "eligible"
          ELSE \/ ledger'[i].type = "eligible" /\ ledger[Max(S)].type = "pending"
               \/ ledger'[i].type = "settled" /\ ledger[Max(S)].type \in {"eligible", "earned"}
      BY <1>6, <2>1, <2>4, <3>2 DEF MayFollow
    <3> HIDE DEF before
    <3> QED BY <2>2, <3>1, <3>2, <3>3
  <2> QED BY <1>1, <2>1, <2>3, <2>4
<1>8. SettledLast'
  <2> SUFFICES ASSUME NEW i \in Written(ledger', Credits), NEW j \in Written(ledger', Credits),
                      ledger'[i].type = "settled", ledger'[i].obj = ledger'[j].obj
               PROVE  j <= i
    BY DEF SettledLast
  <2>1. /\ i \in DOMAIN ledger' /\ ledger'[i].type \in Credits /\ i \in Nat
        /\ j \in DOMAIN ledger' /\ ledger'[j].type \in Credits /\ j \in Nat
    BY <1>1 DEF Written
  <2>2. CASE i \in old /\ j \in old
    <3>1. ledger'[i] = ledger[i] /\ ledger'[j] = ledger[j]
      BY <1>1, <2>2
    <3>2. i \in Written(ledger, Credits) /\ j \in Written(ledger, Credits)
      BY <2>1, <2>2, <3>1 DEF Written, old
    <3> QED BY <3>1, <3>2 DEF SettledLast
  <2>3. CASE i \in old /\ j \in new
    <3>1. ledger'[i] = ledger[i] /\ i \in DOMAIN ledger
      BY <1>1, <2>3 DEF old
    <3>2. ledger'[j].obj \in Of("settled")
      BY <3>1 DEF Of, Objects, Written
    <3> QED BY <1>6, <2>1, <2>3, <3>2
  <2>4. CASE i \in new /\ j \in old
    BY <1>2, <2>1, <2>4
  <2>5. CASE i \in new /\ j \in new
    <3>1. i = j
      BY <1>3, <2>1, <2>5
    <3> QED BY <2>1, <3>1
  <2> QED BY <1>1, <2>1, <2>2, <2>3, <2>4, <2>5
<1> QED BY <1>7, <1>8

\* The batches that were there stay where they are.
LEMMA PlacedStay ==
  ASSUME LedgerTyped, NEW added \in Seq(Events), ledger' = ledger \o added,
         NEW kind, Positions(ledger', kind) = Positions(ledger, kind),
         NEW b \in Nat, NEW n \in Nat, NEW types, PlacedAt(kind, b, n, types)
  PROVE  PlacedAt(kind, b, n, types)'
<1>1. /\ types \in Seq(EventTypes) /\ ValidateBatch(kind, types) /\ n \in 1..Len(types)
      /\ Positions(ledger, kind) = (b + 1)..(b + n)
      /\ \A k \in 1..n : ledger[b + k].index = k /\ ledger[b + k].size = Len(types) /\ ledger[b + k].type = types[k]
  BY DEF PlacedAt
<1>2. ASSUME NEW k \in 1..n PROVE ledger'[b + k] = ledger[b + k]
  <2>1. b + k \in Positions(ledger, kind)
    BY <1>1
  <2> QED BY <2>1, Grown DEF Positions
<1> QED BY <1>1, <1>2 DEF PlacedAt

\* A new batch is placed at the end.
LEMMA PlacedNew ==
  ASSUME LedgerTyped, NEW kind, ~Started(kind), NEW shape, ValidateBatch(kind, TypesOf(shape)),
         NEW added, Batched(added, kind, shape)
  PROVE  \E types : \E b \in Nat, n \in Nat : PlacedAt(kind, b, n, types)'
<1>1. /\ added \in Seq(Events) /\ ledger' = ledger \o added /\ Len(added) \in 1..Len(shape)
      /\ \A k \in DOMAIN added : added[k].type = shape[k].type /\ added[k].index = k /\ added[k].size = Len(shape)
      /\ Len(shape) \in Nat /\ DOMAIN shape = 1..Len(shape)
      /\ \A k \in DOMAIN shape : shape[k] \in [type : EventTypes, obj : Nat]
  BY RegularShape DEF Batched
<1>2. PICK types, b, n, m : types = TypesOf(shape) /\ b = Len(ledger) /\ n = Len(added) /\ m = Len(shape)
  OBVIOUS
<1>3. /\ DOMAIN added = 1..n /\ n \in Nat /\ n >= 1 /\ n <= m /\ m \in Nat
      /\ b \in Nat /\ DOMAIN ledger = 1..b /\ ledger' \in Seq(Events) /\ DOMAIN ledger' = 1..(b + n)
      /\ \A i \in (DOMAIN ledger') \ DOMAIN ledger : ledger'[i] = added[i - b]
  BY <1>1, <1>2, Grown DEF LedgerTyped
<1>4. types \in Seq(EventTypes) /\ Len(types) = m /\ \A k \in 1..m : types[k] = shape[k].type
  <2>1. types \in [1..m -> EventTypes] /\ \A k \in 1..m : types[k] = shape[k].type
    BY <1>1, <1>2 DEF TypesOf
  <2> QED BY <1>3, <2>1, AsSequence
<1>5. ASSUME NEW k \in 1..n PROVE ledger'[b + k].index = k /\ ledger'[b + k].size = m /\ ledger'[b + k].type = types[k]
  <2>1. PICK i : i = b + k
    OBVIOUS
  <2>2. i \in (DOMAIN ledger') \ DOMAIN ledger /\ i - b = k /\ k \in DOMAIN added /\ k \in 1..m
    BY <1>3, <2>1
  <2>3. ledger'[i] = added[k]
    BY <1>3, <2>2
  <2> QED BY <1>1, <1>2, <1>4, <2>1, <2>2, <2>3
<1>6. Positions(ledger', kind) = (b + 1)..(b + n)
  BY <1>2, BatchPlaced
<1>7. PlacedAt(kind, b, n, types)'
  <2>1. n \in 1..Len(types) /\ ValidateBatch(kind, types)
    BY <1>2, <1>3, <1>4
  <2> QED BY <1>4, <1>5, <1>6, <2>1 DEF PlacedAt
<1> QED BY <1>3, <1>7

\* Without an expansion a whole completion is that of the root.
LEMMA RootAlone ==
  ASSUME LedgerInOrder, BatchesInOrder, Complete("completion"), ~Complete("expansion")
  PROVE  RootClosed
<1>1. Started("completion") /\ "completion" \in Kinds
  BY DEF Complete, Started, Kinds
<1>2a. PICK types : \E b \in Nat, n \in Nat : PlacedAt("completion", b, n, types)
  BY <1>1 DEF BatchesInOrder, BatchesPlaced
<1>2. PICK b \in Nat, n \in Nat : PlacedAt("completion", b, n, types)
  BY <1>2a
<1>3. types = <<"decision", "completed">> /\ n \in 1..Len(types)
  BY <1>2 DEF PlacedAt, ValidateBatch, ValidateCompletionBatch
<1>4. 1 \in 1..n /\ types[1] = "decision" /\ n >= 1
  BY <1>3
<1>5. PICK i : i = b + 1
  OBVIOUS
<1>6. i \in Positions(ledger, "completion") /\ ledger[i].type = "decision"
  <2>1. Positions(ledger, "completion") = (b + 1)..(b + n) /\ ledger[i].type = types[1]
    BY <1>2, <1>4, <1>5 DEF PlacedAt
  <2> QED BY <1>4, <1>5, <2>1
<1>7. i \in DOMAIN ledger /\ ledger[i].batch = "completion"
  BY <1>6 DEF Positions
<1>8. ledger[i].obj = 0
  BY <1>6, <1>7 DEF BatchesInOrder, ChildDecided
<1> QED BY <1>6, <1>7, <1>8 DEF LedgerInOrder, DecidedOnce

\* What a contribution may be about: the root or its child.
LEMMA CreditHomes ==
  ASSUME LedgerInOrder, BatchesInOrder
  PROVE  /\ Of("pending") \subseteq {0} /\ Of("earned") \subseteq {0, 1} /\ Of("eligible") \subseteq {0}
         /\ Of("settled") \subseteq {0, 1}
         /\ Of("pending") # {} => 0 \notin Of("earned")
         /\ ~Started("parent") => Of("eligible") = {}
         /\ ~Started("settlement") => Of("settled") = {}
<1>1. HomesKept
  BY DEF LedgerInOrder
<1>2. Of("pending") \subseteq {0} /\ Of("earned") \subseteq {0, 1} /\ Of("eligible") \subseteq {0}
  BY <1>1, OfHome DEF AtHome
<1>3. ASSUME NEW type, NEW kind, \A o, batch : AtHome(type, o, batch) => batch = kind, ~Started(kind)
      PROVE  Of(type) = {}
  BY <1>1, <1>3, OfHome DEF Started, Positions
<1>4. ~Started("parent") => Of("eligible") = {}
  BY <1>3 DEF AtHome
<1>5. ~Started("settlement") => Of("settled") = {}
  BY <1>3 DEF AtHome
<1> QED BY <1>2, <1>4, <1>5 DEF BatchesInOrder, Earning

\* The last change of a contribution is one of its changes.
LEMMA LatestCredit ==
  ASSUME LedgerTyped, NEW c, About(ledger, Credits, c) # {}
  PROVE  LET type == ledger[Max(About(ledger, Credits, c))].type IN type \in Credits /\ c \in Of(type)
<1>1. PICK at : at = About(ledger, Credits, c)
  OBVIOUS
<1>2. DOMAIN ledger = 1..Len(ledger) /\ Len(ledger) \in Nat /\ at \subseteq DOMAIN ledger
  BY <1>1 DEF About, Written, LedgerTyped
<1>3. at \in SUBSET Nat /\ at # {} /\ \A x \in at : x <= Len(ledger)
  BY <1>1, <1>2
<1>4. Max(at) \in at
  BY <1>2, <1>3, Greatest
<1>5. PICK i : i = Max(at)
  OBVIOUS
<1>6. i \in DOMAIN ledger /\ ledger[i].type \in Credits /\ ledger[i].obj = c
  BY <1>1, <1>4, <1>5 DEF About, Written
<1>7. c \in Of(ledger[i].type)
  BY <1>6 DEF Of, Objects, Written
<1> QED BY <1>1, <1>5, <1>6, <1>7

\* The contribution of the expansion waits for the root.
LEMMA ParentPays ==
  ASSUME LedgerInOrder, BatchesInOrder, ~Started("parent"), Due("parent")
  PROVE  MayFollow("eligible", 0) /\ 0 \notin Of("settled") /\ 0 \in Of("pending")
<1>1. 0 \in Of("pending")
  <2>1. Of("pending") # {}
    BY DEF Due, Of, Objects
  <2> QED BY <2>1, CreditHomes
<1>2. 0 \notin Of("earned") /\ 0 \notin Of("eligible")
  BY <1>1, CreditHomes
<1>3. 0 \notin Of("settled")
  BY <1>2 DEF BatchesInOrder, Earning
<1>4. PICK at : at = About(ledger, Credits, 0)
  OBVIOUS
<1>5. at # {}
  BY <1>1, <1>4 DEF Of, Objects, About, Written, Credits
<1>6. PICK type : type = ledger[Max(at)].type
  OBVIOUS
<1>7. type \in Credits /\ 0 \in Of(type) /\ LedgerTyped
  BY <1>4, <1>5, <1>6, LatestCredit DEF LedgerInOrder
<1>8. type = "pending"
  BY <1>2, <1>3, <1>7 DEF Credits
<1>9. MayFollow("eligible", 0)
  BY <1>4, <1>5, <1>6, <1>8 DEF MayFollow
<1> QED BY <1>1, <1>3, <1>9

\* What is owed may be settled.
LEMMA OwedFollow ==
  ASSUME LedgerTyped, NEW c \in Owed
  PROVE  MayFollow("settled", c) /\ c \in Of("eligible") \cup Of("earned")
<1>1. PICK at : at = About(ledger, Credits, c)
  OBVIOUS
<1>2. at # {} /\ ledger[Max(at)].type \in {"eligible", "earned"}
  BY <1>1 DEF Owed, Objects, About
<1>3. c \in Of(ledger[Max(at)].type)
  BY <1>1, <1>2, LatestCredit
<1>4. MayFollow("settled", c)
  BY <1>1, <1>2 DEF MayFollow
<1> QED BY <1>2, <1>3, <1>4

\* A batch, whole or cut, keeps the order of the batches.
LEMMA BatchKeepsBatches ==
  ASSUME LedgerInOrder, BatchesInOrder, NEW kind \in Kinds, AppendBatch(kind)
  PROVE  BatchesInOrder'
<1>0. LedgerTyped /\ HomesKept
  BY DEF LedgerInOrder
<1>1a. PICK added : \E shape \in Shapes(kind) : Batched(added, kind, shape)
  BY <1>0, BatchAppended
<1>1. PICK shape \in Shapes(kind) : Batched(added, kind, shape)
  BY <1>1a
<1>2. ~Started(kind) /\ Due(kind)
  BY <1>0, BatchAppended
<1>3. /\ added \in Seq(Events) /\ ledger' = ledger \o added /\ Regular(shape, kind)
      /\ \A k \in DOMAIN added : /\ k \in DOMAIN shape /\ added[k].type = shape[k].type /\ added[k].obj = shape[k].obj
                                 /\ added[k].batch = kind
  BY <1>1 DEF Batched
<1>4. \A other : /\ other # kind => /\ Positions(ledger', other) = Positions(ledger, other)
                                    /\ Started(other)' <=> Started(other)
                                    /\ Complete(other)' <=> Complete(other)
                 /\ Complete(other) => Complete(other)' /\ Started(other)'
                 /\ Started(other)  => Started(other)'
  BY <1>0, <1>1, <1>2, BatchesStay
<1>5. Chain'
  <2>1. Chain
    BY DEF BatchesInOrder
  <2>2. /\ kind = "link" => Complete("expansion")
        /\ kind = "dispatch" => Complete("link")
        /\ kind = "resolution" => Complete("dispatch")
    BY <1>2 DEF Due
  <2> QED BY <1>4, <2>1, <2>2 DEF Chain
<1>6. ChildDecided'
  <2> SUFFICES ASSUME NEW i \in DOMAIN ledger', ledger'[i].batch = "completion", ledger'[i].type = "decision",
                      ledger'[i].obj # 0
               PROVE  Complete("expansion")'
    BY DEF ChildDecided
  <2>1. CASE i \in DOMAIN ledger
    <3>1. ledger'[i] = ledger[i]
      BY <1>0, <1>3, <2>1, Grown
    <3>2. Complete("expansion")
      BY <2>1, <3>1 DEF BatchesInOrder, ChildDecided
    <3> QED BY <1>4, <3>2
  <2>2. CASE i \notin DOMAIN ledger
    <3>1. PICK k \in DOMAIN added : ledger'[i] = added[k]
      BY <1>0, <1>3, <2>2, Grown
    <3>2. PICK u : u = Worked
      OBVIOUS
    <3>3. kind = "completion"
      BY <1>3, <3>1
    <3>4. shape = <<Draft("decision", u), Draft("completed", u)>> /\ u \in Nat
      BY <1>0, <3>2, <3>3, Drawn DEF Shapes
    <3>5. ledger'[i].obj = u
      <4>1. Brought(shape, "decision") = {u}
        BY <3>4, CompletionShape
      <4>2. ledger'[i].obj \in Brought(shape, "decision")
        BY <1>3, <3>1 DEF Brought
      <4> QED BY <4>1, <4>2
    <3>6. u = 1
      <4>1. Worked # 3
        BY <1>2, <3>3 DEF Due
      <4> QED BY <1>0, <3>2, <3>5, <4>1, Drawn
    <3>7. Complete("expansion")
      BY <3>2, <3>6 DEF Worked
    <3> QED BY <1>4, <3>7
  <2> QED BY <2>1, <2>2
<1>7. BatchesPlaced'
  <2> SUFFICES ASSUME NEW other \in Kinds, Started(other)' PROVE \E types : \E b \in Nat, n \in Nat : PlacedAt(other, b, n, types)'
    BY DEF BatchesPlaced
  <2>1. CASE other # kind
    <3>1. Started(other) /\ Positions(ledger', other) = Positions(ledger, other)
      BY <1>4, <2>1
    <3>2a. PICK types : \E b \in Nat, n \in Nat : PlacedAt(other, b, n, types)
      BY <3>1 DEF BatchesInOrder, BatchesPlaced
    <3>2. PICK b \in Nat, n \in Nat : PlacedAt(other, b, n, types)
      BY <3>2a
    <3>3. PlacedAt(other, b, n, types)'
      BY <1>0, <1>3, <3>1, <3>2, PlacedStay
    <3> QED BY <3>3
  <2>2. CASE other = kind
    <3>1. ValidateBatch(kind, TypesOf(shape))
      BY <1>0, <1>2, EveryShape
    <3> QED BY <1>0, <1>1, <1>2, <2>2, <3>1, PlacedNew
  <2> QED BY <2>1, <2>2
<1>8. ASSUME NEW type \in Credits, NEW c \in Brought(shape, type)
      PROVE  \/ kind = "parent" /\ type = "eligible" /\ c = 0
             \/ kind = "settlement" /\ type = "settled" /\ c \in Owed
  <2>1. AtHome(type, c, kind)
    BY <1>3, BroughtHome
  <2>2. kind # "none"
    BY DEF Kinds
  <2>3. kind = "settlement" => Brought(shape, "settled") = Owed
    BY <1>0, <1>2, Settling
  <2> QED BY <2>1, <2>2, <2>3 DEF AtHome, Credits
<1>9. ASSUME NEW type \in Credits, NEW c \in Brought(shape, type)
      PROVE  MayFollow(type, c) /\ c \notin Of("settled")
  <2>1. CASE kind = "parent" /\ type = "eligible" /\ c = 0
    BY <1>2, <2>1, ParentPays
  <2>2. CASE kind = "settlement" /\ type = "settled" /\ c \in Owed
    <3>1. MayFollow("settled", c)
      BY <1>0, <2>2, OwedFollow
    <3>2. Of("settled") = {}
      BY <1>2, <2>2, CreditHomes
    <3> QED BY <2>2, <3>1, <3>2
  <2> QED BY <1>8, <1>9, <2>1, <2>2
<1>10. ContributionsFollow(ledger') /\ SettledLast'
  <2>1. \A k, l \in DOMAIN added :
          added[k].type \in Credits /\ added[l].type \in Credits /\ added[k].obj = added[l].obj => k = l
    BY <1>3 DEF Regular
  <2>2. ASSUME NEW k \in DOMAIN added, added[k].type \in Credits
        PROVE  MayFollow(added[k].type, added[k].obj) /\ added[k].obj \notin Of("settled")
    <3>1. added[k].obj \in Brought(shape, added[k].type)
      BY <1>3 DEF Brought
    <3> QED BY <1>9, <2>2, <3>1
  <2> QED BY <1>0, <1>3, <2>1, <2>2, CreditsGrow DEF BatchesInOrder
<1>11. Earning'
  <2>0. Earning
    BY DEF BatchesInOrder
  <2>1. \A type : Of(type)' \subseteq Of(type) \cup Brought(shape, type) /\ Of(type) \subseteq Of(type)'
    BY <1>0, <1>1, BatchBrings
  <2>2. Brought(shape, "pending") = {} /\ Brought(shape, "earned") = {}
    BY <1>8 DEF Credits
  <2>3. \A c \in Brought(shape, "eligible") : c \in Of("pending")
    BY <1>2, <1>8, ParentPays DEF Credits
  <2>4. \A c \in Brought(shape, "settled") : c \in Of("eligible") \cup Of("earned")
    BY <1>0, <1>8, OwedFollow DEF Credits
  <2>5. (Of("eligible") \subseteq Of("pending"))'
    BY <2>0, <2>1, <2>3 DEF Earning
  <2>6. (Of("settled") \subseteq Of("eligible") \cup Of("earned"))'
    BY <2>0, <2>1, <2>4 DEF Earning
  <2>7. Of("pending")' # {} => Complete("expansion")'
    BY <1>4, <2>0, <2>1, <2>2 DEF Earning
  <2>8. 1 \in Of("earned")' => Complete("expansion")'
    BY <1>4, <2>0, <2>1, <2>2 DEF Earning
  <2>9. 0 \in Of("earned")' => ~Complete("expansion")' /\ RootClosed'
    <3> SUFFICES ASSUME 0 \in Of("earned")' PROVE ~Complete("expansion")' /\ RootClosed'
      OBVIOUS
    <3>1. ~Complete("expansion") /\ RootClosed
      BY <2>0, <2>1, <2>2 DEF Earning
    <3>2. RootClosed' /\ kind # "expansion"
      BY <1>0, <1>1, <1>2, <3>1, BatchLeavesClosed
    <3> QED BY <1>4, <3>1, <3>2
  <2> QED BY <2>5, <2>6, <2>7, <2>8, <2>9 DEF Earning
<1> QED BY <1>5, <1>6, <1>7, <1>10, <1>11 DEF BatchesInOrder

\* An event on its own belongs to no batch.
LEMMA SingleStays ==
  ASSUME LedgerTyped, NEW type \in EventTypes, NEW obj \in Nat, ledger' = Append(ledger, Single(type, obj))
  PROVE  \E added \in Seq(Events) :
           /\ ledger' = ledger \o added /\ DOMAIN added = {1}
           /\ added[1].type = type /\ added[1].obj = obj /\ added[1].batch = "none"
           /\ \A kind \in Kinds : /\ Positions(ledger', kind) = Positions(ledger, kind)
                                  /\ Started(kind)' <=> Started(kind)
                                  /\ Complete(kind)' <=> Complete(kind)
           /\ \A other : Of(other)' = IF other = type THEN Of(other) \cup {obj} ELSE Of(other)
<1>1. PICK e, added : e = Single(type, obj) /\ added = <<e>>
  OBVIOUS
<1>2. e \in Events /\ e.type = type /\ e.obj = obj /\ e.batch = "none" /\ "none" \notin Kinds
  BY <1>1 DEF Events, Single, Kinds
<1>3. added \in Seq(Events) /\ DOMAIN added = {1} /\ added[1] = e
  BY <1>1, <1>2
<1>4. ledger' = ledger \o added
  BY <1>1, <1>2 DEF LedgerTyped
<1>5. ASSUME NEW kind \in Kinds
      PROVE  /\ Positions(ledger', kind) = Positions(ledger, kind)
             /\ Started(kind)' <=> Started(kind)
             /\ Complete(kind)' <=> Complete(kind)
  <2>1. Positions(ledger', kind) = Positions(ledger, kind) /\ (Complete(kind)' <=> Complete(kind))
    BY <1>2, <1>3, <1>4, OtherBatches
  <2> QED BY <2>1 DEF Started
<1>6. ASSUME NEW other PROVE Of(other)' = IF other = type THEN Of(other) \cup {obj} ELSE Of(other)
  <2>1. Of(other)' = Of(other) \cup Brought(added, other)
    BY <1>3, <1>4, ObjectsGrow
  <2>2. Brought(added, other) = IF other = type THEN {obj} ELSE {}
    BY <1>2, <1>3 DEF Brought
  <2> QED BY <2>1, <2>2
<1> QED BY <1>2, <1>3, <1>4, <1>5, <1>6

\* An event that is no change of a unit, and a contribution only when it may
\* be, keeps the order of the batches.
LEMMA SingleKeepsBatches ==
  ASSUME LedgerInOrder, BatchesInOrder, NEW type \in EventTypes \ Changes, NEW obj \in Nat,
         ledger' = Append(ledger, Single(type, obj)), type \notin {"eligible", "settled"},
         type \in Credits => MayFollow(type, obj) /\ obj \notin Of("settled"),
         type = "pending" => Complete("expansion"),
         type = "earned" => IF obj = 0 THEN ~Complete("expansion") /\ RootClosed ELSE Complete("expansion")
  PROVE  BatchesInOrder'
<1>0. LedgerTyped
  BY DEF LedgerInOrder
<1>1. PICK added \in Seq(Events) :
        /\ ledger' = ledger \o added /\ DOMAIN added = {1}
        /\ added[1].type = type /\ added[1].obj = obj /\ added[1].batch = "none"
        /\ \A kind \in Kinds : /\ Positions(ledger', kind) = Positions(ledger, kind)
                               /\ Started(kind)' <=> Started(kind)
                               /\ Complete(kind)' <=> Complete(kind)
        /\ \A other : Of(other)' = IF other = type THEN Of(other) \cup {obj} ELSE Of(other)
  BY <1>0, SingleStays
<1>2. \A kind \in {"expansion", "link", "dispatch", "resolution"} : (Started(kind)' <=> Started(kind)) /\ (Complete(kind)' <=> Complete(kind))
  BY <1>1 DEF Kinds
<1>3. Chain'
  BY <1>2 DEF BatchesInOrder, Chain
<1>4. ChildDecided'
  <2> SUFFICES ASSUME NEW i \in DOMAIN ledger', ledger'[i].batch = "completion", ledger'[i].type = "decision",
                      ledger'[i].obj # 0
               PROVE  Complete("expansion")'
    BY DEF ChildDecided
  <2>1. i \in DOMAIN ledger
    BY <1>0, <1>1, Grown
  <2>2. ledger'[i] = ledger[i]
    BY <1>0, <1>1, <2>1, Grown
  <2> QED BY <1>2, <2>1, <2>2 DEF BatchesInOrder, ChildDecided
<1>5. BatchesPlaced'
  <2> SUFFICES ASSUME NEW kind \in Kinds, Started(kind)' PROVE \E types : \E b \in Nat, n \in Nat : PlacedAt(kind, b, n, types)'
    BY DEF BatchesPlaced
  <2>1. Started(kind) /\ Positions(ledger', kind) = Positions(ledger, kind)
    BY <1>1
  <2>2a. PICK types : \E b \in Nat, n \in Nat : PlacedAt(kind, b, n, types)
    BY <2>1 DEF BatchesInOrder, BatchesPlaced
  <2>2. PICK b \in Nat, n \in Nat : PlacedAt(kind, b, n, types)
    BY <2>2a
  <2>3. PlacedAt(kind, b, n, types)'
    BY <1>0, <1>1, <2>1, <2>2, PlacedStay
  <2> QED BY <2>3
<1>6. ContributionsFollow(ledger') /\ SettledLast'
  <2>1. \A k, l \in DOMAIN added : k = l
    BY <1>1
  <2>2. \A k \in DOMAIN added : added[k].type \in Credits => MayFollow(added[k].type, added[k].obj) /\ added[k].obj \notin Of("settled")
    BY <1>1
  <2> QED BY <1>0, <1>1, <2>1, <2>2, CreditsGrow DEF BatchesInOrder
<1>7. RootClosed => RootClosed'
  <2>1. \A k \in DOMAIN added : added[k].type \notin Changes
    BY <1>1
  <2> QED BY <1>0, <1>1, <2>1, StaysClosed
<1>8. Earning'
  <2>1. Earning
    BY DEF BatchesInOrder
  <2>2. Of("eligible")' = Of("eligible") /\ Of("settled")' = Of("settled")
    BY <1>1
  <2>3. Of("pending") \subseteq Of("pending")' /\ Of("earned") \subseteq Of("earned")'
    BY <1>1
  <2>4. Of("pending")' # {} => Complete("expansion")'
    BY <1>1, <1>2, <2>1 DEF Earning
  <2>5. 0 \in Of("earned")' => ~Complete("expansion")' /\ RootClosed'
    BY <1>1, <1>2, <1>7, <2>1 DEF Earning
  <2>6. 1 \in Of("earned")' => Complete("expansion")'
    BY <1>1, <1>2, <2>1 DEF Earning
  <2> QED BY <2>1, <2>2, <2>3, <2>4, <2>5, <2>6 DEF Earning
<1> QED BY <1>3, <1>4, <1>5, <1>6, <1>8 DEF BatchesInOrder

\* The first change of a contribution needs no other.
LEMMA FirstCredit ==
  ASSUME NEW type, type # "eligible", NEW obj, \A other \in Credits : obj \notin Of(other)
  PROVE  MayFollow(type, obj)
<1>1. About(ledger, Credits, obj) = {}
  BY DEF Of, Objects, Written, About
<1> QED BY <1>1 DEF MayFollow

\* So do the events of the contributions,
LEMMA ContributionKeepsBatches ==
  ASSUME LedgerInOrder, BatchesInOrder, AppendContribution
  PROVE  BatchesInOrder'
<1>0. Chain /\ Earning
  BY DEF BatchesInOrder
<1>1. Complete("resolution") => Complete("expansion")
  BY <1>0 DEF Chain, Complete, Started
<1>2. ~Complete("expansion") => Complete("completion") /\ RootClosed
  BY <1>1, RootAlone DEF AppendContribution
<1>3. PICK type, obj :
        /\ type \in {"pending", "earned"} /\ Written(ledger, {type}) = {} /\ ledger' = Append(ledger, Single(type, obj))
        /\ ~Complete("expansion") => type = "earned"
        /\ obj = IF type = "earned" /\ Complete("expansion") THEN 1 ELSE 0
  BY DEF AppendContribution
<1>4. Of(type) = {}
  BY <1>3 DEF Of, Objects
<1>5. \A other \in Credits : obj \notin Of(other)
  <2>1. CASE type = "pending"
    <3>1. obj = 0 /\ Complete("expansion")
      BY <1>3, <2>1
    <3>2. 0 \notin Of("earned") /\ 0 \notin Of("pending")
      BY <1>0, <1>4, <2>1, <3>1 DEF Earning
    <3> QED BY <1>0, <3>1, <3>2 DEF Earning, Credits
  <2>2. CASE type = "earned" /\ Complete("expansion")
    <3>1. obj = 1
      BY <1>3, <2>2
    <3>2. 1 \notin Of("pending")
      BY CreditHomes
    <3> QED BY <1>0, <1>4, <2>2, <3>1, <3>2 DEF Earning, Credits
  <2>3. CASE type = "earned" /\ ~Complete("expansion")
    <3>1. obj = 0 /\ Of("pending") = {}
      BY <1>0, <1>3, <2>3 DEF Earning
    <3> QED BY <1>0, <1>4, <2>3, <3>1 DEF Earning, Credits
  <2> QED BY <1>3, <2>1, <2>2, <2>3
<1>6. MayFollow(type, obj) /\ obj \notin Of("settled")
  BY <1>3, <1>5, FirstCredit DEF Credits
<1>7. type \in EventTypes \ Changes /\ obj \in Nat /\ type \notin {"eligible", "settled"}
  BY <1>3 DEF EventTypes, Changes, Credits
<1>8. /\ type = "pending" => Complete("expansion")
      /\ type = "earned" => IF obj = 0 THEN ~Complete("expansion") /\ RootClosed ELSE Complete("expansion")
  BY <1>2, <1>3
<1> QED BY <1>3, <1>6, <1>7, <1>8, SingleKeepsBatches

\* and those of the work on a unit, none of which is one.
LEMMA WorkKeepsBatches ==
  ASSUME LedgerInOrder, BatchesInOrder, NEW type \in {"request", "submission", "report", "bound", "invoked"},
         NEW obj \in Nat, ledger' = Append(ledger, Single(type, obj))
  PROVE  BatchesInOrder'
<1>1. type \in EventTypes \ Changes /\ type \notin Credits
  BY DEF EventTypes, Changes, Credits
<1>2. type \notin {"eligible", "settled", "pending", "earned"}
  OBVIOUS
<1> QED BY <1>1, <1>2, SingleKeepsBatches

\* Whoever else appends nothing keeps it.
LEMMA BatchesUnchanged ==
  ASSUME BatchesInOrder, ledger' = ledger
  PROVE  BatchesInOrder'
<1>1. \A kind : Positions(ledger, kind)' = Positions(ledger, kind)
  BY DEF Positions
<1>2. \A kind : (Complete(kind)' <=> Complete(kind)) /\ (Started(kind)' <=> Started(kind))
  BY <1>1 DEF Complete, Started
<1>3. RootClosed' <=> RootClosed
  BY DEF RootClosed
<1>4. \A type : Of(type)' = Of(type)
  BY DEF Of, Objects, Written
<1>5. Chain' /\ ChildDecided' /\ Earning'
  BY <1>2, <1>3, <1>4 DEF BatchesInOrder, Chain, ChildDecided, Earning
<1>6. BatchesPlaced'
  <2> SUFFICES ASSUME NEW kind \in Kinds, Started(kind)' PROVE \E types : \E b \in Nat, n \in Nat : PlacedAt(kind, b, n, types)'
    BY DEF BatchesPlaced
  <2>1a. PICK types : \E b \in Nat, n \in Nat : PlacedAt(kind, b, n, types)
    BY <1>2 DEF BatchesInOrder, BatchesPlaced
  <2>1. PICK b \in Nat, n \in Nat : PlacedAt(kind, b, n, types)
    BY <2>1a
  <2>2. PlacedAt(kind, b, n, types)'
    BY <1>1, <2>1 DEF PlacedAt
  <2> QED BY <2>2
<1>7. ContributionsFollow(ledger') /\ SettledLast'
  BY DEF BatchesInOrder, SettledLast, Written
<1> QED BY <1>5, <1>6, <1>7 DEF BatchesInOrder

\* Both invariants of the ledger together.
IndexOrdered == IndexInOrder /\ BatchesInOrder

\* Every step keeps both orders.
LEMMA OrderedStep ==
  ASSUME IndexOrdered, [IndexNext]_indexVars
  PROVE  IndexOrdered'
<1>0. LedgerInOrder /\ BatchesInOrder /\ LedgerTyped
  BY DEF IndexOrdered, IndexInOrder, LedgerInOrder
<1>1. IndexInOrder'
  BY IndexStep DEF IndexOrdered
<1>2. BatchesInOrder'
  <2>1. ASSUME NEW kind \in Kinds, AppendBatch(kind) PROVE BatchesInOrder'
    BY <1>0, <2>1, BatchKeepsBatches
  <2>2. CASE AppendWork
    <3>1. PICK type, obj :
            /\ obj \in Nat /\ type \in {"request", "submission", "report", "bound", "invoked"}
            /\ ledger' = Append(ledger, Single(type, obj))
      BY <1>0, <2>2, WorkEvent
    <3> QED BY <1>0, <3>1, WorkKeepsBatches
  <2>3. CASE AppendContribution
    BY <1>0, <2>3, ContributionKeepsBatches
  <2>4. CASE Rebuild \/ DropTable \/ CreateTable \/ InsertRows \/ CrashRebuild \/ UNCHANGED indexVars
    <3>1. ledger' = ledger
      BY <2>4 DEF Rebuild, DropTable, CreateTable, InsertRows, CrashRebuild, indexVars, ledgerVars
    <3> QED BY <1>0, <3>1, BatchesUnchanged
  <2> QED BY <2>1, <2>2, <2>3, <2>4 DEF IndexNext
<1> QED BY <1>1, <1>2 DEF IndexOrdered

\* In the beginning there is no batch.
LEMMA OrderedBegins == IndexInit => IndexOrdered
<1> SUFFICES ASSUME IndexInit PROVE IndexOrdered
  OBVIOUS
<1>1. PICK e : e = Single("unit", 0)
  OBVIOUS
<1>2. ledger = <<e>> /\ e.type = "unit" /\ e.batch = "none"
  BY <1>1 DEF IndexInit, Single
<1>3. DOMAIN ledger = {1} /\ ledger[1] = e
  BY <1>2
<1>4. \A kind \in Kinds : ~Started(kind)
  BY <1>2, <1>3 DEF Started, Positions, Kinds
<1>5. \A type \in Credits : Of(type) = {}
  BY <1>2, <1>3 DEF Of, Objects, Written, Credits
<1>6. Written(ledger, Credits) = {}
  BY <1>2, <1>3 DEF Written, Credits
<1>7. Chain /\ ChildDecided /\ BatchesPlaced
  BY <1>2, <1>3, <1>4 DEF Chain, ChildDecided, BatchesPlaced, Kinds
<1>8. ContributionsFollow(ledger) /\ SettledLast /\ Earning
  BY <1>5, <1>6 DEF ContributionsFollow, SettledLast, Earning, Credits
<1> QED BY <1>7, <1>8, IndexBegins DEF IndexOrdered, BatchesInOrder

\* A ledger that is accepted is one of whole batches.
LEMMA AcceptedWhole == ASSUME Accepts(ledger) PROVE Whole
<1> SUFFICES ASSUME NEW kind \in Kinds, Started(kind) PROVE Complete(kind)
  BY DEF Whole
<1>1. OrderedBatchEvents(ledger, kind)
  BY DEF Accepts, AcceptsBatch, Started
<1> QED BY <1>1 DEF OrderedBatchEvents, Complete, Started

\* A whole batch is the one the engine meant to write, event for event.
LEMMA CompleteAccepted ==
  ASSUME LedgerTyped, BatchesPlaced, NEW kind \in Kinds, Started(kind), Complete(kind)
  PROVE  AcceptsBatch(ledger, kind)
<1>1a. PICK types : \E b \in Nat, n \in Nat : PlacedAt(kind, b, n, types)
  BY DEF BatchesPlaced
<1>1. PICK b \in Nat, n \in Nat : PlacedAt(kind, b, n, types)
  BY <1>1a
<1>2. PICK at : at = Positions(ledger, kind)
  OBVIOUS
<1>3. /\ types \in Seq(EventTypes) /\ ValidateBatch(kind, types) /\ n \in 1..Len(types) /\ at = (b + 1)..(b + n)
      /\ \A k \in 1..n : ledger[b + k].index = k /\ ledger[b + k].size = Len(types) /\ ledger[b + k].type = types[k]
  BY <1>1, <1>2 DEF PlacedAt
<1>4. Cardinality(at) = n
  <2>1. PICK x, y : x = b + 1 /\ y = b + n
    OBVIOUS
  <2>2. x \in Int /\ y \in Int /\ ~(x > y) /\ y - x + 1 = n
    BY <1>3, <2>1
  <2> QED BY <1>3, <2>1, <2>2, FS_Interval
<1>5. \A i \in at : i - b \in 1..n /\ i = b + (i - b) /\ i \in Nat
  BY <1>3
<1>6. \A i \in at : ledger[i].index = i - b /\ ledger[i].size = Len(types) /\ ledger[i].type = types[i - b]
  BY <1>3, <1>5
<1>7. n = Len(types)
  <2>1. PICK i \in at : Cardinality(at) = ledger[i].size
    BY <1>2 DEF Complete
  <2> QED BY <1>4, <1>6, <2>1
<1>8. \A k \in 1..n : b + k \in at /\ ledger[b + k].index = k
  BY <1>3
<1>9. OrderedBatchEvents(ledger, kind)
  <2>1. \A i \in at : ledger[i].size = Cardinality(at)
    BY <1>4, <1>6, <1>7
  <2>2. {ledger[i].index : i \in at} = 1..Cardinality(at)
    <3>1. ASSUME NEW i \in at PROVE ledger[i].index \in 1..n
      BY <1>5, <1>6
    <3>2. ASSUME NEW k \in 1..n PROVE \E i \in at : ledger[i].index = k
      BY <1>8
    <3>3. PICK f : f = [i \in at |-> ledger[i].index]
      OBVIOUS
    <3>4. \A i \in at : f[i] \in 1..n
      BY <3>1, <3>3
    <3>5. \A k \in 1..n : \E i \in at : f[i] = k
      BY <3>2, <3>3
    <3>6. {f[i] : i \in at} = 1..n
      BY <3>4, <3>5
    <3>7. {ledger[i].index : i \in at} = {f[i] : i \in at}
      BY <3>3
    <3> QED BY <1>4, <3>6, <3>7
  <2>3. ASSUME NEW i \in at, NEW j \in at PROVE i - j = ledger[i].index - ledger[j].index
    BY <1>5, <1>6
  <2> QED BY <1>2, <2>1, <2>2, <2>3 DEF OrderedBatchEvents
<1>10. Types(ledger, kind) = types
  <2>1. ASSUME NEW k \in 1..n PROVE (CHOOSE i \in at : ledger[i].index = k) = b + k
    <3>1. b + k \in at /\ ledger[b + k].index = k
      BY <1>8
    <3>2. \A i \in at : ledger[i].index = k => i = b + k
      BY <1>5, <1>6
    <3> QED BY <3>1, <3>2
  <2>2. \A k \in 1..n : ledger[CHOOSE i \in at : ledger[i].index = k].type = types[k]
    BY <1>3, <2>1
  <2>3. Types(ledger, kind) = [k \in 1..n |-> ledger[CHOOSE i \in at : ledger[i].index = k].type]
    BY <1>2, <1>4 DEF Types
  <2>4. types = [k \in 1..n |-> types[k]]
    BY <1>3, <1>7
  <2> QED BY <2>2, <2>3, <2>4
<1> QED BY <1>3, <1>9, <1>10 DEF AcceptsBatch

\* A rebuild accepts exactly the ledgers of whole batches: the two contexts and
\* the engine agree on what an operation is, whatever else has been written in
\* between and however many batches are cut (storage/sqlite_index.py:2238).
THEOREM IndexAcceptsExactlyWhole == IndexSpec => []AcceptsExactlyWhole
<1>1. IndexInit => IndexOrdered
  BY OrderedBegins
<1>2. IndexOrdered /\ [IndexNext]_indexVars => IndexOrdered'
  BY OrderedStep
<1>3. ASSUME IndexOrdered PROVE AcceptsExactlyWhole
  <2>1. LedgerTyped /\ BatchesPlaced /\ ContributionsFollow(ledger)
    BY <1>3 DEF IndexOrdered, IndexInOrder, LedgerInOrder, BatchesInOrder
  <2>2. ASSUME Whole PROVE Accepts(ledger)
    <3>1. ASSUME NEW kind \in Kinds, Positions(ledger, kind) # {} PROVE AcceptsBatch(ledger, kind)
      <4>1. Started(kind) /\ Complete(kind)
        BY <2>2, <3>1 DEF Whole, Started
      <4> QED BY <2>1, <4>1, CompleteAccepted
    <3> QED BY <2>1, <3>1 DEF Accepts
  <2>3. Accepts(ledger) => Whole
    BY AcceptedWhole
  <2> QED BY <2>2, <2>3 DEF AcceptsExactlyWhole, Whole
<1>4. IndexOrdered => AcceptsExactlyWhole
  BY <1>3
<1> QED BY <1>1, <1>2, <1>4, PTL DEF IndexSpec

-----------------------------------------------------------------------------
(* The story of a ledger of whole batches.  It is told in what the events  *)
(* of each type are about, in the states of the units and in the kinds of  *)
(* batches that have begun.                                                *)

\* The batches and the attempts in their order: what is claimed first is the
\* root, leases are numbered, and each step of an attempt follows the last.
AttemptsInOrder ==
  /\ Started("reschedule") \/ Started("expansion") => Started("schedule")
  /\ Started("link")       => Started("expansion")
  /\ Started("dispatch")   => Started("link")
  /\ Started("resolution") => Started("dispatch")
  /\ Started("parent")     => Started("resolution")
  /\ Started("schedule")   => 1 \in Of("leased")
  /\ Of("leased") = 1..Attempt /\ Of("created") = Of("leased")
  /\ Of("request") \subseteq Of("leased")
  /\ Of("submission") \subseteq Of("request")
  /\ Of("report") \subseteq Of("submission")

\* A lease that was released is not given again.
ReleasedLast ==
  \A i \in Written(ledger, {"released"}), j \in Written(ledger, {"leased"}) : ledger[i].obj = ledger[j].obj => j < i

LeasesInOrder ==
  /\ Of("released") = Of("recovery") /\ Of("released") \subseteq Of("leased") /\ Of("ended") \subseteq Of("released")
  /\ ReleasedLast

\* A unit whose output is bound is not recovered; it is decided on after the
\* strategy was asked.
ResultsInOrder ==
  /\ Of("decision") \subseteq Of("invoked") /\ Of("invoked") \subseteq Of("bound") /\ Of("merge") \subseteq Of("bound")
  /\ Of("bound") \subseteq {0, 1, 3}
  /\ \A u \in Of("bound") : State(u) \in {"processing", "completed"}

\* Units are what the expansion and the merge have made them until the root is
\* completed.
UnitsInOrder ==
  /\ 0 \in Of("unit")
  /\ \A u \in {1, 2} : State(u) # "none" => Started("expansion")
  /\ State(3) # "none" => Started("link")
  /\ Started("link") => State(1) = "completed" /\ 3 \in Of("link")
  /\ State(0) = "completed" /\ Started("expansion") => Started("parent")
  /\ Started("parent") \/ Started("settlement") \/ Started("pruning") => State(0) = "completed"

\* The merge resolves what the expansion has promised.
GraphInOrder ==
  /\ Started("expansion") => 1 \in ChildrenOf(ledger)
  /\ Of("relation") # {} => 2 \in ChildrenOf(ledger)
  /\ Of("plan") = Of("proposal")
  /\ Of("resolved") \subseteq ChildrenOf(ledger)
  /\ Of("resolved") # {} => Of("merge") # {}
  /\ Started("parent") => Of("resolved") = ChildrenOf(ledger)

\* What is cancelled is the child that was never scheduled.
EndInOrder ==
  /\ Started("settlement") => 0 \in Of("settlement")
  /\ Started("pruning") => /\ Of("cancelled") = {2} /\ State(2) = "cancelled" /\ 0 \in Of("pruned")
                           /\ Cardinality(Positions(ledger, "pruning")) = 2

Story == AttemptsInOrder /\ LeasesInOrder /\ ResultsInOrder /\ UnitsInOrder /\ GraphInOrder /\ EndInOrder

-----------------------------------------------------------------------------
(* What a batch or an event adds to the story.                             *)

\* The state a change of a unit leaves.
After(type) == IF type = "unit" THEN "ready" ELSE type

\* Events added to the ledger as the batch of a kind, or none, by the objects
\* the events of each type are about.
Added(kind, brought) ==
  /\ kind \in Kinds \cup {"none"} /\ (kind \in Kinds => ~Started(kind))
  /\ brought \in [EventTypes -> SUBSET Nat]
  /\ \A type \in EventTypes : \A o \in brought[type] : AtHome(type, o, kind)
  /\ \A type \in EventTypes : Of(type)' = Of(type) \cup brought[type]
  /\ \A other \in Kinds : Started(other)' <=> Started(other) \/ other = kind
  /\ \A other \in Kinds : other # kind => Positions(ledger', other) = Positions(ledger, other)
  /\ \A type \in Changes : \A u \in brought[type] : State(u)' = After(type)
  /\ \A u \in Nat : (\A type \in Changes : u \notin brought[type]) => State(u)' = State(u)
  /\ ChildrenOf(ledger)' = ChildrenOf(ledger) \cup (IF kind = "expansion" THEN brought["unit"] ELSE {})
  /\ ReleasedLast /\ brought["leased"] \cap Of("released") = {} /\ (brought["leased"] = {} \/ brought["released"] = {})
       => ReleasedLast'

WorkTypes == {"request", "submission", "report", "bound", "invoked"}

\* What the engine adds when.
Planned(kind, brought) ==
  /\ kind \in Claims =>
       \E u \in {0, 1, 3}, n \in Nat :
         /\ State(u) = "ready" /\ n = (IF kind = "schedule" THEN 1 ELSE Attempt + 1)
         /\ brought["processing"] = {u} /\ brought["leased"] = {n} /\ brought["created"] = {n}
  /\ kind = "reschedule" => Started("schedule")
  /\ kind = "dispatch"   => Started("link")
  /\ kind = "recovery"   =>
       /\ State(Worked) = "processing" /\ ~Bound(Worked)
       /\ brought["released"] = {Attempt} /\ brought["recovery"] = {Attempt} /\ brought["ended"] \subseteq {Attempt}
       /\ \A type \in Changes : brought[type] \subseteq {Worked}
  /\ kind = "expansion"  =>
       /\ State(0) = "processing" /\ Invoked(0)
       /\ brought["proposal"] = {0} /\ brought["plan"] = {0} /\ brought["decision"] = {0}
       /\ \E n \in 1..2, m \in 0..1 : m < n /\ brought["unit"] = 1..n /\ brought["relation"] = 1..m
  /\ kind = "completion" =>
       /\ Worked # 3 /\ State(Worked) = "processing" /\ Invoked(Worked)
       /\ brought["decision"] = {Worked} /\ brought["completed"] = {Worked}
       /\ Worked = 0 => ~Started("expansion")
  /\ kind = "link"       =>
       Started("expansion") /\ State(1) = "completed" /\ brought["unit"] = {3} /\ brought["link"] = {3}
  /\ kind = "resolution" =>
       /\ Started("dispatch") /\ Bound(3) /\ brought["merge"] = {3}
       /\ \E n \in ChildrenOf(ledger) : brought["resolved"] = 1..n
  /\ kind = "parent"     =>
       Started("resolution") /\ Of("resolved") = ChildrenOf(ledger) /\ brought["completed"] = {0}
  /\ kind = "settlement" => State(0) = "completed" /\ brought["settlement"] = {0}
  /\ kind = "pruning"    =>
       /\ State(0) = "completed" /\ Started("expansion") /\ Cancellable # {}
       /\ brought["cancelled"] = Cancellable /\ brought["pruned"] = {0}
       /\ Cardinality(Positions(ledger', "pruning")) = Cardinality(Cancellable) + 1
  /\ kind = "none"       =>
       /\ \A type \in Changes : brought[type] = {}
       /\ State(Worked) = "processing" \/ \A type \in WorkTypes : brought[type] = {}
       /\ brought["request"] \subseteq {Attempt}
       /\ brought["submission"] \subseteq {Attempt} \cap Of("request")
       /\ brought["report"] \subseteq {Attempt} \cap Of("submission")
       /\ brought["bound"] \subseteq {Worked}
       /\ brought["invoked"] \subseteq {Worked} \cap Of("bound")

\* A unit no change is about stays in its state,
LEMMA StateStays ==
  ASSUME LedgerTyped, NEW added \in Seq(Events), ledger' = ledger \o added, NEW u,
         \A k \in DOMAIN added : added[k].type \in Changes => added[k].obj # u
  PROVE  State(u)' = State(u)
<1>1. PICK at : at = About(ledger, Changes, u)
  OBVIOUS
<1>2. About(ledger, Changes, u)' = at
  <2>1. \A i \in DOMAIN ledger : i \in DOMAIN ledger' /\ ledger'[i] = ledger[i]
    BY Grown
  <2>2. \A i \in (DOMAIN ledger') \ DOMAIN ledger : ledger'[i].type \in Changes => ledger'[i].obj # u
    BY Grown
  <2> QED BY <1>1, <2>1, <2>2 DEF About, Written
<1>3. CASE at = {}
  BY <1>1, <1>2, <1>3 DEF State
<1>4. CASE at # {}
  <2>1. at \subseteq DOMAIN ledger /\ DOMAIN ledger = 1..Len(ledger) /\ Len(ledger) \in Nat
    BY <1>1 DEF About, Written, LedgerTyped
  <2>2. at \in SUBSET Nat /\ \A x \in at : x <= Len(ledger)
    BY <2>1
  <2>3. Max(at) \in at
    BY <1>4, <2>1, <2>2, Greatest
  <2>4. ledger'[Max(at)] = ledger[Max(at)]
    BY <2>1, <2>3, Grown
  <2> QED BY <1>1, <1>2, <1>4, <2>4 DEF State
<1> QED BY <1>3, <1>4

\* and one that a single change is about goes to the state it says.
LEMMA StateChanges ==
  ASSUME LedgerTyped, NEW added \in Seq(Events), ledger' = ledger \o added,
         NEW k \in DOMAIN added, added[k].type \in Changes,
         \A l \in DOMAIN added : added[l].type \in Changes /\ added[l].obj = added[k].obj => l = k
  PROVE  State(added[k].obj)' = After(added[k].type)
<1>1. PICK u, type, i : u = added[k].obj /\ type = added[k].type /\ i = Len(ledger) + k
  OBVIOUS
<1>2. PICK at : at = About(ledger', Changes, u)
  OBVIOUS
<1>3. /\ DOMAIN ledger' = 1..(Len(ledger) + Len(added)) /\ Len(ledger) \in Nat /\ Len(added) \in Nat
      /\ DOMAIN ledger = 1..Len(ledger) /\ DOMAIN added = 1..Len(added)
  BY Grown DEF LedgerTyped
<1>4. i \in (DOMAIN ledger') \ DOMAIN ledger /\ i - Len(ledger) = k
  BY <1>1, <1>3
<1>5. ledger'[i] = added[k]
  BY <1>4, Grown
<1>6. i \in at
  BY <1>1, <1>2, <1>4, <1>5 DEF About, Written
<1>7. at \in SUBSET Nat /\ \A x \in at : x <= Len(ledger) + Len(added)
  BY <1>2, <1>3 DEF About, Written
<1>8. PICK j : j = Max(at)
  OBVIOUS
<1>9. j \in at /\ i <= j
  <2>1. Len(ledger) + Len(added) \in Nat
    BY <1>3
  <2> QED BY <1>6, <1>7, <1>8, <2>1, Greatest
<1>10. j \in DOMAIN ledger' /\ ledger'[j].type \in Changes /\ ledger'[j].obj = u
  BY <1>2, <1>9 DEF About, Written
<1>11. j \in (DOMAIN ledger') \ DOMAIN ledger
  BY <1>3, <1>4, <1>9, <1>10
<1>12. PICK l \in DOMAIN added : l = j - Len(ledger) /\ ledger'[j] = added[l]
  BY <1>11, Grown
<1>13. l = k
  BY <1>1, <1>10, <1>12
<1>14. ledger'[j] = added[k]
  BY <1>12, <1>13
<1>15. State(u)' = After(type)
  BY <1>1, <1>2, <1>6, <1>8, <1>14 DEF State, After
<1> QED BY <1>1, <1>15

\* A lease that is given again was not released before.
LEMMA LeasesStay ==
  ASSUME LedgerTyped, NEW added \in Seq(Events), ledger' = ledger \o added, ReleasedLast,
         \A k \in DOMAIN added : added[k].type = "leased" => added[k].obj \notin Of("released"),
         \/ \A k \in DOMAIN added : added[k].type # "leased"
         \/ \A k \in DOMAIN added : added[k].type # "released"
  PROVE  ReleasedLast'
<1> SUFFICES ASSUME NEW i \in Written(ledger', {"released"}), NEW j \in Written(ledger', {"leased"}),
                    ledger'[i].obj = ledger'[j].obj
             PROVE  j < i
  BY DEF ReleasedLast
<1>1. /\ i \in DOMAIN ledger' /\ ledger'[i].type = "released" /\ j \in DOMAIN ledger' /\ ledger'[j].type = "leased"
  BY DEF Written
<1>2. CASE j \in DOMAIN ledger /\ i \in DOMAIN ledger
  <2>1. ledger'[i] = ledger[i] /\ ledger'[j] = ledger[j]
    BY <1>2, Grown
  <2>2. i \in Written(ledger, {"released"}) /\ j \in Written(ledger, {"leased"})
    BY <1>1, <1>2, <2>1 DEF Written
  <2> QED BY <2>1, <2>2 DEF ReleasedLast
<1>3. CASE j \in DOMAIN ledger /\ i \notin DOMAIN ledger
  BY <1>1, <1>3, Grown
<1>4. CASE j \notin DOMAIN ledger
  <2>1. PICK k \in DOMAIN added : ledger'[j] = added[k]
    BY <1>1, <1>4, Grown
  <2>2. added[k].type = "leased" /\ added[k].obj = ledger'[i].obj
    BY <1>1, <2>1
  <2>3. i \in DOMAIN ledger
    <3>1. ASSUME i \notin DOMAIN ledger PROVE FALSE
      <4>1. PICK l \in DOMAIN added : ledger'[i] = added[l]
        BY <1>1, <3>1, Grown
      <4>2. added[l].type = "released"
        BY <1>1, <4>1
      <4> QED BY <2>2, <4>2
    <3> QED BY <3>1
  <2>4. ledger'[i] = ledger[i]
    BY <2>3, Grown
  <2>5. ledger'[i].obj \in Of("released")
    BY <1>1, <2>3, <2>4 DEF Of, Objects, Written
  <2> QED BY <2>2, <2>5
<1> QED BY <1>2, <1>3, <1>4

\* The children are the units an expansion has made.
LEMMA ChildrenGrow ==
  ASSUME LedgerTyped, NEW added \in Seq(Events), ledger' = ledger \o added, NEW made,
         \A k \in DOMAIN added : added[k].batch = "expansion" /\ added[k].type = "unit" => added[k].obj \in made,
         \A o \in made : \E k \in DOMAIN added : added[k].batch = "expansion" /\ added[k].type = "unit" /\ added[k].obj = o
  PROVE  ChildrenOf(ledger)' = ChildrenOf(ledger) \cup made
<1>1. ASSUME NEW o \in ChildrenOf(ledger) PROVE o \in ChildrenOf(ledger)'
  <2>1. PICK i \in DOMAIN ledger : ledger[i].batch = "expansion" /\ ledger[i].type = "unit" /\ ledger[i].obj = o
    BY <1>1 DEF ChildrenOf, Positions
  <2>2. i \in DOMAIN ledger' /\ ledger'[i] = ledger[i]
    BY Grown
  <2> QED BY <2>1, <2>2 DEF ChildrenOf, Positions
<1>2. ASSUME NEW o \in made PROVE o \in ChildrenOf(ledger)'
  <2>1. PICK k \in DOMAIN added : added[k].batch = "expansion" /\ added[k].type = "unit" /\ added[k].obj = o
    BY <1>2
  <2>2. PICK i : i = Len(ledger) + k
    OBVIOUS
  <2>3. i \in (DOMAIN ledger') \ DOMAIN ledger /\ i - Len(ledger) = k
    <3>1. /\ DOMAIN ledger' = 1..(Len(ledger) + Len(added)) /\ Len(ledger) \in Nat
          /\ DOMAIN added = 1..Len(added) /\ DOMAIN ledger = 1..Len(ledger)
      BY Grown DEF LedgerTyped
    <3> QED BY <2>2, <3>1
  <2>4. ledger'[i] = added[k]
    BY <2>3, Grown
  <2> QED BY <2>1, <2>3, <2>4 DEF ChildrenOf, Positions
<1>3. ASSUME NEW o \in ChildrenOf(ledger)' PROVE o \in ChildrenOf(ledger) \cup made
  <2>1. PICK i \in DOMAIN ledger' : ledger'[i].batch = "expansion" /\ ledger'[i].type = "unit" /\ ledger'[i].obj = o
    BY <1>3 DEF ChildrenOf, Positions
  <2>2. CASE i \in DOMAIN ledger
    <3>1. ledger'[i] = ledger[i]
      BY <2>2, Grown
    <3> QED BY <2>1, <2>2, <3>1 DEF ChildrenOf, Positions
  <2>3. CASE i \notin DOMAIN ledger
    <3>1. PICK k \in DOMAIN added : ledger'[i] = added[k]
      BY <2>1, <2>3, Grown
    <3> QED BY <2>1, <3>1
  <2> QED BY <2>2, <2>3
<1> QED BY <1>1, <1>2, <1>3

\* In a ledger of whole batches a batch that has begun is there.
LEMMA WholeOnes ==
  ASSUME Whole, NEW kind \in Kinds
  PROVE  Complete(kind) <=> Started(kind)
BY DEF Whole, Complete, Started

\* A batch that leaves the ledger whole was whole, and so were the others.
LEMMA BatchIsWhole ==
  ASSUME LedgerTyped, NEW kind \in Kinds, ~Started(kind), NEW shape, NEW added, Batched(added, kind, shape), Whole'
  PROVE  Whole /\ Len(added) = Len(shape)
<1>1. Started(kind)' /\ (Complete(kind)' <=> Len(added) = Len(shape))
  BY BatchPlaced
<1>2. \A other \in Kinds : Started(other)' => Complete(other)'
  BY DEF Whole
<1>3. ASSUME NEW other \in Kinds, Started(other) PROVE Complete(other)
  <2>1. other # kind
    BY <1>3
  <2>2. Started(other)' /\ (Complete(other)' <=> Complete(other))
    BY <1>3, <2>1, BatchesStay
  <2> QED BY <1>2, <2>2
<1> QED BY <1>1, <1>2, <1>3 DEF Whole

\* A batch adds what its shape brings.
LEMMA BatchAdds ==
  ASSUME LedgerTyped, NEW kind \in Kinds, ~Started(kind), NEW shape, NEW added, Batched(added, kind, shape),
         Len(added) = Len(shape), NEW brought, brought = [type \in EventTypes |-> Brought(shape, type)]
  PROVE  Added(kind, brought)
<1>1. /\ added \in Seq(Events) /\ ledger' = ledger \o added /\ Regular(shape, kind) /\ DOMAIN added = DOMAIN shape
      /\ \A k \in DOMAIN added : /\ added[k].type = shape[k].type /\ added[k].obj = shape[k].obj /\ added[k].batch = kind
                                 /\ shape[k] \in [type : EventTypes, obj : Nat]
  <2>1. added \in Seq(Events) /\ DOMAIN shape = 1..Len(shape)
    BY RegularShape DEF Batched
  <2>2. DOMAIN added = 1..Len(added)
    BY <2>1
  <2> QED BY <2>1, <2>2, RegularShape DEF Batched
<1>2. \A type \in EventTypes : brought[type] = Brought(shape, type)
  OBVIOUS
<1>3. brought \in [EventTypes -> SUBSET Nat]
  <2>1. ASSUME NEW type \in EventTypes PROVE Brought(shape, type) \subseteq Nat
    BY <1>1 DEF Brought
  <2> QED BY <2>1
<1>4. \A type \in EventTypes : \A o \in brought[type] : AtHome(type, o, kind)
  BY <1>1, <1>2, BroughtHome
<1>5. \A type \in EventTypes : Of(type)' = Of(type) \cup brought[type]
  BY <1>2, BatchBrings
<1>6. \A other \in Kinds : /\ Started(other)' <=> Started(other) \/ other = kind
                           /\ other # kind => Positions(ledger', other) = Positions(ledger, other)
  <2> SUFFICES ASSUME NEW other \in Kinds
               PROVE  /\ Started(other)' <=> Started(other) \/ other = kind
                      /\ other # kind => Positions(ledger', other) = Positions(ledger, other)
    OBVIOUS
  <2>1. CASE other = kind
    <3>1. Started(kind)'
      BY BatchPlaced
    <3> QED BY <2>1, <3>1
  <2>2. CASE other # kind
    BY <2>2, BatchesStay
  <2> QED BY <2>1, <2>2
<1>7. \A type \in Changes : type \in EventTypes
  BY DEF EventTypes
<1>8. ASSUME NEW type \in Changes, NEW u \in brought[type] PROVE State(u)' = After(type)
  <2>1. PICK k \in DOMAIN shape : shape[k].type = type /\ shape[k].obj = u
    BY <1>2, <1>7, <1>8 DEF Brought
  <2>2. k \in DOMAIN added /\ added[k].type = type /\ added[k].obj = u
    BY <1>1, <2>1
  <2>3. ASSUME NEW l \in DOMAIN added, added[l].type \in Changes, added[l].obj = added[k].obj PROVE l = k
    <3>1. l \in DOMAIN shape /\ shape[l].type \in Changes /\ shape[k].type \in Changes /\ shape[l].obj = shape[k].obj
      BY <1>1, <2>1, <2>2, <2>3
    <3> QED BY <1>1, <2>1, <3>1 DEF Regular
  <2>4. State(added[k].obj)' = After(added[k].type)
    BY <1>1, <2>2, <2>3, StateChanges
  <2> QED BY <2>2, <2>4
<1>9. ASSUME NEW u \in Nat, \A type \in Changes : u \notin brought[type] PROVE State(u)' = State(u)
  <2>1. ASSUME NEW k \in DOMAIN added, added[k].type \in Changes, added[k].obj = u PROVE FALSE
    <3>1. u \in Brought(shape, added[k].type)
      BY <1>1, <2>1 DEF Brought
    <3> QED BY <1>2, <1>7, <1>9, <2>1, <3>1
  <2> QED BY <1>1, <2>1, StateStays
<1>10. ChildrenOf(ledger)' = ChildrenOf(ledger) \cup (IF kind = "expansion" THEN brought["unit"] ELSE {})
  <2> DEFINE made == IF kind = "expansion" THEN brought["unit"] ELSE {}
  <2>1. \A o : o \in made <=> kind = "expansion" /\ o \in Brought(shape, "unit")
    <3>1. "unit" \in EventTypes
      BY DEF EventTypes, Changes
    <3>2. brought["unit"] = Brought(shape, "unit")
      BY <1>2, <3>1
    <3> QED BY <3>2
  <2> HIDE DEF made
  <2>2. \A k \in DOMAIN added : added[k].batch = "expansion" /\ added[k].type = "unit" => added[k].obj \in made
    BY <1>1, <2>1 DEF Brought
  <2>3. ASSUME NEW o \in made
        PROVE  \E k \in DOMAIN added : added[k].batch = "expansion" /\ added[k].type = "unit" /\ added[k].obj = o
    <3>1. PICK k \in DOMAIN shape : shape[k].type = "unit" /\ shape[k].obj = o
      BY <2>1 DEF Brought
    <3> QED BY <1>1, <2>1, <3>1
  <2>4. ChildrenOf(ledger)' = ChildrenOf(ledger) \cup made
    BY <1>1, <2>2, <2>3, ChildrenGrow
  <2> QED BY <2>4 DEF made
<1>11. ASSUME ReleasedLast, brought["leased"] \cap Of("released") = {}, brought["leased"] = {} \/ brought["released"] = {}
       PROVE  ReleasedLast'
  <2>1. "leased" \in EventTypes /\ "released" \in EventTypes
    BY DEF EventTypes
  <2>2. \A k \in DOMAIN added : /\ added[k].type = "leased" => added[k].obj \in brought["leased"]
                                /\ added[k].type = "released" => added[k].obj \in brought["released"]
    BY <1>1, <1>2, <2>1 DEF Brought
  <2>3. \A k \in DOMAIN added : added[k].type = "leased" => added[k].obj \notin Of("released")
    BY <1>11, <2>2
  <2>4. \/ \A k \in DOMAIN added : added[k].type # "leased"
        \/ \A k \in DOMAIN added : added[k].type # "released"
    BY <1>11, <2>2
  <2> QED BY <1>1, <1>11, <2>3, <2>4, LeasesStay
<1> QED BY <1>3, <1>4, <1>5, <1>6, <1>8, <1>9, <1>10, <1>11 DEF Added

\* What the shapes of a kind bring is what is planned.
LEMMA BatchPlanned ==
  ASSUME LedgerInOrder, Whole, NEW kind \in Kinds, Due(kind), NEW shape \in Shapes(kind),
         kind = "pruning" => Cardinality(Positions(ledger', "pruning")) = Len(shape),
         NEW brought, brought = [type \in EventTypes |-> Brought(shape, type)]
  PROVE  Planned(kind, brought)
<1>0. LedgerTyped /\ HomesKept
  BY DEF LedgerInOrder
<1>1. \A type \in EventTypes : brought[type] = Brought(shape, type)
  OBVIOUS
<1>2. /\ {"leased", "created", "processing", "released", "ended", "recovery", "proposal", "plan", "decision", "unit",
          "relation", "completed", "link", "merge", "resolved", "settlement", "cancelled", "pruned"} \subseteq EventTypes
      /\ \A type \in Changes : type \in EventTypes
  BY DEF EventTypes, Changes
<1>3. \A other \in Kinds : Complete(other) <=> Started(other)
  BY WholeOnes
<1>4. {"schedule", "expansion", "link", "dispatch", "resolution"} \subseteq Kinds /\ kind # "none"
  BY DEF Kinds
<1>5. ASSUME kind \in Claims
      PROVE  \E u \in {0, 1, 3}, n \in Nat :
               /\ State(u) = "ready" /\ n = (IF kind = "schedule" THEN 1 ELSE Attempt + 1)
               /\ brought["processing"] = {u} /\ brought["leased"] = {n} /\ brought["created"] = {n}
  <2>1. PICK u \in {0, 1, 3}, n \in Nat :
          /\ State(u) = "ready" /\ n = (IF kind = "schedule" THEN 1 ELSE Attempt + 1)
          /\ Brought(shape, "leased") = {n} /\ Brought(shape, "created") = {n} /\ Brought(shape, "processing") = {u}
    BY <1>0, <1>5, Claiming
  <2>2. brought["processing"] = {u} /\ brought["leased"] = {n} /\ brought["created"] = {n}
    BY <1>1, <1>2, <2>1
  <2> QED BY <2>1, <2>2
<1>6. (kind = "reschedule" => Started("schedule")) /\ (kind = "dispatch" => Started("link"))
  BY <1>3, <1>4 DEF Due
<1>7. ASSUME kind = "recovery"
      PROVE  /\ State(Worked) = "processing" /\ ~Bound(Worked)
             /\ brought["released"] = {Attempt} /\ brought["recovery"] = {Attempt} /\ brought["ended"] \subseteq {Attempt}
             /\ \A type \in Changes : brought[type] \subseteq {Worked}
  <2>1. State(Worked) = "processing" /\ ~Bound(Worked)
    BY <1>7 DEF Due
  <2>2. /\ Brought(shape, "released") = {Attempt} /\ Brought(shape, "recovery") = {Attempt}
        /\ Brought(shape, "ended") \subseteq {Attempt}
        /\ \A type \in Changes : Brought(shape, type) \subseteq {Worked}
    BY <1>0, <1>7, Recovering
  <2> QED BY <1>1, <1>2, <2>1, <2>2
<1>8. ASSUME kind = "expansion"
      PROVE  /\ State(0) = "processing" /\ Invoked(0)
             /\ brought["proposal"] = {0} /\ brought["plan"] = {0} /\ brought["decision"] = {0}
             /\ \E n \in 1..2, m \in 0..1 : m < n /\ brought["unit"] = 1..n /\ brought["relation"] = 1..m
  <2>1. State(0) = "processing" /\ Invoked(0)
    BY <1>8 DEF Due
  <2>2. PICK n \in 1..2, m \in 0..1 :
          /\ m < n
          /\ Brought(shape, "proposal") = {0} /\ Brought(shape, "plan") = {0} /\ Brought(shape, "decision") = {0}
          /\ Brought(shape, "unit") = 1..n /\ Brought(shape, "relation") = 1..m
    BY <1>8, Expanding
  <2>3. brought["proposal"] = {0} /\ brought["plan"] = {0} /\ brought["decision"] = {0}
    BY <1>1, <1>2, <2>2
  <2>4. brought["unit"] = 1..n /\ brought["relation"] = 1..m
    BY <1>1, <1>2, <2>2
  <2> QED BY <2>1, <2>2, <2>3, <2>4
<1>9. ASSUME kind = "completion"
      PROVE  /\ Worked # 3 /\ State(Worked) = "processing" /\ Invoked(Worked)
             /\ brought["decision"] = {Worked} /\ brought["completed"] = {Worked}
             /\ Worked = 0 => ~Started("expansion")
  <2>1. Worked # 3 /\ State(Worked) = "processing" /\ Invoked(Worked)
    BY <1>9 DEF Due
  <2>2. shape = <<Draft("decision", Worked), Draft("completed", Worked)>>
    BY <1>9 DEF Shapes
  <2>3. Worked \in Nat
    BY <1>0, Drawn
  <2>4. PICK u \in Nat : u = Worked
    BY <2>3
  <2>5. Brought(shape, "decision") = {u} /\ Brought(shape, "completed") = {u}
    BY <2>2, <2>4, CompletionShape
  <2>6. Worked = 0 => ~Started("expansion")
    BY <1>3, <1>4 DEF Worked
  <2> QED BY <1>1, <1>2, <2>1, <2>4, <2>5, <2>6
<1>10. ASSUME kind = "link"
       PROVE  Started("expansion") /\ State(1) = "completed" /\ brought["unit"] = {3} /\ brought["link"] = {3}
  <2>1. Started("expansion") /\ State(1) = "completed"
    BY <1>3, <1>4, <1>10 DEF Due
  <2>2. shape = <<Draft("unit", 3), Draft("link", 3)>>
    BY <1>10 DEF Shapes
  <2>3. Brought(shape, "unit") = {3} /\ Brought(shape, "link") = {3}
    BY <2>2, LinkShape
  <2> QED BY <1>1, <1>2, <2>1, <2>3
<1>11. ASSUME kind = "resolution"
       PROVE  /\ Started("dispatch") /\ Bound(3) /\ brought["merge"] = {3}
              /\ \E n \in ChildrenOf(ledger) : brought["resolved"] = 1..n
  <2>1. Started("dispatch") /\ Bound(3)
    BY <1>3, <1>4, <1>11 DEF Due
  <2>2. PICK n \in ChildrenOf(ledger) : Brought(shape, "merge") = {3} /\ Brought(shape, "resolved") = 1..n
    BY <1>0, <1>11, Resolving
  <2> QED BY <1>1, <1>2, <2>1, <2>2
<1>12. ASSUME kind = "parent"
       PROVE  Started("resolution") /\ Of("resolved") = ChildrenOf(ledger) /\ brought["completed"] = {0}
  <2>1. Started("resolution") /\ Of("resolved") = ChildrenOf(ledger)
    BY <1>3, <1>4, <1>12 DEF Due, Resolved, Of
  <2>2. shape = <<Draft("completed", 0), Draft("eligible", 0)>>
    BY <1>12 DEF Shapes
  <2>3. Brought(shape, "completed") = {0}
    BY <2>2, ParentShape
  <2> QED BY <1>1, <1>2, <2>1, <2>3
<1>13. ASSUME kind = "settlement" PROVE State(0) = "completed" /\ brought["settlement"] = {0}
  <2>1. State(0) = "completed"
    BY <1>13 DEF Due
  <2>2. Brought(shape, "settlement") = {0}
    BY <1>0, <1>13, Settling
  <2> QED BY <1>1, <1>2, <2>1, <2>2
<1>14. ASSUME kind = "pruning"
       PROVE  /\ State(0) = "completed" /\ Started("expansion") /\ Cancellable # {}
              /\ brought["cancelled"] = Cancellable /\ brought["pruned"] = {0}
              /\ Cardinality(Positions(ledger', "pruning")) = Cardinality(Cancellable) + 1
  <2>1. State(0) = "completed" /\ Started("expansion") /\ Cancellable # {}
    BY <1>3, <1>4, <1>14 DEF Due
  <2>2. /\ Brought(shape, "cancelled") = Cancellable /\ Brought(shape, "pruned") = {0}
        /\ Len(shape) = Cardinality(Cancellable) + 1
    BY <1>0, <1>14, Pruning
  <2> QED BY <1>1, <1>2, <1>14, <2>1, <2>2
<1> QED BY <1>4, <1>5, <1>6, <1>7, <1>8, <1>9, <1>10, <1>11, <1>12, <1>13, <1>14 DEF Planned

\* What is added while every batch is whole is what is planned.
Grows == \E kind, brought : Added(kind, brought) /\ Planned(kind, brought)

\* A batch that leaves the ledger whole has added what was planned.
LEMMA BatchGrows ==
  ASSUME LedgerInOrder, NEW kind \in Kinds, AppendBatch(kind), Whole'
  PROVE  Whole /\ Grows
<1>0. LedgerTyped /\ HomesKept
  BY DEF LedgerInOrder
<1>1. PICK added : \E shape \in Shapes(kind) : Batched(added, kind, shape)
  BY <1>0, BatchAppended
<1>2. PICK shape \in Shapes(kind) : Batched(added, kind, shape)
  BY <1>1
<1>3. ~Started(kind) /\ Due(kind)
  BY <1>0, BatchAppended
<1>4. Whole /\ Len(added) = Len(shape)
  BY <1>0, <1>2, <1>3, BatchIsWhole
<1>5. PICK brought : brought = [type \in EventTypes |-> Brought(shape, type)]
  OBVIOUS
<1>6. Added(kind, brought)
  BY <1>0, <1>2, <1>3, <1>4, <1>5, BatchAdds
<1>7. Cardinality(Positions(ledger', kind)) = Len(shape)
  <2>1. Positions(ledger', kind) = (Len(ledger) + 1)..(Len(ledger) + Len(added))
    BY <1>0, <1>2, <1>3, BatchPlaced
  <2>2. Len(ledger) \in Nat /\ Len(added) \in Nat /\ Len(added) >= 1
    <3>1. added \in Seq(Events) /\ Len(added) \in 1..Len(shape)
      BY <1>2 DEF Batched
    <3> QED BY <1>0, <3>1 DEF LedgerTyped
  <2>3. PICK a, b : a = Len(ledger) + 1 /\ b = Len(ledger) + Len(added)
    OBVIOUS
  <2>4. a \in Int /\ b \in Int /\ ~(a > b) /\ b - a + 1 = Len(added)
    BY <2>2, <2>3
  <2>5. Cardinality(a..b) = Len(added)
    BY <2>4, FS_Interval
  <2> QED BY <1>4, <2>1, <2>3, <2>5
<1>8. Planned(kind, brought)
  BY <1>3, <1>4, <1>5, <1>7, BatchPlanned
<1> QED BY <1>4, <1>6, <1>8 DEF Grows

\* An event on its own adds one object.
LEMMA SingleAdds ==
  ASSUME LedgerTyped, NEW type \in EventTypes \ Changes, NEW obj \in Nat, AtHome(type, obj, "none"),
         ledger' = Append(ledger, Single(type, obj)), Whole',
         NEW brought, brought = [t \in EventTypes |-> IF t = type THEN {obj} ELSE {}]
  PROVE  Whole /\ Added("none", brought)
<1>1. PICK added \in Seq(Events) :
        /\ ledger' = ledger \o added /\ DOMAIN added = {1}
        /\ added[1].type = type /\ added[1].obj = obj /\ added[1].batch = "none"
        /\ \A kind \in Kinds : /\ Positions(ledger', kind) = Positions(ledger, kind)
                               /\ Started(kind)' <=> Started(kind)
                               /\ Complete(kind)' <=> Complete(kind)
        /\ \A other : Of(other)' = IF other = type THEN Of(other) \cup {obj} ELSE Of(other)
  BY SingleStays
<1>2. \A t \in EventTypes : brought[t] = IF t = type THEN {obj} ELSE {}
  OBVIOUS
<1>3. /\ \A t \in EventTypes : t # type => brought[t] = {}
      /\ brought[type] = {obj}
  BY <1>2
<1>4. Whole
  BY <1>1 DEF Whole
<1>5. brought \in [EventTypes -> SUBSET Nat]
  OBVIOUS
<1>6. \A t \in EventTypes : \A o \in brought[t] : AtHome(t, o, "none")
  <2> SUFFICES ASSUME NEW t \in EventTypes, NEW o \in brought[t] PROVE AtHome(t, o, "none")
    OBVIOUS
  <2>1. t = type /\ o = obj
    BY <1>3
  <2> QED BY <2>1
<1>7. ASSUME NEW t \in EventTypes PROVE Of(t)' = Of(t) \cup brought[t]
  <2>1. CASE t = type
    BY <1>1, <1>3, <2>1
  <2>2. CASE t # type
    BY <1>1, <1>3, <2>2
  <2> QED BY <2>1, <2>2
<1>8. "none" \notin Kinds
  BY DEF Kinds
<1>9. \A other \in Kinds : Started(other)' <=> Started(other) \/ other = "none"
  BY <1>1, <1>8
<1>10. \A t \in Changes : t \in EventTypes /\ brought[t] = {}
  BY <1>3 DEF EventTypes
<1>11. \A u \in Nat : State(u)' = State(u)
  <2> SUFFICES ASSUME NEW u \in Nat PROVE State(u)' = State(u)
    OBVIOUS
  <2>1. \A k \in DOMAIN added : added[k].type \in Changes => added[k].obj # u
    BY <1>1
  <2> QED BY <1>1, <2>1, StateStays
<1>12. ChildrenOf(ledger)' = ChildrenOf(ledger)
  <2>1. \A k \in DOMAIN added : added[k].batch = "expansion" /\ added[k].type = "unit" => added[k].obj \in {}
    BY <1>1
  <2>2. ChildrenOf(ledger)' = ChildrenOf(ledger) \cup {}
    BY <1>1, <2>1, ChildrenGrow
  <2> QED BY <2>2
<1>13. ReleasedLast => ReleasedLast'
  <2>1. \A k \in DOMAIN added : added[k].type # "leased"
    BY <1>1 DEF AtHome, Claims
  <2> QED BY <1>1, <2>1, LeasesStay
<1> QED BY <1>1, <1>4, <1>5, <1>6, <1>7, <1>8, <1>9, <1>10, <1>11, <1>12, <1>13 DEF Added

\* What may be there already is what the events of a type are about.
LEMMA AboutIsOf ==
  ASSUME NEW type, NEW obj, About(ledger, {type}, obj) # {}
  PROVE  obj \in Of(type)
BY DEF About, Of, Objects, Written

\* The events of the work on a unit,
LEMMA WorkGrows ==
  ASSUME LedgerInOrder, AppendWork, Whole'
  PROVE  Whole /\ Grows
<1>0. LedgerTyped
  BY DEF LedgerInOrder
<1>1. PICK type, obj :
        /\ obj \in Nat /\ type \in {"request", "submission", "report", "bound", "invoked"}
        /\ type \in {"bound", "invoked"} => obj = Worked
        /\ type \notin {"bound", "invoked"} => obj = Attempt
        /\ ledger' = Append(ledger, Single(type, obj))
        /\ State(Worked) = "processing"
        /\ type = "submission" => About(ledger, {"request"}, Attempt) # {}
        /\ type = "report"     => About(ledger, {"submission"}, Attempt) # {}
        /\ type = "invoked"    => Bound(Worked)
  BY <1>0, WorkEvent
<1>2. type \in EventTypes \ Changes /\ AtHome(type, obj, "none")
  BY <1>1 DEF EventTypes, Changes, Credits, AtHome
<1>3. PICK brought : brought = [t \in EventTypes |-> IF t = type THEN {obj} ELSE {}]
  OBVIOUS
<1>4. Whole /\ Added("none", brought)
  BY <1>0, <1>1, <1>2, <1>3, SingleAdds
<1>5. /\ \A t \in EventTypes : t # type => brought[t] = {}
      /\ brought[type] = {obj}
  BY <1>2, <1>3
<1>6. WorkTypes \subseteq EventTypes /\ Changes \subseteq EventTypes
  BY DEF WorkTypes, EventTypes
<1>7. \A t \in Changes : brought[t] = {}
  BY <1>2, <1>5, <1>6
<1>8. /\ brought["request"] \subseteq {Attempt}
      /\ brought["submission"] \subseteq {Attempt} \cap Of("request")
      /\ brought["report"] \subseteq {Attempt} \cap Of("submission")
      /\ brought["bound"] \subseteq {Worked}
      /\ brought["invoked"] \subseteq {Worked} \cap Of("bound")
  <2>1. {"request", "submission", "report", "bound", "invoked"} \subseteq EventTypes
    BY DEF EventTypes
  <2>2. brought["request"] \subseteq {Attempt}
    BY <1>1, <1>5, <2>1
  <2>3. brought["submission"] \subseteq {Attempt} \cap Of("request")
    BY <1>1, <1>5, <2>1, AboutIsOf
  <2>4. brought["report"] \subseteq {Attempt} \cap Of("submission")
    BY <1>1, <1>5, <2>1, AboutIsOf
  <2>5. brought["bound"] \subseteq {Worked}
    BY <1>1, <1>5, <2>1
  <2>6. brought["invoked"] \subseteq {Worked} \cap Of("bound")
    BY <1>1, <1>5, <2>1, AboutIsOf DEF Bound
  <2> QED BY <2>2, <2>3, <2>4, <2>5, <2>6
<1>9. "none" \notin Kinds \cup Claims
  BY DEF Kinds, Claims
<1>10. Planned("none", brought)
  BY <1>1, <1>7, <1>8, <1>9 DEF Planned
<1> QED BY <1>4, <1>10 DEF Grows

\* and those of the contributions.
LEMMA ContributionGrows ==
  ASSUME LedgerInOrder, AppendContribution, Whole'
  PROVE  Whole /\ Grows
<1>0. LedgerTyped
  BY DEF LedgerInOrder
<1>1. PICK type \in {"pending", "earned"}, obj \in {0, 1} :
        ledger' = Append(ledger, Single(type, obj)) /\ (type = "pending" => obj = 0)
  BY DEF AppendContribution
<1>2. type \in EventTypes \ Changes /\ AtHome(type, obj, "none") /\ obj \in Nat /\ type \notin WorkTypes
  BY <1>1 DEF EventTypes, Changes, Credits, AtHome, WorkTypes
<1>3. PICK brought : brought = [t \in EventTypes |-> IF t = type THEN {obj} ELSE {}]
  OBVIOUS
<1>4. Whole /\ Added("none", brought)
  BY <1>0, <1>1, <1>2, <1>3, SingleAdds
<1>5. WorkTypes \subseteq EventTypes /\ Changes \subseteq EventTypes
  BY DEF WorkTypes, EventTypes
<1>6. \A t \in Changes \cup WorkTypes : brought[t] = {}
  BY <1>2, <1>3, <1>5
<1>7. /\ brought["request"] = {} /\ brought["submission"] = {} /\ brought["report"] = {}
      /\ brought["bound"] = {} /\ brought["invoked"] = {}
  BY <1>6 DEF WorkTypes
<1>8. "none" \notin Kinds \cup Claims
  BY DEF Kinds, Claims
<1>9. Planned("none", brought)
  BY <1>6, <1>7, <1>8 DEF Planned
<1> QED BY <1>4, <1>9 DEF Grows

\* The state of a unit is what its last change says.
LEMMA StateIsOf ==
  ASSUME LedgerTyped, NEW u
  PROVE  /\ State(u) \in {"none", "ready", "processing", "failed", "completed", "cancelled"}
         /\ State(u) \notin {"none", "ready"} => u \in Of(State(u))
         /\ \A type \in Changes : u \in Of(type) => State(u) # "none"
<1>1. PICK at : at = About(ledger, Changes, u)
  OBVIOUS
<1>2. CASE at = {}
  <2>1. State(u) = "none"
    BY <1>1, <1>2 DEF State
  <2>2. \A type \in Changes : u \notin Of(type)
    BY <1>1, <1>2 DEF About, Of, Objects, Written
  <2> QED BY <2>1, <2>2
<1>3. CASE at # {}
  <2>1. at \subseteq DOMAIN ledger /\ DOMAIN ledger = 1..Len(ledger) /\ Len(ledger) \in Nat
    BY <1>1 DEF About, Written, LedgerTyped
  <2>2. at \in SUBSET Nat /\ \A x \in at : x <= Len(ledger)
    BY <2>1
  <2>3. PICK i : i = Max(at)
    OBVIOUS
  <2>4. i \in at
    BY <1>3, <2>1, <2>2, <2>3, Greatest
  <2>5. i \in DOMAIN ledger /\ ledger[i].type \in Changes /\ ledger[i].obj = u
    BY <1>1, <2>4 DEF About, Written
  <2>6. State(u) = After(ledger[i].type)
    BY <1>1, <1>3, <2>3 DEF State, After
  <2>7. u \in Of(ledger[i].type)
    BY <2>5 DEF Of, Objects, Written
  <2>8. After(ledger[i].type) \in {"ready", "processing", "failed", "completed", "cancelled"}
    BY <2>5 DEF After, Changes
  <2>9. After(ledger[i].type) # "ready" => After(ledger[i].type) = ledger[i].type
    BY DEF After
  <2> QED BY <2>6, <2>7, <2>8, <2>9
<1> QED BY <1>2, <1>3

\* Where there are events of a type, a batch of its kind has begun.
LEMMA HomeStarted ==
  ASSUME HomesKept, NEW type, NEW o \in Of(type)
  PROVE  \E kind : AtHome(type, o, kind) /\ Started(kind)
<1>1. PICK i \in DOMAIN ledger : AtHome(type, o, ledger[i].batch)
  BY OfHome
<1>2. Started(ledger[i].batch)
  BY <1>1 DEF Started, Positions
<1> QED BY <1>1, <1>2

\* What the story has told when something is added.
Going(kind, brought) == LedgerTyped /\ HomesKept /\ Story /\ Added(kind, brought) /\ Planned(kind, brought)

\* A unit is at work by the current attempt; the children are those of the
\* expansion, and a completed root leaves none at work but the one that never
\* was.
LEMMA StorySoFar ==
  ASSUME LedgerTyped, HomesKept, Story
  PROVE  /\ Attempt \in Nat
         /\ \A u : State(u) = "processing" => Started("schedule") /\ Attempt \in Of("leased")
         /\ ~Started("schedule") => Attempt = 0 /\ Of("leased") = {}
         /\ ChildrenOf(ledger) \subseteq {1, 2} /\ (ChildrenOf(ledger) # {} => Started("expansion"))
         /\ State(0) = "completed" /\ Started("expansion") => Cancellable \subseteq {2}
         /\ Worked \in {0, 1, 3}
<1>1. Attempt \in Nat /\ Worked \in {0, 1, 3}
  BY Drawn
<1>2. \A type \in {"leased", "processing"} : Of(type) # {} => Started("schedule")
  <2> SUFFICES ASSUME NEW type \in {"leased", "processing"}, NEW o \in Of(type) PROVE Started("schedule")
    OBVIOUS
  <2>1. PICK kind : AtHome(type, o, kind) /\ Started(kind)
    BY HomeStarted
  <2>2. kind \in Claims
    BY <2>1 DEF AtHome
  <2> QED BY <2>1, <2>2 DEF Claims, Story, AttemptsInOrder
<1>3. Started("schedule") => Attempt \in Of("leased")
  <2> SUFFICES ASSUME Started("schedule") PROVE Attempt \in Of("leased")
    OBVIOUS
  <2>1. 1 \in Of("leased") /\ Of("leased") = 1..Attempt
    BY DEF Story, AttemptsInOrder
  <2> QED BY <1>1, <2>1
<1>4. \A u : State(u) = "processing" => Started("schedule")
  BY <1>2, StateIsOf
<1>5. ~Started("schedule") => Attempt = 0 /\ Of("leased") = {}
  <2> SUFFICES ASSUME ~Started("schedule") PROVE Attempt = 0 /\ Of("leased") = {}
    OBVIOUS
  <2>1. Of("leased") = {} /\ Of("leased") = 1..Attempt
    BY <1>2 DEF Story, AttemptsInOrder
  <2>2. ~(Attempt >= 1)
    BY <1>1, <2>1
  <2> QED BY <1>1, <2>1, <2>2
<1>6. ASSUME NEW o \in ChildrenOf(ledger) PROVE o \in {1, 2} /\ Started("expansion")
  <2>1. PICK i \in DOMAIN ledger : ledger[i].batch = "expansion" /\ ledger[i].type = "unit" /\ ledger[i].obj = o
    BY <1>6 DEF ChildrenOf, Positions
  <2>2. AtHome("unit", o, "expansion")
    BY <2>1 DEF HomesKept
  <2> QED BY <2>1, <2>2 DEF AtHome, Started, Positions
<1>7. ASSUME State(0) = "completed", Started("expansion") PROVE Cancellable \subseteq {2}
  <2>1. State(1) = "completed"
    BY <1>7 DEF Story, AttemptsInOrder, UnitsInOrder
  <2> QED BY <1>6, <2>1 DEF Cancellable
<1> QED BY <1>1, <1>3, <1>4, <1>5, <1>6, <1>7

\* What a kind does not bring.
LEMMA Foreign ==
  ASSUME NEW kind, NEW brought, Added(kind, brought)
  PROVE  /\ kind \notin Claims => brought["leased"] = {} /\ brought["created"] = {} /\ brought["processing"] = {}
         /\ kind # "recovery" => /\ brought["released"] = {} /\ brought["ended"] = {} /\ brought["recovery"] = {}
                                 /\ brought["ready"] = {} /\ brought["failed"] = {}
         /\ kind # "none" => /\ brought["request"] = {} /\ brought["submission"] = {} /\ brought["report"] = {}
                             /\ brought["bound"] = {} /\ brought["invoked"] = {}
         /\ kind # "expansion" => brought["proposal"] = {} /\ brought["plan"] = {} /\ brought["relation"] = {}
         /\ kind \notin {"expansion", "completion"} => brought["decision"] = {}
         /\ kind \notin {"completion", "parent"} => brought["completed"] = {}
         /\ kind \notin {"expansion", "link", "none"} => brought["unit"] = {}
         /\ kind # "link" => brought["link"] = {}
         /\ kind # "resolution" => brought["merge"] = {} /\ brought["resolved"] = {}
         /\ kind # "settlement" => brought["settlement"] = {}
         /\ kind # "pruning" => brought["cancelled"] = {} /\ brought["pruned"] = {}
<1>1. \A type \in EventTypes : \A o \in brought[type] : AtHome(type, o, kind)
  BY DEF Added
<1>2. {"leased", "created", "processing", "released", "ended", "recovery", "ready", "failed", "request", "submission",
       "report", "bound", "invoked", "proposal", "plan", "relation", "decision", "completed", "unit", "link", "merge",
       "resolved", "settlement", "cancelled", "pruned"} \subseteq EventTypes
  BY DEF EventTypes, Changes
<1>3. kind \notin Claims => brought["leased"] = {} /\ brought["created"] = {} /\ brought["processing"] = {}
  BY <1>1, <1>2 DEF AtHome
<1>4. kind # "recovery" => /\ brought["released"] = {} /\ brought["ended"] = {} /\ brought["recovery"] = {}
                           /\ brought["ready"] = {} /\ brought["failed"] = {}
  BY <1>1, <1>2 DEF AtHome
<1>5. kind # "none" => /\ brought["request"] = {} /\ brought["submission"] = {} /\ brought["report"] = {}
                       /\ brought["bound"] = {} /\ brought["invoked"] = {}
  BY <1>1, <1>2 DEF AtHome
<1>6. kind # "expansion" => brought["proposal"] = {} /\ brought["plan"] = {} /\ brought["relation"] = {}
  BY <1>1, <1>2 DEF AtHome
<1>7. /\ kind \notin {"expansion", "completion"} => brought["decision"] = {}
      /\ kind \notin {"completion", "parent"} => brought["completed"] = {}
      /\ kind \notin {"expansion", "link", "none"} => brought["unit"] = {}
      /\ kind # "link" => brought["link"] = {}
  BY <1>1, <1>2 DEF AtHome
<1>8. /\ kind # "resolution" => brought["merge"] = {} /\ brought["resolved"] = {}
      /\ kind # "settlement" => brought["settlement"] = {}
      /\ kind # "pruning" => brought["cancelled"] = {} /\ brought["pruned"] = {}
  BY <1>1, <1>2 DEF AtHome
<1> QED BY <1>3, <1>4, <1>5, <1>6, <1>7, <1>8

\* How the state of a unit may change.
LEMMA StateGoes ==
  ASSUME NEW kind, NEW brought, Going(kind, brought), NEW u \in Nat, State(u)' # State(u)
  PROVE  \/ kind \in Claims /\ u \in {0, 1, 3} /\ State(u) = "ready" /\ State(u)' = "processing"
         \/ kind = "recovery" /\ u = Worked /\ State(u) = "processing" /\ ~Bound(u) /\ State(u)' \in {"ready", "failed"}
         \/ kind = "expansion" /\ u \in {1, 2} /\ State(u)' = "ready"
         \/ kind = "completion" /\ u = Worked /\ State(u) = "processing" /\ State(u)' = "completed"
         \/ kind = "link" /\ u = 3 /\ State(u)' = "ready"
         \/ kind = "parent" /\ u = 0 /\ State(u)' = "completed"
         \/ kind = "pruning" /\ u \in Cancellable /\ State(u)' = "cancelled"
<1>1. Added(kind, brought) /\ Planned(kind, brought)
  BY DEF Going
<1>2. PICK type \in Changes : u \in brought[type]
  BY <1>1 DEF Added
<1>3. State(u)' = After(type)
  BY <1>1, <1>2 DEF Added
<1>4. type \in {"unit", "ready", "processing", "failed", "completed", "cancelled"}
  BY DEF Changes
<1>5. kind # "none"
  BY <1>1, <1>2 DEF Planned
<1>6. CASE type = "processing"
  <2>1. kind \in Claims
    BY <1>1, <1>2, <1>6, Foreign
  <2>2. PICK v \in {0, 1, 3} : State(v) = "ready" /\ brought["processing"] = {v}
    BY <1>1, <2>1 DEF Planned
  <2> QED BY <1>2, <1>3, <1>6, <2>1, <2>2 DEF After
<1>7. CASE type \in {"ready", "failed"}
  <2>1. kind = "recovery"
    BY <1>1, <1>2, <1>7, Foreign
  <2>2. u = Worked /\ State(Worked) = "processing" /\ ~Bound(Worked)
    BY <1>1, <1>2, <2>1 DEF Planned
  <2> QED BY <1>3, <1>7, <2>1, <2>2 DEF After
<1>8. CASE type = "unit"
  <2>1. kind \in {"expansion", "link"}
    BY <1>1, <1>2, <1>5, <1>8, Foreign
  <2>2. CASE kind = "expansion"
    <3>1. PICK n \in 1..2 : brought["unit"] = 1..n
      BY <1>1, <2>2 DEF Planned
    <3>2. u \in {1, 2}
      BY <1>2, <1>8, <3>1
    <3> QED BY <1>3, <1>8, <2>2, <3>2 DEF After
  <2>3. CASE kind = "link"
    <3>1. u = 3
      BY <1>1, <1>2, <1>8, <2>3 DEF Planned
    <3> QED BY <1>3, <1>8, <2>3, <3>1 DEF After
  <2> QED BY <2>1, <2>2, <2>3
<1>9. CASE type = "completed"
  <2>1. kind \in {"completion", "parent"}
    BY <1>1, <1>2, <1>9, Foreign
  <2>2. CASE kind = "completion"
    <3>1. u = Worked /\ State(Worked) = "processing"
      BY <1>1, <1>2, <1>9, <2>2 DEF Planned
    <3> QED BY <1>3, <1>9, <2>2, <3>1 DEF After
  <2>3. CASE kind = "parent"
    <3>1. u = 0
      BY <1>1, <1>2, <1>9, <2>3 DEF Planned
    <3> QED BY <1>3, <1>9, <2>3, <3>1 DEF After
  <2> QED BY <2>1, <2>2, <2>3
<1>10. CASE type = "cancelled"
  <2>1. kind = "pruning"
    BY <1>1, <1>2, <1>10, Foreign
  <2>2. u \in Cancellable
    BY <1>1, <1>2, <1>10, <2>1 DEF Planned
  <2> QED BY <1>3, <1>10, <2>1, <2>2 DEF After
<1> QED BY <1>4, <1>6, <1>7, <1>8, <1>9, <1>10

\* What has begun when something is added, and what the events are about then.
LEMMA StoryGrows ==
  ASSUME NEW kind, NEW brought, Added(kind, brought)
  PROVE  /\ \A other \in {"schedule", "reschedule", "expansion", "link", "dispatch", "resolution", "parent",
                          "settlement", "pruning"} : Started(other)' <=> Started(other) \/ other = kind
         /\ \A type \in {"leased", "created", "released", "recovery", "ended", "request", "submission", "report",
                         "decision", "invoked", "bound", "merge", "link", "relation", "plan", "proposal", "resolved",
                         "settlement", "cancelled", "pruned"} : Of(type)' = Of(type) \cup brought[type]
<1>1. {"schedule", "reschedule", "expansion", "link", "dispatch", "resolution", "parent", "settlement", "pruning"} \subseteq Kinds
  BY DEF Kinds
<1>2. {"leased", "created", "released", "recovery", "ended", "request", "submission", "report", "decision", "invoked",
       "bound", "merge", "link", "relation", "plan", "proposal", "resolved", "settlement", "cancelled", "pruned"} \subseteq EventTypes
  BY DEF EventTypes, Changes
<1> QED BY <1>1, <1>2 DEF Added

\* The attempts stay in order.
LEMMA AttemptsKept ==
  ASSUME NEW kind, NEW brought, Going(kind, brought)
  PROVE  AttemptsInOrder'
<1>1. LedgerTyped /\ HomesKept /\ Story /\ Added(kind, brought) /\ Planned(kind, brought) /\ AttemptsInOrder
  BY DEF Going, Story
<1>2. \A other \in {"schedule", "reschedule", "expansion", "link", "dispatch", "resolution", "parent"} :
        Started(other)' <=> Started(other) \/ other = kind
  BY <1>1, StoryGrows
<1>3. /\ Started("reschedule")' \/ Started("expansion")' => Started("schedule")'
      /\ Started("link")'       => Started("expansion")'
      /\ Started("dispatch")'   => Started("link")'
      /\ Started("resolution")' => Started("dispatch")'
      /\ Started("parent")'     => Started("resolution")'
  <2>1. /\ kind = "reschedule" => Started("schedule")
        /\ kind = "dispatch"   => Started("link")
        /\ kind = "expansion"  => State(0) = "processing"
        /\ kind = "link"       => Started("expansion")
        /\ kind = "resolution" => Started("dispatch")
        /\ kind = "parent"     => Started("resolution")
    BY <1>1 DEF Planned
  <2>2. kind = "expansion" => Started("schedule")
    BY <1>1, <2>1, StorySoFar
  <2> QED BY <1>1, <1>2, <2>1, <2>2 DEF AttemptsInOrder
<1>4. /\ Of("leased")' = Of("leased") \cup brought["leased"] /\ Of("created")' = Of("created") \cup brought["created"]
      /\ Of("request")' = Of("request") \cup brought["request"]
      /\ Of("submission")' = Of("submission") \cup brought["submission"]
      /\ Of("report")' = Of("report") \cup brought["report"]
  BY <1>1, StoryGrows
<1>5. /\ Of("leased") = 1..Attempt /\ Of("created") = Of("leased") /\ Attempt \in Nat
      /\ Started("schedule") => 1 \in Of("leased")
      /\ ~Started("schedule") => Attempt = 0
  BY <1>1, StorySoFar DEF AttemptsInOrder
<1>6. Attempt' = Cardinality(Of("leased")')
  BY DEF Attempt, Of
<1>7. kind \in Kinds => ~Started(kind)
  BY <1>1 DEF Added
<1>8. CASE kind \in Claims
  <2>1. PICK n \in Nat : n = (IF kind = "schedule" THEN 1 ELSE Attempt + 1) /\ brought["leased"] = {n} /\ brought["created"] = {n}
    BY <1>1, <1>8 DEF Planned
  <2>2. n = Attempt + 1
    BY <1>5, <1>7, <2>1 DEF Kinds
  <2>3. Of("leased")' = 1..(Attempt + 1) /\ Of("created")' = Of("leased")'
    <3>1. PICK a \in Nat : a = Attempt
      BY <1>5
    <3>2. (1..a) \cup {a + 1} = 1..(a + 1)
      BY <3>1
    <3>3. Of("leased")' = (1..a) \cup {a + 1} /\ Of("created")' = Of("leased")'
      BY <1>4, <1>5, <2>1, <2>2, <3>1
    <3> QED BY <3>1, <3>2, <3>3
  <2>4. Attempt' = Attempt + 1
    <3>1. PICK m \in Nat : m = Attempt + 1
      BY <1>5
    <3>2. 1 \in Int /\ m \in Int /\ ~(1 > m) /\ m - 1 + 1 = m
      BY <1>5, <3>1
    <3>3. Cardinality(1..m) = m
      BY <3>2, FS_Interval
    <3> QED BY <1>6, <2>3, <3>1, <3>3
  <2>5. 1 \in Of("leased")' /\ Of("leased") \subseteq Of("leased")'
    BY <1>5, <2>3
  <2>6. kind # "none"
    BY <1>8 DEF Claims
  <2>7. Of("request")' = Of("request") /\ Of("submission")' = Of("submission") /\ Of("report")' = Of("report")
    BY <1>1, <1>4, <2>6, Foreign
  <2>8. /\ Of("request")' \subseteq Of("leased")' /\ Of("submission")' \subseteq Of("request")'
        /\ Of("report")' \subseteq Of("submission")'
    BY <1>1, <2>5, <2>7 DEF AttemptsInOrder
  <2> QED BY <1>3, <2>3, <2>4, <2>5, <2>8 DEF AttemptsInOrder
<1>9. CASE kind \notin Claims
  <2>1. Of("leased")' = Of("leased") /\ Of("created")' = Of("created")
    BY <1>1, <1>4, <1>9, Foreign
  <2>2. Attempt' = Attempt
    BY <1>6, <2>1 DEF Attempt, Of
  <2>3. Started("schedule")' <=> Started("schedule")
    BY <1>2, <1>9 DEF Claims
  <2>4. /\ Of("request")' \subseteq Of("leased")' /\ Of("submission")' \subseteq Of("request")'
        /\ Of("report")' \subseteq Of("submission")'
    <3>1. CASE kind = "none"
      <4>1. State(Worked) = "processing" \/ brought["request"] = {}
        BY <1>1, <3>1 DEF Planned, WorkTypes
      <4>2. /\ brought["request"] \subseteq {Attempt} /\ brought["submission"] \subseteq Of("request")
            /\ brought["report"] \subseteq Of("submission")
        BY <1>1, <3>1 DEF Planned
      <4>3. State(Worked) = "processing" => Attempt \in Of("leased")
        BY <1>1, StorySoFar
      <4>4. brought["request"] \subseteq Of("leased")
        BY <4>1, <4>2, <4>3
      <4> QED BY <1>1, <1>4, <2>1, <4>2, <4>4 DEF AttemptsInOrder
    <3>2. CASE kind # "none"
      <4>1. Of("request")' = Of("request") /\ Of("submission")' = Of("submission") /\ Of("report")' = Of("report")
        BY <1>1, <1>4, <3>2, Foreign
      <4> QED BY <1>1, <2>1, <4>1 DEF AttemptsInOrder
    <3> QED BY <3>1, <3>2
  <2> QED BY <1>3, <1>5, <2>1, <2>2, <2>3, <2>4 DEF AttemptsInOrder
<1> QED BY <1>8, <1>9

\* A lease is released with its recovery, and later than it is given.
LEMMA LeasesKept ==
  ASSUME NEW kind, NEW brought, Going(kind, brought)
  PROVE  LeasesInOrder'
<1>1. LedgerTyped /\ HomesKept /\ Story /\ Added(kind, brought) /\ Planned(kind, brought) /\ LeasesInOrder
  BY DEF Going, Story
<1>2. /\ Of("leased")' = Of("leased") \cup brought["leased"] /\ Of("released")' = Of("released") \cup brought["released"]
      /\ Of("recovery")' = Of("recovery") \cup brought["recovery"] /\ Of("ended")' = Of("ended") \cup brought["ended"]
  BY <1>1, StoryGrows
<1>3. /\ Of("released") = Of("recovery") /\ Of("released") \subseteq Of("leased") /\ Of("ended") \subseteq Of("released")
      /\ ReleasedLast
  BY <1>1 DEF LeasesInOrder
<1>4. /\ Of("released")' = Of("recovery")' /\ Of("released")' \subseteq Of("leased")'
      /\ Of("ended")' \subseteq Of("released")'
  <2>1. CASE kind = "recovery"
    <3>1. /\ State(Worked) = "processing"
          /\ brought["released"] = {Attempt} /\ brought["recovery"] = {Attempt} /\ brought["ended"] \subseteq {Attempt}
      BY <1>1, <2>1 DEF Planned
    <3>2. Attempt \in Of("leased")
      BY <1>1, <3>1, StorySoFar
    <3> QED BY <1>2, <1>3, <3>1, <3>2
  <2>2. CASE kind # "recovery"
    <3>1. brought["released"] = {} /\ brought["recovery"] = {} /\ brought["ended"] = {}
      BY <1>1, <2>2, Foreign
    <3> QED BY <1>2, <1>3, <3>1
  <2> QED BY <2>1, <2>2
<1>5. ReleasedLast'
  <2>1. brought["leased"] = {} \/ brought["released"] = {}
    <3>1. kind \in Claims => kind # "recovery"
      BY DEF Claims
    <3> QED BY <1>1, <3>1, Foreign
  <2>2. brought["leased"] \cap Of("released") = {}
    <3>1. CASE kind \in Claims
      <4>1. PICK n \in Nat : n = (IF kind = "schedule" THEN 1 ELSE Attempt + 1) /\ brought["leased"] = {n}
        BY <1>1, <3>1 DEF Planned
      <4>2. /\ Attempt \in Nat /\ Of("leased") = 1..Attempt
            /\ ~Started("schedule") => Of("leased") = {}
        BY <1>1, StorySoFar DEF Story, AttemptsInOrder
      <4>3. kind = "schedule" => ~Started("schedule")
        BY <1>1 DEF Added, Kinds
      <4>4. n \notin Of("leased")
        <5>1. CASE kind = "schedule"
          BY <4>2, <4>3, <5>1
        <5>2. CASE kind # "schedule"
          BY <4>1, <4>2, <5>2
        <5> QED BY <5>1, <5>2
      <4> QED BY <1>3, <4>1, <4>4
    <3>2. CASE kind \notin Claims
      BY <1>1, <3>2, Foreign
    <3> QED BY <3>1, <3>2
  <2> QED BY <1>1, <1>3, <2>1, <2>2 DEF Added
<1> QED BY <1>4, <1>5 DEF LeasesInOrder

\* A bound unit stays at work until it is completed.
LEMMA ResultsKept ==
  ASSUME NEW kind, NEW brought, Going(kind, brought)
  PROVE  ResultsInOrder'
<1>1. /\ LedgerTyped /\ HomesKept /\ Story /\ Added(kind, brought) /\ Planned(kind, brought)
      /\ ResultsInOrder /\ UnitsInOrder /\ AttemptsInOrder
  BY DEF Going, Story
<1>2. /\ Of("decision")' = Of("decision") \cup brought["decision"] /\ Of("invoked")' = Of("invoked") \cup brought["invoked"]
      /\ Of("bound")' = Of("bound") \cup brought["bound"] /\ Of("merge")' = Of("merge") \cup brought["merge"]
  BY <1>1, StoryGrows
<1>3. \A u : Bound(u) <=> u \in Of("bound")
  BY DEF Bound, Of, Objects, About, Written
<1>4. \A u : Invoked(u) => u \in Of("invoked")
  BY AboutIsOf DEF Invoked
<1>5. brought["decision"] \subseteq Of("invoked")
  <2>1. CASE kind = "expansion"
    <3>1. brought["decision"] = {0} /\ Invoked(0)
      BY <1>1, <2>1 DEF Planned
    <3> QED BY <1>4, <3>1
  <2>2. CASE kind = "completion"
    <3>1. brought["decision"] = {Worked} /\ Invoked(Worked)
      BY <1>1, <2>2 DEF Planned
    <3> QED BY <1>4, <3>1
  <2>3. CASE kind \notin {"expansion", "completion"}
    BY <1>1, <2>3, Foreign
  <2> QED BY <2>1, <2>2, <2>3
<1>6. brought["merge"] \subseteq Of("bound")
  <2>1. CASE kind = "resolution"
    <3>1. brought["merge"] = {3} /\ Bound(3)
      BY <1>1, <2>1 DEF Planned
    <3> QED BY <1>3, <3>1
  <2>2. CASE kind # "resolution"
    BY <1>1, <2>2, Foreign
  <2> QED BY <2>1, <2>2
<1>7. /\ brought["invoked"] \subseteq Of("bound")
      /\ \A u \in brought["bound"] : kind = "none" /\ u = Worked /\ State(u) = "processing" /\ u \in {0, 1, 3}
  <2>1. CASE kind = "none"
    <3>1. brought["invoked"] \subseteq Of("bound") /\ brought["bound"] \subseteq {Worked}
      BY <1>1, <2>1 DEF Planned
    <3>2. State(Worked) = "processing" \/ brought["bound"] = {}
      BY <1>1, <2>1 DEF Planned, WorkTypes
    <3>3. Worked \in {0, 1, 3}
      BY <1>1, StorySoFar
    <3> QED BY <2>1, <3>1, <3>2, <3>3
  <2>2. CASE kind # "none"
    BY <1>1, <2>2, Foreign
  <2> QED BY <2>1, <2>2
<1>8. /\ Of("decision")' \subseteq Of("invoked")' /\ Of("invoked")' \subseteq Of("bound")'
      /\ Of("merge")' \subseteq Of("bound")' /\ Of("bound")' \subseteq {0, 1, 3}
  <2>1. /\ Of("decision") \subseteq Of("invoked") /\ Of("invoked") \subseteq Of("bound")
        /\ Of("merge") \subseteq Of("bound") /\ Of("bound") \subseteq {0, 1, 3}
    BY <1>1 DEF ResultsInOrder
  <2>2. brought["bound"] \subseteq {0, 1, 3}
    BY <1>7
  <2> QED BY <1>2, <1>5, <1>6, <1>7, <2>1, <2>2
<1>9. ASSUME NEW u \in Of("bound") PROVE State(u)' \in {"processing", "completed"}
  <2>1. u \in {0, 1, 3} /\ State(u) \in {"processing", "completed"}
    BY <1>1, <1>9 DEF ResultsInOrder
  <2>2. CASE State(u)' = State(u)
    BY <2>1, <2>2
  <2>3. CASE State(u)' # State(u)
    <3>1. \/ State(u)' \in {"processing", "completed"}
          \/ kind = "recovery" /\ ~Bound(u)
          \/ kind = "expansion" /\ u \in {1, 2}
          \/ kind = "link" /\ u = 3
          \/ kind = "pruning" /\ u \in Cancellable
      BY <2>1, <2>3, StateGoes
    <3>2. kind \in Kinds => ~Started(kind)
      BY <1>1 DEF Added
    <3>3. ~(kind = "recovery" /\ ~Bound(u))
      BY <1>3, <1>9
    <3>4. ~(kind = "expansion" /\ u \in {1, 2})
      BY <1>1, <2>1, <3>2 DEF UnitsInOrder, Kinds
    <3>5. ~(kind = "link" /\ u = 3)
      BY <1>1, <2>1, <3>2 DEF UnitsInOrder, Kinds
    <3>6. ~(kind = "pruning" /\ u \in Cancellable)
      <4>1. kind = "pruning" => State(0) = "completed" /\ Started("expansion")
        BY <1>1 DEF Planned
      <4>2. kind = "pruning" => Cancellable \subseteq {2}
        BY <1>1, <4>1, StorySoFar
      <4> QED BY <2>1, <4>2
    <3> QED BY <3>1, <3>3, <3>4, <3>5, <3>6
  <2> QED BY <2>2, <2>3
<1>10. ASSUME NEW u \in brought["bound"] PROVE State(u)' \in {"processing", "completed"}
  <2>1. kind = "none" /\ State(u) = "processing" /\ u \in Nat
    BY <1>7, <1>10
  <2>2. \A type \in Changes : brought[type] = {}
    BY <1>1, <2>1 DEF Planned
  <2>3. State(u)' = State(u)
    BY <1>1, <2>1, <2>2 DEF Added
  <2> QED BY <2>1, <2>3
<1> QED BY <1>2, <1>8, <1>9, <1>10 DEF ResultsInOrder

\* The units stay what they have become.
LEMMA UnitsKept ==
  ASSUME NEW kind, NEW brought, Going(kind, brought)
  PROVE  UnitsInOrder'
<1>1. /\ LedgerTyped /\ HomesKept /\ Story /\ Added(kind, brought) /\ Planned(kind, brought)
      /\ UnitsInOrder /\ AttemptsInOrder
  BY DEF Going, Story
<1>2. \A other \in {"expansion", "link", "parent", "settlement", "pruning"} : Started(other)' <=> Started(other) \/ other = kind
  BY <1>1, StoryGrows
<1>3. kind \in Kinds => ~Started(kind)
  BY <1>1 DEF Added
<1>4. \A u \in {0, 1, 2, 3} : State(u)' # State(u) =>
         \/ kind \in Claims /\ State(u) = "ready" /\ State(u)' = "processing"
         \/ kind = "recovery" /\ State(u) = "processing" /\ State(u)' \in {"ready", "failed"}
         \/ kind = "expansion" /\ u \in {1, 2} /\ State(u)' = "ready"
         \/ kind = "completion" /\ u = Worked /\ State(u) = "processing" /\ State(u)' = "completed"
         \/ kind = "link" /\ u = 3 /\ State(u)' = "ready"
         \/ kind = "parent" /\ u = 0 /\ State(u)' = "completed"
         \/ kind = "pruning" /\ u \in Cancellable /\ State(u)' = "cancelled"
  BY StateGoes
<1>5. /\ kind = "pruning" => State(0) = "completed" /\ Cancellable \subseteq {2} /\ Started("expansion")
      /\ \A u \in Cancellable : State(u) # "none"
  <2>1. kind = "pruning" => State(0) = "completed" /\ Started("expansion")
    BY <1>1 DEF Planned
  <2>2. kind = "pruning" => Cancellable \subseteq {2}
    BY <1>1, <2>1, StorySoFar
  <2> QED BY <2>1, <2>2 DEF Cancellable
<1>6. \A u \in {1, 2} : State(u)' # "none" => Started("expansion")'
  <2> SUFFICES ASSUME NEW u \in {1, 2}, State(u)' # "none" PROVE Started("expansion")'
    OBVIOUS
  <2>1. kind = "expansion" \/ State(u) # "none"
    BY <1>4, <1>5
  <2> QED BY <1>1, <1>2, <2>1 DEF UnitsInOrder
<1>7. State(3)' # "none" => Started("link")'
  <2> SUFFICES ASSUME State(3)' # "none" PROVE Started("link")'
    OBVIOUS
  <2>1. kind = "link" \/ State(3) # "none"
    BY <1>4, <1>5
  <2> QED BY <1>1, <1>2, <2>1 DEF UnitsInOrder
<1>8. ASSUME Started("link")' PROVE State(1)' = "completed" /\ 3 \in Of("link")'
  <2>1. Of("link")' = Of("link") \cup brought["link"]
    BY <1>1, StoryGrows
  <2>2. CASE kind = "link"
    <3>1. State(1) = "completed" /\ brought["link"] = {3}
      BY <1>1, <2>2 DEF Planned
    <3>2. State(1)' = State(1)
      BY <1>4, <2>2 DEF Claims
    <3> QED BY <2>1, <3>1, <3>2
  <2>3. CASE kind # "link"
    <3>1. Started("link") /\ State(1) = "completed" /\ 3 \in Of("link") /\ Started("expansion")
      BY <1>1, <1>2, <1>8, <2>3 DEF UnitsInOrder, AttemptsInOrder
    <3>2. kind # "expansion"
      BY <1>3, <3>1 DEF Kinds
    <3>3. State(1)' = State(1)
      BY <1>4, <1>5, <3>1, <3>2
    <3> QED BY <2>1, <3>1, <3>3
  <2> QED BY <2>2, <2>3
<1>9. ASSUME State(0)' = "completed", Started("expansion")' PROVE Started("parent")'
  <2>1. CASE State(0)' = State(0)
    <3>1. kind # "expansion"
      <4>1. kind = "expansion" => State(0) = "processing"
        BY <1>1 DEF Planned
      <4> QED BY <1>9, <2>1, <4>1
    <3>2. Started("expansion")
      BY <1>2, <1>9, <3>1
    <3> QED BY <1>1, <1>2, <1>9, <2>1, <3>2 DEF UnitsInOrder
  <2>2. CASE State(0)' # State(0)
    <3>1. kind = "parent" \/ (kind = "completion" /\ Worked = 0)
      BY <1>4, <1>9, <2>2
    <3>2. ~(kind = "completion" /\ Worked = 0)
      <4>1. kind = "completion" /\ Worked = 0 => ~Started("expansion")
        BY <1>1 DEF Planned
      <4>2. kind = "completion" => Started("expansion")
        BY <1>2, <1>9
      <4> QED BY <4>1, <4>2
    <3> QED BY <1>2, <3>1, <3>2
  <2> QED BY <2>1, <2>2
<1>10. ASSUME Started("parent")' \/ Started("settlement")' \/ Started("pruning")' PROVE State(0)' = "completed"
  <2>1. CASE kind = "parent"
    <3>1. brought["completed"] = {0}
      BY <1>1, <2>1 DEF Planned
    <3>2. State(0)' = After("completed")
      BY <1>1, <3>1 DEF Added, Changes
    <3> QED BY <3>2 DEF After
  <2>2. CASE kind # "parent"
    <3>1. State(0) = "completed"
      <4>1. kind \in {"settlement", "pruning"} => State(0) = "completed"
        BY <1>1 DEF Planned
      <4> QED BY <1>1, <1>2, <1>10, <2>2, <4>1 DEF UnitsInOrder
    <3>2. State(0)' = State(0)
      BY <1>4, <1>5, <2>2, <3>1
    <3> QED BY <3>1, <3>2
  <2> QED BY <2>1, <2>2
<1>11. 0 \in Of("unit")'
  <2>1. "unit" \in EventTypes
    BY DEF EventTypes, Changes
  <2> QED BY <1>1, <2>1 DEF Added, UnitsInOrder
<1> QED BY <1>6, <1>7, <1>8, <1>9, <1>10, <1>11 DEF UnitsInOrder

\* The outputs are resolved as they were promised.
LEMMA GraphKept ==
  ASSUME NEW kind, NEW brought, Going(kind, brought)
  PROVE  GraphInOrder'
<1>1. /\ LedgerTyped /\ HomesKept /\ Story /\ Added(kind, brought) /\ Planned(kind, brought)
      /\ GraphInOrder /\ AttemptsInOrder
  BY DEF Going, Story
<1>2. \A other \in {"expansion", "resolution", "parent"} : Started(other)' <=> Started(other) \/ other = kind
  BY <1>1, StoryGrows
<1>3. kind \in Kinds => ~Started(kind)
  BY <1>1 DEF Added
<1>4. /\ Of("relation")' = Of("relation") \cup brought["relation"] /\ Of("plan")' = Of("plan") \cup brought["plan"]
      /\ Of("proposal")' = Of("proposal") \cup brought["proposal"]
      /\ Of("resolved")' = Of("resolved") \cup brought["resolved"] /\ Of("merge")' = Of("merge") \cup brought["merge"]
  BY <1>1, StoryGrows
<1>5. ChildrenOf(ledger)' = ChildrenOf(ledger) \cup (IF kind = "expansion" THEN brought["unit"] ELSE {})
  BY <1>1 DEF Added
<1>6. /\ Started("expansion")' => 1 \in ChildrenOf(ledger)'
      /\ Of("relation")' # {} => 2 \in ChildrenOf(ledger)'
      /\ Of("plan")' = Of("proposal")'
  <2>1. CASE kind = "expansion"
    <3>1. brought["proposal"] = {0} /\ brought["plan"] = {0}
      BY <1>1, <2>1 DEF Planned
    <3>2. PICK n \in 1..2, m \in 0..1 : m < n /\ brought["unit"] = 1..n /\ brought["relation"] = 1..m
      BY <1>1, <2>1 DEF Planned
    <3>3. 1 \in brought["unit"] /\ (brought["relation"] # {} => 2 \in brought["unit"])
      BY <3>2
    <3> QED BY <1>1, <1>4, <1>5, <2>1, <3>1, <3>3 DEF GraphInOrder
  <2>2. CASE kind # "expansion"
    <3>1. brought["relation"] = {} /\ brought["plan"] = {} /\ brought["proposal"] = {}
      BY <1>1, <2>2, Foreign
    <3> QED BY <1>1, <1>2, <1>4, <1>5, <2>2, <3>1 DEF GraphInOrder
  <2> QED BY <2>1, <2>2
<1>7. ChildrenOf(ledger) \subseteq {1, 2} /\ (Started("expansion") => 1 \in ChildrenOf(ledger))
  BY <1>1, StorySoFar DEF GraphInOrder
<1>8. Of("resolved")' \subseteq ChildrenOf(ledger)' /\ (Of("resolved")' # {} => Of("merge")' # {})
  <2>1. CASE kind = "resolution"
    <3>1. Started("expansion") /\ brought["merge"] = {3}
      BY <1>1, <2>1 DEF Planned, AttemptsInOrder
    <3>2. PICK n \in ChildrenOf(ledger) : brought["resolved"] = 1..n
      BY <1>1, <2>1 DEF Planned
    <3>3. 1..n \subseteq ChildrenOf(ledger)
      <4>1. n = 1 \/ n = 2
        BY <1>7
      <4> QED BY <1>7, <3>1, <4>1
    <3> QED BY <1>1, <1>4, <1>5, <3>1, <3>2, <3>3 DEF GraphInOrder
  <2>2. CASE kind # "resolution"
    <3>1. brought["resolved"] = {}
      BY <1>1, <2>2, Foreign
    <3> QED BY <1>1, <1>4, <1>5, <3>1 DEF GraphInOrder
  <2> QED BY <2>1, <2>2
<1>9. ASSUME Started("parent")' PROVE Of("resolved")' = ChildrenOf(ledger)'
  <2>1. Of("resolved") = ChildrenOf(ledger) /\ Started("resolution")
    <3>1. CASE kind = "parent"
      BY <1>1, <3>1 DEF Planned
    <3>2. CASE kind # "parent"
      BY <1>1, <1>2, <1>9, <3>2 DEF GraphInOrder, AttemptsInOrder
    <3> QED BY <3>1, <3>2
  <2>2. Started("expansion")
    BY <1>1, <2>1 DEF AttemptsInOrder
  <2>3. kind # "resolution" /\ kind # "expansion"
    BY <1>3, <2>1, <2>2 DEF Kinds
  <2>4. brought["resolved"] = {}
    BY <1>1, <2>3, Foreign
  <2> QED BY <1>4, <1>5, <2>1, <2>3, <2>4
<1> QED BY <1>6, <1>8, <1>9 DEF GraphInOrder

\* There is one settlement, and one pruning of one unit.
LEMMA EndKept ==
  ASSUME NEW kind, NEW brought, Going(kind, brought)
  PROVE  EndInOrder'
<1>1. /\ LedgerTyped /\ HomesKept /\ Story /\ Added(kind, brought) /\ Planned(kind, brought)
      /\ EndInOrder /\ UnitsInOrder
  BY DEF Going, Story
<1>2. \A other \in {"settlement", "pruning"} : Started(other)' <=> Started(other) \/ other = kind
  BY <1>1, StoryGrows
<1>3. /\ Of("settlement")' = Of("settlement") \cup brought["settlement"]
      /\ Of("cancelled")' = Of("cancelled") \cup brought["cancelled"] /\ Of("pruned")' = Of("pruned") \cup brought["pruned"]
  BY <1>1, StoryGrows
<1>4. Started("settlement")' => 0 \in Of("settlement")'
  <2>1. CASE kind = "settlement"
    <3>1. brought["settlement"] = {0}
      BY <1>1, <2>1 DEF Planned
    <3> QED BY <1>3, <3>1
  <2>2. CASE kind # "settlement"
    BY <1>1, <1>2, <1>3, <2>2 DEF EndInOrder
  <2> QED BY <2>1, <2>2
<1>5. ASSUME Started("pruning")'
      PROVE  /\ Of("cancelled")' = {2} /\ State(2)' = "cancelled" /\ 0 \in Of("pruned")'
             /\ Cardinality(Positions(ledger', "pruning")) = 2
  <2>1. CASE kind = "pruning"
    <3>1. /\ State(0) = "completed" /\ Started("expansion") /\ Cancellable # {}
          /\ brought["cancelled"] = Cancellable /\ brought["pruned"] = {0}
          /\ Cardinality(Positions(ledger', "pruning")) = Cardinality(Cancellable) + 1
      BY <1>1, <2>1 DEF Planned
    <3>2. Cancellable = {2}
      <4>1. Cancellable \subseteq {2}
        BY <1>1, <3>1, StorySoFar
      <4> QED BY <3>1, <4>1
    <3>3. Of("cancelled") = {}
      <4>1. ASSUME NEW o \in Of("cancelled") PROVE Started("pruning")
        <5>1. PICK home : AtHome("cancelled", o, home) /\ Started(home)
          BY <1>1, HomeStarted
        <5> QED BY <5>1 DEF AtHome
      <4>2. ~Started("pruning")
        BY <1>1, <2>1 DEF Added, Kinds
      <4> QED BY <4>1, <4>2
    <3>4. State(2)' = "cancelled"
      <4>1. State(2)' = After("cancelled")
        BY <1>1, <3>1, <3>2 DEF Added, Changes
      <4> QED BY <4>1 DEF After
    <3>5. Cardinality(Cancellable) = 1
      BY <3>2, FS_Singleton
    <3> QED BY <1>3, <3>1, <3>2, <3>3, <3>4, <3>5
  <2>2. CASE kind # "pruning"
    <3>1. /\ Of("cancelled") = {2} /\ State(2) = "cancelled" /\ 0 \in Of("pruned")
          /\ Cardinality(Positions(ledger, "pruning")) = 2
      BY <1>1, <1>2, <1>5, <2>2 DEF EndInOrder
    <3>2. brought["cancelled"] = {} /\ brought["pruned"] = {}
      BY <1>1, <2>2, Foreign
    <3>3. Positions(ledger', "pruning") = Positions(ledger, "pruning")
      BY <1>1, <2>2 DEF Added, Kinds
    <3>4. State(2)' = State(2)
      <4>1. ASSUME State(2)' # State(2) PROVE FALSE
        <5>1. kind = "expansion"
          BY <1>1, <2>2, <3>1, <4>1, StateGoes
        <5>2. Started("expansion")
          BY <1>1, <3>1 DEF UnitsInOrder
        <5> QED BY <1>1, <5>1, <5>2 DEF Added, Kinds
      <4> QED BY <4>1
    <3> QED BY <1>3, <3>1, <3>2, <3>3, <3>4
  <2> QED BY <2>1, <2>2
<1> QED BY <1>4, <1>5 DEF EndInOrder

\* The story of a whole ledger,
StoryTold == Whole => Story

\* and what a rebuild that committed has shown of it.
BuiltAccepted ==
  /\ built <= Len(ledger)
  /\ outcome = "built" /\ built = Len(ledger) => Accepts(ledger)

IndexTold == IndexOrdered /\ StoryTold /\ BuiltAccepted

\* Whatever is added, the story goes on.
LEMMA StoryKept ==
  ASSUME LedgerInOrder, StoryTold, Whole' => Whole /\ Grows
  PROVE  StoryTold'
<1> SUFFICES ASSUME Whole' PROVE Story'
  BY DEF StoryTold
<1>1. PICK kind, brought : Added(kind, brought) /\ Planned(kind, brought)
  BY DEF Grows
<1>2. Going(kind, brought)
  BY <1>1 DEF Going, StoryTold, LedgerInOrder
<1> QED BY <1>2, AttemptsKept, LeasesKept, ResultsKept, UnitsKept, GraphKept, EndKept DEF Story

\* A rebuild does not change the ledger.
LEMMA StoryUnchanged ==
  ASSUME StoryTold, ledger' = ledger
  PROVE  StoryTold'
<1>1. /\ Whole' <=> Whole
      /\ \A kind : Started(kind)' <=> Started(kind)
      /\ \A type : Of(type)' = Of(type)
      /\ \A u : State(u)' = State(u)
      /\ Attempt' = Attempt /\ (ReleasedLast' <=> ReleasedLast)
  BY DEF Whole, Started, Complete, Of, State, Attempt, ReleasedLast
<1>2. /\ AttemptsInOrder => AttemptsInOrder'
      /\ LeasesInOrder => LeasesInOrder'
      /\ ResultsInOrder => ResultsInOrder'
  BY <1>1 DEF AttemptsInOrder, LeasesInOrder, ResultsInOrder
<1>3. /\ UnitsInOrder => UnitsInOrder'
      /\ GraphInOrder => GraphInOrder'
      /\ EndInOrder => EndInOrder'
  BY <1>1 DEF UnitsInOrder, GraphInOrder, EndInOrder
<1> QED BY <1>1, <1>2, <1>3 DEF StoryTold, Story

\* What a rebuild has shown was accepted.
LEMMA BuiltKept ==
  ASSUME LedgerTyped, HomesKept, AtWork, BuiltAccepted, built \in Nat, [IndexNext]_indexVars
  PROVE  BuiltAccepted'
<1>1. Len(ledger) \in Nat /\ ledger \in Seq(Events)
  BY DEF LedgerTyped
<1>2. ASSUME UNCHANGED rebuildVars, Len(ledger') > Len(ledger), Len(ledger') \in Nat PROVE BuiltAccepted'
  BY <1>1, <1>2 DEF BuiltAccepted, rebuildVars
<1>3. ASSUME NEW kind \in Kinds, AppendBatch(kind) PROVE BuiltAccepted'
  <2>1. PICK added : \E shape \in Shapes(kind) : Batched(added, kind, shape)
    BY <1>3, BatchAppended
  <2>2. added \in Seq(Events) /\ ledger' = ledger \o added /\ Len(added) >= 1 /\ Len(added) \in Nat
    BY <2>1, RegularShape DEF Batched
  <2>3. Len(ledger') = Len(ledger) + Len(added)
    BY <2>2, Grown
  <2>4. UNCHANGED rebuildVars
    BY <1>3 DEF AppendBatch
  <2> QED BY <1>1, <1>2, <2>2, <2>3, <2>4
<1>4. CASE AppendWork
  <2>1. PICK e : ledger' = Append(ledger, e)
    BY <1>4 DEF AppendWork
  <2>2. UNCHANGED rebuildVars
    BY <1>4 DEF AppendWork
  <2>3. Len(ledger') = Len(ledger) + 1
    BY <1>1, <2>1
  <2> QED BY <1>1, <1>2, <2>2, <2>3
<1>5. CASE AppendContribution
  <2>1. PICK e : ledger' = Append(ledger, e)
    BY <1>5 DEF AppendContribution
  <2>2. UNCHANGED rebuildVars
    BY <1>5 DEF AppendContribution
  <2>3. Len(ledger') = Len(ledger) + 1
    BY <1>1, <2>1
  <2> QED BY <1>1, <1>2, <2>2, <2>3
<1>6. CASE InsertRows
  <2>1. Accepts(ledger) /\ ledger' = ledger
    BY <1>6 DEF InsertRows, AtWork, ledgerVars
  <2>2. (built' = Len(ledger) \/ built' = built) /\ built <= Len(ledger)
    BY <1>6 DEF InsertRows, BuiltAccepted
  <2> QED BY <1>1, <2>1, <2>2 DEF BuiltAccepted
<1>7. CASE Rebuild \/ DropTable \/ CreateTable \/ CrashRebuild \/ UNCHANGED indexVars
  <2>1. ledger' = ledger /\ built' = built
    BY <1>7 DEF Rebuild, DropTable, CreateTable, CrashRebuild, indexVars, ledgerVars, rebuildVars
  <2>2. outcome' = outcome \/ outcome' \in {"refused", "error", "crashed"}
    BY <1>7 DEF Rebuild, DropTable, CreateTable, CrashRebuild, indexVars, rebuildVars
  <2> QED BY <2>1, <2>2 DEF BuiltAccepted
<1> QED BY <1>3, <1>4, <1>5, <1>6, <1>7 DEF IndexNext

\* The three together are inductive.
LEMMA ToldStep ==
  ASSUME IndexTold, [IndexNext]_indexVars
  PROVE  IndexTold'
<1>1. IndexOrdered /\ LedgerInOrder /\ LedgerTyped /\ HomesKept /\ StoryTold /\ BuiltAccepted /\ AtWork /\ built \in Nat
  BY DEF IndexTold, IndexOrdered, IndexInOrder, LedgerInOrder, TablesFit
<1>2. IndexOrdered'
  BY <1>1, OrderedStep
<1>3. BuiltAccepted'
  BY <1>1, BuiltKept
<1>4. StoryTold'
  <2>1. ASSUME NEW kind \in Kinds, AppendBatch(kind) PROVE StoryTold'
    <3>1. Whole' => Whole /\ Grows
      BY <1>1, <2>1, BatchGrows
    <3> QED BY <1>1, <3>1, StoryKept
  <2>2. CASE AppendWork
    <3>1. Whole' => Whole /\ Grows
      BY <1>1, <2>2, WorkGrows
    <3> QED BY <1>1, <3>1, StoryKept
  <2>3. CASE AppendContribution
    <3>1. Whole' => Whole /\ Grows
      BY <1>1, <2>3, ContributionGrows
    <3> QED BY <1>1, <3>1, StoryKept
  <2>4. CASE Rebuild \/ DropTable \/ CreateTable \/ InsertRows \/ CrashRebuild \/ UNCHANGED indexVars
    <3>1. ledger' = ledger
      BY <2>4 DEF Rebuild, DropTable, CreateTable, InsertRows, CrashRebuild, indexVars, ledgerVars
    <3> QED BY <1>1, <3>1, StoryUnchanged
  <2> QED BY <2>1, <2>2, <2>3, <2>4 DEF IndexNext
<1> QED BY <1>2, <1>3, <1>4 DEF IndexTold

\* In the beginning there is the root.
LEMMA ToldBegins == IndexInit => IndexTold
<1> SUFFICES ASSUME IndexInit PROVE IndexTold
  OBVIOUS
<1>1. IndexOrdered
  BY OrderedBegins
<1>2. PICK e : e = Single("unit", 0)
  OBVIOUS
<1>3. ledger = <<e>> /\ DOMAIN ledger = {1} /\ ledger[1] = e
  BY <1>2 DEF IndexInit
<1>4. e.type = "unit" /\ e.obj = 0 /\ e.batch = "none"
  BY <1>2 DEF Single
<1>5. \A kind \in Kinds : ~Started(kind) /\ Positions(ledger, kind) = {}
  BY <1>3, <1>4 DEF Started, Positions, Kinds
<1>6. \A type : type # "unit" => Of(type) = {}
  BY <1>3, <1>4 DEF Of, Objects, Written
<1>7. Of("unit") = {0}
  BY <1>3, <1>4 DEF Of, Objects, Written
<1>8. Attempt = 0
  <2>1. Attempt = Cardinality(Of("leased"))
    BY DEF Attempt, Of
  <2> QED BY <1>6, <2>1, FS_EmptySet
<1>9. ASSUME NEW u, u # 0 PROVE State(u) = "none"
  <2>1. About(ledger, Changes, u) = {}
    BY <1>3, <1>4, <1>9 DEF About, Written
  <2> QED BY <2>1 DEF State
<1>10. ReleasedLast
  BY <1>3, <1>4 DEF ReleasedLast, Written
<1>11. ChildrenOf(ledger) = {}
  BY <1>3, <1>4 DEF ChildrenOf, Positions
<1>12. {"schedule", "reschedule", "expansion", "link", "dispatch", "resolution", "parent", "settlement", "pruning"} \subseteq Kinds
  BY DEF Kinds
<1>13. AttemptsInOrder
  <2>1. /\ Of("leased") = {} /\ Of("created") = {} /\ Of("request") = {}
        /\ Of("submission") = {} /\ Of("report") = {}
    BY <1>6
  <2>2. 1..Attempt = {}
    BY <1>8
  <2>3. \A kind \in {"schedule", "reschedule", "expansion", "link", "dispatch", "resolution", "parent"} : ~Started(kind)
    BY <1>5, <1>12
  <2> QED BY <2>1, <2>2, <2>3 DEF AttemptsInOrder
<1>13b. LeasesInOrder
  <2>1. Of("released") = {} /\ Of("recovery") = {} /\ Of("ended") = {}
    BY <1>6
  <2> QED BY <1>10, <2>1 DEF LeasesInOrder
<1>14. ResultsInOrder
  BY <1>6 DEF ResultsInOrder
<1>15. UnitsInOrder
  <2>1. State(1) = "none" /\ State(2) = "none" /\ State(3) = "none"
    BY <1>9
  <2> QED BY <1>5, <1>7, <1>12, <2>1 DEF UnitsInOrder
<1>16. GraphInOrder
  BY <1>5, <1>6, <1>11, <1>12 DEF GraphInOrder
<1>17. EndInOrder
  BY <1>5, <1>12 DEF EndInOrder
<1>18. BuiltAccepted
  BY <1>3 DEF BuiltAccepted, IndexInit, Empty
<1> QED BY <1>1, <1>13, <1>13b, <1>14, <1>15, <1>16, <1>17, <1>18 DEF IndexTold, StoryTold, Story

\* A table has a row for each object of its events.
LEMMA RowsDomain ==
  ASSUME NEW at
  PROVE  DOMAIN Rows(ledger, at) = {ledger[i].obj : i \in at}
BY DEF Rows

\* The row of an object is that of its last event.
LEMMA RowOf ==
  ASSUME LedgerTyped, NEW at \in SUBSET DOMAIN ledger, NEW o \in DOMAIN Rows(ledger, at)
  PROVE  \E i \in at : /\ ledger[i].obj = o /\ Rows(ledger, at)[o] = ledger[i].type
                       /\ \A j \in at : ledger[j].obj = o => j <= i
<1>0. o \in {ledger[i].obj : i \in at}
  BY RowsDomain
<1>1. PICK k \in at : ledger[k].obj = o
  BY <1>0
<1>2. PICK S : S = {i \in at : ledger[i].obj = o}
  OBVIOUS
<1>3. k \in S
  BY <1>1, <1>2
<1>4. DOMAIN ledger = 1..Len(ledger) /\ Len(ledger) \in Nat
  BY DEF LedgerTyped
<1>5. S \in SUBSET Nat /\ \A x \in S : x <= Len(ledger)
  BY <1>2, <1>4
<1>6. PICK i : i = Max(S)
  OBVIOUS
<1>7. i \in S /\ \A x \in S : x <= i
  BY <1>3, <1>4, <1>5, <1>6, Greatest
<1>8. Rows(ledger, at)[o] = ledger[i].type
  BY <1>1, <1>2, <1>6 DEF Rows
<1> QED BY <1>2, <1>7, <1>8

\* The last change of a unit is the one its state tells.
LEMMA LastChange ==
  ASSUME LedgerTyped, NEW u, State(u) # "none"
  PROVE  \E i \in DOMAIN ledger :
           /\ ledger[i].type \in Changes /\ ledger[i].obj = u /\ State(u) = After(ledger[i].type)
           /\ \A j \in DOMAIN ledger : ledger[j].type \in Changes /\ ledger[j].obj = u => j <= i
<1>1. PICK at : at = About(ledger, Changes, u)
  OBVIOUS
<1>2. at # {}
  BY <1>1 DEF State
<1>3. at \subseteq DOMAIN ledger /\ DOMAIN ledger = 1..Len(ledger) /\ Len(ledger) \in Nat
  BY <1>1 DEF About, Written, LedgerTyped
<1>4. at \in SUBSET Nat /\ \A x \in at : x <= Len(ledger)
  BY <1>3
<1>5. PICK i : i = Max(at)
  OBVIOUS
<1>6. i \in at /\ \A x \in at : x <= i
  BY <1>2, <1>3, <1>4, <1>5, Greatest
<1>7. State(u) = After(ledger[i].type)
  BY <1>1, <1>2, <1>5 DEF State, After
<1> QED BY <1>1, <1>6, <1>7 DEF About, Written

\* The row of a unit at work or at its end is its state, and only the row of the
\* merge unit may show less than its events.
LEMMA UnitRow ==
  ASSUME LedgerTyped, HomesKept, NEW u, NEW units, units = TaskUnits(ledger)
  PROVE  /\ State(u) \notin {"none", "ready"} => u \in DOMAIN units /\ units[u] = State(u)
         /\ u \in DOMAIN units /\ u # 3 /\ units[u] \notin {"unit", "ready"} => State(u) = units[u]
         /\ u \in DOMAIN units => u \in Of(units[u])
<1>1. PICK at : at = Visible(ledger, Changes)
  OBVIOUS
<1>2. /\ at \in SUBSET DOMAIN ledger /\ units = Rows(ledger, at)
      /\ \A i \in at : ledger[i].type \in Changes
      /\ \A i \in DOMAIN ledger : ledger[i].type \in Changes /\ ~Hidden(ledger[i]) => i \in at
  BY <1>1 DEF TaskUnits, Visible, Written
<1>3. ASSUME NEW i \in DOMAIN ledger, ledger[i].type \in Changes, Hidden(ledger[i])
      PROVE  ledger[i].type = "unit" /\ ledger[i].obj = 3
  <2>1. ledger[i].type = "unit" /\ ledger[i].batch \notin {"none", "expansion"}
    BY <1>3 DEF Hidden, Changes
  <2>2. AtHome(ledger[i].type, ledger[i].obj, ledger[i].batch)
    BY DEF HomesKept
  <2> QED BY <2>1, <2>2 DEF AtHome
<1>4. ASSUME u \in DOMAIN units
      PROVE  \E i \in at : /\ ledger[i].obj = u /\ units[u] = ledger[i].type
                           /\ \A j \in at : ledger[j].obj = u => j <= i
  BY <1>2, <1>4, RowOf
<1>5. DOMAIN ledger \subseteq Nat
  BY DEF LedgerTyped
<1>6. ASSUME State(u) \notin {"none", "ready"} PROVE u \in DOMAIN units /\ units[u] = State(u)
  <2>1. PICK i \in DOMAIN ledger :
          /\ ledger[i].type \in Changes /\ ledger[i].obj = u /\ State(u) = After(ledger[i].type)
          /\ \A j \in DOMAIN ledger : ledger[j].type \in Changes /\ ledger[j].obj = u => j <= i
    BY <1>6, LastChange
  <2>2. ledger[i].type # "unit" /\ State(u) = ledger[i].type
    BY <1>6, <2>1 DEF After
  <2>3. i \in at
    BY <1>2, <1>3, <2>1, <2>2
  <2>4. u \in DOMAIN units
    <3>1. DOMAIN units = {ledger[j].obj : j \in at}
      BY <1>2, RowsDomain
    <3> QED BY <2>1, <2>3, <3>1
  <2>5. PICK k \in at : /\ ledger[k].obj = u /\ units[u] = ledger[k].type
                        /\ \A j \in at : ledger[j].obj = u => j <= k
    BY <1>4, <2>4
  <2>6. i <= k /\ k <= i /\ i \in Nat /\ k \in Nat
    BY <1>2, <1>5, <2>1, <2>3, <2>5
  <2>7. i = k
    BY <2>6
  <2> QED BY <2>2, <2>4, <2>5, <2>7
<1>7. ASSUME u \in DOMAIN units, u # 3, units[u] \notin {"unit", "ready"} PROVE State(u) = units[u]
  <2>1. PICK k \in at : /\ ledger[k].obj = u /\ units[u] = ledger[k].type
                        /\ \A j \in at : ledger[j].obj = u => j <= k
    BY <1>4, <1>7
  <2>2. k \in DOMAIN ledger /\ ledger[k].type \in Changes
    BY <1>2, <2>1
  <2>3. State(u) # "none"
    <3>1. u \in Of(ledger[k].type)
      BY <2>1, <2>2 DEF Of, Objects, Written
    <3> QED BY <2>2, <3>1, StateIsOf
  <2>4. PICK i \in DOMAIN ledger :
          /\ ledger[i].type \in Changes /\ ledger[i].obj = u /\ State(u) = After(ledger[i].type)
          /\ \A j \in DOMAIN ledger : ledger[j].type \in Changes /\ ledger[j].obj = u => j <= i
    BY <2>3, LastChange
  <2>5. i \in at
    BY <1>2, <1>3, <1>7, <2>4
  <2>6. i <= k /\ k <= i /\ i \in Nat /\ k \in Nat
    BY <1>5, <2>1, <2>2, <2>4, <2>5
  <2>7. i = k
    BY <2>6
  <2> QED BY <1>7, <2>1, <2>4, <2>7 DEF After
<1>8. ASSUME u \in DOMAIN units PROVE u \in Of(units[u])
  <2>1. PICK k \in at : ledger[k].obj = u /\ units[u] = ledger[k].type
    BY <1>4, <1>8
  <2> QED BY <1>2, <2>1 DEF Of, Objects, Written
<1> QED BY <1>6, <1>7, <1>8

\* The root and the children have rows.
LEMMA UnitsThere ==
  ASSUME HomesKept, 0 \in Of("unit"), NEW units, units = TaskUnits(ledger)
  PROVE  0 \in DOMAIN units /\ ChildrenOf(ledger) \subseteq DOMAIN units
<1>1. DOMAIN units = {ledger[i].obj : i \in Visible(ledger, Changes)}
  BY RowsDomain DEF TaskUnits
<1>2. ASSUME NEW i \in DOMAIN ledger, ledger[i].type = "unit", ledger[i].batch \in {"none", "expansion"}
      PROVE  ledger[i].obj \in DOMAIN units
  <2>1. i \in Visible(ledger, Changes)
    BY <1>2 DEF Visible, Written, Hidden, Changes
  <2> QED BY <1>1, <2>1
<1>3. 0 \in DOMAIN units
  <2>1. PICK i \in DOMAIN ledger : ledger[i].type = "unit" /\ ledger[i].obj = 0 /\ AtHome("unit", 0, ledger[i].batch)
    BY OfHome
  <2>2. ledger[i].batch = "none"
    BY <2>1 DEF AtHome
  <2> QED BY <1>2, <2>1, <2>2
<1>4. ASSUME NEW o \in ChildrenOf(ledger) PROVE o \in DOMAIN units
  <2>1. PICK i \in DOMAIN ledger : ledger[i].batch = "expansion" /\ ledger[i].type = "unit" /\ ledger[i].obj = o
    BY <1>4 DEF ChildrenOf, Positions
  <2> QED BY <1>2, <2>1
<1> QED BY <1>3, <1>4

\* A table replaced by the events of some types has the objects of these; the
\* row of one is the type of its last event.
LEMMA ReplacedRows ==
  ASSUME LedgerTyped, NEW types, NEW rows, rows = Replacing(ledger, types)
  PROVE  /\ DOMAIN rows = Objects(ledger, types)
         /\ \A o \in DOMAIN rows :
              \E i \in Written(ledger, types) :
                /\ ledger[i].obj = o /\ rows[o] = ledger[i].type
                /\ \A j \in Written(ledger, types) : ledger[j].obj = o => j <= i
<1>1. PICK at : at = Written(ledger, types)
  OBVIOUS
<1>2. rows = Rows(ledger, at) /\ at \in SUBSET DOMAIN ledger
  BY <1>1 DEF Replacing, Written
<1>3. DOMAIN rows = Objects(ledger, types)
  BY <1>1, <1>2, RowsDomain DEF Objects
<1>4. \A o \in DOMAIN rows :
        \E i \in at : /\ ledger[i].obj = o /\ rows[o] = ledger[i].type
                      /\ \A j \in at : ledger[j].obj = o => j <= i
  BY <1>2, RowOf
<1> QED BY <1>1, <1>3, <1>4

\* A ledger of whole batches, whose story is told.
Telling == LedgerInOrder /\ BatchesInOrder /\ Story

\* What the tables show of the attempts and the results.
AttemptsShown ==
  LET ended   == {n \in DOMAIN Leases(ledger) : Leases(ledger)[n] = "released"}
      results == DOMAIN CanonicalOutputs(ledger)
  IN /\ DOMAIN Decisions(ledger) \subseteq results \cap DOMAIN Invocations(ledger)
     /\ DOMAIN MergeRecords(ledger) \subseteq results
     /\ DOMAIN Reports(ledger) \subseteq DOMAIN Submissions(ledger) \cap DOMAIN AttemptRows(ledger)
     /\ DOMAIN Submissions(ledger) \subseteq DOMAIN Requests(ledger) \cap DOMAIN Leases(ledger)
     /\ \A u \in results : TaskUnits(ledger)[u] \notin {"ready", "failed", "cancelled"}
     /\ ended = DOMAIN Recoveries(ledger)
     /\ \A n \in DOMAIN AttemptRows(ledger) : AttemptRows(ledger)[n] = "ended" => n \in ended

\* An attempt has the rows of its steps, and its lease has ended exactly when it
\* was recovered.
LEMMA TellsAttempts == Telling => AttemptsShown
<1> SUFFICES ASSUME Telling PROVE AttemptsShown
  OBVIOUS
<1>1. LedgerTyped /\ HomesKept /\ AttemptsInOrder /\ LeasesInOrder /\ ResultsInOrder
  BY DEF Telling, LedgerInOrder, Story
<1>2. PICK leases, attempts, units : /\ leases = Replacing(ledger, {"leased", "released"}) /\ units = TaskUnits(ledger)
                                     /\ attempts = Replacing(ledger, {"created", "running", "ended"})
  OBVIOUS
<1>3. /\ Leases(ledger) = leases /\ AttemptRows(ledger) = attempts
      /\ DOMAIN CanonicalOutputs(ledger) = Of("bound") /\ DOMAIN Decisions(ledger) = Of("decision")
      /\ DOMAIN Invocations(ledger) = Of("invoked") /\ DOMAIN MergeRecords(ledger) = Of("merge")
      /\ DOMAIN Reports(ledger) = Of("report") /\ DOMAIN Submissions(ledger) = Of("submission")
      /\ DOMAIN Requests(ledger) = Of("request") /\ DOMAIN Recoveries(ledger) = Of("recovery")
  BY <1>1, <1>2, ReplacedRows
     DEF Leases, AttemptRows, CanonicalOutputs, Decisions, Invocations, MergeRecords, Reports, Submissions, Requests,
         Recoveries, Of
<1>4. Of("created") \subseteq DOMAIN attempts /\ Of("leased") \subseteq DOMAIN leases
  <2>1. DOMAIN attempts = Objects(ledger, {"created", "running", "ended"}) /\ DOMAIN leases = Objects(ledger, {"leased", "released"})
    BY <1>1, <1>2, ReplacedRows
  <2> QED BY <2>1 DEF Of, Objects, Written
<1>5. /\ Of("decision") \subseteq Of("bound") \cap Of("invoked") /\ Of("merge") \subseteq Of("bound")
      /\ Of("report") \subseteq Of("submission") \cap DOMAIN attempts
      /\ Of("submission") \subseteq Of("request") \cap DOMAIN leases
  BY <1>1, <1>4 DEF ResultsInOrder, AttemptsInOrder
<1>6. ASSUME NEW u \in Of("bound") PROVE units[u] \notin {"ready", "failed", "cancelled"}
  <2>1. State(u) \in {"processing", "completed"}
    BY <1>1 DEF ResultsInOrder
  <2>2. units[u] = State(u)
    BY <1>1, <1>2, <2>1, UnitRow
  <2> QED BY <2>1, <2>2
<1>7. ASSUME NEW n \in DOMAIN leases PROVE leases[n] = "released" <=> n \in Of("released")
  <2>1. PICK k \in Written(ledger, {"leased", "released"}) :
          /\ ledger[k].obj = n /\ leases[n] = ledger[k].type
          /\ \A j \in Written(ledger, {"leased", "released"}) : ledger[j].obj = n => j <= k
    BY <1>1, <1>2, <1>7, ReplacedRows
  <2>2. k \in DOMAIN ledger /\ ledger[k].type \in {"leased", "released"}
    BY DEF Written
  <2>3. leases[n] = "released" => n \in Of("released")
    BY <2>1, <2>2 DEF Of, Objects, Written
  <2>4. ASSUME n \in Of("released"), ledger[k].type = "leased" PROVE FALSE
    <3>1. PICK i \in Written(ledger, {"released"}) : ledger[i].obj = n
      BY <2>4 DEF Of, Objects
    <3>2. i \in Written(ledger, {"leased", "released"}) /\ k \in Written(ledger, {"leased"})
      BY <2>2, <2>4 DEF Written
    <3>3. i <= k /\ k < i
      BY <1>1, <2>1, <3>1, <3>2 DEF LeasesInOrder, ReleasedLast
    <3>4. i \in Nat /\ k \in Nat
      BY <1>1, <2>2, <3>2 DEF Written, LedgerTyped
    <3> QED BY <3>3, <3>4
  <2> QED BY <2>1, <2>2, <2>3, <2>4
<1>8. Of("released") \subseteq DOMAIN leases /\ Of("ended") \subseteq Of("released") /\ Of("released") = Of("recovery")
  BY <1>1, <1>4 DEF LeasesInOrder
<1>9. PICK ended : ended = {n \in DOMAIN leases : leases[n] = "released"}
  OBVIOUS
<1>10. ended = Of("recovery")
  BY <1>7, <1>8, <1>9
<1>11. ASSUME NEW n \in DOMAIN attempts, attempts[n] = "ended" PROVE n \in ended
  <2>1. PICK k \in Written(ledger, {"created", "running", "ended"}) : ledger[k].obj = n /\ attempts[n] = ledger[k].type
    BY <1>1, <1>2, <1>11, ReplacedRows
  <2>2. n \in Of("ended")
    BY <1>11, <2>1 DEF Of, Objects, Written
  <2> QED BY <1>8, <1>10, <2>2
<1> QED BY <1>2, <1>3, <1>5, <1>6, <1>9, <1>10, <1>11 DEF AttemptsShown

\* What the tables show of the graph.
GraphShown ==
  LET units   == TaskUnits(ledger)
      outputs == ExpectedOutputs(ledger)
  IN /\ DOMAIN TaskRelations(ledger) # {} => {1, 2} \subseteq DOMAIN units
     /\ DOMAIN MergePlans(ledger) = DOMAIN Proposals(ledger)
     /\ DOMAIN MergeRecords(ledger) \subseteq DOMAIN MergeLinks(ledger)
     /\ {o \in DOMAIN outputs : outputs[o] = "resolved"} = DOMAIN Resolutions(ledger)
     /\ DOMAIN Resolutions(ledger) # {} => DOMAIN MergeRecords(ledger) # {}
     /\ DOMAIN MergePlans(ledger) # {} /\ units[0] = "completed" => \A o \in DOMAIN outputs : outputs[o] = "resolved"

\* The merge of an expanded root resolves its outputs.
LEMMA TellsGraph == Telling => GraphShown
<1> SUFFICES ASSUME Telling PROVE GraphShown
  OBVIOUS
<1>1. LedgerTyped /\ HomesKept /\ AttemptsInOrder /\ UnitsInOrder /\ GraphInOrder
  BY DEF Telling, LedgerInOrder, Story
<1>2. PICK units, outputs : units = TaskUnits(ledger) /\ outputs = ExpectedOutputs(ledger)
  OBVIOUS
<1>3. /\ DOMAIN MergePlans(ledger) = Of("plan") /\ DOMAIN Proposals(ledger) = Of("proposal")
      /\ DOMAIN MergeRecords(ledger) = Of("merge") /\ DOMAIN MergeLinks(ledger) = Of("link")
      /\ DOMAIN Resolutions(ledger) = Of("resolved")
  BY <1>1, ReplacedRows DEF MergePlans, Proposals, MergeRecords, MergeLinks, Resolutions, Of
<1>4. 0 \in DOMAIN units /\ ChildrenOf(ledger) \subseteq DOMAIN units
  BY <1>1, <1>2, UnitsThere DEF UnitsInOrder
<1>5. DOMAIN TaskRelations(ledger) \subseteq Of("relation")
  <2>1. DOMAIN TaskRelations(ledger) = {ledger[i].obj : i \in Visible(ledger, {"relation"})}
    BY RowsDomain DEF TaskRelations
  <2> QED BY <2>1 DEF Visible, Of, Objects
<1>6. \A type \in {"relation", "plan"} : Of(type) # {} => Started("expansion")
  <2> SUFFICES ASSUME NEW type \in {"relation", "plan"}, NEW o \in Of(type) PROVE Started("expansion")
    OBVIOUS
  <2>1. PICK kind : AtHome(type, o, kind) /\ Started(kind)
    BY <1>1, HomeStarted
  <2> QED BY <2>1 DEF AtHome
<1>7. Of("relation") # {} => 1 \in ChildrenOf(ledger) /\ 2 \in ChildrenOf(ledger)
  BY <1>1, <1>6 DEF GraphInOrder
<1>8. ASSUME NEW u \in Of("merge") PROVE u \in Of("link")
  <2>1. PICK kind : AtHome("merge", u, kind) /\ Started(kind)
    BY <1>1, HomeStarted
  <2>2. u = 3 /\ Started("resolution")
    BY <2>1 DEF AtHome
  <2> QED BY <1>1, <2>2 DEF AttemptsInOrder, UnitsInOrder
<1>9. /\ DOMAIN outputs = ChildrenOf(ledger)
      /\ \A o \in ChildrenOf(ledger) : outputs[o] = IF o \in Of("resolved") THEN "resolved" ELSE "pending"
  BY <1>2, <1>3 DEF ExpectedOutputs, PromisedOutputs
<1>10. {o \in DOMAIN outputs : outputs[o] = "resolved"} = Of("resolved")
  <2>1. Of("resolved") \subseteq ChildrenOf(ledger)
    BY <1>1 DEF GraphInOrder
  <2> QED BY <1>9, <2>1
<1>11. ASSUME Of("plan") # {}, units[0] = "completed" PROVE \A o \in DOMAIN outputs : outputs[o] = "resolved"
  <2>1. State(0) = "completed"
    BY <1>1, <1>2, <1>4, <1>11, UnitRow
  <2>2. Started("parent")
    BY <1>1, <1>6, <1>11, <2>1 DEF UnitsInOrder
  <2>3. Of("resolved") = ChildrenOf(ledger)
    BY <1>1, <2>2 DEF GraphInOrder
  <2> QED BY <1>9, <2>3
<1>12. Of("plan") = Of("proposal") /\ (Of("resolved") # {} => Of("merge") # {})
  BY <1>1 DEF GraphInOrder
<1> QED BY <1>2, <1>3, <1>4, <1>5, <1>7, <1>8, <1>10, <1>11, <1>12 DEF GraphShown

\* What the tables show of the contributions and of what is cancelled.
EndShown ==
  LET units   == TaskUnits(ledger)
      credits == Contributions(ledger)
  IN /\ DOMAIN credits \subseteq DOMAIN units
     /\ {c \in DOMAIN credits : credits[c] = "settled"} = Entries(ledger)
     /\ Entries(ledger) # {} => units[0] = "completed" /\ DOMAIN Settlements(ledger) = {0}
     /\ \A c \in DOMAIN credits : credits[c] = "eligible" => units[0] = "completed"
     /\ \A u \in DOMAIN units : units[u] = "cancelled" => u \notin DOMAIN credits
     /\ {u \in DOMAIN units : units[u] = "cancelled"} # {} =>
          Pruned(ledger)[0] = Cardinality({u \in DOMAIN units : units[u] = "cancelled"})

\* The settlement pays once the root is completed, and what a pruning counts is
\* the child that has earned nothing.
LEMMA TellsEnd == Telling => EndShown
<1> SUFFICES ASSUME Telling PROVE EndShown
  OBVIOUS
<1>1. LedgerTyped /\ HomesKept /\ UnitsInOrder /\ GraphInOrder /\ EndInOrder /\ Earning /\ SettledLast
  BY DEF Telling, LedgerInOrder, Story, BatchesInOrder
<1>2. PICK units, credits : units = TaskUnits(ledger) /\ credits = Replacing(ledger, Credits)
  OBVIOUS
<1>3. Contributions(ledger) = credits /\ DOMAIN Settlements(ledger) = Of("settlement")
  BY <1>1, <1>2, ReplacedRows DEF Contributions, Settlements, Of
<1>4. 0 \in DOMAIN units /\ ChildrenOf(ledger) \subseteq DOMAIN units
  BY <1>1, <1>2, UnitsThere DEF UnitsInOrder
<1>5. State(0) = "completed" => units[0] = "completed"
  BY <1>1, <1>2, UnitRow
<1>6. DOMAIN credits = Of("pending") \cup Of("earned") \cup Of("eligible") \cup Of("settled")
  <2>1. DOMAIN credits = Objects(ledger, Credits)
    BY <1>1, <1>2, ReplacedRows
  <2> QED BY <2>1 DEF Credits, Of, Objects, Written
<1>7. /\ Of("pending") \subseteq {0} /\ Of("earned") \subseteq {0, 1} /\ Of("eligible") \subseteq {0}
      /\ ~Started("parent") => Of("eligible") = {}
  BY CreditHomes DEF Telling
<1>8. DOMAIN credits \subseteq {0, 1} /\ (1 \in DOMAIN credits => Complete("expansion"))
  BY <1>1, <1>6, <1>7 DEF Earning
<1>9. DOMAIN credits \subseteq DOMAIN units
  <2>1. 1 \in DOMAIN credits => 1 \in ChildrenOf(ledger)
    BY <1>1, <1>8 DEF Complete, Started, GraphInOrder
  <2> QED BY <1>4, <1>8, <2>1
<1>10. ASSUME NEW c \in DOMAIN credits
       PROVE  \E k \in DOMAIN ledger :
                /\ ledger[k].type \in Credits /\ ledger[k].obj = c /\ credits[c] = ledger[k].type
                /\ \A j \in Written(ledger, Credits) : ledger[j].obj = c => j <= k
  <2>1. PICK k \in Written(ledger, Credits) :
          /\ ledger[k].obj = c /\ credits[c] = ledger[k].type
          /\ \A j \in Written(ledger, Credits) : ledger[j].obj = c => j <= k
    BY <1>1, <1>2, <1>10, ReplacedRows
  <2> QED BY <2>1 DEF Written
<1>11. Entries(ledger) = Of("settled")
  <2>1. ASSUME NEW c \in Of("settled") PROVE c \in Entries(ledger)
    <3>1. PICK i \in DOMAIN ledger : ledger[i].type = "settled" /\ ledger[i].obj = c /\ AtHome("settled", c, ledger[i].batch)
      BY <1>1, OfHome
    <3>2. i \in Positions(ledger, "settlement")
      BY <3>1 DEF AtHome, Positions
    <3> QED BY <3>1, <3>2 DEF Entries, Of
  <2> QED BY <2>1 DEF Entries, Of
<1>12. ASSUME NEW c \in DOMAIN credits PROVE credits[c] = "settled" <=> c \in Of("settled")
  <2>1. PICK k \in DOMAIN ledger :
          /\ ledger[k].type \in Credits /\ ledger[k].obj = c /\ credits[c] = ledger[k].type
          /\ \A j \in Written(ledger, Credits) : ledger[j].obj = c => j <= k
    BY <1>10
  <2>2. credits[c] = "settled" => c \in Of("settled")
    BY <2>1 DEF Of, Objects, Written
  <2>3. ASSUME c \in Of("settled") PROVE credits[c] = "settled"
    <3>1. PICK i \in DOMAIN ledger : ledger[i].type = "settled" /\ ledger[i].obj = c
      BY <2>3 DEF Of, Objects, Written
    <3>2. i \in Written(ledger, Credits) /\ k \in Written(ledger, Credits)
      BY <2>1, <3>1 DEF Written, Credits
    <3>3. i <= k /\ k <= i
      BY <1>1, <2>1, <3>1, <3>2 DEF SettledLast
    <3>4. i \in Nat /\ k \in Nat
      BY <1>1, <2>1, <3>1 DEF LedgerTyped
    <3>5. i = k
      BY <3>3, <3>4
    <3> QED BY <2>1, <3>1, <3>5
  <2> QED BY <2>2, <2>3
<1>13. {c \in DOMAIN credits : credits[c] = "settled"} = Entries(ledger)
  BY <1>6, <1>11, <1>12
<1>14. ASSUME Of("settled") # {} PROVE units[0] = "completed" /\ Of("settlement") = {0}
  <2>1. Started("settlement")
    BY <1>14, CreditHomes DEF Telling
  <2>2. Of("settlement") \subseteq {0}
    BY <1>1, OfHome DEF AtHome
  <2>3. State(0) = "completed" /\ 0 \in Of("settlement")
    BY <1>1, <2>1 DEF UnitsInOrder, EndInOrder
  <2> QED BY <1>5, <2>2, <2>3
<1>15. ASSUME NEW c \in DOMAIN credits, credits[c] = "eligible" PROVE units[0] = "completed"
  <2>1. c \in Of("eligible")
    BY <1>10, <1>15 DEF Of, Objects, Written
  <2>2. Started("parent")
    BY <1>7, <2>1
  <2> QED BY <1>1, <1>5, <2>2 DEF UnitsInOrder
<1>16. ASSUME NEW u \in DOMAIN units, units[u] = "cancelled" PROVE u = 2 /\ Started("pruning")
  <2>1. u \in Of("cancelled")
    BY <1>1, <1>2, <1>16, UnitRow
  <2>2. PICK kind : AtHome("cancelled", u, kind) /\ Started(kind)
    BY <1>1, <2>1, HomeStarted
  <2>3. Started("pruning")
    BY <2>2 DEF AtHome
  <2> QED BY <1>1, <2>1, <2>3 DEF EndInOrder
<1>17. \A u \in DOMAIN units : units[u] = "cancelled" => u \notin DOMAIN credits
  BY <1>8, <1>16
<1>18. PICK gone : gone = {u \in DOMAIN units : units[u] = "cancelled"}
  OBVIOUS
<1>19. ASSUME gone # {} PROVE Pruned(ledger)[0] = Cardinality(gone)
  <2>1. Started("pruning") /\ gone \subseteq {2}
    BY <1>16, <1>18, <1>19
  <2>2. 0 \in Of("pruned") /\ Cardinality(Positions(ledger, "pruning")) = 2
    BY <1>1, <2>1 DEF EndInOrder
  <2>3. gone = {2}
    BY <1>19, <2>1
  <2>4. Cardinality(gone) = 1
    BY <2>3, FS_Singleton
  <2>5. Pruned(ledger)[0] = Cardinality(Positions(ledger, "pruning")) - 1
    BY <2>2 DEF Pruned, Of
  <2> QED BY <2>2, <2>4, <2>5
<1> QED BY <1>2, <1>3, <1>9, <1>11, <1>13, <1>14, <1>15, <1>17, <1>18, <1>19 DEF EndShown

\* A rebuild that has committed shows tables that tell one story, whatever was
\* written before and however often a rebuild or a writer has died: what a row
\* names is there, outputs, contributions and leases end exactly with what ends
\* them (storage/sqlite_index.py:47, 2238).
THEOREM IndexTablesAgree == IndexSpec => []TablesAgree
<1>1. IndexInit => IndexTold
  BY ToldBegins
<1>2. IndexTold /\ [IndexNext]_indexVars => IndexTold'
  BY ToldStep
<1>3. ASSUME IndexTold PROVE TablesAgree
  <2> SUFFICES ASSUME outcome = "built", built = Len(ledger) PROVE TablesAgree
    BY DEF TablesAgree
  <2>1. Shown = ledger
    <3>1. LedgerTyped
      BY <1>3 DEF IndexTold, IndexOrdered, IndexInOrder, LedgerInOrder
    <3> QED BY <3>1 DEF Shown, LedgerTyped
  <2>2. Telling
    <3>1. Whole
      BY <1>3, AcceptedWhole DEF IndexTold, BuiltAccepted
    <3> QED BY <1>3, <3>1 DEF Telling, IndexTold, IndexOrdered, IndexInOrder, StoryTold
  <2>3. AttemptsShown /\ GraphShown /\ EndShown
    BY <2>2, TellsAttempts, TellsGraph, TellsEnd
  <2> QED BY <2>1, <2>3 DEF TablesAgree, AttemptsShown, GraphShown, EndShown
<1>4. IndexTold => TablesAgree
  BY <1>3
<1> QED BY <1>1, <1>2, <1>4, PTL DEF IndexSpec
=============================================================================
