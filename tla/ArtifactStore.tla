--------------------------- MODULE ArtifactStore ---------------------------
(***************************************************************************)
(* One artifact id of src/src/tokenshare/storage/artifacts.py: its data,   *)
(* its manifest and the commit marker of each, at the level of the file    *)
(* operations, with any number of writers that may crash and save again.   *)
(*                                                                         *)
(* A save commits the data and then the manifest, each by the same steps:  *)
(* look for the target, write a temporary, rename it, look for the marker, *)
(* rename a marker, remove the temporaries of the target.  The manifest    *)
(* holds the whole reference, created_at included.                         *)
(*                                                                         *)
(* A crash stops a process; what it has renamed stays.  overlapped and     *)
(* clashed are history: two saves, or two saves of different data, were    *)
(* under way at a time.                                                    *)
(***************************************************************************)
EXTENDS Integers, FiniteSets

CONSTANTS
  Writers,    \* processes or threads that save this artifact id
  Contents,   \* the bytes they may save, by their hash
  Instants,   \* the created_at they may give
  MaxSaves,   \* bound of the calls of save_bytes
  Absent

Targets == {"data", "manifest"}
Refs    == [content : Contents, at : Instants]
Steps   == {"idle", "check", "look", "write", "rename", "mark", "markRename", "clean", "failed"}

\* Nothing is none of the data and none of the references.
StoreAssumption == Absent \notin Contents /\ Absent \notin Refs /\ MaxSaves \in Nat

VARIABLES
  file,      \* target -> what it holds
  marker,    \* target -> what its commit marker vouches for
  temps,     \* temporaries of targets: <<writer, target>>
  step,      \* writer -> its next step
  request,   \* writer -> the reference it saves
  target,    \* writer -> the target it commits
  returned,  \* references returned by save_bytes
  saves,     \* calls so far
  overlapped, clashed

writerVars == <<step, request, target>>
history    == <<returned, saves, overlapped, clashed>>
storeVars == <<file, marker, temps, writerVars, history>>

Value(w) == IF target[w] = "data" THEN request[w].content ELSE request[w]

Saving(w) == step[w] \notin {"idle", "failed"}

Proceed(w, s) == step' = [step EXCEPT ![w] = s]

StoreInit ==
  /\ file = [t \in Targets |-> Absent] /\ marker = [t \in Targets |-> Absent]
  /\ temps = {} /\ returned = {} /\ saves = 0
  /\ step = [w \in Writers |-> "idle"]
  /\ request = [w \in Writers |-> Absent]
  /\ target = [w \in Writers |-> "data"]
  /\ overlapped = FALSE /\ clashed = FALSE

Begin(w, ref) ==
  /\ ~Saving(w)
  /\ saves < MaxSaves
  /\ saves' = saves + 1
  /\ Proceed(w, "check")
  /\ request' = [request EXCEPT ![w] = ref]
  /\ target' = [target EXCEPT ![w] = "data"]
  /\ overlapped' = (overlapped \/ \E v \in Writers : Saving(v))
  /\ clashed' = (clashed \/ \E v \in Writers : Saving(v) /\ request[v].content # ref.content)
  /\ UNCHANGED <<file, marker, temps, returned>>

\* save_bytes refuses other data under the same id.
Check(w) ==
  /\ step[w] = "check"
  /\ Proceed(w, IF file["data"] \in {Absent, request[w].content} THEN "look" ELSE "failed")
  /\ UNCHANGED <<file, marker, temps, request, target, history>>

\* Mutant: a target that exists is taken as committed.
LookNoRepair(w) ==
  /\ step[w] = "look"
  /\ \/ file[target[w]] = Absent /\ Proceed(w, "write")
     \/ file[target[w]] = Value(w) /\ Proceed(w, "clean")
     \/ file[target[w]] \notin {Absent, Value(w)} /\ Proceed(w, "failed")
  /\ UNCHANGED <<file, marker, temps, request, target, history>>

\* Mutant: a target with other content is written again.
LookOverwriting(w) ==
  /\ step[w] = "look"
  /\ IF file[target[w]] = Value(w) THEN Proceed(w, "mark") ELSE Proceed(w, "write")
  /\ UNCHANGED <<file, marker, temps, request, target, history>>

\* Mutant: a target that exists is always refused.
LookExclusive(w) ==
  /\ step[w] = "look"
  /\ IF file[target[w]] = Absent THEN Proceed(w, "write") ELSE Proceed(w, "failed")
  /\ UNCHANGED <<file, marker, temps, request, target, history>>

\* _commit_bytes: a target that exists must hold the same content, and may
\* still want its marker.
Look(w) ==
  /\ step[w] = "look"
  /\ \/ file[target[w]] = Absent /\ Proceed(w, "write")
     \/ file[target[w]] = Value(w) /\ Proceed(w, "mark")
     \/ file[target[w]] \notin {Absent, Value(w)} /\ Proceed(w, "failed")
  /\ UNCHANGED <<file, marker, temps, request, target, history>>

WriteTemp(w) ==
  /\ step[w] = "write"
  /\ Proceed(w, "rename")
  /\ temps' = temps \cup {<<w, target[w]>>}
  /\ UNCHANGED <<file, marker, request, target, history>>

\* os.replace overwrites whatever is there by now, and raises when another
\* writer has removed the temporary.
Rename(w) ==
  /\ step[w] = "rename"
  /\ IF <<w, target[w]>> \in temps
       THEN /\ file' = [file EXCEPT ![target[w]] = Value(w)]
            /\ Proceed(w, "mark")
       ELSE UNCHANGED file /\ Proceed(w, "failed")
  /\ temps' = temps \ {<<w, target[w]>>}
  /\ UNCHANGED <<marker, request, target, history>>

\* _ensure_commit_marker: the marker that exists must be the same.
Mark(w) ==
  /\ step[w] = "mark"
  /\ \/ marker[target[w]] = Absent /\ Proceed(w, "markRename")
     \/ marker[target[w]] = Value(w) /\ Proceed(w, "clean")
     \/ marker[target[w]] \notin {Absent, Value(w)} /\ Proceed(w, "failed")
  /\ UNCHANGED <<file, marker, temps, request, target, history>>

MarkRename(w) ==
  /\ step[w] = "markRename"
  /\ marker' = [marker EXCEPT ![target[w]] = Value(w)]
  /\ Proceed(w, "clean")
  /\ UNCHANGED <<file, temps, request, target, history>>

\* _cleanup_stale_temps removes every temporary of the target, those of
\* running writers too.  After the data comes the manifest.
Clean(w) ==
  /\ step[w] = "clean"
  /\ temps' = temps \ (Writers \X {target[w]})
  /\ IF target[w] = "data"
       THEN Proceed(w, "look") /\ target' = [target EXCEPT ![w] = "manifest"] /\ UNCHANGED returned
       ELSE Proceed(w, "idle") /\ returned' = returned \cup {request[w]} /\ UNCHANGED target
  /\ UNCHANGED <<file, marker, request, saves, overlapped, clashed>>

CrashSave(w) ==
  /\ Saving(w)
  /\ Proceed(w, "idle")
  /\ UNCHANGED <<file, marker, temps, request, target, history>>

StoreNext == \E w \in Writers :
  \/ \E ref \in Refs : Begin(w, ref)
  \/ Check(w) \/ Look(w) \/ WriteTemp(w) \/ Rename(w) \/ Mark(w) \/ MarkRename(w) \/ Clean(w)
  \/ CrashSave(w)

StoreSpec == StoreInit /\ [][StoreNext]_storeVars

\* verify: the data is what the reference says.
Verifies(ref) == file["data"] = ref.content

\* load_artifact_ref returns this reference.
Loads(ref) ==
  /\ file["manifest"] = ref /\ marker["manifest"] = ref
  /\ Verifies(ref) /\ marker["data"] = ref.content

-----------------------------------------------------------------------------

\* Files and markers hold nothing or something a writer has asked to save.
StoreTypes ==
  /\ DOMAIN file = Targets /\ DOMAIN marker = Targets
  /\ file["data"] \in Contents \cup {Absent} /\ marker["data"] \in Contents \cup {Absent}
  /\ file["manifest"] \in Refs \cup {Absent} /\ marker["manifest"] \in Refs \cup {Absent}
  /\ temps \subseteq Writers \X Targets
  /\ step \in [Writers -> Steps] /\ target \in [Writers -> Targets]
  /\ request \in [Writers -> Refs \cup {Absent}]
  /\ returned \subseteq Refs /\ saves \in 0..MaxSaves
  /\ overlapped \in BOOLEAN /\ clashed \in BOOLEAN

\* A reference that save_bytes has returned verifies for ever, whatever
\* crashes and retries, as long as no two saves of different data overlap, and
\* it is the one that loads as long as no two saves overlap at all
\* (storage/artifacts.py:44, "we fail instead of silently overwriting").
SavedStays ==
  \A ref \in returned :
    /\ ~clashed => Verifies(ref) /\ marker["data"] = ref.content
    /\ ~overlapped => Loads(ref)

\* The commit order of storage/artifacts.py:181: a committed manifest never
\* stands without committed data, also for writers that overlap; without a
\* clash it is the data the manifest describes.
ManifestComesLast ==
  marker["manifest"] # Absent =>
    /\ file["manifest"] # Absent /\ file["data"] # Absent /\ marker["data"] # Absent
    /\ ~clashed => marker["data"] = file["data"] /\ file["data"] = marker["manifest"].content

\* After any crashes a save is refused only because the id already has other
\* data or another created_at: what a crash left behind never stands in the
\* way of the same save (storage/artifacts.py:189, "已 rename 对象可补 marker").
FailsOnlyOnConflict ==
  \A w \in Writers :
    step[w] = "failed" /\ ~overlapped =>
      \/ file["data"] # request[w].content
      \/ file["manifest"] \notin {Absent, request[w]}
=============================================================================
