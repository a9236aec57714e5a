------------------------------ MODULE KeyedLog ------------------------------
(***************************************************************************)
(* What the event ledger promises its callers: a log that only grows, one  *)
(* entry per idempotency key, and whatever a caller was told is recorded   *)
(* stays where it is.  A batch is NOT one entry: this is the part of the   *)
(* promise src/src/tokenshare/storage/events.py keeps across crashes.      *)
(***************************************************************************)
EXTENDS Integers, Sequences

CONSTANT Entries      \* records with a field "key"

VARIABLES
  log,                \* the entries recorded, oldest first
  told                \* <<position, entry>> pairs callers were told of

vars == <<log, told>>

Init == log = <<>> /\ told = {}

\* A new key is recorded at the end.
Record(e) ==
  /\ \A i \in DOMAIN log : log[i].key # e.key
  /\ log' = Append(log, e)
  /\ UNCHANGED told

\* A caller learns of entries that are in the log.
Tell ==
  /\ told' \in SUBSET {<<i, log[i]>> : i \in DOMAIN log}
  /\ told \subseteq told'
  /\ UNCHANGED log

Next == Tell \/ \E e \in Entries : Record(e)
Spec == Init /\ [][Next]_vars
=============================================================================
