-------------------------- MODULE WarehouseCatalog --------------------------
(***************************************************************************)
(* What the warehouse promises its readers, without files, crashes or      *)
(* pointers: one catalog of partitions that publishing only adds to or     *)
(* supersedes, and that a rollback sets back to a version built earlier.   *)
(***************************************************************************)
CONSTANTS Paths, Digests, Versions

VARIABLES
  catalog,      \* path -> [digest, source] of what a reader finds
  candidates,   \* the complete versions a rollback may choose from
  restoring     \* whether a rollback is under way

Entries == [digest : Digests, source : Versions]
Additions == UNION {[P -> Entries] : P \in (SUBSET Paths) \ {{}}}

\* The entries of `new` with those of `old` it does not supersede.
Over(new, old) ==
  [p \in DOMAIN new \cup DOMAIN old |-> IF p \in DOMAIN new THEN new[p] ELSE old[p]]

Init ==
  /\ catalog = [p \in {} |-> {}]
  /\ candidates = {}
  /\ restoring = FALSE

(* A version is complete before it is current: a publisher that stops here *)
(* leaves a candidate nobody sees.                                         *)
Prepare(new) ==
  /\ candidates' = candidates \cup {Over(new, catalog)}
  /\ UNCHANGED <<catalog, restoring>>

Append(new) ==
  /\ ~restoring
  /\ catalog' = Over(new, catalog)
  /\ UNCHANGED <<candidates, restoring>>

AskRestore ==
  /\ restoring' = ~restoring
  /\ UNCHANGED <<catalog, candidates>>

Restore ==
  /\ restoring /\ restoring' = FALSE
  /\ catalog' \in candidates
  /\ UNCHANGED candidates

Next ==
  \/ \E new \in Additions : Prepare(new) \/ Append(new)
  \/ AskRestore
  \/ Restore

Spec == Init /\ [][Next]_<<catalog, candidates, restoring>>
=============================================================================
