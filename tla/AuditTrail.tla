------------------------------ MODULE AuditTrail ------------------------------
(***************************************************************************)
(* What the audit ledger of backend/app/engine/audit.py promises to those  *)
(* who record events in it: the events of every correlation id stand in    *)
(* the order in which they were recorded (reconstruct_lifecycle), and one  *)
(* whose record_event returned is still there when the process starts      *)
(* again, as long as every line reached the file in full.  AuditLedger     *)
(* keeps this promise; OrderDesk relies on it.                             *)
(***************************************************************************)
EXTENDS Integers, Sequences, SequencesExt

CONSTANTS Cids,   \* correlation ids
          Kinds   \* event types

VARIABLES trail,    \* the events of every correlation id
          settled,  \* how many of them record_event returned for
          sound     \* has every line reached the file in full

trailVars == <<trail, settled, sound>>

TrailInit ==
    /\ trail = [c \in Cids |-> << >>]
    /\ settled = [c \in Cids |-> 0]
    /\ sound = TRUE

MayTurnUnsound == sound' => sound

Recorded(c, kind) ==
    /\ trail' = [trail EXCEPT ![c] = Append(@, kind)]
    /\ UNCHANGED <<settled, sound>>

Returned(c) ==
    /\ settled' = [settled EXCEPT ![c] = Len(trail[c])]
    /\ MayTurnUnsound
    /\ UNCHANGED trail

(* A new process knows what the file tells it. *)
Reloaded ==
    /\ MayTurnUnsound
    /\ sound => \A c \in Cids : /\ IsPrefix(trail'[c], trail[c])
                                /\ settled[c] <= Len(trail'[c])
    /\ settled' = [c \in Cids |-> Len(trail'[c])]

TrailNext ==
    \/ \E c \in Cids : Returned(c) \/ \E kind \in Kinds : Recorded(c, kind)
    \/ Reloaded

TrailSpec == TrailInit /\ [][TrailNext]_trailVars
================================================================================
