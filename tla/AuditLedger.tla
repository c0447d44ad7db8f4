------------------------------ MODULE AuditLedger ------------------------------
(***************************************************************************)
(* backend/app/engine/audit.py: the hash-chained ledger of trading events. *)
(* One process keeps it in memory and appends every event as a line to a   *)
(* file, which it reads back when it starts.  The endpoints that record    *)
(* events run on a thread pool and the ledger has no lock, so record_event *)
(* is three steps: it reads the number of events and the hash of the last  *)
(* one, appends the event in memory, and writes the line.  A failed write  *)
(* is logged and forgotten; one cut short, by a full disk or by the end of *)
(* the process, leaves a line that is torn, or whole but for its line break.*)
(*                                                                         *)
(* A thread stands for the correlation id it writes under.  A hash is the  *)
(* number of the record_event call that computed it: two events never      *)
(* share one.                                                              *)
(***************************************************************************)
EXTENDS Integers, Sequences, SequencesExt

CONSTANTS Writers,      \* threads
          Kinds,        \* event types
          MaxEvents,    \* bound: record_event calls
          MaxRestarts   \* bound: ends of the process

ASSUME BoundsAssumption == MaxEvents \in Nat /\ MaxRestarts \in Nat

VARIABLES memory,     \* _events
          disk,       \* the lines of the file
          recording,  \* the record_event call of every thread, if it is in one
          hashes,     \* hashes given out so far, by any process
          unsaved,    \* has a write failed (history)
          overlapped, \* has one call read the tail while another was at work (history)
          restarts    \* ends of the process so far

vars == <<memory, disk, recording, hashes, unsaved, overlapped, restarts>>

Genesis == 0
Event == [kind: Kinds, cid: Writers, seq: Nat, prev: Nat, hash: Nat]
Unreadable == [kind |-> "unreadable"]
Line == [event: Event \union {Unreadable}, ended: BOOLEAN]

Idle == [stage |-> "idle"]

Init ==
    /\ memory = << >>
    /\ disk = << >>
    /\ recording = [w \in Writers |-> Idle]
    /\ hashes = Genesis
    /\ unsaved = FALSE
    /\ overlapped = FALSE
    /\ restarts = 0

TailHash == IF memory = << >> THEN Genesis ELSE Last(memory).hash

(* Lines 165-177: the new event, linked to the tail it found. *)
BeginRecord(w, kind) ==
    /\ recording[w] = Idle
    /\ hashes < MaxEvents
    /\ recording' = [recording EXCEPT ![w] =
           [stage |-> "hashed",
            event |-> [kind |-> kind, cid |-> w, seq |-> Len(memory),
                       prev |-> TailHash, hash |-> hashes + 1]]]
    /\ hashes' = hashes + 1
    /\ overlapped' = (overlapped \/ \E v \in Writers : recording[v] # Idle)
    /\ UNCHANGED <<memory, disk, unsaved, restarts>>

(* Line 189. *)
AppendEvent(w) ==
    /\ recording[w].stage = "hashed"
    /\ memory' = Append(memory, recording[w].event)
    /\ recording' = [recording EXCEPT ![w].stage = "appended"]
    /\ UNCHANGED <<disk, hashes, unsaved, overlapped, restarts>>

(* For the checks of the properties: the file opened for writing anew. *)
Written_Truncates(event, ended) == <<[event |-> event, ended |-> ended]>>

(* A line written after one without a line break becomes part of it, and   *)
(* the two together are no JSON value.                                     *)
Written(event, ended) ==
    IF disk # << >> /\ ~Last(disk).ended
    THEN Append(Front(disk), [event |-> Unreadable, ended |-> ended])
    ELSE Append(disk, [event |-> event, ended |-> ended])

(* For the checks of the properties: a line left in a buffer. *)
Persist_Buffered(w) ==
    /\ recording[w].stage = "appended"
    /\ recording' = [recording EXCEPT ![w] = Idle]
    /\ UNCHANGED <<memory, disk, hashes, unsaved, overlapped, restarts>>

(* Lines 191-205: the call returns whether or not the line was written. *)
CutShort(w) == {Written(e, FALSE) : e \in {recording[w].event, Unreadable}}
Persist(w) ==
    /\ recording[w].stage = "appended"
    /\ recording' = [recording EXCEPT ![w] = Idle]
    /\ \/ disk' = Written(recording[w].event, TRUE) /\ UNCHANGED unsaved
       \/ disk' \in {disk} \union CutShort(w) /\ unsaved' = TRUE
    /\ UNCHANGED <<memory, hashes, overlapped, restarts>>

(* _load_from_disk: the events up to the first line it cannot parse. *)
Readable(lines) == {n \in 0..Len(lines) : \A i \in 1..n : lines[i].event # Unreadable}

(* For the checks of the properties: lines taken without parsing them, and *)
(* bad lines passed over.                                                  *)
Load_Everything(lines) == [i \in 1..Len(lines) |-> lines[i].event]
Load_PassingOver(lines) ==
    LET good == SelectSeq(lines, LAMBDA line : line.event # Unreadable)
    IN  [i \in 1..Len(good) |-> good[i].event]

Load(lines) ==
    LET n == CHOOSE m \in Readable(lines) : \A k \in Readable(lines) : k <= m
    IN  [i \in 1..n |-> lines[i].event]

(* The process ends, perhaps in the middle of a write, and a new one       *)
(* starts: what memory holds is what the file still says.                  *)
Restarted(lines) ==
    /\ restarts < MaxRestarts
    /\ restarts' = restarts + 1
    /\ disk' = lines
    /\ memory' = Load(lines)
    /\ recording' = [w \in Writers |-> Idle]
    /\ UNCHANGED <<hashes, unsaved, overlapped>>

Restart ==
    \/ Restarted(disk)
    \/ \E w \in Writers :
          /\ recording[w].stage = "appended"
          /\ \E lines \in CutShort(w) : Restarted(lines)

Next ==
    \/ \E w \in Writers : \/ \E kind \in Kinds : BeginRecord(w, kind)
                          \/ AppendEvent(w)
                          \/ Persist(w)
    \/ Restart

Spec == Init /\ [][Next]_vars

(* verify_chain: every event has its place and names its predecessor. *)
Verifies(events) ==
    \A i \in 1..Len(events) :
        /\ events[i].seq = i - 1
        /\ events[i].prev = IF i = 1 THEN Genesis ELSE events[i - 1].hash

(***************************************************************************)
(* Properties.                                                             *)
(***************************************************************************)
TypeOK ==
    /\ memory \in Seq(Event)
    /\ disk \in Seq(Line)
    /\ \A w \in Writers : \/ recording[w] = Idle
                          \/ /\ recording[w].stage \in {"hashed", "appended"}
                             /\ recording[w].event \in Event
    /\ hashes \in 0..MaxEvents /\ restarts \in 0..MaxRestarts
    /\ unsaved \in BOOLEAN /\ overlapped \in BOOLEAN

(* "Any modification, insertion, deletion, or reordering causes            *)
(* verify_chain() to fail" (audit.py:5); it should fail for nothing else.  *)
(* As long as no two calls overlapped and no write failed, the ledger in   *)
(* memory verifies, however often the process was stopped in mid-write.    *)
ChainVerifies == ~overlapped /\ ~unsaved => Verifies(memory)

(* Whatever failed before, what a restart would read back is never cut     *)
(* short by a later write or a later restart, a last line without its line *)
(* break aside: the next event written makes that one unreadable.          *)
LoadableNeverShrinks ==
    [][\/ IsPrefix(Load(disk), Load(disk'))
       \/ ~Last(disk).ended /\ Load(disk') = Front(Load(disk))]_disk

(* The promise of AuditTrail, which callers rely on, is kept by any number *)
(* of threads, failed writes and restarts.                                 *)
KindsIn(events, w) ==
    LET kinds[n \in 0..Len(events)] ==
            IF n = 0 THEN << >>
            ELSE IF events[n].cid = w THEN Append(kinds[n - 1], events[n].kind)
                 ELSE kinds[n - 1]
    IN  kinds[Len(events)]
KindsOf(w) == KindsIn(memory, w)
Unreturned(w) == IF recording[w].stage = "appended" THEN 1 ELSE 0
FileIsWhole == ~unsaved /\ \A i \in 1..Len(disk) : disk[i].ended /\ disk[i].event # Unreadable

Trail == INSTANCE AuditTrail WITH
    Cids <- Writers,
    trail <- [w \in Writers |-> KindsOf(w)],
    settled <- [w \in Writers |-> Len(KindsOf(w)) - Unreturned(w)],
    sound <- FileIsWhole

KeepsTrail == Trail!TrailSpec
================================================================================
