--------------------------- MODULE AuditLedgerProofs ---------------------------
(***************************************************************************)
(* The chain of AuditLedger verifies for any number of writers, events and *)
(* restarts, as long as no two calls overlapped and no write failed.       *)
(*                                                                         *)
(* That memory verifies is not inductive: a restart takes memory from the  *)
(* file.  What is added is that the lines which the file can be read up to *)
(* are the first events of memory, and that a file which can be read to its*)
(* end holds all of them but the one being written.  A torn line may hide  *)
(* later events from the next process, and then it hides all of them.      *)
(*                                                                         *)
(* The ledger also keeps the promise of AuditTrail, with overlapping calls *)
(* too.  Then file and memory no longer agree in the order of their events,*)
(* but in the order of those of each writer, which FileTells says.         *)
(***************************************************************************)
EXTENDS AuditLedger, SequenceTheorems, FiniteSetTheorems, WellFoundedInduction, TLAPS

Clean == ~overlapped /\ ~unsaved

Call == [stage: {"hashed", "appended"}, event: Event]

Types ==
    /\ memory \in Seq(Event)
    /\ disk \in Seq(Line)
    /\ recording \in [Writers -> Call \union {Idle}]
    /\ hashes \in Nat
    /\ overlapped \in BOOLEAN /\ unsaved \in BOOLEAN

ReadableTo(lines, i) == \A k \in 1..i : lines[k].event # Unreadable

(* Whatever can be read of these lines is the beginning of memory. *)
Reads(lines) ==
    \A i \in 1..Len(lines) :
        ReadableTo(lines, i) => i <= Len(memory) /\ memory[i] = lines[i].event

Appending(w) == recording[w].stage = "appended"

OneCall == \A v, w \in Writers : recording[v] # Idle /\ recording[w] # Idle => v = w

Linked ==
    \A w \in Writers : recording[w].stage = "hashed" =>
        /\ recording[w].event.seq = Len(memory)
        /\ recording[w].event.prev = TailHash

Appended ==
    \A w \in Writers : Appending(w) =>
        /\ memory # << >>
        /\ memory[Len(memory)] = recording[w].event
        /\ ReadableTo(disk, Len(disk)) => Len(disk) = Len(memory) - 1

Complete ==
    (\A w \in Writers : ~Appending(w)) =>
        (ReadableTo(disk, Len(disk)) => Len(disk) = Len(memory))

ChainInv ==
    Types /\ (Clean => Verifies(memory) /\ OneCall /\ Linked /\ Appended /\ Reads(disk) /\ Complete)

(* Load takes the longest beginning that can be read. *)
LEMMA LoadReads ==
  ASSUME NEW lines \in Seq(Line)
  PROVE  \E n \in 0..Len(lines) :
            /\ Load(lines) = [i \in 1..n |-> lines[i].event]
            /\ ReadableTo(lines, n)
            /\ \A m \in 0..Len(lines) : ReadableTo(lines, m) => m <= n
<1> DEFINE R == Readable(lines)
           all == 1..Len(lines)
           left == {(m + 1)..Len(lines) : m \in R}
<1>1. Len(lines) \in Nat /\ R \subseteq 0..Len(lines) /\ 0 \in R
  BY DEF Readable
<1>2. IsWellFoundedOn(StrictSubsetOrdering(all), FiniteSubsetsOf(all))
  BY FS_StrictSubsetOrderingWellFounded
<1>3. left \subseteq SUBSET all /\ left # {}
  BY <1>1
<1>4. left \subseteq FiniteSubsetsOf(all)
  <2>1. IsFiniteSet(all)
    BY <1>1, FS_Interval
  <2>2. FiniteSubsetsOf(all) = SUBSET all
    BY <2>1, FS_FiniteSubsetsOfFinite
  <2> QED
    BY <1>3, <2>2
<1>5. PICK rest \in left : \A other \in left : <<other, rest>> \notin StrictSubsetOrdering(all)
  <2> HIDE DEF left, all
  <2> QED
    BY <1>2, <1>3, <1>4, WFMin
<1>6. PICK m \in R : rest = (m + 1)..Len(lines)
  BY <1>5
<1>7. \A k \in R : k <= m
  <2> SUFFICES ASSUME NEW k \in R, m < k PROVE FALSE
    BY <1>1
  <2> DEFINE other == (k + 1)..Len(lines)
  <2>1. other \in left /\ other \in SUBSET all /\ rest \in SUBSET all
    BY <1>3, <1>5
  <2>2. other \subseteq rest
    BY <1>1, <1>6
  <2>3. other # rest
    <3>1. k \in rest /\ k \notin other
      BY <1>1, <1>6
    <3> QED
      BY <3>1
  <2> HIDE DEF other, all, left
  <2>4. <<other, rest>> \in StrictSubsetOrdering(all)
    BY <2>1, <2>2, <2>3 DEF StrictSubsetOrdering
  <2> QED
    BY <1>5, <2>1, <2>4
<1> DEFINE n == CHOOSE j \in R : \A k \in R : k <= j
<1>8. n \in R /\ \A k \in R : k <= n
  BY <1>7
<1>9. Load(lines) = [i \in 1..n |-> lines[i].event]
  BY DEF Load
<1>10. \A j \in 0..Len(lines) : j \in R <=> ReadableTo(lines, j)
  BY DEF Readable, ReadableTo
<1> HIDE DEF n, R
<1> QED
  BY <1>1, <1>8, <1>9, <1>10

LEMMA LoadTyped ==
  ASSUME NEW lines \in Seq(Line)
  PROVE  Load(lines) \in Seq(Event)
<1>1. PICK n \in 0..Len(lines) :
         Load(lines) = [i \in 1..n |-> lines[i].event] /\ ReadableTo(lines, n)
  BY LoadReads
<1>2. \A i \in 1..n : lines[i].event \in Event
  <2> TAKE i \in 1..n
  <2>1. lines[i] \in Line /\ lines[i].event # Unreadable
    BY <1>1 DEF ReadableTo
  <2> QED
    BY <2>1 DEF Line
<1>3. n \in Nat
  OBVIOUS
<1> QED
  BY <1>1, <1>2, <1>3, IsASeq

LEMMA FirstLines ==
  ASSUME NEW T, NEW s \in Seq(T), Len(s) # 0
  PROVE  LET first == SubSeq(s, 1, Len(s) - 1)
         IN  /\ first \in Seq(T) /\ Len(first) = Len(s) - 1
             /\ \A i \in 1..(Len(s) - 1) : first[i] = s[i]
<1>1. PICK n \in Nat : n = Len(s) - 1
  OBVIOUS
<1>2. SubSeq(s, 1, n) \in Seq(T)
  BY <1>1
<1>3. Len(SubSeq(s, 1, n)) = n
  BY <1>1
<1>4. \A i \in 1..n : SubSeq(s, 1, n)[i] = s[i]
  BY <1>1
<1> QED
  BY <1>1, <1>2, <1>3, <1>4

(* The line being written replaces the unended one or is put after them. *)
LEMMA WrittenLines ==
  ASSUME disk \in Seq(Line), NEW e \in Event \union {Unreadable}, NEW ended \in BOOLEAN
  PROVE  LET lines == Written(e, ended) IN
         /\ lines \in Seq(Line)
         /\ \/ /\ disk # << >> /\ ~Last(disk).ended /\ Len(lines) = Len(disk)
               /\ \A i \in 1..(Len(disk) - 1) : lines[i] = disk[i]
               /\ lines[Len(disk)].event = Unreadable
            \/ /\ Len(lines) = Len(disk) + 1
               /\ \A i \in 1..Len(disk) : lines[i] = disk[i]
               /\ lines[Len(disk) + 1].event = e
<1> DEFINE lines == Written(e, ended)
<1>1. CASE disk # << >> /\ ~Last(disk).ended
  <2> DEFINE last == [event |-> Unreadable, ended |-> ended]
             front == Front(disk)
  <2>1. lines = Append(front, last) /\ last \in Line
    BY <1>1 DEF Written, Line
  <2>2. Len(disk) \in Nat \ {0}
    BY <1>1, EmptySeq
  <2>3. \A i \in 1..(Len(disk) - 1) : disk[i] \in Line
    BY <2>2
  <2>4. front = SubSeq(disk, 1, Len(disk) - 1)
    BY DEF Front
  <2> HIDE DEF front, last
  <2>5. /\ front \in Seq(Line) /\ Len(front) = Len(disk) - 1
        /\ \A i \in 1..(Len(disk) - 1) : front[i] = disk[i]
    BY <2>2, <2>4, FirstLines
  <2>6. /\ Append(front, last) \in Seq(Line) /\ Len(Append(front, last)) = Len(disk)
        /\ \A i \in 1..(Len(disk) - 1) : Append(front, last)[i] = front[i]
        /\ Append(front, last)[Len(disk)] = last
    BY <2>1, <2>2, <2>5, AppendProperties
  <2> HIDE DEF lines
  <2>7. last.event = Unreadable
    BY DEF last
  <2> QED
    BY <1>1, <2>1, <2>5, <2>6, <2>7 DEF lines
<1>2. CASE ~(disk # << >> /\ ~Last(disk).ended)
  <2> DEFINE last == [event |-> e, ended |-> ended]
  <2>1. lines = Append(disk, last) /\ last \in Line
    BY <1>2 DEF Written, Line
  <2>2. last.event = e
    OBVIOUS
  <2> HIDE DEF last, lines
  <2>3. /\ lines \in Seq(Line) /\ Len(lines) = Len(disk) + 1
        /\ \A i \in 1..Len(disk) : lines[i] = disk[i]
        /\ lines[Len(disk) + 1] = last
    BY <2>1, AppendProperties
  <2> QED
    BY <2>2, <2>3 DEF lines
<1> QED
  BY <1>1, <1>2

(* A line written leaves the file in step with memory, in full or not. *)
LEMMA WrittenReads ==
  ASSUME Types, Appended, Reads(disk),
         NEW w \in Writers, Appending(w), recording[w].event \in Event,
         NEW e \in {recording[w].event, Unreadable}, NEW ended \in BOOLEAN
  PROVE  /\ Reads(Written(e, ended))
         /\ ReadableTo(Written(e, ended), Len(Written(e, ended)))
              => Len(Written(e, ended)) = Len(memory)
<1> DEFINE lines == Written(e, ended)
           n == Len(disk)
<1>1. n \in Nat /\ Len(memory) \in Nat /\ disk \in Seq(Line)
  BY DEF Types
<1>2. /\ lines \in Seq(Line)
      /\ \/ /\ disk # << >> /\ Len(lines) = n
            /\ \A i \in 1..(n - 1) : lines[i] = disk[i]
            /\ lines[n].event = Unreadable
         \/ /\ Len(lines) = n + 1
            /\ \A i \in 1..n : lines[i] = disk[i]
            /\ lines[n + 1].event = e
  BY <1>1, WrittenLines
<1>3. disk # << >> => n # 0
  BY <1>1, EmptySeq
<1> HIDE DEF lines
<1>4. CASE Len(lines) = n
  <2>1. n # 0 /\ lines[n].event = Unreadable /\ \A i \in 1..(n - 1) : lines[i] = disk[i]
    BY <1>1, <1>2, <1>3, <1>4
  <2>2. ~ReadableTo(lines, n)
    BY <1>1, <2>1 DEF ReadableTo
  <2>3. ASSUME NEW i \in 1..n, ReadableTo(lines, i)
        PROVE  i <= Len(memory) /\ memory[i] = lines[i].event
    <3>1. i \in 1..(n - 1)
      BY <1>1, <2>2, <2>3
    <3>2. ReadableTo(disk, i)
      BY <1>1, <2>1, <2>3, <3>1 DEF ReadableTo
    <3> QED
      BY <1>1, <2>1, <3>1, <3>2 DEF Reads
  <2> QED
    BY <1>4, <2>2, <2>3 DEF Reads, lines
<1>5. CASE Len(lines) = n + 1
  <2>1. lines[n + 1].event = e /\ \A i \in 1..n : lines[i] = disk[i]
    BY <1>1, <1>2, <1>5
  <2>2. \A i \in 1..n : ReadableTo(lines, i) <=> ReadableTo(disk, i)
    BY <1>1, <2>1 DEF ReadableTo
  <2>3. ASSUME ReadableTo(lines, n + 1)
        PROVE  n + 1 = Len(memory) /\ memory[n + 1] = lines[n + 1].event
    <3>1. ReadableTo(disk, n)
      BY <1>1, <2>1, <2>3 DEF ReadableTo
    <3>2. e # Unreadable
      BY <1>1, <2>1, <2>3 DEF ReadableTo
    <3>3. n = Len(memory) - 1 /\ memory[Len(memory)] = recording[w].event
      BY <3>1 DEF Appended
    <3> QED
      BY <1>1, <2>1, <3>2, <3>3
  <2>4. ASSUME NEW i \in 1..(n + 1), ReadableTo(lines, i)
        PROVE  i <= Len(memory) /\ memory[i] = lines[i].event
    <3>1. CASE i = n + 1
      BY <1>1, <2>3, <2>4, <3>1
    <3>2. CASE i \in 1..n
      BY <2>1, <2>2, <2>4, <3>2 DEF Reads
    <3> QED
      BY <1>1, <3>1, <3>2
  <2> QED
    BY <1>5, <2>3, <2>4 DEF Reads, lines
<1> QED
  BY <1>2, <1>4, <1>5

LEMMA InitChain == Init => ChainInv
<1> SUFFICES ASSUME Init PROVE ChainInv
  OBVIOUS
<1>1. memory = << >> /\ disk = << >> /\ Len(memory) = 0 /\ Len(disk) = 0
  BY DEF Init
<1>2. \A w \in Writers : recording[w] = Idle /\ Idle.stage = "idle"
  BY DEF Init, Idle
<1>3. Types
  BY <1>1, <1>2, EmptySeq DEF Init, Types, Genesis
<1>4. Verifies(memory) /\ Reads(disk) /\ Complete
  BY <1>1 DEF Verifies, Reads, Complete
<1>5. OneCall /\ Linked /\ Appended
  BY <1>2 DEF OneCall, Linked, Appended, Appending
<1> QED
  BY <1>3, <1>4, <1>5 DEF ChainInv

(* Memory holds one more event; the file is as it was. *)
LEMMA AppendChain ==
  ASSUME ChainInv, NEW w \in Writers, AppendEvent(w)
  PROVE  ChainInv'
<1> DEFINE event == recording[w].event
           n == Len(memory)
<1>1. Types /\ recording[w].stage = "hashed" /\ memory' = Append(memory, event)
  BY DEF ChainInv, AppendEvent
<1>2. recording[w] \in Call /\ event \in Event
  BY <1>1 DEF Types, Call, Idle
<1>3. recording' = [recording EXCEPT ![w].stage = "appended"]
  BY DEF AppendEvent
<1>4. UNCHANGED <<disk, hashes, unsaved, overlapped>>
  BY DEF AppendEvent
<1>5. /\ recording'[w] = [stage |-> "appended", event |-> event] /\ recording'[w] \in Call
      /\ \A v \in Writers \ {w} : recording'[v] = recording[v]
  BY <1>1, <1>2, <1>3 DEF Types, Call
<1>6. n \in Nat /\ memory \in Seq(Event) /\ memory' \in Seq(Event) /\ Len(memory') = n + 1
      /\ (\A i \in 1..n : memory'[i] = memory[i]) /\ memory'[n + 1] = event
  <2> HIDE DEF event
  <2> QED
    BY <1>1, <1>2, AppendProperties DEF Types
<1>7. Types'
  <2>1. recording' \in [Writers -> Call \union {Idle}]
    BY <1>1, <1>3, <1>5 DEF Types
  <2> QED
    BY <1>1, <1>4, <1>6, <2>1 DEF Types
<1>8. ASSUME Clean'
      PROVE  (Verifies(memory) /\ OneCall /\ Linked /\ Appended /\ Reads(disk) /\ Complete)'
  <2>1. Clean /\ Verifies(memory) /\ OneCall /\ Linked /\ Appended /\ Reads(disk) /\ Complete
    BY <1>4, <1>8 DEF Clean, ChainInv
  <2>2. \A v \in Writers \ {w} : recording[v] = Idle
    BY <1>1, <2>1 DEF OneCall, Idle
  <2>3. \A v \in Writers \ {w} : recording'[v] = Idle /\ Idle.stage = "idle"
    BY <1>5, <2>2 DEF Idle
  <2>4. Verifies(memory)'
    <3> SUFFICES ASSUME NEW i \in 1..(n + 1)
                 PROVE  /\ memory'[i].seq = i - 1
                        /\ memory'[i].prev = IF i = 1 THEN Genesis ELSE memory'[i - 1].hash
      BY <1>6 DEF Verifies
    <3>1. CASE i \in 1..n
      <4>1. i = 1 \/ i - 1 \in 1..n
        BY <1>6, <3>1
      <4> QED
        BY <1>6, <2>1, <3>1, <4>1 DEF Verifies
    <3>2. CASE i = n + 1
      <4>1. event.seq = n /\ event.prev = TailHash
        BY <1>1, <2>1 DEF Linked
      <4>2. TailHash = IF n = 0 THEN Genesis ELSE memory[n].hash
        BY <1>6, EmptySeq DEF TailHash, Last
      <4>3. n # 0 => memory'[n] = memory[n]
        BY <1>6
      <4> HIDE DEF event
      <4> QED
        BY <1>6, <3>2, <4>1, <4>2, <4>3
    <3> QED
      BY <1>6, <3>1, <3>2
  <2>5. OneCall'
    BY <2>3 DEF OneCall
  <2>6. Linked'
    BY <1>5, <2>3 DEF Linked
  <2>7. Complete'
    BY <1>5 DEF Complete, Appending
  <2>8. Appended'
    <3>1. \A v \in Writers : ~Appending(v)
      BY <1>1, <2>2, <2>3 DEF Appending
    <3>2. ReadableTo(disk, Len(disk)) => Len(disk) = n
      BY <2>1, <3>1 DEF Complete
    <3>3. memory' # << >>
      BY <1>6, EmptySeq
    <3>4. disk' = disk
      BY <1>4
    <3> SUFFICES ASSUME NEW v \in Writers, Appending(v)'
                 PROVE  /\ memory' # << >>
                        /\ memory'[Len(memory')] = recording'[v].event
                        /\ ReadableTo(disk, Len(disk)) => Len(disk) = Len(memory') - 1
      BY <3>4 DEF Appended, ReadableTo
    <3>5. v = w
      BY <2>3 DEF Appending
    <3> QED
      BY <1>5, <1>6, <3>2, <3>3, <3>5
  <2>9. Reads(disk)'
    <3>1. disk' = disk
      BY <1>4
    <3> SUFFICES ASSUME NEW i \in 1..Len(disk), ReadableTo(disk, i)
                 PROVE  i <= Len(memory') /\ memory'[i] = disk[i].event
      BY <3>1 DEF Reads, ReadableTo
    <3>2. i \in 1..n /\ memory[i] = disk[i].event
      BY <1>6, <2>1 DEF Reads
    <3> QED
      BY <1>6, <3>2
  <2> QED
    BY <2>4, <2>5, <2>6, <2>7, <2>8, <2>9
<1> QED
  BY <1>7, <1>8 DEF ChainInv

(* A call that begins while no other is under way links to the tail. *)
LEMMA BeginChain ==
  ASSUME ChainInv, NEW w \in Writers, NEW kind \in Kinds, BeginRecord(w, kind)
  PROVE  ChainInv'
<1> DEFINE event == [kind |-> kind, cid |-> w, seq |-> Len(memory),
                     prev |-> TailHash, hash |-> hashes + 1]
<1>1. Types /\ UNCHANGED <<memory, disk, unsaved>>
  BY DEF ChainInv, BeginRecord
<1>2. recording' = [recording EXCEPT ![w] = [stage |-> "hashed", event |-> event]]
  BY DEF BeginRecord
<1>3. TailHash \in Nat
  <2>1. memory \in Seq(Event) /\ Genesis \in Nat
    BY <1>1 DEF Types, Genesis
  <2>2. CASE memory # << >>
    <3>1. Last(memory) \in Event
      BY <2>1, <2>2, EmptySeq DEF Last
    <3> QED
      BY <2>2, <3>1 DEF TailHash, Event
  <2> QED
    BY <2>1, <2>2 DEF TailHash
<1>4. event \in Event /\ hashes' \in Nat
  BY <1>1, <1>3 DEF Types, Event, BeginRecord
<1>5. /\ event.seq = Len(memory) /\ event.prev = TailHash
      /\ recording'[w] = [stage |-> "hashed", event |-> event] /\ recording'[w] \in Call
      /\ \A v \in Writers \ {w} : recording'[v] = recording[v]
  BY <1>1, <1>2, <1>4 DEF Types, Call
<1> HIDE DEF event
<1>6. overlapped' = (overlapped \/ \E v \in Writers : recording[v] # Idle)
  BY DEF BeginRecord
<1>7. Types'
  <2>1. overlapped' \in BOOLEAN
    BY <1>6, Zenon
  <2>2. recording' \in [Writers -> Call \union {Idle}]
    BY <1>1, <1>2, <1>5 DEF Types
  <2> QED
    BY <1>1, <1>4, <2>1, <2>2 DEF Types
<1>8. ASSUME Clean'
      PROVE  (Verifies(memory) /\ OneCall /\ Linked /\ Appended /\ Reads(disk) /\ Complete)'
  <2>1. ~overlapped /\ \A v \in Writers : recording[v] = Idle
    BY <1>6, <1>8, Zenon DEF Clean
  <2>2. Verifies(memory) /\ Reads(disk) /\ Complete
    BY <1>1, <1>8, <2>1 DEF Clean, ChainInv
  <2>3. \A v \in Writers \ {w} : recording'[v] = Idle
    BY <1>5, <2>1
  <2>4. \A v \in Writers : ~Appending(v) /\ ~Appending(v)'
    BY <1>5, <2>1, <2>3 DEF Appending, Idle
  <2>5. Verifies(memory)' /\ Reads(disk)' /\ Complete'
    BY <1>1, <2>2, <2>4 DEF Verifies, Reads, ReadableTo, Complete
  <2>6. OneCall' /\ Appended'
    BY <2>3, <2>4 DEF OneCall, Appended
  <2>7. Linked'
    <3>1. TailHash' = TailHash
      BY <1>1 DEF TailHash
    <3> QED
      BY <1>1, <1>5, <2>3, <3>1 DEF Linked, Idle
  <2> QED
    BY <2>5, <2>6, <2>7
<1> QED
  BY <1>7, <1>8 DEF ChainInv

(* The call is over, its line written; a failed write ends the promise. *)
LEMMA PersistChain ==
  ASSUME ChainInv, NEW w \in Writers, Persist(w)
  PROVE  ChainInv'
<1> DEFINE event == recording[w].event
<1>1. /\ Types /\ Appending(w) /\ recording' = [recording EXCEPT ![w] = Idle]
      /\ memory' = memory /\ hashes' = hashes /\ overlapped' = overlapped
      /\ \/ disk' = Written(event, TRUE) /\ unsaved' = unsaved
         \/ disk' \in {disk} \union CutShort(w) /\ unsaved' = TRUE
  BY DEF ChainInv, Persist, Appending
<1>2. event \in Event
  BY <1>1 DEF Types, Appending, Call, Idle
<1>3. disk \in Seq(Line) /\ Written(event, TRUE) \in Seq(Line) /\ CutShort(w) \subseteq Seq(Line)
  <2>1. disk \in Seq(Line) /\ event \in Event \union {Unreadable}
    BY <1>1, <1>2 DEF Types
  <2>2. \A e \in Event \union {Unreadable} : \A ended \in BOOLEAN : Written(e, ended) \in Seq(Line)
    BY <2>1, WrittenLines
  <2>3. CutShort(w) = {Written(event, FALSE), Written(Unreadable, FALSE)}
    BY DEF CutShort
  <2> HIDE DEF event
  <2> QED
    BY <2>1, <2>2, <2>3
<1>4. recording'[w] = Idle /\ \A v \in Writers \ {w} : recording'[v] = recording[v]
  BY <1>1 DEF Types
<1>5. Types'
  <2>1. unsaved' \in BOOLEAN
    BY <1>1, Zenon DEF Types
  <2>2. disk' \in Seq(Line)
    BY <1>1, <1>3, Zenon
  <2>3. recording' \in [Writers -> Call \union {Idle}]
    BY <1>1 DEF Types
  <2> QED
    BY <1>1, <2>1, <2>2, <2>3 DEF Types
<1>6. ASSUME Clean'
      PROVE  (Verifies(memory) /\ OneCall /\ Linked /\ Appended /\ Reads(disk) /\ Complete)'
  <2>1. disk' = Written(event, TRUE) /\ Clean
    <3>1. ~overlapped' /\ ~unsaved'
      BY <1>6 DEF Clean
    <3>2. unsaved' # TRUE /\ ~overlapped
      BY <1>1, <3>1, Zenon
    <3>3. disk' = Written(event, TRUE) /\ unsaved' = unsaved
      BY <1>1, <3>2, Zenon
    <3> QED
      BY <3>1, <3>2, <3>3, Zenon DEF Clean
  <2>2. Verifies(memory) /\ OneCall /\ Linked /\ Appended /\ Reads(disk) /\ Complete
    BY <2>1 DEF ChainInv
  <2>3. \A v \in Writers : recording'[v] = Idle /\ Idle.stage = "idle"
    BY <1>1, <1>4, <2>2 DEF OneCall, Appending, Idle
  <2>4. /\ Reads(disk')
        /\ ReadableTo(disk', Len(disk')) => Len(disk') = Len(memory)
    BY <1>1, <1>2, <2>1, <2>2, WrittenReads
  <2>5. Verifies(memory)' /\ Reads(disk)' /\ Complete'
    BY <1>1, <2>2, <2>4 DEF Verifies, Reads, ReadableTo, Complete
  <2>6. OneCall' /\ Linked' /\ Appended'
    BY <2>3 DEF OneCall, Linked, Appended, Appending
  <2> QED
    BY <2>5, <2>6
<1> QED
  BY <1>5, <1>6 DEF ChainInv

(* A new process begins with the first events of the one before it. *)
LEMMA LoadedChain ==
  ASSUME Types, NEW lines \in Seq(Line), Restarted(lines),
         Clean => Verifies(memory) /\ Reads(lines)
  PROVE  ChainInv'
<1>1. PICK n \in 0..Len(lines) :
         /\ Load(lines) = [i \in 1..n |-> lines[i].event] /\ ReadableTo(lines, n)
         /\ \A m \in 0..Len(lines) : ReadableTo(lines, m) => m <= n
  BY LoadReads
<1>2. /\ disk' = lines /\ memory' = Load(lines) /\ recording' = [w \in Writers |-> Idle]
      /\ hashes' = hashes /\ unsaved' = unsaved /\ overlapped' = overlapped
  BY DEF Restarted
<1>3. memory' \in Seq(Event)
  BY <1>2, LoadTyped
<1>4. Len(memory') = n /\ n \in Nat /\ Len(lines) \in Nat
      /\ \A i \in 1..n : memory'[i] = lines[i].event
  BY <1>1, <1>2, <1>3
<1>5. Types'
  BY <1>2, <1>3 DEF Types
<1>6. \A w \in Writers : recording'[w] = Idle /\ Idle.stage = "idle"
  BY <1>2 DEF Idle
<1>7. ASSUME Clean'
      PROVE  (Verifies(memory) /\ OneCall /\ Linked /\ Appended /\ Reads(disk) /\ Complete)'
  <2>1. Verifies(memory) /\ Reads(lines)
    BY <1>2, <1>7 DEF Clean
  <2>2. n <= Len(memory) /\ \A i \in 1..n : memory[i] = lines[i].event
    <3>1. \A i \in 1..n : i \in 1..Len(lines) /\ ReadableTo(lines, i)
      BY <1>1, <1>4 DEF ReadableTo
    <3>2. \A i \in 1..n : i <= Len(memory) /\ memory[i] = lines[i].event
      BY <2>1, <3>1 DEF Reads
    <3>3. Len(memory) \in Nat
      BY DEF Types
    <3> QED
      BY <1>4, <3>2, <3>3
  <2>3. Verifies(memory)'
    <3> SUFFICES ASSUME NEW i \in 1..n
                 PROVE  /\ memory'[i].seq = i - 1
                        /\ memory'[i].prev = IF i = 1 THEN Genesis ELSE memory'[i - 1].hash
      BY <1>4 DEF Verifies
    <3>1. memory'[i] = memory[i] /\ (i # 1 => memory'[i - 1] = memory[i - 1])
      BY <1>4, <2>2
    <3>2. i \in 1..Len(memory)
      BY <1>4, <2>2 DEF Types
    <3> QED
      BY <2>1, <3>1, <3>2 DEF Verifies
  <2>4. Reads(disk)'
    <3> SUFFICES ASSUME NEW i \in 1..Len(lines), ReadableTo(lines, i)
                 PROVE  i <= Len(memory') /\ memory'[i] = lines[i].event
      BY <1>2 DEF Reads, ReadableTo
    <3>1. i \in 1..n
      BY <1>1, <1>4
    <3> QED
      BY <1>4, <3>1
  <2>5. Complete'
    <3>1. ReadableTo(lines, Len(lines)) => Len(lines) = n
      BY <1>1, <1>4
    <3> QED
      BY <1>2, <1>4, <3>1 DEF Complete, ReadableTo
  <2>6. OneCall' /\ Linked' /\ Appended'
    BY <1>6 DEF OneCall, Linked, Appended, Appending
  <2> QED
    BY <2>3, <2>4, <2>5, <2>6
<1> QED
  BY <1>5, <1>7 DEF ChainInv

LEMMA RestartChain ==
  ASSUME ChainInv, Restart
  PROVE  ChainInv'
<1>1. Types /\ (Clean => Verifies(memory) /\ Appended /\ Reads(disk))
  BY DEF ChainInv
<1>2. CASE Restarted(disk)
  BY <1>1, <1>2, LoadedChain DEF Types
<1>3. ASSUME NEW w \in Writers, Appending(w),
             NEW e \in {recording[w].event, Unreadable}, Restarted(Written(e, FALSE))
      PROVE  ChainInv'
  <2>1. recording[w].event \in Event
    BY <1>1, <1>3 DEF Types, Appending, Call, Idle
  <2>2. Written(e, FALSE) \in Seq(Line)
    BY <1>1, <2>1, WrittenLines DEF Types
  <2>3. Clean => Reads(Written(e, FALSE))
    BY <1>1, <1>3, <2>1, WrittenReads
  <2> QED
    BY <1>1, <1>3, <2>2, <2>3, LoadedChain
<1> QED
  BY <1>2, <1>3 DEF Restart, Appending, CutShort

LEMMA NextChain == ChainInv /\ [Next]_vars => ChainInv'
<1> SUFFICES ASSUME ChainInv, [Next]_vars PROVE ChainInv'
  OBVIOUS
<1>1. CASE UNCHANGED vars
  BY <1>1 DEF vars, ChainInv, Types, Clean, Verifies, OneCall, Linked, TailHash, Appended,
              Appending, Reads, ReadableTo, Complete
<1>2. ASSUME NEW w \in Writers, NEW kind \in Kinds, BeginRecord(w, kind) PROVE ChainInv'
  BY <1>2, BeginChain
<1>3. ASSUME NEW w \in Writers, AppendEvent(w) PROVE ChainInv'
  BY <1>3, AppendChain
<1>4. ASSUME NEW w \in Writers, Persist(w) PROVE ChainInv'
  BY <1>4, PersistChain
<1>5. CASE Restart
  BY <1>5, RestartChain
<1> QED
  BY <1>1, <1>2, <1>3, <1>4, <1>5 DEF Next

(* For any number of threads, events and restarts: verify_chain fails only *)
(* after a failed write or two calls of record_event that overlapped.      *)
THEOREM ChainHolds == Spec => []ChainVerifies
<1>1. ChainInv => ChainVerifies
  BY DEF ChainInv, ChainVerifies, Clean
<1> QED
  BY <1>1, InitChain, NextChain, PTL DEF Spec

(* A sequence whose elements another one begins with is a prefix of it.    *)
LEMMA PrefixPointwise ==
  ASSUME NEW T, NEW s \in Seq(T), NEW t \in Seq(T), Len(s) <= Len(t),
         \A i \in 1..Len(s) : s[i] = t[i]
  PROVE  IsPrefix(s, t)
<1>1. PICK n \in Nat : n = Len(s)
  OBVIOUS
<1>2. /\ SubSeq(s, 1, n) \in Seq(T) /\ Len(SubSeq(s, 1, n)) = n
      /\ \A i \in 1..n : SubSeq(s, 1, n)[i] = s[i]
  BY <1>1
<1>3. /\ SubSeq(t, 1, n) \in Seq(T) /\ Len(SubSeq(t, 1, n)) = n
      /\ \A i \in 1..n : SubSeq(t, 1, n)[i] = t[i]
  BY <1>1
<1>4. SubSeq(s, 1, n) = SubSeq(t, 1, n)
  BY <1>1, <1>2, <1>3, SeqEqual
<1> QED
  BY <1>1, <1>4 DEF IsPrefix

(* One more line, whole or torn, leaves what could be read readable, but   *)
(* for the last line when it had no line break.                            *)
LEMMA WrittenLoads ==
  ASSUME disk \in Seq(Line), NEW e \in Event \union {Unreadable}, NEW ended \in BOOLEAN
  PROVE  LET lines == Written(e, ended) IN
         \/ IsPrefix(Load(disk), Load(lines))
         \/ ~Last(disk).ended /\ Load(lines) = Front(Load(disk))
<1> DEFINE lines == Written(e, ended)
           n == Len(disk)
           old == Load(disk)
           new == Load(lines)
<1>1. /\ n \in Nat /\ lines \in Seq(Line) /\ Len(lines) \in Nat
      /\ \/ /\ disk # << >> /\ ~Last(disk).ended /\ Len(lines) = n
            /\ \A i \in 1..(n - 1) : lines[i] = disk[i]
            /\ lines[n].event = Unreadable
         \/ /\ Len(lines) = n + 1
            /\ \A i \in 1..n : lines[i] = disk[i]
  BY WrittenLines
<1> HIDE DEF lines
<1>2. PICK m \in 0..n :
        /\ old = [i \in 1..m |-> disk[i].event] /\ ReadableTo(disk, m)
        /\ \A j \in 0..n : ReadableTo(disk, j) => j <= m
  BY LoadReads
<1>3. PICK k \in 0..Len(lines) :
        /\ new = [i \in 1..k |-> lines[i].event] /\ ReadableTo(lines, k)
        /\ \A j \in 0..Len(lines) : ReadableTo(lines, j) => j <= k
  BY <1>1, LoadReads
<1>4. old \in Seq(Event) /\ new \in Seq(Event)
  BY <1>1, LoadTyped
<1>5. /\ Len(old) = m /\ \A i \in 1..m : old[i] = disk[i].event
      /\ Len(new) = k /\ \A i \in 1..k : new[i] = lines[i].event
  BY <1>1, <1>2, <1>3, <1>4
<1> HIDE DEF old, new
<1>6. ASSUME m <= k, \A i \in 1..m : lines[i] = disk[i]
      PROVE  IsPrefix(old, new)
  <2>1. \A i \in 1..m : i \in 1..k
    BY <1>1, <1>2, <1>3, <1>6
  <2>2. \A i \in 1..m : old[i] = new[i]
    BY <1>5, <1>6, <2>1
  <2> QED
    BY <1>4, <1>5, <1>6, <2>2, PrefixPointwise
<1>7. CASE Len(lines) = n + 1
  <2>1. \A i \in 1..n : lines[i] = disk[i]
    BY <1>1, <1>7
  <2>2. ReadableTo(lines, m)
    BY <1>1, <1>2, <2>1 DEF ReadableTo
  <2>3. m <= k
    BY <1>1, <1>2, <1>3, <1>7, <2>2
  <2> QED
    BY <1>1, <1>6, <2>1, <2>3 DEF lines, old, new
<1>8. CASE Len(lines) = n
  <2>1. /\ n \in Nat \ {0} /\ ~Last(disk).ended
        /\ \A i \in 1..(n - 1) : lines[i] = disk[i]
        /\ lines[n].event = Unreadable
    BY <1>1, <1>8, EmptySeq
  <2>2. k \in 0..(n - 1)
    BY <1>1, <1>3, <1>8, <2>1 DEF ReadableTo
  <2>3. CASE m \in 0..(n - 1)
    <3>1. ReadableTo(lines, m)
      BY <1>2, <2>1, <2>3 DEF ReadableTo
    <3>2. m <= k
      BY <1>3, <1>8, <2>3, <3>1
    <3> QED
      BY <1>6, <2>1, <2>3, <3>2 DEF lines, old, new
  <2>4. CASE m = n
    <3>1. ReadableTo(lines, n - 1)
      BY <1>2, <2>1, <2>4 DEF ReadableTo
    <3>2. k = n - 1
      BY <1>3, <1>8, <2>1, <2>2, <3>1
    <3>3. Front(old) = SubSeq(old, 1, m - 1)
      BY <1>5 DEF Front
    <3>4. /\ Front(old) \in Seq(Event) /\ Len(Front(old)) = k
          /\ \A i \in 1..k : Front(old)[i] = old[i]
      BY <1>4, <1>5, <2>1, <2>4, <3>2, <3>3, FirstLines
    <3>5. \A i \in 1..k : i \in 1..m /\ lines[i] = disk[i]
      BY <2>1, <2>4, <3>2
    <3>6. \A i \in 1..k : new[i] = Front(old)[i]
      BY <1>5, <3>4, <3>5
    <3>7. new = Front(old)
      BY <1>4, <1>5, <3>4, <3>6, SeqEqual
    <3> QED
      BY <2>1, <3>7 DEF lines, old, new
  <2> QED
    BY <1>2, <2>1, <2>3, <2>4
<1> QED
  BY <1>1, <1>7, <1>8

(* Whatever writes fail, tear or overlap, and wherever the process ends:   *)
(* what the next process could read back stays readable, but for a last    *)
(* line without its line break.                                            *)
THEOREM LoadableStays == Spec => LoadableNeverShrinks
<1> DEFINE Kept == \/ IsPrefix(Load(disk), Load(disk'))
                   \/ ~Last(disk).ended /\ Load(disk') = Front(Load(disk))
<1>1. ChainInv /\ [Next]_vars => [Kept]_disk
  <2> SUFFICES ASSUME ChainInv, [Next]_vars, disk' # disk PROVE Kept
    OBVIOUS
  <2>1. PICK w \in Writers :
          /\ Appending(w)
          /\ \E e \in {recording[w].event, Unreadable}, ended \in BOOLEAN :
               disk' = Written(e, ended)
    BY DEF Next, vars, BeginRecord, AppendEvent, Persist, Restart, Restarted, CutShort, Appending
  <2>2. disk \in Seq(Line) /\ recording[w].event \in Event
    BY <2>1 DEF ChainInv, Types, Appending, Call, Idle
  <2> QED
    BY <2>1, <2>2, WrittenLoads
<1> QED
  BY <1>1, InitChain, NextChain, PTL DEF Spec, LoadableNeverShrinks


(* Every variable stays in its type. *)
Bounded == hashes \in 0..MaxEvents /\ restarts \in 0..MaxRestarts

THEOREM TypeCorrect == Spec => []TypeOK
<1>1. Init => Bounded
  BY BoundsAssumption DEF Init, Bounded, Genesis
<1>2. Bounded /\ [Next]_vars => Bounded'
  <2> SUFFICES ASSUME Bounded, [Next]_vars PROVE Bounded'
    OBVIOUS
  <2>1. CASE UNCHANGED vars
    BY <2>1 DEF vars, Bounded
  <2>2. ASSUME NEW w \in Writers, NEW kind \in Kinds, BeginRecord(w, kind) PROVE Bounded'
    BY <2>2, BoundsAssumption DEF BeginRecord, Bounded
  <2>3. ASSUME NEW w \in Writers, AppendEvent(w) \/ Persist(w) PROVE Bounded'
    BY <2>3 DEF AppendEvent, Persist, Bounded
  <2>4. ASSUME NEW lines, Restarted(lines) PROVE Bounded'
    BY <2>4, BoundsAssumption DEF Restarted, Bounded
  <2> QED
    BY <2>1, <2>2, <2>3, <2>4 DEF Next, Restart
<1>3. ChainInv /\ Bounded => TypeOK
  BY DEF ChainInv, Types, Bounded, TypeOK, Call, Idle
<1> QED
  BY <1>1, <1>2, <1>3, InitChain, NextChain, PTL DEF Spec


(***************************************************************************)
(* The promise of AuditTrail.  When no write has failed and no line is     *)
(* torn, the file tells of every writer what memory does, but for the event*)
(* its call is about to write: the events of different writers may stand in*)
(* different orders in the two, those of one writer do not.                *)
(***************************************************************************)
Events(lines) == [i \in 1..Len(lines) |-> lines[i].event]

OwnEvents == \A w \in Writers : recording[w] # Idle => recording[w].event.cid = w

FileTells ==
    FileIsWhole => \A w \in Writers :
        KindsIn(memory, w) =
            IF Appending(w) THEN Append(KindsIn(Events(disk), w), recording[w].event.kind)
            ELSE KindsIn(Events(disk), w)

TrailInv == Types /\ OwnEvents /\ FileTells

(* What KindsIn counts up: the kinds among the first n events, for each n. *)
KindsWith(events, w, kinds, n) ==
    IF events[n].cid = w THEN Append(kinds, events[n].kind) ELSE kinds

KindsUpTo(events, w, N, f) ==
    f = [n \in 0..N |-> IF n = 0 THEN << >> ELSE KindsWith(events, w, f[n - 1], n)]

LEMMA Upwards ==
  ASSUME NEW N \in Nat, NEW S, 0 \in S, \A n \in 0..(N - 1) : n \in S => n + 1 \in S
  PROVE  0..N \subseteq S
<1> DEFINE all == 0..N
           left == {0..m : m \in all \ S}
<1> SUFFICES ASSUME NEW k \in all \ S PROVE FALSE
  OBVIOUS
<1>1. IsWellFoundedOn(StrictSubsetOrdering(all), FiniteSubsetsOf(all))
  BY FS_StrictSubsetOrderingWellFounded
<1>2. left \subseteq SUBSET all /\ left # {}
  OBVIOUS
<1>3. left \subseteq FiniteSubsetsOf(all)
  <2>1. IsFiniteSet(all)
    BY FS_Interval
  <2>2. FiniteSubsetsOf(all) = SUBSET all
    BY <2>1, FS_FiniteSubsetsOfFinite
  <2> QED
    BY <1>2, <2>2
<1>4. PICK least \in left : \A other \in left : <<other, least>> \notin StrictSubsetOrdering(all)
  <2> HIDE DEF left, all
  <2> QED
    BY <1>1, <1>2, <1>3, WFMin
<1>5. PICK m \in all \ S : least = 0..m
  BY <1>4
<1>6. m # 0 /\ m - 1 \in 0..(N - 1)
  BY <1>5
<1>7. m - 1 \notin S
  BY <1>5, <1>6
<1> DEFINE other == 0..(m - 1)
<1>8. other \in left /\ other \in SUBSET all /\ least \in SUBSET all
  BY <1>4, <1>5, <1>6, <1>7
<1>9. other \subseteq least /\ m \in least /\ m \notin other
  BY <1>5, <1>6
<1> HIDE DEF other, all, left
<1>10. <<other, least>> \in StrictSubsetOrdering(all)
  BY <1>8, <1>9 DEF StrictSubsetOrdering
<1> QED
  BY <1>4, <1>8, <1>10

LEMMA KindsStep ==
  ASSUME NEW events, NEW w, NEW N \in Nat, NEW f, KindsUpTo(events, w, N, f)
  PROVE  /\ f[0] = << >>
         /\ \A n \in 0..(N - 1) : f[n + 1] = KindsWith(events, w, f[n], n + 1)
<1>1. \A n \in 0..N : f[n] = IF n = 0 THEN << >> ELSE KindsWith(events, w, f[n - 1], n)
  BY Zenon DEF KindsUpTo
<1>2. \A n \in 0..(N - 1) : n + 1 \in 0..N /\ n + 1 # 0 /\ (n + 1) - 1 = n
  OBVIOUS
<1>3. 0 \in 0..N
  OBVIOUS
<1> QED
  BY <1>1, <1>2, <1>3

LEMMA KindsExist ==
  ASSUME NEW events, NEW w, NEW N \in Nat
  PROVE  \E f : KindsUpTo(events, w, N, f)
<1> DEFINE S == {n \in 0..N : \E f : KindsUpTo(events, w, n, f)}
<1>1. 0 \in S
  <2> DEFINE f == [n \in 0..0 |-> << >>]
             value(n) == IF n = 0 THEN << >> ELSE KindsWith(events, w, f[n - 1], n)
  <2>1. \A n \in 0..0 : value(n) = << >>
    OBVIOUS
  <2>2. f = [n \in 0..0 |-> value(n)]
    <3> HIDE DEF value
    <3> QED
      BY <2>1
  <2>3. KindsUpTo(events, w, 0, f)
    BY <2>2, Zenon DEF KindsUpTo
  <2> QED
    BY <2>3
<1>2. ASSUME NEW n \in 0..(N - 1), n \in S PROVE n + 1 \in S
  <2>1. PICK f : KindsUpTo(events, w, n, f)
    BY <1>2
  <2>2. \A i \in 0..n : f[i] = IF i = 0 THEN << >> ELSE KindsWith(events, w, f[i - 1], i)
    BY <2>1, Zenon DEF KindsUpTo
  <2> DEFINE last == KindsWith(events, w, f[n], n + 1)
             g == [i \in 0..(n + 1) |-> IF i = n + 1 THEN last ELSE f[i]]
             value(i) == IF i = 0 THEN << >> ELSE KindsWith(events, w, g[i - 1], i)
  <2>3. ASSUME NEW i \in 0..(n + 1) PROVE g[i] = value(i)
    <3>1. CASE i = n + 1
      <4>1. i - 1 = n /\ n \in 0..(n + 1) /\ n # n + 1 /\ i # 0
        BY <3>1
      <4>2. g[n] = f[n] /\ g[i] = last
        BY <3>1, <4>1
      <4> HIDE DEF g
      <4> QED
        BY <3>1, <4>1, <4>2
    <3>2. CASE i # n + 1
      <4>1. i \in 0..n /\ (i # 0 => i - 1 \in 0..n)
        BY <3>2
      <4>2. g[i] = f[i] /\ (i # 0 => g[i - 1] = f[i - 1])
        BY <4>1
      <4> HIDE DEF g
      <4> QED
        BY <2>2, <4>1, <4>2
    <3> QED
      BY <3>1, <3>2
  <2>4. g = [i \in 0..(n + 1) |-> value(i)]
    <3> HIDE DEF value, last
    <3> QED
      BY <2>3
  <2>5. KindsUpTo(events, w, n + 1, g)
    BY <2>4, Zenon DEF KindsUpTo
  <2> QED
    BY <2>5
<1> HIDE DEF S
<1>3. N \in S
  BY <1>1, <1>2, Upwards
<1> QED
  BY <1>3 DEF S

(* Two of them agree as far as their events do. *)
LEMMA KindsAgree ==
  ASSUME NEW s, NEW t, NEW w, NEW N \in Nat, NEW M \in Nat, N <= M,
         NEW f, KindsUpTo(s, w, N, f), NEW g, KindsUpTo(t, w, M, g),
         \A i \in 1..N : s[i] = t[i]
  PROVE  f[N] = g[N]
<1> DEFINE S == {n \in 0..N : f[n] = g[n]}
<1>0. /\ f[0] = << >> /\ \A n \in 0..(N - 1) : f[n + 1] = KindsWith(s, w, f[n], n + 1)
      /\ g[0] = << >> /\ \A n \in 0..(M - 1) : g[n + 1] = KindsWith(t, w, g[n], n + 1)
  BY KindsStep
<1>1. 0 \in S
  BY <1>0
<1>2. ASSUME NEW n \in 0..(N - 1), n \in S PROVE n + 1 \in S
  <2>1. f[n + 1] = KindsWith(s, w, f[n], n + 1)
    BY <1>0
  <2>2. g[n + 1] = KindsWith(t, w, g[n], n + 1)
    BY <1>0
  <2>3. s[n + 1] = t[n + 1] /\ f[n] = g[n]
    BY <1>2
  <2> QED
    <3>1. f[n + 1] = g[n + 1]
      BY <2>1, <2>2, <2>3 DEF KindsWith
    <3> QED
      BY <3>1
<1> HIDE DEF S
<1>3. N \in S
  BY <1>1, <1>2, Upwards
<1> QED
  BY <1>3 DEF S

LEMMA KindsChosen ==
  ASSUME NEW events, NEW w, Len(events) \in Nat
  PROVE  \E f : KindsUpTo(events, w, Len(events), f) /\ KindsIn(events, w) = f[Len(events)]
<1> DEFINE f == CHOOSE g : KindsUpTo(events, w, Len(events), g)
<1>1. KindsUpTo(events, w, Len(events), f)
  BY KindsExist
<1>2. KindsIn(events, w) = f[Len(events)]
  BY Zenon DEF KindsIn, KindsUpTo, KindsWith
<1> QED
  BY <1>1, <1>2

LEMMA KindsTyped ==
  ASSUME NEW events \in Seq(Event), NEW w
  PROVE  KindsIn(events, w) \in Seq(Kinds)
<1>0. PICK N \in Nat : N = Len(events)
  OBVIOUS
<1>1. PICK f : KindsUpTo(events, w, N, f) /\ KindsIn(events, w) = f[N]
  BY <1>0, KindsChosen
<1> DEFINE S == {n \in 0..N : f[n] \in Seq(Kinds)}
<1>2. 0 \in S
  <2>1. f[0] = << >>
    BY <1>1, KindsStep
  <2>2. << >> \in Seq(Kinds) /\ 0 \in 0..N
    OBVIOUS
  <2> QED
    BY <2>1, <2>2
<1>3. ASSUME NEW n \in 0..(N - 1), n \in S PROVE n + 1 \in S
  <2>1. f[n + 1] = KindsWith(events, w, f[n], n + 1)
    BY <1>1, KindsStep
  <2>2. events[n + 1] \in Event
    BY <1>0
  <2>3. events[n + 1].kind \in Kinds
    BY <2>2 DEF Event
  <2>4. Append(f[n], events[n + 1].kind) \in Seq(Kinds)
    BY <1>3, <2>3, AppendProperties
  <2>5. f[n + 1] \in Seq(Kinds)
    BY <1>3, <2>1, <2>4 DEF KindsWith
  <2> QED
    BY <2>5
<1> HIDE DEF S
<1>4. N \in S
  BY <1>0, <1>2, <1>3, Upwards
<1> QED
  BY <1>1, <1>4 DEF S

LEMMA KindsNone == ASSUME NEW w PROVE KindsIn(<< >>, w) = << >>
<1>1. PICK f : KindsUpTo(<< >>, w, 0, f) /\ KindsIn(<< >>, w) = f[0]
  <2>1. Len(<< >>) = 0
    OBVIOUS
  <2> QED
    BY <2>1, KindsChosen
<1> QED
  BY <1>1, KindsStep

LEMMA KindsAppend ==
  ASSUME NEW events \in Seq(Event), NEW e \in Event, NEW w
  PROVE  KindsIn(Append(events, e), w) =
           IF e.cid = w THEN Append(KindsIn(events, w), e.kind) ELSE KindsIn(events, w)
<1> DEFINE N == Len(events)
           more == Append(events, e)
<1>1. /\ N \in Nat /\ Len(more) = N + 1 /\ more[N + 1] = e
      /\ \A i \in 1..N : events[i] = more[i]
  BY AppendProperties
<1>2. PICK f : KindsUpTo(events, w, N, f) /\ KindsIn(events, w) = f[N]
  BY KindsChosen
<1> HIDE DEF more
<1>3. PICK g : KindsUpTo(more, w, N + 1, g) /\ KindsIn(more, w) = g[N + 1]
  BY <1>1, KindsChosen
<1> HIDE DEF N
<1>4. f[N] = g[N]
  BY <1>1, <1>2, <1>3, KindsAgree
<1>5. g[N + 1] = KindsWith(more, w, g[N], N + 1)
  BY <1>1, <1>3, KindsStep
<1> QED
  BY <1>1, <1>2, <1>3, <1>4, <1>5 DEF KindsWith, more

(* Lines that can be read hold a sequence of events. *)
LEMMA EventsTyped ==
  ASSUME NEW lines \in Seq(Line), \A i \in 1..Len(lines) : lines[i].event # Unreadable
  PROVE  /\ Events(lines) \in Seq(Event) /\ Len(Events(lines)) = Len(lines)
         /\ \A i \in 1..Len(lines) : Events(lines)[i] = lines[i].event
<1>1. PICK n \in Nat : n = Len(lines)
  OBVIOUS
<1>2. \A i \in 1..n : lines[i].event \in Event
  <2> TAKE i \in 1..n
  <2>1. lines[i] \in Line /\ lines[i].event # Unreadable
    BY <1>1
  <2> QED
    BY <2>1 DEF Line
<1>3. Events(lines) = [i \in 1..n |-> lines[i].event]
  BY <1>1 DEF Events
<1>4. Events(lines) \in Seq(Event)
  BY <1>1, <1>2, <1>3, IsASeq
<1>5. Len(Events(lines)) = n
  BY <1>1, <1>3, <1>4
<1> QED
  BY <1>1, <1>3, <1>4, <1>5

(* A file that is whole was whole before, and its new line is the event's. *)
LEMMA WholeWritten ==
  ASSUME disk \in Seq(Line), NEW e \in Event \union {Unreadable}, NEW ended \in BOOLEAN,
         LET lines == Written(e, ended)
         IN  \A i \in 1..Len(lines) : lines[i].ended /\ lines[i].event # Unreadable
  PROVE  /\ ended /\ e \in Event
         /\ \A i \in 1..Len(disk) : disk[i].ended /\ disk[i].event # Unreadable
         /\ Events(Written(e, ended)) = Append(Events(disk), e)
<1> DEFINE lines == Written(e, ended)
           n == Len(disk)
           last == [event |-> e, ended |-> ended]
<1>0. n \in Nat
  OBVIOUS
<1>1. /\ n \in Nat /\ lines \in Seq(Line)
      /\ \/ /\ disk # << >> /\ Len(lines) = n
            /\ lines[n].event = Unreadable
         \/ /\ Len(lines) = n + 1
            /\ \A i \in 1..n : lines[i] = disk[i]
            /\ lines[n + 1].event = e
  <2> HIDE DEF n
  <2> QED
    BY <1>0, WrittenLines DEF n
<1>2. disk # << >> => n \in 1..n
  BY <1>1, EmptySeq
<1> HIDE DEF lines, last
<1>3. /\ Len(lines) = n + 1 /\ \A i \in 1..n : lines[i] = disk[i]
      /\ lines[n + 1].event = e /\ lines[n + 1].ended /\ e # Unreadable
      /\ \A i \in 1..n : disk[i].ended /\ disk[i].event # Unreadable
  <2>1. \A i \in 1..Len(lines) : lines[i].ended /\ lines[i].event # Unreadable
    BY DEF lines
  <2>2. Len(lines) = n + 1 /\ (\A i \in 1..n : lines[i] = disk[i]) /\ lines[n + 1].event = e
    BY <1>1, <1>2, <2>1
  <2>3. n + 1 \in 1..Len(lines) /\ \A i \in 1..n : i \in 1..Len(lines)
    BY <1>1, <2>2
  <2> QED
    BY <2>1, <2>2, <2>3
<1>4. lines = Append(disk, last)
  <2>1. ~(disk # << >> /\ ~Last(disk).ended)
    BY <1>1, <1>2, <1>3, Zenon DEF Last
  <2> QED
    BY <2>1 DEF Written, lines, last
<1>5. last \in Line /\ last.event = e /\ last.ended = ended
  BY DEF last, Line
<1>6. lines[n + 1] = last
  BY <1>1, <1>4, <1>5, AppendProperties
<1>7. ended /\ e \in Event
  BY <1>3, <1>5, <1>6
<1>8. /\ Events(disk) \in Seq(Event) /\ Len(Events(disk)) = n
      /\ \A i \in 1..n : Events(disk)[i] = disk[i].event
  BY <1>1, <1>3, EventsTyped
<1>9. /\ Append(Events(disk), e) \in Seq(Event) /\ Len(Append(Events(disk), e)) = n + 1
      /\ \A i \in 1..n : Append(Events(disk), e)[i] = Events(disk)[i]
      /\ Append(Events(disk), e)[n + 1] = e
  BY <1>1, <1>7, <1>8, AppendProperties
<1>10. /\ Events(lines) \in Seq(Event) /\ Len(Events(lines)) = n + 1
       /\ \A i \in 1..(n + 1) : Events(lines)[i] = lines[i].event
  <2>1. \A i \in 1..Len(lines) : lines[i].event # Unreadable
    BY DEF lines
  <2> QED
    BY <1>1, <1>3, <2>1, EventsTyped
<1>11. \A i \in 1..(n + 1) : Events(lines)[i] = Append(Events(disk), e)[i]
  <2> TAKE i \in 1..(n + 1)
  <2>1. CASE i = n + 1
    BY <1>1, <1>3, <1>9, <1>10, <2>1
  <2>2. CASE i # n + 1
    <3>1. i \in 1..n
      BY <1>0, <2>2
    <3> QED
      BY <1>3, <1>8, <1>9, <1>10, <3>1
  <2> QED
    BY <2>1, <2>2
<1>12. Events(lines) = Append(Events(disk), e)
  BY <1>1, <1>9, <1>10, <1>11, SeqEqual
<1> QED
  BY <1>3, <1>7, <1>12 DEF lines

(* A whole file is loaded to its last line. *)
LEMMA WholeLoads ==
  ASSUME NEW lines \in Seq(Line), \A i \in 1..Len(lines) : lines[i].event # Unreadable
  PROVE  Load(lines) = Events(lines)
<1>1. PICK n \in 0..Len(lines) :
         /\ Load(lines) = [i \in 1..n |-> lines[i].event]
         /\ \A m \in 0..Len(lines) : ReadableTo(lines, m) => m <= n
  BY LoadReads
<1>2. Len(lines) \in Nat /\ ReadableTo(lines, Len(lines))
  BY DEF ReadableTo
<1>3. n = Len(lines)
  BY <1>1, <1>2
<1> QED
  BY <1>1, <1>3 DEF Events

(* One more event in memory, the next of its writer. *)
LEMMA AppendTells ==
  ASSUME TrailInv, NEW w \in Writers, AppendEvent(w)
  PROVE  /\ OwnEvents' /\ FileTells'
         /\ recording[w].event \in Event /\ recording[w].event.cid = w
         /\ ~Appending(w) /\ Appending(w)'
         /\ \A v \in Writers \ {w} : recording'[v] = recording[v]
         /\ KindsOf(w)' = Append(KindsOf(w), recording[w].event.kind)
         /\ \A v \in Writers \ {w} : KindsOf(v)' = KindsOf(v)
         /\ UNCHANGED <<disk, unsaved>>
<1> DEFINE event == recording[w].event
<1>1. /\ Types /\ recording[w].stage = "hashed" /\ memory' = Append(memory, event)
      /\ recording' = [recording EXCEPT ![w].stage = "appended"]
      /\ UNCHANGED <<disk, unsaved>>
  BY DEF TrailInv, AppendEvent
<1>2. recording[w] \in Call /\ event \in Event /\ recording[w] # Idle
  BY <1>1 DEF Types, Call, Idle
<1>3. /\ recording'[w] = [stage |-> "appended", event |-> event]
      /\ \A v \in Writers \ {w} : recording'[v] = recording[v]
  BY <1>1, <1>2 DEF Types, Call
<1>4. event.cid = w
  BY <1>2 DEF TrailInv, OwnEvents
<1> HIDE DEF event
<1>5. recording'[w].event = event /\ Appending(w)' /\ ~Appending(w)
  BY <1>1, <1>3 DEF Appending
<1>6. OwnEvents'
  BY <1>3, <1>4, <1>5 DEF OwnEvents, TrailInv
<1>7. \A v \in Writers : KindsIn(memory', v) =
         IF v = w THEN Append(KindsIn(memory, v), event.kind) ELSE KindsIn(memory, v)
  <2>1. memory \in Seq(Event)
    BY <1>1 DEF Types
  <2> QED
    BY <1>1, <1>2, <1>4, <2>1, KindsAppend
<1>8. FileTells'
  <2> SUFFICES ASSUME FileIsWhole', NEW v \in Writers
               PROVE  KindsIn(memory', v) =
                        IF Appending(v)' THEN Append(KindsIn(Events(disk), v), recording'[v].event.kind)
                        ELSE KindsIn(Events(disk), v)
    BY <1>1 DEF FileTells, Events
  <2>1. FileIsWhole
    BY <1>1 DEF FileIsWhole
  <2>2. KindsIn(memory, v) =
          IF Appending(v) THEN Append(KindsIn(Events(disk), v), recording[v].event.kind)
          ELSE KindsIn(Events(disk), v)
    BY <2>1 DEF TrailInv, FileTells
  <2>3. CASE v = w
    BY <1>5, <1>7, <2>2, <2>3
  <2>4. CASE v # w
    BY <1>3, <1>7, <2>2, <2>4 DEF Appending
  <2> QED
    BY <2>3, <2>4
<1> QED
  BY <1>1, <1>2, <1>3, <1>4, <1>5, <1>6, <1>7, <1>8 DEF KindsOf, event

LEMMA BeginTells ==
  ASSUME TrailInv, NEW w \in Writers, NEW kind \in Kinds, BeginRecord(w, kind)
  PROVE  /\ OwnEvents' /\ FileTells' /\ UNCHANGED <<memory, disk, unsaved>>
         /\ \A v \in Writers : Appending(v)' = Appending(v)
<1> DEFINE event == [kind |-> kind, cid |-> w, seq |-> Len(memory),
                     prev |-> TailHash, hash |-> hashes + 1]
<1>1. /\ Types /\ recording[w] = Idle /\ UNCHANGED <<memory, disk, unsaved>>
      /\ recording' = [recording EXCEPT ![w] = [stage |-> "hashed", event |-> event]]
  BY DEF TrailInv, BeginRecord
<1>2. event.cid = w
  OBVIOUS
<1> HIDE DEF event
<1>3. /\ recording'[w].stage = "hashed" /\ recording'[w].event = event
      /\ \A v \in Writers \ {w} : recording'[v] = recording[v]
  BY <1>1 DEF Types
<1>4. \A v \in Writers : Appending(v)' = Appending(v)
  BY <1>1, <1>3 DEF Appending, Idle
<1>5. OwnEvents'
  BY <1>2, <1>3 DEF OwnEvents, TrailInv
<1>6. FileTells'
  <2> SUFFICES ASSUME FileIsWhole, NEW v \in Writers
               PROVE  KindsIn(memory, v) =
                        IF Appending(v) THEN Append(KindsIn(Events(disk), v), recording'[v].event.kind)
                        ELSE KindsIn(Events(disk), v)
    BY <1>1, <1>4 DEF FileTells, FileIsWhole, Events
  <2>1. Appending(v) => v # w
    BY <1>1 DEF Appending, Idle
  <2> QED
    BY <1>3, <2>1 DEF TrailInv, FileTells
<1> QED
  BY <1>1, <1>4, <1>5, <1>6

(* The file follows memory, or is no longer whole. *)
LEMMA PersistTells ==
  ASSUME TrailInv, NEW w \in Writers, Persist(w)
  PROVE  /\ OwnEvents' /\ FileTells' /\ memory' = memory
         /\ FileIsWhole' => FileIsWhole
         /\ recording'[w] = Idle /\ \A v \in Writers \ {w} : recording'[v] = recording[v]
<1> DEFINE event == recording[w].event
<1>1. /\ Types /\ Appending(w) /\ recording' = [recording EXCEPT ![w] = Idle]
      /\ memory' = memory
      /\ \/ disk' = Written(event, TRUE) /\ unsaved' = unsaved
         \/ disk' \in {disk} \union CutShort(w) /\ unsaved' = TRUE
  BY DEF TrailInv, Persist, Appending
<1>2. event \in Event /\ recording[w] # Idle
  BY <1>1 DEF Types, Appending, Call, Idle
<1>3. recording'[w] = Idle /\ \A v \in Writers \ {w} : recording'[v] = recording[v]
  BY <1>1 DEF Types
<1>4. event.cid = w
  BY <1>2 DEF TrailInv, OwnEvents
<1> HIDE DEF event
<1>5. ASSUME FileIsWhole'
      PROVE  FileIsWhole /\ Events(disk') = Append(Events(disk), event)
  <2>1. ~unsaved' /\ \A i \in 1..Len(disk') : disk'[i].ended /\ disk'[i].event # Unreadable
    BY <1>5 DEF FileIsWhole
  <2>2. disk' = Written(event, TRUE) /\ unsaved' = unsaved
    BY <1>1, <2>1, Zenon
  <2>3. disk \in Seq(Line)
    BY <1>1 DEF Types
  <2>4. /\ \A i \in 1..Len(disk) : disk[i].ended /\ disk[i].event # Unreadable
        /\ Events(Written(event, TRUE)) = Append(Events(disk), event)
    <3>1. \A i \in 1..Len(Written(event, TRUE)) :
            Written(event, TRUE)[i].ended /\ Written(event, TRUE)[i].event # Unreadable
      BY <2>1, <2>2
    <3> QED
      BY <1>2, <2>3, <3>1, WholeWritten
  <2> QED
    BY <2>1, <2>2, <2>4 DEF FileIsWhole
<1>6. OwnEvents'
  BY <1>3 DEF OwnEvents, TrailInv
<1>7. FileTells'
  <2> SUFFICES ASSUME FileIsWhole', NEW v \in Writers
               PROVE  KindsIn(memory, v) =
                        IF Appending(v)' THEN Append(KindsIn(Events(disk'), v), recording'[v].event.kind)
                        ELSE KindsIn(Events(disk'), v)
    BY <1>1 DEF FileTells, Events
  <2>1. FileIsWhole /\ Events(disk') = Append(Events(disk), event)
    BY <1>5
  <2>2. KindsIn(memory, v) =
          IF Appending(v) THEN Append(KindsIn(Events(disk), v), recording[v].event.kind)
          ELSE KindsIn(Events(disk), v)
    BY <2>1 DEF TrailInv, FileTells
  <2>3. Events(disk) \in Seq(Event)
    <3>1. disk \in Seq(Line) /\ \A i \in 1..Len(disk) : disk[i].event # Unreadable
      BY <1>1, <2>1 DEF Types, FileIsWhole
    <3> QED
      BY <3>1, EventsTyped
  <2>4. KindsIn(Events(disk'), v) =
          IF v = w THEN Append(KindsIn(Events(disk), v), event.kind) ELSE KindsIn(Events(disk), v)
    BY <1>2, <1>4, <2>1, <2>3, KindsAppend
  <2>5. CASE v = w
    <3>1. ~Appending(v)'
      BY <1>3, <2>5 DEF Appending, Idle
    <3> QED
      BY <1>1, <2>2, <2>4, <2>5, <3>1 DEF event
  <2>6. CASE v # w
    BY <1>3, <2>2, <2>4, <2>6 DEF Appending
  <2> QED
    BY <2>5, <2>6
<1> QED
  BY <1>1, <1>3, <1>5, <1>6, <1>7

LEMMA SamePrefix ==
  \A s, t : Trail!IsPrefix(s, t) <=> IsPrefix(s, t)
BY DEF IsPrefix, Trail!IsPrefix

(* What the file tells of a writer after its process ended, perhaps in the *)
(* middle of the writer's line.                                            *)
LEMMA LoadedTells ==
  ASSUME TrailInv, NEW lines \in Seq(Line), Restarted(lines),
         FileIsWhole' => lines = disk /\ FileIsWhole,
         FileIsWhole => \A w \in Writers :
             \/ KindsIn(Load(lines), w) = KindsIn(Events(disk), w)
             \/ Appending(w) /\ KindsIn(Load(lines), w) = KindsOf(w)
  PROVE  /\ OwnEvents' /\ FileTells' /\ Trail!Reloaded
<1>1. /\ Types /\ disk' = lines /\ memory' = Load(lines)
      /\ recording' = [w \in Writers |-> Idle] /\ unsaved' = unsaved
  BY DEF TrailInv, Restarted
<1>2. \A w \in Writers : recording'[w] = Idle /\ ~Appending(w)' /\ Unreturned(w)' = 0
  BY <1>1 DEF Idle, Appending, Unreturned
<1>3. memory \in Seq(Event) /\ memory' \in Seq(Event)
  BY <1>1, LoadTyped DEF Types
<1>4. \A w \in Writers : KindsOf(w) \in Seq(Kinds) /\ KindsOf(w)' \in Seq(Kinds)
  BY <1>3, KindsTyped DEF KindsOf
<1>5. OwnEvents'
  BY <1>2 DEF OwnEvents
<1>6. FileTells'
  <2> SUFFICES ASSUME FileIsWhole', NEW w \in Writers
               PROVE  KindsIn(memory', w) = KindsIn(Events(disk'), w)
    BY <1>2 DEF FileTells, Events
  <2>1. lines = disk /\ FileIsWhole
    OBVIOUS
  <2>2. \A i \in 1..Len(lines) : lines[i].event # Unreadable
    BY <2>1 DEF FileIsWhole
  <2>3. Load(lines) = Events(lines)
    BY <2>2, WholeLoads
  <2> QED
    BY <1>1, <2>3
<1>7. ASSUME FileIsWhole, NEW w \in Writers
      PROVE  /\ IsPrefix(KindsOf(w)', KindsOf(w))
             /\ Len(KindsOf(w)) - Unreturned(w) <= Len(KindsOf(w)')
  <2> DEFINE old == KindsOf(w)
             new == KindsOf(w)'
             told == KindsIn(Events(disk), w)
  <2>1. new = KindsIn(Load(lines), w)
    BY <1>1 DEF KindsOf
  <2>2. old = IF Appending(w) THEN Append(told, recording[w].event.kind) ELSE told
    BY <1>7 DEF TrailInv, FileTells, KindsOf
  <2>3. Unreturned(w) = IF Appending(w) THEN 1 ELSE 0
    BY DEF Unreturned, Appending
  <2>4. new = told \/ new = old
    BY <1>7, <2>1
  <2>5. told \in Seq(Kinds)
    <3>1. disk \in Seq(Line) /\ \A i \in 1..Len(disk) : disk[i].event # Unreadable
      BY <1>1, <1>7 DEF Types, FileIsWhole
    <3> QED
      BY <3>1, EventsTyped, KindsTyped
  <2>6. old \in Seq(Kinds) /\ new \in Seq(Kinds)
    BY <1>4
  <2>7. Appending(w) => recording[w].event.kind \in Kinds
    BY <1>1 DEF Appending, Types, Call, Event, Idle
  <2> HIDE DEF old, new, told
  <2>8. \/ new = old
        \/ Appending(w) /\ new = told /\ old = Append(told, recording[w].event.kind)
    BY <2>2, <2>4
  <2>9. CASE new = old
    <3>1. IsPrefix(new, old)
      BY <2>6, <2>9, PrefixPointwise
    <3> QED
      BY <2>3, <2>6, <2>9, <3>1 DEF old, new
  <2>10. CASE Appending(w) /\ new = told /\ old = Append(told, recording[w].event.kind)
    <3>1. Len(old) = Len(told) + 1 /\ \A i \in 1..Len(told) : old[i] = told[i]
      BY <2>5, <2>7, <2>10, AppendProperties
    <3>2. IsPrefix(new, old)
      <4>1. Len(new) <= Len(old) /\ \A i \in 1..Len(new) : new[i] = old[i]
        BY <2>5, <2>10, <3>1
      <4> QED
        BY <2>6, <4>1, PrefixPointwise
    <3> QED
      BY <2>3, <2>5, <2>10, <3>1, <3>2 DEF old, new
  <2> QED
    BY <2>8, <2>9, <2>10
<1>8. Trail!Reloaded
  <2> DEFINE tr == [w \in Writers |-> KindsOf(w)]
             st == [w \in Writers |-> Len(KindsOf(w)) - Unreturned(w)]
  <2>1. FileIsWhole' => FileIsWhole
    OBVIOUS
  <2>2. FileIsWhole => \A w \in Writers : IsPrefix(tr'[w], tr[w]) /\ st[w] <= Len(tr'[w])
    BY <1>7
  <2>3. st' = [w \in Writers |-> Len(tr'[w])]
    <3>1. \A w \in Writers : Len(KindsOf(w)') - Unreturned(w)' = Len(KindsOf(w)')
      BY <1>2, <1>4
    <3> QED
      BY <3>1
  <2>4. FileIsWhole =>
          \A w \in Writers : Trail!IsPrefix(tr'[w], tr[w]) /\ st[w] <= Len(tr'[w])
    BY <2>2, SamePrefix
  <2> HIDE DEF tr, st
  <2> QED
    BY <2>1, <2>3, <2>4 DEF Trail!Reloaded, Trail!MayTurnUnsound, tr, st
<1> QED
  BY <1>5, <1>6, <1>8

(* A line torn at the end of a whole file is read as its event or not. *)
LEMMA TornLoads ==
  ASSUME disk \in Seq(Line), FileIsWhole, NEW event \in Event, NEW e \in {event, Unreadable}
  PROVE  LET lines == Written(e, FALSE)
         IN  Load(lines) = Events(disk) \/ Load(lines) = Append(Events(disk), event)
<1> DEFINE lines == Written(e, FALSE)
           n == Len(disk)
<1>0. n \in Nat
  OBVIOUS
<1>1. \A i \in 1..n : disk[i].ended /\ disk[i].event # Unreadable
  BY DEF FileIsWhole
<1>2. /\ lines \in Seq(Line) /\ Len(lines) = n + 1
      /\ \A i \in 1..n : lines[i] = disk[i]
      /\ lines[n + 1].event = e
  <2>1. ~(disk # << >> /\ ~Last(disk).ended)
    <3>1. disk # << >> => n \in 1..n
      BY <1>0, EmptySeq
    <3> QED
      BY <1>1, <3>1 DEF Last
  <2> HIDE DEF n
  <2> QED
    BY <1>0, <2>1, WrittenLines DEF n
<1> HIDE DEF lines
<1>3. PICK k \in 0..(n + 1) :
         /\ Load(lines) = [i \in 1..k |-> lines[i].event] /\ ReadableTo(lines, k)
         /\ \A j \in 0..(n + 1) : ReadableTo(lines, j) => j <= k
  BY <1>0, <1>2, LoadReads
<1>4. /\ Events(disk) \in Seq(Event) /\ Len(Events(disk)) = n
      /\ \A i \in 1..n : Events(disk)[i] = disk[i].event
  BY <1>1, EventsTyped
<1>5. Load(lines) \in Seq(Event)
  BY <1>2, LoadTyped
<1>6. Len(Load(lines)) = k /\ \A i \in 1..k : Load(lines)[i] = lines[i].event
  BY <1>0, <1>3, <1>5
<1>7. k >= n
  <2>1. ReadableTo(lines, n)
    BY <1>1, <1>2 DEF ReadableTo
  <2> QED
    BY <1>0, <1>3, <2>1
<1>8. CASE k = n
  <2>1. \A i \in 1..n : Load(lines)[i] = Events(disk)[i]
    BY <1>2, <1>4, <1>6, <1>8
  <2>2. Load(lines) = Events(disk)
    BY <1>4, <1>5, <1>6, <1>8, <2>1, SeqEqual
  <2> QED
    BY <2>2 DEF lines
<1>9. CASE k = n + 1
  <2> DEFINE more == Append(Events(disk), event)
  <2>1. lines[n + 1].event # Unreadable
    BY <1>0, <1>3, <1>9 DEF ReadableTo
  <2>2. e = event
    BY <1>2, <2>1
  <2>3. /\ more \in Seq(Event) /\ Len(more) = n + 1 /\ more[n + 1] = event
        /\ \A i \in 1..n : more[i] = Events(disk)[i]
    BY <1>4, AppendProperties
  <2> HIDE DEF more
  <2>4. \A i \in 1..(n + 1) : Load(lines)[i] = more[i]
    <3> TAKE i \in 1..(n + 1)
    <3>1. Load(lines)[i] = lines[i].event
      BY <1>6, <1>9
    <3>2. CASE i = n + 1
      BY <1>2, <2>2, <2>3, <3>1, <3>2
    <3>3. CASE i # n + 1
      <4>1. i \in 1..n
        BY <1>0, <3>3
      <4> QED
        BY <1>2, <1>4, <2>3, <3>1, <4>1
    <3> QED
      BY <3>2, <3>3
  <2>5. Load(lines) = more
    BY <1>5, <1>6, <1>9, <2>3, <2>4, SeqEqual
  <2> QED
    BY <2>5 DEF lines, more
<1>10. k = n \/ k = n + 1
  <2> HIDE DEF n
  <2> QED
    BY <1>0, <1>7
<1> QED
  BY <1>8, <1>9, <1>10

LEMMA RestartTells ==
  ASSUME TrailInv, Restart
  PROVE  OwnEvents' /\ FileTells' /\ Trail!Reloaded
<1>1. disk \in Seq(Line)
  BY DEF TrailInv, Types
<1>2. ASSUME FileIsWhole PROVE \A i \in 1..Len(disk) : disk[i].event # Unreadable
  BY <1>2 DEF FileIsWhole
<1>3. CASE Restarted(disk)
  <2>1. FileIsWhole' => FileIsWhole
    BY <1>3 DEF Restarted, FileIsWhole
  <2>2. FileIsWhole => Load(disk) = Events(disk)
    BY <1>1, <1>2, WholeLoads
  <2> QED
    BY <1>1, <1>3, <2>1, <2>2, LoadedTells
<1>4. ASSUME NEW w \in Writers, Appending(w),
             NEW e \in {recording[w].event, Unreadable}, Restarted(Written(e, FALSE))
      PROVE  OwnEvents' /\ FileTells' /\ Trail!Reloaded
  <2> DEFINE lines == Written(e, FALSE)
             n == Len(disk)
  <2>1. recording[w].event \in Event /\ recording[w] # Idle
    BY <1>4 DEF TrailInv, Types, Appending, Call, Idle
  <2>2. lines \in Seq(Line) /\ disk' = lines
    BY <1>1, <1>4, <2>1, WrittenLines DEF Restarted
  <2>3. ~FileIsWhole'
    <3> SUFFICES ASSUME \A i \in 1..Len(lines) : lines[i].ended /\ lines[i].event # Unreadable
                 PROVE  FALSE
      BY <2>2 DEF FileIsWhole
    <3> QED
      BY <1>1, <2>1, WholeWritten
  <2>4. ASSUME FileIsWhole, NEW v \in Writers
        PROVE  \/ KindsIn(Load(lines), v) = KindsIn(Events(disk), v)
               \/ Appending(v) /\ KindsIn(Load(lines), v) = KindsOf(v)
    <3>1. /\ Events(disk) \in Seq(Event) /\ Len(Events(disk)) = n
          /\ \A i \in 1..n : Events(disk)[i] = disk[i].event
      BY <1>1, <1>2, <2>4, EventsTyped
    <3>2. Load(lines) = Events(disk) \/ Load(lines) = Append(Events(disk), recording[w].event)
      BY <1>1, <2>1, <2>4, TornLoads
    <3>3. recording[w].event.cid = w
      BY <2>1 DEF TrailInv, OwnEvents
    <3>4. KindsOf(v) =
            IF Appending(v) THEN Append(KindsIn(Events(disk), v), recording[v].event.kind)
            ELSE KindsIn(Events(disk), v)
      BY <2>4 DEF TrailInv, FileTells, KindsOf
    <3>5. CASE Load(lines) = Append(Events(disk), recording[w].event)
      <4>1. KindsIn(Load(lines), v) =
              IF v = w THEN Append(KindsIn(Events(disk), v), recording[w].event.kind)
              ELSE KindsIn(Events(disk), v)
        <5> DEFINE event == recording[w].event
                   told == Events(disk)
        <5>1. event \in Event /\ told \in Seq(Event) /\ event.cid = w
          BY <2>1, <3>1, <3>3
        <5> HIDE DEF event, told
        <5>2. KindsIn(Append(told, event), v) =
                IF event.cid = v THEN Append(KindsIn(told, v), event.kind) ELSE KindsIn(told, v)
          BY <5>1, KindsAppend
        <5> QED
          BY <3>5, <5>1, <5>2 DEF event, told
      <4> QED
        BY <1>4, <3>4, <4>1
    <3> QED
      BY <3>2, <3>5
  <2> HIDE DEF lines
  <2>5. Restarted(lines)
    BY <1>4 DEF lines
  <2> QED
    BY <2>2, <2>3, <2>4, <2>5, LoadedTells
<1> QED
  BY <1>3, <1>4 DEF Restart, Appending, CutShort

LEMMA InitTrail == Init => TrailInv /\ Trail!TrailInit
<1> SUFFICES ASSUME Init PROVE TrailInv /\ Trail!TrailInit
  OBVIOUS
<1>1. /\ memory = << >> /\ disk = << >> /\ Len(disk) = 0 /\ unsaved = FALSE
      /\ \A w \in Writers : recording[w] = Idle /\ Idle.stage = "idle"
  BY DEF Init, Idle
<1>2. Types
  BY InitChain DEF ChainInv
<1>3. Events(disk) = << >>
  BY <1>1 DEF Events
<1>4. OwnEvents /\ FileTells
  BY <1>1, <1>3 DEF OwnEvents, FileTells, Appending
<1>5. FileIsWhole
  BY <1>1 DEF FileIsWhole
<1>6. \A w \in Writers : KindsOf(w) = << >> /\ Unreturned(w) = 0
  BY <1>1, KindsNone DEF KindsOf, Unreturned
<1>7. Trail!TrailInit
  <2>1. [w \in Writers |-> KindsOf(w)] = [c \in Writers |-> << >>]
    BY <1>6
  <2>2. [w \in Writers |-> Len(KindsOf(w)) - Unreturned(w)] = [c \in Writers |-> 0]
    <3>1. \A w \in Writers : Len(KindsOf(w)) - Unreturned(w) = 0
      BY <1>6
    <3> QED
      BY <3>1
  <2>3. FileIsWhole = TRUE
    BY <1>5
  <2> QED
    BY <2>1, <2>2, <2>3, Zenon DEF Trail!TrailInit
<1> QED
  BY <1>2, <1>4, <1>7 DEF TrailInv

(* Every step is one of the trail's, or none of them.  An event is on the  *)
(* trail when it is appended in memory, and its call returns when it was   *)
(* written or given up.                                                    *)
LEMMA StepTrail ==
  TrailInv /\ ChainInv /\ [Next]_vars => TrailInv' /\ [Trail!TrailNext]_(Trail!trailVars)
<1> SUFFICES ASSUME TrailInv, ChainInv, [Next]_vars
             PROVE  TrailInv' /\ [Trail!TrailNext]_(Trail!trailVars)
  OBVIOUS
<1>t. Types'
  BY NextChain DEF ChainInv
<1> DEFINE tr == [w \in Writers |-> KindsOf(w)]
           st == [w \in Writers |-> Len(KindsOf(w)) - Unreturned(w)]
           so == FileIsWhole
<1>k. \A w \in Writers : KindsOf(w) \in Seq(Kinds) /\ KindsOf(w)' \in Seq(Kinds)
  BY <1>t, KindsTyped DEF TrailInv, Types, KindsOf
<1>s. ASSUME UNCHANGED <<memory, disk, unsaved>>,
             \A w \in Writers : Appending(w)' = Appending(w)
      PROVE  UNCHANGED Trail!trailVars
  <2>1. so' = so
    BY <1>s DEF FileIsWhole
  <2>2. \A w \in Writers : KindsOf(w)' = KindsOf(w) /\ Unreturned(w)' = Unreturned(w)
    BY <1>s DEF KindsOf, Unreturned, Appending
  <2>3. tr' = tr /\ st' = st
    BY <2>2
  <2> QED
    BY <2>1, <2>3 DEF Trail!trailVars
<1>1. CASE UNCHANGED vars
  <2>1. UNCHANGED <<memory, disk, unsaved, recording>>
    BY <1>1 DEF vars
  <2>2. OwnEvents' /\ FileTells' /\ \A w \in Writers : Appending(w)' = Appending(w)
    BY <2>1 DEF TrailInv, OwnEvents, FileTells, FileIsWhole, Appending, Events
  <2> QED
    BY <1>t, <1>s, <2>1, <2>2 DEF TrailInv
<1>2. ASSUME NEW w \in Writers, NEW kind \in Kinds, BeginRecord(w, kind)
      PROVE  TrailInv' /\ [Trail!TrailNext]_(Trail!trailVars)
  BY <1>t, <1>s, <1>2, BeginTells DEF TrailInv
<1>3. ASSUME NEW w \in Writers, AppendEvent(w)
      PROVE  TrailInv' /\ [Trail!TrailNext]_(Trail!trailVars)
  <2> DEFINE kind == recording[w].event.kind
  <2>1. /\ OwnEvents' /\ FileTells' /\ kind \in Kinds
        /\ ~Appending(w) /\ Appending(w)'
        /\ \A v \in Writers \ {w} : recording'[v] = recording[v]
        /\ KindsOf(w)' = Append(KindsOf(w), kind)
        /\ \A v \in Writers \ {w} : KindsOf(v)' = KindsOf(v)
        /\ UNCHANGED <<disk, unsaved>>
    BY <1>3, AppendTells DEF Event
  <2> HIDE DEF kind
  <2>2. so' = so
    BY <2>1 DEF FileIsWhole
  <2>3. tr' = [tr EXCEPT ![w] = Append(@, kind)]
    BY <2>1
  <2>4. \A v \in Writers :
          Len(KindsOf(v)') - Unreturned(v)' = Len(KindsOf(v)) - Unreturned(v)
    <3> TAKE v \in Writers
    <3>1. CASE v = w
      <4>1. Unreturned(v) = 0 /\ Unreturned(v)' = 1
        BY <2>1, <3>1 DEF Appending, Unreturned
      <4>2. Len(KindsOf(v)') = Len(KindsOf(v)) + 1 /\ Len(KindsOf(v)) \in Nat
        BY <1>k, <2>1, <3>1, AppendProperties
      <4> QED
        BY <4>1, <4>2
    <3>2. CASE v # w
      BY <2>1, <3>2 DEF Unreturned
    <3> QED
      BY <3>1, <3>2
  <2>5. st' = st
    BY <2>4
  <2>6. Trail!Recorded(w, kind)
    BY <2>2, <2>3, <2>5, Zenon DEF Trail!Recorded
  <2>7. Trail!TrailNext
    BY <2>1, <2>6 DEF Trail!TrailNext
  <2> QED
    BY <1>t, <2>1, <2>7 DEF TrailInv
<1>4. ASSUME NEW w \in Writers, Persist(w)
      PROVE  TrailInv' /\ [Trail!TrailNext]_(Trail!trailVars)
  <2>1. /\ OwnEvents' /\ FileTells' /\ memory' = memory
        /\ FileIsWhole' => FileIsWhole
        /\ recording'[w] = Idle /\ \A v \in Writers \ {w} : recording'[v] = recording[v]
    BY <1>4, PersistTells
  <2>2. \A v \in Writers : KindsOf(v)' = KindsOf(v)
    BY <2>1 DEF KindsOf
  <2>3. tr' = tr
    BY <2>2
  <2>4. \A v \in Writers : Len(KindsOf(v)') - Unreturned(v)' =
          IF v = w THEN Len(KindsOf(v)) ELSE Len(KindsOf(v)) - Unreturned(v)
    <3> TAKE v \in Writers
    <3>1. Len(KindsOf(v)) \in Nat
      BY <1>k
    <3>2. v = w => Unreturned(v)' = 0
      BY <2>1 DEF Unreturned, Idle
    <3>3. v # w => Unreturned(v)' = Unreturned(v)
      BY <2>1 DEF Unreturned
    <3> QED
      BY <2>2, <3>1, <3>2, <3>3
  <2>5. st' = [st EXCEPT ![w] = Len(tr[w])]
    BY <2>4
  <2>6. Trail!Returned(w)
    BY <2>1, <2>3, <2>5, Zenon DEF Trail!Returned, Trail!MayTurnUnsound
  <2>7. Trail!TrailNext
    BY <2>6, Zenon DEF Trail!TrailNext
  <2> QED
    BY <1>t, <2>1, <2>7 DEF TrailInv
<1>5. CASE Restart
  <2>1. OwnEvents' /\ FileTells' /\ Trail!Reloaded
    BY <1>5, RestartTells
  <2>2. Trail!TrailNext
    BY <2>1, Zenon DEF Trail!TrailNext
  <2> QED
    BY <1>t, <2>1, <2>2 DEF TrailInv
<1> QED
  BY <1>1, <1>2, <1>3, <1>4, <1>5 DEF Next

(* The ledger keeps the promise of AuditTrail, on which the gateway relies *)
(* and reconstruct_lifecycle with it, with any number of threads, failed   *)
(* writes and restarts.                                                    *)
THEOREM TrailKept == Spec => KeepsTrail
BY InitChain, NextChain, InitTrail, StepTrail, PTL DEF Spec, KeepsTrail, Trail!TrailSpec
================================================================================
