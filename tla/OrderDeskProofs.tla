---------------------------- MODULE OrderDeskProofs ----------------------------
(***************************************************************************)
(* Proofs about OrderDesk, for any requests, slices and attempts.          *)
(***************************************************************************)
EXTENDS OrderDesk, FiniteSetTheorems, SequenceTheorems, TLAPS

(* Where a thread is tells what it has recorded of its exception, of the   *)
(* responses and of the answer.                                            *)
PathInv ==
    \A r \in Requests :
        /\ pc[r] # "done" => answer[r] = "none"
        /\ pc[r] \notin {"respond", "done"} => fault[r] = "none"
        /\ pc[r] = "respond" /\ fault[r] = "none" => responses[r] # << >>

PInv == TypeOK /\ PathInv

LEMMA ConstantTypes ==
    /\ IsFiniteSet(Requests)
    /\ Cid \in [Requests -> CorrelationIds]
    /\ Slices \in [Requests -> Nat \ {0}]
    /\ Operator \notin Requests
    /\ MaxAttempts \in Nat \ {0}
    /\ MaxRestarts \in Nat
BY DeskAssumption DEF DeskAssumption

LEMMA InitPInv == Init => PInv
<1> SUFFICES ASSUME Init PROVE PInv
  OBVIOUS
<1>1. << >> \in Seq(EventKinds) /\ << >> \in Seq({"accepted", "pending"})
  OBVIOUS
<1>2. /\ slice \in [Requests -> Nat] /\ \A r \in Requests : slice[r] \in 1..Slices[r]
      /\ attempt \in [Requests -> 1..MaxAttempts]
  BY ConstantTypes DEF Init
<1>3. /\ trail \in [CorrelationIds -> Seq(EventKinds)]
      /\ responses \in [Requests -> Seq({"accepted", "pending"})]
  BY <1>1 DEF Init
<1>4. restarts \in 0..MaxRestarts
  BY ConstantTypes DEF Init
<1>5. TypeOK
  BY <1>2, <1>3, <1>4 DEF Init, TypeOK, PCs
<1> QED BY <1>5 DEF Init, PInv, PathInv

LEMMA RecordTyped ==
    ASSUME NEW r \in Requests, NEW kind \in EventKinds, Record(r, kind),
           trail \in [CorrelationIds -> Seq(EventKinds)], sound \in BOOLEAN
    PROVE  /\ trail' \in [CorrelationIds -> Seq(EventKinds)]
           /\ sound' \in BOOLEAN
<1>1. Cid[r] \in CorrelationIds /\ Append(trail[Cid[r]], kind) \in Seq(EventKinds)
  BY ConstantTypes, AppendProperties
<1>2. trail' \in [CorrelationIds -> Seq(EventKinds)]
  BY <1>1 DEF Record
<1> QED BY <1>2, Zenon DEF Record

LEMMA PlacesTyped ==
    ASSUME TypeOK, NEW r \in Requests, PerhapsPlaced(r) \/ (DhanPlaces(r) /\ UNCHANGED unconfirmed)
    PROVE  /\ orders' \in [Requests -> [SliceNumbers -> Nat]]
           /\ unconfirmed' \in [Requests -> [SliceNumbers -> Nat]]
<1>1. slice[r] \in SliceNumbers
  BY DEF TypeOK, SliceNumbers
<1>2. orders[r] \in [SliceNumbers -> Nat] /\ unconfirmed[r] \in [SliceNumbers -> Nat]
  BY DEF TypeOK
<1>3. /\ [orders[r] EXCEPT ![slice[r]] = @ + 1] \in [SliceNumbers -> Nat]
      /\ [unconfirmed[r] EXCEPT ![slice[r]] = @ + 1] \in [SliceNumbers -> Nat]
  BY <1>1, <1>2
<1>4. \/ UNCHANGED orders
      \/ orders' = [orders EXCEPT ![r] = [orders[r] EXCEPT ![slice[r]] = @ + 1]]
  BY DEF DhanPlaces, PerhapsPlaced
<1>5. \/ UNCHANGED unconfirmed
      \/ unconfirmed' = [unconfirmed EXCEPT ![r] = [unconfirmed[r] EXCEPT ![slice[r]] = @ + 1]]
  BY DEF PerhapsPlaced
<1>6. orders' \in [Requests -> [SliceNumbers -> Nat]]
  BY <1>3, <1>4 DEF TypeOK
<1>7. unconfirmed' \in [Requests -> [SliceNumbers -> Nat]]
  BY <1>3, <1>5 DEF TypeOK
<1> QED BY <1>6, <1>7

(* What an attempt that ends the slice or the request does to the thread.  *)
LEMMA OutcomeTyped ==
    ASSUME PInv, NEW r \in Requests, pc[r] = "send",
           NEW status \in {"accepted", "pending"},
           Responded(r, status) \/ Raised(r)
    PROVE  /\ pc' \in [Requests -> PCs]
           /\ slice' \in [Requests -> Nat] /\ \A q \in Requests : slice'[q] \in 1..Slices[q]
           /\ attempt' \in [Requests -> 1..MaxAttempts]
           /\ responses' \in [Requests -> Seq({"accepted", "pending"})]
           /\ fault' \in [Requests -> {"none", "refused", "error"}]
           /\ pc'[r] \in {"check", "respond"}
           /\ pc'[r] = "check" => fault'[r] = "none"
           /\ pc'[r] = "respond" /\ fault'[r] = "none" => responses'[r] # << >>
           /\ \A q \in Requests \ {r} : /\ pc'[q] = pc[q] /\ fault'[q] = fault[q]
                                        /\ responses'[q] = responses[q]
<1> USE ConstantTypes DEF PInv, TypeOK, PCs, Goto
<1>1. CASE Responded(r, status)
  <2>1. /\ Append(responses[r], status) \in Seq({"accepted", "pending"})
        /\ Append(responses[r], status) # << >>
    <3>1. responses[r] \in Seq({"accepted", "pending"})
      OBVIOUS
    <3> HIDE DEF PInv, TypeOK, PCs, Goto
    <3> QED BY <3>1, AppendProperties
  <2>2. responses' = [responses EXCEPT ![r] = Append(responses[r], status)]
    BY <1>1 DEF Responded
  <2>3. slice' \in [Requests -> Nat] /\ \A q \in Requests : slice'[q] \in 1..Slices[q]
    <3>1. CASE slice[r] < Slices[r] /\ slice' = [slice EXCEPT ![r] = @ + 1]
      BY <3>1
    <3>2. CASE UNCHANGED slice
      BY <3>2
    <3> QED BY <1>1, <3>1, <3>2 DEF Responded
  <2>4. attempt' \in [Requests -> 1..MaxAttempts]
    BY <1>1 DEF Responded
  <2>5. /\ responses' \in [Requests -> Seq({"accepted", "pending"})] /\ responses'[r] # << >>
        /\ \A q \in Requests \ {r} : responses'[q] = responses[q]
    BY <2>1, <2>2
  <2>6. /\ pc' \in [Requests -> PCs] /\ pc'[r] \in {"check", "respond"}
        /\ fault' = fault
        /\ \A q \in Requests \ {r} : pc'[q] = pc[q]
    BY <1>1 DEF Responded
  <2> QED BY <2>3, <2>4, <2>5, <2>6 DEF PathInv
<1>2. CASE Raised(r)
  BY <1>2 DEF Raised
<1> QED BY <1>1, <1>2

LEMMA StepPInv == PInv /\ [Next]_vars => PInv'
<1> SUFFICES ASSUME PInv, [Next]_vars PROVE PInv'
  OBVIOUS
<1> USE ConstantTypes DEF PInv, TypeOK, PathInv, PCs, Goto
<1>1. ASSUME NEW r \in Requests, Post(r) PROVE PInv'
  <2>1. trail' \in [CorrelationIds -> Seq(EventKinds)] /\ sound' \in BOOLEAN
    BY <1>1, RecordTyped DEF Post, EventKinds
  <2>2. TypeOK'
    BY <1>1, <2>1 DEF Post
  <2>3. PathInv'
    BY <1>1 DEF Post
  <2> QED BY <2>2, <2>3
<1>2. ASSUME NEW r \in Requests, Filter(r) PROVE PInv'
  <2>1. trail' \in [CorrelationIds -> Seq(EventKinds)] /\ sound' \in BOOLEAN
    BY <1>2, RecordTyped DEF Filter, EventKinds
  <2>2. pc' \in [Requests -> PCs] /\ answer' \in [Requests ->
             {"none", "accepted", "pending", "refused", "error"}]
    BY <1>2 DEF Filter
  <2>3. TypeOK'
    BY <1>2, <2>1, <2>2 DEF Filter
  <2>4. PathInv'
    BY <1>2, <2>2 DEF Filter
  <2> QED BY <2>3, <2>4
<1>3. ASSUME NEW r \in Requests, RecordSubmitted(r) PROVE PInv'
  <2>1. trail' \in [CorrelationIds -> Seq(EventKinds)] /\ sound' \in BOOLEAN
    BY <1>3, RecordTyped DEF RecordSubmitted, EventKinds
  <2>2. TypeOK'
    BY <1>3, <2>1 DEF RecordSubmitted
  <2>3. PathInv'
    BY <1>3 DEF RecordSubmitted
  <2> QED BY <2>2, <2>3
<1>4. ASSUME NEW r \in Requests, Check(r) PROVE PInv'
  <2>1. TypeOK'
    BY <1>4 DEF Check
  <2>2. PathInv'
    BY <1>4 DEF Check
  <2> QED BY <2>1, <2>2
<1>5. ASSUME NEW r \in Requests, Attempt(r) PROVE PInv'
  <2>1. /\ orders' \in [Requests -> [SliceNumbers -> Nat]]
        /\ unconfirmed' \in [Requests -> [SliceNumbers -> Nat]]
    <3>1. \/ PerhapsPlaced(r)
          \/ DhanPlaces(r) /\ UNCHANGED unconfirmed
      BY <1>5 DEF Attempt, Accepted, Rejected, Unreadable, Transient, PerhapsPlaced
    <3> QED BY <3>1, PlacesTyped
  <2>2. CASE \E status \in {"accepted", "pending"} : Responded(r, status) \/ Raised(r)
    <3>1. PICK status \in {"accepted", "pending"} : Responded(r, status) \/ Raised(r)
      BY <2>2
    <3>2. /\ pc[r] = "send"
          /\ UNCHANGED <<trail, sound, halted, answer, restarts>>
      BY <1>5 DEF Attempt
    <3>3. /\ pc' \in [Requests -> PCs]
          /\ slice' \in [Requests -> Nat] /\ \A q \in Requests : slice'[q] \in 1..Slices[q]
          /\ attempt' \in [Requests -> 1..MaxAttempts]
          /\ responses' \in [Requests -> Seq({"accepted", "pending"})]
          /\ fault' \in [Requests -> {"none", "refused", "error"}]
          /\ pc'[r] \in {"check", "respond"}
          /\ pc'[r] = "check" => fault'[r] = "none"
          /\ pc'[r] = "respond" /\ fault'[r] = "none" => responses'[r] # << >>
          /\ \A q \in Requests \ {r} : /\ pc'[q] = pc[q] /\ fault'[q] = fault[q]
                                       /\ responses'[q] = responses[q]
      <4> HIDE DEF PInv, TypeOK, PathInv, PCs
      <4> QED BY <3>1, <3>2, OutcomeTyped, Zenon
    <3>4. TypeOK'
      BY <2>1, <3>2, <3>3
    <3>5. PathInv'
      <4> SUFFICES ASSUME NEW q \in Requests
                   PROVE  /\ pc'[q] # "done" => answer'[q] = "none"
                          /\ pc'[q] \notin {"respond", "done"} => fault'[q] = "none"
                          /\ pc'[q] = "respond" /\ fault'[q] = "none" => responses'[q] # << >>
        OBVIOUS
      <4>1. CASE q = r
        BY <3>2, <3>3, <4>1
      <4>2. CASE q # r
        BY <3>2, <3>3, <4>2
      <4> QED BY <4>1, <4>2
    <3> QED BY <3>4, <3>5
  <2>3. CASE /\ ShouldRetry(r)
             /\ attempt' = [attempt EXCEPT ![r] = @ + 1]
             /\ UNCHANGED <<pc, slice, responses, fault>>
    <3>1. attempt' \in [Requests -> 1..MaxAttempts]
      BY <2>3 DEF ShouldRetry
    <3> QED BY <1>5, <2>1, <2>3, <3>1 DEF Attempt
  <2> QED BY <1>5, <2>2, <2>3 DEF Attempt, Accepted, Rejected, Unreadable, Transient
<1>6. ASSUME NEW r \in Requests, Respond(r) PROVE PInv'
  <2>1. trail' \in [CorrelationIds -> Seq(EventKinds)] /\ sound' \in BOOLEAN
    <3>1. \E kind \in EventKinds : Record(r, kind)
      BY <1>6 DEF Respond, EventKinds
    <3> QED BY <3>1, RecordTyped
  <2>2. CASE MoreToRecord(r) /\ responses' = [responses EXCEPT ![r] = Front(@)]
             /\ UNCHANGED <<pc, answer>>
    <3>1. Front(responses[r]) \in Seq({"accepted", "pending"}) /\ Front(responses[r]) # << >>
      <4>1. Len(responses[r]) \in Nat /\ Len(responses[r]) > 1
        BY <2>2 DEF MoreToRecord
      <4>2. \A i \in 1..(Len(responses[r]) - 1) : responses[r][i] \in {"accepted", "pending"}
        BY <4>1
      <4>3. /\ Front(responses[r]) \in Seq({"accepted", "pending"})
            /\ Len(Front(responses[r])) = Len(responses[r]) - 1
        BY <4>1, <4>2, SubSeqProperties DEF Front
      <4> QED BY <4>1, <4>3
    <3> QED BY <1>6, <2>1, <2>2, <3>1 DEF Respond
  <2>3. CASE /\ answer' = [answer EXCEPT ![r] = Answer(r)]
             /\ Goto(r, "done") /\ UNCHANGED responses
    <3>1. Answer(r) \in {"accepted", "pending", "refused", "error"}
      BY <1>6 DEF Answer, Respond
    <3> QED BY <1>6, <2>1, <2>3, <3>1 DEF Respond
  <2> QED BY <1>6, <2>2, <2>3 DEF Respond
<1>7. ASSUME Halt PROVE PInv'
  BY <1>7 DEF Halt
<1>8. ASSUME Unhalt PROVE PInv'
  BY <1>8 DEF Unhalt
<1>9. ASSUME ProcessEnds PROVE PInv'
  <2>1. trail' \in [CorrelationIds -> Seq(EventKinds)]
    BY <1>9 DEF ProcessEnds
  <2>2. sound' \in BOOLEAN
    BY <1>9, Zenon DEF ProcessEnds
  <2>3. restarts' \in 0..MaxRestarts
    BY <1>9 DEF ProcessEnds
  <2> QED BY <1>9, <2>1, <2>2, <2>3 DEF ProcessEnds
<1>10. ASSUME UNCHANGED vars PROVE PInv'
  BY <1>10 DEF vars
<1> QED BY <1>1, <1>2, <1>3, <1>4, <1>5, <1>6, <1>7, <1>8, <1>9, <1>10
        DEF Next, RequestStep

(* Every variable keeps its type, and no slice is attempted more than      *)
(* MaxAttempts times (ShouldRetry of RetryPolicy).                         *)
THEOREM TypeCorrect == Spec => []TypeOK
<1>1. PInv => TypeOK
  BY DEF PInv
<1> QED BY InitPInv, StepPInv, <1>1, PTL DEF Spec

LEMMA AlwaysPInv == Spec => []PInv
BY InitPInv, StepPInv, PTL DEF Spec

(***************************************************************************)
(* What a request left at Dhan.                                            *)
(***************************************************************************)
(* Nothing of a slice before its first attempt, and less than its attempts *)
(* until the last of them.                                                 *)
SlicesInv ==
    \A r \in Requests :
        /\ pc[r] \in {"idle", "filter", "approved", "check"} => attempt[r] = 1
        /\ \A s \in SliceNumbers :
            /\ pc[r] \in {"idle", "filter", "approved", "check"} /\ s >= slice[r]
                  => orders[r][s] = 0
            /\ pc[r] = "send" /\ s > slice[r] => orders[r][s] = 0
            /\ pc[r] = "send" /\ s = slice[r]
                  => orders[r][s] < attempt[r] /\ orders[r][s] <= unconfirmed[r][s]
            /\ pc[r] = "respond" /\ fault[r] = "refused" /\ s >= slice[r] => orders[r][s] = 0

SInv == SlicesInv /\ RefusedIsUnplaced /\ DuplicatesWereUnconfirmed

LEMMA InitSInv == Init => SInv
BY ConstantTypes DEF Init, SInv, SlicesInv, RefusedIsUnplaced, DuplicatesWereUnconfirmed

LEMMA SliceTypes ==
    ASSUME TypeOK, NEW r \in Requests, NEW s \in SliceNumbers
    PROVE  /\ s \in Nat /\ slice[r] \in Nat /\ slice[r] \in SliceNumbers
           /\ orders[r][s] \in Nat /\ unconfirmed[r][s] \in Nat
           /\ attempt[r] \in 1..MaxAttempts /\ MaxAttempts \in Nat \ {0}
<1>1. PICK q \in Requests : s \in 1..Slices[q]
  BY DEF SliceNumbers
<1>2. slice[r] \in Nat /\ slice[r] \in 1..Slices[r]
  BY DEF TypeOK
<1>3. orders[r] \in [SliceNumbers -> Nat] /\ unconfirmed[r] \in [SliceNumbers -> Nat]
  BY DEF TypeOK
<1>4. attempt[r] \in 1..MaxAttempts /\ MaxAttempts \in Nat \ {0}
  BY ConstantTypes DEF TypeOK
<1> QED BY <1>1, <1>2, <1>3, <1>4 DEF SliceNumbers

(* The conjuncts of SInv about one slice of one request. *)
SliceInv(r, s) ==
    /\ pc[r] \in {"idle", "filter", "approved", "check"} /\ s >= slice[r] => orders[r][s] = 0
    /\ pc[r] = "send" /\ s > slice[r] => orders[r][s] = 0
    /\ pc[r] = "send" /\ s = slice[r]
          => orders[r][s] < attempt[r] /\ orders[r][s] <= unconfirmed[r][s]
    /\ pc[r] = "respond" /\ fault[r] = "refused" /\ s >= slice[r] => orders[r][s] = 0
    /\ answer[r] = "refused" /\ s >= slice[r] => orders[r][s] = 0
    /\ orders[r][s] <= unconfirmed[r][s] + 1 /\ orders[r][s] <= MaxAttempts

LEMMA SInvBySlice ==
    SInv <=> \A r \in Requests :
                /\ pc[r] \in {"idle", "filter", "approved", "check"} => attempt[r] = 1
                /\ \A s \in SliceNumbers : SliceInv(r, s)
BY DEF SInv, SlicesInv, RefusedIsUnplaced, DuplicatesWereUnconfirmed, SliceInv

LEMMA OtherThreads ==
    ASSUME PInv, NEW r \in Requests, NEW q \in Requests, q # r, RequestStep(q)
    PROVE  UNCHANGED <<pc[r], slice[r], attempt[r], fault[r], answer[r], orders[r],
                       unconfirmed[r]>>
<1> USE DEF PInv, TypeOK, Goto
<1>1. CASE Post(q) \/ Filter(q) \/ RecordSubmitted(q) \/ Check(q) \/ Respond(q)
  BY <1>1 DEF Post, Filter, RecordSubmitted, Check, Respond
<1>2. CASE Attempt(q)
  <2>1. UNCHANGED <<orders[r], unconfirmed[r], answer[r]>>
    BY <1>2 DEF Attempt, Accepted, Rejected, Unreadable, Transient, PerhapsPlaced, DhanPlaces
  <2>2. UNCHANGED <<pc[r], slice[r], attempt[r], fault[r]>>
    BY <1>2 DEF Attempt, Accepted, Rejected, Unreadable, Transient, Responded, Raised
  <2> QED BY <2>1, <2>2
<1> QED BY <1>1, <1>2 DEF RequestStep

(* An attempt places one order of its slice or none. *)
LEMMA AttemptPlaces ==
    ASSUME PInv, NEW r \in Requests, NEW s \in SliceNumbers, Attempt(r)
    PROVE  /\ \/ orders'[r][s] = orders[r][s] /\ unconfirmed'[r][s] = unconfirmed[r][s]
              \/ /\ s = slice[r] /\ orders'[r][s] = orders[r][s] + 1
                 /\ \/ unconfirmed'[r][s] = unconfirmed[r][s] + 1
                    \/ unconfirmed'[r][s] = unconfirmed[r][s] /\ Responded(r, "accepted")
           /\ \/ \E status \in {"accepted", "pending"} : Responded(r, status)
              \/ Raised(r)
              \/ /\ attempt[r] < MaxAttempts /\ attempt' = [attempt EXCEPT ![r] = @ + 1]
                 /\ UNCHANGED <<pc, slice, fault>>
<1>1. /\ orders[r] \in [SliceNumbers -> Nat] /\ unconfirmed[r] \in [SliceNumbers -> Nat]
      /\ orders \in [Requests -> [SliceNumbers -> Nat]]
      /\ unconfirmed \in [Requests -> [SliceNumbers -> Nat]]
      /\ slice[r] \in SliceNumbers
  BY SliceTypes DEF PInv, TypeOK
<1>2. ASSUME DhanPlaces(r)
      PROVE  orders'[r][s] = orders[r][s] + IF s = slice[r] THEN 1 ELSE 0
  <2>1. orders'[r] = [orders[r] EXCEPT ![slice[r]] = @ + 1]
    BY <1>1, <1>2 DEF DhanPlaces
  <2> QED BY <1>1, <2>1
<1>3. ASSUME PerhapsPlaced(r)
      PROVE  \/ orders'[r][s] = orders[r][s] /\ unconfirmed'[r][s] = unconfirmed[r][s]
             \/ /\ s = slice[r] /\ orders'[r][s] = orders[r][s] + 1
                /\ unconfirmed'[r][s] = unconfirmed[r][s] + 1
  <2>1. CASE DhanPlaces(r) /\ unconfirmed' = [unconfirmed EXCEPT ![r][slice[r]] = @ + 1]
    <3>1. unconfirmed'[r] = [unconfirmed[r] EXCEPT ![slice[r]] = @ + 1]
      BY <1>1, <2>1
    <3> QED BY <1>1, <1>2, <2>1, <3>1
  <2>2. CASE UNCHANGED <<orders, unconfirmed>>
    BY <2>2
  <2> QED BY <1>3, <2>1, <2>2 DEF PerhapsPlaced
<1>4. CASE Accepted(r)
  BY <1>1, <1>2, <1>4 DEF Accepted
<1>5. CASE Rejected(r)
  BY <1>5 DEF Rejected
<1>6. CASE Unreadable(r)
  BY <1>3, <1>6 DEF Unreadable
<1>7. CASE Transient(r)
  BY <1>3, <1>7 DEF Transient, ShouldRetry
<1> QED BY <1>4, <1>5, <1>6, <1>7 DEF Attempt

LEMMA AttemptSlices ==
    ASSUME PInv, NEW r \in Requests, Attempt(r), NEW s \in SliceNumbers, SliceInv(r, s)
    PROVE  /\ SliceInv(r, s)'
           /\ pc'[r] \in {"idle", "filter", "approved", "check"} => attempt'[r] = 1
<1>1. /\ pc[r] = "send" /\ answer'[r] = "none" /\ fault[r] = "none"
      /\ pc \in [Requests -> PCs] /\ slice \in [Requests -> Nat]
      /\ attempt \in [Requests -> 1..MaxAttempts]
      /\ fault \in [Requests -> {"none", "refused", "error"}]
  BY DEF Attempt, PInv, TypeOK, PathInv
<1>2. /\ s \in Nat /\ slice[r] \in Nat
      /\ orders[r][s] \in Nat /\ unconfirmed[r][s] \in Nat
      /\ attempt[r] \in 1..MaxAttempts /\ MaxAttempts \in Nat \ {0}
  BY SliceTypes DEF PInv
<1>3. \/ /\ pc'[r] \in {"check", "respond"} /\ fault'[r] = "none" /\ attempt'[r] = 1
         /\ pc'[r] = "check" => slice'[r] = slice[r] + 1
         /\ ~(pc'[r] = "respond" /\ fault'[r] = "refused")
      \/ pc'[r] = "respond" /\ fault'[r] = "error" /\ ~Responded(r, "accepted")
      \/ /\ pc'[r] = "send" /\ slice'[r] = slice[r] /\ attempt'[r] = attempt[r] + 1
         /\ ~Responded(r, "accepted")
  <2>1. ASSUME NEW status \in {"accepted", "pending"}, Responded(r, status)
        PROVE  /\ pc'[r] \in {"check", "respond"} /\ fault'[r] = "none" /\ attempt'[r] = 1
               /\ pc'[r] = "check" => slice'[r] = slice[r] + 1
    BY <1>1, <1>2, <2>1 DEF Responded, Goto
  <2>2. ASSUME Raised(r) PROVE pc'[r] = "respond" /\ fault'[r] = "error"
    BY <1>1, <2>2 DEF Raised, Goto
  <2>3. ASSUME attempt' = [attempt EXCEPT ![r] = @ + 1], UNCHANGED <<pc, slice, fault>>
        PROVE  pc'[r] = "send" /\ slice'[r] = slice[r] /\ attempt'[r] = attempt[r] + 1
    BY <1>1, <1>2, <2>3
  <2> QED BY <2>1, <2>2, <2>3, AttemptPlaces
<1>4. \/ orders'[r][s] = orders[r][s] /\ unconfirmed'[r][s] = unconfirmed[r][s]
      \/ /\ s = slice[r] /\ orders'[r][s] = orders[r][s] + 1
         /\ \/ unconfirmed'[r][s] = unconfirmed[r][s] + 1
            \/ unconfirmed'[r][s] = unconfirmed[r][s] /\ Responded(r, "accepted")
  BY AttemptPlaces
<1>5. /\ s > slice[r] => orders[r][s] = 0
      /\ s = slice[r] => orders[r][s] < attempt[r] /\ orders[r][s] <= unconfirmed[r][s]
      /\ orders[r][s] <= unconfirmed[r][s] + 1 /\ orders[r][s] <= MaxAttempts
  BY <1>1 DEF SliceInv
<1>6. orders'[r][s] <= unconfirmed'[r][s] + 1 /\ orders'[r][s] <= MaxAttempts
  BY <1>2, <1>4, <1>5
<1>7. CASE pc'[r] \in {"check", "respond"} /\ fault'[r] = "none"
           /\ (pc'[r] = "check" => slice'[r] = slice[r] + 1 /\ attempt'[r] = 1)
  <2>1. pc'[r] = "check" /\ s >= slice'[r] => orders'[r][s] = 0
    BY <1>2, <1>4, <1>5, <1>7
  <2> QED BY <1>1, <1>6, <1>7, <2>1 DEF SliceInv
<1>8. CASE pc'[r] = "respond" /\ fault'[r] = "error"
  BY <1>1, <1>6, <1>8 DEF SliceInv
<1>9. CASE /\ pc'[r] = "send" /\ slice'[r] = slice[r] /\ attempt'[r] = attempt[r] + 1
           /\ ~Responded(r, "accepted")
  <2>1. s > slice[r] => orders'[r][s] = 0
    BY <1>2, <1>4, <1>5
  <2>2. s = slice[r] => orders'[r][s] < attempt'[r] /\ orders'[r][s] <= unconfirmed'[r][s]
    BY <1>2, <1>4, <1>5, <1>9
  <2> QED BY <1>1, <1>6, <1>9, <2>1, <2>2 DEF SliceInv
<1> QED BY <1>3, <1>7, <1>8, <1>9

LEMMA StepSInv == PInv /\ SInv /\ [Next]_vars => SInv'
<1> SUFFICES ASSUME PInv, SInv, [Next]_vars, NEW r \in Requests, NEW s \in SliceNumbers
             PROVE  /\ pc'[r] \in {"idle", "filter", "approved", "check"} => attempt'[r] = 1
                    /\ SliceInv(r, s)'
  <2>1. ASSUME SliceNumbers = {}, NEW r \in Requests PROVE FALSE
    BY <2>1, ConstantTypes DEF SliceNumbers
  <2>2. SInv' <=> \A r \in Requests :
                     /\ pc'[r] \in {"idle", "filter", "approved", "check"} => attempt'[r] = 1
                     /\ \A s \in SliceNumbers : SliceInv(r, s)'
    BY DEF SInv, SlicesInv, RefusedIsUnplaced, DuplicatesWereUnconfirmed, SliceInv
  <2> QED BY <2>1, <2>2
<1>a. /\ pc[r] \in {"idle", "filter", "approved", "check"} => attempt[r] = 1
      /\ SliceInv(r, s)
  BY SInvBySlice
<1>s. ASSUME UNCHANGED <<pc[r], slice[r], attempt[r], fault[r], answer[r], orders[r],
                         unconfirmed[r]>>
      PROVE  /\ pc'[r] \in {"idle", "filter", "approved", "check"} => attempt'[r] = 1
             /\ SliceInv(r, s)'
  BY <1>a, <1>s DEF SliceInv
<1>1. ASSUME NEW q \in Requests, q # r, RequestStep(q)
      PROVE  /\ pc'[r] \in {"idle", "filter", "approved", "check"} => attempt'[r] = 1
             /\ SliceInv(r, s)'
  BY <1>1, <1>s, OtherThreads
<1> USE DEF PInv, TypeOK, PathInv, Goto, PCs
<1>2. CASE Post(r) \/ Filter(r) \/ RecordSubmitted(r) \/ Check(r)
  <2>1. s \in Nat /\ slice[r] \in Nat
    BY SliceTypes
  <2> QED BY <1>2, <1>a, <2>1 DEF Post, Filter, RecordSubmitted, Check, SliceInv
<1>3. CASE Attempt(r)
  BY <1>3, <1>a, AttemptSlices
<1>4. CASE Respond(r)
  <2>1. Answer(r) = "refused" => fault[r] = "refused"
    <3>1. CASE fault[r] = "none"
      <4>1. responses[r] # << >> /\ responses[r] \in Seq({"accepted", "pending"})
        BY <1>4, <3>1 DEF Respond
      <4>2. responses[r][1] \in {"accepted", "pending"}
        BY <4>1
      <4> QED BY <3>1, <4>2 DEF Answer
    <3>2. CASE fault[r] # "none"
      BY <3>2 DEF Answer
    <3> QED BY <3>1, <3>2
  <2>2. /\ pc[r] = "respond" /\ UNCHANGED <<slice, attempt, fault, orders, unconfirmed>>
        /\ \/ pc'[r] = "respond" /\ answer'[r] = answer[r]
           \/ pc'[r] = "done" /\ answer'[r] = Answer(r)
    BY <1>4 DEF Respond
  <2> QED BY <1>a, <2>1, <2>2 DEF SliceInv
<1>5. CASE Halt \/ Unhalt \/ UNCHANGED vars
  <2>1. UNCHANGED <<pc, slice, attempt, fault, answer, orders, unconfirmed>>
    BY <1>5 DEF Halt, Unhalt, vars
  <2> QED BY <2>1, <1>s
<1>6. CASE ProcessEnds
  BY <1>6, <1>a DEF ProcessEnds, SliceInv
<1> QED BY <1>1, <1>2, <1>3, <1>4, <1>5, <1>6 DEF Next, RequestStep

LEMMA AlwaysSInv == Spec => []SInv
BY AlwaysPInv, InitSInv, StepSInv, PTL DEF Spec

(* A 403 says that the slice it came at, and every slice after it, never   *)
(* got to Dhan (orders.py:294), for sliced and unsliced requests.          *)
THEOREM RefusalsAreUnplaced == Spec => []RefusedIsUnplaced
<1>1. SInv => RefusedIsUnplaced
  BY DEF SInv
<1> QED BY AlwaysSInv, <1>1, PTL

(* The retries of one request put a slice at Dhan again only if an answer  *)
(* about that slice was lost, and at most max_attempts times.              *)
THEOREM OnlyLostAnswersDuplicate == Spec => []DuplicatesWereUnconfirmed
<1>1. SInv => DuplicatesWereUnconfirmed
  BY DEF SInv
<1> QED BY AlwaysSInv, <1>1, PTL

(***************************************************************************)
(* The record.                                                             *)
(***************************************************************************)
(* The requests of a correlation id whose thread is at one of some labels, *)
(* and those that were handed to the broker.                               *)
Held(c, labels) == Cardinality({r \in Carriers(c) : pc[r] \in labels})
HandedOver(r) == AtDhan(r) \/ pc[r] \in {"check", "send", "respond"}
Handed(c) == Cardinality({r \in Carriers(c) : HandedOver(r)})

(* Every request that is past a boundary has its event of it in the file.  *)
RecordInv ==
    sound => \A c \in CorrelationIds :
        /\ CountOf(c, "APPROVED") + CountOf(c, "REJECTED") + Held(c, {"filter"})
               <= CountOf(c, "EVALUATED")
        /\ CountOf(c, "SUBMITTED") + Held(c, {"approved"}) <= CountOf(c, "APPROVED")
        /\ CountOf(c, "FAILURE") + Held(c, {"check", "send", "respond"})
               <= CountOf(c, "SUBMITTED")
        /\ Handed(c) <= CountOf(c, "SUBMITTED")

TrailInv == RecordInv /\ LifecycleInOrder

LEMMA CarriersFinite ==
    ASSUME NEW c, NEW S \in SUBSET Carriers(c)
    PROVE  IsFiniteSet(S) /\ Cardinality(S) \in Nat
<1>1. S \subseteq Requests
  BY DEF Carriers
<1>2. IsFiniteSet(S)
  BY <1>1, ConstantTypes, FS_Subset
<1> QED BY <1>2, FS_CardinalityType

LEMMA InitTrailInv == Init => TrailInv
<1> SUFFICES ASSUME Init PROVE TrailInv
  OBVIOUS
<1>1. \A c \in CorrelationIds : trail[c] = << >>
  BY DEF Init
<1>2. \A c \in CorrelationIds : \A kind : CountOf(c, kind) = 0
  <2> SUFFICES ASSUME NEW c \in CorrelationIds, NEW kind PROVE CountOf(c, kind) = 0
    OBVIOUS
  <2>1. {i \in 1..Len(trail[c]) : trail[c][i] = kind} = {}
    BY <1>1
  <2> QED BY <2>1, FS_EmptySet DEF CountOf, CountUpTo
<1>3. \A c : Handed(c) = 0 /\ \A L \in SUBSET (PCs \ {"idle"}) : Held(c, L) = 0
  <2> SUFFICES ASSUME NEW c, NEW L \in SUBSET (PCs \ {"idle"})
               PROVE  Handed(c) = 0 /\ Held(c, L) = 0
    OBVIOUS
  <2>1. {r \in Carriers(c) : HandedOver(r)} = {}
    BY DEF Init, Carriers, HandedOver, AtDhan
  <2>2. {r \in Carriers(c) : pc[r] \in L} = {}
    BY DEF Init, Carriers
  <2> QED BY <2>1, <2>2, FS_EmptySet DEF Handed, Held
<1>4. RecordInv
  <2>1. {"filter"} \in SUBSET (PCs \ {"idle"}) /\ {"approved"} \in SUBSET (PCs \ {"idle"})
        /\ {"check", "send", "respond"} \in SUBSET (PCs \ {"idle"})
    BY DEF PCs
  <2> QED BY <1>2, <1>3, <2>1 DEF RecordInv
<1>5. LifecycleInOrder
  BY <1>1 DEF LifecycleInOrder
<1> QED BY <1>4, <1>5 DEF TrailInv

(* What the events, and the requests at a label, come to in numbers. *)
LEMMA CountTypes ==
    ASSUME TypeOK, NEW c \in CorrelationIds, NEW kind
    PROVE  CountOf(c, kind) \in Nat
<1> DEFINE S == {i \in 1..Len(trail[c]) : trail[c][i] = kind}
<1>1. trail[c] \in Seq(EventKinds)
  BY DEF TypeOK
<1>2. IsFiniteSet(1..Len(trail[c])) /\ S \subseteq 1..Len(trail[c])
  BY <1>1, FS_Interval
<1>3. IsFiniteSet(S)
  BY <1>2, FS_Subset
<1> QED BY <1>3, FS_CardinalityType DEF CountOf, CountUpTo

LEMMA RecordCounts ==
    ASSUME TypeOK, NEW r \in Requests, NEW kind \in EventKinds, Record(r, kind),
           NEW c \in CorrelationIds
    PROVE  /\ \A k : CountOf(c, k)' = CountOf(c, k) + IF c = Cid[r] /\ k = kind THEN 1 ELSE 0
           /\ \A k : \A n \in 1..Len(trail[c]) : CountUpTo(c, k, n)' = CountUpTo(c, k, n)
           /\ c # Cid[r] => trail'[c] = trail[c]
           /\ c = Cid[r] => /\ Len(trail'[c]) = Len(trail[c]) + 1
                            /\ trail'[c][Len(trail[c]) + 1] = kind
                            /\ \A i \in 1..Len(trail[c]) : trail'[c][i] = trail[c][i]
<1>1. trail[c] \in Seq(EventKinds) /\ trail \in [CorrelationIds -> Seq(EventKinds)]
  BY DEF TypeOK
<1>2. c # Cid[r] => trail'[c] = trail[c]
  BY <1>1 DEF Record
<1>3. c = Cid[r] => trail'[c] = Append(trail[c], kind)
  BY <1>1 DEF Record
<1>4. c = Cid[r] => /\ Len(trail'[c]) = Len(trail[c]) + 1
                    /\ trail'[c][Len(trail[c]) + 1] = kind
                    /\ \A i \in 1..Len(trail[c]) : trail'[c][i] = trail[c][i]
  BY <1>1, <1>3, AppendProperties
<1>5. \A i \in 1..Len(trail[c]) : trail'[c][i] = trail[c][i]
  BY <1>2, <1>4
<1>6. Len(trail[c]) \in Nat
  BY <1>1
<1>7. ASSUME NEW k, NEW n \in 1..Len(trail[c]) PROVE CountUpTo(c, k, n)' = CountUpTo(c, k, n)
  <2>1. \A i \in 1..n : trail'[c][i] = trail[c][i]
    BY <1>5, <1>6
  <2>2. {i \in 1..n : trail'[c][i] = k} = {i \in 1..n : trail[c][i] = k}
    BY <2>1
  <2> QED BY <2>2 DEF CountUpTo
<1>8. ASSUME NEW k
      PROVE  CountOf(c, k)' = CountOf(c, k) + IF c = Cid[r] /\ k = kind THEN 1 ELSE 0
  <2> DEFINE m == Len(trail[c])
             old == {i \in 1..m : trail[c][i] = k}
             new == {i \in 1..Len(trail'[c]) : trail'[c][i] = k}
  <2>1. IsFiniteSet(old)
    <3>1. IsFiniteSet(1..m)
      BY <1>6, FS_Interval
    <3>2. old \subseteq 1..m
      OBVIOUS
    <3> HIDE DEF old, m
    <3> QED BY <3>1, <3>2, FS_Subset
  <2>2. CountOf(c, k) = Cardinality(old) /\ CountOf(c, k)' = Cardinality(new)
    BY DEF CountOf, CountUpTo
  <2>3. c = Cid[r] /\ k = kind => new = old \union {m + 1} /\ m + 1 \notin old
    BY <1>4, <1>6
  <2>4. c = Cid[r] /\ k # kind => new = old
    BY <1>4, <1>6
  <2>5. c # Cid[r] => new = old
    BY <1>2
  <2> HIDE DEF old, new, m
  <2>6. Cardinality(old) \in Nat
    BY <2>1, FS_CardinalityType
  <2>7. CASE c = Cid[r] /\ k = kind
    BY <2>1, <2>2, <2>3, <2>7, FS_AddElement
  <2>8. CASE ~(c = Cid[r] /\ k = kind)
    BY <2>2, <2>4, <2>5, <2>6, <2>8
  <2> QED BY <2>7, <2>8
<1> QED BY <1>2, <1>4, <1>7, <1>8

(* A thread goes from one label to another. *)
LEMMA HeldMoves ==
    ASSUME NEW r \in Requests, NEW c \in CorrelationIds, NEW L,
           \A q \in Requests \ {r} : pc'[q] = pc[q]
    PROVE  /\ Held(c, L) \in Nat /\ Held(c, L)' \in Nat
           /\ Held(c, L)' + (IF c = Cid[r] /\ pc[r] \in L THEN 1 ELSE 0)
                = Held(c, L) + (IF c = Cid[r] /\ pc'[r] \in L THEN 1 ELSE 0)
<1> DEFINE old == {q \in Carriers(c) : pc[q] \in L}
           new == {q \in Carriers(c) : pc'[q] \in L}
           rest == {q \in Carriers(c) : q # r /\ pc[q] \in L}
<1>1. /\ IsFiniteSet(old) /\ IsFiniteSet(new) /\ IsFiniteSet(rest)
      /\ Cardinality(old) \in Nat /\ Cardinality(new) \in Nat /\ Cardinality(rest) \in Nat
  BY CarriersFinite
<1>2. Held(c, L) = Cardinality(old) /\ Held(c, L)' = Cardinality(new)
  BY DEF Held, Carriers
<1>3. /\ r \notin rest
      /\ old = rest \union (IF c = Cid[r] /\ pc[r] \in L THEN {r} ELSE {})
      /\ new = rest \union (IF c = Cid[r] /\ pc'[r] \in L THEN {r} ELSE {})
  BY DEF Carriers
<1> HIDE DEF old, new, rest
<1>4. Cardinality(rest \union {r}) = Cardinality(rest) + 1
  BY <1>1, <1>3, FS_AddElement
<1>5. Cardinality(old) = Cardinality(rest) + IF c = Cid[r] /\ pc[r] \in L THEN 1 ELSE 0
  <2>1. CASE c = Cid[r] /\ pc[r] \in L
    BY <1>3, <1>4, <2>1
  <2>2. CASE ~(c = Cid[r] /\ pc[r] \in L)
    <3>1. old = rest
      BY <1>3, <2>2
    <3> QED BY <1>1, <2>2, <3>1
  <2> QED BY <2>1, <2>2
<1>6. Cardinality(new) = Cardinality(rest) + IF c = Cid[r] /\ pc'[r] \in L THEN 1 ELSE 0
  <2>1. CASE c = Cid[r] /\ pc'[r] \in L
    BY <1>3, <1>4, <2>1
  <2>2. CASE ~(c = Cid[r] /\ pc'[r] \in L)
    <3>1. new = rest
      BY <1>3, <2>2
    <3> QED BY <1>1, <2>2, <3>1
  <2> QED BY <2>1, <2>2
<1>7. Held(c, L) \in Nat /\ Held(c, L)' \in Nat
  BY <1>1, <1>2
<1> QED BY <1>1, <1>2, <1>5, <1>6, <1>7

LEMMA HandedTypes ==
    ASSUME NEW c
    PROVE  Handed(c) \in Nat /\ Handed(c)' \in Nat
<1>1. Cardinality({q \in Carriers(c) : HandedOver(q)}) \in Nat
  BY CarriersFinite
<1>2. Cardinality({q \in Carriers(c) : HandedOver(q)'}) \in Nat
  BY CarriersFinite
<1> QED BY <1>1, <1>2 DEF Handed, Carriers

(* No more are handed over when only r may be new among them. *)
LEMMA HandedMoves ==
    ASSUME NEW r \in Requests, NEW c \in CorrelationIds,
           \A q \in Requests \ {r} : HandedOver(q)' => HandedOver(q)
    PROVE  Handed(c)' <= Handed(c) + IF c = Cid[r] /\ HandedOver(r)' /\ ~HandedOver(r)
                                     THEN 1 ELSE 0
<1> DEFINE old == {q \in Carriers(c) : HandedOver(q)}
           new == {q \in Carriers(c) : HandedOver(q)'}
<1>1. /\ IsFiniteSet(old) /\ IsFiniteSet(new)
      /\ Cardinality(old) \in Nat /\ Cardinality(new) \in Nat
  BY CarriersFinite
<1>2. Handed(c) = Cardinality(old) /\ Handed(c)' = Cardinality(new)
  BY DEF Handed, Carriers
<1>3. CASE c = Cid[r] /\ HandedOver(r)' /\ ~HandedOver(r)
  <2>1. new \subseteq old \union {r} /\ r \notin old
    <3>1. \A q \in new : q \in Requests /\ (q # r => q \in old)
      BY DEF Carriers
    <3>2. r \notin old
      BY <1>3
    <3> HIDE DEF old, new
    <3> QED BY <3>1, <3>2
  <2>2. IsFiniteSet(old \union {r}) /\ Cardinality(old \union {r}) = Cardinality(old) + 1
    BY <1>1, <2>1, <1>3, FS_AddElement
  <2>3. Cardinality(new) <= Cardinality(old \union {r})
    BY <2>1, <2>2, FS_Subset
  <2> QED BY <1>1, <1>2, <1>3, <2>2, <2>3
<1>4. CASE ~(c = Cid[r] /\ HandedOver(r)' /\ ~HandedOver(r))
  <2>1. new \subseteq old
    BY <1>4 DEF Carriers
  <2>2. Cardinality(new) <= Cardinality(old)
    BY <1>1, <2>1, FS_Subset
  <2> QED BY <1>1, <1>2, <1>4, <2>2
<1> QED BY <1>3, <1>4

(* What a step of request r does to the counts of RecordInv, from where    *)
(* its thread goes and what it records.                                    *)
LEMMA StepRecords ==
    ASSUME PInv, RecordInv, sound, NEW r \in Requests, NEW kind \in EventKinds, Record(r, kind),
           UNCHANGED orders, \A q \in Requests \ {r} : pc'[q] = pc[q],
           \/ kind = "EVALUATED" /\ pc[r] = "idle" /\ pc'[r] = "filter"
           \/ kind = "APPROVED" /\ pc[r] = "filter" /\ pc'[r] = "approved"
           \/ kind = "REJECTED" /\ pc[r] = "filter" /\ pc'[r] = "done"
           \/ kind = "SUBMITTED" /\ pc[r] = "approved" /\ pc'[r] = "check"
           \/ kind = "RESPONSE" /\ pc[r] = "respond" /\ pc'[r] \in {"respond", "done"}
           \/ kind = "FAILURE" /\ pc[r] = "respond" /\ pc'[r] = "done",
           NEW c \in CorrelationIds
    PROVE  /\ CountOf(c, "APPROVED")' + CountOf(c, "REJECTED")' + Held(c, {"filter"})'
                  <= CountOf(c, "EVALUATED")'
           /\ CountOf(c, "SUBMITTED")' + Held(c, {"approved"})' <= CountOf(c, "APPROVED")'
           /\ CountOf(c, "FAILURE")' + Held(c, {"check", "send", "respond"})'
                  <= CountOf(c, "SUBMITTED")'
           /\ Handed(c)' <= CountOf(c, "SUBMITTED")'
           /\ c = Cid[r] /\ kind = "RESPONSE" => CountOf(c, "SUBMITTED") > 0
<1>1. \A k : /\ CountOf(c, k) \in Nat
             /\ CountOf(c, k)' = CountOf(c, k) + IF c = Cid[r] /\ k = kind THEN 1 ELSE 0
  BY CountTypes, RecordCounts DEF PInv
<1>2. \A L : /\ Held(c, L) \in Nat /\ Held(c, L)' \in Nat
             /\ Held(c, L)' + (IF c = Cid[r] /\ pc[r] \in L THEN 1 ELSE 0)
                  = Held(c, L) + (IF c = Cid[r] /\ pc'[r] \in L THEN 1 ELSE 0)
  BY HeldMoves
<1>3. /\ CountOf(c, "APPROVED") + CountOf(c, "REJECTED") + Held(c, {"filter"})
             <= CountOf(c, "EVALUATED")
      /\ CountOf(c, "SUBMITTED") + Held(c, {"approved"}) <= CountOf(c, "APPROVED")
      /\ CountOf(c, "FAILURE") + Held(c, {"check", "send", "respond"})
             <= CountOf(c, "SUBMITTED")
      /\ Handed(c) <= CountOf(c, "SUBMITTED")
  BY DEF RecordInv
<1>4. /\ Handed(c) \in Nat /\ Handed(c)' \in Nat
      /\ Handed(c)' <= Handed(c) + IF c = Cid[r] /\ kind = "SUBMITTED" THEN 1 ELSE 0
  <2>1. \A q \in Requests \ {r} : HandedOver(q)' => HandedOver(q)
    BY DEF HandedOver, AtDhan
  <2>2. kind # "SUBMITTED" => (HandedOver(r)' => HandedOver(r))
    BY DEF HandedOver, AtDhan
  <2>3. Handed(c) \in Nat /\ Handed(c)' \in Nat
    BY HandedTypes
  <2>4. Handed(c)' <= Handed(c) + IF c = Cid[r] /\ HandedOver(r)' /\ ~HandedOver(r)
                                  THEN 1 ELSE 0
    BY <2>1, HandedMoves
  <2> QED BY <2>2, <2>3, <2>4
<1>5. /\ Held(c, {"filter"})' + (IF c = Cid[r] /\ pc[r] = "filter" THEN 1 ELSE 0)
            = Held(c, {"filter"}) + (IF c = Cid[r] /\ pc'[r] = "filter" THEN 1 ELSE 0)
      /\ Held(c, {"approved"})' + (IF c = Cid[r] /\ pc[r] = "approved" THEN 1 ELSE 0)
            = Held(c, {"approved"}) + (IF c = Cid[r] /\ pc'[r] = "approved" THEN 1 ELSE 0)
      /\ Held(c, {"check", "send", "respond"})'
               + (IF c = Cid[r] /\ pc[r] \in {"check", "send", "respond"} THEN 1 ELSE 0)
            = Held(c, {"check", "send", "respond"})
               + (IF c = Cid[r] /\ pc'[r] \in {"check", "send", "respond"} THEN 1 ELSE 0)
  <2>1. pc[r] \in {"filter"} <=> pc[r] = "filter"
    OBVIOUS
  <2>2. pc'[r] \in {"filter"} <=> pc'[r] = "filter"
    OBVIOUS
  <2> QED BY <1>2
<1>6. ASSUME c = Cid[r], pc[r] = "respond" PROVE CountOf(c, "SUBMITTED") > 0
  <2>1. Held(c, {"check", "send", "respond"}) > 0
    <3> DEFINE S == {q \in Carriers(c) : pc[q] \in {"check", "send", "respond"}}
    <3>1. r \in S
      BY <1>6 DEF Carriers
    <3>2. IsFiniteSet(S)
      BY CarriersFinite
    <3>3. Cardinality(S) \in Nat /\ Cardinality(S) # 0
      BY <3>1, <3>2, FS_CardinalityType, FS_EmptySet
    <3> QED BY <3>3 DEF Held
  <2> QED BY <1>1, <1>2, <1>3, <2>1
<1>7. CountOf(c, "APPROVED")' + CountOf(c, "REJECTED")' + Held(c, {"filter"})'
         <= CountOf(c, "EVALUATED")'
  BY <1>1, <1>2, <1>3, <1>5
<1>8. CountOf(c, "SUBMITTED")' + Held(c, {"approved"})' <= CountOf(c, "APPROVED")'
  BY <1>1, <1>2, <1>3, <1>5
<1>9. CountOf(c, "FAILURE")' + Held(c, {"check", "send", "respond"})' <= CountOf(c, "SUBMITTED")'
  BY <1>1, <1>2, <1>3, <1>5
<1>10. Handed(c)' <= CountOf(c, "SUBMITTED")'
  BY <1>1, <1>3, <1>4
<1> QED BY <1>6, <1>7, <1>8, <1>9, <1>10

(* The event just recorded ends a prefix of which RecordInv speaks. *)
LEMMA StepOrder ==
    ASSUME PInv, PInv', LifecycleInOrder, RecordInv', sound, sound', NEW r \in Requests,
           NEW kind \in EventKinds, Record(r, kind),
           \A c \in CorrelationIds :
               c = Cid[r] /\ kind = "RESPONSE" => CountOf(c, "SUBMITTED") > 0
    PROVE  LifecycleInOrder'
<1> SUFFICES ASSUME NEW c \in CorrelationIds, NEW n \in 1..Len(trail'[c])
             PROVE  /\ CountUpTo(c, "APPROVED", n)' + CountUpTo(c, "REJECTED", n)'
                           <= CountUpTo(c, "EVALUATED", n)'
                    /\ CountUpTo(c, "SUBMITTED", n)' <= CountUpTo(c, "APPROVED", n)'
                    /\ CountUpTo(c, "FAILURE", n)' <= CountUpTo(c, "SUBMITTED", n)'
                    /\ trail'[c][n] = "RESPONSE" => CountUpTo(c, "SUBMITTED", n)' > 0
  BY DEF LifecycleInOrder
<1>1. /\ \A k : CountOf(c, k)' = CountOf(c, k) + IF c = Cid[r] /\ k = kind THEN 1 ELSE 0
      /\ \A k : \A m \in 1..Len(trail[c]) : CountUpTo(c, k, m)' = CountUpTo(c, k, m)
      /\ c # Cid[r] => trail'[c] = trail[c]
      /\ c = Cid[r] => /\ Len(trail'[c]) = Len(trail[c]) + 1
                       /\ trail'[c][Len(trail[c]) + 1] = kind
                       /\ \A i \in 1..Len(trail[c]) : trail'[c][i] = trail[c][i]
  BY RecordCounts DEF PInv
<1>2. Len(trail[c]) \in Nat
  BY DEF PInv, TypeOK
<1>3. CASE n \in 1..Len(trail[c])
  <2>1. trail'[c][n] = trail[c][n]
    BY <1>1, <1>3
  <2>2. \A k : CountUpTo(c, k, n)' = CountUpTo(c, k, n)
    BY <1>1, <1>3
  <2>3. /\ CountUpTo(c, "APPROVED", n) + CountUpTo(c, "REJECTED", n)
               <= CountUpTo(c, "EVALUATED", n)
        /\ CountUpTo(c, "SUBMITTED", n) <= CountUpTo(c, "APPROVED", n)
        /\ CountUpTo(c, "FAILURE", n) <= CountUpTo(c, "SUBMITTED", n)
        /\ trail[c][n] = "RESPONSE" => CountUpTo(c, "SUBMITTED", n) > 0
    BY <1>3 DEF LifecycleInOrder
  <2> QED BY <2>1, <2>2, <2>3
<1>4. CASE n \notin 1..Len(trail[c])
  <2>1. c = Cid[r] /\ n = Len(trail'[c]) /\ trail'[c][n] = kind
    BY <1>1, <1>2, <1>4
  <2>2. /\ CountUpTo(c, "APPROVED", n)' = CountOf(c, "APPROVED")'
        /\ CountUpTo(c, "REJECTED", n)' = CountOf(c, "REJECTED")'
        /\ CountUpTo(c, "EVALUATED", n)' = CountOf(c, "EVALUATED")'
        /\ CountUpTo(c, "SUBMITTED", n)' = CountOf(c, "SUBMITTED")'
        /\ CountUpTo(c, "FAILURE", n)' = CountOf(c, "FAILURE")'
    BY <2>1 DEF CountOf
  <2>3. \A k : CountOf(c, k) \in Nat /\ CountOf(c, k)' \in Nat
    BY <1>1, CountTypes DEF PInv
  <2>4. /\ CountOf(c, "APPROVED")' + CountOf(c, "REJECTED")' + Held(c, {"filter"})'
               <= CountOf(c, "EVALUATED")'
        /\ CountOf(c, "SUBMITTED")' + Held(c, {"approved"})' <= CountOf(c, "APPROVED")'
        /\ CountOf(c, "FAILURE")' + Held(c, {"check", "send", "respond"})'
               <= CountOf(c, "SUBMITTED")'
    BY DEF RecordInv
  <2>5. /\ Held(c, {"filter"})' \in Nat /\ Held(c, {"approved"})' \in Nat
        /\ Held(c, {"check", "send", "respond"})' \in Nat
    <3>1. \A L : Cardinality({q \in Carriers(c) : pc'[q] \in L}) \in Nat
      BY CarriersFinite
    <3> QED BY <3>1 DEF Held, Carriers
  <2>6. kind = "RESPONSE" => CountOf(c, "SUBMITTED")' > 0
    BY <1>1, <2>1, <2>3
  <2>7. /\ CountOf(c, "APPROVED")' + CountOf(c, "REJECTED")' <= CountOf(c, "EVALUATED")'
        /\ CountOf(c, "SUBMITTED")' <= CountOf(c, "APPROVED")'
        /\ CountOf(c, "FAILURE")' <= CountOf(c, "SUBMITTED")'
    BY <2>3, <2>4, <2>5
  <2>8. trail'[c][n] = "RESPONSE" => CountOf(c, "SUBMITTED")' > 0
    BY <2>1, <2>6
  <2> QED BY <2>2, <2>7, <2>8
<1> QED BY <1>3, <1>4

(* A step that records nothing, and moves no thread where an event of its  *)
(* would be missed.                                                        *)
LEMMA SilentStep ==
    ASSUME TypeOK, TrailInv, UNCHANGED trail, sound' => sound,
           \A q \in Requests : \/ pc'[q] = pc[q]
                               \/ pc'[q] = "done"
                               \/ pc[q] \in {"check", "send"} /\ pc'[q] \in {"check", "send", "respond"},
           \A q \in Requests : HandedOver(q)' => HandedOver(q)
    PROVE  TrailInv'
<1> SUFFICES ASSUME sound' PROVE TrailInv'
  BY DEF TrailInv, RecordInv, LifecycleInOrder
<1>1. \A c \in CorrelationIds : \A k : CountOf(c, k)' = CountOf(c, k)
  BY DEF CountOf, CountUpTo
<1>2. LifecycleInOrder'
  BY DEF TrailInv, LifecycleInOrder, CountUpTo
<1>3. ASSUME NEW c \in CorrelationIds,
             NEW L \in {{"filter"}, {"approved"}, {"check", "send", "respond"}}
      PROVE  Held(c, L) \in Nat /\ Held(c, L)' \in Nat /\ Held(c, L)' <= Held(c, L)
  <2> DEFINE old == {q \in Carriers(c) : pc[q] \in L}
             new == {q \in Carriers(c) : pc'[q] \in L}
  <2>1. IsFiniteSet(old) /\ Cardinality(old) \in Nat /\ Cardinality(new) \in Nat
    BY CarriersFinite
  <2>2. new \subseteq old
    BY DEF Carriers
  <2>3. Held(c, L) = Cardinality(old) /\ Held(c, L)' = Cardinality(new)
    BY DEF Held, Carriers
  <2> HIDE DEF old, new
  <2> QED BY <2>1, <2>2, <2>3, FS_Subset
<1>4. ASSUME NEW c \in CorrelationIds PROVE Handed(c)' <= Handed(c)
  <2> DEFINE old == {q \in Carriers(c) : HandedOver(q)}
             new == {q \in Carriers(c) : HandedOver(q)'}
  <2>1. IsFiniteSet(old)
    BY CarriersFinite
  <2>2. new \subseteq old
    BY DEF Carriers
  <2>3. Handed(c) = Cardinality(old) /\ Handed(c)' = Cardinality(new)
    BY DEF Handed, Carriers
  <2> HIDE DEF old, new
  <2> QED BY <2>1, <2>2, <2>3, FS_Subset
<1>5. ASSUME NEW c \in CorrelationIds
      PROVE  /\ CountOf(c, "APPROVED")' + CountOf(c, "REJECTED")' + Held(c, {"filter"})'
                    <= CountOf(c, "EVALUATED")'
             /\ CountOf(c, "SUBMITTED")' + Held(c, {"approved"})' <= CountOf(c, "APPROVED")'
             /\ CountOf(c, "FAILURE")' + Held(c, {"check", "send", "respond"})'
                    <= CountOf(c, "SUBMITTED")'
             /\ Handed(c)' <= CountOf(c, "SUBMITTED")'
  <2>1. /\ CountOf(c, "APPROVED") + CountOf(c, "REJECTED") + Held(c, {"filter"})
               <= CountOf(c, "EVALUATED")
        /\ CountOf(c, "SUBMITTED") + Held(c, {"approved"}) <= CountOf(c, "APPROVED")
        /\ CountOf(c, "FAILURE") + Held(c, {"check", "send", "respond"})
               <= CountOf(c, "SUBMITTED")
        /\ Handed(c) <= CountOf(c, "SUBMITTED")
    BY DEF TrailInv, RecordInv
  <2>2. \A k : CountOf(c, k) \in Nat /\ CountOf(c, k)' = CountOf(c, k)
    BY <1>1, CountTypes
  <2>3. /\ Held(c, {"filter"}) \in Nat /\ Held(c, {"filter"})' \in Nat
        /\ Held(c, {"filter"})' <= Held(c, {"filter"})
        /\ Held(c, {"approved"}) \in Nat /\ Held(c, {"approved"})' \in Nat
        /\ Held(c, {"approved"})' <= Held(c, {"approved"})
        /\ Held(c, {"check", "send", "respond"}) \in Nat
        /\ Held(c, {"check", "send", "respond"})' \in Nat
        /\ Held(c, {"check", "send", "respond"})' <= Held(c, {"check", "send", "respond"})
    BY <1>3
  <2>4. Handed(c) \in Nat /\ Handed(c)' \in Nat
    BY HandedTypes
  <2> QED BY <1>4, <2>1, <2>2, <2>3, <2>4
<1>6. RecordInv'
  BY <1>5 DEF RecordInv
<1> QED BY <1>2, <1>6 DEF TrailInv

LEMMA AttemptSilent ==
    ASSUME PInv, NEW r \in Requests, Check(r) \/ Attempt(r), NEW q \in Requests
    PROVE  /\ \/ pc'[q] = pc[q]
              \/ pc[q] \in {"check", "send"} /\ pc'[q] \in {"check", "send", "respond"}
           /\ HandedOver(q)' => HandedOver(q)
<1>1. pc \in [Requests -> PCs] /\ orders \in [Requests -> [SliceNumbers -> Nat]]
  BY DEF PInv, TypeOK
<1>2. \/ pc'[q] = pc[q]
      \/ pc[q] \in {"check", "send"} /\ pc'[q] \in {"check", "send", "respond"}
  <2>1. CASE Check(r)
    BY <1>1, <2>1 DEF Check, Goto
  <2>2. CASE Attempt(r)
    BY <1>1, <2>2 DEF Attempt, Accepted, Rejected, Unreadable, Transient, Responded, Raised, Goto
  <2> QED BY <2>1, <2>2
<1>3. ASSUME q = r PROVE HandedOver(q)
  BY <1>3 DEF Check, Attempt, HandedOver
<1>4. ASSUME q # r PROVE orders'[q] = orders[q] /\ pc'[q] = pc[q]
  BY <1>4, OtherThreads DEF RequestStep
<1> QED BY <1>2, <1>3, <1>4 DEF HandedOver, AtDhan

LEMMA StepTrailInv == PInv /\ TrailInv /\ [Next]_vars => TrailInv'
<1> SUFFICES ASSUME PInv, TrailInv, [Next]_vars PROVE TrailInv'
  OBVIOUS
<1>0. PInv'
  BY StepPInv
<1>p. pc \in [Requests -> PCs]
  BY DEF PInv, TypeOK
<1>1. ASSUME NEW r \in Requests, NEW kind \in EventKinds, Record(r, kind),
             UNCHANGED orders, \A q \in Requests \ {r} : pc'[q] = pc[q],
             \/ kind = "EVALUATED" /\ pc[r] = "idle" /\ pc'[r] = "filter"
             \/ kind = "APPROVED" /\ pc[r] = "filter" /\ pc'[r] = "approved"
             \/ kind = "REJECTED" /\ pc[r] = "filter" /\ pc'[r] = "done"
             \/ kind = "SUBMITTED" /\ pc[r] = "approved" /\ pc'[r] = "check"
             \/ kind = "RESPONSE" /\ pc[r] = "respond" /\ pc'[r] \in {"respond", "done"}
             \/ kind = "FAILURE" /\ pc[r] = "respond" /\ pc'[r] = "done"
      PROVE  TrailInv'
  <2>1. sound' => sound
    BY <1>1, Zenon DEF Record
  <2>2. CASE ~sound'
    BY <2>2 DEF TrailInv, RecordInv, LifecycleInOrder
  <2>3. CASE sound'
    <3>1. sound /\ RecordInv /\ LifecycleInOrder
      BY <2>1, <2>3 DEF TrailInv
    <3>2. RecordInv'
      BY <1>1, <3>1, StepRecords DEF RecordInv
    <3>3. \A c \in CorrelationIds : c = Cid[r] /\ kind = "RESPONSE" => CountOf(c, "SUBMITTED") > 0
      BY <1>1, <3>1, StepRecords
    <3>4. LifecycleInOrder'
      BY <1>0, <1>1, <2>3, <3>1, <3>2, <3>3, StepOrder
    <3> QED BY <3>2, <3>4 DEF TrailInv
  <2> QED BY <2>2, <2>3
<1>2. ASSUME NEW r \in Requests, Post(r) PROVE TrailInv'
  <2>1. /\ Record(r, "EVALUATED") /\ UNCHANGED orders /\ pc[r] = "idle" /\ pc'[r] = "filter"
        /\ \A q \in Requests \ {r} : pc'[q] = pc[q]
    BY <1>2, <1>p DEF Post, Goto
  <2> QED BY <1>1, <2>1 DEF EventKinds
<1>3. ASSUME NEW r \in Requests, Filter(r) PROVE TrailInv'
  <2>1. /\ UNCHANGED orders /\ pc[r] = "filter" /\ \A q \in Requests \ {r} : pc'[q] = pc[q]
        /\ \/ Record(r, "APPROVED") /\ pc'[r] = "approved"
           \/ Record(r, "REJECTED") /\ pc'[r] = "done"
    BY <1>3, <1>p DEF Filter, Goto
  <2> QED BY <1>1, <2>1 DEF EventKinds
<1>4. ASSUME NEW r \in Requests, RecordSubmitted(r) PROVE TrailInv'
  <2>1. /\ Record(r, "SUBMITTED") /\ UNCHANGED orders /\ pc[r] = "approved" /\ pc'[r] = "check"
        /\ \A q \in Requests \ {r} : pc'[q] = pc[q]
    BY <1>4, <1>p DEF RecordSubmitted, Goto
  <2> QED BY <1>1, <2>1 DEF EventKinds
<1>5. ASSUME NEW r \in Requests, Check(r) \/ Attempt(r) PROVE TrailInv'
  <2>1. UNCHANGED <<trail, sound>>
    BY <1>5 DEF Check, Attempt
  <2>2. /\ \A q \in Requests : \/ pc'[q] = pc[q]
                               \/ pc[q] \in {"check", "send"} /\ pc'[q] \in {"check", "send", "respond"}
        /\ \A q \in Requests : HandedOver(q)' => HandedOver(q)
    BY <1>5, AttemptSilent
  <2> QED BY <2>1, <2>2, SilentStep DEF PInv
<1>6. ASSUME NEW r \in Requests, Respond(r) PROVE TrailInv'
  <2>1. /\ UNCHANGED orders /\ pc[r] = "respond" /\ pc'[r] \in {"respond", "done"}
        /\ \A q \in Requests \ {r} : pc'[q] = pc[q]
    BY <1>6, <1>p DEF Respond, Goto
  <2>2. \/ Record(r, "RESPONSE")
        \/ Record(r, "FAILURE") /\ pc'[r] = "done"
    BY <1>6, <1>p DEF Respond, Goto, MoreToRecord
  <2> QED BY <1>1, <2>1, <2>2 DEF EventKinds
<1>7. ASSUME UNCHANGED <<trail, sound, pc, orders>> PROVE TrailInv'
  <2>1. \A q \in Requests : HandedOver(q)' => HandedOver(q)
    BY <1>7 DEF HandedOver, AtDhan
  <2> QED BY <1>7, <2>1, SilentStep DEF PInv
<1>8. ASSUME ProcessEnds PROVE TrailInv'
  <2>1. sound' => sound
    BY <1>8, Zenon DEF ProcessEnds
  <2>2. CASE ~sound'
    BY <2>2 DEF TrailInv, RecordInv, LifecycleInOrder
  <2>3. CASE sound'
    <3>1. trail' = trail
      <4>1. /\ trail' = [c \in CorrelationIds |-> trail[c]]
            /\ trail \in [CorrelationIds -> Seq(EventKinds)]
        BY <1>8, <2>1, <2>3 DEF ProcessEnds, PInv, TypeOK
      <4> QED BY <4>1
    <3>2. \A q \in Requests : pc'[q] = pc[q] \/ pc'[q] = "done"
      BY <1>8 DEF ProcessEnds
    <3>3. UNCHANGED orders
      BY <1>8 DEF ProcessEnds
    <3>4. \A q \in Requests : HandedOver(q)' => HandedOver(q)
      BY <3>2, <3>3 DEF HandedOver, AtDhan
    <3> QED BY <2>1, <3>1, <3>2, <3>4, SilentStep DEF PInv
  <2> QED BY <2>2, <2>3
<1> QED BY <1>2, <1>3, <1>4, <1>5, <1>6, <1>7, <1>8
        DEF Next, RequestStep, Halt, Unhalt, vars

LEMMA AlwaysTrailInv == Spec => []TrailInv
BY AlwaysPInv, InitTrailInv, StepTrailInv, PTL DEF Spec

(* The events of a correlation id are in order in every prefix, however    *)
(* many requests carry it and write at the same time.                      *)
THEOREM LifecyclesAreInOrder == Spec => []LifecycleInOrder
<1>1. TrailInv => LifecycleInOrder
  BY DEF TrailInv
<1> QED BY AlwaysTrailInv, <1>1, PTL

(* "Each lifecycle boundary is immutably hashed into the audit ledger"     *)
(* (gateway.py:184): every request of an id that has an order at Dhan has  *)
(* a submission of that id on record, whatever ends between two steps.     *)
THEOREM RecordHolds == Spec => []OrdersAreOnRecord
<1>1. PInv /\ TrailInv => OrdersAreOnRecord
  <2> SUFFICES ASSUME PInv, TrailInv, sound, NEW c \in CorrelationIds
               PROVE  Cardinality({r \in Carriers(c) : AtDhan(r)}) <= CountOf(c, "SUBMITTED")
    BY DEF OrdersAreOnRecord
  <2> DEFINE placed == {r \in Carriers(c) : AtDhan(r)}
             handed == {r \in Carriers(c) : HandedOver(r)}
  <2>1. Handed(c) <= CountOf(c, "SUBMITTED") /\ Handed(c) = Cardinality(handed)
    BY DEF TrailInv, RecordInv, Handed
  <2>2. placed \subseteq handed
    BY DEF HandedOver
  <2>3. IsFiniteSet(handed) /\ Cardinality(handed) \in Nat /\ Cardinality(placed) \in Nat
    BY CarriersFinite
  <2>4. CountOf(c, "SUBMITTED") \in Nat
    BY CountTypes DEF PInv
  <2> HIDE DEF placed, handed
  <2>5. Cardinality(placed) <= Cardinality(handed)
    BY <2>2, <2>3, FS_Subset
  <2>6. Cardinality(placed) <= CountOf(c, "SUBMITTED")
    BY <2>1, <2>3, <2>4, <2>5
  <2> QED BY <2>6 DEF placed
<1> QED BY AlwaysPInv, AlwaysTrailInv, <1>1, PTL
================================================================================
