------------------------- MODULE OrderReconcilerProofs -------------------------
(***************************************************************************)
(* Theorems about the order reconciler, for any number of orders, any      *)
(* quantity, and any loss, repetition and reordering of the updates.       *)
(***************************************************************************)
EXTENDS OrderReconciler, TLAPS

(* Every update on its way was true of the order when it was sent. *)
SentByBroker(u) == u.traded <= broker[u.order].traded

(* What the reconciler believes, and what it reported as fills, never runs *)
(* ahead of the broker; updates on their way are not ahead of it either.   *)
FillInv ==
    /\ TypeOK
    /\ \A o \in Orders : /\ filled[o] <= orders[o].traded
                         /\ orders[o].traded <= broker[o].traded
    /\ \A i \in 1..Len(ws) : SentByBroker(ws[i])
    /\ \A u \in postbacks : SentByBroker(u)

LEMMA FillInit == Init => FillInv
<1>. SUFFICES ASSUME Init PROVE FillInv
  OBVIOUS
<1>1. 0 \in 0..Quantity
  BY QuantityAssumption
<1>2. broker \in [Orders -> OrderState] /\ orders \in [Orders -> OrderState]
  BY <1>1 DEF Init, OrderState, Statuses, Unheard
<1>3. ws \in Seq(Updates) /\ Len(ws) = 0
  BY DEF Init
<1>4. TypeOK
  BY <1>1, <1>2, <1>3 DEF Init, TypeOK
<1>5. \A o \in Orders : filled[o] <= orders[o].traded /\ orders[o].traded <= broker[o].traded
  BY DEF Init, Unheard
<1>6. \A i \in 1..Len(ws) : FALSE
  BY <1>3
<1>. QED
  BY <1>4, <1>5, <1>6 DEF Init, FillInv

(* An announcement of a state of the broker is an update. *)
LEMMA AnnouncementTyped ==
    ASSUME NEW o \in Orders, NEW state \in OrderState, NEW p \in {"last", "average"}
    PROVE  /\ Announcement(o, state, p) \in Updates
           /\ Announcement(o, state, p).order = o
           /\ Announcement(o, state, p).traded = state.traded
BY DEF Announcement, Updates, OrderState

(* A change of status alone keeps the quantity the broker traded. *)
LEMMA WithStatusTyped ==
    ASSUME FillInv, NEW o \in Orders, NEW s \in Statuses
    PROVE  /\ WithStatus(o, s) \in OrderState
           /\ broker[o].traded <= WithStatus(o, s).traded
<1>1. broker[o] \in OrderState
  BY DEF FillInv, TypeOK
<1>2. broker[o].traded \in 0..Quantity
  BY <1>1 DEF OrderState
<1>3. WithStatus(o, s) = [status |-> s, traded |-> broker[o].traded]
  BY DEF WithStatus
<1>4. WithStatus(o, s) \in OrderState
  BY <1>2, <1>3 DEF OrderState
<1>5. broker[o].traded <= WithStatus(o, s).traded
  BY <1>2, <1>3, QuantityAssumption
<1>. QED
  BY <1>4, <1>5

(* The broker only ever raises the quantity it traded. *)
LEMMA BrokerMovesKeeps ==
    ASSUME FillInv, NEW o \in Orders, NEW state \in OrderState,
           broker[o].traded <= state.traded,
           BrokerMoves(o, state)
    PROVE  FillInv'
<1>. USE DEF FillInv, BrokerMoves
<1>1. PICK p \in {"last", "average"} :
         postbacks' = postbacks \union {Announcement(o, state, p)}
  BY DEF PostbackPrices
<1>2. broker' \in [Orders -> OrderState]
  BY DEF TypeOK
<1>3. \A q \in Orders : broker[q].traded <= broker'[q].traded
  BY <1>2 DEF TypeOK, OrderState
<1>4. /\ postbacks' \subseteq Updates
      /\ \A u \in postbacks' : u.traded <= broker'[u.order].traded
  <2>2. \A u \in postbacks : u \in Updates /\ u.order \in Orders /\ u.traded \in 0..Quantity
    BY DEF TypeOK, Updates
  <2>3. \A u \in postbacks : u.traded <= broker'[u.order].traded
    BY <2>2, <1>2, <1>3, QuantityAssumption DEF SentByBroker, TypeOK, OrderState
  <2>. QED
    BY <2>2, <2>3, <1>1, <1>2, AnnouncementTyped DEF TypeOK, OrderState
<1>5. /\ ws' \in Seq(Updates)
      /\ \A i \in 1..Len(ws') : ws'[i].traded <= broker'[ws'[i].order].traded
  <2>. DEFINE a == Announcement(o, state, "last")
  <2>1. a \in Updates /\ a.order = o /\ a.traded = state.traded
    BY AnnouncementTyped
  <2>2. \A i \in 1..Len(ws) : ws[i].traded <= broker'[ws[i].order].traded
    <3>. SUFFICES ASSUME NEW i \in 1..Len(ws)
                  PROVE  ws[i].traded <= broker'[ws[i].order].traded
      OBVIOUS
    <3>1. ws[i] \in Updates
      BY DEF TypeOK
    <3>2. ws[i].order \in Orders /\ ws[i].traded \in Nat
      BY <3>1, QuantityAssumption DEF Updates
    <3>3. ws[i].traded <= broker[ws[i].order].traded
      BY DEF SentByBroker
    <3>4. /\ broker[ws[i].order].traded \in Nat
          /\ broker'[ws[i].order].traded \in Nat
      BY <3>2, <1>2, QuantityAssumption DEF TypeOK, OrderState
    <3>. QED
      BY <3>2, <3>3, <3>4, <1>3
  <2>3. CASE connected
    <3>1. ws' = Append(ws, a)
      BY <2>3
    <3>. HIDE DEF a
    <3>2. /\ ws' \in Seq(Updates)
          /\ Len(ws') = Len(ws) + 1
          /\ ws'[Len(ws) + 1] = a
          /\ \A i \in 1..Len(ws) : ws'[i] = ws[i]
      BY <3>1, <2>1 DEF TypeOK
    <3>3. a.traded <= broker'[a.order].traded
      BY <2>1, <1>2 DEF TypeOK, OrderState
    <3>. QED
      BY <3>2, <3>3, <2>2 DEF TypeOK
  <2>4. CASE ~connected
    BY <2>4, <2>2 DEF TypeOK
  <2>. QED
    BY <2>3, <2>4
<1>6. TypeOK'
  BY <1>2, <1>4, <1>5 DEF TypeOK
<1>7. \A q \in Orders : filled'[q] <= orders'[q].traded /\ orders'[q].traded <= broker'[q].traded
  BY <1>2, <1>3, QuantityAssumption DEF TypeOK, OrderState
<1>. QED
  BY <1>4, <1>5, <1>6, <1>7 DEF SentByBroker

(* Whatever update is processed, fills stay within what is believed, and   *)
(* beliefs within what the broker traded.                                  *)
LEMMA ProcessUpdateKeeps ==
    ASSUME FillInv, NEW u \in Updates, SentByBroker(u),
           ProcessUpdate(u), UNCHANGED broker
    PROVE  /\ orders' \in [Orders -> OrderState]
           /\ fingerprints' \subseteq Updates
           /\ filled' \in [Orders -> 0..Quantity]
           /\ \A o \in Orders : /\ filled'[o] <= orders'[o].traded
                                /\ orders'[o].traded <= broker'[o].traded
<1>. USE DEF FillInv, TypeOK
<1>1. u.order \in Orders /\ u.status \in Statuses /\ u.traded \in 0..Quantity
  BY DEF Updates
<1>2. CASE Fingerprint(u) \in fingerprints
  BY <1>2 DEF ProcessUpdate
<1>3. CASE Fingerprint(u) \notin fingerprints /\ Gap(u)
  <2>1. fingerprints' = fingerprints \union {u} /\ UNCHANGED filled
    BY <1>3 DEF ProcessUpdate, Fingerprint
  <2>2. \/ orders' = [orders EXCEPT ![u.order] = broker[u.order]]
        \/ UNCHANGED orders
    BY <1>3 DEF ProcessUpdate, ReconcileWithBroker
  <2>3. orders' \in [Orders -> OrderState]
    BY <2>2, <1>1
  <2>4. \A o \in Orders : filled'[o] <= orders'[o].traded /\ orders'[o].traded <= broker'[o].traded
    <3>. SUFFICES ASSUME NEW o \in Orders
                  PROVE  filled'[o] <= orders'[o].traded /\ orders'[o].traded <= broker'[o].traded
      OBVIOUS
    <3>1. /\ filled[o] \in Nat /\ orders[o].traded \in Nat /\ broker[o].traded \in Nat
          /\ filled[o] <= orders[o].traded /\ orders[o].traded <= broker[o].traded
      BY QuantityAssumption DEF OrderState
    <3>2. orders'[o] = orders[o] \/ orders'[o] = broker[o]
      BY <2>2
    <3>. QED
      BY <2>1, <3>1, <3>2
  <2>. QED
    BY <2>1, <2>3, <2>4
<1>4. CASE Fingerprint(u) \notin fingerprints /\ ~Gap(u)
  <2>1. /\ fingerprints' = fingerprints \union {u}
        /\ filled' = [filled EXCEPT ![u.order] = @ + Increment(u)]
        /\ orders' = [orders EXCEPT ![u.order] = [status |-> u.status, traded |-> u.traded]]
    BY <1>4 DEF ProcessUpdate, Fingerprint
  <2>2. orders' \in [Orders -> OrderState]
    BY <2>1, <1>1 DEF OrderState
  <2>3. Increment(u) \in Nat /\ Increment(u) = u.traded - orders[u.order].traded
    BY <1>1, <1>4, QuantityAssumption DEF Increment, Gap, OrderState
  <2>4. filled[u.order] + Increment(u) \in 0..u.traded
    BY <2>3, <1>1, QuantityAssumption DEF OrderState
  <2>5. filled' \in [Orders -> 0..Quantity]
    BY <2>1, <2>4, <1>1, QuantityAssumption
  <2>6. \A o \in Orders : filled'[o] <= orders'[o].traded
    BY <2>1, <2>4, <1>1, QuantityAssumption
  <2>7. \A o \in Orders : orders'[o].traded <= broker'[o].traded
    BY <2>1, <1>1 DEF SentByBroker
  <2>. QED
    BY <2>1, <2>2, <2>5, <2>6, <2>7
<1>. QED
  BY <1>2, <1>3, <1>4

LEMMA FillStep == FillInv /\ [Next]_vars => FillInv'
<1>. SUFFICES ASSUME FillInv, [Next]_vars PROVE FillInv'
  OBVIOUS
<1>1. ASSUME NEW o \in Orders, Accept(o) PROVE FillInv'
  <2>1. /\ WithStatus(o, "PENDING") \in OrderState
        /\ broker[o].traded <= WithStatus(o, "PENDING").traded
    BY WithStatusTyped DEF Statuses
  <2>. QED
    BY <1>1, <2>1, BrokerMovesKeeps DEF Accept
<1>2. ASSUME NEW o \in Orders, Trade(o) PROVE FillInv'
  <2>. DEFINE lots == broker[o].traded + 1
              state == [status |-> IF lots = Quantity THEN "TRADED" ELSE "PART_TRADED",
                        traded |-> lots]
  <2>1. state \in OrderState /\ broker[o].traded <= state.traded
    BY <1>2, QuantityAssumption DEF Trade, FillInv, TypeOK, OrderState, Statuses
  <2>2. BrokerMoves(o, state)
    BY <1>2 DEF Trade
  <2>. QED
    BY <2>1, <2>2, BrokerMovesKeeps
<1>3. ASSUME NEW o \in Orders, CancelAtBroker(o) PROVE FillInv'
  <2>1. /\ WithStatus(o, "CANCELLED") \in OrderState
        /\ broker[o].traded <= WithStatus(o, "CANCELLED").traded
    BY WithStatusTyped DEF Statuses
  <2>. QED
    BY <1>3, <2>1, BrokerMovesKeeps DEF CancelAtBroker
<1>4. CASE Connect
  BY <1>4 DEF Connect, FillInv, TypeOK, SentByBroker
<1>5. CASE Disconnect
  <2>1. ws' = << >> /\ ws' \in Seq(Updates) /\ Len(ws') = 0
    BY <1>5 DEF Disconnect
  <2>2. TypeOK'
    BY <1>5, <2>1 DEF Disconnect, FillInv, TypeOK
  <2>3. \A i \in 1..Len(ws') : FALSE
    BY <2>1
  <2>. QED
    BY <1>5, <2>2, <2>3 DEF Disconnect, FillInv, SentByBroker
<1>6. CASE Frame
  <2>1. ws # << >> /\ ws \in Seq(Updates) /\ UNCHANGED broker
    BY <1>6 DEF Frame, FillInv, TypeOK
  <2>2. Head(ws) \in Updates /\ SentByBroker(Head(ws))
    BY <2>1 DEF FillInv
  <2>3. /\ ws' \in Seq(Updates)
        /\ \A i \in 1..Len(ws') : ws'[i] = ws[i + 1] /\ i + 1 \in 1..Len(ws)
    BY <1>6, <2>1 DEF Frame
  <2>4. \A i \in 1..Len(ws') : ws'[i].traded <= broker'[ws'[i].order].traded
    BY <2>1, <2>3 DEF FillInv, SentByBroker
  <2>. QED
    BY <1>6, <2>1, <2>2, <2>3, <2>4, ProcessUpdateKeeps DEF Frame, FillInv, TypeOK, SentByBroker
<1>7. ASSUME NEW u \in postbacks, Postback(u) PROVE FillInv'
  <2>1. u \in Updates /\ SentByBroker(u)
    BY DEF FillInv, TypeOK
  <2>. QED
    BY <1>7, <2>1, ProcessUpdateKeeps DEF Postback, FillInv, TypeOK, SentByBroker
<1>8. ASSUME NEW u \in postbacks, PostbackLost(u) PROVE FillInv'
  BY <1>8 DEF PostbackLost, FillInv, TypeOK, SentByBroker
<1>9. CASE UNCHANGED vars
  BY <1>9 DEF vars, FillInv, TypeOK, SentByBroker
<1>. QED
  BY <1>1, <1>2, <1>3, <1>4, <1>5, <1>6, <1>7, <1>8, <1>9 DEF Next

LEMMA FillAlways == Spec => []FillInv
BY FillInit, FillStep, PTL DEF Spec

(* Every variable of the order tracking keeps its type; in particular the  *)
(* fills reported for an order never pass the quantity ordered.            *)
THEOREM TypeCorrect == Spec => []TypeOK
<1>1. FillInv => TypeOK
  BY DEF FillInv
<1>. QED
  BY <1>1, FillAlways, PTL

(* No loss, repetition or reordering of order updates makes the reconciler *)
(* report more fills than the broker executed.                             *)
THEOREM FillsAreReal == Spec => []NoDuplicateFills
<1>1. FillInv => NoDuplicateFills
  BY QuantityAssumption DEF FillInv, NoDuplicateFills, TypeOK, OrderState
<1>. QED
  BY <1>1, FillAlways, PTL

(***************************************************************************)
(* An update that has been processed is never ahead of what is believed,   *)
(* because the recorded quantity only rises: an update that would lower it *)
(* is a gap, and the broker's own record, which may replace it then, is no *)
(* lower.                                                                  *)
(***************************************************************************)
Reached == \A u \in fingerprints : u.traded <= orders[u.order].traded

LEMMA ProcessUpdateReaches ==
    ASSUME FillInv, Reached, NEW u \in Updates, ProcessUpdate(u)
    PROVE  Reached'
<1>. USE DEF Reached
<1>1. CASE Fingerprint(u) \in fingerprints
  BY <1>1 DEF ProcessUpdate
<1>2. CASE Fingerprint(u) \notin fingerprints
  <2>1. u.order \in Orders /\ u.status \in Statuses /\ u.traded \in Nat
    BY QuantityAssumption DEF Updates
  <2>2. \A o \in Orders : /\ orders[o] \in OrderState /\ broker[o] \in OrderState
                          /\ orders[o].traded \in Nat /\ broker[o].traded \in Nat
                          /\ orders[o].traded <= broker[o].traded
    BY QuantityAssumption DEF FillInv, TypeOK, OrderState
  <2>3. fingerprints' = fingerprints \union {u}
    BY <1>2 DEF ProcessUpdate, Fingerprint
  <2>4. /\ \A o \in Orders : orders[o].traded <= orders'[o].traded /\ orders'[o].traded \in Nat
        /\ u.traded <= orders'[u.order].traded
    <3>1. CASE Gap(u)
      <4>1. u.traded < orders[u.order].traded
        BY <3>1 DEF Gap
      <4>2. orders' = [orders EXCEPT ![u.order] = broker[u.order]] \/ orders' = orders
        BY <1>2, <3>1 DEF ProcessUpdate, ReconcileWithBroker
      <4>3. \A o \in Orders : orders'[o] = orders[o] \/ orders'[o] = broker[o]
        BY <4>2 DEF FillInv, TypeOK
      <4>4. \A o \in Orders : orders[o].traded <= orders'[o].traded /\ orders'[o].traded \in Nat
        BY <2>2, <4>3
      <4>. QED
        BY <2>1, <2>2, <4>1, <4>4
    <3>2. CASE ~Gap(u)
      <4>1. orders[u.order].traded <= u.traded
        BY <2>1, <2>2, <3>2 DEF Gap
      <4>2. orders' = [orders EXCEPT ![u.order] = [status |-> u.status, traded |-> u.traded]]
        BY <1>2, <3>2 DEF ProcessUpdate
      <4>3. \A o \in Orders :
               orders'[o] = IF o = u.order THEN [status |-> u.status, traded |-> u.traded]
                                           ELSE orders[o]
        BY <4>2 DEF FillInv, TypeOK
      <4>. QED
        BY <2>1, <2>2, <4>1, <4>3
    <3>. QED
      BY <3>1, <3>2
  <2>5. \A v \in fingerprints : v.order \in Orders /\ v.traded \in Nat
    BY QuantityAssumption DEF FillInv, TypeOK, Updates
  <2>. QED
    BY <2>1, <2>2, <2>3, <2>4, <2>5
<1>. QED
  BY <1>1, <1>2

LEMMA ReachedStep == FillInv /\ Reached /\ [Next]_vars => Reached'
<1>. SUFFICES ASSUME FillInv, Reached, [Next]_vars PROVE Reached'
  OBVIOUS
<1>1. CASE \/ \E o \in Orders : Accept(o) \/ Trade(o) \/ CancelAtBroker(o)
           \/ Connect \/ Disconnect
           \/ \E u \in postbacks : PostbackLost(u)
  <2>1. UNCHANGED <<orders, fingerprints>>
    BY <1>1 DEF Accept, Trade, CancelAtBroker, BrokerMoves, Connect, Disconnect, PostbackLost
  <2>. QED
    BY <2>1 DEF Reached
<1>2. CASE Frame
  <2>1. ws \in Seq(Updates) /\ ws # << >>
    BY <1>2 DEF Frame, FillInv, TypeOK
  <2>2. Head(ws) \in Updates
    BY <2>1
  <2>. QED
    BY <1>2, <2>2, ProcessUpdateReaches DEF Frame
<1>3. ASSUME NEW u \in postbacks, Postback(u) PROVE Reached'
  <2>1. u \in Updates
    BY DEF FillInv, TypeOK
  <2>. QED
    BY <1>3, <2>1, ProcessUpdateReaches DEF Postback
<1>4. CASE UNCHANGED vars
  BY <1>4 DEF vars, Reached
<1>. QED
  BY <1>1, <1>2, <1>3, <1>4 DEF Next

(* Whatever copies of an order's updates are lost, repeated or reordered,  *)
(* and whether or not the REST query works: once the broker's last update  *)
(* has been processed, the recorded quantity is the broker's.              *)
THEOREM QuantityConverges == Spec => []TradedConverges
<1>1. Init => Reached
  BY DEF Init, Reached
<1>2. FillInv /\ Reached => TradedConverges
  <2>. SUFFICES ASSUME FillInv, Reached, NEW o \in Orders, NEW u \in fingerprints,
                       u.order = o, u.traded = broker[o].traded
                PROVE  orders[o].traded = broker[o].traded
    BY DEF TradedConverges, Announced
  <2>1. orders[o].traded \in Nat /\ broker[o].traded \in Nat
    BY QuantityAssumption DEF FillInv, TypeOK, OrderState
  <2>2. broker[o].traded <= orders[o].traded /\ orders[o].traded <= broker[o].traded
    BY DEF FillInv, Reached
  <2>. QED
    BY <2>1, <2>2
<1>. QED
  BY <1>1, <1>2, FillAlways, ReachedStep, PTL DEF Spec
================================================================================
