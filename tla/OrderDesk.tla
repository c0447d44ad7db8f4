------------------------------- MODULE OrderDesk -------------------------------
(***************************************************************************)
(* The way of a live order from the ticket to Dhan:                        *)
(*   place_ticket_order                       backend/app/api/orders.py    *)
(*   AuditedRiskFilteredBroker                backend/app/engine/gateway.py*)
(*   RiskEngine                               backend/app/engine/risk.py   *)
(*   DhanBroker                               backend/app/engine/broker.py *)
(*   DhanRestClient._request_with_retry       backend/app/dhan/client.py   *)
(* A request is one POST of a ticket, on a thread of its own.  It carries  *)
(* the correlation id its client gave it, and nothing keeps two requests   *)
(* from carrying the same one, at the same time or one after the other.    *)
(* Requests share the audit ledger, taken at its word (AuditTrail), and    *)
(* nothing else: each gets a risk engine of its own.  The map              *)
(* _uncertain_orders is left out: DhanBroker and the preflight check keep  *)
(* every timeout to themselves, so that nothing ever fills it and the      *)
(* answer 409 is never given.  Waits only delay a step.                    *)
(***************************************************************************)
EXTENDS Integers, Sequences, SequencesExt, FiniteSets

CONSTANTS Requests,        \* POSTs of a ticket
          CorrelationIds,  \* the ids their clients gave them
          Cid,             \* the id of every request
          Slices,          \* slices of every request: one below the freeze limit
          Operator,        \* who works a kill switch
          MaxAttempts,     \* RetryPolicy.max_attempts
          MaxRestarts      \* bound: ends of the process

ASSUME DeskAssumption ==
    /\ IsFiniteSet(Requests)
    /\ Cid \in [Requests -> CorrelationIds]
    /\ Slices \in [Requests -> Nat \ {0}]
    /\ Operator \notin Requests
    /\ MaxAttempts \in Nat \ {0}
    /\ MaxRestarts \in Nat

VARIABLES trail,        \* the events the ledger holds of every correlation id
          sound,        \* has every line reached the ledger's file in full
          halted,       \* whose risk engine has _is_halted set
          pc,           \* where the thread of a request is
          slice,        \* the slice being placed
          attempt,      \* the attempt at it
          responses,    \* responses of the slices that are yet to be recorded
          fault,        \* the exception on its way out, if there is one
          answer,       \* what the user was told
          orders,       \* at Dhan: orders of every request and slice
          unconfirmed,  \* those of them whose answer never reached the desk (history)
          restarts      \* ends of the process so far

vars == <<trail, sound, halted, pc, slice, attempt, responses, fault, answer, orders,
          unconfirmed, restarts>>

SliceNumbers == UNION {1..Slices[r] : r \in Requests}
EventKinds == {"EVALUATED", "APPROVED", "REJECTED", "SUBMITTED", "RESPONSE", "FAILURE"}
PCs == {"idle", "filter", "approved", "check", "send", "respond", "done"}
Sliced(r) == Slices[r] > 1

Init ==
    /\ trail = [c \in CorrelationIds |-> << >>]
    /\ sound = TRUE
    /\ halted = {}
    /\ pc = [r \in Requests |-> "idle"]
    /\ slice = [r \in Requests |-> 1]
    /\ attempt = [r \in Requests |-> 1]
    /\ responses = [r \in Requests |-> << >>]
    /\ fault = [r \in Requests |-> "none"]
    /\ answer = [r \in Requests |-> "none"]
    /\ orders = [r \in Requests |-> [s \in SliceNumbers |-> 0]]
    /\ unconfirmed = [r \in Requests |-> [s \in SliceNumbers |-> 0]]
    /\ restarts = 0

Goto(r, label) == pc' = [pc EXCEPT ![r] = label]

(* record_event, together with the return of the call: see AuditTrail. *)
Record(r, kind) ==
    /\ trail' = [trail EXCEPT ![Cid[r]] = Append(@, kind)]
    /\ sound' \in {sound, FALSE}

(***************************************************************************)
(* place_ticket_order and the gateway up to the broker.                    *)
(***************************************************************************)
(* Whatever became of other requests with the same correlation id. *)
Post(r) ==
    /\ pc[r] = "idle"
    /\ Record(r, "EVALUATED")
    /\ Goto(r, "filter")
    /\ UNCHANGED <<halted, slice, attempt, responses, fault, answer, orders, unconfirmed,
                   restarts>>

(* filter_order looks at the kill switch of the engine it belongs to, the  *)
(* request's own (get_risk_filtered_broker); the caps may reject any order.*)
FilterPasses(r) == r \notin halted

(* For the checks of the properties: approved without a word to the ledger. *)
Filter_Unrecorded(r) ==
    /\ pc[r] = "filter"
    /\ FilterPasses(r)
    /\ Goto(r, "approved")
    /\ UNCHANGED <<trail, sound, halted, slice, attempt, responses, fault, answer, orders,
                   unconfirmed, restarts>>

Filter(r) ==
    /\ pc[r] = "filter"
    /\ \/ /\ FilterPasses(r)
          /\ Record(r, "APPROVED")
          /\ Goto(r, "approved")
          /\ UNCHANGED answer
       \/ /\ Record(r, "REJECTED")
          /\ Goto(r, "done")
          /\ answer' = [answer EXCEPT ![r] = "refused"]
    /\ UNCHANGED <<halted, slice, attempt, responses, fault, orders, unconfirmed, restarts>>

(* For the checks of the properties: sent before it is recorded. *)
RecordSubmitted_Forgotten(r) ==
    /\ pc[r] = "approved"
    /\ Goto(r, "check")
    /\ UNCHANGED <<trail, sound, halted, slice, attempt, responses, fault, answer, orders,
                   unconfirmed, restarts>>

RecordSubmitted(r) ==
    /\ pc[r] = "approved"
    /\ Record(r, "SUBMITTED")
    /\ Goto(r, "check")
    /\ UNCHANGED <<halted, slice, attempt, responses, fault, answer, orders, unconfirmed,
                   restarts>>

(* A single order is filtered once more by RiskFilteredBroker.place_order, *)
(* slices are not.  Then, for every slice, _verify_preflight_safety.       *)
Check(r) ==
    /\ pc[r] = "check"
    /\ \/ /\ Sliced(r) \/ FilterPasses(r)
          /\ Goto(r, "send")
          /\ UNCHANGED fault
       \/ /\ Goto(r, "respond")
          /\ fault' = [fault EXCEPT ![r] = "refused"]
    /\ UNCHANGED <<trail, sound, halted, slice, attempt, responses, answer, orders,
                   unconfirmed, restarts>>

(***************************************************************************)
(* One attempt of _request_with_retry at POST /orders.                     *)
(***************************************************************************)
DhanPlaces(r) == orders' = [orders EXCEPT ![r][slice[r]] = @ + 1]

(* Whether the order was placed, the desk does not learn. *)
PerhapsPlaced(r) ==
    \/ DhanPlaces(r) /\ unconfirmed' = [unconfirmed EXCEPT ![r][slice[r]] = @ + 1]
    \/ UNCHANGED <<orders, unconfirmed>>

Responded(r, status) ==
    /\ responses' = [responses EXCEPT ![r] = Append(@, status)]
    /\ attempt' = [attempt EXCEPT ![r] = 1]
    /\ IF slice[r] < Slices[r]
       THEN slice' = [slice EXCEPT ![r] = @ + 1] /\ Goto(r, "check")
       ELSE UNCHANGED slice /\ Goto(r, "respond")
    /\ UNCHANGED fault

(* For the checks of the properties: every broker error answered with 403. *)
Raised_Refused(r) ==
    /\ fault' = [fault EXCEPT ![r] = "refused"]
    /\ Goto(r, "respond")
    /\ UNCHANGED <<slice, attempt, responses>>

Raised(r) ==
    /\ fault' = [fault EXCEPT ![r] = "error"]
    /\ Goto(r, "respond")
    /\ UNCHANGED <<slice, attempt, responses>>

(* For the checks of the properties: any answer is retried while attempts remain. *)
Accepted_Retried(r) ==
    /\ DhanPlaces(r)
    /\ UNCHANGED unconfirmed
    /\ IF attempt[r] < MaxAttempts
       THEN /\ attempt' = [attempt EXCEPT ![r] = @ + 1]
            /\ UNCHANGED <<pc, slice, responses, fault>>
       ELSE Responded(r, "accepted")

Accepted(r) ==
    /\ DhanPlaces(r)
    /\ Responded(r, "accepted")
    /\ UNCHANGED unconfirmed

(* A 4xx answer, or no token of the limiter in time. *)
Rejected(r) ==
    /\ Raised(r)
    /\ UNCHANGED <<orders, unconfirmed>>

(* A 200 answer that cannot be parsed, or a connection that breaks while   *)
(* the answer is read, which the transport does not wrap: no retry.        *)
Unreadable(r) == PerhapsPlaced(r) /\ Raised(r)

(* For the checks of the properties: one attempt too many. *)
ShouldRetry_OneMore(r) == attempt[r] <= MaxAttempts

ShouldRetry(r) == attempt[r] < MaxAttempts

(* A timeout, no connection, a 429 or a 5xx answer.  The order is sent     *)
(* again while attempts remain; after the last one DhanBroker turns a      *)
(* timeout into a pending response, and lets any other error out.          *)
Transient(r) ==
    /\ PerhapsPlaced(r)
    /\ \/ /\ ShouldRetry(r)
          /\ attempt' = [attempt EXCEPT ![r] = @ + 1]
          /\ UNCHANGED <<pc, slice, responses, fault>>
       \/ ~ShouldRetry(r) /\ (Responded(r, "pending") \/ Raised(r))

Attempt(r) ==
    /\ pc[r] = "send"
    /\ Accepted(r) \/ Rejected(r) \/ Unreadable(r) \/ Transient(r)
    /\ UNCHANGED <<trail, sound, halted, answer, restarts>>

(***************************************************************************)
(* The responses of all slices are recorded, or else an exception once,    *)
(* with none of the responses there were before it; the status of the      *)
(* first response stands for all of them.                                  *)
(***************************************************************************)
Answer(r) == IF fault[r] # "none" THEN fault[r] ELSE responses[r][1]
MoreToRecord(r) == fault[r] = "none" /\ Len(responses[r]) > 1

Respond(r) ==
    /\ pc[r] = "respond"
    /\ Record(r, IF fault[r] = "none" THEN "RESPONSE" ELSE "FAILURE")
    /\ \/ /\ MoreToRecord(r)
          /\ responses' = [responses EXCEPT ![r] = Front(@)]
          /\ UNCHANGED <<pc, answer>>
       \/ /\ ~MoreToRecord(r)
          /\ answer' = [answer EXCEPT ![r] = Answer(r)]
          /\ Goto(r, "done")
          /\ UNCHANGED responses
    /\ UNCHANGED <<halted, slice, attempt, fault, orders, unconfirmed, restarts>>

(***************************************************************************)
(* The operator, and the end of the process.                               *)
(***************************************************************************)
(* No route halts an engine.  An operator may get one the way a request    *)
(* does, and halt that one.                                                *)
Halt ==
    /\ halted' = halted \union {Operator}
    /\ UNCHANGED <<trail, sound, pc, slice, attempt, responses, fault, answer, orders,
                   unconfirmed, restarts>>

Unhalt ==
    /\ halted' = halted \ {Operator}
    /\ UNCHANGED <<trail, sound, pc, slice, attempt, responses, fault, answer, orders,
                   unconfirmed, restarts>>

(* The threads and the engines are gone.  With a file that is not whole,   *)
(* any later part of the trails may be gone.                               *)
ProcessEnds ==
    /\ restarts < MaxRestarts
    /\ restarts' = restarts + 1
    /\ sound' \in {sound, FALSE}
    /\ \E lost \in SUBSET CorrelationIds :
          /\ sound => lost = {}
          /\ trail' = [c \in CorrelationIds |-> IF c \in lost THEN << >> ELSE trail[c]]
    /\ pc' = [r \in Requests |-> IF pc[r] = "idle" THEN "idle" ELSE "done"]
    /\ halted' = {}
    /\ UNCHANGED <<slice, attempt, responses, fault, answer, orders, unconfirmed>>

RequestStep(r) ==
    Post(r) \/ Filter(r) \/ RecordSubmitted(r) \/ Check(r) \/ Attempt(r) \/ Respond(r)

Next == (\E r \in Requests : RequestStep(r)) \/ Halt \/ Unhalt \/ ProcessEnds

Spec == Init /\ [][Next]_vars
(***************************************************************************)
(* Properties.                                                             *)
(***************************************************************************)
(* Every variable stays in its type; at most MaxAttempts attempts are made *)
(* at a slice.                                                             *)
TypeOK ==
    /\ trail \in [CorrelationIds -> Seq(EventKinds)]
    /\ sound \in BOOLEAN
    /\ halted \subseteq {Operator}
    /\ pc \in [Requests -> PCs]
    /\ slice \in [Requests -> Nat] /\ \A r \in Requests : slice[r] \in 1..Slices[r]
    /\ attempt \in [Requests -> 1..MaxAttempts]
    /\ responses \in [Requests -> Seq({"accepted", "pending"})]
    /\ fault \in [Requests -> {"none", "refused", "error"}]
    /\ answer \in [Requests -> {"none", "accepted", "pending", "refused", "error"}]
    /\ orders \in [Requests -> [SliceNumbers -> Nat]]
    /\ unconfirmed \in [Requests -> [SliceNumbers -> Nat]]
    /\ restarts \in 0..MaxRestarts

(* The events of a kind among the first n of a correlation id. *)
CountUpTo(c, kind, n) == Cardinality({i \in 1..n : trail[c][i] = kind})
CountOf(c, kind) == CountUpTo(c, kind, Len(trail[c]))

Carriers(c) == {r \in Requests : Cid[r] = c}
AtDhan(r) == \E s \in SliceNumbers : orders[r][s] > 0

(* "Each lifecycle boundary is immutably hashed into the audit ledger"     *)
(* (gateway.py:184): of the requests that carry a correlation id, no more  *)
(* have an order at Dhan than there are ORDER_SUBMITTED of that id in the  *)
(* file, whenever the process ends and however they run into each other.   *)
OrdersAreOnRecord ==
    sound => \A c \in CorrelationIds :
        Cardinality({r \in Carriers(c) : AtDhan(r)}) <= CountOf(c, "SUBMITTED")

(* In every prefix of the events of a correlation id no decision is there  *)
(* without an evaluation, no submission without an approval, no failure    *)
(* and no response without a submission, even if several requests carry    *)
(* the id and write in between (gateway.py:43-104).                        *)
LifecycleInOrder ==
    sound => \A c \in CorrelationIds : \A n \in 1..Len(trail[c]) :
        /\ CountUpTo(c, "APPROVED", n) + CountUpTo(c, "REJECTED", n)
               <= CountUpTo(c, "EVALUATED", n)
        /\ CountUpTo(c, "SUBMITTED", n) <= CountUpTo(c, "APPROVED", n)
        /\ CountUpTo(c, "FAILURE", n) <= CountUpTo(c, "SUBMITTED", n)
        /\ trail[c][n] = "RESPONSE" => CountUpTo(c, "SUBMITTED", n) > 0

(* An answer of 403 means what it says of the slice it came at and of all  *)
(* after it: the risk engine or the preflight stopped them, and Dhan never *)
(* saw them (orders.py:294).  The slices before it may well be at Dhan.    *)
RefusedIsUnplaced ==
    \A r \in Requests : answer[r] = "refused" =>
        \A s \in SliceNumbers : s >= slice[r] => orders[r][s] = 0

(* One request puts a slice at Dhan more than once only if an answer about *)
(* that slice was lost on its way to the desk, and never more often than   *)
(* max_attempts (client.py:115).                                           *)
DuplicatesWereUnconfirmed ==
    \A r \in Requests, s \in SliceNumbers :
        orders[r][s] <= unconfirmed[r][s] + 1 /\ orders[r][s] <= MaxAttempts

(***************************************************************************)
(* What the docs say, and the code does not do.                            *)
(***************************************************************************)
(* "Network timeouts or non-deterministic broker transport errors during   *)
(* order placement do not trigger blind retry (to prevent duplicate        *)
(* fills)" (docs/qa/acceptance/F12.1.md:30): one request leaves at most    *)
(* one order at Dhan for every slice.                                      *)
NoBlindRetry == \A r \in Requests, s \in SliceNumbers : orders[r][s] <= 1
================================================================================
