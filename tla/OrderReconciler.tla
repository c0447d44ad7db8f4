---------------------------- MODULE OrderReconciler ----------------------------
(***************************************************************************)
(* backend/app/engine/order_reconciler.py, and the way order updates reach *)
(* it (backend/app/dhan/order_stream.py).  The broker announces every      *)
(* change of an order twice: on a WebSocket, in order, but only to a       *)
(* client that is connected, and by HTTP postback, in any order, perhaps   *)
(* more than once, perhaps never.  The reconciler drops the copies it has  *)
(* seen, turns a rise of the cumulative quantity into one fill event, and  *)
(* asks the broker's REST interface when the quantity falls.               *)
(*                                                                         *)
(* Quantities are counted in lots, and the exchange fills one lot at a     *)
(* time.  No two changes of an order agree in both status and quantity, so *)
(* the time stamp in the fingerprint tells nothing more apart and is left  *)
(* out.  The price does: a WebSocket update carries the price of the last  *)
(* trade, a postback the average, and from the second fill on the two may  *)
(* differ.                                                                 *)
(***************************************************************************)
EXTENDS Integers, Sequences, FiniteSets

CONSTANTS Orders,     \* orders at the broker
          Quantity    \* lots of every order

ASSUME QuantityAssumption == Quantity \in Nat \ {0}

VARIABLES broker,        \* the broker's own record of every order
          connected,     \* is the WebSocket up
          ws,            \* updates on the WebSocket, oldest first
          postbacks,     \* postbacks that may still be delivered
          orders,        \* _orders: what the reconciler believes
          fingerprints,  \* _processed_global_fingerprints
          filled        \* sum of the fill events returned, per order

vars == <<broker, connected, ws, postbacks, orders, fingerprints, filled>>

Statuses == {"TRANSIT", "PENDING", "PART_TRADED", "TRADED", "CANCELLED"}
OrderState == [status: Statuses, traded: 0..Quantity]
Updates == [order: Orders, status: Statuses, traded: 0..Quantity,
            price: {"last", "average"}]

(* An order first heard of starts PENDING with nothing traded. *)
Unheard == [status |-> "PENDING", traded |-> 0]

Init ==
    /\ broker = [o \in Orders |-> [status |-> "TRANSIT", traded |-> 0]]
    /\ connected = FALSE
    /\ ws = << >>
    /\ postbacks = {}
    /\ orders = [o \in Orders |-> Unheard]
    /\ fingerprints = {}
    /\ filled = [o \in Orders |-> 0]

(***************************************************************************)
(* The broker and the two channels.                                        *)
(***************************************************************************)
Announcement(o, state, price) ==
    [order |-> o, status |-> state.status, traded |-> state.traded, price |-> price]

(* The two prices can only differ once an order has traded twice. *)
PostbackPrices(state) == IF state.traded > 1 THEN {"last", "average"} ELSE {"last"}

BrokerMoves(o, state) ==
    /\ broker' = [broker EXCEPT ![o] = state]
    /\ ws' = IF connected THEN Append(ws, Announcement(o, state, "last")) ELSE ws
    /\ \E p \in PostbackPrices(state) :
          postbacks' = postbacks \union {Announcement(o, state, p)}
    /\ UNCHANGED <<connected, orders, fingerprints, filled>>

WithStatus(o, s) == [status |-> s, traded |-> broker[o].traded]

Live(o) == broker[o].status \in {"PENDING", "PART_TRADED"}

Accept(o) ==
    /\ broker[o].status = "TRANSIT"
    /\ BrokerMoves(o, WithStatus(o, "PENDING"))

Trade(o) ==
    LET lots == broker[o].traded + 1
    IN  /\ Live(o)
        /\ lots <= Quantity
        /\ BrokerMoves(o, [status |-> IF lots = Quantity THEN "TRADED" ELSE "PART_TRADED",
                           traded |-> lots])

CancelAtBroker(o) ==
    /\ Live(o)
    /\ BrokerMoves(o, WithStatus(o, "CANCELLED"))

(* _connect_and_listen after the back-off of connect_and_run; nothing is   *)
(* asked about the updates missed meanwhile.                               *)
Connect ==
    /\ ~connected
    /\ connected' = TRUE
    /\ UNCHANGED <<broker, ws, postbacks, orders, fingerprints, filled>>

Disconnect ==
    /\ connected
    /\ connected' = FALSE
    /\ ws' = << >>
    /\ UNCHANGED <<broker, postbacks, orders, fingerprints, filled>>

PostbackLost(u) ==
    /\ postbacks' = postbacks \ {u}
    /\ UNCHANGED <<broker, connected, ws, orders, fingerprints, filled>>

(***************************************************************************)
(* process_update.                                                         *)
(***************************************************************************)
Fingerprint(u) == u

(* For the checks of the properties: a lower quantity taken as it comes. *)
Gap_Ignored(u) == FALSE

(* A cumulative quantity below the one recorded is a sequence gap. *)
Gap(u) == u.traded < orders[u.order].traded

(* For the checks of the properties: the cumulative quantity reported as a *)
(* fill.                                                                   *)
Increment_Cumulative(u) == u.traded

(* The quantity of the fill event, if there is one. *)
Increment(u) ==
    IF u.traded > orders[u.order].traded THEN u.traded - orders[u.order].traded ELSE 0

(* reconcile_with_broker: the broker's record replaces the local one, with *)
(* no fill event for what it adds; without a REST client, or when the      *)
(* query fails, the order is left alone.                                   *)
ReconcileWithBroker(o) ==
    \/ orders' = [orders EXCEPT ![o] = broker[o]]
    \/ UNCHANGED orders

ProcessUpdate(u) ==
    IF Fingerprint(u) \in fingerprints
    THEN UNCHANGED <<orders, fingerprints, filled>>
    ELSE /\ fingerprints' = fingerprints \union {Fingerprint(u)}
         /\ \/ /\ Gap(u)
               /\ ReconcileWithBroker(u.order)
               /\ UNCHANGED filled
            \/ /\ ~Gap(u)
               /\ filled' = [filled EXCEPT ![u.order] = @ + Increment(u)]
               /\ orders' = [orders EXCEPT ![u.order] =
                                [status |-> u.status, traded |-> u.traded]]

(* handle_raw_frame and handle_postback, on the one event loop. *)
Frame ==
    /\ ws # << >>
    /\ ProcessUpdate(Head(ws))
    /\ ws' = Tail(ws)
    /\ UNCHANGED <<broker, connected, postbacks>>

Postback(u) ==
    /\ ProcessUpdate(u)
    /\ UNCHANGED <<broker, connected, ws, postbacks>>

Next ==
    \/ \E o \in Orders : Accept(o) \/ Trade(o) \/ CancelAtBroker(o)
    \/ Connect \/ Disconnect \/ Frame
    \/ \E u \in postbacks : Postback(u) \/ PostbackLost(u)

Spec == Init /\ [][Next]_vars

(***************************************************************************)
(* Properties.                                                             *)
(***************************************************************************)
(* Every variable stays in its type: in particular neither the recorded    *)
(* quantity nor the sum of the fills passes the quantity of the order.     *)
TypeOK ==
    /\ broker \in [Orders -> OrderState]
    /\ connected \in BOOLEAN
    /\ ws \in Seq(Updates)
    /\ postbacks \subseteq Updates
    /\ orders \in [Orders -> OrderState]
    /\ fingerprints \subseteq Updates
    /\ filled \in [Orders -> 0..Quantity]

(* "Duplicate/lost/out-of-order events converge to broker truth without   *)
(* duplicate fills" (docs/qa/acceptance/F12.2.md:7): the fill events given *)
(* out for an order never add up to more than the broker traded.           *)
NoDuplicateFills == \A o \in Orders : filled[o] <= broker[o].traded

(* The newest update of o has been processed. *)
Announced(o) ==
    \E u \in fingerprints : /\ u.order = o
                            /\ u.status = broker[o].status
                            /\ u.traded = broker[o].traded

(* Once the broker's last update of an order has been processed, by either *)
(* channel, the recorded quantity is the broker's, whatever older copies   *)
(* came before and come after it, and whether or not the REST query works. *)
TradedConverges == \A o \in Orders : Announced(o) => orders[o].traded = broker[o].traded
================================================================================
