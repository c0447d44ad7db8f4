------------------------------ MODULE PaperTrading ------------------------------
(***************************************************************************)
(* Paper trading, all of it in the memory of one process and without locks:*)
(*   PaperBroker                   backend/app/paper/broker.py             *)
(*   PaperFillPolicy               backend/app/paper/fill_policy.py        *)
(*   PaperRepository               backend/app/paper/repository.py         *)
(*   PaperDeploymentManager        backend/app/paper/lifecycle.py          *)
(*   the endpoints of the above    backend/app/api/paper.py                *)
(* One feed thread brings the prices of one security to the broker; the    *)
(* endpoints run on threads of a pool (the clients here), each a check and *)
(* then an act.  POST /orders makes the id of an order from its contents,  *)
(* so an order submitted again is a new object under the old id: objects   *)
(* are numbered here, and the repository says which one an id stands for.  *)
(*                                                                         *)
(* Accounts exist from the start.  Average prices and profits are left out.*)
(***************************************************************************)
EXTENDS Integers, Sequences, FiniteSets, FiniteSetsExt

CONSTANTS Accounts,
          Orders,          \* order ids
          Ticket,          \* what every order id asks for
          Ticks,           \* price updates: stamp, price, low and high
          Capital,         \* initial_capital of every account
          Charge,          \* transaction_cost of a fill
          Deployments,
          Owner,           \* the account of every deployment
          Clients,         \* threads that serve endpoints
          MaxSubmissions   \* bound: orders submitted

ASSUME TicketAssumption == \A o \in Orders : /\ Ticket[o].quantity \in Nat \ {0}
                                             /\ Ticket[o].account \in Accounts
                                             /\ Ticket[o].price \in Int
ASSUME PriceAssumption == /\ \A t \in Ticks : t.price \in Int
                          /\ Capital \in Int /\ Charge \in Int
ASSUME ThreadsAssumption == IsFiniteSet(Clients) /\ MaxSubmissions \in Nat

VARIABLES objects,      \* the PaperOrder objects made so far
          current,      \* _orders: the object of every id, 0 without one
          fills,        \* _fills, by fill id
          processed,    \* _processed_fill_ids of the broker
          cash,         \* cash_balance of every account
          position,     \* quantity held by every account
          deployment,   \* state of every deployment
          feed,         \* the price update at work
          client,       \* the endpoint call of every client
          cleanly,      \* objects a cancel found with no fill under way (history)
          cut,          \* objects there were when a deployment was last stopped (history)
          wasReset      \* accounts that were reset (history)

vars == <<objects, current, fills, processed, cash, position, deployment, feed, client,
          cleanly, cut, wasReset>>
books == <<fills, processed, cash, position>>

Working == {"ACCEPTED", "PARTIALLY_FILLED"}
Statuses == Working \union {"REJECTED", "FILLED", "CANCELLED"}
FillIds == Orders \X {t.stamp : t \in Ticks}
Idle == [op |-> "idle"]
NoPrice == 0
NoFill == [quantity |-> 0]

Init ==
    /\ objects = << >>
    /\ current = [o \in Orders |-> 0]
    /\ fills = [id \in FillIds |-> NoFill]
    /\ processed = {}
    /\ cash = [a \in Accounts |-> Capital]
    /\ position = [a \in Accounts |-> 0]
    /\ deployment = [d \in Deployments |-> "NONE"]
    /\ feed = Idle
    /\ client = [c \in Clients |-> Idle]
    /\ cleanly = {}
    /\ cut = [d \in Deployments |-> 0]
    /\ wasReset = {}

Call(c, record) == client' = [client EXCEPT ![c] = record]
Busy(c, op) == client[c].op = op
Status(o) == IF current[o] = 0 THEN "NONE" ELSE objects[current[o]].status
WorkingOf(a, statuses) == {o \in Orders : Ticket[o].account = a /\ Status(o) \in statuses}

(***************************************************************************)
(* Orders submitted and cancelled.                                         *)
(***************************************************************************)
Submitting == Cardinality({c \in Clients : Busy(c, "submit")})
Estimate(o) == Ticket[o].quantity * IF Ticket[o].price = NoPrice THEN 100 ELSE Ticket[o].price

(* The cash check of submit_orders, which reserves nothing ... *)
BeginSubmit(c, o) ==
    /\ Busy(c, "idle")
    /\ Len(objects) + Submitting < MaxSubmissions
    /\ Call(c, [op |-> "submit", order |-> o,
                status |-> IF Ticket[o].side = "BUY" /\ cash[Ticket[o].account] < Estimate(o)
                           THEN "REJECTED" ELSE "ACCEPTED"])
    /\ UNCHANGED <<objects, current, books, deployment, feed, cleanly, cut, wasReset>>

(* For the checks of the properties: the object before it. *)
NewObject_OffByOne == Len(objects)

NewObject == Len(objects) + 1

(* ... and save_order of the new object. *)
EndSubmit(c) ==
    /\ Busy(c, "submit")
    /\ objects' = Append(objects, [order |-> client[c].order, status |-> client[c].status,
                                   filled |-> 0])
    /\ current' = [current EXCEPT ![client[c].order] = NewObject]
    /\ Call(c, Idle)
    /\ UNCHANGED <<books, deployment, feed, cleanly, cut, wasReset>>

(* cancel_order finds a working order ... *)
BeginCancel(c, o) ==
    /\ Busy(c, "idle")
    /\ Status(o) \in Working
    /\ Call(c, [op |-> "cancel", object |-> current[o]])
    /\ UNCHANGED <<objects, current, books, deployment, feed, cleanly, cut, wasReset>>

(* ... and cancels and saves that object, whatever became of it. *)
FillUnderWay(o) == feed.op = "book" /\ feed.fill.id[1] = o
Cancelled(i) ==
    /\ objects' = [objects EXCEPT ![i].status = "CANCELLED"]
    /\ current' = [current EXCEPT ![objects[i].order] = i]
    /\ cleanly' = IF FillUnderWay(objects[i].order) THEN cleanly ELSE cleanly \union {i}

EndCancel(c) ==
    /\ Busy(c, "cancel")
    /\ Cancelled(client[c].object)
    /\ Call(c, Idle)
    /\ UNCHANGED <<books, deployment, feed, cut, wasReset>>

(* create_or_reset_account: fills and positions stay. *)
ResetAccount(a) ==
    /\ cash' = [cash EXCEPT ![a] = Capital]
    /\ wasReset' = wasReset \union {a}
    /\ UNCHANGED <<objects, current, fills, processed, position, deployment, feed, client, cleanly,
                   cut>>

(***************************************************************************)
(* PaperFillPolicy.match_order.                                            *)
(***************************************************************************)
Buys(o) == Ticket[o].side = "BUY"
Touched(o, t) ==
    /\ Ticket[o].price # NoPrice
    /\ IF Buys(o) THEN t.low <= Ticket[o].price ELSE t.high >= Ticket[o].price
Triggered(o, t) ==
    /\ Ticket[o].trigger # NoPrice
    /\ IF Buys(o) THEN t.high >= Ticket[o].trigger ELSE t.low <= Ticket[o].trigger

Reached(o, t) ==
    CASE Ticket[o].kind = "MARKET" -> TRUE
      [] Ticket[o].kind = "LIMIT" -> Touched(o, t)
      [] Ticket[o].kind = "STOP_LOSS_MARKET" -> Triggered(o, t)
      [] Ticket[o].kind = "STOP_LOSS_LIMIT" -> Triggered(o, t) /\ Touched(o, t)

ExecPrice(o, t) ==
    IF Ticket[o].kind \in {"MARKET", "STOP_LOSS_MARKET"} THEN t.price
    ELSE IF Buys(o) THEN Min({t.price, Ticket[o].price}) ELSE Max({t.price, Ticket[o].price})

(* For the checks of the properties: the listed order taken as it was. *)
Matches_Stale(i, t) == Reached(objects[i].order, t)

Matches(i, t) ==
    /\ objects[i].status \in Working
    /\ Ticket[objects[i].order].quantity > objects[i].filled
    /\ Reached(objects[i].order, t)

FillOf(i, t) ==
    LET o == objects[i].order
    IN  [id |-> <<o, t.stamp>>, quantity |-> Ticket[o].quantity - objects[i].filled,
         price |-> ExecPrice(o, t), charge |-> Charge]

(***************************************************************************)
(* process_price_update and apply_fill, on the feed thread.                *)
(***************************************************************************)
BeginUpdate(t) ==
    /\ feed = Idle
    /\ feed' = [op |-> "match", tick |-> t, accounts |-> Accounts, pending |-> {},
                fill |-> NoFill, object |-> 0, balance |-> 0]
    /\ UNCHANGED <<objects, current, books, deployment, client, cleanly, cut, wasReset>>

(* The accepted orders of the next account. *)
ListAccount(a) ==
    /\ feed.op = "match" /\ feed.pending = {}
    /\ a \in feed.accounts
    /\ feed' = [feed EXCEPT !.accounts = @ \ {a},
                            !.pending = {current[o] : o \in WorkingOf(a, {"ACCEPTED"})}]
    /\ UNCHANGED <<objects, current, books, deployment, client, cleanly, cut, wasReset>>

(* A listed order may have been cancelled or replaced since. *)
MatchNext(i) ==
    /\ feed.op = "match"
    /\ i \in feed.pending
    /\ feed' = IF Matches(i, feed.tick)
               THEN [feed EXCEPT !.pending = @ \ {i}, !.op = "book",
                                 !.fill = FillOf(i, feed.tick)]
               ELSE [feed EXCEPT !.pending = @ \ {i}]
    /\ UNCHANGED <<objects, current, books, deployment, client, cleanly, cut, wasReset>>

FillOrder == feed.fill.id[1]
FillAccount == Ticket[FillOrder].account

(* For the checks of the properties: filled, and still accepted. *)
Filled_StaysAccepted(object) == [object EXCEPT !.status = "ACCEPTED"]

Filled(object) ==
    LET sum == object.filled + feed.fill.quantity
    IN  [object EXCEPT !.filled = sum,
                       !.status = IF sum >= Ticket[object.order].quantity
                                  THEN "FILLED" ELSE "PARTIALLY_FILLED"]

(* For the checks of the properties: the fill booked whatever its id. *)
Duplicate_Never == FALSE

Duplicate == feed.fill.id \in processed

(* The fill is on file and the object which its id stands for is filled in *)
(* place, unless the broker knows the fill id ...                          *)
Book ==
    /\ feed.op = "book"
    /\ IF Duplicate
       THEN /\ feed' = [feed EXCEPT !.op = "match", !.fill = NoFill]
            /\ UNCHANGED <<objects, fills, processed>>
       ELSE /\ feed' = [feed EXCEPT !.op = "file", !.object = current[FillOrder]]
            /\ processed' = processed \union {feed.fill.id}
            /\ fills' = [fills EXCEPT ![feed.fill.id] = feed.fill]
            /\ objects' = [objects EXCEPT ![current[FillOrder]] = Filled(@)]
    /\ UNCHANGED <<current, cash, position, deployment, client, cleanly, cut, wasReset>>

(* ... and save_order makes the id stand for it again: an order submitted  *)
(* under that id in between is forgotten.                                  *)
SaveOrder ==
    /\ feed.op = "file"
    /\ current' = [current EXCEPT ![FillOrder] = feed.object]
    /\ feed' = [feed EXCEPT !.op = "settle", !.object = 0]
    /\ UNCHANGED <<objects, books, deployment, client, cleanly, cut, wasReset>>

Signed(o, n) == IF Buys(o) THEN -n ELSE n
CashFlow(o, fill) == Signed(o, fill.quantity * fill.price) - fill.charge

(* The account object is changed in place; a reset puts another in its     *)
(* stead ...                                                               *)
Settle ==
    /\ feed.op = "settle"
    /\ LET balance == cash[FillAccount] + CashFlow(FillOrder, feed.fill)
       IN  /\ cash' = [cash EXCEPT ![FillAccount] = balance]
           /\ feed' = [feed EXCEPT !.op = "save", !.balance = balance]
    /\ position' = [position EXCEPT ![FillAccount] = @ - Signed(FillOrder, feed.fill.quantity)]
    /\ UNCHANGED <<objects, current, fills, processed, deployment, client, cleanly, cut, wasReset>>

(* ... until save_account brings back the one that was changed. *)
SaveAccount ==
    /\ feed.op = "save"
    /\ cash' = [cash EXCEPT ![FillAccount] = feed.balance]
    /\ feed' = [feed EXCEPT !.op = "match", !.fill = NoFill, !.balance = 0]
    /\ UNCHANGED <<objects, current, fills, processed, position, deployment, client, cleanly, cut,
                   wasReset>>

EndUpdate ==
    /\ feed.op = "match"
    /\ feed.pending = {} /\ feed.accounts = {}
    /\ feed' = Idle
    /\ UNCHANGED <<objects, current, books, deployment, client, cleanly, cut, wasReset>>

(* Another broker takes over the repository and recovers every account. *)
Recover ==
    /\ feed = Idle
    /\ processed' = {id \in FillIds : fills[id] # NoFill}
    /\ UNCHANGED <<objects, current, fills, cash, position, deployment, feed, client, cleanly, cut,
                   wasReset>>

(***************************************************************************)
(* Deployments.                                                            *)
(***************************************************************************)
Deploy(d) ==
    /\ deployment[d] = "NONE"
    /\ deployment' = [deployment EXCEPT ![d] = "RUNNING"]
    /\ UNCHANGED <<objects, current, books, feed, client, cleanly, cut, wasReset>>

MayPause(d) == deployment[d] = "RUNNING"
MayResume(d) == deployment[d] = "PAUSED"

(* pause and resume look at the state ... *)
BeginShift(c, d) ==
    /\ Busy(c, "idle")
    /\ \/ MayPause(d) /\ Call(c, [op |-> "shift", deployment |-> d, to |-> "PAUSED"])
       \/ MayResume(d) /\ Call(c, [op |-> "shift", deployment |-> d, to |-> "RUNNING"])
    /\ UNCHANGED <<objects, current, books, deployment, feed, cleanly, cut, wasReset>>

(* ... and set it. *)
EndShift(c) ==
    /\ Busy(c, "shift")
    /\ deployment' = [deployment EXCEPT ![client[c].deployment] = client[c].to]
    /\ Call(c, Idle)
    /\ UNCHANGED <<objects, current, books, feed, cleanly, cut, wasReset>>

(* For the checks of the properties: only what is already in part filled. *)
ToCancel_Partial(d) == WorkingOf(Owner[d], {"PARTIALLY_FILLED"})

ToCancel(d) == WorkingOf(Owner[d], {"ACCEPTED"})

(* stop lists the accepted orders of the account ... *)
BeginStop(c, d) ==
    /\ Busy(c, "idle")
    /\ deployment[d] \notin {"NONE", "STOPPED"}
    /\ Call(c, [op |-> "stop", deployment |-> d, left |-> ToCancel(d), object |-> 0,
                made |-> Len(objects)])
    /\ UNCHANGED <<objects, current, books, deployment, feed, cleanly, cut, wasReset>>

(* ... cancels one after the other, each a cancel_order ... *)
StopFinds(c, o) ==
    /\ Busy(c, "stop") /\ client[c].object = 0
    /\ o \in client[c].left
    /\ Call(c, [client[c] EXCEPT !.left = @ \ {o},
                                 !.object = IF Status(o) \in Working THEN current[o] ELSE 0])
    /\ UNCHANGED <<objects, current, books, deployment, feed, cleanly, cut, wasReset>>

StopCancels(c) ==
    /\ Busy(c, "stop") /\ client[c].object # 0
    /\ Cancelled(client[c].object)
    /\ Call(c, [client[c] EXCEPT !.object = 0])
    /\ UNCHANGED <<books, deployment, feed, cut, wasReset>>

(* ... and then marks the deployment. *)
EndStop(c) ==
    /\ Busy(c, "stop") /\ client[c].object = 0 /\ client[c].left = {}
    /\ deployment' = [deployment EXCEPT ![client[c].deployment] = "STOPPED"]
    /\ cut' = [cut EXCEPT ![client[c].deployment] = client[c].made]
    /\ Call(c, Idle)
    /\ UNCHANGED <<objects, current, books, feed, cleanly, wasReset>>

OrderStep(c) ==
    \/ \E o \in Orders : BeginSubmit(c, o) \/ BeginCancel(c, o)
    \/ EndSubmit(c) \/ EndCancel(c)

DeploymentStep(c) ==
    \/ \E d \in Deployments : BeginShift(c, d) \/ BeginStop(c, d)
    \/ \E o \in Orders : StopFinds(c, o)
    \/ EndShift(c) \/ StopCancels(c) \/ EndStop(c)

FeedStep ==
    \/ \E t \in Ticks : BeginUpdate(t)
    \/ \E a \in Accounts : ListAccount(a)
    \/ \E i \in 1..Len(objects) : MatchNext(i)
    \/ Book \/ SaveOrder \/ Settle \/ SaveAccount \/ EndUpdate

Next ==
    \/ \E c \in Clients : OrderStep(c) \/ DeploymentStep(c)
    \/ FeedStep
    \/ Recover
    \/ \E a \in Accounts : ResetAccount(a)
    \/ \E d \in Deployments : Deploy(d)

Spec == Init /\ [][Next]_vars

(***************************************************************************)
(* Properties.                                                             *)
(***************************************************************************)
Objects == 1..Len(objects)
FillsOf(a) == {id \in FillIds : fills[id] # NoFill /\ Ticket[id[1]].account = a}
AtRest == feed.op \notin {"file", "settle", "save"}

(* Every variable stays in its type, and every id stands for an object     *)
(* made under it.                                                          *)
TypeOK ==
    /\ \A i \in Objects : objects[i] \in [order: Orders, status: Statuses, filled: Nat]
    /\ \A o \in Orders : current[o] # 0 => current[o] \in Objects /\ objects[current[o]].order = o
    /\ processed \subseteq FillIds
    /\ cash \in [Accounts -> Int] /\ position \in [Accounts -> Int]
    /\ deployment \in [Deployments -> {"NONE", "RUNNING", "PAUSED", "STOPPED"}]
    /\ feed.op \in {"idle", "match", "book", "file", "settle", "save"}
    /\ \A c \in Clients : client[c].op \in {"idle", "submit", "cancel", "shift", "stop"}
    /\ cleanly \subseteq Objects
    /\ cut \in [Deployments -> 0..MaxSubmissions] /\ wasReset \subseteq Accounts

(* "Replaying identical ticks/bars or re-running recovery must NEVER       *)
(* produce duplicate fills or double-count portfolio cash/positions"       *)
(* (docs/qa/acceptance/F9.1.md:21): whatever is replayed, submitted again, *)
(* cancelled or recovered, cash and position are what the recorded fills   *)
(* come to, as reconcile_portfolio computes it.                            *)
BooksBalance ==
    AtRest => \A a \in Accounts :
        /\ a \notin wasReset =>
              cash[a] = Capital + MapThenSumSet(LAMBDA id : CashFlow(id[1], fills[id]), FillsOf(a))
        /\ position[a] =
              MapThenSumSet(LAMBDA id : -Signed(id[1], fills[id].quantity), FillsOf(a))

(* However often an order is submitted again, cancelled too late and price *)
(* updates are replayed, it is filled at most once for every time it was   *)
(* accepted.                                                               *)
AcceptedAs(o) == {i \in Objects : objects[i].order = o /\ objects[i].status # "REJECTED"}
FilledOnce ==
    \A o \in Orders : Cardinality({id \in FillIds : id[1] = o /\ fills[id] # NoFill})
                         <= Cardinality(AcceptedAs(o))

(* An order that was submitted once and then cancelled stays cancelled,    *)
(* even if the price update at work had listed it: only a fill that had    *)
(* been matched when the cancel came is still booked.                      *)
CancelHolds ==
    \A i \in cleanly :
        (\A j \in Objects \ {i} : objects[j].order # objects[i].order)
            => objects[i].status = "CANCELLED"

(* "Cancels working orders" (docs/qa/acceptance/F9.6.md:19): an order that *)
(* still works in the account of a stopped deployment was made after stop  *)
(* had listed the orders to cancel.                                        *)
StopClears ==
    \A d \in Deployments : deployment[d] = "STOPPED" =>
        \A o \in WorkingOf(Owner[d], Working) : current[o] > cut[d]
================================================================================
