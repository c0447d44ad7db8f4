--------------------------- MODULE PaperTradingProofs ---------------------------
(***************************************************************************)
(* Of PaperTrading, for any number of accounts, orders, deployments and    *)
(* clients: what a stop leaves behind, what becomes of a cancelled order,  *)
(* how often an order is filled, and what the books come to.               *)
(*                                                                         *)
(* StopClears is not inductive, for a stop marks the deployment long after *)
(* it listed the orders: StopInv follows every order of its list through   *)
(* the calls of the other clients.  CancelHolds needs that no fill of a    *)
(* cancelled order can come to be under way, and both that a fill closes   *)
(* the order it is booked for: no order is ever filled in part.            *)
(* FilledOnce counts the fills an order may still come to with those it    *)
(* has (OnceInv), BooksBalance what is due to an account while a fill is   *)
(* on its way to it (BooksInv); sums are taken up before BooksInv.         *)
(***************************************************************************)
EXTENDS PaperTrading, SequenceTheorems, FiniteSetTheorems, WellFoundedInduction, TLAPS

Object == [order: Orders, status: Statuses, filled: Nat]
States == {"NONE", "RUNNING", "PAUSED", "STOPPED"}

Calls ==
    {Idle}
    \union [op: {"submit"}, order: Orders, status: {"ACCEPTED", "REJECTED"}]
    \union [op: {"cancel"}, object: Nat]
    \union [op: {"shift"}, deployment: Deployments, to: {"PAUSED", "RUNNING"}]
    \union [op: {"stop"}, deployment: Deployments, left: SUBSET Orders, object: Nat, made: Nat]

(* An object under an id; accepted ones are not filled, none is in part. *)
ObjectsInv ==
    /\ objects \in Seq(Object)
    /\ current \in [Orders -> 0..Len(objects)]
    /\ \A o \in Orders : current[o] # 0 => objects[current[o]].order = o
    /\ \A i \in Objects : current[objects[i].order] # 0
    /\ \A i \in Objects : /\ objects[i].status # "PARTIALLY_FILLED"
                          /\ objects[i].status = "ACCEPTED" => objects[i].filled = 0

CallsInv ==
    /\ deployment \in [Deployments -> States]
    /\ cut \in [Deployments -> 0..Len(objects)]
    /\ client \in [Clients -> Calls]
    /\ \A c \in Clients : /\ Busy(c, "cancel") => client[c].object \in Objects
                          /\ Busy(c, "stop") => /\ client[c].object \in 0..Len(objects)
                                                /\ client[c].made \in 0..Len(objects)

FeedShape ==
    [op: {"match", "book", "file", "settle", "save"}, tick: {feed.tick},
     accounts: {feed.accounts}, pending: SUBSET Objects, fill: {feed.fill},
     object: {feed.object}, balance: {feed.balance}]

(* A fill under way is for all that its order asks for; the object it was  *)
(* booked for is closed.                                                   *)
FeedInv ==
    /\ feed = Idle \/ feed \in FeedShape
    /\ feed.op = "book" => /\ FillOrder \in Orders
                           /\ current[FillOrder] # 0
                           /\ feed.fill.quantity = Ticket[FillOrder].quantity
    /\ feed.op = "file" => /\ FillOrder \in Orders /\ feed.object \in Objects
                           /\ objects[feed.object].order = FillOrder
                           /\ objects[feed.object].status \in {"FILLED", "CANCELLED"}

(* What a stop that has begun still has to see to. *)
StopInv ==
    \A c \in Clients : Busy(c, "stop") =>
        \A o \in Orders :
            Ticket[o].account = Owner[client[c].deployment] /\ Status(o) = "ACCEPTED" =>
                \/ current[o] > client[c].made
                \/ o \in client[c].left
                \/ current[o] = client[c].object

Sole(i) == \A j \in Objects \ {i} : objects[j].order # objects[i].order

CancelInv ==
    /\ cleanly \subseteq Objects
    /\ \A i \in cleanly : Sole(i) => /\ objects[i].status = "CANCELLED"
                                     /\ ~FillUnderWay(objects[i].order)

PaperInv == ObjectsInv /\ CallsInv /\ FeedInv /\ StopInv /\ StopClears /\ CancelInv

LEMMA InitPaper == Init => PaperInv
<1> SUFFICES ASSUME Init PROVE PaperInv
  OBVIOUS
<1>1. objects = << >> /\ Len(objects) = 0 /\ Objects = {} /\ objects \in Seq(Object)
  BY DEF Init, Objects
<1>2. \A o \in Orders : current[o] = 0 /\ Status(o) = "NONE"
  BY DEF Init, Status
<1>3. ObjectsInv
  BY <1>1, <1>2 DEF Init, ObjectsInv
<1>4. \A c \in Clients : ~Busy(c, "stop") /\ ~Busy(c, "cancel")
  BY DEF Init, Busy, Idle
<1>5. CallsInv
  BY <1>4 DEF Init, CallsInv, Calls, States
<1>6. FeedInv
  BY DEF Init, FeedInv, Idle
<1>7. StopInv
  BY <1>4 DEF StopInv
<1>8. StopClears
  BY DEF Init, StopClears
<1>9. CancelInv
  BY <1>1 DEF Init, CancelInv
<1> QED
  BY <1>3, <1>5, <1>6, <1>7, <1>8, <1>9 DEF PaperInv

(***************************************************************************)
(* Steps that leave every order as it is.                                  *)
(***************************************************************************)
LEMMA OrdersUnchanged ==
  ASSUME UNCHANGED <<objects, current>>
  PROVE  /\ Objects' = Objects /\ (ObjectsInv => ObjectsInv')
         /\ \A o : Status(o)' = Status(o)
         /\ \A i : Sole(i)' = Sole(i)
         /\ \A a, statuses : WorkingOf(a, statuses)' = WorkingOf(a, statuses)
BY DEF Objects, ObjectsInv, Status, Sole, WorkingOf

(* The feed moves on, and books nothing. *)
LEMMA FeedMoves ==
  ASSUME PaperInv, UNCHANGED <<objects, current, deployment, client, cleanly, cut>>, FeedInv',
         \A i \in cleanly : Sole(i) /\ FillUnderWay(objects[i].order)' =>
                                FillUnderWay(objects[i].order)
  PROVE  PaperInv'
<1>1. ObjectsInv' /\ Objects' = Objects
  BY OrdersUnchanged DEF PaperInv
<1>2. CallsInv'
  BY <1>1 DEF PaperInv, CallsInv, Busy
<1>3. StopInv'
  BY OrdersUnchanged DEF PaperInv, StopInv, Busy
<1>4. StopClears'
  BY OrdersUnchanged DEF PaperInv, StopClears
<1>5. CancelInv'
  BY <1>1, OrdersUnchanged DEF PaperInv, CancelInv
<1> QED
  BY <1>1, <1>2, <1>3, <1>4, <1>5 DEF PaperInv

LEMMA FeedStarts ==
  ASSUME PaperInv, NEW t \in Ticks, BeginUpdate(t)
  PROVE  PaperInv'
<1>1. /\ feed'.op = "match" /\ feed'.pending = {}
      /\ feed' = [op |-> "match", tick |-> t, accounts |-> Accounts, pending |-> {},
                  fill |-> NoFill, object |-> 0, balance |-> 0]
      /\ UNCHANGED <<objects, current, deployment, client, cleanly, cut>>
  BY DEF BeginUpdate
<1>2. FeedInv'
  BY <1>1 DEF FeedInv, FeedShape
<1>3. \A o : ~FillUnderWay(o)'
  BY <1>1 DEF FillUnderWay
<1> QED
  BY <1>1, <1>2, <1>3, FeedMoves

LEMMA FeedLists ==
  ASSUME PaperInv, NEW a \in Accounts, ListAccount(a)
  PROVE  PaperInv'
<1> DEFINE pending == {current[o] : o \in WorkingOf(a, {"ACCEPTED"})}
<1>1. /\ feed.op = "match" /\ UNCHANGED <<objects, current, deployment, client, cleanly, cut>>
      /\ feed' = [feed EXCEPT !.accounts = feed.accounts \ {a}, !.pending = pending]
  BY DEF ListAccount
<1>2. feed \in FeedShape /\ ObjectsInv
  BY <1>1 DEF PaperInv, FeedInv, Idle
<1>3. pending \subseteq Objects
  <2> SUFFICES ASSUME NEW o \in Orders, Status(o) = "ACCEPTED" PROVE current[o] \in Objects
    BY DEF WorkingOf
  <2>1. current[o] # 0
    BY DEF Status
  <2> QED
    BY <1>2, <2>1 DEF ObjectsInv, Objects
<1> HIDE DEF pending
<1>4. feed'.op = "match" /\ feed' \in FeedShape'
  BY <1>1, <1>2, <1>3 DEF FeedShape, Objects
<1>5. FeedInv' /\ \A o : ~FillUnderWay(o)'
  BY <1>4 DEF FeedInv, FillUnderWay
<1> QED
  BY <1>1, <1>5, FeedMoves

LEMMA FeedMatches ==
  ASSUME PaperInv, NEW i \in Objects, MatchNext(i)
  PROVE  PaperInv'
<1>1. /\ feed.op = "match" /\ UNCHANGED <<objects, current, deployment, client, cleanly, cut>>
      /\ feed \in FeedShape /\ ObjectsInv
  BY DEF MatchNext, PaperInv, FeedInv, Idle
<1>2. CASE ~Matches(i, feed.tick)
  <2>1. feed' = [feed EXCEPT !.pending = feed.pending \ {i}]
    BY <1>2 DEF MatchNext
  <2>2. feed'.op = "match" /\ feed' \in FeedShape'
    BY <1>1, <2>1 DEF FeedShape, Objects
  <2>3. FeedInv' /\ \A o : ~FillUnderWay(o)'
    BY <2>2 DEF FeedInv, FillUnderWay
  <2> QED
    BY <1>1, <2>3, FeedMoves
<1>3. CASE Matches(i, feed.tick)
  <2> DEFINE fill == FillOf(i, feed.tick)
             order == objects[i].order
  <2>1. feed' = [feed EXCEPT !.pending = feed.pending \ {i}, !.op = "book", !.fill = fill]
    BY <1>3 DEF MatchNext
  <2>2. /\ objects[i] \in Object /\ objects[i].status = "ACCEPTED" /\ objects[i].filled = 0
        /\ current[order] # 0
    BY <1>1, <1>3 DEF ObjectsInv, Objects, Matches, Working
  <2>3. /\ order \in Orders /\ Ticket[order].quantity \in Nat
        /\ fill.id[1] = order /\ fill.quantity = Ticket[order].quantity
    BY <2>2, TicketAssumption DEF FillOf, Object
  <2> HIDE DEF fill, order
  <2>4. feed'.op = "book" /\ feed'.fill = fill /\ feed' \in FeedShape'
    BY <1>1, <2>1 DEF FeedShape, Objects
  <2>5. FeedInv'
    BY <1>1, <2>2, <2>3, <2>4 DEF FeedInv, FillOrder
  <2>6. ASSUME NEW j \in cleanly, Sole(j), FillUnderWay(objects[j].order)' PROVE FALSE
    <3>1. objects[j].order = order
      BY <1>1, <2>3, <2>4, <2>6 DEF FillUnderWay
    <3>2. j = i
      BY <2>6, <3>1 DEF Sole, order
    <3> QED
      BY <2>2, <2>6, <3>2 DEF PaperInv, CancelInv
  <2> QED
    BY <1>1, <2>5, <2>6, FeedMoves
<1> QED
  BY <1>2, <1>3

LEMMA FeedSettles ==
  ASSUME PaperInv, Settle \/ SaveAccount \/ EndUpdate
  PROVE  PaperInv'
<1>1. /\ feed.op \in {"settle", "save", "match"}
      /\ UNCHANGED <<objects, current, deployment, client, cleanly, cut>>
  BY DEF Settle, SaveAccount, EndUpdate
<1>2. feed \in FeedShape
  BY <1>1 DEF PaperInv, FeedInv, Idle
<1>3. feed'.op \notin {"book", "file"} /\ (feed' = Idle \/ feed' \in FeedShape')
  <2>1. CASE Settle
    <3>1. PICK balance : feed' = [feed EXCEPT !.op = "save", !.balance = balance]
      BY <2>1 DEF Settle
    <3> QED
      BY <1>1, <1>2, <3>1 DEF FeedShape, Objects
  <2>2. CASE SaveAccount
    <3>1. feed' = [feed EXCEPT !.op = "match", !.fill = NoFill, !.balance = 0]
      BY <2>2 DEF SaveAccount
    <3> QED
      BY <1>1, <1>2, <3>1 DEF FeedShape, Objects
  <2>3. CASE EndUpdate
    BY <2>3 DEF EndUpdate, Idle
  <2> QED
    BY <2>1, <2>2, <2>3
<1>4. FeedInv' /\ \A o : ~FillUnderWay(o)'
  BY <1>3 DEF FeedInv, FillUnderWay
<1> QED
  BY <1>1, <1>4, FeedMoves

(***************************************************************************)
(* Steps of the endpoints that leave every order as it is.                 *)
(***************************************************************************)
LEMMA CallMoves ==
  ASSUME PaperInv, UNCHANGED <<objects, current, feed, cleanly>>, CallsInv', StopInv', StopClears'
  PROVE  PaperInv'
<1>1. ObjectsInv' /\ Objects' = Objects
  BY OrdersUnchanged DEF PaperInv
<1>2. FeedInv'
  BY <1>1 DEF PaperInv, FeedInv, FeedShape, FillOrder
<1>3. CancelInv'
  BY <1>1, OrdersUnchanged DEF PaperInv, CancelInv, FillUnderWay
<1> QED
  BY <1>1, <1>2, <1>3 DEF PaperInv

(* A call that is no stop begins or ends. *)
LEMMA CallShifts ==
  ASSUME PaperInv, NEW c \in Clients, NEW call \in Calls, Call(c, call), call.op # "stop",
         call.op = "cancel" => call.object \in Objects,
         UNCHANGED <<objects, current, feed, cleanly, cut>>,
         deployment' \in [Deployments -> States],
         \A d \in Deployments : deployment'[d] = "STOPPED" => deployment[d] = "STOPPED"
  PROVE  PaperInv'
<1>1. /\ client' = [client EXCEPT ![c] = call] /\ client \in [Clients -> Calls]
      /\ Objects' = Objects
  BY OrdersUnchanged DEF PaperInv, CallsInv, Call
<1>2. /\ client'[c] = call /\ client' \in [Clients -> Calls]
      /\ \A e \in Clients \ {c} : client'[e] = client[e]
  BY <1>1
<1>3. CallsInv'
  <2>1. ASSUME NEW e \in Clients
        PROVE  /\ Busy(e, "cancel")' => client'[e].object \in Objects
               /\ Busy(e, "stop")' => /\ client'[e].object \in 0..Len(objects)
                                      /\ client'[e].made \in 0..Len(objects)
    BY <1>2 DEF PaperInv, CallsInv, Busy
  <2> QED
    BY <1>1, <1>2, <2>1 DEF PaperInv, CallsInv
<1>4. StopInv'
  <2>1. \A e \in Clients : Busy(e, "stop")' => Busy(e, "stop") /\ client'[e] = client[e]
    BY <1>2 DEF Busy
  <2> QED
    BY <2>1, OrdersUnchanged DEF PaperInv, StopInv
<1>5. StopClears'
  BY OrdersUnchanged DEF PaperInv, StopClears
<1> QED
  BY <1>3, <1>4, <1>5, CallMoves

LEMMA CallsBegin ==
  ASSUME PaperInv, NEW c \in Clients
  PROVE  /\ \A o \in Orders : BeginSubmit(c, o) \/ BeginCancel(c, o) => PaperInv'
         /\ \A d \in Deployments : BeginShift(c, d) => PaperInv'
         /\ EndShift(c) => PaperInv'
<1>1. ObjectsInv /\ CallsInv
  BY DEF PaperInv
<1>2. ASSUME NEW o \in Orders, BeginSubmit(c, o) PROVE PaperInv'
  <2>1. PICK status \in {"ACCEPTED", "REJECTED"} :
           Call(c, [op |-> "submit", order |-> o, status |-> status])
    BY <1>2 DEF BeginSubmit
  <2> DEFINE call == [op |-> "submit", order |-> o, status |-> status]
  <2>2. call \in Calls /\ call.op = "submit"
    BY DEF Calls
  <2> HIDE DEF call
  <2>3. UNCHANGED <<objects, current, deployment, feed, cleanly, cut>>
    BY <1>2 DEF BeginSubmit
  <2> QED
    BY <1>1, <2>1, <2>2, <2>3, CallShifts DEF call, CallsInv
<1>3. ASSUME NEW o \in Orders, BeginCancel(c, o) PROVE PaperInv'
  <2> DEFINE call == [op |-> "cancel", object |-> current[o]]
  <2>1. /\ Call(c, call) /\ Status(o) \in Working
        /\ UNCHANGED <<objects, current, deployment, feed, cleanly, cut>>
    BY <1>3 DEF BeginCancel
  <2>2. current[o] \in Objects
    BY <1>1, <2>1 DEF ObjectsInv, Objects, Status, Working
  <2>3. call \in Calls /\ call.op = "cancel" /\ call.object \in Objects
    BY <2>2 DEF Calls, Objects
  <2> HIDE DEF call
  <2> QED
    BY <1>1, <2>1, <2>3, CallShifts DEF CallsInv
<1>4. ASSUME NEW d \in Deployments, BeginShift(c, d) PROVE PaperInv'
  <2>1. PICK to \in {"PAUSED", "RUNNING"} : Call(c, [op |-> "shift", deployment |-> d, to |-> to])
    BY <1>4 DEF BeginShift
  <2> DEFINE call == [op |-> "shift", deployment |-> d, to |-> to]
  <2>2. call \in Calls /\ call.op = "shift"
    BY DEF Calls
  <2> HIDE DEF call
  <2>3. UNCHANGED <<objects, current, deployment, feed, cleanly, cut>>
    BY <1>4 DEF BeginShift
  <2> QED
    BY <1>1, <2>1, <2>2, <2>3, CallShifts DEF call, CallsInv
<1>5. ASSUME EndShift(c) PROVE PaperInv'
  <2>1. /\ Busy(c, "shift") /\ Call(c, Idle)
        /\ deployment' = [deployment EXCEPT ![client[c].deployment] = client[c].to]
        /\ UNCHANGED <<objects, current, feed, cleanly, cut>>
    BY <1>5 DEF EndShift
  <2>2. client[c] \in [op: {"shift"}, deployment: Deployments, to: {"PAUSED", "RUNNING"}]
    BY <1>1, <2>1 DEF CallsInv, Calls, Busy, Idle
  <2>3. client[c].to \in {"PAUSED", "RUNNING"}
    BY <2>2
  <2>4. /\ deployment' \in [Deployments -> States]
        /\ \A d \in Deployments : deployment'[d] = "STOPPED" => deployment[d] = "STOPPED"
    BY <1>1, <2>1, <2>3 DEF CallsInv, States
  <2>5. Idle \in Calls /\ Idle.op = "idle"
    BY DEF Calls, Idle
  <2> HIDE DEF Idle
  <2> QED
    BY <2>1, <2>4, <2>5, CallShifts
<1> QED
  BY <1>2, <1>3, <1>4, <1>5

StopCall == [op: {"stop"}, deployment: Deployments, left: SUBSET Orders, object: Nat, made: Nat]

LEMMA StopTyped ==
  ASSUME CallsInv, NEW c \in Clients, Busy(c, "stop")
  PROVE  client[c] \in StopCall
BY DEF CallsInv, Calls, StopCall, Busy, Idle

(* A stop takes its list, and moves on in it. *)
LEMMA StopMoves ==
  ASSUME PaperInv, NEW c \in Clients, NEW call \in StopCall, Call(c, call),
         call.object \in 0..Len(objects), call.made \in 0..Len(objects),
         \A o \in Orders : Ticket[o].account = Owner[call.deployment] /\ Status(o) = "ACCEPTED" =>
             current[o] > call.made \/ o \in call.left \/ current[o] = call.object,
         UNCHANGED <<objects, current, deployment, feed, cleanly, cut>>
  PROVE  PaperInv'
<1>1. /\ client' = [client EXCEPT ![c] = call] /\ client \in [Clients -> Calls]
      /\ call \in Calls /\ call.op = "stop" /\ Objects' = Objects
  BY OrdersUnchanged DEF PaperInv, CallsInv, Call, Calls, StopCall
<1>2. /\ client'[c] = call /\ client' \in [Clients -> Calls]
      /\ \A e \in Clients \ {c} : client'[e] = client[e]
  BY <1>1
<1>3. CallsInv'
  <2>1. ASSUME NEW e \in Clients
        PROVE  /\ Busy(e, "cancel")' => client'[e].object \in Objects
               /\ Busy(e, "stop")' => /\ client'[e].object \in 0..Len(objects)
                                      /\ client'[e].made \in 0..Len(objects)
    BY <1>1, <1>2 DEF PaperInv, CallsInv, Busy
  <2> QED
    BY <1>1, <1>2, <2>1 DEF PaperInv, CallsInv
<1>4. StopInv'
  <2>1. \A e \in Clients \ {c} : Busy(e, "stop")' => Busy(e, "stop") /\ client'[e] = client[e]
    BY <1>2 DEF Busy
  <2> SUFFICES ASSUME NEW e \in Clients, Busy(e, "stop")', NEW o \in Orders,
                      Ticket[o].account = Owner[client'[e].deployment], Status(o) = "ACCEPTED"
               PROVE  \/ current[o] > client'[e].made
                      \/ o \in client'[e].left
                      \/ current[o] = client'[e].object
    BY OrdersUnchanged DEF StopInv
  <2>2. CASE e = c
    BY <1>2, <2>2
  <2>3. CASE e # c
    BY <2>1, <2>3 DEF PaperInv, StopInv
  <2> QED
    BY <2>2, <2>3
<1>5. StopClears'
  BY OrdersUnchanged DEF PaperInv, StopClears
<1> QED
  BY <1>3, <1>4, <1>5, CallMoves

LEMMA StopGoesOn ==
  ASSUME PaperInv, NEW c \in Clients
  PROVE  /\ \A d \in Deployments : BeginStop(c, d) => PaperInv'
         /\ \A o \in Orders : StopFinds(c, o) => PaperInv'
<1>1. ObjectsInv /\ CallsInv /\ StopInv /\ Len(objects) \in Nat
  BY DEF PaperInv, ObjectsInv
<1>2. ASSUME NEW d \in Deployments, BeginStop(c, d) PROVE PaperInv'
  <2> DEFINE call == [op |-> "stop", deployment |-> d, left |-> ToCancel(d), object |-> 0,
                      made |-> Len(objects)]
  <2>1. Call(c, call) /\ UNCHANGED <<objects, current, deployment, feed, cleanly, cut>>
    BY <1>2 DEF BeginStop
  <2>2. /\ call \in StopCall /\ call.deployment = d /\ call.left = ToCancel(d)
        /\ call.object = 0 /\ call.made = Len(objects)
    BY <1>1 DEF StopCall, ToCancel, WorkingOf
  <2>3. \A o \in Orders :
           Ticket[o].account = Owner[d] /\ Status(o) = "ACCEPTED" => o \in ToCancel(d)
    BY DEF ToCancel, WorkingOf
  <2> HIDE DEF call
  <2> QED
    BY <1>1, <2>1, <2>2, <2>3, StopMoves
<1>3. ASSUME NEW o \in Orders, StopFinds(c, o) PROVE PaperInv'
  <2> DEFINE found == IF Status(o) \in Working THEN current[o] ELSE 0
             call == [client[c] EXCEPT !.left = client[c].left \ {o}, !.object = found]
  <2>1. /\ Busy(c, "stop") /\ client[c].object = 0 /\ Call(c, call)
        /\ UNCHANGED <<objects, current, deployment, feed, cleanly, cut>>
    BY <1>3 DEF StopFinds
  <2>2. client[c] \in StopCall /\ client[c].made \in 0..Len(objects)
    BY <1>1, <2>1, StopTyped DEF CallsInv
  <2>3. found \in 0..Len(objects)
    BY <1>1 DEF ObjectsInv
  <2>4. Status(o) = "ACCEPTED" => found = current[o]
    BY DEF Working
  <2> HIDE DEF found
  <2>5. /\ call \in StopCall /\ call.deployment = client[c].deployment /\ call.object = found
        /\ call.left = client[c].left \ {o} /\ call.made = client[c].made
    <3>1. client[c].left \ {o} \in SUBSET Orders
      BY <2>2 DEF StopCall
    <3>2. found \in Nat
      BY <1>1, <2>3
    <3> DEFINE old == client[c]
               left == client[c].left \ {o}
    <3>3. old \in StopCall /\ call = [old EXCEPT !.left = left, !.object = found]
      BY <2>2
    <3> HIDE DEF call, old, left
    <3>4. /\ call \in StopCall /\ call.deployment = old.deployment /\ call.object = found
          /\ call.left = left /\ call.made = old.made
      BY <3>1, <3>2, <3>3 DEF StopCall, left
    <3> QED
      BY <3>4 DEF left, old
  <2> HIDE DEF call
  <2>6. \A p \in Orders : Ticket[p].account = Owner[call.deployment] /\ Status(p) = "ACCEPTED" =>
           current[p] > call.made \/ p \in call.left \/ current[p] = call.object
    <3> SUFFICES ASSUME NEW p \in Orders, Ticket[p].account = Owner[client[c].deployment],
                        Status(p) = "ACCEPTED"
                 PROVE  \/ current[p] > client[c].made
                        \/ p \in client[c].left \ {o}
                        \/ current[p] = found
      BY <2>5
    <3>1. current[p] > client[c].made \/ p \in client[c].left \/ current[p] = 0
      BY <1>1, <2>1 DEF StopInv
    <3>2. current[p] # 0
      BY DEF Status
    <3> QED
      BY <2>4, <3>1, <3>2
  <2> QED
    BY <2>1, <2>2, <2>3, <2>5, <2>6, StopMoves
<1> QED
  BY <1>2, <1>3

(* What a stop that ends has left is younger than its list. *)
LEMMA StopEnds ==
  ASSUME PaperInv, NEW c \in Clients, EndStop(c)
  PROVE  PaperInv'
<1> DEFINE d == client[c].deployment
<1>1. /\ Busy(c, "stop") /\ client[c].object = 0 /\ client[c].left = {} /\ Call(c, Idle)
      /\ deployment' = [deployment EXCEPT ![d] = "STOPPED"]
      /\ cut' = [cut EXCEPT ![d] = client[c].made]
      /\ UNCHANGED <<objects, current, feed, cleanly>>
  BY DEF EndStop
<1>2. ObjectsInv /\ CallsInv /\ StopInv /\ StopClears
  BY DEF PaperInv
<1>3. d \in Deployments /\ client[c].made \in 0..Len(objects)
  BY <1>1, <1>2, StopTyped DEF StopCall, CallsInv
<1>4. /\ client' = [client EXCEPT ![c] = Idle] /\ Idle \in Calls /\ Idle.op = "idle"
      /\ Objects' = Objects
  BY <1>1, OrdersUnchanged DEF Call, Calls, Idle
<1> HIDE DEF Idle
<1>5. /\ client'[c] = Idle /\ client' \in [Clients -> Calls]
      /\ \A e \in Clients \ {c} : client'[e] = client[e]
  BY <1>2, <1>4 DEF CallsInv
<1>6. \A e \in Clients : Busy(e, "stop")' => Busy(e, "stop") /\ client'[e] = client[e]
  BY <1>4, <1>5 DEF Busy
<1>7. CallsInv'
  <2>1. ASSUME NEW e \in Clients
        PROVE  /\ Busy(e, "cancel")' => client'[e].object \in Objects
               /\ Busy(e, "stop")' => /\ client'[e].object \in 0..Len(objects)
                                      /\ client'[e].made \in 0..Len(objects)
    BY <1>2, <1>4, <1>5 DEF CallsInv, Busy
  <2>2. deployment' \in [Deployments -> States] /\ cut' \in [Deployments -> 0..Len(objects)]
    BY <1>1, <1>2, <1>3 DEF CallsInv, States
  <2> QED
    BY <1>1, <1>4, <1>5, <2>1, <2>2 DEF CallsInv
<1>8. StopInv'
  BY <1>1, <1>2, <1>6, OrdersUnchanged DEF StopInv
<1>9. StopClears'
  <2> SUFFICES ASSUME NEW e \in Deployments, deployment'[e] = "STOPPED",
                      NEW o \in WorkingOf(Owner[e], Working)
               PROVE  current[o] > cut'[e]
    BY <1>1, OrdersUnchanged DEF StopClears
  <2>1. CASE e = d
    <3>1. o \in Orders /\ Ticket[o].account = Owner[d] /\ Status(o) \in Working /\ current[o] # 0
      BY <2>1 DEF WorkingOf, Status, Working
    <3>2. Status(o) = "ACCEPTED"
      BY <1>2, <3>1 DEF ObjectsInv, Objects, Status, Working
    <3>3. current[o] > client[c].made
      BY <1>1, <1>2, <3>1, <3>2 DEF StopInv
    <3> QED
      BY <1>1, <1>2, <1>3, <2>1, <3>3 DEF CallsInv
  <2>2. CASE e # d
    BY <1>1, <1>2, <1>3, <2>2 DEF CallsInv, StopClears
  <2> QED
    BY <2>1, <2>2
<1> QED
  BY <1>1, <1>7, <1>8, <1>9, CallMoves

(***************************************************************************)
(* Steps that change an order.                                             *)
(***************************************************************************)

(* An object that is filled or cancelled, and is what its id stands for.   *)
LEMMA OrderCloses ==
  ASSUME PaperInv, NEW i \in Objects, NEW object \in Object,
         object.order = objects[i].order, object.status \in {"FILLED", "CANCELLED"},
         objects' = [objects EXCEPT ![i] = object],
         current' = [current EXCEPT ![object.order] = i]
  PROVE  /\ ObjectsInv' /\ Objects' = Objects
         /\ objects'[i] = object /\ \A j \in Objects \ {i} : objects'[j] = objects[j]
         /\ \A j \in Objects : objects'[j].order = objects[j].order
         /\ \A o \in Orders : current[o] # 0 => current'[o] # 0
         /\ \A o \in Orders : Status(o)' \in Working =>
               Status(o)' = Status(o) /\ current'[o] = current[o]
<1>1. /\ ObjectsInv /\ Len(objects) \in Nat /\ i \in 1..Len(objects)
      /\ object.order \in Orders /\ objects \in Seq(Object)
  BY DEF PaperInv, ObjectsInv, Objects, Object
<1>2. /\ objects' \in Seq(Object) /\ Len(objects') = Len(objects) /\ Objects' = Objects
      /\ objects'[i] = object /\ \A j \in Objects \ {i} : objects'[j] = objects[j]
  BY <1>1 DEF Objects
<1>3. /\ current' \in [Orders -> 0..Len(objects)] /\ current'[object.order] = i
      /\ \A o \in Orders \ {object.order} : current'[o] = current[o]
  BY <1>1 DEF ObjectsInv
<1>4. \A j \in Objects : objects'[j].order = objects[j].order
  BY <1>2
<1>5. \A o \in Orders : current[o] # 0 => current'[o] # 0
  BY <1>1, <1>3
<1>6. ASSUME NEW o \in Orders, o # object.order, current[o] # 0
      PROVE  current[o] \in Objects /\ objects'[current[o]] = objects[current[o]]
  <2>1. current[o] \in Objects /\ objects[current[o]].order = o
    BY <1>1, <1>6 DEF ObjectsInv, Objects
  <2>2. current[o] # i
    BY <1>6, <2>1
  <2> QED
    BY <1>2, <2>1, <2>2
<1>7. ObjectsInv'
  <2>1. \A o \in Orders : current'[o] # 0 => objects'[current'[o]].order = o
    BY <1>1, <1>2, <1>3, <1>6 DEF ObjectsInv
  <2>2. \A j \in Objects : current'[objects'[j].order] # 0
    <3> TAKE j \in Objects
    <3>1. objects[j] \in Object
      BY <1>1 DEF Objects
    <3>2. objects[j].order \in Orders
      BY <3>1 DEF Object
    <3>3. current[objects[j].order] # 0
      BY <1>1 DEF ObjectsInv
    <3> QED
      BY <1>4, <1>5, <3>2, <3>3
  <2>3. \A j \in Objects : /\ objects'[j].status # "PARTIALLY_FILLED"
                           /\ objects'[j].status = "ACCEPTED" => objects'[j].filled = 0
    BY <1>1, <1>2 DEF ObjectsInv
  <2> QED
    BY <1>2, <1>3, <2>1, <2>2, <2>3 DEF ObjectsInv
<1>8. ASSUME NEW o \in Orders, Status(o)' \in Working
      PROVE  Status(o)' = Status(o) /\ current'[o] = current[o]
  <2>1. o # object.order
    <3> SUFFICES ASSUME o = object.order PROVE FALSE
      OBVIOUS
    <3>1. Status(o)' = object.status
      BY <1>1, <1>2, <1>3 DEF Status
    <3> QED
      BY <1>8, <3>1 DEF Working
  <2>2. current'[o] = current[o]
    BY <1>3, <2>1
  <2>3. current[o] # 0
    BY <1>8, <2>2 DEF Status, Working
  <2> QED
    BY <1>6, <2>1, <2>2, <2>3 DEF Status
<1> QED
  BY <1>2, <1>4, <1>5, <1>7, <1>8

(* Fewer orders work, so those who stop have less to see to. *)
LEMMA StopsFollow ==
  ASSUME PaperInv,
         \A o \in Orders : Status(o)' \in Working =>
             Status(o)' = Status(o) /\ current'[o] = current[o],
         UNCHANGED <<deployment, cut>>,
         \A c \in Clients : Busy(c, "stop")' =>
             /\ Busy(c, "stop") /\ client'[c].deployment = client[c].deployment
             /\ client'[c].left = client[c].left /\ client'[c].made = client[c].made
             /\ \/ client'[c].object = client[c].object
                \/ \A o \in Orders : current'[o] = client[c].object => Status(o)' \notin Working
  PROVE  StopInv' /\ StopClears'
<1>1. StopInv'
  <2> SUFFICES ASSUME NEW c \in Clients, Busy(c, "stop")', NEW o \in Orders,
                      Ticket[o].account = Owner[client'[c].deployment], Status(o)' = "ACCEPTED"
               PROVE  \/ current'[o] > client'[c].made
                      \/ o \in client'[c].left
                      \/ current'[o] = client'[c].object
    BY DEF StopInv
  <2>1. Status(o)' \in Working /\ Status(o) = "ACCEPTED" /\ current'[o] = current[o]
    BY DEF Working
  <2>2. current[o] > client[c].made \/ o \in client[c].left \/ current[o] = client[c].object
    BY <2>1 DEF PaperInv, StopInv
  <2> QED
    BY <2>1, <2>2
<1>2. StopClears'
  <2> SUFFICES ASSUME NEW d \in Deployments, deployment[d] = "STOPPED",
                      NEW o \in WorkingOf(Owner[d], Working)'
               PROVE  current'[o] > cut[d]
    BY DEF StopClears
  <2>1. o \in WorkingOf(Owner[d], Working) /\ current'[o] = current[o]
    BY DEF WorkingOf
  <2> QED
    BY <2>1 DEF PaperInv, StopClears
<1> QED
  BY <1>1, <1>2

(* cancel_order's second half: the one of an endpoint and that of a stop. *)
LEMMA CancelCloses ==
  ASSUME PaperInv, NEW c \in Clients, NEW i \in Objects, Cancelled(i), NEW call \in Calls,
         Call(c, call), UNCHANGED <<deployment, feed, cut>>,
         call.op \in {"idle", "stop"},
         call.op = "stop" =>
             /\ Busy(c, "stop") /\ client[c].object = i /\ call.object = 0
             /\ call.deployment = client[c].deployment /\ call.left = client[c].left
             /\ call.made = client[c].made
  PROVE  PaperInv'
<1> DEFINE object == [objects[i] EXCEPT !.status = "CANCELLED"]
<1>1. /\ ObjectsInv /\ CallsInv /\ FeedInv /\ CancelInv /\ objects[i] \in Object
      /\ objects \in Seq(Object)
  BY DEF PaperInv, ObjectsInv, Objects
<1>2. /\ object \in Object /\ object.order = objects[i].order /\ object.status = "CANCELLED"
      /\ object.order \in Orders
  BY <1>1 DEF Object, Statuses, Working
<1>3. /\ objects' = [objects EXCEPT ![i] = object]
      /\ current' = [current EXCEPT ![object.order] = i]
  BY <1>1, <1>2 DEF Cancelled, ObjectsInv, Objects
<1> HIDE DEF object
<1>4. /\ ObjectsInv' /\ Objects' = Objects
      /\ objects'[i] = object /\ \A j \in Objects \ {i} : objects'[j] = objects[j]
      /\ \A j \in Objects : objects'[j].order = objects[j].order
      /\ \A o \in Orders : current[o] # 0 => current'[o] # 0
      /\ \A o \in Orders : Status(o)' \in Working =>
            Status(o)' = Status(o) /\ current'[o] = current[o]
  BY <1>2, <1>3, OrderCloses
<1>5. Len(objects') = Len(objects)
  BY <1>1, <1>2, <1>3 DEF Objects
<1>6. /\ client' = [client EXCEPT ![c] = call] /\ client'[c] = call
      /\ client' \in [Clients -> Calls]
      /\ \A e \in Clients \ {c} : client'[e] = client[e]
  BY <1>1 DEF Call, CallsInv
<1>7. CallsInv'
  <2>1. ASSUME NEW e \in Clients
        PROVE  /\ Busy(e, "cancel")' => client'[e].object \in Objects
               /\ Busy(e, "stop")' => /\ client'[e].object \in 0..Len(objects)
                                      /\ client'[e].made \in 0..Len(objects)
    BY <1>1, <1>6 DEF CallsInv, Busy
  <2> QED
    BY <1>1, <1>4, <1>5, <1>6, <2>1 DEF CallsInv
<1>8. FeedInv'
  <2>1. feed = Idle \/ feed \in FeedShape'
    BY <1>1, <1>4 DEF FeedInv, FeedShape
  <2>2. ASSUME feed.op = "file"
        PROVE  /\ feed.object \in Objects /\ objects'[feed.object].order = FillOrder
               /\ objects'[feed.object].status \in {"FILLED", "CANCELLED"}
    BY <1>1, <1>2, <1>4, <2>2 DEF FeedInv
  <2> QED
    BY <1>1, <1>4, <2>1, <2>2 DEF FeedInv, FillOrder
<1>9. StopInv' /\ StopClears'
  <2>1. ASSUME NEW e \in Clients, Busy(e, "stop")'
        PROVE  /\ Busy(e, "stop") /\ client'[e].deployment = client[e].deployment
               /\ client'[e].left = client[e].left /\ client'[e].made = client[e].made
               /\ \/ client'[e].object = client[e].object
                  \/ \A o \in Orders : current'[o] = client[e].object => Status(o)' \notin Working
    <3>1. CASE e # c
      BY <1>6, <2>1, <3>1 DEF Busy
    <3>2. CASE e = c
      <4>1. call.op = "stop" /\ client[c].object = i
        BY <1>6, <2>1, <3>2 DEF Busy
      <4>2. \A o \in Orders : current'[o] = i => Status(o)' \notin Working
        BY <1>2, <1>4 DEF Status, Working
      <4> QED
        BY <1>6, <3>2, <4>1, <4>2
    <3> QED
      BY <3>1, <3>2
  <2> QED
    BY <1>4, <2>1, StopsFollow
<1>10. CancelInv'
  <2>1. cleanly' \subseteq Objects
    BY <1>1 DEF CancelInv, Cancelled
  <2> SUFFICES ASSUME NEW j \in cleanly', Sole(j)'
               PROVE  /\ objects'[j].status = "CANCELLED"
                      /\ ~FillUnderWay(objects'[j].order)
    BY <1>4, <2>1 DEF CancelInv, FillUnderWay
  <2>3. Sole(j) /\ j \in Objects
    BY <1>4, <2>1 DEF Sole
  <2>4. CASE j \in cleanly
    BY <1>1, <1>2, <1>4, <2>3, <2>4 DEF CancelInv
  <2>5. CASE j \notin cleanly
    <3>1. j = i /\ ~FillUnderWay(objects[i].order)
      BY <2>5 DEF Cancelled
    <3> QED
      BY <1>2, <1>4, <3>1
  <2> QED
    BY <2>4, <2>5
<1> QED
  BY <1>4, <1>7, <1>8, <1>9, <1>10 DEF PaperInv

LEMMA CancelsEnd ==
  ASSUME PaperInv, NEW c \in Clients, EndCancel(c) \/ StopCancels(c)
  PROVE  PaperInv'
<1>1. CallsInv /\ ObjectsInv
  BY DEF PaperInv
<1>2. CASE EndCancel(c)
  <2>1. /\ Cancelled(client[c].object) /\ Call(c, Idle) /\ UNCHANGED <<deployment, feed, cut>>
        /\ client[c].object \in Objects
    BY <1>1, <1>2 DEF EndCancel, CallsInv
  <2>2. Idle \in Calls /\ Idle.op = "idle"
    BY DEF Calls, Idle
  <2> HIDE DEF Idle
  <2> QED
    BY <2>1, <2>2, CancelCloses
<1>3. CASE StopCancels(c)
  <2> DEFINE call == [client[c] EXCEPT !.object = 0]
  <2>1. /\ Busy(c, "stop") /\ client[c].object # 0 /\ Cancelled(client[c].object)
        /\ Call(c, call) /\ UNCHANGED <<deployment, feed, cut>>
    BY <1>3 DEF StopCancels
  <2>2. client[c] \in StopCall /\ client[c].object \in Objects
    BY <1>1, <2>1, StopTyped DEF CallsInv, ObjectsInv, Objects
  <2>3. /\ call \in StopCall /\ call.deployment = client[c].deployment /\ call.object = 0
        /\ call.left = client[c].left /\ call.made = client[c].made /\ call.op = "stop"
    BY <2>2 DEF StopCall
  <2>4. call \in Calls
    BY <2>3 DEF Calls, StopCall
  <2> HIDE DEF call
  <2> QED
    BY <2>1, <2>2, <2>3, <2>4, CancelCloses
<1> QED
  BY <1>2, <1>3

(* A fill is booked for the object its id stands for now. *)
LEMMA FillCloses ==
  ASSUME PaperInv, Book
  PROVE  PaperInv'
<1>1. /\ feed.op = "book" /\ feed \in FeedShape /\ ObjectsInv /\ CallsInv /\ CancelInv
      /\ FillOrder \in Orders /\ current[FillOrder] # 0
      /\ feed.fill.quantity = Ticket[FillOrder].quantity
      /\ UNCHANGED <<current, deployment, client, cleanly, cut>>
  BY DEF Book, PaperInv, FeedInv, Idle
<1>2. CASE Duplicate
  <2>1. /\ feed' = [feed EXCEPT !.op = "match", !.fill = NoFill] /\ objects' = objects
    BY <1>2 DEF Book
  <2>2. feed'.op = "match" /\ feed' \in FeedShape'
    BY <1>1, <2>1 DEF FeedShape, Objects
  <2>3. FeedInv' /\ \A o : ~FillUnderWay(o)'
    BY <2>2 DEF FeedInv, FillUnderWay
  <2> QED
    BY <1>1, <2>1, <2>3, FeedMoves
<1>3. CASE ~Duplicate
  <2> DEFINE i == current[FillOrder]
             object == Filled(objects[i])
             sum == objects[i].filled + feed.fill.quantity
  <2>1. /\ feed' = [feed EXCEPT !.op = "file", !.object = i]
        /\ objects' = [objects EXCEPT ![i] = object]
    BY <1>3 DEF Book
  <2>2. i \in Objects /\ objects[i] \in Object /\ objects[i].order = FillOrder
    BY <1>1 DEF ObjectsInv, Objects
  <2>3. sum \in Nat /\ sum >= Ticket[FillOrder].quantity
    BY <1>1, <2>2, TicketAssumption DEF Object
  <2>4. object = [objects[i] EXCEPT !.filled = sum, !.status = "FILLED"]
    BY <2>2, <2>3 DEF Filled
  <2>5. object \in Object /\ object.order = FillOrder /\ object.status = "FILLED"
    <3> HIDE DEF object, sum, i
    <3> QED
      BY <2>2, <2>3, <2>4 DEF Object, Statuses
  <2>6. current' = [current EXCEPT ![object.order] = i]
    BY <1>1, <2>5 DEF ObjectsInv
  <2> HIDE DEF object, sum, i
  <2>7. /\ ObjectsInv' /\ Objects' = Objects
        /\ objects'[i] = object /\ \A j \in Objects \ {i} : objects'[j] = objects[j]
        /\ \A j \in Objects : objects'[j].order = objects[j].order
        /\ \A o \in Orders : Status(o)' \in Working =>
              Status(o)' = Status(o) /\ current'[o] = current[o]
    BY <2>1, <2>2, <2>5, <2>6, OrderCloses
  <2>8. Len(objects') = Len(objects)
    BY <1>1, <2>1, <2>2, <2>5 DEF ObjectsInv, Objects
  <2>9. /\ feed'.op = "file" /\ feed'.fill = feed.fill /\ feed'.object = i
        /\ feed' \in FeedShape'
    BY <1>1, <2>1, <2>7 DEF FeedShape
  <2>10. FeedInv'
    BY <1>1, <2>2, <2>5, <2>7, <2>9 DEF FeedInv, FillOrder
  <2>11. CallsInv'
    BY <1>1, <2>7, <2>8 DEF CallsInv, Busy
  <2>12. StopInv' /\ StopClears'
    BY <1>1, <2>7, StopsFollow DEF Busy
  <2>13. CancelInv'
    <3> SUFFICES ASSUME NEW j \in cleanly, Sole(j)'
                 PROVE  objects'[j].status = "CANCELLED"
      BY <1>1, <2>7, <2>9 DEF CancelInv, FillUnderWay
    <3>1. j \in Objects /\ Sole(j)
      BY <1>1, <2>7 DEF CancelInv, Sole
    <3>2. objects[j].status = "CANCELLED" /\ objects[j].order # FillOrder
      BY <1>1, <3>1 DEF CancelInv, FillUnderWay, FillOrder
    <3> QED
      BY <2>2, <2>7, <3>1, <3>2
  <2> QED
    BY <2>7, <2>10, <2>11, <2>12, <2>13 DEF PaperInv
<1> QED
  BY <1>2, <1>3

(* The id stands for a closed object again: whatever was submitted under it*)
(* works no more.                                                          *)
LEMMA FillSaved ==
  ASSUME PaperInv, SaveOrder
  PROVE  /\ PaperInv'
         /\ \A o \in Orders \ {FillOrder} : current'[o] = current[o] /\ Status(o)' = Status(o)
         /\ \A o \in Orders : o = FillOrder => Status(o)' \in {"FILLED", "CANCELLED"}
<1>1. /\ feed.op = "file" /\ feed \in FeedShape /\ ObjectsInv /\ CallsInv /\ CancelInv
      /\ FillOrder \in Orders /\ feed.object \in Objects
      /\ objects[feed.object].order = FillOrder
      /\ objects[feed.object].status \in {"FILLED", "CANCELLED"}
      /\ UNCHANGED <<objects, deployment, client, cleanly, cut>>
      /\ current' = [current EXCEPT ![FillOrder] = feed.object]
      /\ feed' = [feed EXCEPT !.op = "settle", !.object = 0]
  BY DEF SaveOrder, PaperInv, FeedInv, Idle
<1>2. /\ current' \in [Orders -> 0..Len(objects)] /\ current'[FillOrder] = feed.object
      /\ \A o \in Orders \ {FillOrder} : current'[o] = current[o]
      /\ Objects' = Objects /\ feed.object # 0
  BY <1>1 DEF ObjectsInv, Objects
<1>3. ObjectsInv'
  <2>1. \A o \in Orders : current'[o] # 0 => objects[current'[o]].order = o
    BY <1>1, <1>2 DEF ObjectsInv
  <2>2. ASSUME NEW j \in Objects PROVE current'[objects[j].order] # 0
    <3>1. objects[j] \in Object
      BY <1>1 DEF ObjectsInv, Objects
    <3>2. objects[j].order \in Orders
      BY <3>1 DEF Object
    <3>3. current[objects[j].order] # 0
      BY <1>1 DEF ObjectsInv
    <3> QED
      BY <1>2, <3>2, <3>3
  <2> QED
    BY <1>1, <1>2, <2>1, <2>2 DEF ObjectsInv
<1>4. /\ \A o \in Orders \ {FillOrder} : Status(o)' = Status(o)
      /\ \A o \in Orders : o = FillOrder => Status(o)' \in {"FILLED", "CANCELLED"}
  BY <1>1, <1>2 DEF Status
<1>5. feed'.op = "settle" /\ feed' \in FeedShape'
  BY <1>1, <1>2 DEF FeedShape
<1>6. FeedInv' /\ \A o : ~FillUnderWay(o)'
  BY <1>5 DEF FeedInv, FillUnderWay
<1>7. CallsInv'
  BY <1>1, <1>2 DEF CallsInv, Busy
<1>8. StopInv' /\ StopClears'
  <2>1. \A o \in Orders : Status(o)' \in Working =>
           Status(o)' = Status(o) /\ current'[o] = current[o]
    BY <1>2, <1>4 DEF Working
  <2> QED
    BY <1>1, <2>1, StopsFollow DEF Busy
<1>9. CancelInv'
  BY <1>1, <1>2, <1>6 DEF CancelInv, Sole
<1> QED
  BY <1>2, <1>3, <1>4, <1>6, <1>7, <1>8, <1>9 DEF PaperInv

(* An object that is made is younger than every list of a stop. *)
LEMMA SubmitEnds ==
  ASSUME PaperInv, NEW c \in Clients, EndSubmit(c)
  PROVE  PaperInv'
<1> DEFINE n == Len(objects)
           order == client[c].order
           object == [order |-> order, status |-> client[c].status, filled |-> 0]
<1>1. /\ ObjectsInv /\ CallsInv /\ FeedInv /\ StopInv /\ StopClears /\ CancelInv /\ n \in Nat
      /\ Busy(c, "submit") /\ Call(c, Idle)
      /\ objects' = Append(objects, object) /\ current' = [current EXCEPT ![order] = n + 1]
      /\ UNCHANGED <<deployment, feed, cleanly, cut>>
  BY DEF PaperInv, EndSubmit, ObjectsInv, NewObject
<1>2. /\ client[c] \in [op: {"submit"}, order: Orders, status: {"ACCEPTED", "REJECTED"}]
  BY <1>1 DEF CallsInv, Calls, Busy, Idle
<1>3. /\ order \in Orders /\ object \in Object /\ object.order = order /\ object.filled = 0
      /\ object.status \in {"ACCEPTED", "REJECTED"}
  BY <1>2 DEF Object, Statuses, Working
<1> HIDE DEF object, order
<1>4. /\ objects' \in Seq(Object) /\ Len(objects') = n + 1 /\ objects'[n + 1] = object
      /\ Objects' = Objects \union {n + 1} /\ n + 1 \notin Objects
      /\ \A i \in Objects : objects'[i] = objects[i]
  BY <1>1, <1>3 DEF ObjectsInv, Objects
<1>5. /\ current' \in [Orders -> 0..(n + 1)] /\ current'[order] = n + 1
      /\ \A o \in Orders \ {order} : current'[o] = current[o]
      /\ \A o \in Orders : current[o] # 0 => current'[o] # 0
      /\ \A o \in Orders : current[o] \in 0..n
  BY <1>1, <1>3 DEF ObjectsInv
<1>6. ASSUME NEW o \in Orders, o # order
      PROVE  Status(o)' = Status(o)
  <2>1. current'[o] = current[o] /\ (current[o] # 0 => current[o] \in Objects)
    BY <1>1, <1>5, <1>6 DEF Objects
  <2> QED
    BY <1>4, <2>1 DEF Status
<1>7. ObjectsInv'
  <2>1. \A o \in Orders : current'[o] # 0 => objects'[current'[o]].order = o
    <3> TAKE o \in Orders
    <3>1. CASE o = order
      BY <1>3, <1>4, <1>5, <3>1
    <3>2. CASE o # order
      BY <1>1, <1>4, <1>5, <3>2 DEF ObjectsInv, Objects
    <3> QED
      BY <3>1, <3>2
  <2>2. \A j \in Objects \union {n + 1} : current'[objects'[j].order] # 0
    <3> TAKE j \in Objects \union {n + 1}
    <3>1. CASE j = n + 1
      BY <1>1, <1>3, <1>4, <1>5, <3>1
    <3>2. CASE j \in Objects
      <4>1. objects[j] \in Object /\ objects'[j] = objects[j]
        BY <1>1, <1>4, <3>2 DEF ObjectsInv, Objects
      <4>2. objects[j].order \in Orders
        BY <4>1 DEF Object
      <4> QED
        BY <1>1, <1>5, <3>2, <4>1, <4>2 DEF ObjectsInv
    <3> QED
      BY <3>1, <3>2
  <2>3. \A j \in Objects \union {n + 1} :
           /\ objects'[j].status # "PARTIALLY_FILLED"
           /\ objects'[j].status = "ACCEPTED" => objects'[j].filled = 0
    BY <1>1, <1>3, <1>4 DEF ObjectsInv
  <2> QED
    BY <1>4, <1>5, <2>1, <2>2, <2>3 DEF ObjectsInv
<1>8. /\ client' = [client EXCEPT ![c] = Idle] /\ Idle \in Calls /\ Idle.op = "idle"
  BY <1>1 DEF Call, Calls, Idle
<1> HIDE DEF Idle
<1>9. /\ client'[c] = Idle /\ client' \in [Clients -> Calls]
      /\ \A e \in Clients \ {c} : client'[e] = client[e]
  BY <1>1, <1>8 DEF CallsInv
<1>10. \A e \in Clients : Busy(e, "stop")' => Busy(e, "stop") /\ client'[e] = client[e]
  BY <1>8, <1>9 DEF Busy
<1>11. CallsInv'
  <2>1. ASSUME NEW e \in Clients
        PROVE  /\ Busy(e, "cancel")' => client'[e].object \in Objects'
               /\ Busy(e, "stop")' => /\ client'[e].object \in 0..(n + 1)
                                      /\ client'[e].made \in 0..(n + 1)
    BY <1>1, <1>4, <1>8, <1>9 DEF CallsInv, Busy
  <2> QED
    BY <1>1, <1>4, <1>9, <2>1 DEF CallsInv
<1>12. FeedInv'
  BY <1>1, <1>4, <1>5 DEF FeedInv, FeedShape, FillOrder, Idle
<1>13. StopInv'
  <2> SUFFICES ASSUME NEW e \in Clients, Busy(e, "stop"), client'[e] = client[e], NEW o \in Orders,
                      Ticket[o].account = Owner[client[e].deployment], Status(o)' = "ACCEPTED"
               PROVE  \/ current'[o] > client[e].made
                      \/ o \in client[e].left
                      \/ current'[o] = client[e].object
    BY <1>10 DEF StopInv
  <2>1. CASE o = order
    <3>1. client[e].made \in 0..n
      BY <1>1 DEF CallsInv
    <3> QED
      BY <1>1, <1>5, <2>1, <3>1
  <2>2. CASE o # order
    BY <1>1, <1>5, <1>6, <2>2 DEF StopInv
  <2> QED
    BY <2>1, <2>2
<1>14. StopClears'
  <2> SUFFICES ASSUME NEW d \in Deployments, deployment[d] = "STOPPED",
                      NEW o \in WorkingOf(Owner[d], Working)'
               PROVE  current'[o] > cut[d]
    BY <1>1 DEF StopClears
  <2>1. cut[d] \in 0..n
    BY <1>1 DEF CallsInv
  <2>2. CASE o = order
    BY <1>1, <1>5, <2>1, <2>2
  <2>3. CASE o # order
    <3>1. o \in WorkingOf(Owner[d], Working) /\ current'[o] = current[o]
      BY <1>5, <1>6, <2>3 DEF WorkingOf
    <3> QED
      BY <1>1, <3>1 DEF StopClears
  <2> QED
    BY <2>2, <2>3
<1>15. CancelInv'
  <2> SUFFICES ASSUME NEW i \in cleanly, Sole(i)'
               PROVE  objects'[i].status = "CANCELLED" /\ ~FillUnderWay(objects'[i].order)
    BY <1>1, <1>4 DEF CancelInv, FillUnderWay
  <2>1. i \in Objects /\ Sole(i)
    BY <1>1, <1>4 DEF CancelInv, Sole
  <2> QED
    BY <1>1, <1>4, <2>1 DEF CancelInv
<1> QED
  BY <1>7, <1>11, <1>12, <1>13, <1>14, <1>15 DEF PaperInv

(* Cash and the broker's memory of fills are none of these properties'     *)
(* business.                                                               *)
LEMMA BooksMove ==
  ASSUME PaperInv, UNCHANGED <<objects, current, feed, client, cleanly, cut, deployment>>
  PROVE  PaperInv'
<1>1. CallsInv' /\ StopInv' /\ StopClears'
  BY OrdersUnchanged DEF PaperInv, CallsInv, Busy, StopInv, StopClears
<1> QED
  BY <1>1, CallMoves

LEMMA DeployMoves ==
  ASSUME PaperInv, NEW d \in Deployments, Deploy(d)
  PROVE  PaperInv'
<1>1. /\ UNCHANGED <<objects, current, feed, client, cleanly, cut>>
      /\ deployment' = [deployment EXCEPT ![d] = "RUNNING"] /\ CallsInv
  BY DEF Deploy, PaperInv
<1>2. /\ deployment' \in [Deployments -> States]
      /\ \A e \in Deployments : deployment'[e] = "STOPPED" => deployment[e] = "STOPPED"
  BY <1>1 DEF CallsInv, States
<1>3. CallsInv' /\ StopInv' /\ StopClears'
  BY <1>1, <1>2, OrdersUnchanged DEF PaperInv, CallsInv, Busy, StopInv, StopClears
<1> QED
  BY <1>1, <1>3, CallMoves

LEMMA NextPaper == PaperInv /\ [Next]_vars => PaperInv'
<1> SUFFICES ASSUME PaperInv, [Next]_vars PROVE PaperInv'
  OBVIOUS
<1>1. CASE UNCHANGED vars
  BY <1>1, BooksMove DEF vars, books
<1>2. ASSUME NEW c \in Clients, OrderStep(c) PROVE PaperInv'
  BY <1>2, CallsBegin, SubmitEnds, CancelsEnd DEF OrderStep
<1>3. ASSUME NEW c \in Clients, DeploymentStep(c) PROVE PaperInv'
  BY <1>3, CallsBegin, StopGoesOn, StopEnds, CancelsEnd DEF DeploymentStep
<1>4. CASE FeedStep
  BY <1>4, FeedStarts, FeedLists, FeedMatches, FeedSettles, FillCloses, FillSaved
     DEF FeedStep, Objects
<1>5. CASE Recover \/ \E a \in Accounts : ResetAccount(a)
  BY <1>5, BooksMove DEF Recover, ResetAccount
<1>6. ASSUME NEW d \in Deployments, Deploy(d) PROVE PaperInv'
  BY <1>6, DeployMoves
<1> QED
  BY <1>1, <1>2, <1>3, <1>4, <1>5, <1>6 DEF Next

(* Whatever the feed and the other clients do while a deployment is being  *)
(* stopped, no order that was there when it began to list them still works *)
(* once it is stopped.                                                     *)
THEOREM StopsHold == Spec => []StopClears
<1>1. PaperInv => StopClears
  BY DEF PaperInv
<1> QED
  BY <1>1, InitPaper, NextPaper, PTL DEF Spec

(* An order submitted once whose cancel found no fill of it under way stays*)
(* cancelled, though the price update at work may have listed it before.   *)
THEOREM CancelsHold == Spec => []CancelHolds
<1>1. PaperInv => CancelHolds
  BY DEF PaperInv, CancelInv, CancelHolds, Sole
<1> QED
  BY <1>1, InitPaper, NextPaper, PTL DEF Spec

(***************************************************************************)
(* Fills of an order.  A fill is not recorded with the object it was       *)
(* matched for, and is booked for whatever object the id stands for by     *)
(* then: what is counted is the fills an id has and may still come to,     *)
(* from the fill under way, or else from its object while that is accepted *)
(* and from another one listed earlier by the price update at work.        *)
(***************************************************************************)
Pending == IF feed.op = "idle" THEN {} ELSE feed.pending
FillsFor(o) == {id \in FillIds : id[1] = o /\ fills[id] # NoFill}
Held(o) == feed.op = "book" /\ FillOrder = o
Listed(o) ==
    \E i \in Pending : objects[i].order = o /\ i # current[o] /\ objects[i].status = "ACCEPTED"
Chances(o) ==
    IF Held(o) THEN 1
    ELSE (IF Status(o) = "ACCEPTED" THEN 1 ELSE 0) + (IF Listed(o) THEN 1 ELSE 0)

(* An update lists one object of an order at most, and none twice. *)
ListInv ==
    /\ DOMAIN fills = FillIds
    /\ feed.op # "idle" => feed.tick \in Ticks
    /\ \A i, j \in Pending : objects[i].order = objects[j].order => i = j
    /\ feed.op = "book" => feed.fill.id \in FillIds
    /\ feed.op \in {"book", "file"} => \A i \in Pending : objects[i].order # FillOrder

OnceInv ==
    \A o \in Orders : /\ IsFiniteSet(FillsFor(o))
                      /\ Cardinality(FillsFor(o)) + Chances(o) <= Cardinality(AcceptedAs(o))

LEMMA AcceptedCounted ==
  ASSUME ObjectsInv, NEW o
  PROVE  IsFiniteSet(AcceptedAs(o)) /\ Cardinality(AcceptedAs(o)) \in Nat
<1>1. IsFiniteSet(Objects)
  BY FS_Interval DEF ObjectsInv, Objects
<1>2. AcceptedAs(o) \subseteq Objects
  BY DEF AcceptedAs
<1> QED
  BY <1>1, <1>2, FS_Subset, FS_CardinalityType

LEMMA ChancesCounted == ASSUME NEW o PROVE Chances(o) \in 0..2
BY DEF Chances

(* Nothing is booked, no object is turned down, and no chance arises. *)
LEMMA OnceStays ==
  ASSUME PaperInv, PaperInv', OnceInv, UNCHANGED fills,
         \A o \in Orders : AcceptedAs(o) \subseteq AcceptedAs(o)' /\ Chances(o)' <= Chances(o)
  PROVE  OnceInv'
<1> SUFFICES ASSUME NEW o \in Orders
             PROVE  /\ IsFiniteSet(FillsFor(o)')
                    /\ Cardinality(FillsFor(o)') + Chances(o)' <= Cardinality(AcceptedAs(o)')
  BY DEF OnceInv
<1>1. FillsFor(o)' = FillsFor(o)
  BY DEF FillsFor
<1>2. ObjectsInv /\ ObjectsInv'
  BY DEF PaperInv
<1>3. /\ IsFiniteSet(AcceptedAs(o)) /\ Cardinality(AcceptedAs(o)) \in Nat
  BY <1>2, AcceptedCounted
<1>4. IsFiniteSet(AcceptedAs(o)')
  <2>1. IsFiniteSet(Objects')
    BY <1>2, FS_Interval DEF ObjectsInv, Objects
  <2>2. AcceptedAs(o)' \subseteq Objects'
    BY DEF AcceptedAs
  <2> QED
    BY <2>1, <2>2, FS_Subset
<1>5. /\ Cardinality(AcceptedAs(o)') \in Nat
      /\ Cardinality(AcceptedAs(o)) <= Cardinality(AcceptedAs(o)')
  BY <1>4, FS_Subset, FS_CardinalityType
<1>6. /\ IsFiniteSet(FillsFor(o)) /\ Cardinality(FillsFor(o)) \in Nat
      /\ Cardinality(FillsFor(o)) + Chances(o) <= Cardinality(AcceptedAs(o))
  BY FS_CardinalityType DEF OnceInv
<1>7. Chances(o) \in 0..2 /\ Chances(o)' \in 0..2 /\ Chances(o)' <= Chances(o)
  BY DEF Chances
<1> QED
  BY <1>1, <1>3, <1>5, <1>6, <1>7

(* Of the objects that are pending, and what is known of a feed at work. *)
LEMMA PendingTyped ==
  ASSUME PaperInv
  PROVE  /\ Pending \subseteq Objects
         /\ feed.op # "idle" => feed \in FeedShape /\ Pending = feed.pending
         /\ feed.op = "idle" => feed = Idle /\ Pending = {}
BY DEF PaperInv, FeedInv, FeedShape, Pending, Idle

LEMMA OnceUndisturbed ==
  ASSUME PaperInv, PaperInv', ListInv, OnceInv, UNCHANGED <<objects, current, feed, fills>>
  PROVE  ListInv' /\ OnceInv'
<1>1. \A o \in Orders : AcceptedAs(o)' = AcceptedAs(o) /\ Chances(o)' = Chances(o)
  BY DEF AcceptedAs, Objects, Chances, Held, Listed, Pending, Status, FillOrder
<1>2. \A o \in Orders : Chances(o) \in 0..2
  BY ChancesCounted
<1>3. OnceInv'
  BY <1>1, <1>2, OnceStays
<1>4. ListInv'
  BY DEF ListInv, Pending, FillOrder
<1> QED
  BY <1>3, <1>4

(* A cancelled object was accepted once, and is not again. *)
LEMMA OnceCancels ==
  ASSUME PaperInv, PaperInv', ListInv, OnceInv, NEW i \in Objects, Cancelled(i),
         UNCHANGED <<feed, fills>>
  PROVE  ListInv' /\ OnceInv'
<1>1. /\ objects \in Seq(Object) /\ current \in [Orders -> 0..Len(objects)]
      /\ \A o \in Orders : current[o] # 0 => objects[current[o]].order = o
      /\ objects' = [objects EXCEPT ![i].status = "CANCELLED"]
      /\ current' = [current EXCEPT ![objects[i].order] = i]
  BY DEF PaperInv, ObjectsInv, Cancelled
<1>2. \A j \in Objects : objects[j] \in Object
  BY <1>1 DEF Objects
<1>3. /\ Objects' = Objects /\ objects'[i].status = "CANCELLED"
      /\ \A j \in Objects : objects'[j].order = objects[j].order
      /\ \A j \in Objects \ {i} : objects'[j] = objects[j]
  BY <1>1, <1>2 DEF Objects, Object
<1>4. \A o \in Orders : AcceptedAs(o) \subseteq AcceptedAs(o)'
  BY <1>2, <1>3 DEF AcceptedAs, Object
<1>5. objects[i].order \in Orders
  BY <1>2 DEF Object
<1>6. Pending' = Pending /\ Pending \subseteq Objects
  BY PendingTyped DEF Pending
<1>7. ASSUME NEW o \in Orders PROVE Chances(o)' <= Chances(o)
  <2>1. Held(o)' = Held(o)
    BY DEF Held, FillOrder
  <2>2. Status(o)' = "ACCEPTED" => Status(o) = "ACCEPTED"
    BY <1>1, <1>3, <1>5 DEF Status, Objects
  <2>3. CASE o # objects[i].order
    <3>1. current'[o] = current[o]
      BY <1>1, <1>5, <2>3
    <3>2. Listed(o)' => Listed(o)
      BY <1>3, <1>6, <3>1 DEF Listed
    <3> QED
      BY <2>1, <2>2, <3>2 DEF Chances
  <2>4. CASE o = objects[i].order
    <3>1. current'[o] = i /\ Status(o)' # "ACCEPTED"
      BY <1>1, <1>3, <1>5, <2>4 DEF Status, Objects
    <3>2. ASSUME Listed(o)' PROVE Listed(o) \/ Status(o) = "ACCEPTED"
      <4>1. PICK j \in Pending : objects[j].order = o /\ objects[j].status = "ACCEPTED"
        BY <1>3, <1>6, <3>1, <3>2 DEF Listed
      <4>2. j \in Objects
        BY <1>6
      <4> QED
        BY <4>1, <4>2 DEF Listed, Status, Objects
    <3> QED
      BY <2>1, <3>1, <3>2 DEF Chances
  <2> QED
    BY <2>3, <2>4
<1>8. OnceInv'
  BY <1>4, <1>7, OnceStays
<1>9. ListInv'
  BY <1>3, <1>6 DEF ListInv, FillOrder
<1> QED
  BY <1>8, <1>9

(* A new object is one more that was accepted, or no chance at all. *)
LEMMA OnceSubmits ==
  ASSUME PaperInv, PaperInv', ListInv, OnceInv, NEW c \in Clients, EndSubmit(c)
  PROVE  ListInv' /\ OnceInv'
<1> DEFINE n == Len(objects)
           order == client[c].order
           object == [order |-> order, status |-> client[c].status, filled |-> 0]
<1>0. ObjectsInv /\ ObjectsInv' /\ CallsInv
  BY DEF PaperInv
<1>1. /\ ObjectsInv /\ ObjectsInv' /\ CallsInv /\ n \in Nat
      /\ Busy(c, "submit") /\ objects' = Append(objects, object)
      /\ current' = [current EXCEPT ![order] = n + 1] /\ UNCHANGED <<feed, fills>>
  <2>1. /\ Busy(c, "submit") /\ objects' = Append(objects, object)
        /\ current' = [current EXCEPT ![order] = n + 1] /\ UNCHANGED <<feed, fills>>
    BY DEF EndSubmit, NewObject, books
  <2>2. n \in Nat
    BY <1>0 DEF ObjectsInv
  <2> HIDE DEF n, order, object
  <2> QED
    BY <1>0, <2>1, <2>2
<1>2. client[c] \in [op: {"submit"}, order: Orders, status: {"ACCEPTED", "REJECTED"}]
  BY <1>1 DEF CallsInv, Calls, Busy, Idle
<1>3. /\ order \in Orders /\ object \in Object /\ object.order = order
      /\ object.status \in {"ACCEPTED", "REJECTED"}
  BY <1>2 DEF Object, Statuses, Working
<1> HIDE DEF object, order
<1>a. /\ objects' \in Seq(Object) /\ Len(objects') = n + 1 /\ objects'[n + 1] = object
      /\ Objects' = Objects \union {n + 1} /\ n + 1 \notin Objects
      /\ \A i \in Objects : objects'[i] = objects[i]
  BY <1>1, <1>3 DEF ObjectsInv, Objects
<1>b. \A i \in Objects : objects[i] \in Object
  BY <1>1 DEF ObjectsInv, Objects
<1>4. /\ Objects' = Objects \union {n + 1} /\ n + 1 \notin Objects /\ objects'[n + 1] = object
      /\ \A i \in Objects : objects'[i] = objects[i]
      /\ \A i \in Objects : objects[i].order \in Orders
  BY <1>a, <1>b DEF Object
<1>5. /\ current'[order] = n + 1 /\ \A o \in Orders \ {order} : current'[o] = current[o]
      /\ \A o \in Orders : current[o] # 0 => current[o] \in Objects
      /\ \A o \in Orders : current[o] # 0 => objects[current[o]].order = o
  BY <1>1, <1>3 DEF ObjectsInv, Objects
<1>6. Pending' = Pending /\ Pending \subseteq Objects
  BY <1>1, PendingTyped DEF Pending
<1>7. ListInv'
  <2>1. \A i \in Pending : objects'[i] = objects[i]
    BY <1>4, <1>6
  <2>2. /\ feed.op # "idle" => feed.tick \in Ticks
        /\ \A i, j \in Pending : objects[i].order = objects[j].order => i = j
        /\ feed.op = "book" => feed.fill.id \in FillIds
        /\ feed.op \in {"book", "file"} => \A i \in Pending : objects[i].order # feed.fill.id[1]
    BY DEF ListInv, FillOrder
  <2>3. \A i, j \in Pending : objects'[i].order = objects'[j].order => i = j
    BY <2>1, <2>2
  <2>4. feed.op \in {"book", "file"} => \A i \in Pending : objects'[i].order # feed.fill.id[1]
    BY <2>1, <2>2
  <2> QED
    BY <1>1, <1>6, <2>2, <2>3, <2>4 DEF ListInv, FillOrder
<1>8. ASSUME NEW o \in Orders, o # order
      PROVE  /\ IsFiniteSet(FillsFor(o)')
             /\ Cardinality(FillsFor(o)') + Chances(o)' <= Cardinality(AcceptedAs(o)')
  <2>1. FillsFor(o)' = FillsFor(o) /\ Held(o)' = Held(o)
    BY <1>1 DEF FillsFor, Held, FillOrder
  <2>2. AcceptedAs(o)' = AcceptedAs(o)
    BY <1>3, <1>4, <1>8 DEF AcceptedAs
  <2>3. Status(o)' = Status(o)
    BY <1>4, <1>5, <1>8 DEF Status
  <2>4. Listed(o)' = Listed(o)
    BY <1>4, <1>5, <1>6, <1>8 DEF Listed
  <2>5. Chances(o)' = Chances(o)
    BY <2>1, <2>3, <2>4 DEF Chances
  <2> QED
    BY <2>1, <2>2, <2>5 DEF OnceInv
<1>9. ASSUME NEW o \in Orders, o = order
      PROVE  /\ IsFiniteSet(FillsFor(o)')
             /\ Cardinality(FillsFor(o)') + Chances(o)' <= Cardinality(AcceptedAs(o)')
  <2>1. FillsFor(o)' = FillsFor(o) /\ Held(o)' = Held(o)
    BY <1>1 DEF FillsFor, Held, FillOrder
  <2>2. Listed(o)' => Listed(o) \/ Status(o) = "ACCEPTED"
    <3> SUFFICES ASSUME Listed(o)' PROVE Listed(o) \/ Status(o) = "ACCEPTED"
      OBVIOUS
    <3>1. PICK j \in Pending : objects[j].order = o /\ objects[j].status = "ACCEPTED"
      BY <1>4, <1>6 DEF Listed
    <3>2. j \in Objects /\ j # 0
      BY <1>6 DEF Objects
    <3> QED
      BY <3>1, <3>2 DEF Listed, Status
  <2>3. /\ IsFiniteSet(FillsFor(o)) /\ Cardinality(FillsFor(o)) \in Nat
        /\ Cardinality(FillsFor(o)) + Chances(o) <= Cardinality(AcceptedAs(o))
    BY FS_CardinalityType DEF OnceInv
  <2>4. IsFiniteSet(AcceptedAs(o)) /\ Cardinality(AcceptedAs(o)) \in Nat
    BY <1>1, AcceptedCounted
  <2>5. Status(o)' = object.status
    BY <1>4, <1>5, <1>9 DEF Status, Objects
  <2>6. CASE object.status = "ACCEPTED"
    <3>1. AcceptedAs(o)' = AcceptedAs(o) \union {n + 1} /\ n + 1 \notin AcceptedAs(o)
      BY <1>3, <1>4, <1>9, <2>6 DEF AcceptedAs
    <3>2. Cardinality(AcceptedAs(o)') = Cardinality(AcceptedAs(o)) + 1
      BY <2>4, <3>1, FS_AddElement
    <3>3. Chances(o)' <= Chances(o) + 1 /\ Chances(o) \in 0..2 /\ Chances(o)' \in 0..2
      BY <2>1, <2>2 DEF Chances
    <3> QED
      BY <2>1, <2>3, <2>4, <3>2, <3>3
  <2>7. CASE object.status = "REJECTED"
    <3>1. AcceptedAs(o)' = AcceptedAs(o)
      BY <1>3, <1>4, <1>9, <2>7 DEF AcceptedAs
    <3>2. Chances(o)' <= Chances(o) /\ Chances(o) \in 0..2 /\ Chances(o)' \in 0..2
      BY <2>1, <2>2, <2>5, <2>7 DEF Chances
    <3> QED
      BY <2>1, <2>3, <2>4, <3>1, <3>2
  <2> QED
    BY <1>3, <2>6, <2>7
<1> QED
  BY <1>7, <1>8, <1>9 DEF OnceInv

(* The feed moves on without a fill. *)
LEMMA OnceFeeds ==
  ASSUME PaperInv, PaperInv', ListInv, OnceInv,
         \/ \E t \in Ticks : BeginUpdate(t)
         \/ \E a \in Accounts : ListAccount(a)
         \/ Settle \/ SaveAccount \/ EndUpdate
  PROVE  ListInv' /\ OnceInv'
<1>a. /\ UNCHANGED <<objects, current, fills>> /\ feed.op # "book"
      /\ feed = Idle \/ feed \in FeedShape
  <2>1. /\ UNCHANGED <<objects, current, fills>> /\ feed.op # "book"
    <3>1. (\E u \in Ticks : BeginUpdate(u)) =>
             UNCHANGED <<objects, current, fills>> /\ feed.op # "book"
      BY DEF BeginUpdate, Idle, books
    <3>2. (\E a \in Accounts : ListAccount(a)) =>
             UNCHANGED <<objects, current, fills>> /\ feed.op # "book"
      BY DEF ListAccount, books
    <3>3. Settle => UNCHANGED <<objects, current, fills>> /\ feed.op # "book"
      BY DEF Settle
    <3>4. SaveAccount => UNCHANGED <<objects, current, fills>> /\ feed.op # "book"
      BY DEF SaveAccount
    <3>5. EndUpdate => UNCHANGED <<objects, current, fills>> /\ feed.op # "book"
      BY DEF EndUpdate, books
    <3> QED
      BY <3>1, <3>2, <3>3, <3>4, <3>5
  <2> QED
    BY <2>1 DEF PaperInv, FeedInv
<1>b. feed'.op \notin {"book", "file"}
  <2>1. CASE \E t \in Ticks : BeginUpdate(t)
    BY <2>1 DEF BeginUpdate
  <2>2. CASE \E a \in Accounts : ListAccount(a)
    <3>1. feed.op = "match"
      BY <2>2 DEF ListAccount
    <3>2. feed \in FeedShape
      BY <1>a, <3>1 DEF Idle
    <3>3. feed'.op = feed.op
      BY <2>2, <3>2 DEF ListAccount, FeedShape
    <3> QED
      BY <3>1, <3>3
  <2>3. CASE Settle \/ SaveAccount
    <3>1. feed \in FeedShape
      BY <1>a, <2>3 DEF Settle, SaveAccount, Idle
    <3>2. CASE Settle
      <4>1. PICK balance : feed' = [feed EXCEPT !.op = "save", !.balance = balance]
        BY <3>2 DEF Settle
      <4> QED
        BY <3>1, <4>1 DEF FeedShape
    <3>3. CASE SaveAccount
      <4>1. feed' = [feed EXCEPT !.op = "match", !.fill = NoFill, !.balance = 0]
        BY <3>3 DEF SaveAccount
      <4> QED
        BY <3>1, <4>1 DEF FeedShape
    <3> QED
      BY <2>3, <3>2, <3>3
  <2>4. CASE EndUpdate
    BY <2>4 DEF EndUpdate, Idle
  <2> QED
    BY <2>1, <2>2, <2>3, <2>4
<1>1. /\ UNCHANGED <<objects, current, fills>> /\ feed'.op \notin {"book", "file"}
      /\ feed.op # "book"
      /\ feed = Idle \/ feed \in FeedShape
  BY <1>a, <1>b
<1>2. /\ feed'.op # "idle" => feed'.tick \in Ticks
      /\ \A i \in Pending' : \/ i \in Pending
                             \/ \E o \in Orders : i = current[o] /\ Status(o) = "ACCEPTED"
      /\ \A i, j \in Pending' : objects[i].order = objects[j].order => i = j
  <2>1. CASE \E t \in Ticks : BeginUpdate(t)
    BY <2>1 DEF BeginUpdate, Pending
  <2>2. ASSUME NEW a \in Accounts, ListAccount(a)
        PROVE  /\ feed'.op # "idle" => feed'.tick \in Ticks
               /\ \A i \in Pending' : \E o \in Orders : i = current[o] /\ Status(o) = "ACCEPTED"
               /\ \A i, j \in Pending' : objects[i].order = objects[j].order => i = j
    <3> DEFINE pending == {current[o] : o \in WorkingOf(a, {"ACCEPTED"})}
    <3>1. feed.op = "match" /\ feed' = [feed EXCEPT !.accounts = feed.accounts \ {a},
                                                    !.pending = pending]
      BY <2>2 DEF ListAccount
    <3>2. feed \in FeedShape
      BY <1>1, <3>1 DEF Idle
    <3>3. \A i \in pending : \E o \in Orders : i = current[o] /\ Status(o) = "ACCEPTED"
      BY DEF WorkingOf
    <3>4. \A o \in Orders : Status(o) = "ACCEPTED" => objects[current[o]].order = o
      BY DEF PaperInv, ObjectsInv, Status
    <3> HIDE DEF pending
    <3>5. feed'.op = "match" /\ feed'.tick = feed.tick /\ Pending' = pending
      BY <3>1, <3>2 DEF FeedShape, Pending
    <3> QED
      BY <3>1, <3>3, <3>4, <3>5 DEF ListInv
  <2>3. CASE Settle \/ SaveAccount
    <3>1. feed \in FeedShape
      BY <1>1, <2>3 DEF Settle, SaveAccount, Idle
    <3>2. feed'.op # "idle" /\ feed'.tick = feed.tick /\ feed'.pending = feed.pending
      <4>1. ASSUME Settle
            PROVE  feed'.op # "idle" /\ feed'.tick = feed.tick /\ feed'.pending = feed.pending
        <5>1. PICK balance : feed' = [feed EXCEPT !.op = "save", !.balance = balance]
          BY <4>1 DEF Settle
        <5> QED
          BY <3>1, <5>1 DEF FeedShape
      <4>2. ASSUME SaveAccount
            PROVE  feed'.op # "idle" /\ feed'.tick = feed.tick /\ feed'.pending = feed.pending
        <5>1. feed' = [feed EXCEPT !.op = "match", !.fill = NoFill, !.balance = 0]
          BY <4>2 DEF SaveAccount
        <5> QED
          BY <3>1, <5>1 DEF FeedShape
      <4> QED
        BY <2>3, <4>1, <4>2
    <3>3. feed.op # "idle"
      BY <2>3 DEF Settle, SaveAccount
    <3> QED
      BY <1>1, <3>2, <3>3 DEF ListInv, Pending
  <2>4. CASE EndUpdate
    BY <2>4 DEF EndUpdate, Pending, Idle
  <2> QED
    BY <2>1, <2>2, <2>3, <2>4
<1>3. ListInv'
  BY <1>1, <1>2 DEF ListInv
<1>4. ASSUME NEW o \in Orders PROVE AcceptedAs(o)' = AcceptedAs(o) /\ Chances(o)' <= Chances(o)
  <2>1. AcceptedAs(o)' = AcceptedAs(o) /\ Status(o)' = Status(o) /\ ~Held(o) /\ ~Held(o)'
    BY <1>1 DEF AcceptedAs, Objects, Status, Held
  <2>2. ASSUME Listed(o)' PROVE Listed(o)
    <3>1. PICK i \in Pending' :
             objects[i].order = o /\ i # current[o] /\ objects[i].status = "ACCEPTED"
      BY <1>1, <2>2 DEF Listed
    <3>2. ASSUME NEW p \in Orders, i = current[p], Status(p) = "ACCEPTED" PROVE FALSE
      BY <3>1, <3>2 DEF PaperInv, ObjectsInv, Status
    <3> QED
      BY <1>2, <3>1, <3>2 DEF Listed
  <2> QED
    BY <2>1, <2>2 DEF Chances
<1> QED
  BY <1>1, <1>3, <1>4, OnceStays


(* The price update at work takes a listed order: no other one of its id   *)
(* is listed any more.                                                     *)
LEMMA OnceMatches ==
  ASSUME PaperInv, PaperInv', ListInv, OnceInv, NEW i \in Objects, MatchNext(i)
  PROVE  ListInv' /\ OnceInv'
<1>1. /\ feed.op = "match" /\ i \in feed.pending /\ UNCHANGED <<objects, current, fills>>
  BY DEF MatchNext, books
<1>2. feed \in FeedShape /\ Pending = feed.pending /\ Pending \subseteq Objects
  BY <1>1, PendingTyped
<1>3. objects[i] \in Object /\ objects[i].order \in Orders
  <2>1. objects[i] \in Object
    BY DEF PaperInv, ObjectsInv, Objects
  <2> QED
    BY <2>1 DEF Object
<1>4. /\ feed.tick \in Ticks /\ DOMAIN fills = FillIds
      /\ \A j, k \in Pending : objects[j].order = objects[k].order => j = k
  BY <1>1 DEF ListInv
<1>5. \A o : ~Held(o)
  BY <1>1 DEF Held
<1>6. CASE ~Matches(i, feed.tick)
  <2>1. feed' = [feed EXCEPT !.pending = feed.pending \ {i}]
    BY <1>6 DEF MatchNext
  <2>2. feed'.op = "match" /\ feed'.tick = feed.tick /\ feed'.pending = feed.pending \ {i}
    BY <1>1, <1>2, <2>1 DEF FeedShape
  <2>3. Pending' = Pending \ {i}
    BY <1>2, <2>2 DEF Pending
  <2>4. ListInv'
    BY <1>1, <1>4, <2>2, <2>3 DEF ListInv
  <2>5. ASSUME NEW o \in Orders PROVE AcceptedAs(o)' = AcceptedAs(o) /\ Chances(o)' <= Chances(o)
    <3>1. AcceptedAs(o)' = AcceptedAs(o) /\ Status(o)' = Status(o) /\ ~Held(o)'
      BY <1>1, <2>2 DEF AcceptedAs, Objects, Status, Held
    <3>2. Listed(o)' => Listed(o)
      BY <1>1, <2>3 DEF Listed
    <3> QED
      BY <1>5, <3>1, <3>2 DEF Chances
  <2> QED
    BY <1>1, <2>4, <2>5, OnceStays
<1>7. CASE Matches(i, feed.tick)
  <2> DEFINE fill == FillOf(i, feed.tick)
             order == objects[i].order
  <2>1. feed' = [feed EXCEPT !.pending = feed.pending \ {i}, !.op = "book", !.fill = fill]
    BY <1>7 DEF MatchNext
  <2>2. fill.id = <<order, feed.tick.stamp>>
    BY DEF FillOf
  <2>3. fill.id \in FillIds /\ fill.id[1] = order
    BY <1>3, <1>4, <2>2 DEF FillIds
  <2>4. objects[i].status = "ACCEPTED"
    BY <1>3, <1>7 DEF Matches, Working, PaperInv, ObjectsInv
  <2> HIDE DEF fill
  <2>5. /\ feed'.op = "book" /\ feed'.fill = fill /\ feed'.tick = feed.tick
        /\ feed'.pending = feed.pending \ {i}
    BY <1>1, <1>2, <2>1 DEF FeedShape
  <2>6. Pending' = Pending \ {i} /\ FillOrder' = order
    BY <1>2, <2>3, <2>5 DEF Pending, FillOrder
  <2>7. \A j \in Pending' : objects[j].order # order
    BY <1>1, <1>2, <1>4, <2>6
  <2>8. ListInv'
    BY <1>1, <1>4, <2>3, <2>5, <2>6, <2>7 DEF ListInv
  <2>9. ASSUME NEW o \in Orders PROVE AcceptedAs(o)' = AcceptedAs(o) /\ Chances(o)' <= Chances(o)
    <3>1. AcceptedAs(o)' = AcceptedAs(o) /\ Status(o)' = Status(o)
      BY <1>1 DEF AcceptedAs, Objects, Status
    <3>2. Held(o)' <=> o = order
      BY <2>5, <2>6 DEF Held
    <3>3. CASE o = order
      <4>1. Listed(o) \/ Status(o) = "ACCEPTED"
        <5>1. CASE i = current[o]
          BY <2>4, <5>1 DEF Status, Objects
        <5>2. CASE i # current[o]
          BY <1>1, <1>2, <2>4, <3>3, <5>2 DEF Listed
        <5> QED
          BY <5>1, <5>2
      <4> QED
        BY <1>5, <3>1, <3>2, <3>3, <4>1 DEF Chances
    <3>4. CASE o # order
      <4>1. Listed(o)' => Listed(o)
        BY <1>1, <2>6 DEF Listed
      <4> QED
        BY <1>5, <3>1, <3>2, <3>4, <4>1 DEF Chances
    <3> QED
      BY <3>3, <3>4
  <2> QED
    BY <1>1, <2>8, <2>9, OnceStays
<1> QED
  BY <1>6, <1>7

(* A fill takes the one chance of its order, and closes it. *)
LEMMA OnceBooks ==
  ASSUME PaperInv, PaperInv', ListInv, OnceInv, Book
  PROVE  ListInv' /\ OnceInv'
<1>1. feed.op = "book" /\ UNCHANGED current
  BY DEF Book
<1>2. /\ feed \in FeedShape /\ ObjectsInv /\ FillOrder \in Orders /\ current[FillOrder] # 0
      /\ feed.fill.quantity = Ticket[FillOrder].quantity
  BY <1>1 DEF PaperInv, FeedInv, Idle
<1>3. /\ DOMAIN fills = FillIds /\ feed.fill.id \in FillIds /\ feed.tick \in Ticks
      /\ \A i \in Pending : objects[i].order # FillOrder
      /\ \A i, j \in Pending : objects[i].order = objects[j].order => i = j
  BY <1>1 DEF ListInv
<1>4. Pending = feed.pending /\ Pending \subseteq Objects
  BY <1>1, PendingTyped
<1>5. \A o : Held(o) <=> o = FillOrder
  BY <1>1 DEF Held
<1>6. ~Listed(FillOrder)
  BY <1>3 DEF Listed
<1>7. CASE Duplicate
  <2>1. /\ feed' = [feed EXCEPT !.op = "match", !.fill = NoFill] /\ UNCHANGED <<objects, fills>>
    BY <1>7 DEF Book
  <2>2. feed'.op = "match" /\ feed'.tick = feed.tick /\ Pending' = Pending
    BY <1>2, <1>4, <2>1 DEF FeedShape, Pending
  <2>3. ListInv'
    BY <1>3, <2>1, <2>2 DEF ListInv
  <2>4. ASSUME NEW o \in Orders PROVE AcceptedAs(o)' = AcceptedAs(o) /\ Chances(o)' <= Chances(o)
    <3>1. /\ AcceptedAs(o)' = AcceptedAs(o) /\ Status(o)' = Status(o) /\ ~Held(o)'
          /\ Listed(o)' = Listed(o)
      BY <1>1, <2>1, <2>2 DEF AcceptedAs, Objects, Status, Held, Listed
    <3> QED
      BY <1>5, <1>6, <3>1 DEF Chances
  <2> QED
    BY <2>1, <2>3, <2>4, OnceStays
<1>8. CASE ~Duplicate
  <2> DEFINE i == current[FillOrder]
             object == Filled(objects[i])
             sum == objects[i].filled + feed.fill.quantity
  <2>1. /\ feed' = [feed EXCEPT !.op = "file", !.object = i]
        /\ objects' = [objects EXCEPT ![i] = object]
        /\ fills' = [fills EXCEPT ![feed.fill.id] = feed.fill]
    BY <1>8 DEF Book
  <2>2. i \in Objects /\ objects[i] \in Object /\ objects[i].order = FillOrder
    BY <1>2 DEF ObjectsInv, Objects
  <2>3. sum \in Nat /\ sum >= Ticket[FillOrder].quantity
    BY <1>2, <2>2, TicketAssumption DEF Object
  <2>4. object = [objects[i] EXCEPT !.filled = sum, !.status = "FILLED"]
    BY <2>2, <2>3 DEF Filled
  <2>5. object \in Object /\ object.order = FillOrder /\ object.status = "FILLED"
    <3> HIDE DEF object, sum, i
    <3> QED
      BY <2>2, <2>3, <2>4 DEF Object, Statuses
  <2> HIDE DEF object, sum
  <2>6. /\ Objects' = Objects /\ objects'[i] = object
        /\ \A j \in Objects \ {i} : objects'[j] = objects[j]
    BY <1>2, <2>1, <2>2 DEF ObjectsInv, Objects
  <2>7. \A j \in Objects : objects'[j].order = objects[j].order
    BY <2>2, <2>5, <2>6
  <2>8. /\ feed'.op = "file" /\ feed'.tick = feed.tick /\ feed'.fill = feed.fill
        /\ Pending' = Pending
    BY <1>2, <1>4, <2>1 DEF FeedShape, Pending
  <2>9. ListInv'
    BY <1>3, <1>4, <2>1, <2>7, <2>8 DEF ListInv, FillOrder
  <2>10. \A o \in Orders : AcceptedAs(o) \subseteq AcceptedAs(o)'
    <3>1. \A j \in Objects : objects'[j].status = "REJECTED" => objects[j].status = "REJECTED"
      BY <2>5, <2>6
    <3> QED
      BY <2>6, <2>7, <3>1 DEF AcceptedAs
  <2>11. ASSUME NEW o \in Orders, o # FillOrder
         PROVE  FillsFor(o)' = FillsFor(o) /\ Chances(o)' <= Chances(o)
    <3>1. FillsFor(o)' = FillsFor(o)
      <4>1. \A id \in FillIds : id[1] = o => fills'[id] = fills[id]
        BY <1>3, <2>1, <2>11 DEF FillOrder
      <4> QED
        BY <4>1 DEF FillsFor
    <3>2. current[o] # 0 => current[o] \in Objects /\ objects[current[o]].order = o
      BY <1>2 DEF ObjectsInv, Objects
    <3>3. Status(o)' = Status(o)
      BY <1>1, <2>2, <2>6, <2>11, <3>2 DEF Status
    <3>4. Listed(o)' => Listed(o)
      BY <1>1, <1>4, <2>2, <2>6, <2>7, <2>8, <2>11 DEF Listed
    <3>5. ~Held(o) /\ ~Held(o)'
      BY <1>5, <2>8, <2>11 DEF Held
    <3> QED
      BY <3>1, <3>3, <3>4, <3>5 DEF Chances
  <2>12. Chances(FillOrder) = 1
    BY <1>5 DEF Chances
  <2>13. ASSUME NEW o \in Orders, o = FillOrder PROVE Chances(o)' = 0
    <3>1. ~Held(o)' /\ Status(o)' # "ACCEPTED"
      BY <1>1, <1>2, <2>5, <2>6, <2>8, <2>13 DEF Held, Status
    <3>2. ~Listed(o)'
      BY <1>3, <1>4, <2>7, <2>8, <2>13 DEF Listed
    <3> QED
      BY <3>1, <3>2 DEF Chances
  <2>14. SUFFICES ASSUME NEW o \in Orders
                  PROVE  /\ IsFiniteSet(FillsFor(o)')
                         /\ Cardinality(FillsFor(o)') + Chances(o)' <= Cardinality(AcceptedAs(o)')
    BY <2>9 DEF OnceInv
  <2>15. /\ IsFiniteSet(FillsFor(o)) /\ Cardinality(FillsFor(o)) \in Nat
         /\ Cardinality(FillsFor(o)) + Chances(o) <= Cardinality(AcceptedAs(o))
    BY FS_CardinalityType DEF OnceInv
  <2>16. /\ Cardinality(AcceptedAs(o)) \in Nat /\ Cardinality(AcceptedAs(o)') \in Nat
         /\ Cardinality(AcceptedAs(o)) <= Cardinality(AcceptedAs(o)')
    <3>1. IsFiniteSet(AcceptedAs(o)) /\ Cardinality(AcceptedAs(o)) \in Nat
      BY <1>2, AcceptedCounted
    <3>2. IsFiniteSet(Objects)
      BY <1>2, FS_Interval DEF ObjectsInv, Objects
    <3>3. AcceptedAs(o)' \subseteq Objects
      BY <2>6 DEF AcceptedAs
    <3>4. IsFiniteSet(AcceptedAs(o)')
      BY <3>2, <3>3, FS_Subset
    <3> QED
      BY <2>10, <3>1, <3>4, FS_Subset, FS_CardinalityType
  <2>17. Chances(o) \in 0..2
    BY ChancesCounted
  <2>18. CASE o # FillOrder
    <3>1. Chances(o)' \in 0..2
      BY DEF Chances
    <3> QED
      BY <2>11, <2>15, <2>16, <2>17, <2>18, <3>1
  <2>19. CASE o = FillOrder
    <3>1. FillsFor(o)' \subseteq FillsFor(o) \union {feed.fill.id}
      BY <1>3, <2>1 DEF FillsFor
    <3>2. /\ IsFiniteSet(FillsFor(o) \union {feed.fill.id})
          /\ Cardinality(FillsFor(o) \union {feed.fill.id}) <= Cardinality(FillsFor(o)) + 1
          /\ Cardinality(FillsFor(o) \union {feed.fill.id}) \in Nat
      <4>1. CASE feed.fill.id \in FillsFor(o)
        <5>1. FillsFor(o) \union {feed.fill.id} = FillsFor(o)
          BY <4>1
        <5> QED
          BY <2>15, <5>1
      <4>2. CASE feed.fill.id \notin FillsFor(o)
        BY <2>15, <4>2, FS_AddElement
      <4> QED
        BY <4>1, <4>2
    <3>3. IsFiniteSet(FillsFor(o)') /\ Cardinality(FillsFor(o)') \in Nat
          /\ Cardinality(FillsFor(o)') <= Cardinality(FillsFor(o) \union {feed.fill.id})
      BY <3>1, <3>2, FS_Subset, FS_CardinalityType
    <3>4. Chances(o)' = 0
      BY <2>13, <2>19
    <3> QED
      BY <2>12, <2>15, <2>16, <2>19, <3>2, <3>3, <3>4
  <2> QED
    BY <2>18, <2>19
<1> QED
  BY <1>7, <1>8

(* Whoever submitted the order again in between has no chance left. *)
LEMMA OnceSaves ==
  ASSUME PaperInv, PaperInv', ListInv, OnceInv, SaveOrder
  PROVE  ListInv' /\ OnceInv'
<1>1. /\ feed.op = "file" /\ UNCHANGED <<objects, fills>>
      /\ feed' = [feed EXCEPT !.op = "settle", !.object = 0]
  BY DEF SaveOrder, books
<1>2. /\ feed \in FeedShape /\ Pending = feed.pending
  BY <1>1, PendingTyped
<1>3. feed'.op = "settle" /\ feed'.tick = feed.tick /\ Pending' = Pending
  BY <1>1, <1>2 DEF FeedShape, Pending
<1>4. ListInv'
  BY <1>1, <1>3 DEF ListInv
<1>5. ASSUME NEW o \in Orders PROVE AcceptedAs(o)' = AcceptedAs(o) /\ Chances(o)' <= Chances(o)
  <2>1. AcceptedAs(o)' = AcceptedAs(o) /\ ~Held(o) /\ ~Held(o)'
    BY <1>1, <1>3 DEF AcceptedAs, Objects, Held
  <2>2. CASE o # FillOrder
    <3>1. current'[o] = current[o] /\ Status(o)' = Status(o)
      BY <2>2, FillSaved
    <3>2. Listed(o)' = Listed(o)
      BY <1>1, <1>3, <3>1 DEF Listed
    <3> QED
      BY <2>1, <3>1, <3>2 DEF Chances
  <2>3. CASE o = FillOrder
    <3>1. Status(o)' # "ACCEPTED"
      BY <2>3, FillSaved
    <3>2. ~Listed(o)'
      BY <1>1, <1>3, <2>3 DEF Listed, ListInv
    <3> QED
      BY <2>1, <3>1, <3>2, ChancesCounted DEF Chances
  <2> QED
    BY <2>2, <2>3
<1> QED
  BY <1>1, <1>4, <1>5, OnceStays

LEMMA InitOnce == Init => ListInv /\ OnceInv
<1> SUFFICES ASSUME Init PROVE ListInv /\ OnceInv
  OBVIOUS
<1>1. feed.op = "idle" /\ Pending = {} /\ Objects = {}
  BY DEF Init, Idle, Pending, Objects
<1>2. ListInv
  BY <1>1 DEF ListInv, Init
<1>3. ASSUME NEW o \in Orders
      PROVE  /\ IsFiniteSet(FillsFor(o))
             /\ Cardinality(FillsFor(o)) + Chances(o) <= Cardinality(AcceptedAs(o))
  <2>1. FillsFor(o) = {} /\ AcceptedAs(o) = {}
    BY <1>1 DEF Init, FillsFor, AcceptedAs
  <2>2. Chances(o) = 0
    BY <1>1 DEF Init, Chances, Held, Listed, Status
  <2> QED
    BY <2>1, <2>2, FS_EmptySet
<1> QED
  BY <1>2, <1>3 DEF OnceInv

LEMMA NextOnce == PaperInv /\ ListInv /\ OnceInv /\ [Next]_vars => ListInv' /\ OnceInv'
<1> SUFFICES ASSUME PaperInv, ListInv, OnceInv, [Next]_vars PROVE ListInv' /\ OnceInv'
  OBVIOUS
<1>1. PaperInv'
  BY NextPaper
<1>2. ASSUME UNCHANGED <<objects, current, feed, fills>> PROVE ListInv' /\ OnceInv'
  BY <1>1, <1>2, OnceUndisturbed
<1>3. CASE UNCHANGED vars
  BY <1>2, <1>3 DEF vars, books
<1>4. ASSUME NEW c \in Clients, OrderStep(c) PROVE ListInv' /\ OnceInv'
  <2>1. ASSUME NEW o \in Orders, BeginSubmit(c, o) \/ BeginCancel(c, o)
        PROVE  ListInv' /\ OnceInv'
    BY <1>2, <2>1 DEF BeginSubmit, BeginCancel, books
  <2>2. CASE EndSubmit(c)
    BY <1>1, <2>2, OnceSubmits
  <2>3. CASE EndCancel(c)
    <3>1. /\ client[c].object \in Objects /\ Cancelled(client[c].object)
          /\ UNCHANGED <<feed, fills>>
      BY <2>3 DEF EndCancel, books, PaperInv, CallsInv
    <3> QED
      BY <1>1, <3>1, OnceCancels
  <2> QED
    BY <1>4, <2>1, <2>2, <2>3 DEF OrderStep
<1>5. ASSUME NEW c \in Clients, DeploymentStep(c) PROVE ListInv' /\ OnceInv'
  <2>1. ASSUME NEW d \in Deployments, BeginShift(c, d) \/ BeginStop(c, d)
        PROVE  ListInv' /\ OnceInv'
    BY <1>2, <2>1 DEF BeginShift, BeginStop, books
  <2>2. ASSUME NEW o \in Orders, StopFinds(c, o) PROVE ListInv' /\ OnceInv'
    BY <1>2, <2>2 DEF StopFinds, books
  <2>3. CASE EndShift(c) \/ EndStop(c)
    BY <1>2, <2>3 DEF EndShift, EndStop, books
  <2>4. CASE StopCancels(c)
    <3>1. /\ Busy(c, "stop") /\ client[c].object # 0 /\ Cancelled(client[c].object)
          /\ UNCHANGED <<feed, fills>>
      BY <2>4 DEF StopCancels, books
    <3>2. client[c].object \in Objects
      BY <3>1 DEF PaperInv, CallsInv, ObjectsInv, Objects
    <3> QED
      BY <1>1, <3>1, <3>2, OnceCancels
  <2> QED
    BY <1>5, <2>1, <2>2, <2>3, <2>4 DEF DeploymentStep
<1>6. CASE FeedStep
  <2>1. ASSUME NEW i \in Objects, MatchNext(i) PROVE ListInv' /\ OnceInv'
    BY <1>1, <2>1, OnceMatches
  <2>2. CASE Book
    BY <1>1, <2>2, OnceBooks
  <2>4. CASE SaveOrder
    BY <1>1, <2>4, OnceSaves
  <2>3. CASE \/ \E t \in Ticks : BeginUpdate(t)
             \/ \E a \in Accounts : ListAccount(a)
             \/ Settle \/ SaveAccount \/ EndUpdate
    BY <1>1, <2>3, OnceFeeds
  <2> QED
    BY <1>6, <2>1, <2>2, <2>3, <2>4 DEF FeedStep, Objects
<1>7. CASE Recover
  BY <1>2, <1>7 DEF Recover
<1>8. ASSUME NEW a \in Accounts, ResetAccount(a) PROVE ListInv' /\ OnceInv'
  BY <1>2, <1>8 DEF ResetAccount
<1>9. ASSUME NEW d \in Deployments, Deploy(d) PROVE ListInv' /\ OnceInv'
  BY <1>2, <1>9 DEF Deploy, books
<1> QED
  BY <1>3, <1>4, <1>5, <1>6, <1>7, <1>8, <1>9 DEF Next

(* Whatever is submitted again, cancelled too late or replayed, an order is*)
(* filled at most once for every time it was accepted.                     *)
THEOREM FillsOnce == Spec => []FilledOnce
<1>1. PaperInv /\ OnceInv => FilledOnce
  <2> SUFFICES ASSUME PaperInv, OnceInv, NEW o \in Orders
               PROVE  Cardinality(FillsFor(o)) <= Cardinality(AcceptedAs(o))
    BY DEF FilledOnce, FillsFor
  <2>1. Cardinality(FillsFor(o)) \in Nat /\ Cardinality(AcceptedAs(o)) \in Nat
    BY AcceptedCounted, FS_CardinalityType DEF OnceInv, PaperInv
  <2>2. /\ Chances(o) \in 0..2
        /\ Cardinality(FillsFor(o)) + Chances(o) <= Cardinality(AcceptedAs(o))
    BY ChancesCounted DEF OnceInv
  <2> QED
    BY <2>1, <2>2
<1> QED
  BY <1>1, InitPaper, NextPaper, InitOnce, NextOnce, PTL DEF Spec


(***************************************************************************)
(* Sums.  MapThenSumSet adds up a set in the order in which CHOOSE takes   *)
(* its elements; what the books need is that the order does not matter.    *)
(***************************************************************************)
Chosen(s) == CHOOSE x \in s : TRUE

Sums(w, set, sum) ==
    sum = [s \in SUBSET set |-> IF s = {} THEN 0 ELSE w[Chosen(s)] + sum[s \ {Chosen(s)}]]

Total(w, set) == (CHOOSE sum : Sums(w, set, sum))[set]

LEMMA SmallestSet ==
  ASSUME NEW D, IsFiniteSet(D), NEW T, T \subseteq SUBSET D, T # {}
  PROVE  \E s \in T : \A u \in T : u \subseteq s => u = s
<1>1. IsWellFoundedOn(StrictSubsetOrdering(D), FiniteSubsetsOf(D))
  BY FS_StrictSubsetOrderingWellFounded
<1>2. T \subseteq FiniteSubsetsOf(D)
  BY FS_FiniteSubsetsOfFinite
<1>3. PICK s \in T : \A u \in T : <<u, s>> \notin StrictSubsetOrdering(D)
  BY <1>1, <1>2, WFMin
<1>4. ASSUME NEW u \in T, u \subseteq s, u # s PROVE FALSE
  <2>1. <<u, s>> \in StrictSubsetOrdering(D)
    BY <1>4 DEF StrictSubsetOrdering
  <2> QED
    BY <1>3, <2>1
<1> QED
  BY <1>3, <1>4

LEMMA ChosenIn == ASSUME NEW s, s # {} PROVE Chosen(s) \in s
BY DEF Chosen

LEMMA SumOf ==
  ASSUME NEW w, NEW set, NEW sum, Sums(w, set, sum), NEW s \in SUBSET set
  PROVE  sum[s] = IF s = {} THEN 0 ELSE w[Chosen(s)] + sum[s \ {Chosen(s)}]
BY Zenon DEF Sums

LEMMA SumUnique ==
  ASSUME NEW w, NEW T, NEW U, IsFiniteSet(T), NEW f, NEW g, Sums(w, T, f), Sums(w, U, g),
         NEW s \in SUBSET T, s \in SUBSET U
  PROVE  f[s] = g[s]
<1> DEFINE bad == {u \in SUBSET T : u \in SUBSET U /\ f[u] # g[u]}
<1> SUFFICES ASSUME s \in bad PROVE FALSE
  OBVIOUS
<1>1. bad \subseteq SUBSET T /\ bad # {}
  OBVIOUS
<1>2. PICK u \in bad : \A v \in bad : v \subseteq u => v = u
  <2> HIDE DEF bad
  <2> QED
    BY <1>1, SmallestSet
<1>3. u \in SUBSET T /\ u \in SUBSET U /\ f[u] # g[u]
  BY <1>2
<1>4. /\ f[u] = IF u = {} THEN 0 ELSE w[Chosen(u)] + f[u \ {Chosen(u)}]
      /\ g[u] = IF u = {} THEN 0 ELSE w[Chosen(u)] + g[u \ {Chosen(u)}]
  BY <1>3, SumOf
<1>5. u # {}
  BY <1>3, <1>4
<1>6. u \ {Chosen(u)} \subseteq u /\ u \ {Chosen(u)} # u
  BY <1>5, ChosenIn
<1>7. u \ {Chosen(u)} \notin bad
  BY <1>2, <1>6
<1>8. f[u \ {Chosen(u)}] = g[u \ {Chosen(u)}]
  BY <1>3, <1>7
<1> QED
  BY <1>3, <1>4, <1>5, <1>8

LEMMA SumExists ==
  ASSUME NEW w, NEW D, IsFiniteSet(D)
  PROVE  \E sum : Sums(w, D, sum)
<1> DEFINE bad == {u \in SUBSET D : ~\E sum : Sums(w, u, sum)}
<1> SUFFICES ASSUME D \in bad PROVE FALSE
  OBVIOUS
<1>1. bad \subseteq SUBSET D /\ bad # {}
  OBVIOUS
<1>2. PICK T \in bad : \A v \in bad : v \subseteq T => v = T
  <2> HIDE DEF bad
  <2> QED
    BY <1>1, SmallestSet
<1>3. T \in SUBSET D /\ ~\E sum : Sums(w, T, sum)
  BY <1>2
<1> DEFINE least(u) == CHOOSE sum : Sums(w, u, sum)
<1>4. ASSUME NEW u \in SUBSET T, u # T PROVE Sums(w, u, least(u)) /\ IsFiniteSet(u)
  <2>1. u \notin bad /\ u \in SUBSET D
    BY <1>2, <1>3, <1>4
  <2>2. \E sum : Sums(w, u, sum)
    BY <2>1
  <2>3. IsFiniteSet(u)
    BY <2>1, FS_Subset
  <2> QED
    BY <2>2, <2>3
<1> HIDE DEF least, bad
<1> DEFINE value(s) == IF s = {} THEN 0
                       ELSE w[Chosen(s)] + least(s \ {Chosen(s)})[s \ {Chosen(s)}]
           sum == [s \in SUBSET T |-> value(s)]
<1>5. ASSUME NEW u \in SUBSET T, u # T PROVE least(u)[u] = value(u)
  <2>1. least(u)[u] = IF u = {} THEN 0 ELSE w[Chosen(u)] + least(u)[u \ {Chosen(u)}]
    BY <1>4, <1>5, SumOf
  <2>2. CASE u # {}
    <3> DEFINE v == u \ {Chosen(u)}
    <3>1. v \in SUBSET T /\ v # T /\ v \in SUBSET u
      BY <1>5, <2>2, ChosenIn
    <3>2. Sums(w, u, least(u)) /\ Sums(w, v, least(v)) /\ IsFiniteSet(u)
      BY <1>4, <1>5, <3>1
    <3> HIDE DEF v
    <3>3. least(u)[v] = least(v)[v]
      BY <3>1, <3>2, SumUnique
    <3> QED
      BY <2>1, <2>2, <3>3 DEF v
  <2> QED
    BY <2>1, <2>2
<1>6. ASSUME NEW s \in SUBSET T
      PROVE  value(s) = IF s = {} THEN 0 ELSE w[Chosen(s)] + sum[s \ {Chosen(s)}]
  <2>1. CASE s # {}
    <3> DEFINE u == s \ {Chosen(s)}
    <3>1. u \in SUBSET T /\ u # T
      BY <2>1, ChosenIn
    <3> HIDE DEF u, value
    <3>2. sum[u] = value(u) /\ value(u) = least(u)[u]
      BY <1>5, <3>1
    <3> QED
      BY <2>1, <3>2 DEF u, value
  <2> QED
    BY <2>1
<1>7. Sums(w, T, sum)
  <2> HIDE DEF value
  <2>1. sum = [s \in SUBSET T |-> IF s = {} THEN 0 ELSE w[Chosen(s)] + sum[s \ {Chosen(s)}]]
    BY <1>6
  <2> QED
    BY <2>1 DEF Sums
<1> QED
  BY <1>3, <1>7

(* The total of a set is that of the rest and the element taken first. *)
LEMMA TotalFirst ==
  ASSUME NEW w, NEW D, IsFiniteSet(D)
  PROVE  Total(w, D) = IF D = {} THEN 0 ELSE w[Chosen(D)] + Total(w, D \ {Chosen(D)})
<1> DEFINE sum(u) == CHOOSE f : Sums(w, u, f)
           rest == D \ {Chosen(D)}
<1>1. IsFiniteSet(rest) /\ rest \in SUBSET D
  BY FS_Subset
<1>2. Sums(w, D, sum(D)) /\ Sums(w, rest, sum(rest))
  <2>1. (\E f : Sums(w, D, f)) /\ (\E f : Sums(w, rest, f))
    BY <1>1, SumExists
  <2> QED
    BY <2>1
<1>3. Total(w, D) = sum(D)[D] /\ Total(w, rest) = sum(rest)[rest]
  BY DEF Total
<1> HIDE DEF sum
<1>4. sum(D)[D] = IF D = {} THEN 0 ELSE w[Chosen(D)] + sum(D)[rest]
  BY <1>2, SumOf
<1>5. sum(D)[rest] = sum(rest)[rest]
  <2> HIDE DEF rest
  <2> QED
    BY <1>1, <1>2, SumUnique
<1> QED
  BY <1>3, <1>4, <1>5

(* It depends on the weights of its elements only, and is a number. *)
LEMMA TotalAgrees ==
  ASSUME NEW w, NEW v, NEW D, IsFiniteSet(D), \A x \in D : w[x] = v[x] /\ w[x] \in Int
  PROVE  Total(w, D) = Total(v, D) /\ Total(w, D) \in Int
<1> DEFINE Good(u) == Total(w, u) = Total(v, u) /\ Total(w, u) \in Int
           bad == {u \in SUBSET D : ~Good(u)}
<1> SUFFICES ASSUME D \in bad PROVE FALSE
  OBVIOUS
<1>1. bad \subseteq SUBSET D /\ bad # {}
  OBVIOUS
<1>2. PICK u \in bad : \A t \in bad : t \subseteq u => t = u
  <2> HIDE DEF bad
  <2> QED
    BY <1>1, SmallestSet
<1>3. u \in SUBSET D /\ IsFiniteSet(u) /\ ~Good(u)
  BY <1>2, FS_Subset
<1> DEFINE rest == u \ {Chosen(u)}
<1>4. /\ Total(w, u) = IF u = {} THEN 0 ELSE w[Chosen(u)] + Total(w, rest)
      /\ Total(v, u) = IF u = {} THEN 0 ELSE v[Chosen(u)] + Total(v, rest)
  BY <1>3, TotalFirst
<1>5. u # {}
  BY <1>3, <1>4
<1>6. rest \subseteq u /\ rest # u /\ Chosen(u) \in D
  BY <1>3, <1>5, ChosenIn
<1>7. Good(rest)
  BY <1>2, <1>3, <1>6
<1> HIDE DEF rest
<1> QED
  BY <1>3, <1>4, <1>5, <1>6, <1>7

(* Any element can be taken first. *)
LEMMA TotalAdds ==
  ASSUME NEW w, NEW D, IsFiniteSet(D), \A x \in D : w[x] \in Int, NEW y \in D
  PROVE  Total(w, D) = w[y] + Total(w, D \ {y})
<1> DEFINE Good(u) == \A x \in u : Total(w, u) = w[x] + Total(w, u \ {x})
           bad == {u \in SUBSET D : ~Good(u)}
<1> SUFFICES ASSUME D \in bad PROVE FALSE
  OBVIOUS
<1>1. bad \subseteq SUBSET D /\ bad # {}
  OBVIOUS
<1>2. PICK u \in bad : \A t \in bad : t \subseteq u => t = u
  <2> HIDE DEF bad
  <2> QED
    BY <1>1, SmallestSet
<1>3. u \in SUBSET D /\ IsFiniteSet(u) /\ ~Good(u)
  BY <1>2, FS_Subset
<1>4. PICK x \in u : Total(w, u) # w[x] + Total(w, u \ {x})
  BY <1>3
<1> DEFINE c == Chosen(u)
           both == (u \ {c}) \ {x}
<1>5. c \in u /\ Total(w, u) = w[c] + Total(w, u \ {c})
  <2>1. u # {}
    OBVIOUS
  <2> QED
    BY <1>3, <2>1, TotalFirst, ChosenIn
<1> HIDE DEF c
<1>6. c # x
  BY <1>4, <1>5
<1>7. Good(u \ {c}) /\ Good(u \ {x})
  <2>1. u \ {c} \notin bad /\ u \ {x} \notin bad
    BY <1>2, <1>4, <1>5
  <2> QED
    BY <1>3, <2>1
<1>8. (u \ {x}) \ {c} = both /\ x \in u \ {c} /\ c \in u \ {x}
  BY <1>5, <1>6
<1>9. Total(w, u \ {c}) = w[x] + Total(w, both) /\ Total(w, u \ {x}) = w[c] + Total(w, both)
  BY <1>7, <1>8
<1>10. Total(w, both) \in Int /\ w[x] \in Int /\ w[c] \in Int
  <2>1. both \in SUBSET D /\ IsFiniteSet(both)
    BY <1>3, FS_Subset
  <2>2. \A z \in both : w[z] = w[z] /\ w[z] \in Int
    BY <2>1
  <2> HIDE DEF both
  <2>3. Total(w, both) \in Int
    BY <2>1, <2>2, TotalAgrees
  <2> QED
    BY <1>3, <1>5, <2>3
<1> QED
  BY <1>4, <1>5, <1>9, <1>10


(* The sums the books are compared with. *)
Flows == [id \in FillIds |-> CashFlow(id[1], fills[id])]
Moves == [id \in FillIds |-> -Signed(id[1], fills[id].quantity)]

LEMMA FlowsTotal ==
  ASSUME NEW set, IsFiniteSet(set), set \subseteq FillIds
  PROVE  MapThenSumSet(LAMBDA id : CashFlow(id[1], fills[id]), set) = Total(Flows, set)
<1> DEFINE Iterates(f) ==
             f = [s \in SUBSET set |->
                    IF s = {} THEN 0
                    ELSE CashFlow(Chosen(s)[1], fills[Chosen(s)]) + f[s \ {Chosen(s)}]]
<1>1. MapThenSumSet(LAMBDA id : CashFlow(id[1], fills[id]), set) =
        (CHOOSE f : Iterates(f))[set]
  BY DEF MapThenSumSet, MapThenFoldSet, Chosen
<1>2. ASSUME NEW f PROVE Iterates(f) <=> Sums(Flows, set, f)
  <2>1. \A s \in SUBSET set : s # {} =>
           CashFlow(Chosen(s)[1], fills[Chosen(s)]) = Flows[Chosen(s)]
    <3> TAKE s \in SUBSET set
    <3> HAVE s # {}
    <3>1. Chosen(s) \in FillIds
      BY ChosenIn
    <3> QED
      BY <3>1 DEF Flows
  <2>2. [s \in SUBSET set |->
                    IF s = {} THEN 0
                    ELSE CashFlow(Chosen(s)[1], fills[Chosen(s)]) + f[s \ {Chosen(s)}]]
        = [s \in SUBSET set |-> IF s = {} THEN 0 ELSE Flows[Chosen(s)] + f[s \ {Chosen(s)}]]
    BY <2>1
  <2> QED
    BY <2>2, Zenon DEF Sums
<1> HIDE DEF Iterates
<1>3. PICK g : Sums(Flows, set, g)
  BY SumExists
<1>4. Iterates(CHOOSE f : Iterates(f))
  BY <1>2, <1>3
<1>5. Sums(Flows, set, CHOOSE f : Sums(Flows, set, f))
  BY <1>3
<1> DEFINE a == CHOOSE f : Iterates(f)
           b == CHOOSE f : Sums(Flows, set, f)
<1>6. Sums(Flows, set, a) /\ Sums(Flows, set, b)
  BY <1>2, <1>4, <1>5
<1> HIDE DEF a, b
<1>7. a[set] = b[set]
  BY <1>6, SumUnique
<1> QED
  BY <1>1, <1>7 DEF a, b, Total


LEMMA MovesTotal ==
  ASSUME NEW set, IsFiniteSet(set), set \subseteq FillIds
  PROVE  MapThenSumSet(LAMBDA id : -Signed(id[1], fills[id].quantity), set) = Total(Moves, set)
<1> DEFINE Iterates(f) ==
             f = [s \in SUBSET set |->
                    IF s = {} THEN 0
                    ELSE -Signed(Chosen(s)[1], fills[Chosen(s)].quantity) + f[s \ {Chosen(s)}]]
<1>1. MapThenSumSet(LAMBDA id : -Signed(id[1], fills[id].quantity), set) =
        (CHOOSE f : Iterates(f))[set]
  BY DEF MapThenSumSet, MapThenFoldSet, Chosen
<1>2. ASSUME NEW f PROVE Iterates(f) <=> Sums(Moves, set, f)
  <2>1. \A s \in SUBSET set : s # {} =>
           -Signed(Chosen(s)[1], fills[Chosen(s)].quantity) = Moves[Chosen(s)]
    <3> TAKE s \in SUBSET set
    <3> HAVE s # {}
    <3>1. Chosen(s) \in FillIds
      BY ChosenIn
    <3> QED
      BY <3>1 DEF Moves
  <2>2. [s \in SUBSET set |->
                    IF s = {} THEN 0
                    ELSE -Signed(Chosen(s)[1], fills[Chosen(s)].quantity) + f[s \ {Chosen(s)}]]
        = [s \in SUBSET set |-> IF s = {} THEN 0 ELSE Moves[Chosen(s)] + f[s \ {Chosen(s)}]]
    BY <2>1
  <2> QED
    BY <2>2, Zenon DEF Sums
<1> HIDE DEF Iterates
<1>3. PICK g : Sums(Moves, set, g)
  BY SumExists
<1>4. Iterates(CHOOSE f : Iterates(f))
  BY <1>2, <1>3
<1>5. Sums(Moves, set, CHOOSE f : Sums(Moves, set, f))
  BY <1>3
<1> DEFINE a == CHOOSE f : Iterates(f)
           b == CHOOSE f : Sums(Moves, set, f)
<1>6. Sums(Moves, set, a) /\ Sums(Moves, set, b)
  BY <1>2, <1>4, <1>5
<1> HIDE DEF a, b
<1>7. a[set] = b[set]
  BY <1>6, SumUnique
<1> QED
  BY <1>1, <1>7 DEF a, b, Total


(***************************************************************************)
(* The books.  While a fill is on file and the account not yet changed,    *)
(* what it comes to is due; while the account is to be saved, what will be *)
(* written is what the account has, unless it was reset in between.        *)
(***************************************************************************)
Fill == [id: FillIds, quantity: Nat \ {0}, price: Int, charge: Int]
OnFile == feed.op \in {"file", "settle"}
InWork == feed.op \in {"book", "save"} \/ OnFile

CashDue(a) == IF OnFile /\ FillAccount = a THEN CashFlow(FillOrder, feed.fill) ELSE 0
PositionDue(a) ==
    IF OnFile /\ FillAccount = a THEN -Signed(FillOrder, feed.fill.quantity) ELSE 0

BooksTyped ==
    /\ fills \in [FillIds -> Fill \union {NoFill}]
    /\ \A id \in FillIds : fills[id] # NoFill => fills[id].id = id
    /\ processed = {id \in FillIds : fills[id] # NoFill}
    /\ cash \in [Accounts -> Int] /\ position \in [Accounts -> Int]
    /\ wasReset \subseteq Accounts
    /\ InWork => feed.fill \in Fill
    /\ feed.op = "save" \/ OnFile => fills[feed.fill.id] = feed.fill
    /\ feed.op = "save" => feed.balance \in Int

BooksInv ==
    /\ BooksTyped
    /\ \A a \in Accounts :
          /\ IsFiniteSet(FillsOf(a))
          /\ a \notin wasReset => cash[a] + CashDue(a) = Capital + Total(Flows, FillsOf(a))
          /\ position[a] + PositionDue(a) = Total(Moves, FillsOf(a))
    /\ feed.op = "save" /\ FillAccount \notin wasReset => feed.balance = cash[FillAccount]

LEMMA FlowTyped ==
  ASSUME NEW id \in FillIds, NEW fill \in Fill
  PROVE  /\ id[1] \in Orders /\ Ticket[id[1]].account \in Accounts
         /\ CashFlow(id[1], fill) \in Int /\ -Signed(id[1], fill.quantity) \in Int
<1>1. id[1] \in Orders
  BY DEF FillIds
<1>2. fill.quantity \in Nat /\ fill.price \in Int /\ fill.charge \in Int
  BY DEF Fill
<1>3. fill.quantity * fill.price \in Int
  BY <1>2
<1> QED
  BY <1>1, <1>2, <1>3, TicketAssumption DEF CashFlow, Signed

LEMMA WorkTyped ==
  ASSUME BooksTyped, InWork
  PROVE  /\ feed.fill \in Fill /\ feed.fill.id \in FillIds /\ FillOrder \in Orders
         /\ FillAccount \in Accounts /\ feed.fill # NoFill
         /\ CashFlow(FillOrder, feed.fill) \in Int
         /\ -Signed(FillOrder, feed.fill.quantity) \in Int
<1>1. feed.fill \in Fill
  BY DEF BooksTyped
<1>2. feed.fill.id \in FillIds /\ feed.fill.quantity # 0
  BY <1>1 DEF Fill
<1>3. feed.fill # NoFill
  BY <1>2 DEF NoFill
<1> QED
  BY <1>1, <1>2, <1>3, FlowTyped DEF FillOrder, FillAccount

(* Neither the fills nor the accounts change, and nothing is due. *)
LEMMA BooksStay ==
  ASSUME BooksInv, UNCHANGED <<fills, cash, position, wasReset>>, BooksTyped',
         feed.op # "save" /\ ~OnFile, feed'.op # "save" /\ ~OnFile'
  PROVE  BooksInv'
<1>1. \A a : /\ CashDue(a) = 0 /\ CashDue(a)' = 0 /\ PositionDue(a) = 0 /\ PositionDue(a)' = 0
             /\ FillsOf(a)' = FillsOf(a)
  BY DEF CashDue, PositionDue, OnFile, FillsOf
<1>2. Flows' = Flows /\ Moves' = Moves
  BY DEF Flows, Moves
<1> QED
  BY <1>1, <1>2 DEF BooksInv


LEMMA BooksUndisturbed ==
  ASSUME BooksInv, UNCHANGED <<fills, cash, position, wasReset, feed, processed>>
  PROVE  BooksInv'
<1>1. \A a : /\ CashDue(a)' = CashDue(a) /\ PositionDue(a)' = PositionDue(a)
             /\ FillsOf(a)' = FillsOf(a)
  BY DEF CashDue, PositionDue, OnFile, FillsOf, FillAccount, FillOrder
<1>2. Flows' = Flows /\ Moves' = Moves
  BY DEF Flows, Moves
<1>3. BooksTyped'
  BY DEF BooksInv, BooksTyped, InWork, OnFile
<1> QED
  BY <1>1, <1>2, <1>3 DEF BooksInv, FillAccount, FillOrder

LEMMA ExecPriceTyped ==
  ASSUME NEW o \in Orders, NEW t \in Ticks
  PROVE  ExecPrice(o, t) \in Int
<1>1. t.price \in Int /\ Ticket[o].price \in Int
  BY TicketAssumption, PriceAssumption
<1>2. ASSUME NEW x \in Int, NEW y \in Int PROVE Min({x, y}) \in Int /\ Max({x, y}) \in Int
  <2>1. \E z \in {x, y} : \A u \in {x, y} : z <= u
    OBVIOUS
  <2>2. \E z \in {x, y} : \A u \in {x, y} : z >= u
    OBVIOUS
  <2>3. Min({x, y}) \in {x, y}
    BY <2>1 DEF Min
  <2>4. Max({x, y}) \in {x, y}
    BY <2>2 DEF Max
  <2> QED
    BY <2>3, <2>4
<1>3. Min({t.price, Ticket[o].price}) \in Int /\ Max({t.price, Ticket[o].price}) \in Int
  BY <1>1, <1>2
<1> QED
  BY <1>1, <1>3 DEF ExecPrice

(* The feed moves on without a fill, or comes to one. *)
LEMMA BooksFeeds ==
  ASSUME PaperInv, ListInv, BooksInv,
         \/ \E t \in Ticks : BeginUpdate(t)
         \/ \E a \in Accounts : ListAccount(a)
         \/ \E i \in Objects : MatchNext(i)
         \/ EndUpdate
         \/ Book /\ Duplicate
  PROVE  BooksInv'
<1>1. /\ UNCHANGED <<fills, processed, cash, position, wasReset>>
      /\ feed.op # "save" /\ ~OnFile
  <2>1. (\E t \in Ticks : BeginUpdate(t)) =>
            /\ UNCHANGED <<fills, processed, cash, position, wasReset>>
            /\ feed.op # "save" /\ ~OnFile
    BY DEF BeginUpdate, Idle, books, OnFile
  <2>2. (\E a \in Accounts : ListAccount(a)) =>
            /\ UNCHANGED <<fills, processed, cash, position, wasReset>>
            /\ feed.op # "save" /\ ~OnFile
    BY DEF ListAccount, books, OnFile
  <2>3. (\E i \in Objects : MatchNext(i)) =>
            /\ UNCHANGED <<fills, processed, cash, position, wasReset>>
            /\ feed.op # "save" /\ ~OnFile
    BY DEF MatchNext, books, OnFile
  <2>4. EndUpdate \/ (Book /\ Duplicate) =>
            /\ UNCHANGED <<fills, processed, cash, position, wasReset>>
            /\ feed.op # "save" /\ ~OnFile
    BY DEF EndUpdate, Book, books, OnFile
  <2> QED
    BY <2>1, <2>2, <2>3, <2>4
<1>2. feed.op # "idle" => feed \in FeedShape /\ feed.tick \in Ticks
  BY PendingTyped DEF ListInv
<1>3. feed'.op \in {"idle", "match"} \/ (feed'.op = "book" /\ feed'.fill \in Fill)
  <2>1. CASE \E t \in Ticks : BeginUpdate(t)
    BY <2>1 DEF BeginUpdate
  <2>2. CASE \E a \in Accounts : ListAccount(a)
    <3>1. feed.op = "match" /\ feed'.op = feed.op
      BY <1>2, <2>2 DEF ListAccount, FeedShape
    <3> QED
      BY <3>1
  <2>3. ASSUME NEW i \in Objects, MatchNext(i)
        PROVE  feed'.op \in {"idle", "match"} \/ (feed'.op = "book" /\ feed'.fill \in Fill)
    <3>1. feed.op = "match" /\ feed \in FeedShape /\ feed.tick \in Ticks
      BY <1>2, <2>3 DEF MatchNext
    <3>2. CASE ~Matches(i, feed.tick)
      <4>1. feed' = [feed EXCEPT !.pending = feed.pending \ {i}]
        BY <2>3, <3>2 DEF MatchNext
      <4> QED
        BY <3>1, <4>1 DEF FeedShape
    <3>3. CASE Matches(i, feed.tick)
      <4> DEFINE fill == FillOf(i, feed.tick)
                 o == objects[i].order
      <4>1. feed' = [feed EXCEPT !.pending = feed.pending \ {i}, !.op = "book", !.fill = fill]
        BY <2>3, <3>3 DEF MatchNext
      <4>2. objects[i] \in Object
        BY DEF PaperInv, ObjectsInv, Objects
      <4>3. o \in Orders /\ objects[i].filled \in Nat /\ Ticket[o].quantity > objects[i].filled
        BY <3>3, <4>2 DEF Object, Matches
      <4>4. /\ <<o, feed.tick.stamp>> \in FillIds
            /\ Ticket[o].quantity - objects[i].filled \in Nat \ {0}
            /\ ExecPrice(o, feed.tick) \in Int /\ Charge \in Int
        BY <3>1, <4>3, ExecPriceTyped, TicketAssumption, PriceAssumption DEF FillIds
      <4>5. fill \in Fill
        BY <4>4 DEF FillOf, Fill
      <4> HIDE DEF fill
      <4>6. feed'.op = "book" /\ feed'.fill = fill
        BY <3>1, <4>1 DEF FeedShape
      <4> QED
        BY <4>5, <4>6
    <3> QED
      BY <3>2, <3>3
  <2>4. CASE EndUpdate
    BY <2>4 DEF EndUpdate, Idle
  <2>5. CASE Book /\ Duplicate
    <3>1. feed.op = "book" /\ feed' = [feed EXCEPT !.op = "match", !.fill = NoFill]
      BY <2>5 DEF Book
    <3> QED
      BY <1>2, <3>1 DEF FeedShape
  <2> QED
    BY <2>1, <2>2, <2>3, <2>4, <2>5
<1>4. BooksTyped'
  BY <1>1, <1>3 DEF BooksInv, BooksTyped, InWork, OnFile
<1> QED
  BY <1>1, <1>3, <1>4, BooksStay DEF OnFile

(* A fill goes on file: what it comes to is due. *)
LEMMA BooksBook ==
  ASSUME PaperInv, BooksInv, Book, ~Duplicate
  PROVE  BooksInv'
<1> DEFINE id == feed.fill.id
           fill == feed.fill
<1>1. /\ feed.op = "book" /\ feed' = [feed EXCEPT !.op = "file", !.object = current[FillOrder]]
      /\ processed' = processed \union {id} /\ id \notin processed
      /\ fills' = [fills EXCEPT ![id] = fill]
      /\ UNCHANGED <<cash, position, wasReset>>
  BY DEF Book, Duplicate
<1>2. BooksTyped /\ InWork /\ feed \in FeedShape
  BY <1>1, PendingTyped DEF BooksInv, InWork, OnFile
<1>3. /\ fill \in Fill /\ id \in FillIds /\ FillOrder \in Orders /\ id[1] = FillOrder
      /\ FillAccount \in Accounts /\ fill # NoFill
      /\ CashFlow(FillOrder, fill) \in Int /\ -Signed(FillOrder, fill.quantity) \in Int
  BY <1>2, WorkTyped DEF FillOrder
<1>4. feed'.op = "file" /\ feed'.fill = fill
  BY <1>1, <1>2 DEF FeedShape
<1> HIDE DEF fill, id
<1>5. FillOrder' = FillOrder /\ FillAccount' = FillAccount
  BY <1>4 DEF FillOrder, FillAccount, fill
<1>6. /\ fills[id] = NoFill /\ fills'[id] = fill
      /\ \A other \in FillIds \ {id} : fills'[other] = fills[other]
      /\ fills \in [FillIds -> Fill \union {NoFill}]
      /\ fills' \in [FillIds -> Fill \union {NoFill}]
  BY <1>1, <1>2, <1>3 DEF BooksTyped
<1>7. processed' = {other \in FillIds : fills'[other] # NoFill}
  BY <1>1, <1>2, <1>3, <1>6 DEF BooksTyped
<1>8. BooksTyped'
  <2>1. \A other \in FillIds : fills'[other] # NoFill => fills'[other].id = other
    BY <1>2, <1>6 DEF BooksTyped, id, fill
  <2>2. fills'[feed'.fill.id] = feed'.fill
    BY <1>4, <1>6 DEF id, fill
  <2> QED
    BY <1>1, <1>2, <1>3, <1>4, <1>6, <1>7, <2>1, <2>2 DEF BooksTyped, InWork, OnFile
<1>9. ASSUME NEW a \in Accounts
      PROVE  /\ IsFiniteSet(FillsOf(a)')
             /\ a \notin wasReset' =>
                   cash'[a] + CashDue(a)' = Capital + Total(Flows', FillsOf(a)')
             /\ position'[a] + PositionDue(a)' = Total(Moves', FillsOf(a)')
  <2>1. CashDue(a) = 0 /\ PositionDue(a) = 0
    BY <1>1 DEF CashDue, PositionDue, OnFile
  <2>2. /\ IsFiniteSet(FillsOf(a))
        /\ a \notin wasReset => cash[a] = Capital + Total(Flows, FillsOf(a))
        /\ position[a] = Total(Moves, FillsOf(a))
        /\ cash[a] \in Int /\ position[a] \in Int
    BY <2>1 DEF BooksInv, BooksTyped
  <2>3. \A x \in FillsOf(a) : /\ x \in FillIds \ {id} /\ fills[x] \in Fill
                              /\ fills'[x] = fills[x]
    BY <1>6 DEF FillsOf
  <2>4. /\ \A x \in FillsOf(a) : Flows[x] = Flows'[x] /\ Flows[x] \in Int
        /\ \A x \in FillsOf(a) : Moves[x] = Moves'[x] /\ Moves[x] \in Int
    BY <2>3, FlowTyped DEF Flows, Moves
  <2>5. /\ Total(Flows, FillsOf(a)) = Total(Flows', FillsOf(a))
        /\ Total(Moves, FillsOf(a)) = Total(Moves', FillsOf(a))
        /\ Total(Flows, FillsOf(a)) \in Int /\ Total(Moves, FillsOf(a)) \in Int
    BY <2>2, <2>4, TotalAgrees
  <2>6. CASE a = FillAccount
    <3>1. FillsOf(a)' = FillsOf(a) \union {id} /\ id \notin FillsOf(a)
      BY <1>3, <1>6, <2>6 DEF FillsOf, FillAccount
    <3>2. IsFiniteSet(FillsOf(a)') /\ FillsOf(a)' \ {id} = FillsOf(a) /\ id \in FillsOf(a)'
      BY <2>2, <3>1, FS_AddElement
    <3>3. Flows'[id] = CashFlow(FillOrder, fill) /\ Moves'[id] = -Signed(FillOrder, fill.quantity)
      BY <1>3, <1>6 DEF Flows, Moves
    <3>4. /\ \A x \in FillsOf(a)' : Flows'[x] \in Int /\ Moves'[x] \in Int
      BY <1>3, <2>4, <3>1, <3>3
    <3> DEFINE flows == Flows'
               moves == Moves'
               set == FillsOf(a)'
    <3> HIDE DEF flows, moves, set
    <3>5. /\ Total(flows, set) = flows[id] + Total(flows, set \ {id})
          /\ Total(moves, set) = moves[id] + Total(moves, set \ {id})
      BY <3>2, <3>4, TotalAdds DEF flows, moves, set
    <3>6. CashDue(a)' = CashFlow(FillOrder, fill) /\ PositionDue(a)' = -Signed(FillOrder, fill.quantity)
      BY <1>4, <1>5, <2>6 DEF CashDue, PositionDue, OnFile, CashFlow, Signed, Buys
    <3>7. /\ Total(flows, set) = CashFlow(FillOrder, fill) + Total(Flows, FillsOf(a))
          /\ Total(moves, set) = -Signed(FillOrder, fill.quantity) + Total(Moves, FillsOf(a))
      BY <2>5, <3>2, <3>3, <3>5 DEF flows, moves, set
    <3>8. /\ a \notin wasReset =>
                cash[a] + CashFlow(FillOrder, fill) = Capital + Total(flows, set)
          /\ position[a] + (-Signed(FillOrder, fill.quantity)) = Total(moves, set)
      BY <1>3, <2>2, <2>5, <3>7, PriceAssumption
    <3> QED
      BY <1>1, <3>2, <3>6, <3>8 DEF flows, moves, set
  <2>7. CASE a # FillAccount
    <3>1. FillsOf(a)' = FillsOf(a)
      <4>1. Ticket[id[1]].account # a
        BY <1>3, <2>7 DEF FillAccount
      <4> QED
        BY <1>6, <4>1 DEF FillsOf
    <3>2. CashDue(a)' = 0 /\ PositionDue(a)' = 0
      BY <1>5, <2>7 DEF CashDue, PositionDue, OnFile
    <3> QED
      BY <1>1, <2>2, <2>5, <3>1, <3>2
  <2> QED
    BY <2>6, <2>7
<1> QED
  BY <1>4, <1>8, <1>9 DEF BooksInv


(* The order is saved; what its fill comes to stays due. *)
LEMMA BooksOrder ==
  ASSUME PaperInv, BooksInv, SaveOrder
  PROVE  BooksInv'
<1>1. /\ feed.op = "file" /\ UNCHANGED <<fills, processed, cash, position, wasReset>>
      /\ feed' = [feed EXCEPT !.op = "settle", !.object = 0]
  BY DEF SaveOrder, books
<1>2. feed \in FeedShape
  BY <1>1, PendingTyped
<1>3. feed'.op = "settle" /\ feed'.fill = feed.fill
  BY <1>1, <1>2 DEF FeedShape
<1>4. OnFile /\ OnFile' /\ FillOrder' = FillOrder /\ FillAccount' = FillAccount
  BY <1>1, <1>3 DEF OnFile, FillOrder, FillAccount
<1>5. \A a : /\ CashDue(a)' = CashDue(a) /\ PositionDue(a)' = PositionDue(a)
             /\ FillsOf(a)' = FillsOf(a)
  BY <1>1, <1>3, <1>4 DEF CashDue, PositionDue, FillsOf
<1>6. Flows' = Flows /\ Moves' = Moves
  BY <1>1 DEF Flows, Moves
<1>7. BooksTyped'
  BY <1>1, <1>3, <1>4 DEF BooksInv, BooksTyped, InWork
<1> QED
  BY <1>1, <1>3, <1>5, <1>6, <1>7 DEF BooksInv

(* The account is changed by what is due ... *)
LEMMA BooksSettle ==
  ASSUME PaperInv, BooksInv, Settle
  PROVE  BooksInv'
<1> DEFINE flow == CashFlow(FillOrder, feed.fill)
           moved == -Signed(FillOrder, feed.fill.quantity)
<1>1. /\ feed.op = "settle" /\ UNCHANGED <<fills, processed, wasReset>>
      /\ feed' = [feed EXCEPT !.op = "save", !.balance = cash[FillAccount] + flow]
      /\ cash' = [cash EXCEPT ![FillAccount] = cash[FillAccount] + flow]
      /\ position' = [position EXCEPT ![FillAccount] =
                         position[FillAccount] - Signed(FillOrder, feed.fill.quantity)]
  BY DEF Settle
<1>2. BooksTyped /\ InWork /\ feed \in FeedShape
  BY <1>1, PendingTyped DEF BooksInv, InWork, OnFile
<1>3. FillAccount \in Accounts /\ feed.fill \in Fill /\ flow \in Int /\ moved \in Int
  BY <1>2, WorkTyped
<1>4. /\ feed'.op = "save" /\ feed'.fill = feed.fill
      /\ feed'.balance = cash[FillAccount] + flow
  <2> HIDE DEF flow
  <2> QED
    BY <1>1, <1>2 DEF FeedShape
<1>5. FillAccount' = FillAccount
  BY <1>4 DEF FillOrder, FillAccount
<1>6. Signed(FillOrder, feed.fill.quantity) \in Int
  <2>1. feed.fill.quantity \in Int
    BY <1>3 DEF Fill
  <2> QED
    BY <2>1 DEF Signed
<1>7. position[FillAccount] - Signed(FillOrder, feed.fill.quantity) = position[FillAccount] + moved
  BY <1>2, <1>3, <1>6 DEF BooksTyped
<1>8. \A a \in Accounts : /\ CashDue(a) = IF a = FillAccount THEN flow ELSE 0
                          /\ PositionDue(a) = IF a = FillAccount THEN moved ELSE 0
                          /\ CashDue(a)' = 0 /\ PositionDue(a)' = 0
  BY <1>1, <1>4 DEF CashDue, PositionDue, OnFile
<1> HIDE DEF flow, moved
<1>9. /\ cash \in [Accounts -> Int] /\ position \in [Accounts -> Int]
      /\ cash' \in [Accounts -> Int] /\ position' \in [Accounts -> Int]
      /\ cash'[FillAccount] = cash[FillAccount] + flow
      /\ position'[FillAccount] = position[FillAccount] + moved
      /\ \A a \in Accounts \ {FillAccount} : cash'[a] = cash[a] /\ position'[a] = position[a]
  BY <1>1, <1>2, <1>3, <1>7 DEF BooksTyped
<1>10. BooksTyped'
  BY <1>1, <1>2, <1>3, <1>4, <1>9 DEF BooksTyped, InWork, OnFile
<1>11. Flows' = Flows /\ Moves' = Moves /\ \A a : FillsOf(a)' = FillsOf(a)
  BY <1>1 DEF Flows, Moves, FillsOf
<1>12. ASSUME NEW a \in Accounts
       PROVE  /\ IsFiniteSet(FillsOf(a)')
              /\ a \notin wasReset' =>
                    cash'[a] + CashDue(a)' = Capital + Total(Flows', FillsOf(a)')
              /\ position'[a] + PositionDue(a)' = Total(Moves', FillsOf(a)')
  <2>1. /\ IsFiniteSet(FillsOf(a))
        /\ a \notin wasReset => cash[a] + CashDue(a) = Capital + Total(Flows, FillsOf(a))
        /\ position[a] + PositionDue(a) = Total(Moves, FillsOf(a))
    BY DEF BooksInv
  <2>2. cash'[a] + CashDue(a)' = cash[a] + CashDue(a)
    BY <1>3, <1>8, <1>9
  <2>3. position'[a] + PositionDue(a)' = position[a] + PositionDue(a)
    BY <1>3, <1>8, <1>9
  <2> QED
    BY <1>1, <1>11, <2>1, <2>2, <2>3
<1>13. feed'.balance = cash'[FillAccount']
  BY <1>4, <1>5, <1>9
<1> QED
  BY <1>10, <1>12, <1>13 DEF BooksInv

(* ... and saved as it was changed. *)
LEMMA BooksSave ==
  ASSUME PaperInv, BooksInv, SaveAccount
  PROVE  BooksInv'
<1>1. /\ feed.op = "save" /\ UNCHANGED <<fills, processed, position, wasReset>>
      /\ feed' = [feed EXCEPT !.op = "match", !.fill = NoFill, !.balance = 0]
      /\ cash' = [cash EXCEPT ![FillAccount] = feed.balance]
  BY DEF SaveAccount
<1>2. BooksTyped /\ InWork /\ feed \in FeedShape /\ feed.balance \in Int
  BY <1>1, PendingTyped DEF BooksInv, InWork, OnFile, BooksTyped
<1>3. FillAccount \in Accounts
  BY <1>2, WorkTyped
<1>4. feed'.op = "match"
  BY <1>1, <1>2 DEF FeedShape
<1>5. /\ cash \in [Accounts -> Int] /\ cash' \in [Accounts -> Int]
      /\ cash'[FillAccount] = feed.balance
      /\ \A a \in Accounts \ {FillAccount} : cash'[a] = cash[a]
  BY <1>1, <1>2, <1>3 DEF BooksTyped
<1>6. \A a \in Accounts \ wasReset : cash'[a] = cash[a]
  BY <1>1, <1>5 DEF BooksInv
<1>7. BooksTyped'
  BY <1>1, <1>2, <1>4, <1>5 DEF BooksTyped, InWork, OnFile
<1>8. Flows' = Flows /\ Moves' = Moves /\ \A a : FillsOf(a)' = FillsOf(a)
  BY <1>1 DEF Flows, Moves, FillsOf
<1>9. \A a : CashDue(a) = 0 /\ CashDue(a)' = 0 /\ PositionDue(a) = 0 /\ PositionDue(a)' = 0
  BY <1>1, <1>4 DEF CashDue, PositionDue, OnFile
<1>10. ASSUME NEW a \in Accounts
       PROVE  /\ IsFiniteSet(FillsOf(a)')
              /\ a \notin wasReset' =>
                    cash'[a] + CashDue(a)' = Capital + Total(Flows', FillsOf(a)')
              /\ position'[a] + PositionDue(a)' = Total(Moves', FillsOf(a)')
  <2>1. /\ IsFiniteSet(FillsOf(a))
        /\ a \notin wasReset => cash[a] + CashDue(a) = Capital + Total(Flows, FillsOf(a))
        /\ position[a] + PositionDue(a) = Total(Moves, FillsOf(a))
    BY DEF BooksInv
  <2> QED
    BY <1>1, <1>6, <1>8, <1>9, <2>1
<1> QED
  BY <1>4, <1>7, <1>10 DEF BooksInv

(* A reset gives up the cash of its account, and nothing else. *)
LEMMA BooksReset ==
  ASSUME BooksInv, NEW a \in Accounts, ResetAccount(a)
  PROVE  BooksInv'
<1>1. /\ UNCHANGED <<fills, processed, position, feed>>
      /\ cash' = [cash EXCEPT ![a] = Capital] /\ wasReset' = wasReset \union {a}
  BY DEF ResetAccount
<1>2. BooksTyped /\ cash \in [Accounts -> Int]
  BY DEF BooksInv, BooksTyped
<1>3. /\ cash' \in [Accounts -> Int]
      /\ \A b \in Accounts \ wasReset' : cash'[b] = cash[b] /\ b \notin wasReset
  BY <1>1, <1>2, PriceAssumption
<1>4. BooksTyped'
  BY <1>1, <1>2, <1>3 DEF BooksTyped, InWork, OnFile
<1>5. Flows' = Flows /\ Moves' = Moves /\ \A b : FillsOf(b)' = FillsOf(b)
  BY <1>1 DEF Flows, Moves, FillsOf
<1>6. /\ \A b : CashDue(b)' = CashDue(b) /\ PositionDue(b)' = PositionDue(b)
      /\ FillAccount' = FillAccount
  BY <1>1 DEF CashDue, PositionDue, OnFile, FillAccount, FillOrder
<1>7. ASSUME NEW b \in Accounts
      PROVE  /\ IsFiniteSet(FillsOf(b)')
             /\ b \notin wasReset' =>
                   cash'[b] + CashDue(b)' = Capital + Total(Flows', FillsOf(b)')
             /\ position'[b] + PositionDue(b)' = Total(Moves', FillsOf(b)')
  <2>1. /\ IsFiniteSet(FillsOf(b))
        /\ b \notin wasReset => cash[b] + CashDue(b) = Capital + Total(Flows, FillsOf(b))
        /\ position[b] + PositionDue(b) = Total(Moves, FillsOf(b))
    BY DEF BooksInv
  <2> QED
    BY <1>1, <1>3, <1>5, <1>6, <2>1
<1>8. feed'.op = "save" /\ FillAccount' \notin wasReset' => feed'.balance = cash'[FillAccount']
  <2> SUFFICES ASSUME feed.op = "save", FillAccount \notin wasReset'
               PROVE  feed.balance = cash'[FillAccount]
    BY <1>1, <1>6
  <2>1. FillAccount \in Accounts
    BY <1>2, WorkTyped DEF InWork
  <2>2. feed.balance = cash[FillAccount]
    BY <1>1 DEF BooksInv
  <2> QED
    BY <1>3, <2>1, <2>2
<1> QED
  BY <1>4, <1>7, <1>8 DEF BooksInv

LEMMA InitBooks == Init => BooksInv
<1> SUFFICES ASSUME Init PROVE BooksInv
  OBVIOUS
<1>1. feed.op = "idle" /\ \A id \in FillIds : fills[id] = NoFill
  BY DEF Init, Idle
<1>2. BooksTyped
  BY <1>1, PriceAssumption DEF Init, BooksTyped, InWork, OnFile
<1>3. ASSUME NEW a \in Accounts
      PROVE  /\ IsFiniteSet(FillsOf(a))
             /\ a \notin wasReset => cash[a] + CashDue(a) = Capital + Total(Flows, FillsOf(a))
             /\ position[a] + PositionDue(a) = Total(Moves, FillsOf(a))
  <2>1. FillsOf(a) = {}
    BY <1>1 DEF FillsOf
  <2>2. IsFiniteSet(FillsOf(a))
    BY <2>1, FS_EmptySet
  <2>3. Total(Flows, FillsOf(a)) = 0 /\ Total(Moves, FillsOf(a)) = 0
    BY <2>1, <2>2, TotalFirst
  <2>4. CashDue(a) = 0 /\ PositionDue(a) = 0 /\ cash[a] = Capital /\ position[a] = 0
    BY <1>1 DEF Init, CashDue, PositionDue, OnFile
  <2> QED
    BY <2>2, <2>3, <2>4, PriceAssumption
<1> QED
  BY <1>1, <1>2, <1>3 DEF BooksInv

LEMMA NextBooks == PaperInv /\ ListInv /\ BooksInv /\ [Next]_vars => BooksInv'
<1> SUFFICES ASSUME PaperInv, ListInv, BooksInv, [Next]_vars PROVE BooksInv'
  OBVIOUS
<1>1. CASE UNCHANGED vars
  BY <1>1, BooksUndisturbed DEF vars, books
<1>2. ASSUME NEW c \in Clients, OrderStep(c) PROVE BooksInv'
  <2>1. UNCHANGED <<fills, cash, position, wasReset, feed, processed>>
    BY <1>2 DEF OrderStep, BeginSubmit, BeginCancel, EndSubmit, EndCancel, books
  <2> QED
    BY <2>1, BooksUndisturbed
<1>3. ASSUME NEW c \in Clients, DeploymentStep(c) PROVE BooksInv'
  <2>1. UNCHANGED <<fills, cash, position, wasReset, feed, processed>>
    BY <1>3 DEF DeploymentStep, BeginShift, BeginStop, StopFinds, EndShift, StopCancels, EndStop,
                books
  <2> QED
    BY <2>1, BooksUndisturbed
<1>4. CASE FeedStep
  <2>1. CASE Book /\ ~Duplicate
    BY <2>1, BooksBook
  <2>2. CASE Settle
    BY <2>2, BooksSettle
  <2>3. CASE SaveAccount
    BY <2>3, BooksSave
  <2>4. CASE SaveOrder
    BY <2>4, BooksOrder
  <2>5. CASE ~(\/ Book /\ ~Duplicate
               \/ SaveOrder \/ Settle \/ SaveAccount)
    BY <1>4, <2>5, BooksFeeds DEF FeedStep, Objects
  <2> QED
    BY <2>1, <2>2, <2>3, <2>4, <2>5
<1>5. CASE Recover
  <2>1. processed' = processed
    BY <1>5 DEF Recover, BooksInv, BooksTyped
  <2> QED
    BY <1>5, <2>1, BooksUndisturbed DEF Recover
<1>6. ASSUME NEW a \in Accounts, ResetAccount(a) PROVE BooksInv'
  BY <1>6, BooksReset
<1>7. ASSUME NEW d \in Deployments, Deploy(d) PROVE BooksInv'
  BY <1>7, BooksUndisturbed DEF Deploy, books
<1> QED
  BY <1>1, <1>2, <1>3, <1>4, <1>5, <1>6, <1>7 DEF Next

(* Whatever is replayed, submitted again, cancelled or recovered, and in   *)
(* whatever order, cash and position of an account are at rest what the    *)
(* fills on file come to.                                                  *)
THEOREM BooksHold == Spec => []BooksBalance
<1>1. BooksInv => BooksBalance
  <2> SUFFICES ASSUME BooksInv, AtRest, NEW a \in Accounts
               PROVE  /\ a \notin wasReset =>
                            cash[a] = Capital + MapThenSumSet(
                               LAMBDA id : CashFlow(id[1], fills[id]), FillsOf(a))
                      /\ position[a] = MapThenSumSet(
                               LAMBDA id : -Signed(id[1], fills[id].quantity), FillsOf(a))
    BY DEF BooksBalance
  <2>1. /\ IsFiniteSet(FillsOf(a)) /\ cash[a] \in Int /\ position[a] \in Int
        /\ a \notin wasReset => cash[a] + CashDue(a) = Capital + Total(Flows, FillsOf(a))
        /\ position[a] + PositionDue(a) = Total(Moves, FillsOf(a))
    BY DEF BooksInv, BooksTyped
  <2>2. CashDue(a) = 0 /\ PositionDue(a) = 0
    BY DEF AtRest, CashDue, PositionDue, OnFile
  <2>3. FillsOf(a) \subseteq FillIds
    BY DEF FillsOf
  <2>4. MapThenSumSet(LAMBDA id : CashFlow(id[1], fills[id]), FillsOf(a))
          = Total(Flows, FillsOf(a))
    BY <2>1, <2>3, FlowsTotal
  <2>5. MapThenSumSet(LAMBDA id : -Signed(id[1], fills[id].quantity), FillsOf(a))
          = Total(Moves, FillsOf(a))
    BY <2>1, <2>3, MovesTotal
  <2>6. /\ a \notin wasReset => cash[a] = Capital + Total(Flows, FillsOf(a))
        /\ position[a] = Total(Moves, FillsOf(a))
    BY <2>1, <2>2
  <2> QED
    BY <2>4, <2>5, <2>6, Zenon
<1> QED
  BY <1>1, InitPaper, NextPaper, InitOnce, NextOnce, InitBooks, NextBooks, PTL DEF Spec


(***************************************************************************)
(* Types.  What bounds cut is that every submission under way has its      *)
(* object still to make.                                                   *)
(***************************************************************************)
Submitters == {c \in Clients : Busy(c, "submit")}
CountInv == Len(objects) + Cardinality(Submitters) <= MaxSubmissions

LEMMA SubmittersCounted ==
  IsFiniteSet(Submitters) /\ Cardinality(Submitters) \in Nat
BY ThreadsAssumption, FS_Subset, FS_CardinalityType DEF Submitters

LEMMA CountStays ==
  ASSUME PaperInv, CountInv, Len(objects') = Len(objects),
         \A c \in Clients : Busy(c, "submit")' => Busy(c, "submit")
  PROVE  CountInv'
<1>1. Submitters' \in SUBSET Submitters
  BY DEF Submitters
<1>2. /\ Cardinality(Submitters') <= Cardinality(Submitters)
      /\ Cardinality(Submitters') \in Nat /\ Cardinality(Submitters) \in Nat
  BY <1>1, SubmittersCounted, FS_Subset, FS_CardinalityType
<1>3. Len(objects) \in Nat
  BY DEF PaperInv, ObjectsInv
<1> QED
  BY <1>2, <1>3, ThreadsAssumption DEF CountInv

LEMMA CallMade ==
  ASSUME PaperInv, NEW c \in Clients, NEW call, Call(c, call)
  PROVE  client'[c] = call /\ \A e \in Clients \ {c} : client'[e] = client[e]
BY DEF PaperInv, CallsInv, Call

LEMMA CountSubmits ==
  ASSUME PaperInv, CountInv, NEW c \in Clients,
         (\E o \in Orders : BeginSubmit(c, o)) \/ EndSubmit(c)
  PROVE  CountInv'
<1>1. Len(objects) \in Nat /\ IsFiniteSet(Submitters) /\ Cardinality(Submitters) \in Nat
  BY SubmittersCounted DEF PaperInv, ObjectsInv
<1>2. ASSUME NEW o \in Orders, BeginSubmit(c, o) PROVE CountInv'
  <2>1. PICK status : Call(c, [op |-> "submit", order |-> o, status |-> status])
    BY <1>2 DEF BeginSubmit
  <2>2. /\ Busy(c, "idle") /\ objects' = objects
        /\ Len(objects) + Cardinality(Submitters) < MaxSubmissions
    BY <1>2 DEF BeginSubmit, Submitting, Submitters
  <2>3. client'[c].op = "submit" /\ \A e \in Clients \ {c} : client'[e] = client[e]
    BY <2>1, CallMade
  <2>4. Submitters' = Submitters \union {c} /\ c \notin Submitters
    BY <2>2, <2>3 DEF Submitters, Busy
  <2>5. Cardinality(Submitters') = Cardinality(Submitters) + 1
    BY <1>1, <2>4, FS_AddElement
  <2> QED
    BY <1>1, <2>2, <2>5, ThreadsAssumption DEF CountInv
<1>3. CASE EndSubmit(c)
  <2>1. Busy(c, "submit") /\ Call(c, Idle)
    BY <1>3 DEF EndSubmit
  <2>2. Len(objects') = Len(objects) + 1
    BY <1>3 DEF EndSubmit, PaperInv, ObjectsInv
  <2>3. client'[c].op = "idle" /\ \A e \in Clients \ {c} : client'[e] = client[e]
    BY <2>1, CallMade DEF Idle
  <2>4. Submitters' = Submitters \ {c} /\ c \in Submitters
    BY <2>1, <2>3 DEF Submitters, Busy
  <2>5. Cardinality(Submitters') = Cardinality(Submitters) - 1
    BY <1>1, <2>4, FS_RemoveElement
  <2> QED
    BY <1>1, <2>2, <2>5, ThreadsAssumption DEF CountInv
<1> QED
  BY <1>2, <1>3

LEMMA CancelledCount ==
  ASSUME PaperInv, NEW i \in Objects, Cancelled(i)
  PROVE  Len(objects') = Len(objects)
BY DEF PaperInv, ObjectsInv, Cancelled, Objects

(* A client begins or goes on with something else. *)
LEMMA OtherCalls ==
  ASSUME PaperInv, CountInv, NEW c \in Clients, NEW call, Call(c, call), call.op # "submit",
         Len(objects') = Len(objects)
  PROVE  CountInv'
<1>1. \A e \in Clients : Busy(e, "submit")' => Busy(e, "submit")
  BY CallMade DEF Busy
<1> QED
  BY <1>1, CountStays

LEMMA CountCalls ==
  ASSUME PaperInv, CountInv, NEW c \in Clients, OrderStep(c) \/ DeploymentStep(c)
  PROVE  CountInv'
<1>1. CASE (\E o \in Orders : BeginSubmit(c, o)) \/ EndSubmit(c)
  BY <1>1, CountSubmits
<1>2. ASSUME NEW o \in Orders, BeginCancel(c, o) PROVE CountInv'
  <2>1. Call(c, [op |-> "cancel", object |-> current[o]]) /\ objects' = objects
    BY <1>2 DEF BeginCancel
  <2> QED
    BY <2>1, OtherCalls
<1>3. CASE EndCancel(c)
  <2>1. Call(c, Idle) /\ client[c].object \in Objects /\ Cancelled(client[c].object)
    BY <1>3 DEF EndCancel, PaperInv, CallsInv
  <2> QED
    BY <2>1, CancelledCount, OtherCalls DEF Idle
<1>4. ASSUME NEW d \in Deployments, BeginShift(c, d) PROVE CountInv'
  <2>1. PICK to : Call(c, [op |-> "shift", deployment |-> d, to |-> to])
    BY <1>4 DEF BeginShift
  <2>2. objects' = objects
    BY <1>4 DEF BeginShift
  <2> QED
    BY <2>1, <2>2, OtherCalls
<1>5. ASSUME NEW d \in Deployments, BeginStop(c, d) PROVE CountInv'
  <2>1. PICK left, made : Call(c, [op |-> "stop", deployment |-> d, left |-> left,
                                   object |-> 0, made |-> made])
    BY <1>5 DEF BeginStop
  <2>2. objects' = objects
    BY <1>5 DEF BeginStop
  <2> QED
    BY <2>1, <2>2, OtherCalls
<1>6. ASSUME NEW o \in Orders, StopFinds(c, o) PROVE CountInv'
  <2>1. PICK object : Call(c, [client[c] EXCEPT !.left = client[c].left \ {o}, !.object = object])
    BY <1>6 DEF StopFinds
  <2>2. Busy(c, "stop") /\ objects' = objects
    BY <1>6 DEF StopFinds
  <2>3. client[c] \in StopCall
    BY <2>2, StopTyped DEF PaperInv
  <2>4. [client[c] EXCEPT !.left = client[c].left \ {o}, !.object = object].op = "stop"
    BY <2>3 DEF StopCall
  <2> QED
    BY <2>1, <2>2, <2>4, OtherCalls
<1>7. CASE EndShift(c) \/ EndStop(c)
  <2>1. Call(c, Idle) /\ objects' = objects
    BY <1>7 DEF EndShift, EndStop
  <2> QED
    BY <2>1, OtherCalls DEF Idle
<1>8. CASE StopCancels(c)
  <2>1. /\ Busy(c, "stop") /\ Call(c, [client[c] EXCEPT !.object = 0])
        /\ client[c].object # 0 /\ Cancelled(client[c].object)
    BY <1>8 DEF StopCancels
  <2>2. client[c].object \in Objects
    BY <2>1 DEF PaperInv, CallsInv, ObjectsInv, Objects
  <2>3. client[c] \in StopCall
    BY <2>1, StopTyped DEF PaperInv
  <2>4. [client[c] EXCEPT !.object = 0].op = "stop"
    BY <2>3 DEF StopCall
  <2> QED
    BY <2>1, <2>2, <2>4, CancelledCount, OtherCalls
<1> QED
  BY <1>1, <1>2, <1>3, <1>4, <1>5, <1>6, <1>7, <1>8 DEF OrderStep, DeploymentStep

LEMMA NextCount == PaperInv /\ CountInv /\ [Next]_vars => CountInv'
<1> SUFFICES ASSUME PaperInv, CountInv, [Next]_vars PROVE CountInv'
  OBVIOUS
<1>1. ASSUME Len(objects') = Len(objects), UNCHANGED client PROVE CountInv'
  BY <1>1, CountStays DEF Busy
<1>2. CASE UNCHANGED vars
  BY <1>1, <1>2 DEF vars
<1>3. ASSUME NEW c \in Clients, OrderStep(c) \/ DeploymentStep(c) PROVE CountInv'
  BY <1>3, CountCalls
<1>4. CASE FeedStep
  <2>1. UNCHANGED client
    BY <1>4 DEF FeedStep, BeginUpdate, ListAccount, MatchNext, Book, SaveOrder, Settle,
                SaveAccount, EndUpdate
  <2>2. Len(objects') = Len(objects)
    <3>1. CASE Book
      <4>1. objects \in Seq(Object)
        BY DEF PaperInv, ObjectsInv
      <4>2. objects' = objects \/ \E object : objects' = [objects EXCEPT ![current[FillOrder]] = object]
        BY <3>1 DEF Book
      <4> QED
        BY <4>1, <4>2
    <3>2. CASE ~Book
      BY <1>4, <3>2 DEF FeedStep, BeginUpdate, ListAccount, MatchNext, SaveOrder, Settle,
                  SaveAccount, EndUpdate
    <3> QED
      BY <3>1, <3>2
  <2> QED
    BY <1>1, <2>1, <2>2
<1>5. CASE \/ Recover \/ \E a \in Accounts : ResetAccount(a)
           \/ \E d \in Deployments : Deploy(d)
  BY <1>1, <1>5 DEF Recover, ResetAccount, Deploy
<1> QED
  BY <1>2, <1>3, <1>4, <1>5 DEF Next

LEMMA InitCount == Init => CountInv
<1> SUFFICES ASSUME Init PROVE CountInv
  OBVIOUS
<1>1. Submitters = {} /\ Len(objects) = 0
  BY DEF Init, Submitters, Busy, Idle
<1> QED
  BY <1>1, FS_EmptySet, ThreadsAssumption DEF CountInv

(* Every variable stays in its type, and every id stands for an object made*)
(* under it.                                                               *)
THEOREM TypeCorrect == Spec => []TypeOK
<1>1. PaperInv /\ BooksInv /\ CountInv => TypeOK
  <2> SUFFICES ASSUME PaperInv, BooksInv, CountInv PROVE TypeOK
    OBVIOUS
  <2>1. ObjectsInv /\ CallsInv /\ FeedInv /\ CancelInv /\ BooksTyped
    BY DEF PaperInv, BooksInv
  <2>2. \A i \in Objects : objects[i] \in [order: Orders, status: Statuses, filled: Nat]
    <3>1. \A i \in Objects : objects[i] \in Object
      BY <2>1 DEF ObjectsInv, Objects
    <3> QED
      BY <3>1 DEF Object
  <2>3. \A o \in Orders : current[o] # 0 => current[o] \in Objects /\ objects[current[o]].order = o
    BY <2>1 DEF ObjectsInv, Objects
  <2>4. feed.op \in {"idle", "match", "book", "file", "settle", "save"}
    BY <2>1 DEF FeedInv, FeedShape, Idle
  <2>5. \A c \in Clients : client[c].op \in {"idle", "submit", "cancel", "shift", "stop"}
    <3> TAKE c \in Clients
    <3>1. client[c] \in Calls
      BY <2>1 DEF CallsInv
    <3> QED
      BY <3>1 DEF Calls, Idle
  <2>6. cut \in [Deployments -> 0..MaxSubmissions]
    <3>1. Len(objects) \in Nat /\ Len(objects) <= MaxSubmissions
      BY <2>1, SubmittersCounted, ThreadsAssumption DEF CountInv, ObjectsInv
    <3> QED
      BY <2>1, <3>1, ThreadsAssumption DEF CallsInv
  <2>7. /\ processed \subseteq FillIds /\ wasReset \subseteq Accounts
        /\ cash \in [Accounts -> Int] /\ position \in [Accounts -> Int]
    BY <2>1 DEF BooksTyped
  <2>8. /\ cleanly \subseteq Objects
        /\ deployment \in [Deployments -> {"NONE", "RUNNING", "PAUSED", "STOPPED"}]
    BY <2>1 DEF CancelInv, CallsInv, States
  <2> QED
    BY <2>2, <2>3, <2>4, <2>5, <2>6, <2>7, <2>8 DEF TypeOK
<1> QED
  BY <1>1, InitPaper, NextPaper, InitOnce, NextOnce, InitBooks, NextBooks, InitCount, NextCount,
     PTL DEF Spec
================================================================================
