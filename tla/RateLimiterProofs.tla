--------------------------- MODULE RateLimiterProofs ---------------------------
(***************************************************************************)
(* The limiter keeps its bounds for any number of callers, any burst, rate *)
(* and windows, and however long the clock runs.                           *)
(*                                                                         *)
(* RateBounded speaks of any two requests let through.  What is inductive  *)
(* is a sentence about one request i and the bucket as it was last looked  *)
(* at: the requests since i and the tokens left cost no more than the      *)
(* capacity and what came in since i.  Tokens that come in raise both sides*)
(* alike, a request moves its cost from the tokens to the requests, and the*)
(* cap of the bucket or an expired key can only be reached when the        *)
(* right-hand side is larger still.                                        *)
(*                                                                         *)
(* CalendarCaps: the counter of a window and a bucket number holds exactly *)
(* the requests begun in it for as long as any caller that began in it can *)
(* still wait, because it lives two lengths of the window.                 *)
(*                                                                         *)
(* SlidingCaps: the history is what was let through, but for requests older*)
(* than the longest window; bisect_left finds the first one inside a       *)
(* window, and a wait of zero says that the one which a new request would  *)
(* push over the cap has left it.                                          *)
(***************************************************************************)
EXTENDS RateLimiter, FiniteSetTheorems, WellFoundedInduction, TLAPS

Call == [op: {"asking", "locking"}, begun: Nat, tried: Nat, at: Nat]
CallsOK == \A c \in Callers : caller[c] = Idle \/ (caller[c] \in Call /\ caller[c].at <= now)

GrantRecord == [at: Nat, begun: Nat]
Grants == 1..Len(granted)

ClocksOK ==
    /\ now \in Nat /\ last \in 0..now /\ tokens \in 0..Capacity /\ kept \in Nat
    /\ overtaken \in BOOLEAN
    /\ granted \in Seq(GrantRecord)
    /\ caller \in [Callers -> Call \union {Idle}]
    /\ CallsOK
    /\ (mode = "redis" /\ granted # << >>) => kept >= last + Capacity

(* What the requests since i cost. *)
Since(i) == (Len(granted) - i + 1) * Cost

Balanced ==
    \A i \in Grants : /\ granted[i].at <= last
                      /\ Since(i) + tokens <= Capacity + (last - granted[i].at)

PairsBounded ==
    \A i, j \in Grants :
        i <= j => (j - i + 1) * Cost <= Capacity + (granted[j].at - granted[i].at)

RateInv == ClocksOK /\ (~overtaken => Balanced /\ PairsBounded)

LEMMA CapacityIsNat == Capacity \in Nat /\ Cost \in Nat /\ Cost >= 1
BY BucketAssumption, SMT DEF Capacity

(* A wait in whole seconds is a wait, and none longer.                     *)
LEMMA WholeSecondsDown ==
  ASSUME NEW t \in Nat
  PROVE  WholeSeconds(t) \in Nat /\ WholeSeconds(t) <= t
<1>1. Second \in Nat \ {0}
  BY ClockAssumption
<1>2. t % Second \in 0..(Second - 1) /\ t % Second <= t
  BY <1>1
<1> QED
  BY <1>2 DEF WholeSeconds

LEMMA MaxOfTwo ==
  ASSUME NEW a \in Int, NEW b \in Int
  PROVE  Max({a, b}) = IF a >= b THEN a ELSE b
BY DEF Max

LEMMA MinOfTwo ==
  ASSUME NEW a \in Int, NEW b \in Int
  PROVE  Min({a, b}) = IF a <= b THEN a ELSE b
BY DEF Min

(* What is in the bucket is never more than it was and what came in. *)
LEMMA RefilledBounds ==
  ASSUME tokens \in 0..Capacity, last \in Nat, NEW at \in Nat
  PROVE  /\ Refilled(at) \in 0..Capacity
         /\ at >= last => Refilled(at) <= tokens + (at - last)
<1> DEFINE came == IF 0 >= at - last THEN 0 ELSE at - last
<1>1. Max({0, at - last}) = came
  <2>1. at - last \in Int /\ 0 \in Int
    BY SMT
  <2> QED
    BY <2>1, MaxOfTwo
<1>2. came \in Nat /\ (at >= last => came = at - last)
  BY SMT
<1>3. Capacity \in Nat /\ tokens \in Nat /\ tokens <= Capacity
  BY CapacityIsNat, SMT
<1> HIDE DEF came
<1>4. Min({Capacity, tokens + came}) = IF Capacity <= tokens + came THEN Capacity ELSE tokens + came
  <2>1. Capacity \in Int /\ tokens + came \in Int
    BY <1>2, <1>3, SMT
  <2> QED
    BY <2>1, MinOfTwo
<1>5. Refilled(at) = Min({Capacity, tokens + came})
  BY <1>1 DEF Refilled, Topped
<1> QED
  BY <1>2, <1>3, <1>4, <1>5, SMT

LEMMA GrantTypes ==
  ASSUME ClocksOK
  PROVE  /\ Len(granted) \in Nat
         /\ \A i \in Grants : granted[i].at \in Nat /\ i \in Nat /\ granted # << >>
<1>1. granted \in Seq(GrantRecord)
  BY DEF ClocksOK
<1>2. Len(granted) \in Nat /\ \A i \in Grants : granted[i] \in GrantRecord
  BY <1>1 DEF Grants
<1> QED
  BY <1>2 DEF GrantRecord, Grants

LEMMA BucketTypes ==
  ASSUME ClocksOK
  PROVE  /\ now \in Nat /\ last \in Nat /\ last <= now
         /\ tokens \in Nat /\ tokens <= Capacity /\ kept \in Nat
BY CapacityIsNat, SMT DEF ClocksOK

LEMMA OneMore == ASSUME NEW n \in Int PROVE (n + 1) * Cost = n * Cost + Cost /\ n * Cost \in Int
BY CapacityIsNat, SMT

(* The bucket looked at, and a request let through. *)
LEMMA GrantKeeps ==
  ASSUME RateInv, ~overtaken,
         NEW at \in Nat, at >= last, NEW begun \in Nat,
         NEW left \in 0..Capacity, left >= Cost,
         granted # << >> => left <= tokens + (at - last),
         tokens' = left - Cost, last' = at,
         granted' = Append(granted, [at |-> at, begun |-> begun])
  PROVE  (Balanced /\ PairsBounded)'
<1> DEFINE L == Len(granted)
<1>1. /\ L \in Nat /\ Len(granted') = L + 1
      /\ \A i \in 1..L : granted'[i] = granted[i] /\ granted[i].at \in Nat
      /\ granted'[L + 1].at = at
  <2>1. L \in Nat /\ \A i \in 1..L : granted[i].at \in Nat
    BY GrantTypes DEF RateInv, Grants
  <2>2. granted \in Seq(GrantRecord) /\ [at |-> at, begun |-> begun] \in GrantRecord
    BY DEF RateInv, ClocksOK, GrantRecord
  <2>3. /\ Len(granted') = L + 1
        /\ \A i \in 1..L : granted'[i] = granted[i]
        /\ granted'[L + 1] = [at |-> at, begun |-> begun]
    BY <2>2
  <2> QED
    BY <2>1, <2>3
<1>2. /\ tokens \in Nat /\ last \in Nat /\ Capacity \in Nat /\ Cost \in Nat /\ left \in Nat
      /\ left <= Capacity
  BY CapacityIsNat, BucketTypes, SMT DEF RateInv
<1>3. ASSUME NEW i \in 1..(L + 1)
      PROVE  /\ granted'[i].at <= at
             /\ (L + 1 - i + 1) * Cost + (left - Cost) <= Capacity + (at - granted'[i].at)
  <2>1. CASE i = L + 1
    BY <2>1, <1>1, <1>2, SMT
  <2>2. CASE i \in 1..L
    <3>1. /\ granted[i].at <= last
          /\ (L - i + 1) * Cost + tokens <= Capacity + (last - granted[i].at)
      BY <2>2 DEF RateInv, Balanced, Grants, Since
    <3>2. left <= tokens + (at - last)
      BY <2>2, <1>1, SMT DEF RateInv, ClocksOK
    <3>3. (L + 1 - i + 1) * Cost = (L - i + 1) * Cost + Cost /\ (L - i + 1) * Cost \in Int
      <4>1. L - i + 1 \in Int /\ L + 1 - i + 1 = (L - i + 1) + 1
        BY <1>1, SMT
      <4> QED
        BY <4>1, OneMore
    <3>4. granted'[i].at = granted[i].at /\ granted[i].at \in Nat
      BY <2>2, <1>1
    <3> DEFINE from == granted[i].at
               cost == (L - i + 1) * Cost
               more == (L + 1 - i + 1) * Cost
    <3>5. /\ from <= last /\ cost + tokens <= Capacity + (last - from)
          /\ more = cost + Cost /\ cost \in Int /\ from \in Nat
      BY <3>1, <3>3, <3>4
    <3>6. SUFFICES from <= at /\ more + (left - Cost) <= Capacity + (at - from)
      BY <3>4
    <3> HIDE DEF from, cost, more
    <3> QED
      BY <3>2, <3>5, <1>2, SMT
  <2> QED
    BY <2>1, <2>2, <1>1, SMT
<1>4. Balanced'
  BY <1>3, <1>1 DEF Balanced, Grants, Since
<1>5. PairsBounded'
  <2> SUFFICES ASSUME NEW i \in 1..(L + 1), NEW j \in 1..(L + 1), i <= j
               PROVE  (j - i + 1) * Cost <= Capacity + (granted'[j].at - granted'[i].at)
    BY <1>1 DEF PairsBounded, Grants
  <2>1. CASE j = L + 1
    <3>1. (L + 1 - i + 1) * Cost + (left - Cost) <= Capacity + (at - granted'[i].at)
      BY <1>3
    <3>2. L + 1 - i + 1 \in Int /\ (L + 1 - i + 1) * Cost \in Int /\ granted'[i].at \in Int
      BY <1>1, <1>2, OneMore, SMT
    <3> DEFINE cost == (L + 1 - i + 1) * Cost
    <3>3. cost + (left - Cost) <= Capacity + (at - granted'[i].at) /\ cost \in Int
      BY <3>1, <3>2
    <3>4. (j - i + 1) * Cost = cost /\ granted'[j].at = at
      BY <2>1, <1>1
    <3> DEFINE from == granted'[i].at
               to == granted'[j].at
    <3>5. cost \in Int /\ from \in Int /\ to = at /\ cost + (left - Cost) <= Capacity + (at - from)
      BY <3>2, <3>3, <3>4
    <3>6. SUFFICES cost <= Capacity + (to - from)
      BY <3>4
    <3> HIDE DEF cost, from, to, L
    <3> QED
      BY <3>5, <1>2, SMT
  <2>2. CASE j \in 1..L
    <3>1. i \in 1..L
      BY <2>2, <1>1, SMT
    <3> QED
      BY <3>1, <2>2, <1>1 DEF RateInv, PairsBounded, Grants
  <2> QED
    BY <2>1, <2>2, <1>1, SMT
<1> QED
  BY <1>4, <1>5

(* The bucket looked at, and nothing let through. *)
LEMMA RefuseKeeps ==
  ASSUME RateInv, ~overtaken,
         NEW at \in Nat, at >= last,
         NEW left \in 0..Capacity,
         granted # << >> => left <= tokens + (at - last),
         tokens' = left, last' = at, granted' = granted
  PROVE  (Balanced /\ PairsBounded)'
<1>1. ASSUME NEW i \in Grants
      PROVE  /\ granted[i].at <= at
             /\ Since(i) + left <= Capacity + (at - granted[i].at)
  <2>1. /\ granted[i].at <= last
        /\ Since(i) + tokens <= Capacity + (last - granted[i].at)
    BY DEF RateInv, Balanced
  <2>2. /\ granted[i].at \in Nat /\ last \in Nat /\ tokens \in Nat /\ left \in Nat
        /\ Len(granted) \in Nat /\ i \in Nat /\ granted # << >>
    <3>1. ClocksOK
      BY DEF RateInv
    <3> QED
      BY <3>1, GrantTypes, BucketTypes, CapacityIsNat, SMT
  <2>3. Since(i) \in Int
    BY <2>2, OneMore, SMT DEF Since
  <2>4. left <= tokens + (at - last)
    BY <2>2
  <2> DEFINE from == granted[i].at
             cost == Since(i)
  <2>5. SUFFICES from <= at /\ cost + left <= Capacity + (at - from)
    OBVIOUS
  <2>6. /\ from <= last /\ cost + tokens <= Capacity + (last - from)
        /\ from \in Nat /\ cost \in Int
    BY <2>1, <2>2, <2>3
  <2> HIDE DEF from, cost
  <2> QED
    BY <2>2, <2>4, <2>6, CapacityIsNat, SMT
<1>2. Balanced'
  BY <1>1 DEF Balanced, Grants, Since
<1>3. PairsBounded'
  BY DEF RateInv, PairsBounded, Grants
<1> QED
  BY <1>2, <1>3
(* A caller that was refused is asleep or gone: a call record either way.  *)
LEMMA RefuseTypes ==
  ASSUME ClocksOK, NEW c \in Callers, NEW wait, Waiting(c), Refuse(c, wait)
  PROVE  /\ caller' \in [Callers -> Call \union {Idle}]
         /\ \A d \in Callers : caller'[d] = Idle \/ (caller'[d] \in Call /\ caller'[d].at <= now)
<1>1. caller[c] \in Call /\ caller[c].at <= now /\ now \in Nat
  BY DEF ClocksOK, CallsOK, Waiting, Idle
<1>2. CASE caller' = [caller EXCEPT ![c] = Idle]
  BY <1>2 DEF ClocksOK, CallsOK
<1>3. CASE caller' = [caller EXCEPT ![c].op = "asking", ![c].tried = now]
  <2>1. caller'[c] = [caller[c] EXCEPT !.op = "asking", !.tried = now]
    BY <1>3 DEF ClocksOK
  <2>2. caller'[c] \in Call /\ caller'[c].at <= now
    BY <1>1, <2>1 DEF Call
  <2>3. \A d \in Callers \ {c} : caller'[d] = caller[d]
    BY <1>3 DEF ClocksOK
  <2>4. caller' = [d \in Callers |-> caller'[d]]
    BY <1>3 DEF ClocksOK
  <2> QED
    BY <2>2, <2>3, <2>4 DEF ClocksOK, CallsOK
<1> QED
  BY <1>2, <1>3 DEF Refuse

LEMMA GrantCallTypes ==
  ASSUME ClocksOK, NEW c \in Callers, Waiting(c), NEW at \in Nat, Grant(c, at)
  PROVE  /\ caller' \in [Callers -> Call \union {Idle}]
         /\ \A d \in Callers : caller'[d] = Idle \/ (caller'[d] \in Call /\ caller'[d].at <= now)
         /\ granted' \in Seq(GrantRecord)
         /\ caller[c].begun \in Nat
<1>1. caller[c] \in Call
  BY DEF ClocksOK, CallsOK, Waiting, Idle
<1>2. caller' = [caller EXCEPT ![c] = Idle]
  BY DEF Grant
<1>3. [at |-> at, begun |-> caller[c].begun] \in GrantRecord /\ caller[c].begun \in Nat
  BY <1>1 DEF Call, GrantRecord
<1> QED
  BY <1>2, <1>3 DEF ClocksOK, CallsOK, Grant

LEMMA InitRate == Init => RateInv
<1> SUFFICES ASSUME Init PROVE RateInv
  OBVIOUS
<1>1. ClocksOK
  <2>1. /\ now \in Nat /\ last \in 0..now /\ kept \in Nat /\ tokens \in 0..Capacity
    BY CapacityIsNat, SMT DEF Init
  <2>2. granted = << >> /\ granted \in Seq(GrantRecord)
    BY DEF Init
  <2>3. CallsOK /\ caller \in [Callers -> Call \union {Idle}]
    BY DEF Init, CallsOK
  <2>4. overtaken \in BOOLEAN
    BY Zenon DEF Init
  <2> QED
    BY <2>1, <2>2, <2>3, <2>4 DEF ClocksOK
<1>2. Grants = {}
  BY SMT DEF Init, Grants
<1> QED
  BY <1>1, <1>2 DEF RateInv, Balanced, PairsBounded

LEMMA TokensOfScript ==
  ASSUME ClocksOK, mode = "redis"
  PROVE  /\ CurrentTokens \in 0..Capacity
         /\ granted # << >> => CurrentTokens <= tokens + (now - last)
<1>1. CASE now >= kept
  <2>1. CurrentTokens = Capacity
    BY <1>1 DEF CurrentTokens
  <2>2. granted # << >> => kept >= last + Capacity
    BY DEF ClocksOK
  <2> QED
    BY <1>1, <2>1, <2>2, BucketTypes, CapacityIsNat, SMT
<1>2. CASE ~(now >= kept)
  <2>1. CurrentTokens = Refilled(now)
    BY <1>2 DEF CurrentTokens
  <2>2. tokens \in 0..Capacity /\ last \in Nat /\ now \in Nat /\ now >= last
    BY BucketTypes, SMT DEF ClocksOK
  <2> QED
    BY <2>1, <2>2, RefilledBounds
<1> QED
  BY <1>1, <1>2

LEMMA RunScriptKeeps ==
  ASSUME RateInv, NEW c \in Callers, RunScript(c)
  PROVE  RateInv'
<1>1. /\ ClocksOK /\ mode = "redis" /\ Waiting(c) /\ mode' = mode /\ now' = now
      /\ overtaken' = overtaken
  BY DEF RateInv, RunScript
<1>2. /\ now \in Nat /\ last \in Nat /\ last <= now /\ tokens \in 0..Capacity
      /\ overtaken \in BOOLEAN /\ TokenTtl \in Nat /\ TokenTtl >= Capacity
  BY <1>1, BucketTypes, TtlAssumption DEF ClocksOK
<1>3. CASE Full(c) # {}
  <2>1. /\ UNCHANGED <<tokens, last, kept, granted>>
        /\ \E wait : Refuse(c, wait)
    BY <1>3 DEF RunScript
  <2>2. PICK wait : Refuse(c, wait)
    BY <2>1
  <2>3. ClocksOK'
    BY <1>1, <2>1, <2>2, RefuseTypes DEF ClocksOK, CallsOK
  <2> QED
    BY <1>1, <2>1, <2>3 DEF RateInv, Balanced, PairsBounded, Grants, Since
<1>4. CASE Full(c) = {}
  <2>1. last' = now /\ kept' = now + TokenTtl
    BY <1>4 DEF RunScript
  <2>2. kept' \in Nat /\ kept' >= last' + Capacity /\ last' \in 0..now
    BY <1>2, <2>1, CapacityIsNat, SMT
  <2> DEFINE left == CurrentTokens
  <2>3. left \in 0..Capacity /\ (granted # << >> => left <= tokens + (now - last))
    BY <1>1, TokensOfScript
  <2>4. CASE left >= Cost
    <3>1. tokens' = left - Cost /\ Grant(c, now)
      BY <1>4, <2>4 DEF RunScript
    <3> HIDE DEF left
    <3>2. tokens' \in 0..Capacity
      BY <2>3, <2>4, <3>1, CapacityIsNat, SMT
    <3>3. ClocksOK'
      BY <1>1, <1>2, <2>2, <3>1, <3>2, GrantCallTypes DEF ClocksOK, CallsOK
    <3>4. ~overtaken => (Balanced /\ PairsBounded)'
      <4>1. granted' = Append(granted, [at |-> now, begun |-> caller[c].begun])
        BY <3>1 DEF Grant
      <4>2. caller[c].begun \in Nat
        BY <1>1, <1>2, <3>1, GrantCallTypes
      <4> QED
        BY <1>2, <2>1, <2>3, <2>4, <3>1, <4>1, <4>2, GrantKeeps
    <3> QED
      BY <1>1, <3>3, <3>4 DEF RateInv
  <2>5. CASE ~(left >= Cost)
    <3>1. tokens' = left /\ granted' = granted /\ Refuse(c, WholeSeconds(Cost - left))
      BY <1>4, <2>5 DEF RunScript
    <3> HIDE DEF left
    <3>2. ClocksOK'
      BY <1>1, <1>2, <2>2, <2>3, <3>1, RefuseTypes DEF ClocksOK, CallsOK
    <3>3. ~overtaken => (Balanced /\ PairsBounded)'
      BY <1>2, <2>1, <2>3, <3>1, RefuseKeeps
    <3> QED
      BY <1>1, <3>2, <3>3 DEF RateInv
  <2> QED
    BY <2>4, <2>5
<1> QED
  BY <1>3, <1>4

LEMMA LockedKeeps ==
  ASSUME RateInv, NEW c \in Callers, Locked(c)
  PROVE  RateInv'
<1> DEFINE at == caller[c].at
           left == Refilled(at)
           wait == LongestWait(Pruned(at), at)
<1>1. /\ ClocksOK /\ mode = "memory" /\ Waiting(c) /\ UNCHANGED <<now, mode, kept>>
      /\ last' = at /\ overtaken' = (overtaken \/ at < last)
  BY DEF RateInv, Locked, Waiting
<1>2. /\ at \in Nat /\ at <= now /\ now \in Nat /\ last \in Nat /\ tokens \in 0..Capacity
      /\ overtaken \in BOOLEAN
  <2>1. caller[c] \in Call /\ caller[c].at <= now
    BY <1>1 DEF ClocksOK, CallsOK, Waiting, Idle
  <2> QED
    BY <1>1, <2>1, BucketTypes DEF Call, ClocksOK
<1>3. left \in 0..Capacity /\ (at >= last => left <= tokens + (at - last))
  BY <1>2, RefilledBounds
<1>4. ~overtaken' => ~overtaken /\ at >= last
  <2>1. ~(at < last) => at >= last
    BY <1>2, SMT
  <2> QED
    BY <1>1, <2>1, Zenon
<1>5. last' \in 0..now
  BY <1>1, <1>2, SMT
<1>6. CASE wait = 0 /\ left >= Cost
  <2>1. tokens' = left - Cost /\ Grant(c, at)
    BY <1>6 DEF Locked
  <2> HIDE DEF left, wait, at
  <2>2. tokens' \in 0..Capacity
    BY <1>3, <1>6, <2>1, CapacityIsNat, SMT
  <2>3. ClocksOK'
    BY <1>1, <1>2, <1>5, <2>1, <2>2, GrantCallTypes DEF ClocksOK, CallsOK
  <2>4. ~overtaken' => (Balanced /\ PairsBounded)'
    <3>1. granted' = Append(granted, [at |-> at, begun |-> caller[c].begun])
      BY <2>1 DEF Grant
    <3>2. caller[c].begun \in Nat
      BY <1>1, <1>2, <2>1, GrantCallTypes
    <3> QED
      BY <1>1, <1>2, <1>3, <1>4, <1>6, <2>1, <3>1, <3>2, GrantKeeps
  <2> QED
    BY <2>3, <2>4 DEF RateInv
<1>7. CASE ~(wait = 0 /\ left >= Cost)
  <2>1. tokens' = left /\ granted' = granted /\ Refuse(c, Max({wait, Cost - left}))
    BY <1>7 DEF Locked
  <2> HIDE DEF left, wait, at
  <2>2. ClocksOK'
    BY <1>1, <1>2, <1>3, <1>5, <2>1, RefuseTypes DEF ClocksOK, CallsOK
  <2>3. ~overtaken' => (Balanced /\ PairsBounded)'
    BY <1>1, <1>2, <1>3, <1>4, <2>1, RefuseKeeps
  <2> QED
    BY <2>2, <2>3 DEF RateInv
<1> QED
  BY <1>6, <1>7

(* No step of a caller or of the clock breaks the balance of the bucket. *)
LEMMA NextRate == RateInv /\ [Next]_vars => RateInv'
<1> SUFFICES ASSUME RateInv, [Next]_vars PROVE RateInv'
  OBVIOUS
<1>1. CASE Tick
  <2>1. /\ now' = now + 1
        /\ UNCHANGED <<mode, tokens, last, kept, caller, granted, overtaken>>
    BY <1>1 DEF Tick
  <2>2. now \in Nat /\ last \in 0..now
    BY DEF RateInv, ClocksOK
  <2>3. now' \in Nat /\ last' \in 0..now'
    BY <2>1, <2>2, SMT
  <2>4. CallsOK'
    <3> SUFFICES ASSUME NEW c \in Callers, caller[c] # Idle
                 PROVE  caller[c] \in Call /\ caller[c].at <= now'
      BY <2>1 DEF CallsOK
    <3>1. caller[c] \in Call /\ caller[c].at <= now /\ caller[c].at \in Nat
      BY DEF RateInv, ClocksOK, CallsOK, Call
    <3> QED
      BY <2>1, <2>2, <3>1, SMT
  <2> QED
    BY <2>1, <2>3, <2>4 DEF RateInv, ClocksOK, Balanced, PairsBounded, Grants, Since
<1>2. ASSUME NEW c \in Callers, Begin(c) PROVE RateInv'
  <2> DEFINE call == [op |-> "asking", begun |-> now, tried |-> now, at |-> now]
  <2>1. /\ caller' = [caller EXCEPT ![c] = call]
        /\ UNCHANGED <<now, mode, tokens, last, kept, granted, overtaken>>
    BY <1>2 DEF Begin
  <2>2. call \in Call /\ call.at <= now
    BY DEF Call, RateInv, ClocksOK
  <2>3. ClocksOK'
    BY <2>1, <2>2 DEF RateInv, ClocksOK, CallsOK
  <2> QED
    BY <2>1, <2>3 DEF RateInv, Balanced, PairsBounded, Grants, Since
<1>3. ASSUME NEW c \in Callers, ReadClock(c) PROVE RateInv'
  <2>1. /\ caller' = [caller EXCEPT ![c].op = "locking", ![c].at = now]
        /\ UNCHANGED <<now, mode, tokens, last, kept, granted, overtaken>>
        /\ caller[c].op = "asking"
    BY <1>3 DEF ReadClock
  <2>2. caller[c] \in Call /\ now \in Nat
    BY <2>1 DEF RateInv, ClocksOK, CallsOK, Idle
  <2>3. caller'[c] = [caller[c] EXCEPT !.op = "locking", !.at = now]
    BY <2>1 DEF RateInv, ClocksOK
  <2>4. caller'[c] \in Call /\ caller'[c].at <= now
    <3>1. caller'[c] \in Call
      BY <2>2, <2>3 DEF Call
    <3>2. caller'[c].at = now
      BY <2>2, <2>3 DEF Call
    <3> QED
      BY <2>2, <3>1, <3>2, SMT
  <2>5. \A d \in Callers \ {c} : caller'[d] = caller[d]
    BY <2>1 DEF RateInv, ClocksOK
  <2>6. caller' = [d \in Callers |-> caller'[d]]
    BY <2>1 DEF RateInv, ClocksOK
  <2>7. ClocksOK'
    BY <2>1, <2>4, <2>5, <2>6 DEF RateInv, ClocksOK, CallsOK
  <2> QED
    BY <2>1, <2>7 DEF RateInv, Balanced, PairsBounded, Grants, Since
<1>4. ASSUME NEW c \in Callers, RunScript(c) PROVE RateInv'
  BY <1>4, RunScriptKeeps
<1>5. ASSUME NEW c \in Callers, Locked(c) PROVE RateInv'
  BY <1>5, LockedKeeps
<1>6. CASE UNCHANGED vars
  BY <1>6 DEF vars, RateInv, ClocksOK, CallsOK, Balanced, PairsBounded, Grants, Since
<1> QED
  BY <1>1, <1>2, <1>3, <1>4, <1>5, <1>6 DEF Next

(* However many callers ask, wait, give up and come back, the requests let *)
(* through between any two of them cost no more than the bucket holds and  *)
(* what came into it meanwhile: with Redis always, without it as long as no*)
(* clock reading was used after a later one.                               *)
THEOREM RateHolds == Spec => []RateBounded
<1>1. RateInv => RateBounded
  BY DEF RateInv, PairsBounded, Grants, RateBounded
<1> QED
  BY <1>1, InitRate, NextRate, PTL DEF Spec

----------------------------------------------------------------------------
(* What is smallest, and what is largest, in a finite set of integers.     *)
LEMMA SmallestInFinite ==
  ASSUME NEW S, S \subseteq Int, S # {}, IsFiniteSet(S)
  PROVE  Min(S) \in S /\ \A x \in S : Min(S) <= x
<1> DEFINE below == {{x \in S : x < m} : m \in S}
<1>1. IsWellFoundedOn(StrictSubsetOrdering(S), FiniteSubsetsOf(S))
  BY FS_StrictSubsetOrderingWellFounded
<1>2. below \subseteq FiniteSubsetsOf(S) /\ below # {}
  <2>1. FiniteSubsetsOf(S) = SUBSET S
    BY FS_FiniteSubsetsOfFinite
  <2>2. below \subseteq SUBSET S /\ below # {}
    OBVIOUS
  <2> QED
    BY <2>1, <2>2
<1>3. PICK few \in below : \A other \in below : <<other, few>> \notin StrictSubsetOrdering(S)
  <2> HIDE DEF below
  <2> QED
    BY <1>1, <1>2, WFMin
<1>4. PICK m \in S : few = {x \in S : x < m}
  BY <1>3
<1>5. \A k \in S : m <= k
  <2> SUFFICES ASSUME NEW k \in S, k < m PROVE FALSE
    OBVIOUS
  <2> DEFINE other == {x \in S : x < k}
  <2>1. other \in below /\ other \in SUBSET S /\ few \in SUBSET S
    BY <1>4
  <2>2. other \subseteq few
    <3> SUFFICES ASSUME NEW x \in other PROVE x \in few
      OBVIOUS
    <3>1. x \in Int /\ k \in Int /\ m \in Int
      OBVIOUS
    <3> QED
      BY <1>4, <3>1
  <2>3. k \in few /\ k \notin other
    BY <1>4
  <2> HIDE DEF other, below
  <2>4. <<other, few>> \in StrictSubsetOrdering(S)
    BY <2>1, <2>2, <2>3 DEF StrictSubsetOrdering
  <2> QED
    BY <1>3, <2>1, <2>4
<1> QED
  BY <1>5 DEF Min

LEMMA LargestInFinite ==
  ASSUME NEW S, S \subseteq Int, S # {}, IsFiniteSet(S)
  PROVE  Max(S) \in S /\ \A x \in S : x <= Max(S)
<1> DEFINE above == {{x \in S : m < x} : m \in S}
<1>1. IsWellFoundedOn(StrictSubsetOrdering(S), FiniteSubsetsOf(S))
  BY FS_StrictSubsetOrderingWellFounded
<1>2. above \subseteq FiniteSubsetsOf(S) /\ above # {}
  <2>1. FiniteSubsetsOf(S) = SUBSET S
    BY FS_FiniteSubsetsOfFinite
  <2>2. above \subseteq SUBSET S /\ above # {}
    OBVIOUS
  <2> QED
    BY <2>1, <2>2
<1>3. PICK few \in above : \A other \in above : <<other, few>> \notin StrictSubsetOrdering(S)
  <2> HIDE DEF above
  <2> QED
    BY <1>1, <1>2, WFMin
<1>4. PICK m \in S : few = {x \in S : m < x}
  BY <1>3
<1>5. \A k \in S : k <= m
  <2> SUFFICES ASSUME NEW k \in S, m < k PROVE FALSE
    OBVIOUS
  <2> DEFINE other == {x \in S : k < x}
  <2>1. other \in above /\ other \in SUBSET S /\ few \in SUBSET S
    BY <1>4
  <2>2. other \subseteq few
    <3> SUFFICES ASSUME NEW x \in other PROVE x \in few
      OBVIOUS
    <3>1. x \in Int /\ k \in Int /\ m \in Int
      OBVIOUS
    <3> QED
      BY <1>4, <3>1
  <2>3. k \in few /\ k \notin other
    BY <1>4
  <2> HIDE DEF other, above
  <2>4. <<other, few>> \in StrictSubsetOrdering(S)
    BY <2>1, <2>2, <2>3 DEF StrictSubsetOrdering
  <2> QED
    BY <1>3, <2>1, <2>4
<1>6. \A x \in S : m >= x
  BY <1>5
<1>7. Max(S) \in S /\ \A y \in S : Max(S) >= y
  BY <1>6 DEF Max
<1> QED
  BY <1>7

(* The calendar window of a time begins at or before it and ends after it. *)
LEMMA WindowOfTime ==
  ASSUME NEW n \in Nat, NEW length \in Nat \ {0}
  PROVE  /\ n \div length \in 0..n
         /\ (n \div length) * length <= n
         /\ n < (n \div length) * length + length
BY SMT

LEMMA WindowTypes ==
  /\ Len(Windows) \in Nat
  /\ \A w \in Window : /\ Windows[w].length \in Nat \ {0} /\ Windows[w].cap \in Nat \ {0}
                       /\ Windows[w].length >= Timeout + MaxSleep
                       /\ Windows[w].length <= Windows[Len(Windows)].length
                       /\ Len(Windows) \in Window
<1> DEFINE limits == [length: Nat \ {0}, cap: Nat \ {0}]
<1>1. Windows \in Seq(limits)
  BY WindowAssumption
<1>2. Len(Windows) \in Nat /\ \A w \in Window : Windows[w] \in limits
  <2> HIDE DEF limits
  <2> QED
    BY <1>1 DEF Window
<1>3. \A w \in Window : Len(Windows) \in Window
  BY <1>2 DEF Window
<1>4. \A w \in Window : Windows[w].length \in Nat \ {0} /\ Windows[w].cap \in Nat \ {0}
  BY <1>2
<1> QED
  BY <1>2, <1>3, <1>4, WindowAssumption

(* Pruning drops a beginning of the list, all of it older than any window. *)
LEMMA PrunedIsSuffix ==
  ASSUME history \in Seq(Nat), NEW at \in Nat
  PROVE  \E n \in 0..Len(history) :
            /\ Pruned(at) = SubSeq(history, n + 1, Len(history))
            /\ \A i \in 1..n, w \in Window : history[i] < at - Windows[w].length
<1>1. Len(history) \in Nat /\ \A i \in 1..Len(history) : history[i] \in Nat
  OBVIOUS
<1>2. CASE Windows = << >>
  <2>1. Pruned(at) = history
    BY <1>2 DEF Pruned
  <2>2. history = SubSeq(history, 1, Len(history))
    BY <1>1
  <2> QED
    BY <1>1, <2>1, <2>2, 0 + 1 = 1
<1>3. CASE Windows # << >>
  <2> DEFINE longest == Windows[Len(Windows)].length
             old == {n \in 0..Len(history) : \A i \in 1..n : history[i] < at - longest}
  <2>1. Pruned(at) = SubSeq(history, Max(old) + 1, Len(history))
    BY <1>3 DEF Pruned
  <2>2. old \subseteq Int /\ old # {} /\ IsFiniteSet(old)
    <3>1. 0 \in old
      BY <1>1
    <3>2. old \in SUBSET (0..Len(history)) /\ IsFiniteSet(0..Len(history))
      BY <1>1, FS_Interval
    <3> QED
      BY <3>1, <3>2, FS_Subset
  <2>3. Max(old) \in old
    <3> HIDE DEF old
    <3> QED
      BY <2>2, LargestInFinite
  <2>4. longest \in Nat
    <3>1. Len(Windows) \in Window
      BY <1>3, WindowAssumption DEF Window
    <3> QED
      BY <3>1, WindowTypes
  <2> DEFINE n == Max(old)
  <2>5. n \in 0..Len(history) /\ \A i \in 1..n : history[i] < at - longest
    BY <2>3
  <2> HIDE DEF n
  <2>6. \A i \in 1..n, w \in Window : history[i] < at - Windows[w].length
    <3> SUFFICES ASSUME NEW i \in 1..n, NEW w \in Window
                 PROVE  history[i] < at - Windows[w].length
      OBVIOUS
    <3>1. history[i] \in Nat /\ history[i] < at - longest
      BY <1>1, <2>5
    <3>2. Windows[w].length \in Nat /\ Windows[w].length <= longest
      BY WindowTypes
    <3> HIDE DEF longest
    <3> QED
      BY <2>4, <3>1, <3>2
  <2>7. Pruned(at) = SubSeq(history, n + 1, Len(history))
    BY <2>1 DEF n
  <2> QED
    BY <2>5, <2>6, <2>7
<1> QED
  BY <1>2, <1>3

----------------------------------------------------------------------------
(* Types: no call and no request lies in the future.                       *)
Counter == [count: Nat, until: Nat]

Past ==
    /\ \A c \in Callers : Waiting(c) => caller[c].begun <= now /\ caller[c].tried <= now
    /\ \A i \in Grants : granted[i].at <= now /\ granted[i].begun <= now

TypeRest ==
    /\ now <= MaxTime /\ mode \in {"redis", "memory"}
    /\ counters \in [Window -> [0..MaxTime -> Counter]]
    /\ history \in Seq(0..now)
    /\ Past

LEMMA CallTypes ==
  ASSUME ClocksOK, Past, NEW c \in Callers, Waiting(c)
  PROVE  /\ caller[c] \in Call /\ now \in Nat
         /\ caller[c].begun \in 0..now /\ caller[c].tried \in 0..now /\ caller[c].at \in 0..now
<1>1. caller[c] \in Call /\ caller[c].at <= now
  BY DEF ClocksOK, CallsOK, Waiting, Idle
<1>2. caller[c].begun <= now /\ caller[c].tried <= now
  BY DEF Past
<1>3. now \in Nat
  BY BucketTypes
<1>4. caller[c].begun \in Nat /\ caller[c].tried \in Nat /\ caller[c].at \in Nat
  BY <1>1 DEF Call
<1> QED
  BY <1>1, <1>2, <1>3, <1>4

(* A longer range of times. *)
LEMMA SeqOfTimes ==
  ASSUME NEW m \in Nat, NEW n \in Nat, m <= n, NEW s \in Seq(0..m)
  PROVE  s \in Seq(0..n)
<1>1. 0..m \subseteq 0..n
  OBVIOUS
<1>2. s = [i \in 1..Len(s) |-> s[i]] /\ Len(s) \in Nat /\ \A i \in 1..Len(s) : s[i] \in 0..m
  OBVIOUS
<1>3. \A i \in 1..Len(s) : s[i] \in 0..n
  BY <1>1, <1>2
<1> QED
  BY <1>2, <1>3

(* A refused caller tried just now, or has given up; the others wait on.   *)
LEMMA RefuseMoves ==
  ASSUME ClocksOK, NEW c \in Callers, NEW wait, Waiting(c), Refuse(c, wait)
  PROVE  /\ \A d \in Callers \ {c} : caller'[d] = caller[d]
         /\ \/ caller'[c] = Idle
            \/ /\ now - caller[c].begun + wait <= Timeout \/ ~(now - caller[c].begun + wait > Timeout)
               /\ caller'[c].begun = caller[c].begun /\ caller'[c].tried = now
<1>1. caller[c] \in Call /\ caller \in [Callers -> Call \union {Idle}]
  BY DEF ClocksOK, CallsOK, Waiting, Idle
<1>2. CASE now - caller[c].begun + wait > Timeout
  BY <1>1, <1>2 DEF Refuse
<1>3. CASE ~(now - caller[c].begun + wait > Timeout)
  <2>1. caller' = [caller EXCEPT ![c].op = "asking", ![c].tried = now]
    BY <1>3 DEF Refuse
  <2>2. caller'[c] = [caller[c] EXCEPT !.op = "asking", !.tried = now]
    BY <1>1, <2>1
  <2>3. caller'[c].begun = caller[c].begun /\ caller'[c].tried = now
    BY <1>1, <2>2 DEF Call
  <2> QED
    BY <1>1, <1>3, <2>1, <2>3
<1> QED
  BY <1>2, <1>3

LEMMA RefusePast ==
  ASSUME ClocksOK, Past, NEW c \in Callers, NEW wait, Waiting(c), Refuse(c, wait),
         granted' = granted, now' = now
  PROVE  Past'
<1>1. caller[c].begun \in 0..now /\ now \in Nat
  BY CallTypes
<1>2. \A d \in Callers : Waiting(d)' => caller'[d].begun <= now /\ caller'[d].tried <= now
  <2>1. Idle.op = "idle"
    BY DEF Idle
  <2> QED
    BY <1>1, <2>1, RefuseMoves DEF Past, Waiting
<1> QED
  BY <1>2 DEF Past, Grants

(* A request let through is the last one on record. *)
LEMMA GrantRecords ==
  ASSUME ClocksOK, NEW c \in Callers, NEW at \in Nat, Waiting(c), Grant(c, at)
  PROVE  /\ Len(granted) \in Nat /\ Len(granted') = Len(granted) + 1
         /\ \A i \in Grants : granted'[i] = granted[i]
         /\ granted'[Len(granted) + 1] = [at |-> at, begun |-> caller[c].begun]
         /\ caller'[c] = Idle
         /\ \A d \in Callers \ {c} : caller'[d] = caller[d]
<1> DEFINE new == [at |-> at, begun |-> caller[c].begun]
<1>1. caller[c] \in Call /\ caller \in [Callers -> Call \union {Idle}] /\ granted \in Seq(GrantRecord)
  BY DEF ClocksOK, CallsOK, Waiting, Idle
<1>2. new \in GrantRecord
  BY <1>1 DEF Call, GrantRecord
<1>3. granted' = Append(granted, new) /\ caller' = [caller EXCEPT ![c] = Idle]
  BY DEF Grant
<1> HIDE DEF new
<1>4. /\ Len(granted) \in Nat /\ Len(granted') = Len(granted) + 1
      /\ \A i \in Grants : granted'[i] = granted[i]
      /\ granted'[Len(granted) + 1] = new
  BY <1>1, <1>2, <1>3 DEF Grants
<1> QED
  BY <1>1, <1>3, <1>4 DEF new

LEMMA GrantPast ==
  ASSUME ClocksOK, Past, NEW c \in Callers, NEW at \in 0..now, Waiting(c), Grant(c, at), now' = now
  PROVE  Past'
<1>1. at \in Nat /\ at <= now /\ now \in Nat
  BY BucketTypes
<1>2. caller[c].begun <= now
  BY DEF Past
<1>3. /\ Len(granted) \in Nat /\ Len(granted') = Len(granted) + 1
      /\ \A i \in Grants : granted'[i] = granted[i]
      /\ granted'[Len(granted) + 1] = [at |-> at, begun |-> caller[c].begun]
      /\ caller'[c] = Idle
      /\ \A d \in Callers \ {c} : caller'[d] = caller[d]
  BY <1>1, GrantRecords
<1>4. \A d \in Callers : Waiting(d)' => caller'[d].begun <= now /\ caller'[d].tried <= now
  BY <1>3 DEF Past, Waiting, Idle
<1>5. \A i \in 1..Len(granted') : granted'[i].at <= now /\ granted'[i].begun <= now
  <2>1. \A i \in 1..Len(granted') : i \in Grants \/ i = Len(granted) + 1
    BY <1>3 DEF Grants
  <2> QED
    BY <1>1, <1>2, <1>3, <2>1 DEF Past
<1> QED
  BY <1>4, <1>5 DEF Past, Grants

LEMMA KeyInRange ==
  ASSUME ClocksOK, TypeRest, NEW c \in Callers, Waiting(c), NEW w \in Window
  PROVE  /\ Key(c, w) \in 0..MaxTime
         /\ counters[w][Key(c, w)] \in Counter
         /\ Key(c, w) * Windows[w].length <= caller[c].begun
         /\ caller[c].begun < Key(c, w) * Windows[w].length + Windows[w].length
<1>1. caller[c].begun \in Nat /\ caller[c].begun <= now /\ now \in Nat /\ now <= MaxTime
  BY CallTypes DEF TypeRest
<1>2. MaxTime \in Nat /\ Windows[w].length \in Nat \ {0}
  BY ClockAssumption, WindowTypes
<1>3. /\ Key(c, w) \in 0..caller[c].begun
      /\ Key(c, w) * Windows[w].length <= caller[c].begun
      /\ caller[c].begun < Key(c, w) * Windows[w].length + Windows[w].length
  BY <1>1, <1>2, WindowOfTime DEF Key
<1>4. Key(c, w) \in 0..MaxTime
  BY <1>1, <1>2, <1>3
<1> QED
  BY <1>3, <1>4 DEF TypeRest

LEMMA IncrementedTyped ==
  ASSUME ClocksOK, TypeRest, NEW c \in Callers, Waiting(c), NEW w \in Window
  PROVE  Incremented(c, w) \in Counter
<1>1. counters[w][Key(c, w)] \in Counter /\ now \in Nat /\ Windows[w].length \in Nat
  BY KeyInRange, BucketTypes, WindowTypes
<1>2. now + Lifetime(w) \in Nat
  BY <1>1 DEF Lifetime
<1> QED
  BY <1>1, <1>2 DEF Incremented, Counter

LEMMA TypeStep == RateInv /\ TypeRest /\ [Next]_vars => TypeRest'
<1> SUFFICES ASSUME RateInv, TypeRest, [Next]_vars PROVE TypeRest'
  OBVIOUS
<1> USE DEF RateInv
<1>0. now \in Nat /\ ClocksOK /\ Past
  BY BucketTypes DEF TypeRest
<1>1. CASE Tick
  <2>1. /\ now' = now + 1 /\ now < MaxTime
        /\ UNCHANGED <<mode, counters, history, caller, granted>>
    BY <1>1 DEF Tick
  <2>2. history' \in Seq(0..now')
    BY <1>0, <2>1, SeqOfTimes DEF TypeRest
  <2>3. \A c \in Callers : Waiting(c) => caller[c].begun <= now + 1 /\ caller[c].tried <= now + 1
    BY <1>0, CallTypes
  <2>4. \A i \in Grants : granted[i].at <= now + 1 /\ granted[i].begun <= now + 1
    <3> SUFFICES ASSUME NEW i \in Grants
                 PROVE  granted[i].at <= now + 1 /\ granted[i].begun <= now + 1
      OBVIOUS
    <3>1. granted[i].at <= now /\ granted[i].begun <= now
      BY DEF TypeRest, Past
    <3>2. granted[i] \in GrantRecord
      BY <1>0 DEF ClocksOK, Grants
    <3> QED
      BY <1>0, <3>1, <3>2 DEF GrantRecord
  <2>5. Past'
    BY <2>1, <2>3, <2>4 DEF Past, Waiting, Grants
  <2> QED
    BY <1>0, <2>1, <2>2, <2>5, ClockAssumption DEF TypeRest
<1>2. ASSUME NEW c \in Callers, Begin(c) PROVE TypeRest'
  <2>1. /\ caller' = [caller EXCEPT ![c] = [op |-> "asking", begun |-> now, tried |-> now, at |-> now]]
        /\ UNCHANGED <<now, mode, counters, history, granted>>
    BY <1>2 DEF Begin
  <2>2. Past'
    BY <1>0, <2>1 DEF Past, Waiting, Grants, ClocksOK
  <2> QED
    BY <2>1, <2>2 DEF TypeRest
<1>3. ASSUME NEW c \in Callers, ReadClock(c) PROVE TypeRest'
  <2>1. /\ caller' = [caller EXCEPT ![c].op = "locking", ![c].at = now]
        /\ UNCHANGED <<now, mode, counters, history, granted>> /\ Waiting(c)
    BY <1>3 DEF ReadClock, Waiting
  <2>2. caller'[c] = [caller[c] EXCEPT !.op = "locking", !.at = now]
    BY <1>0, <2>1 DEF ClocksOK
  <2>3. caller'[c].begun = caller[c].begun /\ caller'[c].tried = caller[c].tried
    <3>1. caller[c] \in Call
      BY <1>0, <2>1, CallTypes
    <3> QED
      BY <2>2, <3>1 DEF Call
  <2>4. \A d \in Callers \ {c} : caller'[d] = caller[d]
    BY <1>0, <2>1 DEF ClocksOK
  <2>5. \A d \in Callers : Waiting(d)' => Waiting(d)
    BY <2>1, <2>4 DEF Waiting
  <2>6. Past'
    BY <1>0, <2>1, <2>3, <2>4, <2>5 DEF Past, Grants
  <2> QED
    BY <2>1, <2>6 DEF TypeRest
<1>4. ASSUME NEW c \in Callers, RunScript(c) PROVE TypeRest'
  <2>1. Waiting(c) /\ UNCHANGED <<now, mode, history>>
    BY <1>4 DEF RunScript
  <2>2. CASE \E wait : Refuse(c, wait) /\ UNCHANGED <<counters, granted>>
    <3>1. Past'
      BY <1>0, <2>1, <2>2, RefusePast
    <3> QED
      BY <2>1, <2>2, <3>1 DEF TypeRest
  <2>3. CASE /\ counters' = [w \in Window |->
                               [counters[w] EXCEPT ![Key(c, w)] = Incremented(c, w)]]
             /\ Grant(c, now)
    <3>1. Past'
      BY <1>0, <2>1, <2>3, GrantPast
    <3>2. counters' \in [Window -> [0..MaxTime -> Counter]]
      <4>1. \A w \in Window : [counters[w] EXCEPT ![Key(c, w)] = Incremented(c, w)]
                                 \in [0..MaxTime -> Counter]
        BY <1>0, <2>1, IncrementedTyped DEF TypeRest
      <4> QED
        BY <2>3, <4>1
    <3> QED
      BY <2>1, <3>1, <3>2 DEF TypeRest
  <2> QED
    BY <1>4, <2>2, <2>3 DEF RunScript
<1>5. ASSUME NEW c \in Callers, Locked(c) PROVE TypeRest'
  <2> DEFINE at == caller[c].at
             left == Refilled(at)
             wait == LongestWait(Pruned(at), at)
  <2>1. Waiting(c) /\ UNCHANGED <<now, mode, counters>>
    BY <1>5 DEF Locked, Waiting
  <2>2. at \in 0..now
    BY <1>0, <2>1, CallTypes
  <2>3. Pruned(at) \in Seq(0..now)
    <3>1. history \in Seq(Nat) /\ at \in Nat /\ history \in Seq(0..now)
      <4>1. history \in Seq(0..now)
        BY DEF TypeRest
      <4>2. \A i \in 1..Len(history) : history[i] \in Nat
        BY <1>0, <4>1
      <4>3. history = [i \in 1..Len(history) |-> history[i]] /\ Len(history) \in Nat
        BY <4>1
      <4>4. history \in Seq(Nat)
        BY <4>2, <4>3
      <4> QED
        BY <1>0, <2>2, <4>1, <4>4
    <3>2. PICK n \in 0..Len(history) : Pruned(at) = SubSeq(history, n + 1, Len(history))
      BY <3>1, PrunedIsSuffix
    <3> DEFINE times == 0..now
    <3>3. history \in Seq(times)
      BY <3>1
    <3> HIDE DEF at, times
    <3>4. Pruned(at) \in Seq(times)
      BY <3>2, <3>3
    <3> QED
      BY <3>4 DEF times
  <2>4. history' \in Seq(0..now) /\ Past'
    <3>1. CASE wait = 0 /\ left >= Cost
      <4>1. history' = Append(Pruned(at), at) /\ Grant(c, at)
        BY <1>5, <3>1 DEF Locked
      <4> HIDE DEF at
      <4> QED
        BY <1>0, <2>1, <2>2, <2>3, <4>1, GrantPast
    <3>2. CASE ~(wait = 0 /\ left >= Cost)
      <4>1. history' = Pruned(at) /\ granted' = granted /\ Refuse(c, Max({wait, Cost - left}))
        BY <1>5, <3>2 DEF Locked
      <4> HIDE DEF at, wait, left
      <4> QED
        BY <1>0, <2>1, <2>3, <4>1, RefusePast
    <3> QED
      BY <3>1, <3>2
  <2> QED
    BY <2>1, <2>4 DEF TypeRest
<1>6. CASE UNCHANGED vars
  BY <1>6 DEF vars, TypeRest, Past, Waiting, Grants
<1> QED
  BY <1>1, <1>2, <1>3, <1>4, <1>5, <1>6 DEF Next

LEMMA TypeInit == Init => TypeRest
<1> SUFFICES ASSUME Init PROVE TypeRest
  OBVIOUS
<1>1. now = 0 /\ now <= MaxTime /\ mode \in {"redis", "memory"}
  BY ClockAssumption DEF Init
<1>2. counters \in [Window -> [0..MaxTime -> Counter]]
  BY DEF Init, Counter, NoKey
<1>3. history \in Seq(0..now)
  BY DEF Init
<1>4. Past
  BY DEF Init, Past, Waiting, Idle, Grants
<1> QED
  BY <1>1, <1>2, <1>3, <1>4 DEF TypeRest

LEMMA TypesAlways == Spec => [](RateInv /\ TypeRest)
BY InitRate, NextRate, TypeInit, TypeStep, PTL DEF Spec

(* Every variable of the limiter keeps its type for any callers, buckets   *)
(* and windows; in particular the tokens stay within the bucket.           *)
THEOREM TypeCorrect == Spec => []TypeOK
<1>1. RateInv /\ TypeRest => TypeOK
  <2> SUFFICES ASSUME RateInv, TypeRest PROVE TypeOK
    OBVIOUS
  <2>1. ClocksOK /\ Past /\ now \in Nat
    BY BucketTypes DEF RateInv, TypeRest
  <2>2. now \in 0..MaxTime /\ last \in 0..now /\ kept \in Nat /\ tokens \in 0..Capacity
    BY <2>1, ClockAssumption DEF TypeRest, ClocksOK
  <2>3. \A c \in Callers : \/ caller[c] = Idle
                           \/ /\ caller[c].op \in {"asking", "locking"}
                              /\ caller[c].begun \in 0..now /\ caller[c].tried \in 0..now
                              /\ caller[c].at \in 0..now
    <3> SUFFICES ASSUME NEW c \in Callers, caller[c] # Idle
                 PROVE  /\ caller[c].op \in {"asking", "locking"}
                        /\ caller[c].begun \in 0..now /\ caller[c].tried \in 0..now
                        /\ caller[c].at \in 0..now
      OBVIOUS
    <3>1. caller[c] \in Call
      BY <2>1 DEF ClocksOK, CallsOK
    <3>2. caller[c].op \in {"asking", "locking"} /\ Waiting(c)
      BY <3>1 DEF Call, Waiting
    <3> QED
      BY <2>1, <3>2, CallTypes
  <2>4. granted \in Seq([at: 0..now, begun: 0..now])
    <3>1. granted \in Seq(GrantRecord) /\ \A i \in Grants : granted[i] \in GrantRecord
      BY <2>1 DEF ClocksOK, Grants
    <3>2. \A i \in Grants : granted[i] \in [at: 0..now, begun: 0..now]
      BY <2>1, <3>1 DEF Past, GrantRecord
    <3>3. granted = [i \in Grants |-> granted[i]] /\ Len(granted) \in Nat
      BY <3>1 DEF Grants
    <3> DEFINE record == [at: 0..now, begun: 0..now]
    <3>4. \A i \in Grants : granted[i] \in record
      BY <3>2
    <3> HIDE DEF record
    <3>5. granted \in Seq(record)
      BY <3>3, <3>4 DEF Grants
    <3> QED
      BY <3>5 DEF record
  <2>5. counters \in [Window -> [0..MaxTime -> [count: Nat, until: Nat]]]
    BY DEF TypeRest, Counter
  <2> QED
    BY <2>1, <2>2, <2>3, <2>4, <2>5 DEF TypeOK, TypeRest, ClocksOK
<1> QED
  BY <1>1, TypesAlways, PTL

----------------------------------------------------------------------------
(* The calendar windows of Redis.  A counter counts the requests begun in  *)
(* its window because it cannot expire while one of them may still be let  *)
(* through: its key lives two windows from its first request on, and a     *)
(* caller waits no longer than the shortest window.                        *)
BegunIn(w, b) == {i \in 1..Len(granted) : granted[i].begun \div Windows[w].length = b}

Patience(c) ==
    /\ now - caller[c].tried <= MaxSleep
    /\ caller[c].tried - caller[c].begun <= Timeout

Patient == \A c \in Callers : Waiting(c) => Patience(c)

CountedIn(w, b, counter) ==
    /\ Cardinality(BegunIn(w, b)) = counter.count
    /\ counter.count <= Windows[w].cap
    /\ IF counter.count = 0
       THEN counter.until = 0
       ELSE counter.until >= b * Windows[w].length + 2 * Windows[w].length

CalendarInv ==
    mode = "redis" =>
        /\ Patient
        /\ \A w \in Window, b \in 0..MaxTime : CountedIn(w, b, counters[w][b])

LEMMA BegunFinite ==
  ASSUME ClocksOK, NEW w, NEW b
  PROVE  IsFiniteSet(BegunIn(w, b)) /\ Cardinality(BegunIn(w, b)) \in Nat
<1>1. Len(granted) \in Nat
  BY GrantTypes
<1>2. IsFiniteSet(1..Len(granted))
  BY <1>1, FS_Interval
<1>3. BegunIn(w, b) \in SUBSET (1..Len(granted))
  BY DEF BegunIn
<1> QED
  BY <1>2, <1>3, FS_Subset, FS_CardinalityType

(* While a caller waits, the counter of its window is alive if it counts.  *)
LEMMA CountingIsAlive ==
  ASSUME ClocksOK, TypeRest, NEW c \in Callers, Waiting(c), Patience(c), NEW w \in Window,
         CountedIn(w, Key(c, w), counters[w][Key(c, w)])
  PROVE  Alive(c, w) <=> counters[w][Key(c, w)].count > 0
<1> DEFINE k == counters[w][Key(c, w)]
           start == Key(c, w) * Windows[w].length
           length == Windows[w].length
<1>1. /\ k \in Counter /\ start <= caller[c].begun /\ caller[c].begun < start + length
      /\ Key(c, w) \in Nat /\ length \in Nat
  BY KeyInRange, WindowTypes, ClockAssumption
<1>2. start \in Nat
  BY <1>1
<1>3. k.count \in Nat /\ k.until \in Nat
  BY <1>1 DEF Counter
<1>4. /\ caller[c].begun \in Nat /\ caller[c].tried \in Nat /\ now \in Nat
      /\ now - caller[c].tried <= MaxSleep
      /\ caller[c].tried - caller[c].begun <= Timeout
  BY CallTypes DEF TypeRest, Patience
<1>5. Timeout + MaxSleep <= length /\ Timeout \in Nat /\ MaxSleep \in Nat
  BY WindowTypes, ClockAssumption
<1>6. IF k.count = 0 THEN k.until = 0 ELSE k.until >= start + 2 * length
  BY DEF CountedIn
<1> HIDE DEF k, start, length
<1>7. k.until > now <=> k.count > 0
  BY <1>1, <1>2, <1>3, <1>4, <1>5, <1>6
<1> QED
  BY <1>7 DEF Alive, k

(* One more request let through is counted in its own windows only.        *)
LEMMA GrantCounts ==
  ASSUME ClocksOK, TypeRest, NEW c \in Callers, Waiting(c), Patience(c), Grant(c, now),
         NEW w \in Window, Full(c) = {},
         \A b \in 0..MaxTime : CountedIn(w, b, counters[w][b]),
         counters'[w] = [counters[w] EXCEPT ![Key(c, w)] = Incremented(c, w)]
  PROVE  \A b \in 0..MaxTime : CountedIn(w, b, counters[w][b])'
<1> DEFINE length == Windows[w].length
<1>0. PICK key \in 0..MaxTime, new \in Counter : key = Key(c, w) /\ new = Incremented(c, w)
  BY KeyInRange, IncrementedTyped
<1>1. now \in Nat /\ caller[c].begun \in Nat /\ caller[c].begun <= now
  BY CallTypes DEF TypeRest
<1>2. /\ Len(granted) \in Nat /\ Len(granted') = Len(granted) + 1
      /\ \A i \in Grants : granted'[i] = granted[i]
      /\ granted'[Len(granted) + 1] = [at |-> now, begun |-> caller[c].begun]
  BY <1>1, GrantRecords
<1>3. granted'[Len(granted) + 1].begun \div length = key
  BY <1>0, <1>2 DEF Key
<1>4. /\ key \in 0..MaxTime /\ counters[w][key] \in Counter
      /\ key * length <= caller[c].begun /\ length \in Nat \ {0}
  BY <1>0, KeyInRange, WindowTypes
<1>5. \A b \in 0..MaxTime :
         BegunIn(w, b)' = IF b = key THEN BegunIn(w, b) \union {Len(granted) + 1}
                                     ELSE BegunIn(w, b)
  <2> SUFFICES ASSUME NEW b \in 0..MaxTime
               PROVE  BegunIn(w, b)' = IF b = key THEN BegunIn(w, b) \union {Len(granted) + 1}
                                                  ELSE BegunIn(w, b)
    OBVIOUS
  <2> HIDE DEF length
  <2>1. 1..Len(granted') = (1..Len(granted)) \union {Len(granted) + 1}
    BY <1>2
  <2>2. \A i \in 1..Len(granted) : granted'[i].begun = granted[i].begun
    BY <1>2 DEF Grants
  <2> QED
    BY <1>3, <2>1, <2>2 DEF BegunIn, length
<1>6. Len(granted) + 1 \notin BegunIn(w, key)
  BY <1>2 DEF BegunIn
<1>7. counters \in [Window -> [0..MaxTime -> Counter]]
  BY DEF TypeRest
<1>8. \A b \in 0..MaxTime : counters'[w][b] = IF b = key THEN new ELSE counters[w][b]
  BY <1>0, <1>4, <1>7
<1>9. /\ Cardinality(BegunIn(w, key)') = new.count /\ new.count <= Windows[w].cap
      /\ new.count # 0 /\ new.until >= key * length + 2 * length
  <2> DEFINE k == counters[w][key]
  <2>1. CountedIn(w, key, k)
    BY <1>4
  <2>2. k.count \in Nat /\ k.until \in Nat /\ k.count <= Windows[w].cap /\ Windows[w].cap \in Nat \ {0}
    BY <1>4, <2>1, WindowTypes DEF Counter, CountedIn
  <2>3. Cardinality(BegunIn(w, key)') = k.count + 1
    <3>1. Cardinality(BegunIn(w, key)) = k.count /\ IsFiniteSet(BegunIn(w, key))
      BY <2>1, BegunFinite DEF CountedIn
    <3>2. BegunIn(w, key)' = BegunIn(w, key) \union {Len(granted) + 1}
      BY <1>4, <1>5
    <3> QED
      BY <1>6, <3>1, <3>2, FS_AddElement
  <2>4. Alive(c, w) <=> k.count > 0
    BY <1>0, <2>1, CountingIsAlive
  <2>5. key * length \in Nat
    BY <1>4, ClockAssumption
  <2>6. CASE Alive(c, w)
    <3>1. new.count = k.count + 1 /\ new.until = k.until
      BY <1>0, <1>4, <2>6 DEF Incremented, Counter
    <3>2. k.count < Windows[w].cap
      <4>1. ~(Counted(c, w) >= Windows[w].cap)
        BY DEF Full
      <4>2. Counted(c, w) = k.count
        BY <1>0, <2>6 DEF Counted
      <4> QED
        BY <2>2, <4>1, <4>2
    <3>3. k.until >= key * length + 2 * length
      BY <2>1, <2>2, <2>4, <2>6 DEF CountedIn
    <3> HIDE DEF k, length
    <3> QED
      BY <2>2, <2>3, <3>1, <3>2, <3>3
  <2>7. CASE ~Alive(c, w)
    <3>1. new.count = 1 /\ new.until = now + 2 * length
      BY <1>0, <2>7 DEF Incremented, Lifetime
    <3>2. k.count = 0
      BY <2>2, <2>4, <2>7
    <3> HIDE DEF k, length
    <3>3. new.until >= key * length + 2 * length
      BY <1>1, <1>4, <2>5, <3>1
    <3> QED
      BY <2>2, <2>3, <3>1, <3>2, <3>3
  <2> QED
    BY <2>6, <2>7
<1>10. SUFFICES ASSUME NEW b \in 0..MaxTime PROVE CountedIn(w, b, counters[w][b])'
  OBVIOUS
<1>11. CASE b = key
  <2>1. counters'[w][b] = new
    BY <1>8, <1>11
  <2> QED
    BY <1>9, <1>11, <2>1 DEF CountedIn
<1>12. CASE b # key
  <2>1. BegunIn(w, b)' = BegunIn(w, b) /\ counters'[w][b] = counters[w][b]
    BY <1>5, <1>8, <1>12
  <2>2. CountedIn(w, b, counters[w][b])
    OBVIOUS
  <2> QED
    BY <2>1, <2>2 DEF CountedIn
<1> QED
  BY <1>11, <1>12

(* A refused caller that stays has not waited past its timeout.            *)
LEMMA RefusePatience ==
  ASSUME ClocksOK, TypeRest, Patient, NEW c \in Callers, Waiting(c),
         NEW wait \in Nat, Refuse(c, wait), now' = now
  PROVE  Patient'
<1>1. now \in Nat /\ caller[c].begun \in Nat /\ Timeout \in Nat /\ MaxSleep \in Nat
  BY CallTypes, ClockAssumption DEF TypeRest
<1>2. /\ \A d \in Callers \ {c} : caller'[d] = caller[d]
      /\ \/ caller'[c] = Idle
         \/ /\ now - caller[c].begun + wait <= Timeout
            /\ caller'[c].begun = caller[c].begun /\ caller'[c].tried = now
  BY <1>1, RefuseMoves
<1>3. Waiting(c)' => Patience(c)'
  BY <1>1, <1>2 DEF Waiting, Patience, Idle
<1> QED
  BY <1>2, <1>3 DEF Patient, Patience, Waiting

LEMMA CalendarStep == RateInv /\ TypeRest /\ CalendarInv /\ [Next]_vars => CalendarInv'
<1> SUFFICES ASSUME RateInv, TypeRest, CalendarInv, [Next]_vars, mode' = "redis"
             PROVE  /\ Patient'
                    /\ \A w \in Window, b \in 0..MaxTime : CountedIn(w, b, counters[w][b])'
  BY DEF CalendarInv
<1>1. mode' = mode
  BY DEF Next, Tick, Begin, RunScript, ReadClock, Locked, vars
<1>2. /\ ClocksOK /\ now \in Nat /\ Timeout \in Nat /\ MaxSleep \in Nat
      /\ mode = "redis" /\ Patient
      /\ \A w \in Window, b \in 0..MaxTime : CountedIn(w, b, counters[w][b])
  BY <1>1, BucketTypes, ClockAssumption DEF RateInv, CalendarInv
<1>3. ASSUME UNCHANGED <<counters, granted>>
      PROVE  \A w \in Window, b \in 0..MaxTime : CountedIn(w, b, counters[w][b])'
  BY <1>2, <1>3 DEF CountedIn, BegunIn
<1>4. CASE Tick
  <2>1. /\ now' = now + 1 /\ caller' = caller /\ UNCHANGED <<counters, granted>>
        /\ \A c \in Callers : Waiting(c) => now - caller[c].tried < MaxSleep
    BY <1>4 DEF Tick
  <2>2. \A c \in Callers : Waiting(c) => caller[c].tried \in Nat
    BY <1>2, CallTypes DEF TypeRest
  <2>3. Patient'
    BY <1>2, <2>1, <2>2 DEF Patient, Patience, Waiting
  <2> QED
    BY <1>3, <2>1, <2>3
<1>5. ASSUME NEW c \in Callers, Begin(c)
      PROVE  Patient' /\ UNCHANGED <<counters, granted>>
  <2>1. /\ caller' = [caller EXCEPT ![c] = [op |-> "asking", begun |-> now, tried |-> now, at |-> now]]
        /\ UNCHANGED <<now, counters, granted>>
    BY <1>5 DEF Begin
  <2> QED
    BY <1>2, <2>1 DEF ClocksOK, Patient, Patience, Waiting
<1>6. ASSUME NEW c \in Callers, RunScript(c)
      PROVE  /\ Patient'
             /\ \A w \in Window, b \in 0..MaxTime : CountedIn(w, b, counters[w][b])'
  <2>1. Waiting(c) /\ now' = now /\ Patience(c)
    BY <1>2, <1>6 DEF RunScript, Patient
  <2>2. CASE Full(c) # {}
    <3> DEFINE w == Min(Full(c))
               k == counters[w][Key(c, w)]
    <3>1. w \in Full(c)
      <4>1. Full(c) \in SUBSET Window /\ IsFiniteSet(Window) /\ Window \subseteq Int
        BY WindowTypes, FS_Interval DEF Full, Window
      <4>2. IsFiniteSet(Full(c)) /\ Full(c) \subseteq Int
        BY <4>1, FS_Subset
      <4> QED
        BY <2>2, <4>2, SmallestInFinite
    <3>2. w \in Window /\ Counted(c, w) >= Windows[w].cap
      BY <3>1 DEF Full
    <3> HIDE DEF w
    <3>3. Alive(c, w)
      BY <3>2, WindowTypes DEF Counted
    <3>4. k \in Counter /\ k.until > now
      BY <1>2, <2>1, <3>2, <3>3, KeyInRange DEF Alive
    <3>5. k.until - now \in Nat
      BY <1>2, <3>4 DEF Counter
    <3>6. Refuse(c, CounterWait(c, w)) /\ UNCHANGED <<counters, granted>>
      BY <1>6, <2>2 DEF RunScript, w
    <3>7. CounterWait(c, w) \in Nat
      <4>1. k.until - now + Second \div 2 \in Nat
        BY <3>5, ClockAssumption
      <4>2. WholeSeconds(k.until - now + Second \div 2) \in Nat
        BY <4>1, WholeSecondsDown
      <4> QED
        BY <3>2, <4>2, WindowTypes DEF CounterWait
    <3> HIDE DEF k
    <3> QED
      BY <1>2, <1>3, <2>1, <3>6, <3>7, RefusePatience
  <2>3. CASE Full(c) = {} /\ CurrentTokens >= Cost
    <3>1. /\ counters' = [w \in Window |-> [counters[w] EXCEPT ![Key(c, w)] = Incremented(c, w)]]
          /\ Grant(c, now)
      BY <1>6, <2>3 DEF RunScript
    <3>2. Patient'
      <4>1. caller'[c] = Idle /\ \A d \in Callers \ {c} : caller'[d] = caller[d]
        BY <1>2, <2>1, <3>1, GrantRecords
      <4> QED
        BY <1>2, <2>1, <4>1 DEF Patient, Patience, Waiting, Idle
    <3>3. \A w \in Window :
             counters'[w] = [counters[w] EXCEPT ![Key(c, w)] = Incremented(c, w)]
      BY <3>1
    <3>4. \A w \in Window : \A b \in 0..MaxTime : CountedIn(w, b, counters[w][b])'
      BY <1>2, <2>1, <2>3, <3>1, <3>3, GrantCounts
    <3> QED
      BY <3>2, <3>4
  <2>4. CASE Full(c) = {} /\ ~(CurrentTokens >= Cost)
    <3>1. Refuse(c, WholeSeconds(Cost - CurrentTokens)) /\ UNCHANGED <<counters, granted>>
      BY <1>6, <2>4 DEF RunScript
    <3>2. CurrentTokens \in 0..Capacity
      BY <1>2, TokensOfScript
    <3>3. WholeSeconds(Cost - CurrentTokens) \in Nat
      <4>1. Cost - CurrentTokens \in Nat
        BY <2>4, <3>2, CapacityIsNat
      <4> QED
        BY <4>1, WholeSecondsDown
    <3> QED
      BY <1>2, <1>3, <2>1, <3>1, <3>3, RefusePatience
  <2> QED
    BY <2>2, <2>3, <2>4
<1>7. ASSUME NEW c \in Callers, ReadClock(c) \/ Locked(c) PROVE FALSE
  BY <1>2, <1>7 DEF ReadClock, Locked
<1>8. CASE UNCHANGED vars
  <2>1. UNCHANGED <<now, caller, counters, granted>>
    BY <1>8 DEF vars
  <2> QED
    BY <1>2, <1>3, <2>1 DEF Patient, Patience, Waiting
<1> QED
  BY <1>3, <1>4, <1>5, <1>6, <1>7, <1>8 DEF Next

LEMMA CalendarInit == Init => CalendarInv
<1> SUFFICES ASSUME Init PROVE CalendarInv
  OBVIOUS
<1>1. Patient
  BY DEF Init, Patient, Waiting, Idle
<1>2. ASSUME NEW w \in Window, NEW b \in 0..MaxTime
      PROVE  CountedIn(w, b, counters[w][b])
  <2>1. counters[w][b] = NoKey /\ BegunIn(w, b) = {}
    BY <1>2 DEF Init, BegunIn
  <2> QED
    BY <2>1, WindowTypes, FS_EmptySet DEF CountedIn, NoKey
<1> QED
  BY <1>1, <1>2 DEF CalendarInv

(* With Redis, of the requests begun in one minute, hour or day no more    *)
(* than its cap are let through, for any number of callers and any windows *)
(* at least as long as a caller waits: the counters of the script expire,  *)
(* but never while a request that belongs to them may still come.          *)
THEOREM CapsHold == Spec => []CalendarCaps
<1>1. CalendarInv => CalendarCaps
  BY DEF CalendarInv, CalendarCaps, CountedIn, BegunIn
<1> QED
  BY <1>1, TypesAlways, CalendarInit, CalendarStep, PTL DEF Spec

----------------------------------------------------------------------------
(* The sliding windows without Redis.  First what the binary search finds  *)
(* in an ascending list.                                                   *)
Ascending(times) == \A i, j \in 1..Len(times) : i <= j => times[i] <= times[j]

Ranges(times) == (0..Len(times)) \X (0..Len(times))

Halved(times, x, search, r) ==
    LET lo == r[1]
        hi == r[2]
        mid == (lo + hi) \div 2
    IN  IF lo >= hi THEN lo
        ELSE IF times[mid + 1] < x THEN search[<<mid + 1, hi>>] ELSE search[<<lo, mid>>]

Searches(times, x, search) ==
    search = [r \in Ranges(times) |-> Halved(times, x, search, r)]

LEMMA BisectSearches ==
  ASSUME NEW times, NEW x
  PROVE  Bisect(times, x) =
           (CHOOSE search : Searches(times, x, search))[<<0, Len(times)>>]
BY DEF Bisect, Searches, Ranges, Halved

(* The first n are below x, the others are not. *)
Splits(times, x, n) == \A i \in 1..Len(times) : i <= n <=> times[i] < x

LEMMA AscendingSplits ==
  ASSUME NEW times \in Seq(Nat), NEW x \in Int, Ascending(times)
  PROVE  \E n \in 0..Len(times) : Splits(times, x, n)
<1> DEFINE low == {n \in 0..Len(times) : \A i \in 1..n : times[i] < x}
<1>1. Len(times) \in Nat /\ \A i \in 1..Len(times) : times[i] \in Nat
  OBVIOUS
<1>2. low \subseteq Int /\ low # {} /\ IsFiniteSet(low)
  <2>1. 0 \in low /\ low \in SUBSET (0..Len(times))
    BY <1>1
  <2>2. IsFiniteSet(0..Len(times))
    BY <1>1, FS_Interval
  <2> QED
    BY <2>1, <2>2, FS_Subset
<1>3. PICK n \in low : \A k \in low : k <= n
  <2> HIDE DEF low
  <2> QED
    BY <1>2, LargestInFinite
<1>4. n \in 0..Len(times) /\ \A i \in 1..n : times[i] < x
  OBVIOUS
<1>5. ASSUME NEW i \in 1..Len(times), n < i PROVE ~(times[i] < x)
  <2>1. n + 1 \in 0..Len(times) /\ n + 1 \in 1..Len(times) /\ n \in Nat
    BY <1>1, <1>4, <1>5
  <2>0. n + 1 \notin low
    <3> HIDE DEF low
    <3> QED
      BY <1>3, <2>1
  <2>2. PICK k \in 1..(n + 1) : ~(times[k] < x)
    BY <2>0, <2>1
  <2>3. k = n + 1
    BY <1>4, <2>2
  <2>4. times[n + 1] <= times[i]
    BY <1>1, <1>4, <1>5, <2>1 DEF Ascending
  <2> QED
    BY <1>1, <2>1, <2>2, <2>3, <2>4
<1>6. \A i \in 1..Len(times) : i <= n => times[i] < x
  BY <1>1, <1>4
<1>7. \A i \in 1..Len(times) : times[i] < x => i <= n
  BY <1>1, <1>4, <1>5
<1> QED
  BY <1>4, <1>6, <1>7 DEF Splits

(* The result of a search, written down at once. *)
Found(n, lo, hi) == IF lo >= hi \/ n <= lo THEN lo ELSE IF n <= hi THEN n ELSE hi

LEMMA FoundHalved ==
  ASSUME NEW times \in Seq(Nat), NEW x \in Int, NEW n \in 0..Len(times),
         Splits(times, x, n),
         NEW lo \in 0..Len(times), NEW hi \in 0..Len(times), lo < hi
  PROVE  LET mid == (lo + hi) \div 2 IN
         /\ mid \in 0..Len(times) /\ mid + 1 \in 0..Len(times) /\ lo <= mid /\ mid < hi
         /\ Found(n, lo, hi) = IF times[mid + 1] < x THEN Found(n, mid + 1, hi)
                                                     ELSE Found(n, lo, mid)
<1>1. PICK mid \in Nat : mid = (lo + hi) \div 2 /\ lo <= mid /\ mid < hi
  <2>1. lo \in Nat /\ hi \in Nat
    OBVIOUS
  <2> QED
    BY <2>1
<1>2. mid + 1 \in 1..Len(times) /\ mid \in 0..Len(times)
  BY <1>1
<1>3. mid + 1 <= n <=> times[mid + 1] < x
  BY <1>2 DEF Splits
<1>4. Found(n, lo, hi) = IF times[mid + 1] < x THEN Found(n, mid + 1, hi) ELSE Found(n, lo, mid)
  <2>1. CASE mid + 1 <= n
    BY <1>1, <1>2, <1>3, <2>1 DEF Found
  <2>2. CASE ~(mid + 1 <= n)
    BY <1>1, <1>2, <1>3, <2>2 DEF Found
  <2> QED
    BY <2>1, <2>2
<1> QED
  BY <1>1, <1>2, <1>4

LEMMA SearchOfRange ==
  ASSUME NEW times \in Seq(Nat), NEW x, NEW search, Searches(times, x, search),
         NEW lo \in 0..Len(times), NEW hi \in 0..Len(times)
  PROVE  search[<<lo, hi>>] =
           IF lo >= hi THEN lo
           ELSE IF times[((lo + hi) \div 2) + 1] < x THEN search[<<((lo + hi) \div 2) + 1, hi>>]
                                                     ELSE search[<<lo, (lo + hi) \div 2>>]
<1>1. <<lo, hi>> \in Ranges(times) /\ <<lo, hi>>[1] = lo /\ <<lo, hi>>[2] = hi
  BY DEF Ranges
<1>2. search[<<lo, hi>>] = Halved(times, x, search, <<lo, hi>>)
  BY <1>1, Zenon DEF Searches
<1> QED
  BY <1>1, <1>2 DEF Halved

LEMMA SearchExists ==
  ASSUME NEW times \in Seq(Nat), NEW x \in Int, NEW n \in 0..Len(times),
         Splits(times, x, n)
  PROVE  \E search : Searches(times, x, search)
<1> DEFINE found == [r \in Ranges(times) |-> Found(n, r[1], r[2])]
<1>1. SUFFICES ASSUME NEW r \in Ranges(times)
               PROVE  Halved(times, x, found, r) = Found(n, r[1], r[2])
  BY Zenon DEF Searches
<1>2. PICK lo \in 0..Len(times), hi \in 0..Len(times) : r[1] = lo /\ r[2] = hi
  BY DEF Ranges
<1>3. \A a, b \in 0..Len(times) : found[<<a, b>>] = Found(n, a, b)
  <2> SUFFICES ASSUME NEW a \in 0..Len(times), NEW b \in 0..Len(times)
               PROVE  found[<<a, b>>] = Found(n, a, b)
    OBVIOUS
  <2>1. <<a, b>> \in Ranges(times) /\ <<a, b>>[1] = a /\ <<a, b>>[2] = b
    BY DEF Ranges
  <2> QED
    BY <2>1
<1> HIDE DEF found
<1>4. CASE lo >= hi
  BY <1>2, <1>4 DEF Halved, Found
<1>5. CASE ~(lo >= hi)
  <2>1. PICK mid : mid = (lo + hi) \div 2
    OBVIOUS
  <2>2. lo < hi
    BY <1>5
  <2>3. /\ mid \in 0..Len(times) /\ mid + 1 \in 0..Len(times)
        /\ Found(n, lo, hi) = IF times[mid + 1] < x THEN Found(n, mid + 1, hi)
                                                    ELSE Found(n, lo, mid)
    BY <2>1, <2>2, FoundHalved
  <2>4. found[<<mid + 1, hi>>] = Found(n, mid + 1, hi) /\ found[<<lo, mid>>] = Found(n, lo, mid)
    BY <1>3, <2>3
  <2> QED
    BY <1>2, <1>5, <2>1, <2>3, <2>4 DEF Halved
<1> QED
  BY <1>4, <1>5

(* Every search ends with that result: a shortest range for which it did   *)
(* not would be split into a shorter one for which it did not.             *)
LEMMA SearchFinds ==
  ASSUME NEW times \in Seq(Nat), NEW x \in Int, NEW n \in 0..Len(times),
         Splits(times, x, n),
         NEW search, Searches(times, x, search)
  PROVE  \A lo, hi \in 0..Len(times) : search[<<lo, hi>>] = Found(n, lo, hi)
<1> DEFINE all == 1..Len(times)
           Wrong(lo, hi) == search[<<lo, hi>>] # Found(n, lo, hi)
           bad == {r \in Ranges(times) : Wrong(r[1], r[2])}
           spans == {(r[1] + 1)..r[2] : r \in bad}
<1>1. SUFFICES ASSUME bad # {} PROVE FALSE
  <2> SUFFICES ASSUME NEW lo \in 0..Len(times), NEW hi \in 0..Len(times), Wrong(lo, hi)
               PROVE  bad # {}
    OBVIOUS
  <2>1. <<lo, hi>> \in Ranges(times) /\ <<lo, hi>>[1] = lo /\ <<lo, hi>>[2] = hi
    BY DEF Ranges
  <2> QED
    BY <2>1
<1>2. Len(times) \in Nat
  OBVIOUS
<1>3. spans \subseteq SUBSET all /\ spans # {}
  <2>1. \A r \in bad : r[1] \in 0..Len(times) /\ r[2] \in 0..Len(times)
    BY DEF Ranges
  <2>2. \A r \in bad : (r[1] + 1)..r[2] \subseteq all
    BY <1>2, <2>1
  <2> HIDE DEF bad, all
  <2> QED
    BY <1>1, <2>2
<1>4. spans \subseteq FiniteSubsetsOf(all)
  <2>1. IsFiniteSet(all)
    BY <1>2, FS_Interval
  <2>2. FiniteSubsetsOf(all) = SUBSET all
    BY <2>1, FS_FiniteSubsetsOfFinite
  <2> QED
    BY <1>3, <2>2
<1>5. PICK span \in spans : \A other \in spans : <<other, span>> \notin StrictSubsetOrdering(all)
  <2>1. IsWellFoundedOn(StrictSubsetOrdering(all), FiniteSubsetsOf(all))
    BY FS_StrictSubsetOrderingWellFounded
  <2> HIDE DEF spans, all
  <2> QED
    BY <1>3, <1>4, <2>1, WFMin
<1>6. PICK lo \in 0..Len(times), hi \in 0..Len(times) : Wrong(lo, hi) /\ span = (lo + 1)..hi
  BY <1>5 DEF Ranges
<1>7. lo < hi
  <2> SUFFICES ASSUME lo >= hi PROVE FALSE
    BY <1>2
  <2>1. search[<<lo, hi>>] = lo
    BY SearchOfRange
  <2> QED
    BY <1>6, <2>1 DEF Found
<1>8. PICK mid \in 0..Len(times) :
         /\ mid = (lo + hi) \div 2 /\ mid + 1 \in 0..Len(times) /\ lo <= mid /\ mid < hi
         /\ Found(n, lo, hi) = IF times[mid + 1] < x THEN Found(n, mid + 1, hi)
                                                     ELSE Found(n, lo, mid)
  BY <1>7, FoundHalved
<1>9. search[<<lo, hi>>] = IF times[mid + 1] < x THEN search[<<mid + 1, hi>>]
                                                 ELSE search[<<lo, mid>>]
  <2>1. ~(lo >= hi)
    BY <1>2, <1>7
  <2>2. search[<<lo, hi>>] =
           IF lo >= hi THEN lo
           ELSE IF times[((lo + hi) \div 2) + 1] < x THEN search[<<((lo + hi) \div 2) + 1, hi>>]
                                                     ELSE search[<<lo, (lo + hi) \div 2>>]
    BY SearchOfRange
  <2> QED
    BY <1>8, <2>1, <2>2, Zenon
<1>10. ASSUME NEW a \in 0..Len(times), NEW b \in 0..Len(times), Wrong(a, b),
              (a + 1)..b \subseteq span, (a + 1)..b # span
       PROVE  FALSE
  <2> DEFINE other == (a + 1)..b
  <2>1. <<a, b>> \in Ranges(times) /\ <<a, b>>[1] = a /\ <<a, b>>[2] = b
    BY DEF Ranges
  <2>2. <<a, b>> \in bad
    BY <1>10, <2>1
  <2>3. other \in spans
    <3> HIDE DEF bad
    <3> QED
      BY <2>1, <2>2
  <2>4. other \in SUBSET all /\ span \in SUBSET all
    BY <1>3, <2>3
  <2> HIDE DEF other, spans, all
  <2>5. <<other, span>> \in StrictSubsetOrdering(all)
    BY <1>10, <2>4 DEF StrictSubsetOrdering, other
  <2> QED
    BY <1>5, <2>3, <2>5
<1>11. ~Wrong(mid + 1, hi)
  <2>1. ((mid + 1) + 1)..hi \subseteq span /\ mid + 1 \in span /\ mid + 1 \notin ((mid + 1) + 1)..hi
    BY <1>2, <1>6, <1>8
  <2> QED
    BY <1>8, <1>10, <2>1
<1>12. ~Wrong(lo, mid)
  <2>1. (lo + 1)..mid \subseteq span /\ hi \in span /\ hi \notin (lo + 1)..mid
    BY <1>2, <1>6, <1>8
  <2> QED
    BY <1>8, <1>10, <2>1
<1> QED
  BY <1>6, <1>8, <1>9, <1>11, <1>12

(* bisect_left on an ascending list: what stands before is below x, the    *)
(* rest is not.                                                            *)
LEMMA BisectFinds ==
  ASSUME NEW times \in Seq(Nat), NEW x \in Int, Ascending(times)
  PROVE  /\ Bisect(times, x) \in 0..Len(times)
         /\ \A i \in 1..Len(times) : i <= Bisect(times, x) <=> times[i] < x
<1>1. PICK n \in 0..Len(times) : Splits(times, x, n)
  BY AscendingSplits
<1> DEFINE search == CHOOSE s : Searches(times, x, s)
<1>2. Searches(times, x, search)
  BY <1>1, SearchExists
<1>3. Bisect(times, x) = search[<<0, Len(times)>>]
  BY BisectSearches
<1> HIDE DEF search
<1>4. 0 \in 0..Len(times) /\ Len(times) \in 0..Len(times) /\ Len(times) \in Nat
  OBVIOUS
<1>5. search[<<0, Len(times)>>] = Found(n, 0, Len(times))
  BY <1>1, <1>2, <1>4, SearchFinds
<1>6. Found(n, 0, Len(times)) = n
  BY <1>4 DEF Found
<1> QED
  BY <1>1, <1>3, <1>5, <1>6 DEF Splits

(***************************************************************************)
(* The list is the end of the record of the requests let through; those    *)
(* that were dropped from it are older than any window.                    *)
(***************************************************************************)
Dropped == Len(granted) - Len(history)

Recorded ==
    /\ Dropped \in Nat
    /\ \A i \in 1..Len(history) : history[i] = granted[Dropped + i].at
    /\ \A i \in 1..Dropped, w \in Window : granted[i].at + Windows[w].length < last

InOrder == \A i, j \in 1..Len(granted) : i <= j => granted[i].at <= granted[j].at

SpacedIn(w) ==
    \A i, j \in 1..Len(granted) :
        j - i + 1 > Windows[w].cap => granted[j].at - granted[i].at >= Windows[w].length

SlidingInv ==
    mode = "memory" /\ ~overtaken => Recorded /\ InOrder /\ \A w \in Window : SpacedIn(w)

(* No wait for a window means room in it: whatever fills it up is as old.  *)
LEMMA WindowWaitSpaces ==
  ASSUME NEW times \in Seq(Nat), Ascending(times), NEW at \in Nat, NEW w \in Window
  PROVE  /\ WindowWait(times, w, at) \in Nat
         /\ WindowWait(times, w, at) = 0 =>
              \A i \in 1..Len(times) :
                  i <= Len(times) + 1 - Windows[w].cap => at - times[i] >= Windows[w].length
<1>1. PICK length \in Nat, cap \in Nat \ {0} : length = Windows[w].length /\ cap = Windows[w].cap
  BY WindowTypes
<1>2. PICK b \in 0..Len(times) :
         /\ b = Bisect(times, at - length)
         /\ \A i \in 1..Len(times) : i <= b <=> times[i] < at - length
  <2>1. at - length \in Int
    BY <1>1
  <2>2. /\ Bisect(times, at - length) \in 0..Len(times)
        /\ \A i \in 1..Len(times) : i <= Bisect(times, at - length) <=> times[i] < at - length
    BY <2>1, BisectFinds
  <2> QED
    BY <2>2
<1>3. Len(times) \in Nat /\ \A i \in 1..Len(times) : times[i] \in Nat
  OBVIOUS
<1> DEFINE full == Len(times) + 1 - cap
<1>4. /\ Excess(times, w, at) = full - b /\ b + Excess(times, w, at) = full
      /\ full \in Int /\ full <= Len(times)
  BY <1>1, <1>2, <1>3 DEF Excess
<1>5. CASE full <= b
  <2>1. WindowWait(times, w, at) = 0
    BY <1>2, <1>3, <1>4, <1>5 DEF WindowWait
  <2>2. \A i \in 1..Len(times) : i <= full => at - times[i] >= length
    BY <1>2, <1>3, <1>4, <1>5
  <2> QED
    BY <1>1, <2>1, <2>2
<1>6. CASE full > b
  <2>1. full \in 1..Len(times) /\ times[full] \in Nat
    BY <1>2, <1>3, <1>4, <1>6
  <2>2. WindowWait(times, w, at) = Max({0, times[full] + length - at})
    <3>1. Excess(times, w, at) > 0
      BY <1>2, <1>4, <1>6
    <3>2. Bisect(times, at - Windows[w].length) + Excess(times, w, at) = full
      BY <1>1, <1>2, <1>4
    <3> HIDE DEF full
    <3> QED
      BY <1>1, <3>1, <3>2, Zenon DEF WindowWait
  <2> HIDE DEF full
  <2>3. times[full] + length - at \in Int
    BY <1>1, <2>1
  <2>4. Max({0, times[full] + length - at}) =
          IF 0 >= times[full] + length - at THEN 0 ELSE times[full] + length - at
    BY <2>3, MaxOfTwo
  <2>5. WindowWait(times, w, at) \in Nat
    BY <2>2, <2>3, <2>4
  <2>6. ASSUME WindowWait(times, w, at) = 0, NEW i \in 1..Len(times), i <= full
        PROVE  at - times[i] >= length
    <3>1. times[full] + length - at <= 0
      BY <2>2, <2>3, <2>4, <2>6
    <3>2. times[i] <= times[full]
      BY <2>1, <2>6 DEF Ascending
    <3>3. times[i] \in Nat /\ times[full] \in Nat /\ length \in Nat
      BY <1>1, <1>3, <2>1
    <3> QED
      BY <3>1, <3>2, <3>3
  <2> QED
    BY <1>1, <2>5, <2>6 DEF full
<1> QED
  BY <1>2, <1>3, <1>4, <1>5, <1>6

LEMMA LongestIsLongest ==
  ASSUME NEW times \in Seq(Nat), Ascending(times), NEW at \in Nat,
         LongestWait(times, at) = 0
  PROVE  \A w \in Window : WindowWait(times, w, at) = 0
<1> DEFINE waits == {WindowWait(times, w, at) : w \in Window}
           f == [w \in Window |-> WindowWait(times, w, at)]
<1>1. \A w \in Window : WindowWait(times, w, at) \in Nat
  BY WindowWaitSpaces
<1>2. IsFiniteSet(waits)
  <2>1. IsFiniteSet(Window)
    BY WindowTypes, FS_Interval DEF Window
  <2>2. f \in Surjection(Window, waits)
    BY DEF Surjection
  <2> HIDE DEF f, waits
  <2> QED
    BY <2>1, <2>2, FS_Surjection
<1>3. waits \subseteq Nat
  BY <1>1
<1> DEFINE all == {0} \union waits
<1>4. all \subseteq Int /\ all # {} /\ IsFiniteSet(all)
  <2> HIDE DEF waits
  <2>1. IsFiniteSet(waits \union {0})
    BY <1>2, FS_AddElement
  <2>2. waits \union {0} = all
    OBVIOUS
  <2>3. all \subseteq Int /\ all # {}
    BY <1>3
  <2> QED
    BY <2>1, <2>2, <2>3
<1>5. Max(all) = 0
  BY DEF LongestWait
<1>6. \A v \in all : v <= 0
  <2> HIDE DEF all
  <2> QED
    BY <1>4, <1>5, LargestInFinite
<1> QED
  BY <1>1, <1>6

LEMMA LockedSlides ==
  ASSUME RateInv, TypeRest, SlidingInv, NEW c \in Callers, Locked(c)
  PROVE  SlidingInv'
<1> DEFINE at == caller[c].at
           left == Refilled(at)
           wait == LongestWait(Pruned(at), at)
<1>1. /\ mode = "memory" /\ Waiting(c) /\ UNCHANGED <<now, mode>> /\ last' = at
      /\ overtaken' = (overtaken \/ at < last)
  BY DEF Locked, Waiting
<1>2. /\ ClocksOK /\ Past /\ at \in Nat /\ last \in Nat /\ overtaken \in BOOLEAN
  <2>1. ClocksOK /\ Past
    BY DEF RateInv, TypeRest
  <2> QED
    BY <1>1, <2>1, CallTypes, BucketTypes DEF ClocksOK
<1> SUFFICES ASSUME ~overtaken'
             PROVE  Recorded' /\ InOrder' /\ \A w \in Window : SpacedIn(w)'
  BY DEF SlidingInv
<1>3. ~overtaken /\ last <= at
  <2>1. ~overtaken /\ ~(at < last)
    BY <1>1, Zenon
  <2> QED
    BY <1>2, <2>1
<1>4. Recorded /\ InOrder /\ \A w \in Window : SpacedIn(w)
  BY <1>1, <1>3 DEF SlidingInv
<1>5. /\ history \in Seq(Nat) /\ Len(history) \in Nat /\ Len(granted) \in Nat
      /\ \A i \in 1..Len(granted) : granted[i].at \in Nat /\ granted[i].at <= at
  <2>1. history \in Seq(Nat)
    <3>1. history \in Seq(0..now) /\ now \in Nat
      BY <1>2, BucketTypes DEF TypeRest
    <3>2. history = [i \in 1..Len(history) |-> history[i]] /\ Len(history) \in Nat
      BY <3>1
    <3>3. \A i \in 1..Len(history) : history[i] \in Nat
      BY <3>1
    <3> QED
      BY <3>2, <3>3
  <2>2. \A i \in Grants : granted[i].at \in Nat /\ granted[i].at <= last
    BY <1>2, <1>3, GrantTypes DEF RateInv, Balanced
  <2> QED
    BY <1>2, <1>3, <2>1, <2>2, GrantTypes DEF Grants
<1> HIDE DEF at
<1>6. PICK n \in 0..Len(history) :
         /\ Pruned(at) = SubSeq(history, n + 1, Len(history))
         /\ \A i \in 1..n, w \in Window : history[i] < at - Windows[w].length
  BY <1>2, <1>5, PrunedIsSuffix
<1>7. PICK P \in Seq(Nat) :
         /\ P = Pruned(at) /\ Len(P) = Len(history) - n
         /\ \A i \in 1..Len(P) : P[i] = history[n + i]
  <2>1. /\ Pruned(at) \in Seq(Nat) /\ Len(Pruned(at)) = Len(history) - n
        /\ \A i \in 1..(Len(history) - n) : Pruned(at)[i] = history[n + i]
    BY <1>5, <1>6
  <2> QED
    BY <2>1
<1> HIDE DEF left, wait
<1>12. n \in Nat /\ n <= Len(history) /\ Len(P) \in Nat /\ Len(P) = Len(history) - n
  BY <1>5, <1>6, <1>7
<1>8. PICK d \in Nat :
         /\ d = Dropped + n /\ Len(granted) = d + Len(P)
         /\ \A i \in 1..Len(P) : P[i] = granted[d + i].at /\ d + i \in 1..Len(granted)
  <2>1. Dropped \in Nat /\ Len(granted) = Dropped + Len(history)
    BY <1>4, <1>5 DEF Recorded, Dropped
  <2>2. Len(granted) = Dropped + n + Len(P) /\ Dropped + n \in Nat
    BY <1>5, <1>12, <2>1
  <2>3. ASSUME NEW i \in 1..Len(P)
        PROVE  P[i] = granted[Dropped + n + i].at /\ Dropped + n + i \in 1..Len(granted)
    <3> DEFINE h == Len(history)
               p == Len(P)
    <3>0. h \in Nat /\ p \in Nat /\ n \in Nat /\ p = h - n
      BY <1>5, <1>12
    <3> HIDE DEF h, p
    <3>1. n + i \in 1..h /\ i \in Nat /\ n \in Nat
      <4>1. i \in 1..p
        BY DEF p
      <4> QED
        BY <3>0, <4>1
    <3>2. history[n + i] = granted[Dropped + (n + i)].at
      BY <1>4, <3>1 DEF Recorded, h
    <3>3. Dropped + (n + i) = Dropped + n + i /\ Dropped + (n + i) \in 1..(Dropped + h)
      BY <2>1, <3>0, <3>1
    <3>4. P[i] = history[n + i]
      BY <1>7
    <3> QED
      BY <2>1, <3>2, <3>3, <3>4 DEF h
  <2> QED
    BY <2>2, <2>3
<1>9. \A i \in 1..d, w \in Window : granted[i].at + Windows[w].length < at
  <2> SUFFICES ASSUME NEW i \in 1..d, NEW w \in Window
               PROVE  granted[i].at + Windows[w].length < at
    OBVIOUS
  <2>1. Windows[w].length \in Nat /\ granted[i].at \in Nat /\ Dropped \in Nat
    <3>1. i \in 1..Len(granted)
      BY <1>5, <1>7, <1>8
    <3> QED
      BY <1>4, <1>5, <3>1, WindowTypes DEF Recorded
  <2>2. CASE i <= Dropped
    <3>1. granted[i].at + Windows[w].length < last
      BY <1>4, <2>1, <2>2 DEF Recorded
    <3> QED
      BY <1>2, <1>3, <2>1, <3>1
  <2>3. CASE ~(i <= Dropped)
    <3>1. i - Dropped \in 1..n /\ i - Dropped \in 1..Len(history) /\ Dropped + (i - Dropped) = i
      BY <1>5, <1>6, <1>8, <2>1, <2>3
    <3>2. history[i - Dropped] = granted[i].at
      BY <1>4, <3>1 DEF Recorded
    <3>3. history[i - Dropped] < at - Windows[w].length
      BY <1>6, <3>1
    <3> QED
      BY <1>2, <2>1, <3>2, <3>3
  <2> QED
    BY <2>2, <2>3
<1>10. CASE wait = 0 /\ left >= Cost
  <2>1. history' = Append(P, at) /\ Grant(c, at)
    BY <1>7, <1>10 DEF Locked, at, left, wait
  <2>2. /\ Len(history') = Len(P) + 1 /\ history'[Len(P) + 1] = at
        /\ \A i \in 1..Len(P) : history'[i] = P[i]
    BY <1>2, <1>7, <2>1
  <2>3. /\ Len(granted') = Len(granted) + 1
        /\ \A i \in 1..Len(granted) : granted'[i] = granted[i]
        /\ granted'[Len(granted) + 1].at = at
    <3>1. /\ Len(granted') = Len(granted) + 1
          /\ \A i \in Grants : granted'[i] = granted[i]
          /\ granted'[Len(granted) + 1] = [at |-> at, begun |-> caller[c].begun]
      BY <1>1, <1>2, <2>1, GrantRecords
    <3> QED
      BY <3>1 DEF Grants
  <2>4. Dropped' = d
    <3>1. Dropped' = (Len(granted) + 1) - (Len(P) + 1)
      BY <2>2, <2>3 DEF Dropped
    <3>2. Len(granted) = d + Len(P) /\ d \in Nat /\ Len(P) \in Nat
      BY <1>8, <1>12
    <3> QED
      BY <3>1, <3>2
  <2>5. \A i \in 1..Len(history') : history'[i] = granted'[d + i].at
    <3> SUFFICES ASSUME NEW i \in 1..Len(history') PROVE history'[i] = granted'[d + i].at
      OBVIOUS
    <3>1. CASE i \in 1..Len(P)
      BY <1>8, <2>2, <2>3, <3>1
    <3>2. CASE i \notin 1..Len(P)
      <4>1. i = Len(P) + 1 /\ d + i = Len(granted) + 1
        BY <1>7, <1>8, <2>2, <3>2
      <4> QED
        BY <2>2, <2>3, <4>1
    <3> QED
      BY <3>1, <3>2
  <2>6. Recorded'
    <3>1. \A i \in 1..d, w \in Window : granted'[i].at + Windows[w].length < last'
      <4>1. \A i \in 1..d : i \in 1..Len(granted)
        BY <1>5, <1>8, <1>12
      <4>2. last' = at
        BY <1>1 DEF at
      <4> QED
        BY <1>9, <2>3, <4>1, <4>2
    <3> QED
      BY <2>4, <2>5, <3>1 DEF Recorded
  <2>7. \A i \in 1..Len(granted') :
           \/ i \in 1..Len(granted) /\ granted'[i].at = granted[i].at
           \/ i = Len(granted) + 1 /\ granted'[i].at = at
    <3> DEFINE g == Len(granted)
    <3>1. g \in Nat /\ Len(granted') = g + 1
      BY <1>5, <2>3
    <3> HIDE DEF g
    <3>2. \A i \in 1..(g + 1) : i \in 1..g \/ i = g + 1
      BY <3>1
    <3> QED
      BY <2>3, <3>1, <3>2 DEF g
  <2>8. InOrder'
    <3> SUFFICES ASSUME NEW i \in 1..Len(granted'), NEW j \in 1..Len(granted'), i <= j
                 PROVE  granted'[i].at <= granted'[j].at
      BY DEF InOrder
    <3>1. CASE j \in 1..Len(granted)
      <4>1. i \in 1..Len(granted)
        BY <1>5, <3>1
      <4> QED
        BY <1>4, <2>3, <3>1, <4>1 DEF InOrder
    <3>2. CASE j = Len(granted) + 1
      <4>1. granted'[j].at = at
        BY <2>3, <3>2
      <4>2. CASE i \in 1..Len(granted)
        <5>1. granted'[i].at = granted[i].at
          BY <2>3, <4>2
        <5>2. granted[i].at \in Nat /\ granted[i].at <= at
          BY <1>2, <1>3, <1>5, <4>2
        <5> QED
          BY <4>1, <5>1, <5>2
      <4>3. CASE i = Len(granted) + 1
        BY <1>2, <4>1, <4>3, <3>2
      <4> QED
        BY <2>7, <4>2, <4>3
    <3> QED
      BY <2>7, <3>1, <3>2
  <2>9. ASSUME NEW w \in Window PROVE SpacedIn(w)'
    <3>0. PICK length \in Nat, cap \in Nat \ {0} : length = Windows[w].length /\ cap = Windows[w].cap
      BY WindowTypes
    <3>1. Ascending(P)
      <4> SUFFICES ASSUME NEW i \in 1..Len(P), NEW j \in 1..Len(P), i <= j PROVE P[i] <= P[j]
        BY DEF Ascending
      <4>1. d + i <= d + j
        BY <1>7, <1>8
      <4> QED
        BY <1>4, <1>8, <4>1 DEF InOrder
    <3>2. LongestWait(P, at) = 0
      BY <1>7, <1>10 DEF at, wait
    <3>3. WindowWait(P, w, at) = 0
      BY <1>2, <3>1, <3>2, LongestIsLongest
    <3>4. \A i \in 1..Len(P) : i <= Len(P) + 1 - cap => at - P[i] >= length
      BY <1>2, <3>0, <3>1, <3>3, WindowWaitSpaces
    <3>5. SUFFICES ASSUME NEW i \in 1..Len(granted'), NEW j \in 1..Len(granted'), j - i + 1 > cap
                   PROVE  granted'[j].at - granted'[i].at >= length
      BY <3>0 DEF SpacedIn
    <3>6. CASE j \in 1..Len(granted)
      <4>1. i \in 1..Len(granted)
        BY <1>5, <2>3, <3>0, <3>5, <3>6
      <4>2. SpacedIn(w)
        BY <1>4
      <4> QED
        BY <2>3, <3>0, <3>5, <3>6, <4>1, <4>2 DEF SpacedIn
    <3>7. CASE j = Len(granted) + 1
      <4>1. i \in 1..Len(granted) /\ i <= Len(granted) + 1 - cap
        BY <1>5, <2>3, <3>0, <3>5, <3>7
      <4>2. granted'[i].at = granted[i].at /\ granted[i].at \in Nat /\ granted'[j].at = at
        BY <1>5, <2>3, <3>7, <4>1
      <4>3. CASE i <= d
        <5>1. granted[i].at + length < at
          BY <1>9, <3>0, <4>1, <4>3
        <5> QED
          BY <1>2, <3>0, <4>2, <5>1
      <4>4. CASE ~(i <= d)
        <5>1. i - d \in 1..Len(P) /\ i - d <= Len(P) + 1 - cap /\ d + (i - d) = i
          <6>1. PICK k \in Nat, p \in Nat, g \in Nat : k = i /\ p = Len(P) /\ g = Len(granted)
            <7>1. i \in Nat
              BY <1>5, <4>1
            <7> QED
              BY <1>5, <1>12, <7>1
          <6>2. k <= g + 1 - cap /\ g = d + p /\ k <= g /\ ~(k <= d)
            <7>1. k <= g
              BY <4>1, <6>1
            <7> QED
              BY <1>8, <4>1, <4>4, <6>1, <7>1
          <6>3. k - d \in 1..p /\ k - d <= p + 1 - cap /\ d + (k - d) = k
            BY <6>2
          <6> QED
            BY <6>1, <6>3
        <5>2. P[i - d] = granted[i].at
          BY <1>8, <5>1
        <5> QED
          BY <3>4, <4>2, <5>1, <5>2
      <4> QED
        BY <4>3, <4>4
    <3> QED
      BY <2>7, <3>6, <3>7
  <2> QED
    BY <2>6, <2>8, <2>9
<1>11. CASE ~(wait = 0 /\ left >= Cost)
  <2>1. history' = P /\ granted' = granted
    BY <1>7, <1>11 DEF Locked, at, left, wait
  <2>2. Dropped' = d
    <3>1. Len(granted) = d + Len(P) /\ Len(P) \in Nat
      BY <1>8, <1>12
    <3>2. PICK p \in Nat, g \in Nat : p = Len(P) /\ g = Len(granted)
      BY <1>5, <3>1
    <3>3. Dropped' = g - p
      BY <1>7, <2>1, <3>2 DEF Dropped
    <3>4. g = d + p
      BY <3>1, <3>2
    <3> QED
      BY <3>3, <3>4
  <2>3. Recorded'
    BY <1>1, <1>8, <1>9, <2>1, <2>2 DEF Recorded, at
  <2> QED
    BY <1>4, <2>1, <2>3 DEF InOrder, SpacedIn
<1> QED
  BY <1>10, <1>11

LEMMA SlidingStep == RateInv /\ TypeRest /\ SlidingInv /\ [Next]_vars => SlidingInv'
<1> SUFFICES ASSUME RateInv, TypeRest, SlidingInv, [Next]_vars PROVE SlidingInv'
  OBVIOUS
<1>1. CASE UNCHANGED <<mode, last, history, granted, overtaken>>
  BY <1>1 DEF SlidingInv, Recorded, Dropped, InOrder, SpacedIn
<1>2. CASE Tick \/ UNCHANGED vars
  BY <1>1, <1>2 DEF Tick, vars
<1>3. ASSUME NEW c \in Callers, Begin(c) \/ ReadClock(c) PROVE SlidingInv'
  BY <1>1, <1>3 DEF Begin, ReadClock
<1>4. ASSUME NEW c \in Callers, RunScript(c) PROVE SlidingInv'
  BY <1>4 DEF RunScript, SlidingInv
<1>5. ASSUME NEW c \in Callers, Locked(c) PROVE SlidingInv'
  BY <1>5, LockedSlides
<1> QED
  BY <1>2, <1>3, <1>4, <1>5 DEF Next

LEMMA SlidingInit == Init => SlidingInv
<1> SUFFICES ASSUME Init PROVE SlidingInv
  OBVIOUS
<1>1. Len(history) = 0 /\ Len(granted) = 0
  BY DEF Init
<1> QED
  BY <1>1 DEF SlidingInv, Recorded, Dropped, InOrder, SpacedIn

(* Without Redis, in any minute, hour or day, wherever it begins, no more  *)
(* requests than its cap are let through, as long as no thread used a      *)
(* clock reading older than that of the thread before it: the binary search*)
(* finds where the window begins, and what was pruned is older than any.   *)
THEOREM CapsSlide == Spec => []SlidingCaps
<1>1. SlidingInv => SlidingCaps
  BY DEF SlidingInv, SlidingCaps, SpacedIn
<1> QED
  BY <1>1, TypesAlways, SlidingInit, SlidingStep, PTL DEF Spec
================================================================================
