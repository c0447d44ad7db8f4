------------------------------ MODULE RateLimiter ------------------------------
(***************************************************************************)
(* backend/app/dhan/limiter.py: every request to Dhan first takes a token  *)
(* out of the bucket of its category and counts against windows of a       *)
(* minute, an hour and a day.  The callers are threads of all the processes*)
(* that share one limiter.  It is either                                   *)
(*   a RedisTokenBucket: a Lua script, atomic and with the clock of the    *)
(*   server, but with window counters under keys which the caller computed *)
(*   before it began to wait, and which expire; or                         *)
(*   an InMemoryTokenBucket, when there is no Redis: a lock, the clock read*)
(*   before the lock is taken, and a list of the times of all requests.    *)
(* A caller that is refused sleeps and tries again until it would wait     *)
(* longer than its timeout.                                                *)
(*                                                                         *)
(* Time is counted in ticks of any length, and tokens in the ticks it takes*)
(* for them to come in: a request costs Cost, the bucket holds Burst       *)
(* requests.  How long a caller sleeps is left open up to MaxSleep; a      *)
(* thread that is due runs before the clock moves on.  There is one clock: *)
(* the callers and the Redis server run on one host.                       *)
(***************************************************************************)
EXTENDS Integers, Sequences, FiniteSets, FiniteSetsExt

CONSTANTS Callers,   \* threads
          Burst,     \* capacity of the bucket, in requests
          Cost,      \* ticks for one token: 1 / rate
          TokenTtl,  \* ttl_seconds of the keys of the bucket
          Windows,   \* the windows, shortest first: their length and their cap
          Second,    \* ticks of a second: Redis counts in whole ones
          Timeout,   \* timeout of acquire
          MaxSleep,  \* max_delay_seconds
          MaxTime    \* bound: the clock

Window == 1..Len(Windows)
Capacity == Burst * Cost

ASSUME BucketAssumption == Burst \in Nat \ {0} /\ Cost \in Nat \ {0}
(* 3600 seconds fill any of the configured buckets. *)
ASSUME TtlAssumption == TokenTtl \in Nat /\ TokenTtl >= Capacity
(* A minute is longer than a caller waits; no window is longer than a day. *)
ASSUME WindowAssumption ==
    /\ Windows \in Seq([length: Nat \ {0}, cap: Nat \ {0}])
    /\ \A w \in Window : /\ Windows[w].length >= Timeout + MaxSleep
                         /\ Windows[w].length <= Windows[Len(Windows)].length
ASSUME ClockAssumption ==
    Second \in Nat \ {0} /\ Timeout \in Nat /\ MaxSleep \in Nat /\ MaxTime \in Nat

VARIABLES now,        \* the clock
          mode,       \* which limiter get_dhan_rate_limiter made
          tokens,     \* in the bucket when it was last looked at
          last,       \* and when that was
          kept,       \* when the keys of the bucket expire (Redis)
          counters,   \* of every window and bucket number, with their expiry (Redis)
          history,    \* _history: times of the requests let through (memory)
          caller,     \* the acquire call of every caller
          granted,    \* the requests let through: when, and begun when (history)
          overtaken   \* was a clock read used after a later one (history)

vars == <<now, mode, tokens, last, kept, counters, history, caller, granted, overtaken>>

Idle == [op |-> "idle"]
NoKey == [count |-> 0, until |-> 0]

Init ==
    /\ now = 0
    /\ mode \in {"redis", "memory"}
    /\ tokens = Capacity
    /\ last = 0
    /\ kept = 0
    /\ counters = [w \in Window |-> [b \in 0..MaxTime |-> NoKey]]
    /\ history = << >>
    /\ caller = [c \in Callers |-> Idle]
    /\ granted = << >>
    /\ overtaken = FALSE

Waiting(c) == caller[c].op # "idle"

Tick ==
    /\ now < MaxTime
    /\ \A c \in Callers : Waiting(c) => now - caller[c].tried < MaxSleep
    /\ now' = now + 1
    /\ UNCHANGED <<mode, tokens, last, kept, counters, history, caller, granted, overtaken>>

Begin(c) ==
    /\ ~Waiting(c)
    /\ caller' = [caller EXCEPT ![c] = [op |-> "asking", begun |-> now, tried |-> now, at |-> now]]
    /\ UNCHANGED <<now, mode, tokens, last, kept, counters, history, granted, overtaken>>

(* For the checks of the properties: a bucket without a bottom. *)
Topped_Unlimited(n) == n

Topped(n) == Min({Capacity, n})

(* For the checks of the properties: last_time never moved on. *)
Refilled_FromStart(at) == Topped(tokens + at)

Refilled(at) == Topped(tokens + Max({0, at - last}))

(* A refused caller sleeps or, if that would take too long, gives up. *)
Refuse(c, wait) ==
    IF now - caller[c].begun + wait > Timeout
    THEN caller' = [caller EXCEPT ![c] = Idle]
    ELSE caller' = [caller EXCEPT ![c].op = "asking", ![c].tried = now]

Grant(c, at) ==
    /\ granted' = Append(granted, [at |-> at, begun |-> caller[c].begun])
    /\ caller' = [caller EXCEPT ![c] = Idle]

(***************************************************************************)
(* RedisTokenBucket.                                                       *)
(***************************************************************************)
(* For the checks of the properties: counters that live too short a time.  *)
Lifetime_Window(w) == Windows[w].length

Lifetime(w) == 2 * Windows[w].length

Key(c, w) == caller[c].begun \div Windows[w].length
Alive(c, w) == counters[w][Key(c, w)].until > now
Counted(c, w) == IF Alive(c, w) THEN counters[w][Key(c, w)].count ELSE 0
Full(c) == {w \in Window : Counted(c, w) >= Windows[w].cap}

Incremented(c, w) ==
    IF Alive(c, w)
    THEN [counters[w][Key(c, w)] EXCEPT !.count = @ + 1]
    ELSE [count |-> 1, until |-> now + Lifetime(w)]

CurrentTokens == IF now >= kept THEN Capacity ELSE Refilled(now)

(* Redis drops the fraction of a number in the reply of a script, so that  *)
(* a caller short of less than a second of tokens is told to wait for none.*)
WholeSeconds(t) == t - (t % Second)

(* TTL rounds what is left of a counter; half a second or less reads as no *)
(* time at all, and the script puts the length of the window instead.      *)
CounterWait(c, w) ==
    LET left == WholeSeconds(counters[w][Key(c, w)].until - now + Second \div 2)
    IN  IF left > 0 THEN left ELSE Windows[w].length

RunScript(c) ==
    /\ mode = "redis"
    /\ Waiting(c)
    /\ IF Full(c) # {}
       THEN /\ Refuse(c, CounterWait(c, Min(Full(c))))
            /\ UNCHANGED <<tokens, last, kept, counters, granted>>
       ELSE /\ last' = now
            /\ kept' = now + TokenTtl
            /\ IF CurrentTokens >= Cost
               THEN /\ tokens' = CurrentTokens - Cost
                    /\ counters' = [w \in Window |->
                                       [counters[w] EXCEPT ![Key(c, w)] = Incremented(c, w)]]
                    /\ Grant(c, now)
               ELSE /\ tokens' = CurrentTokens
                    /\ Refuse(c, WholeSeconds(Cost - CurrentTokens))
                    /\ UNCHANGED <<counters, granted>>
    /\ UNCHANGED <<now, mode, history, overtaken>>

(***************************************************************************)
(* InMemoryTokenBucket.                                                    *)
(***************************************************************************)
ReadClock(c) ==
    /\ mode = "memory"
    /\ caller[c].op = "asking"
    /\ caller' = [caller EXCEPT ![c].op = "locking", ![c].at = now]
    /\ UNCHANGED <<now, mode, tokens, last, kept, counters, history, granted, overtaken>>

(* bisect_left: how many times stand before the first that is not below x. *)
Bisect(times, x) ==
    LET search[r \in (0..Len(times)) \X (0..Len(times))] ==
            LET lo == r[1]
                hi == r[2]
                mid == (lo + hi) \div 2
            IN  IF lo >= hi THEN lo
                ELSE IF times[mid + 1] < x THEN search[<<mid + 1, hi>>] ELSE search[<<lo, mid>>]
    IN  search[<<0, Len(times)>>]

Pruned(at) ==
    LET old == {n \in 0..Len(history) :
                   \A i \in 1..n : history[i] < at - Windows[Len(Windows)].length}
    IN  IF Windows = << >> THEN history ELSE SubSeq(history, Max(old) + 1, Len(history))

(* For the checks of the properties: one request too many. *)
Excess_OffByOne(times, w, at) ==
    Len(times) - Bisect(times, at - Windows[w].length) - Windows[w].cap

Excess(times, w, at) ==
    Len(times) - Bisect(times, at - Windows[w].length) + 1 - Windows[w].cap

(* Until the oldest of the requests in excess leaves the window. *)
WindowWait(times, w, at) ==
    LET i == Bisect(times, at - Windows[w].length) + Excess(times, w, at)
    IN  IF Excess(times, w, at) > 0 THEN Max({0, times[i] + Windows[w].length - at}) ELSE 0

LongestWait(times, at) == Max({0} \union {WindowWait(times, w, at) : w \in Window})

Locked(c) ==
    /\ mode = "memory"
    /\ caller[c].op = "locking"
    /\ LET at == caller[c].at
           left == Refilled(at)
           wait == LongestWait(Pruned(at), at)
       IN  /\ last' = at
           /\ overtaken' = (overtaken \/ at < last)
           /\ IF wait = 0 /\ left >= Cost
              THEN /\ tokens' = left - Cost
                   /\ history' = Append(Pruned(at), at)
                   /\ Grant(c, at)
              ELSE /\ tokens' = left
                   /\ history' = Pruned(at)
                   /\ Refuse(c, Max({wait, Cost - left}))
                   /\ UNCHANGED granted
    /\ UNCHANGED <<now, mode, kept, counters>>

Next ==
    \/ Tick
    \/ \E c \in Callers : Begin(c) \/ RunScript(c) \/ ReadClock(c) \/ Locked(c)

Spec == Init /\ [][Next]_vars

(***************************************************************************)
(* Properties.                                                             *)
(***************************************************************************)
(* Every variable stays in its type; in particular the bucket never holds  *)
(* less than nothing or more than its capacity.                            *)
TypeOK ==
    /\ now \in 0..MaxTime /\ last \in 0..now /\ kept \in Nat
    /\ mode \in {"redis", "memory"}
    /\ tokens \in 0..Capacity
    /\ counters \in [Window -> [0..MaxTime -> [count: Nat, until: Nat]]]
    /\ history \in Seq(0..now)
    /\ \A c \in Callers : \/ caller[c] = Idle
                          \/ /\ caller[c].op \in {"asking", "locking"}
                             /\ caller[c].begun \in 0..now /\ caller[c].tried \in 0..now
                             /\ caller[c].at \in 0..now
    /\ granted \in Seq([at: 0..now, begun: 0..now])
    /\ overtaken \in BOOLEAN

(* Concurrent callers "never exceed Capacity + Rate x T requests within    *)
(* time window T" (docs/qa/acceptance/F0.6.md:53), whichever requests the  *)
(* window runs from and to, though callers wait, give up and come back and *)
(* the keys of the bucket expire; without Redis, as long as no thread used *)
(* a clock reading older than that of the thread before it.                *)
RateBounded ==
    ~overtaken =>
        \A i, j \in 1..Len(granted) :
            i <= j => (j - i + 1) * Cost <= Capacity + (granted[j].at - granted[i].at)

(* Per-minute, per-hour and per-day caps with Redis: of the requests begun *)
(* in one window of the calendar no more than its cap are let through, even*)
(* if they waited into the next one and the counters of the old one expire *)
(* meanwhile.                                                              *)
CalendarCaps ==
    mode = "redis" =>
        \A w \in Window : \A b \in 0..MaxTime :
            Cardinality({i \in 1..Len(granted) : granted[i].begun \div Windows[w].length = b})
                <= Windows[w].cap

(* The same caps without Redis: no more than its cap within the length of a*)
(* window, wherever it begins.                                             *)
SlidingCaps ==
    mode = "memory" /\ ~overtaken =>
        \A w \in Window : \A i, j \in 1..Len(granted) :
            j - i + 1 > Windows[w].cap => granted[j].at - granted[i].at >= Windows[w].length
================================================================================
