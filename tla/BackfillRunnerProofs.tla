------------------------ MODULE BackfillRunnerProofs ------------------------
(***************************************************************************)
(* Proofs about BackfillRunner.  The types, that a drain is made of the    *)
(* transactions of the queue and the operations of the publisher, and that *)
(* it leaves no lease behind, hold for any number of workers.  The others  *)
(* are about one worker, which is how the process is run.                  *)
(***************************************************************************)
EXTENDS BackfillRunner, TLAPS

USE DEF queue, warehouse, runner, vars

(* The steps at which the worker has a window in hand, and those at which  *)
(* a batch is being dealt with.                                            *)
InHand == {"fetching", "retiring"}
Emptying == {"publishing", "checkpointing", "committing", "covering", "releasing"}

(* What a worker at step s with window w, batch b and n windows attempted  *)
(* keeps to: a batch is flushed when it is full, and never empty while it  *)
(* is dealt with.                                                          *)
Fits(s, w, b, n) ==
  /\ s \in InHand \cup {"claiming"} => w \in Windows /\ n < MaxWindows
  /\ Len(b) <= BatchSize
  /\ s \in InHand \cup {"draining", "claiming"} => Len(b) < BatchSize
  /\ s \in Emptying => b # <<>>
  /\ s = "stopped" => b = <<>>

RunnerTypes ==
  /\ step \in [Workers -> Steps]
  /\ current \in [Workers -> Windows \cup {NoWindow}]
  /\ batch \in [Workers -> Seq(Fetched)]
  /\ tried \in [Workers -> 0 .. MaxWindows]
  /\ stopping \in [Workers -> BOOLEAN]
  /\ covered \in [Windows -> Nat]
  /\ \A r \in Workers : Fits(step[r], current[r], batch[r], tried[r])

LEMMA Numbers == BatchSize \in Nat \ {0} /\ MaxWindows \in Nat \ {0} /\ MaxAttempts \in Nat \ {0}
BY RunnerAssumption, PartsAssumption DEF RunnerAssumption, PartsAssumption

----------------------------------------------------------------------------
(* Batches.                                                                *)

LEMMA TailOfBatch ==
  ASSUME NEW b \in Seq(Fetched), b # <<>>
  PROVE  /\ Tail(b) \in Seq(Fetched) /\ Len(Tail(b)) = Len(b) - 1 /\ Len(b) \in Nat \ {0}
         /\ \A i \in 1 .. Len(Tail(b)) : i + 1 \in 1 .. Len(b) /\ Tail(b)[i] = b[i + 1]
         /\ Len(b) > 1 => Tail(b) # <<>>
         /\ ~(Len(b) > 1) => Tail(b) = <<>>
         /\ b[1] \in Fetched /\ b[1].win \in Windows /\ b[1].bars \in BOOLEAN
<1>1. Len(b) \in Nat \ {0} /\ 1 \in 1 .. Len(b)
  OBVIOUS
<1>2. b[1] \in Fetched
  BY <1>1
<1>3. b[1].win \in Windows /\ b[1].bars \in BOOLEAN
  BY <1>2 DEF Fetched
<1> HIDE DEF Fetched
<1>4. Tail(b) \in Seq(Fetched) /\ Len(Tail(b)) = Len(b) - 1
  OBVIOUS
<1>5. \A i \in 1 .. Len(Tail(b)) : i + 1 \in 1 .. Len(b) /\ Tail(b)[i] = b[i + 1]
  <2> SUFFICES ASSUME NEW i \in 1 .. Len(Tail(b))
               PROVE  i + 1 \in 1 .. Len(b) /\ Tail(b)[i] = b[i + 1]
    OBVIOUS
  <2>1. i \in 1 .. (Len(b) - 1)
    BY <1>4
  <2>2. i + 1 \in 1 .. Len(b)
    BY <1>1, <2>1
  <2>3. Tail(b)[i] = b[i + 1]
    BY <1>1, <2>1
  <2> QED
    BY <2>2, <2>3
<1>6. Tail(b) = <<>> <=> Len(Tail(b)) = 0
  <2> DEFINE t == Tail(b)
  <2>1. t \in Seq(Fetched)
    BY <1>4
  <2> HIDE DEF t
  <2>2. t = <<>> <=> Len(t) = 0
    BY <2>1
  <2> QED
    BY <2>2 DEF t
<1>7. (Len(b) > 1 => Tail(b) # <<>>) /\ (~(Len(b) > 1) => Tail(b) = <<>>)
  BY <1>1, <1>4, <1>6
<1> QED
  BY <1>1, <1>2, <1>3, <1>4, <1>5, <1>6, <1>7

LEMMA AppendToBatch ==
  ASSUME NEW b \in Seq(Fetched), NEW f \in Fetched
  PROVE  /\ Append(b, f) \in Seq(Fetched) /\ Len(Append(b, f)) = Len(b) + 1 /\ Len(b) \in Nat
         /\ \A i \in 1 .. Len(Append(b, f)) :
              \/ i \in 1 .. Len(b) /\ Append(b, f)[i] = b[i]
              \/ i = Len(b) + 1 /\ Append(b, f)[i] = f
         /\ Append(b, f) # <<>>
BY DEF Fetched

----------------------------------------------------------------------------
(* The types of the runner's own variables.                                *)

(* Worker r moves to step s with window w, batch b and n windows attempted.*)
Moves(r, s, w, b, n, q) ==
  /\ step' = [step EXCEPT ![r] = s] /\ current' = [current EXCEPT ![r] = w]
  /\ batch' = [batch EXCEPT ![r] = b] /\ tried' = [tried EXCEPT ![r] = n]
  /\ stopping' = [stopping EXCEPT ![r] = q]

LEMMA WorkerMoves ==
  ASSUME RunnerTypes, NEW r \in Workers,
         NEW s \in Steps, NEW w \in Windows \cup {NoWindow}, NEW b \in Seq(Fetched),
         NEW n \in 0 .. MaxWindows, NEW q \in BOOLEAN,
         Moves(r, s, w, b, n, q), Fits(s, w, b, n),
         covered' \in [Windows -> Nat]
  PROVE  RunnerTypes'
<1>1. /\ step' \in [Workers -> Steps]
      /\ current' \in [Workers -> Windows \cup {NoWindow}]
      /\ batch' \in [Workers -> Seq(Fetched)]
      /\ tried' \in [Workers -> 0 .. MaxWindows]
      /\ stopping' \in [Workers -> BOOLEAN]
  BY DEF RunnerTypes, Moves
<1>2. ASSUME NEW x \in Workers
      PROVE  Fits(step'[x], current'[x], batch'[x], tried'[x])
  <2>1. CASE x = r
    BY <2>1 DEF RunnerTypes, Moves
  <2>2. CASE x # r
    BY <2>2 DEF RunnerTypes, Moves
  <2> QED
    BY <2>1, <2>2
<1> QED
  BY <1>1, <1>2 DEF RunnerTypes

(* What a worker has, and that a variable left alone is left alone at r.   *)
LEMMA OfWorker ==
  ASSUME RunnerTypes, NEW r \in Workers
  PROVE  /\ step[r] \in Steps /\ current[r] \in Windows \cup {NoWindow}
         /\ batch[r] \in Seq(Fetched) /\ Len(batch[r]) \in Nat
         /\ tried[r] \in 0 .. MaxWindows /\ stopping[r] \in BOOLEAN
         /\ covered \in [Windows -> Nat]
         /\ Fits(step[r], current[r], batch[r], tried[r])
         /\ step = [step EXCEPT ![r] = step[r]]
         /\ current = [current EXCEPT ![r] = current[r]]
         /\ batch = [batch EXCEPT ![r] = batch[r]]
         /\ tried = [tried EXCEPT ![r] = tried[r]]
         /\ stopping = [stopping EXCEPT ![r] = stopping[r]]
BY DEF RunnerTypes

(* Where a flush goes.                                                     *)
LEMMA FlushGoes ==
  ASSUME RunnerTypes, NEW r \in Workers
  PROVE  AfterFlush(r) \in Steps /\ AfterFlush(r) \in {"stopped", "draining"}
BY OfWorker DEF AfterFlush, Steps

(* Dropping the first of the batch.                                        *)
LEMMA DropFirst ==
  ASSUME RunnerTypes, NEW r \in Workers, step[r] \in Emptying,
         NEW again \in Emptying, again \in Steps
  PROVE  /\ Rest(r, again) \in Steps
         /\ Tail(batch[r]) \in Seq(Fetched)
         /\ Fits(Rest(r, again), current[r], Tail(batch[r]), tried[r])
         /\ First(r) \in Fetched /\ First(r).win \in Windows /\ First(r).bars \in BOOLEAN
<1>1. batch[r] \in Seq(Fetched) /\ batch[r] # <<>> /\ Len(batch[r]) <= BatchSize
  BY OfWorker DEF Fits
<1>2. AfterFlush(r) \in {"stopped", "draining"} /\ AfterFlush(r) \in Steps
  BY FlushGoes
<1> DEFINE t == Tail(batch[r])
<1>3. /\ t \in Seq(Fetched) /\ Len(t) = Len(batch[r]) - 1 /\ Len(batch[r]) \in Nat \ {0}
      /\ Len(batch[r]) > 1 => t # <<>>
      /\ ~(Len(batch[r]) > 1) => t = <<>>
      /\ First(r) \in Fetched /\ First(r).win \in Windows /\ First(r).bars \in BOOLEAN
  BY <1>1, TailOfBatch DEF First
<1> HIDE DEF t
<1>4. CASE Len(batch[r]) > 1
  <2>1. Rest(r, again) = again
    BY <1>4 DEF Rest
  <2> QED
    BY <1>1, <1>3, <1>4, <2>1, Numbers DEF Fits, Emptying, InHand, t
<1>5. CASE ~(Len(batch[r]) > 1)
  <2>1. Rest(r, again) = AfterFlush(r) /\ t = <<>> /\ Len(t) = 0
    BY <1>3, <1>5 DEF Rest
  <2> QED
    BY <1>2, <1>3, <2>1, Numbers DEF Fits, Emptying, InHand, t
<1> QED
  BY <1>4, <1>5

(* A drain up to the answer to a request.                                  *)
LEMMA DrainTypes ==
  ASSUME RunnerTypes, NEW r \in Workers,
         \/ StartDrain(r) \/ ClaimNext(r) \/ Claimed(r) \/ LoopEnds(r) \/ FetchBars(r)
         \/ FetchEmpty(r) \/ FetchRefused(r) \/ FetchFails(r) \/ Retired(r)
  PROVE  RunnerTypes'
<1>0. /\ step[r] \in Steps /\ current[r] \in Windows \cup {NoWindow}
      /\ batch[r] \in Seq(Fetched) /\ Len(batch[r]) \in Nat
      /\ tried[r] \in 0 .. MaxWindows /\ stopping[r] \in BOOLEAN
      /\ covered \in [Windows -> Nat]
      /\ Fits(step[r], current[r], batch[r], tried[r])
  BY OfWorker
<1>1. CASE StartDrain(r)
  <2>1. Moves(r, "draining", current[r], batch[r], 0, FALSE) /\ step[r] = "stopped"
    BY <1>1, OfWorker DEF StartDrain, Goto, Set, Moves
  <2>2. Fits("draining", current[r], batch[r], 0) /\ 0 \in 0 .. MaxWindows
    BY <1>0, <2>1, Numbers DEF Fits, InHand, Emptying
  <2> QED
    BY <1>0, <1>1, <2>1, <2>2, WorkerMoves DEF StartDrain, Steps
<1>2. CASE ClaimNext(r)
  <2>1. PICK w \in Windows :
          Moves(r, "claiming", w, batch[r], tried[r], stopping[r])
    BY <1>2, OfWorker DEF ClaimNext, Select, Goto, Set, Moves
  <2>2. step[r] = "draining" /\ tried[r] < MaxWindows /\ covered' = covered
    BY <1>2 DEF ClaimNext, Select, Goto
  <2>3. Fits("claiming", w, batch[r], tried[r])
    BY <1>0, <2>2 DEF Fits, InHand, Emptying
  <2> QED
    BY <1>0, <2>1, <2>2, <2>3, WorkerMoves DEF Steps
<1>7. CASE Claimed(r)
  <2>1. /\ Moves(r, "fetching", current[r], batch[r], tried[r], stopping[r])
        /\ step[r] = "claiming" /\ covered' = covered
    BY <1>7, OfWorker DEF Claimed, Goto, Moves
  <2>2. Fits("fetching", current[r], batch[r], tried[r])
    BY <1>0, <2>1 DEF Fits, InHand, Emptying
  <2> QED
    BY <1>0, <2>1, <2>2, WorkerMoves DEF Steps
<1>3. CASE LoopEnds(r)
  <2>1. Moves(r, "flushing", current[r], batch[r], tried[r], TRUE) /\ covered' = covered
    BY <1>3, OfWorker DEF LoopEnds, Goto, Set, Moves
  <2>2. Fits("flushing", current[r], batch[r], tried[r])
    BY <1>0 DEF Fits, InHand, Emptying
  <2> QED
    BY <1>0, <2>1, <2>2, WorkerMoves DEF Steps
<1>4. ASSUME NEW bars \in BOOLEAN, Append1(r, bars) PROVE RunnerTypes'
  <2> DEFINE to == IF Len(batch[r]) + 1 >= BatchSize THEN "flushing" ELSE "draining"
             f == [win |-> current[r], bars |-> bars]
             b == Append(batch[r], f)
  <2>1. /\ Moves(r, to, NoWindow, b, tried[r] + 1, stopping[r]) /\ covered' = covered
        /\ step[r] = "fetching"
    BY <1>4, OfWorker DEF Append1, Progressed, Goto, Set, Moves
  <2>2. current[r] \in Windows /\ tried[r] + 1 \in 0 .. MaxWindows
        /\ Len(batch[r]) < BatchSize
    BY <1>0, <2>1, Numbers DEF Fits, InHand
  <2>3. f \in Fetched
    BY <2>2 DEF Fetched
  <2>4. b \in Seq(Fetched) /\ Len(b) = Len(batch[r]) + 1 /\ b # <<>>
    BY <1>0, <2>3, AppendToBatch
  <2>5. to \in {"flushing", "draining"}
    OBVIOUS
  <2>6. Fits(to, NoWindow, b, tried[r] + 1)
    BY <1>0, <2>2, <2>4, <2>5, Numbers DEF Fits, InHand, Emptying
  <2> HIDE DEF to, b
  <2> QED
    BY <1>0, <2>1, <2>2, <2>4, <2>5, <2>6, WorkerMoves DEF Steps
<1>5. CASE FetchRefused(r)
  <2>1. Moves(r, "retiring", current[r], batch[r], tried[r], stopping[r]) /\ covered' = covered
        /\ step[r] = "fetching"
    BY <1>5, OfWorker DEF FetchRefused, Set, Moves
  <2>2. Fits("retiring", current[r], batch[r], tried[r])
    BY <1>0, <2>1 DEF Fits, InHand, Emptying
  <2> QED
    BY <1>0, <2>1, <2>2, WorkerMoves DEF Steps
<1>6. CASE FetchFails(r) \/ Retired(r)
  <2>1. Moves(r, "draining", NoWindow, batch[r], tried[r] + 1, stopping[r])
        /\ covered' = covered /\ step[r] \in InHand
    BY <1>6, OfWorker DEF FetchFails, Retired, Progressed, Goto, Set, Moves, InHand
  <2>2. Fits("draining", NoWindow, batch[r], tried[r] + 1) /\ tried[r] + 1 \in 0 .. MaxWindows
    BY <1>0, <2>1, Numbers DEF Fits, InHand, Emptying
  <2> QED
    BY <1>0, <2>1, <2>2, WorkerMoves DEF Steps
<1> QED
  BY <1>1, <1>2, <1>3, <1>4, <1>5, <1>6, <1>7 DEF FetchBars, FetchEmpty

(* A drain that is interrupted, and a crash.                               *)
LEMMA FaultTypes ==
  ASSUME RunnerTypes, NEW r \in Workers,
         \/ StopForBudget(r) \/ AuthFails(r) \/ Renewed(r) \/ RenewalFails(r) \/ Park(r)
         \/ PublishFails(r) \/ Crash(r)
  PROVE  RunnerTypes'
<1>0. /\ step[r] \in Steps /\ current[r] \in Windows \cup {NoWindow}
      /\ batch[r] \in Seq(Fetched) /\ Len(batch[r]) \in Nat
      /\ tried[r] \in 0 .. MaxWindows /\ stopping[r] \in BOOLEAN
      /\ covered \in [Windows -> Nat]
      /\ Fits(step[r], current[r], batch[r], tried[r])
  BY OfWorker
<1>1. CASE StopForBudget(r) \/ AuthFails(r)
  <2>1. PICK s \in {"flushing", "renewing"} :
          Moves(r, s, NoWindow, batch[r], tried[r], TRUE)
    BY <1>1, OfWorker DEF StopForBudget, AuthFails, Interrupted, Goto, Set, Moves
  <2>2. Fits(s, NoWindow, batch[r], tried[r]) /\ covered' = covered
    BY <1>0, <1>1 DEF Fits, InHand, Emptying, StopForBudget, AuthFails
  <2> QED
    BY <1>0, <2>1, <2>2, WorkerMoves DEF Steps
<1>2. CASE Renewed(r) \/ RenewalFails(r) \/ Park(r)
  <2>1. PICK s \in {"flushing", "pausing"} :
          Moves(r, s, current[r], batch[r], tried[r], stopping[r])
    BY <1>2, OfWorker DEF Renewed, RenewalFails, Park, Goto, Moves
  <2>2. Fits(s, current[r], batch[r], tried[r]) /\ covered' = covered
    BY <1>0, <1>2 DEF Fits, InHand, Emptying, Renewed, RenewalFails, Park
  <2> QED
    BY <1>0, <2>1, <2>2, WorkerMoves DEF Steps
<1>3. CASE PublishFails(r)
  BY <1>3 DEF PublishFails, RunnerTypes
<1>4. CASE Crash(r)
  <2>1. Moves(r, "stopped", NoWindow, <<>>, 0, FALSE) /\ covered' = covered
    BY <1>4 DEF Crash, Set, Moves
  <2>2. Fits("stopped", NoWindow, <<>>, 0) /\ <<>> \in Seq(Fetched) /\ 0 \in 0 .. MaxWindows
    BY Numbers DEF Fits, InHand, Emptying
  <2> QED
    BY <1>0, <2>1, <2>2, WorkerMoves DEF Steps
<1> QED
  BY <1>1, <1>2, <1>3, <1>4

LEMMA FlushTypes ==
  ASSUME RunnerTypes, NEW r \in Workers, Flush(r)
  PROVE  RunnerTypes'
<1>0. /\ step[r] \in Steps /\ current[r] \in Windows \cup {NoWindow}
      /\ batch[r] \in Seq(Fetched) /\ Len(batch[r]) \in Nat
      /\ tried[r] \in 0 .. MaxWindows /\ stopping[r] \in BOOLEAN
      /\ covered \in [Windows -> Nat]
      /\ Fits(step[r], current[r], batch[r], tried[r])
  BY OfWorker
<1>1. CASE FlushNothing(r)
  <2>1. Moves(r, AfterFlush(r), current[r], batch[r], tried[r], stopping[r])
        /\ covered' = covered /\ batch[r] = <<>>
    BY <1>1, OfWorker DEF FlushNothing, Goto, Moves
  <2>2. AfterFlush(r) \in {"stopped", "draining"} /\ AfterFlush(r) \in Steps
    BY FlushGoes
  <2>3. Fits(AfterFlush(r), current[r], batch[r], tried[r])
    BY <1>0, <2>1, <2>2, Numbers DEF Fits, InHand, Emptying
  <2> QED
    BY <1>0, <2>1, <2>2, <2>3, WorkerMoves
<1>2. CASE FlushBatch(r) \/ PublishEnds(r) \/ Checkpoint(r)
  <2>1. PICK s \in Emptying \cap Steps :
          Moves(r, s, current[r], batch[r], tried[r], stopping[r])
    BY <1>2, OfWorker
      DEF FlushBatch, PublishEnds, Checkpoint, Goto, Moves, Emptying, Steps
  <2>2. batch[r] # <<>> /\ covered' = covered
    BY <1>0, <1>2 DEF FlushBatch, PublishEnds, Checkpoint, Goto, Fits, Emptying
  <2>3. Fits(s, current[r], batch[r], tried[r])
    BY <1>0, <2>1, <2>2 DEF Fits, InHand, Emptying
  <2> QED
    BY <1>0, <2>1, <2>2, <2>3, WorkerMoves
<1>3. CASE Publish(r)
  BY <1>3 DEF Publish, RunnerTypes
<1>4. CASE CommitCheckpoint(r) /\ First(r).bars
  <2>1. Moves(r, "covering", current[r], batch[r], tried[r], stopping[r])
        /\ covered' = covered /\ step[r] = "committing"
    BY <1>4, OfWorker DEF CommitCheckpoint, Goto, Moves
  <2>2. Fits("covering", current[r], batch[r], tried[r])
    BY <1>0, <2>1 DEF Fits, InHand, Emptying
  <2> QED
    BY <1>0, <2>1, <2>2, WorkerMoves DEF Steps
<1>5. ASSUME NEW again \in Emptying \cap Steps, step[r] \in Emptying,
             Moves(r, Rest(r, again), current[r], Tail(batch[r]), tried[r], stopping[r]),
             covered' \in [Windows -> Nat]
      PROVE  RunnerTypes'
  BY <1>0, <1>5, DropFirst, WorkerMoves
<1>6. {"checkpointing", "releasing"} \subseteq Emptying \cap Steps
  BY DEF Emptying, Steps
<1>7. CASE CommitCheckpoint(r) /\ ~First(r).bars
  <2>1. Moves(r, Rest(r, "checkpointing"), current[r], Tail(batch[r]), tried[r], stopping[r])
        /\ covered' = covered /\ step[r] \in Emptying
    BY <1>7, OfWorker DEF CommitCheckpoint, Goto, Set, Moves, Emptying
  <2> QED
    BY <1>0, <1>5, <1>6, <2>1
<1>8. CASE UpsertCoverage(r)
  <2>1. Moves(r, Rest(r, "checkpointing"), current[r], Tail(batch[r]), tried[r], stopping[r])
        /\ step[r] \in Emptying
        /\ covered' = [covered EXCEPT ![First(r).win] = @ + 1]
    BY <1>8, OfWorker DEF UpsertCoverage, Goto, Set, Moves, Emptying
  <2>2. PICK w \in Windows : w = First(r).win
    BY <1>6, <2>1, DropFirst
  <2>3. covered' \in [Windows -> Nat]
    BY <1>0, <2>1, <2>2
  <2> QED
    BY <1>5, <1>6, <2>1, <2>3
<1>9. CASE ReleaseBatch(r)
  <2>1. Moves(r, Rest(r, "releasing"), current[r], Tail(batch[r]), tried[r], stopping[r])
        /\ covered' = covered /\ step[r] \in Emptying
    BY <1>9, OfWorker DEF ReleaseBatch, Goto, Set, Moves, Emptying
  <2> QED
    BY <1>0, <1>5, <1>6, <2>1
<1> QED
  BY <1>1, <1>2, <1>3, <1>4, <1>7, <1>8, <1>9 DEF Flush

LEMMA InitRunnerTypes == Init => RunnerTypes
<1> SUFFICES ASSUME Init PROVE RunnerTypes
  OBVIOUS
<1>1. <<>> \in Seq(Fetched) /\ 0 \in 0 .. MaxWindows
  BY Numbers
<1>2. \A r \in Workers : Fits(step[r], current[r], batch[r], tried[r])
  BY Numbers DEF Init, Fits, InHand, Emptying
<1> QED
  BY <1>1, <1>2 DEF Init, RunnerTypes, Steps

LEMMA StepRunnerTypes == RunnerTypes /\ [Next]_vars => RunnerTypes'
<1> SUFFICES ASSUME RunnerTypes, [Next]_vars PROVE RunnerTypes'
  OBVIOUS
<1>1. ASSUME NEW r \in Workers, Progress(r) \/ Fault(r) PROVE RunnerTypes'
  BY <1>1, DrainTypes, FaultTypes, FlushTypes DEF Progress, Fault, Fetch
<1>2. CASE UNCHANGED <<runner, covered>>
  BY <1>2 DEF RunnerTypes
<1> QED
  BY <1>1, <1>2 DEF Next, Operator, Elapse

----------------------------------------------------------------------------
(* A drain is made of the transactions of the queue and the file           *)
(* operations of the publisher.                                            *)

LEMMA DrainIsQueued ==
  ASSUME RunnerTypes, NEW r \in Workers, Progress(r) \/ Fault(r)
  PROVE  Q!WorkerStep(r) \/ Q!Reclaim \/ UNCHANGED queue
<1>1. current[r] \in Windows \/ step[r] \notin InHand
  BY OfWorker DEF Fits
<1>2. CASE StartDrain(r) \/ ClaimNext(r) \/ Claimed(r) \/ LoopEnds(r)
  BY <1>2 DEF StartDrain, ClaimNext, Select, Claimed, LoopEnds, Q!WorkerStep
<1>3. CASE FetchBars(r) \/ FetchEmpty(r) \/ Renewed(r) \/ PublishFails(r) \/ Publish(r)
  BY <1>3 DEF FetchBars, FetchEmpty, Append1, Renewed, PublishFails, Publish
<1>4. CASE FlushNothing(r) \/ FlushBatch(r) \/ PublishEnds(r) \/ UpsertCoverage(r)
  BY <1>4 DEF FlushNothing, FlushBatch, PublishEnds, UpsertCoverage
<1>5. CASE FetchRefused(r) \/ FetchFails(r) \/ StopForBudget(r) \/ AuthFails(r)
  <2>1. PICK w \in Windows : w = current[r]
    BY <1>1, <1>5 DEF FetchRefused, FetchFails, StopForBudget, AuthFails,
      Progressed, Interrupted, Goto, InHand
  <2>2. Q!BeginReject(r, w) \/ Q!BeginExhaust(r, w) \/ Q!FailRetry(r, w) \/ Q!Release(r, w)
    BY <1>5, <2>1 DEF FetchRefused, FetchFails, StopForBudget, AuthFails
  <2> QED
    BY <2>2 DEF Q!WorkerStep
<1>6. CASE Retired(r) \/ RenewalFails(r) \/ Park(r) \/ CommitCheckpoint(r) \/ Crash(r)
  BY <1>6 DEF Retired, RenewalFails, Park, CommitCheckpoint, Crash, Q!WorkerStep
<1>7. ASSUME step[r] \in Emptying
      PROVE  \E w \in Windows : w = First(r).win
  BY <1>7, DropFirst DEF Emptying, Steps
<1>8. CASE Checkpoint(r)
  <2>1. PICK w \in Windows, to \in {"done", "empty"} :
          w = First(r).win /\ to = IF First(r).bars THEN "done" ELSE "empty"
    BY <1>7, <1>8 DEF Checkpoint, Goto, Emptying
  <2>2. Q!BeginRetire(r, w, to)
    BY <1>8, <2>1 DEF Checkpoint
  <2> QED
    BY <2>2 DEF Q!WorkerStep, Q!BeginComplete
<1>9. CASE ReleaseBatch(r)
  <2>1. PICK w \in Windows : w = First(r).win
    BY <1>7, <1>9 DEF ReleaseBatch, Goto, Emptying
  <2>2. Q!Release(r, w)
    BY <1>9, <2>1 DEF ReleaseBatch
  <2> QED
    BY <2>2 DEF Q!WorkerStep
<1> QED
  BY <1>2, <1>3, <1>4, <1>5, <1>6, <1>8, <1>9 DEF Progress, Fault, Fetch, Flush

LEMMA StepIsQueued == RunnerTypes /\ [Next]_vars => [Q!Next]_queue
<1> SUFFICES ASSUME RunnerTypes, [Next]_vars PROVE [Q!Next]_queue
  OBVIOUS
<1>1. ASSUME NEW r \in Workers, Progress(r) \/ Fault(r) PROVE [Q!Next]_queue
  BY <1>1, DrainIsQueued DEF Q!Next
<1>2. CASE Operator \/ \E w \in Windows : Elapse(w)
  BY <1>2 DEF Operator, Elapse, Q!Next
<1> QED
  BY <1>1, <1>2 DEF Next

LEMMA DrainIsPublished ==
  ASSUME RunnerTypes, NEW r \in Workers, Progress(r) \/ Fault(r)
  PROVE  P!Next \/ UNCHANGED warehouse
<1>1. CASE ClaimNext(r) \/ Claimed(r)
  BY <1>1 DEF ClaimNext, Select, Claimed, P!Next
<1>2. CASE StartDrain(r) \/ LoopEnds(r) \/ FetchEmpty(r) \/ FetchRefused(r) \/ FetchFails(r)
  BY <1>2 DEF StartDrain, LoopEnds, FetchEmpty, FetchRefused, FetchFails
<1>3. CASE FetchBars(r)
  <2>1. PICK w \in Windows : w = current[r]
    BY <1>3, OfWorker DEF FetchBars, Append1, Progressed, Goto, Fits, InHand
  <2>2. PICK p \in Paths : p = PathOf[w]
    BY RunnerAssumption DEF RunnerAssumption
  <2>3. P!Stage(r, p, w)
    BY <1>3, <2>1, <2>2 DEF FetchBars
  <2> QED
    BY <2>3 DEF P!Next
<1>4. CASE Retired(r) \/ Renewed(r) \/ Park(r) \/ StopForBudget(r) \/ AuthFails(r) \/ RenewalFails(r)
  BY <1>4 DEF Retired, Renewed, Park, StopForBudget, AuthFails, RenewalFails
<1>5. CASE FlushNothing(r) \/ FlushBatch(r) \/ PublishEnds(r)
  BY <1>5 DEF FlushNothing, FlushBatch, PublishEnds, P!Next, P!PublishStep
<1>6. CASE Publish(r) \/ PublishFails(r)
  BY <1>6 DEF Publish, PublishFails, P!Next, P!PublishStep
<1>7. CASE Checkpoint(r) \/ CommitCheckpoint(r) \/ UpsertCoverage(r) \/ ReleaseBatch(r)
  BY <1>7 DEF Checkpoint, CommitCheckpoint, UpsertCoverage, ReleaseBatch
<1>8. CASE Crash(r)
  BY <1>8 DEF Crash, P!Next
<1> QED
  BY <1>1, <1>2, <1>3, <1>4, <1>5, <1>6, <1>7, <1>8 DEF Progress, Fault, Fetch, Flush

LEMMA StepIsPublished == RunnerTypes /\ [Next]_vars => [P!Next]_warehouse
<1> SUFFICES ASSUME RunnerTypes, [Next]_vars PROVE [P!Next]_warehouse
  OBVIOUS
<1>1. ASSUME NEW r \in Workers, Progress(r) \/ Fault(r) PROVE [P!Next]_warehouse
  BY <1>1, DrainIsPublished
<1>2. CASE Operator \/ \E w \in Windows : Elapse(w)
  BY <1>2 DEF Operator, Elapse
<1> QED
  BY <1>1, <1>2 DEF Next

(* Whatever fails and however workers interleave, drain() touches the      *)
(* queue only through the transactions of backfill_queue.py ...            *)
THEOREM DrainUsesQueue == Spec => Q!Spec
<1>1. Init => Q!Init
  BY DEF Init
<1>2. [Q!Next]_queue => [Q!Next]_(Q!vars)
  BY DEF Q!vars, Q!tables
<1> QED
  BY <1>1, <1>2, InitRunnerTypes, StepRunnerTypes, StepIsQueued, PTL DEF Spec, Q!Spec

(* ... and the warehouse only through the operations of publisher.py, in   *)
(* the order of begin_batch, stage, flush_batch.                           *)
THEOREM DrainUsesPublisher == Spec => P!Spec
<1>1. Init => P!Init
  BY DEF Init
<1>2. [P!Next]_warehouse => [P!Next]_(P!vars)
  BY DEF P!vars, P!disk, P!memory
<1> QED
  BY <1>1, <1>2, InitRunnerTypes, StepRunnerTypes, StepIsPublished, PTL DEF Spec, P!Spec

----------------------------------------------------------------------------
(* The types of the queue's variables.  A lease has cost an attempt, so    *)
(* refunding it does not go below zero.                                    *)
QueueTypes ==
  /\ Q!TypeOK
  /\ \A w \in Windows : winState[w] = "running" => attempts[w] >= 1

LEMMA InitQueueTypes == Init => QueueTypes
BY PartsAssumption DEF Init, Q!Init, QueueTypes, Q!TypeOK, Q!JobStates, Q!WindowStates,
  Q!NoPause, Q!NoTxn

(* Two open transactions are on different rows, and a row that is being    *)
(* claimed stays as its SELECT found it.                                   *)
QueueLocks ==
  /\ \A r, s \in Workers :
       txn[r] # Q!NoTxn /\ txn[s] # Q!NoTxn /\ r # s => txn[r].win # txn[s].win
  /\ \A r \in Workers :
       txn[r].to = "running" =>
         winState[txn[r].win] = "pending" /\ attempts[txn[r].win] < MaxAttempts

LEMMA OpenTxn ==
  ASSUME QueueTypes, NEW r \in Workers, txn[r].to = "running" \/ txn[r].to \in Q!Terminal
  PROVE  txn[r] # Q!NoTxn /\ txn[r] \in Q!Txns /\ txn[r].win \in Windows
<1>1. txn[r] # Q!NoTxn
  BY DEF Q!NoTxn, Q!Terminal
<1>2. txn[r] \in Q!Txns
  BY <1>1 DEF QueueTypes, Q!TypeOK
<1> QED
  BY <1>1, <1>2 DEF Q!Txns

LEMMA ClaimTypes ==
  ASSUME QueueTypes, QueueLocks, NEW r \in Workers
  PROVE  /\ \A w \in Windows : Q!BeginClaim(r, w) => QueueTypes'
         /\ Q!CommitClaim(r) => QueueTypes'
<1> USE DEF QueueTypes, Q!TypeOK
<1>1. ASSUME NEW w \in Windows, Q!BeginClaim(r, w) PROVE QueueTypes'
  BY <1>1 DEF Q!BeginClaim, Q!tables, Q!Txns
<1>2. ASSUME Q!CommitClaim(r) PROVE QueueTypes'
  <2> DEFINE w == txn[r].win
  <2>1. w \in Windows /\ attempts[w] < MaxAttempts
    BY <1>2, OpenTxn DEF Q!CommitClaim, QueueLocks
  <2>2. /\ attempts' = [attempts EXCEPT ![w] = attempts[w] + 1]
        /\ winState' = [winState EXCEPT ![w] = "running"]
        /\ jobState' = [jobState EXCEPT ![JobOf[w]] = IF @ = "pending" THEN "running" ELSE @]
        /\ held' = [held EXCEPT ![r] = held[r] \cup {w}]
        /\ overdue' = overdue \ {w} /\ txn' = [txn EXCEPT ![r] = Q!NoTxn]
        /\ UNCHANGED <<pausing, takenOver>>
    BY <1>2 DEF Q!CommitClaim
  <2> HIDE DEF w
  <2>3. attempts' \in [Windows -> 0 .. MaxAttempts]
    BY <2>1, <2>2, Numbers
  <2>4. /\ jobState' \in [Jobs -> Q!JobStates]
        /\ winState' \in [Windows -> Q!WindowStates]
    BY <2>2 DEF Q!JobStates, Q!WindowStates, Q!Open
  <2>5. held' \in [Workers -> SUBSET Windows] /\ overdue' \in SUBSET Windows
    BY <2>1, <2>2
  <2>6. \A v \in Windows : winState'[v] = "running" => attempts'[v] >= 1
    BY <2>1, <2>2, Numbers
  <2> QED
    BY <2>2, <2>3, <2>4, <2>5, <2>6
<1> QED
  BY <1>1, <1>2

LEMMA RetireTypes ==
  ASSUME QueueTypes, NEW r \in Workers
  PROVE  /\ \A w \in Windows, to \in Q!Terminal : Q!BeginRetire(r, w, to) => QueueTypes'
         /\ Q!CommitRetire(r) => QueueTypes'
<1> USE DEF QueueTypes, Q!TypeOK
<1>1. ASSUME NEW w \in Windows, NEW to \in Q!Terminal, Q!BeginRetire(r, w, to)
      PROVE  QueueTypes'
  <2>1. PICK close \in {"none", "done", "failed"} : close = Q!Verdict(w, to)
    BY DEF Q!Verdict
  <2>2. txn' = [txn EXCEPT ![r] = [win |-> w, to |-> to, close |-> close]]
    BY <1>1, <2>1 DEF Q!BeginRetire
  <2>3. txn' \in [Workers -> Q!Txns \cup {Q!NoTxn}]
    BY <2>2 DEF Q!Txns
  <2> QED
    BY <1>1, <2>3 DEF Q!BeginRetire, Q!tables
<1>2. ASSUME Q!CommitRetire(r) PROVE QueueTypes'
  <2>1. txn[r] \in Q!Txns /\ txn[r].to \in Q!Terminal
    BY <1>2, OpenTxn DEF Q!CommitRetire
  <2>2. PICK w \in Windows, to \in Q!Terminal, close \in {"none", "done", "failed"} :
          w = txn[r].win /\ to = txn[r].to /\ close = txn[r].close
    BY <2>1 DEF Q!Txns
  <2>3. /\ winState' = [winState EXCEPT ![w] = to]
        /\ jobState' = [jobState EXCEPT ![JobOf[w]] = IF close = "none" THEN @ ELSE close]
        /\ held' = [held EXCEPT ![r] = @ \ {w}]
        /\ txn' = [txn EXCEPT ![r] = Q!NoTxn]
        /\ UNCHANGED <<attempts, overdue, pausing, takenOver>>
    BY <1>2, <2>2 DEF Q!CommitRetire
  <2>4. winState' \in [Windows -> Q!WindowStates] /\ jobState' \in [Jobs -> Q!JobStates]
    BY <2>3 DEF Q!WindowStates, Q!JobStates, Q!Terminal
  <2>5. \A v \in Windows : winState'[v] = "running" => winState[v] = "running"
    BY <2>3 DEF Q!Terminal
  <2> QED
    BY <2>3, <2>4, <2>5
<1> QED
  BY <1>1, <1>2

LEMMA GiveBackTypes ==
  ASSUME QueueTypes, NEW r \in Workers, NEW w \in Windows,
         Q!FailRetry(r, w) \/ Q!Release(r, w)
  PROVE  QueueTypes'
<1> USE DEF QueueTypes, Q!TypeOK, Q!FailRetry, Q!Release
<1>1. /\ winState' \in [Windows -> Q!WindowStates]
      /\ \A v \in Windows : winState'[v] = "running" => winState[v] = "running" /\ (v = w => UNCHANGED attempts)
  BY DEF Q!WindowStates, Q!Open
<1>2. CASE UNCHANGED attempts
  BY <1>1, <1>2
<1>3. CASE attempts' # attempts
  <2>1. winState[w] = "running" /\ attempts' = [attempts EXCEPT ![w] = attempts[w] - 1]
        /\ Q!Release(r, w)
    BY <1>3
  <2>2. attempts[w] \in 1 .. MaxAttempts
    BY <2>1, Numbers
  <2>3. attempts' \in [Windows -> 0 .. MaxAttempts]
    BY <2>1, <2>2, Numbers
  <2>4. \A v \in Windows : v # w => attempts'[v] = attempts[v]
    BY <2>1
  <2>5. winState'[w] = "pending"
    BY <2>1
  <2> QED
    BY <1>1, <2>1, <2>3, <2>4, <2>5
<1> QED
  BY <1>2, <1>3

LEMMA OtherQueueTypes ==
  ASSUME QueueTypes,
         \/ \E j \in Jobs : \E ws \in Batches[j] : Q!Enqueue(j, ws)
         \/ \E r \in Workers : Q!BeginPause(r) \/ Q!CommitPause(r) \/ Q!Crash(r)
         \/ Q!Reclaim \/ Q!ResumeAll \/ \E w \in Windows : Q!LeaseExpires(w)
  PROVE  QueueTypes'
<1> USE DEF QueueTypes, Q!TypeOK
<1>1. CASE \E j \in Jobs : \E ws \in Batches[j] : Q!Enqueue(j, ws)
  BY <1>1 DEF Q!Enqueue, Q!JobStates, Q!WindowStates, Q!Open
<1>2. CASE \E r \in Workers : Q!BeginPause(r)
  BY <1>2 DEF Q!BeginPause, Q!tables, Q!Running
<1>3. CASE \E r \in Workers : Q!CommitPause(r)
  BY <1>3 DEF Q!CommitPause, Q!JobStates, Q!WindowStates, Q!Open, Q!Returned, Q!TakeOver, Q!NoPause
<1>4. CASE \E r \in Workers : Q!Crash(r)
  BY <1>4 DEF Q!Crash, Q!tables, Q!NoPause
<1>5. CASE Q!Reclaim
  BY <1>5 DEF Q!Reclaim, Q!Returned, Q!TakeOver, Q!Stale, Q!Running, Q!WindowStates, Q!Open
<1>6. CASE Q!ResumeAll \/ \E w \in Windows : Q!LeaseExpires(w)
  BY <1>6 DEF Q!ResumeAll, Q!LeaseExpires, Q!JobStates
<1> QED
  BY <1>1, <1>2, <1>3, <1>4, <1>5, <1>6

LEMMA StepQueueTypes == QueueTypes /\ QueueLocks /\ [Q!Next]_queue => QueueTypes'
<1> SUFFICES ASSUME QueueTypes, QueueLocks, [Q!Next]_queue PROVE QueueTypes'
  OBVIOUS
<1>1. CASE UNCHANGED queue
  BY <1>1 DEF QueueTypes, Q!TypeOK
<1>2. ASSUME NEW r \in Workers, Q!WorkerStep(r) PROVE QueueTypes'
  <2>1. ASSUME NEW w \in Windows,
               Q!BeginComplete(r, w) \/ Q!BeginReject(r, w) \/ Q!BeginExhaust(r, w)
        PROVE  QueueTypes'
    BY <2>1, RetireTypes DEF Q!BeginComplete, Q!BeginReject, Q!BeginExhaust, Q!Terminal
  <2> QED
    BY <1>2, <2>1, ClaimTypes, RetireTypes, GiveBackTypes, OtherQueueTypes DEF Q!WorkerStep
<1> QED
  BY <1>1, <1>2, OtherQueueTypes DEF Q!Next

LEMMA InitQueueLocks == Init => QueueLocks
BY DEF Init, Q!Init, QueueLocks, Q!NoTxn

\* A worker ends its transaction, and rows others are claiming stay.
LEMMA EndTxnLocks ==
  ASSUME QueueTypes, QueueLocks, NEW r \in Workers,
         txn' = [txn EXCEPT ![r] = Q!NoTxn],
         \A s \in Workers \ {r} :
           txn[s].to = "running" =>
             /\ winState'[txn[s].win] = winState[txn[s].win]
             /\ attempts'[txn[s].win] = attempts[txn[s].win]
  PROVE  QueueLocks'
<1>1. /\ txn'[r] = Q!NoTxn /\ Q!NoTxn.to # "running"
      /\ \A s \in Workers \ {r} : txn'[s] = txn[s]
  BY DEF QueueTypes, Q!TypeOK, Q!NoTxn
<1> QED
  BY <1>1 DEF QueueLocks

\* A worker opens a transaction on a row nobody else has locked.
LEMMA OpenTxnLocks ==
  ASSUME QueueTypes, QueueLocks, NEW r \in Workers, NEW w \in Windows, NEW t,
         t.win = w, t.to = "running" => Q!Claimable(w), ~Q!Locked(w),
         txn' = [txn EXCEPT ![r] = t], UNCHANGED <<winState, attempts>>
  PROVE  QueueLocks'
<1>1. txn'[r] = t /\ \A s \in Workers \ {r} : txn'[s] = txn[s]
  BY DEF QueueTypes, Q!TypeOK
<1>2. \A s \in Workers : txn[s] # Q!NoTxn => txn[s].win # w
  BY DEF Q!Locked
<1>3. t.to = "running" => winState[w] = "pending" /\ attempts[w] < MaxAttempts
  BY DEF Q!Claimable
<1> QED
  BY <1>1, <1>2, <1>3 DEF QueueLocks

\* Transactions stay, and no row that is pending is touched.
LEMMA SameTxnLocks ==
  ASSUME QueueTypes, QueueLocks, UNCHANGED txn,
         \A w \in Windows : winState[w] = "pending" =>
           winState'[w] = "pending" /\ attempts'[w] = attempts[w]
  PROVE  QueueLocks'
<1>1. ASSUME NEW r \in Workers, txn[r].to = "running"
      PROVE  winState'[txn[r].win] = "pending" /\ attempts'[txn[r].win] < MaxAttempts
  BY <1>1, OpenTxn DEF QueueLocks
<1> QED
  BY <1>1 DEF QueueLocks

LEMMA StepQueueLocks == QueueTypes /\ QueueLocks /\ [Q!Next]_queue => QueueLocks'
<1> SUFFICES ASSUME QueueTypes, QueueLocks, [Q!Next]_queue PROVE QueueLocks'
  OBVIOUS
<1>1. CASE UNCHANGED queue
  BY <1>1 DEF QueueLocks
<1>2. ASSUME NEW r \in Workers, NEW w \in Windows, Q!BeginClaim(r, w) PROVE QueueLocks'
  BY <1>2, OpenTxnLocks DEF Q!BeginClaim, Q!Selectable, Q!tables
<1>3. ASSUME NEW r \in Workers, NEW w \in Windows,
             Q!BeginComplete(r, w) \/ Q!BeginReject(r, w) \/ Q!BeginExhaust(r, w)
      PROVE  QueueLocks'
  <2>1. PICK to \in Q!Terminal : Q!BeginRetire(r, w, to)
    BY <1>3 DEF Q!BeginComplete, Q!BeginReject, Q!BeginExhaust, Q!Terminal
  <2>2. to # "running"
    BY DEF Q!Terminal
  <2> QED
    BY <2>1, <2>2, OpenTxnLocks DEF Q!BeginRetire, Q!tables
<1>4. ASSUME NEW r \in Workers, Q!CommitClaim(r) \/ Q!CommitRetire(r) PROVE QueueLocks'
  <2>1. /\ txn[r] # Q!NoTxn /\ txn[r].win \in Windows /\ txn' = [txn EXCEPT ![r] = Q!NoTxn]
        /\ \A v \in Windows \ {txn[r].win} :
             winState'[v] = winState[v] /\ attempts'[v] = attempts[v]
    BY <1>4, OpenTxn DEF Q!CommitClaim, Q!CommitRetire, QueueTypes, Q!TypeOK
  <2>2. ASSUME NEW s \in Workers \ {r}, txn[s].to = "running"
        PROVE  txn[s].win \in Windows \ {txn[r].win}
    BY <2>1, <2>2, OpenTxn DEF QueueLocks
  <2> QED
    BY <2>1, <2>2, EndTxnLocks
<1>5. ASSUME NEW r \in Workers, NEW w \in Windows, Q!FailRetry(r, w) \/ Q!Release(r, w)
      PROVE  QueueLocks'
  BY <1>5, SameTxnLocks DEF Q!FailRetry, Q!Release, QueueTypes, Q!TypeOK
<1>6. ASSUME NEW r \in Workers, Q!Crash(r) PROVE QueueLocks'
  BY <1>6, EndTxnLocks DEF Q!Crash, Q!tables
<1>7. CASE \E r \in Workers : Q!BeginPause(r) \/ Q!CommitPause(r)
  BY <1>7, SameTxnLocks DEF Q!BeginPause, Q!CommitPause, Q!Returned, Q!tables
<1>8. CASE Q!Reclaim \/ Q!ResumeAll \/ \E w \in Windows : Q!LeaseExpires(w)
  BY <1>8, SameTxnLocks DEF Q!Reclaim, Q!ResumeAll, Q!LeaseExpires, Q!Returned
<1>9. CASE \E j \in Jobs : \E ws \in Batches[j] : Q!Enqueue(j, ws)
  BY <1>9, SameTxnLocks DEF Q!Enqueue
<1> QED
  BY <1>1, <1>2, <1>3, <1>4, <1>5, <1>6, <1>7, <1>8, <1>9 DEF Q!Next, Q!WorkerStep

----------------------------------------------------------------------------
(* The types of the publisher's variables.  An actor that is publishing has*)
(* a version, and a pointer that parses names one.                         *)
PublisherTypes ==
  /\ P!TypeOK
  /\ \A r \in Workers : pc[r] \in P!Publishing \cup {"batch"} => version[r] \in Versions
  /\ pointer.state = "whole" => pointer.version \in Versions
  /\ tmp.state = "whole" => tmp.version \in Versions

LEMMA MapsDef ==
  ASSUME NEW S, NEW f
  PROVE  f \in P!Files(S) <=> f \in [DOMAIN f -> S] /\ DOMAIN f \subseteq Paths
BY DEF P!Files

LEMMA EmptyMap == ASSUME NEW S PROVE P!Empty \in P!Files(S) /\ DOMAIN P!Empty = {}
BY MapsDef DEF P!Empty

LEMMA OverIsMap ==
  ASSUME NEW S, NEW f \in P!Files(S), NEW g \in P!Files(S)
  PROVE  P!Over(f, g) \in P!Files(S)
<1>1. /\ f \in [DOMAIN f -> S] /\ DOMAIN f \subseteq Paths
      /\ g \in [DOMAIN g -> S] /\ DOMAIN g \subseteq Paths
  BY MapsDef
<1>2. /\ DOMAIN P!Over(f, g) = DOMAIN f \cup DOMAIN g
      /\ P!Over(f, g) \in [DOMAIN f \cup DOMAIN g -> S]
  BY <1>1 DEF P!Over
<1> QED
  BY <1>1, <1>2, MapsDef

LEMMA NewEntriesAreMap ==
  ASSUME NEW r \in Workers, parts[r] \subseteq P!Parts, version[r] \in Versions
  PROVE  P!NewEntries(r) \in P!Files(P!Entries)
<1> DEFINE D == {m.path : m \in parts[r]}
<1>1. \A p \in D : P!RecordedDigest(r, p) \in Windows
  <2> SUFFICES ASSUME NEW p \in D PROVE P!RecordedDigest(r, p) \in Windows
    OBVIOUS
  <2> DEFINE m == CHOOSE m \in parts[r] : m.path = p
  <2>1. m \in parts[r]
    OBVIOUS
  <2>2. m.digest \in Windows
    BY <2>1 DEF P!Parts
  <2> QED
    BY <2>2 DEF P!RecordedDigest
<1>2. D \subseteq Paths
  BY DEF P!Parts
<1>3. P!NewEntries(r) \in [D -> P!Entries] /\ DOMAIN P!NewEntries(r) = D
  BY <1>1 DEF P!NewEntries, P!Entries
<1> QED
  BY <1>2, <1>3, MapsDef

LEMMA InitPublisherTypes == Init => PublisherTypes
<1>1. P!Empty \in P!Files(Windows) /\ P!Empty \in P!Files(P!Entries)
  BY EmptyMap
<1>2. P!NoFile \in P!Pointers
  BY DEF P!NoFile, P!Pointers
<1> QED
  BY <1>1, <1>2, PartsAssumption
    DEF Init, P!Init, PublisherTypes, P!TypeOK, P!Steps, P!Publishing, P!NoFile

LEMMA StagingTypes ==
  ASSUME PublisherTypes, NEW r \in Workers,
         \/ \E v \in Versions : P!BeginBatch(r, v) \/ P!BeginRollback(r, v)
         \/ \E p \in Paths, d \in Windows : P!Stage(r, p, d)
         \/ P!Abandon(r) \/ P!FlushBatch(r) \/ P!Verify(r) \/ P!Move(r) \/ P!Return(r)
  PROVE  PublisherTypes'
<1> USE DEF PublisherTypes, P!TypeOK
<1>1. P!Empty \in P!Files(Windows) /\ P!Empty \in P!Files(P!Entries)
  BY EmptyMap
<1>2. CASE \E v \in Versions : P!BeginBatch(r, v)
  BY <1>1, <1>2 DEF P!BeginBatch, P!Goto, P!Steps
<1>3. CASE \E v \in Versions : P!BeginRollback(r, v)
  <2>1. rollbacks' \in 0 .. MaxRollbacks
    BY <1>3, PartsAssumption DEF P!BeginRollback
  <2> QED
    BY <1>3, <2>1 DEF P!BeginRollback, P!Goto, P!Steps, P!Publishing, P!disk
<1>4. ASSUME NEW p \in Paths, NEW d \in Windows, P!Stage(r, p, d) PROVE PublisherTypes'
  <2>1. version[r] \in Versions
    BY <1>4 DEF P!Stage
  <2>2. [q \in {p} |-> d] \in P!Files(Windows)
    BY MapsDef
  <2>3. P!Over([q \in {p} |-> d], staging[version[r]]) \in P!Files(Windows)
    BY <2>1, <2>2, OverIsMap
  <2>4. [path |-> p, digest |-> d] \in P!Parts
    BY DEF P!Parts
  <2>5. staging' \in [Versions -> P!Files(Windows)]
    BY <1>4, <2>3 DEF P!Stage
  <2>6. parts' \in [Workers -> SUBSET P!Parts]
    BY <1>4, <2>4 DEF P!Stage
  <2> QED
    BY <1>4, <2>5, <2>6 DEF P!Stage
<1>5. CASE P!Abandon(r)
  <2>1. /\ pc' = [pc EXCEPT ![r] = "idle"] /\ version' = [version EXCEPT ![r] = NoVersion]
        /\ parts' = [parts EXCEPT ![r] = {}]
        /\ UNCHANGED <<staging, files, moved, manifests, written, pointer, tmp,
                       plan, generation, rollbacks>>
    BY <1>5 DEF P!Abandon, P!Goto, P!disk
  <2>2. "idle" \in P!Steps /\ "idle" \notin P!Publishing \cup {"batch"}
    BY DEF P!Steps, P!Publishing
  <2> QED
    BY <2>1, <2>2
<1>6. CASE P!FlushBatch(r) \/ P!Verify(r)
  BY <1>6 DEF P!FlushBatch, P!Verify, P!Goto, P!Steps, P!Publishing, P!disk
<1>7. CASE P!Move(r)
  <2>1. version[r] \in Versions /\ pc' = [pc EXCEPT ![r] = "merge"]
    BY <1>7 DEF P!Move, P!Goto, P!Publishing
  <2>2. /\ staging' \in [Versions -> P!Files(Windows)]
        /\ files' \in [Versions -> P!Files(Windows)] /\ moved' \in SUBSET Versions
    BY <1>1, <1>7, <2>1 DEF P!Move
  <2>3. "merge" \in P!Steps
    BY DEF P!Steps, P!Publishing
  <2> QED
    BY <1>7, <2>1, <2>2, <2>3 DEF P!Move
<1>8. CASE P!Return(r)
  BY <1>1, <1>8 DEF P!Return, P!Steps, P!Publishing, P!disk
<1> QED
  BY <1>2, <1>3, <1>4, <1>5, <1>6, <1>7, <1>8

LEMMA PublishTypes ==
  ASSUME PublisherTypes, NEW r \in Workers,
         P!Merge(r) \/ P!WriteManifest(r) \/ P!ReadGeneration(r) \/ P!WriteTmp(r) \/ P!Replace(r)
  PROVE  PublisherTypes'
<1> USE DEF PublisherTypes, P!TypeOK
<1>1. CASE P!Merge(r) /\ P!Refused
  BY <1>1 DEF P!Merge, P!Goto, P!Steps, P!Publishing, P!disk
<1>2. CASE P!Merge(r) /\ ~P!Refused
  <2>1. pc[r] = "merge" /\ version[r] \in Versions
    BY <1>2 DEF P!Merge, P!Goto, P!Publishing
  <2>2. P!NewEntries(r) \in P!Files(P!Entries)
    BY <2>1, NewEntriesAreMap
  <2>3. P!Predecessor \in P!Files(P!Entries)
    BY <1>2, EmptyMap DEF P!Predecessor, P!Refused, P!Pointers
  <2>4. P!Over(P!NewEntries(r), P!Predecessor) \in P!Files(P!Entries)
    BY <2>2, <2>3, OverIsMap
  <2>5. plan' \in [Workers -> P!Files(P!Entries)]
    BY <1>2, <2>4 DEF P!Merge
  <2> QED
    BY <1>2, <2>5 DEF P!Merge, P!Goto, P!Steps, P!Publishing, P!disk
<1>3. CASE P!WriteManifest(r)
  BY <1>3 DEF P!WriteManifest, P!Goto, P!Steps, P!Publishing
<1>4. CASE P!ReadGeneration(r)
  <2>1. P!NextGeneration \in Nat
    BY DEF P!NextGeneration, P!Pointers
  <2> QED
    BY <1>4, <2>1 DEF P!ReadGeneration, P!Goto, P!Steps, P!Publishing, P!disk
<1>5. CASE P!WriteTmp(r)
  <2>1. version[r] \in Versions /\ generation[r] \in Nat
    BY <1>5 DEF P!WriteTmp, P!Goto, P!Publishing
  <2>2. tmp' \in P!Pointers /\ tmp'.version \in Versions
    BY <1>5, <2>1 DEF P!WriteTmp, P!Pointers
  <2> QED
    BY <1>5, <2>2 DEF P!WriteTmp, P!Goto, P!Steps, P!Publishing
<1>6. CASE P!Replace(r)
  <2>1. P!NoFile \in P!Pointers /\ P!NoFile.state # "whole"
    BY DEF P!NoFile, P!Pointers
  <2> QED
    BY <1>6, <2>1 DEF P!Replace, P!Goto, P!Steps, P!Publishing
<1> QED
  BY <1>1, <1>2, <1>3, <1>4, <1>5, <1>6

(* An error or a crash may leave a torn file.                              *)
LEMMA BreakTypes ==
  ASSUME PublisherTypes, NEW r \in Workers, P!IOFails(r) \/ P!Crash(r)
  PROVE  PublisherTypes'
<1> USE DEF PublisherTypes, P!TypeOK
<1>1. P!Torn \in P!Pointers /\ P!Torn.state # "whole"
  BY DEF P!Torn, P!NoFile, P!Pointers
<1>2. /\ staging' = staging /\ files' = files /\ moved' = moved /\ manifests' = manifests
      /\ written' \in [Versions -> {"no", "torn", "whole"}]
      /\ pointer' = pointer
      /\ tmp' \in P!Pointers /\ (tmp'.state = "whole" => tmp'.version \in Versions)
  BY <1>1 DEF P!IOFails, P!Crash, P!TearManifest, P!TearTmp, P!disk
<1>3. CASE P!IOFails(r)
  BY <1>2, <1>3 DEF P!IOFails, P!Steps, P!Publishing
<1>4. CASE P!Crash(r)
  BY <1>2, <1>4, EmptyMap DEF P!Crash, P!Steps, P!Publishing
<1> QED
  BY <1>3, <1>4

LEMMA StepPublisherTypes == PublisherTypes /\ [P!Next]_warehouse => PublisherTypes'
<1>1. ASSUME PublisherTypes, UNCHANGED warehouse PROVE PublisherTypes'
  BY <1>1 DEF PublisherTypes, P!TypeOK
<1> QED
  BY <1>1, StagingTypes, PublishTypes, BreakTypes DEF P!Next, P!PublishStep

Types == RunnerTypes /\ QueueTypes /\ QueueLocks /\ PublisherTypes

LEMMA InitTypes == Init => Types
BY InitRunnerTypes, InitQueueTypes, InitQueueLocks, InitPublisherTypes DEF Types

LEMMA StepTypes == Types /\ [Next]_vars => Types'
BY StepRunnerTypes, StepIsQueued, StepIsPublished, StepQueueTypes, StepQueueLocks,
  StepPublisherTypes DEF Types

(* The types of the runner and of both its parts; in particular a batch is *)
(* flushed when it has reached PUBLISH_BATCH_SIZE, and a drain attempts no *)
(* more than its windows.                                                  *)
THEOREM TypeCorrect == Spec => []TypeOK
<1>1. Types => TypeOK
  BY DEF Types, RunnerTypes, QueueTypes, PublisherTypes, TypeOK, Fits
<1> QED
  BY <1>1, InitTypes, StepTypes, PTL DEF Spec

----------------------------------------------------------------------------
(* The windows a worker has to answer for: those of its batch, without the *)
(* one whose row is already retired, and the one in hand.                  *)
Wins(b) == {b[i].win : i \in 1 .. Len(b)}
Owed(s, b) == Wins(IF s = "covering" THEN Tail(b) ELSE b)
Hand(s, w) == IF s \in InHand THEN {w} ELSE {}

(* Where the publisher is when a worker is at step s with batch b.         *)
PublisherAt(s, b, p) ==
  /\ s \in {"stopped"} \cup (Emptying \ {"publishing"}) => p = "idle"
  /\ s \in {"draining", "claiming", "renewing", "pausing", "flushing"} =>
       p \in {"idle", "batch"} /\ (b # <<>> => p = "batch")
  /\ s \in InHand => p = "batch"
  /\ s = "publishing" => p \in P!Publishing \cup {"returned", "raised"}

(* What a worker holds it will answer for, and a transaction it has open   *)
(* answers for the window its step is about.                               *)
Answers(s, w, b, h, t, p) ==
  /\ h \subseteq Owed(s, b) \cup Hand(s, w)
  /\ s \in {"claiming", "retiring"} => t.win = w
  /\ s = "committing" => t.win = b[1].win
  /\ PublisherAt(s, b, p)

LeaseInv ==
  \A r \in Workers : Answers(step[r], current[r], batch[r], held[r], txn[r], pc[r])

LEMMA WinsOf ==
  ASSUME NEW b \in Seq(Fetched)
  PROVE  /\ b = <<>> => Wins(b) = {}
         /\ b # <<>> => Wins(b) = Wins(Tail(b)) \cup {b[1].win}
         /\ \A f \in Fetched : Wins(Append(b, f)) = Wins(b) \cup {f.win}
         /\ Wins(b) \subseteq Windows
<1>1. Len(b) \in Nat
  OBVIOUS
<1>2. b = <<>> => Wins(b) = {}
  BY DEF Wins
<1>3. ASSUME b # <<>> PROVE Wins(b) = Wins(Tail(b)) \cup {b[1].win}
  <2>1. /\ Len(b) \in Nat \ {0} /\ Len(Tail(b)) = Len(b) - 1
        /\ \A i \in 1 .. Len(Tail(b)) : i + 1 \in 1 .. Len(b) /\ Tail(b)[i] = b[i + 1]
    BY <1>3, TailOfBatch
  <2>2. \A i \in 1 .. Len(b) : i = 1 \/ (i - 1 \in 1 .. Len(Tail(b)) /\ Tail(b)[i - 1] = b[i])
    <3> SUFFICES ASSUME NEW i \in 1 .. Len(b), i # 1
                 PROVE  i - 1 \in 1 .. Len(Tail(b)) /\ Tail(b)[i - 1] = b[i]
      OBVIOUS
    <3>1. i - 1 \in 1 .. Len(Tail(b)) /\ (i - 1) + 1 = i
      BY <2>1
    <3> QED
      BY <2>1, <3>1
  <2>3. 1 \in 1 .. Len(b)
    BY <2>1
  <2> QED
    BY <2>1, <2>2, <2>3 DEF Wins
<1>4. ASSUME NEW f \in Fetched PROVE Wins(Append(b, f)) = Wins(b) \cup {f.win}
  <2> DEFINE a == Append(b, f)
  <2>1. Len(a) = Len(b) + 1 /\ a[Len(b) + 1] = f /\ \A i \in 1 .. Len(b) : a[i] = b[i]
    OBVIOUS
  <2>2. Len(b) + 1 \in 1 .. Len(a) /\ \A i \in 1 .. Len(b) : i \in 1 .. Len(a)
    BY <1>1, <2>1
  <2>3. \A i \in 1 .. Len(a) : i \in 1 .. Len(b) \/ i = Len(b) + 1
    BY <1>1, <2>1
  <2> HIDE DEF a
  <2>4. Wins(a) = Wins(b) \cup {f.win}
    BY <2>1, <2>2, <2>3 DEF Wins
  <2> QED
    BY <2>4 DEF a
<1>5. \A i \in 1 .. Len(b) : b[i].win \in Windows
  <2>1. \A f \in Fetched : f.win \in Windows
    BY DEF Fetched
  <2> QED
    BY <2>1
<1> QED
  BY <1>2, <1>3, <1>4, <1>5 DEF Wins

(* One worker moves: what it holds, its transaction and its publisher.     *)
Holds(r, h, t, p) ==
  /\ held' = [held EXCEPT ![r] = h]
  /\ txn' = [txn EXCEPT ![r] = t]
  /\ pc' = [pc EXCEPT ![r] = p]

LEMMA LeaseMoves ==
  ASSUME Types, LeaseInv, NEW r \in Workers,
         NEW s, NEW w, NEW b, NEW n, NEW q, NEW h, NEW t, NEW p,
         Moves(r, s, w, b, n, q), Holds(r, h, t, p),
         Answers(s, w, b, h, t, p)
  PROVE  LeaseInv'
<1> SUFFICES ASSUME NEW x \in Workers
             PROVE  Answers(step'[x], current'[x], batch'[x], held'[x], txn'[x], pc'[x])
  BY DEF LeaseInv
<1>1. /\ DOMAIN step = Workers /\ DOMAIN current = Workers /\ DOMAIN batch = Workers
      /\ DOMAIN held = Workers /\ DOMAIN txn = Workers /\ DOMAIN pc = Workers
  BY DEF Types, RunnerTypes, QueueTypes, PublisherTypes, Q!TypeOK, P!TypeOK
<1>2. CASE x = r
  <2>1. /\ step'[r] = s /\ current'[r] = w /\ batch'[r] = b
        /\ held'[r] = h /\ txn'[r] = t /\ pc'[r] = p
    BY <1>1 DEF Moves, Holds
  <2> QED
    BY <1>2, <2>1
<1>3. CASE x # r
  <2>1. /\ step'[x] = step[x] /\ current'[x] = current[x] /\ batch'[x] = batch[x]
        /\ held'[x] = held[x] /\ txn'[x] = txn[x] /\ pc'[x] = pc[x]
    BY <1>1, <1>3 DEF Moves, Holds
  <2> QED
    BY <2>1 DEF LeaseInv
<1> QED
  BY <1>2, <1>3

(* Of one worker.                                                          *)
LEMMA HeldByWorker ==
  ASSUME Types, LeaseInv, NEW r \in Workers
  PROVE  /\ Answers(step[r], current[r], batch[r], held[r], txn[r], pc[r])
         /\ held = [held EXCEPT ![r] = held[r]]
         /\ txn = [txn EXCEPT ![r] = txn[r]]
         /\ pc = [pc EXCEPT ![r] = pc[r]]
         /\ batch[r] \in Seq(Fetched) /\ step[r] \in Steps /\ stopping[r] \in BOOLEAN
         /\ Fits(step[r], current[r], batch[r], tried[r])
BY DEF Types, RunnerTypes, QueueTypes, PublisherTypes, Q!TypeOK, P!TypeOK, LeaseInv

LEMMA DrainLeases ==
  ASSUME Types, LeaseInv, NEW r \in Workers,
         \/ StartDrain(r) \/ ClaimNext(r) \/ Claimed(r) \/ LoopEnds(r) \/ FetchBars(r)
         \/ FetchEmpty(r) \/ FetchRefused(r) \/ FetchFails(r) \/ Retired(r)
  PROVE  LeaseInv'
<1>0. /\ Answers(step[r], current[r], batch[r], held[r], txn[r], pc[r])
      /\ batch[r] \in Seq(Fetched) /\ Fits(step[r], current[r], batch[r], tried[r])
      /\ RunnerTypes
  BY HeldByWorker DEF Types
<1>1. CASE StartDrain(r)
  <2>1. Moves(r, "draining", current[r], batch[r], 0, FALSE) /\ step[r] = "stopped"
    BY <1>0, <1>1, OfWorker DEF StartDrain, Goto, Set, Moves
  <2>2. Holds(r, held[r], txn[r], pc[r])
    BY <1>1, HeldByWorker DEF StartDrain, Holds, Q!Reclaim
  <2>3. batch[r] = <<>>
    BY <1>0, <2>1 DEF Fits
  <2>4. Answers("draining", current[r], batch[r], held[r], txn[r], pc[r])
    BY <1>0, <2>1, <2>3 DEF Answers, PublisherAt, Owed, Hand, InHand, Emptying
  <2> QED
    BY <2>1, <2>2, <2>4, LeaseMoves
<1>2. CASE ClaimNext(r)
  <2>1. PICK w, t :
          /\ w \in Windows
          /\ Moves(r, "claiming", w, batch[r], tried[r], stopping[r])
          /\ Holds(r, held[r], t, pc[r]) /\ t.win = w
    <3>1. PICK w \in Windows : Q!BeginClaim(r, w) /\ current' = [current EXCEPT ![r] = w]
      BY <1>2 DEF ClaimNext, Select, Set
    <3>2. Moves(r, "claiming", w, batch[r], tried[r], stopping[r])
      BY <1>0, <1>2, <3>1, OfWorker DEF ClaimNext, Select, Goto, Moves
    <3>3. PICK t : t.win = w /\ txn' = [txn EXCEPT ![r] = t]
      BY <3>1 DEF Q!BeginClaim
    <3>4. UNCHANGED <<held, pc>>
      BY <1>2, <3>1 DEF ClaimNext, Select, Q!BeginClaim
    <3>5. Holds(r, held[r], t, pc[r])
      BY <3>3, <3>4, HeldByWorker DEF Holds
    <3> QED
      BY <3>2, <3>3, <3>5
  <2>2. step[r] = "draining"
    BY <1>2 DEF ClaimNext, Select, Goto
  <2>3. Answers("claiming", w, batch[r], held[r], t, pc[r])
    BY <1>0, <2>1, <2>2 DEF Answers, PublisherAt, Owed, Hand, InHand, Emptying
  <2> QED
    BY <2>1, <2>3, LeaseMoves
<1>7. CASE Claimed(r)
  <2>1. /\ Moves(r, "fetching", current[r], batch[r], tried[r], stopping[r])
        /\ step[r] = "claiming" /\ Q!CommitClaim(r)
    BY <1>0, <1>7, OfWorker DEF Claimed, Goto, Moves
  <2>2. Holds(r, held[r] \cup {current[r]}, Q!NoTxn, "batch")
    <3>1. /\ held' = [held EXCEPT ![r] = held[r] \cup {txn[r].win}]
          /\ txn' = [txn EXCEPT ![r] = Q!NoTxn]
      BY <2>1 DEF Q!CommitClaim
    <3>2. txn[r].win = current[r]
      BY <1>0, <2>1 DEF Answers
    <3>3. pc' = [pc EXCEPT ![r] = "batch"]
      <4>1. CASE pc[r] = "batch"
        BY <1>7, <4>1, HeldByWorker DEF Claimed
      <4>2. CASE pc[r] # "batch"
        BY <1>7, <4>2 DEF Claimed, P!BeginBatch, P!Goto
      <4> QED
        BY <4>1, <4>2
    <3> QED
      BY <3>1, <3>2, <3>3 DEF Holds
  <2>3. Answers("fetching", current[r], batch[r], held[r] \cup {current[r]}, Q!NoTxn, "batch")
    BY <1>0, <2>1 DEF Answers, PublisherAt, Owed, Hand, InHand, Emptying
  <2> QED
    BY <2>1, <2>2, <2>3, LeaseMoves
<1>3. CASE LoopEnds(r)
  <2>1. /\ Moves(r, "flushing", current[r], batch[r], tried[r], TRUE) /\ step[r] = "draining"
        /\ Holds(r, held[r], txn[r], pc[r])
    BY <1>0, <1>3, OfWorker, HeldByWorker DEF LoopEnds, Goto, Set, Moves, Holds
  <2>2. Answers("flushing", current[r], batch[r], held[r], txn[r], pc[r])
    BY <1>0, <2>1 DEF Answers, PublisherAt, Owed, Hand, InHand, Emptying
  <2> QED
    BY <2>1, <2>2, LeaseMoves
<1>4. ASSUME NEW bars \in BOOLEAN, Append1(r, bars), UNCHANGED pc PROVE LeaseInv'
  <2> DEFINE to == IF Len(batch[r]) + 1 >= BatchSize THEN "flushing" ELSE "draining"
             f == [win |-> current[r], bars |-> bars]
             b == Append(batch[r], f)
  <2>1. /\ Moves(r, to, NoWindow, b, tried[r] + 1, stopping[r])
        /\ step[r] = "fetching"
        /\ Holds(r, held[r], txn[r], pc[r])
    BY <1>0, <1>4, OfWorker, HeldByWorker DEF Append1, Progressed, Goto, Set, Moves, Holds
  <2>2. f \in Fetched
    BY <1>0, <2>1 DEF Fetched, Fits, InHand
  <2>3. Wins(b) = Wins(batch[r]) \cup {f.win} /\ f.win = current[r]
    BY <1>0, <2>2, WinsOf
  <2>4. held[r] \subseteq Wins(b) /\ pc[r] = "batch"
    BY <1>0, <2>1, <2>3 DEF Answers, PublisherAt, Owed, Hand, InHand
  <2>5. to \in {"flushing", "draining"}
    OBVIOUS
  <2> HIDE DEF to, b
  <2>6. Answers(to, NoWindow, b, held[r], txn[r], pc[r])
    BY <2>4, <2>5 DEF Answers, PublisherAt, Owed, Hand, InHand, Emptying
  <2> QED
    BY <2>1, <2>6, LeaseMoves
<1>5. CASE FetchRefused(r)
  <2>1. PICK t : /\ Moves(r, "retiring", current[r], batch[r], tried[r], stopping[r])
                 /\ step[r] = "fetching"
                 /\ Holds(r, held[r], t, pc[r]) /\ t.win = current[r]
    <3>1. Moves(r, "retiring", current[r], batch[r], tried[r], stopping[r])
          /\ step[r] = "fetching"
      BY <1>0, <1>5, OfWorker DEF FetchRefused, Goto, Set, Moves
    <3>2. PICK w \in Windows : w = current[r]
      BY <1>0, <3>1 DEF Fits, InHand
    <3>3. PICK t : t.win = w /\ txn' = [txn EXCEPT ![r] = t]
      <4>1. Q!BeginReject(r, w) \/ Q!BeginExhaust(r, w)
        BY <1>5, <3>2 DEF FetchRefused
      <4>2. Q!BeginRetire(r, w, "failed")
        BY <4>1 DEF Q!BeginReject, Q!BeginExhaust
      <4> QED
        BY <4>2 DEF Q!BeginRetire
    <3>4. UNCHANGED <<held, pc>>
      BY <1>5 DEF FetchRefused, Q!BeginReject, Q!BeginExhaust, Q!BeginRetire
    <3>5. Holds(r, held[r], t, pc[r])
      BY <3>3, <3>4, HeldByWorker DEF Holds
    <3> QED
      BY <3>1, <3>2, <3>3, <3>5
  <2>2. Answers("retiring", current[r], batch[r], held[r], t, pc[r])
    BY <1>0, <2>1 DEF Answers, PublisherAt, Owed, Hand, InHand, Emptying
  <2> QED
    BY <2>1, <2>2, LeaseMoves
<1>6. CASE FetchFails(r) \/ Retired(r)
  <2>1. Moves(r, "draining", NoWindow, batch[r], tried[r] + 1, stopping[r]) /\ step[r] \in InHand
    BY <1>0, <1>6, OfWorker DEF FetchFails, Retired, Progressed, Goto, Set, Moves, InHand
  <2>2. PICK t : Holds(r, held[r] \ {current[r]}, t, pc[r])
    <3>1. CASE FetchFails(r)
      <4>1. held' = [held EXCEPT ![r] = held[r] \ {current[r]}] /\ UNCHANGED <<txn, pc>>
        BY <3>1 DEF FetchFails, Q!FailRetry
      <4> QED
        BY <4>1, HeldByWorker DEF Holds
    <3>2. CASE Retired(r)
      <4>1. /\ held' = [held EXCEPT ![r] = held[r] \ {txn[r].win}] /\ UNCHANGED pc
            /\ txn' = [txn EXCEPT ![r] = Q!NoTxn] /\ step[r] = "retiring"
        BY <3>2 DEF Retired, Q!CommitRetire
      <4>2. txn[r].win = current[r]
        BY <1>0, <4>1 DEF Answers
      <4> QED
        BY <4>1, <4>2, HeldByWorker DEF Holds
    <3> QED
      BY <1>6, <3>1, <3>2
  <2>3. Answers("draining", NoWindow, batch[r], held[r] \ {current[r]}, t, pc[r])
    BY <1>0, <2>1 DEF Answers, PublisherAt, Owed, Hand, InHand, Emptying
  <2> QED
    BY <2>1, <2>2, <2>3, LeaseMoves
<1> QED
  BY <1>1, <1>2, <1>3, <1>4, <1>5, <1>6, <1>7 DEF FetchBars, FetchEmpty, P!Stage

LEMMA FaultLeases ==
  ASSUME Types, LeaseInv, NEW r \in Workers,
         \/ StopForBudget(r) \/ AuthFails(r) \/ Renewed(r) \/ RenewalFails(r) \/ Park(r)
         \/ PublishFails(r) \/ Crash(r)
  PROVE  LeaseInv'
<1>0. /\ Answers(step[r], current[r], batch[r], held[r], txn[r], pc[r])
      /\ batch[r] \in Seq(Fetched) /\ Fits(step[r], current[r], batch[r], tried[r])
      /\ RunnerTypes
  BY HeldByWorker DEF Types
<1>1. CASE StopForBudget(r) \/ AuthFails(r)
  <2>1. PICK s \in {"flushing", "renewing"} :
          /\ Moves(r, s, NoWindow, batch[r], tried[r], TRUE)
          /\ step[r] = "fetching"
    BY <1>0, <1>1, OfWorker DEF StopForBudget, AuthFails, Interrupted, Goto, Set, Moves
  <2>2. held' = [held EXCEPT ![r] = held[r] \ {current[r]}] /\ UNCHANGED <<txn, pc>>
    BY <1>1 DEF StopForBudget, AuthFails, Q!Release
  <2>3. Holds(r, held[r] \ {current[r]}, txn[r], pc[r])
    BY <2>2, HeldByWorker DEF Holds
  <2>4. Answers(s, NoWindow, batch[r], held[r] \ {current[r]}, txn[r], pc[r])
    BY <1>0, <2>1 DEF Answers, PublisherAt, Owed, Hand, InHand, Emptying
  <2> QED
    BY <2>1, <2>3, <2>4, LeaseMoves
<1>2. CASE Renewed(r) \/ RenewalFails(r) \/ Park(r)
  <2>1. PICK s \in {"flushing", "pausing"} :
          /\ Moves(r, s, current[r], batch[r], tried[r], stopping[r])
          /\ step[r] \in {"renewing", "pausing"}
    BY <1>0, <1>2, OfWorker DEF Renewed, RenewalFails, Park, Goto, Moves
  <2>2. Holds(r, held[r], txn[r], pc[r])
    BY <1>2, HeldByWorker DEF Renewed, RenewalFails, Park, Holds, Q!BeginPause, Q!CommitPause
  <2>3. Answers(s, current[r], batch[r], held[r], txn[r], pc[r])
    BY <1>0, <2>1 DEF Answers, PublisherAt, Owed, Hand, InHand, Emptying
  <2> QED
    BY <2>1, <2>2, <2>3, LeaseMoves
<1>3. CASE PublishFails(r)
  <2>1. /\ Moves(r, step[r], current[r], batch[r], tried[r], stopping[r])
        /\ step[r] = "publishing"
    BY <1>0, <1>3, OfWorker DEF PublishFails, Moves
  <2>2. Holds(r, held[r], txn[r], "raised")
    BY <1>3, HeldByWorker DEF PublishFails, P!IOFails, Holds
  <2>3. Answers(step[r], current[r], batch[r], held[r], txn[r], "raised")
    BY <1>0, <2>1 DEF Answers, PublisherAt, Owed, Hand, InHand, Emptying
  <2> QED
    BY <2>1, <2>2, <2>3, LeaseMoves
<1>4. CASE Crash(r)
  <2>1. Moves(r, "stopped", NoWindow, <<>>, 0, FALSE)
    BY <1>4 DEF Crash, Set, Moves
  <2>2. pc' = [pc EXCEPT ![r] = "idle"]
    <3>1. CASE pc[r] = "idle"
      BY <1>4, <3>1, HeldByWorker DEF Crash
    <3>2. CASE pc[r] # "idle"
      BY <1>4, <3>2 DEF Crash, P!Crash
    <3> QED
      BY <3>1, <3>2
  <2>3. PICK t : held' = [held EXCEPT ![r] = {}] /\ txn' = [txn EXCEPT ![r] = t]
    <3>1. CASE held[r] # {} \/ ~Q!Idle(r)
      BY <1>4, <3>1 DEF Crash, Q!Crash
    <3>2. CASE ~(held[r] # {} \/ ~Q!Idle(r))
      BY <1>4, <3>2, HeldByWorker DEF Crash
    <3> QED
      BY <3>1, <3>2
  <2>4. Answers("stopped", NoWindow, <<>>, {}, t, "idle")
    BY DEF Answers, PublisherAt, InHand, Emptying
  <2> QED
    BY <2>1, <2>2, <2>3, <2>4, LeaseMoves DEF Holds
<1> QED
  BY <1>1, <1>2, <1>3, <1>4

LEMMA FlushLeases ==
  ASSUME Types, LeaseInv, NEW r \in Workers, Flush(r)
  PROVE  LeaseInv'
<1>0. /\ Answers(step[r], current[r], batch[r], held[r], txn[r], pc[r])
      /\ batch[r] \in Seq(Fetched) /\ Fits(step[r], current[r], batch[r], tried[r])
      /\ RunnerTypes
  BY HeldByWorker DEF Types
<1>1. CASE FlushNothing(r)
  <2>1. /\ Moves(r, AfterFlush(r), current[r], batch[r], tried[r], stopping[r])
        /\ batch[r] = <<>> /\ step[r] = "flushing"
    BY <1>0, <1>1, OfWorker DEF FlushNothing, Goto, Moves
  <2>2. pc' = [pc EXCEPT ![r] = "idle"]
    <3>1. CASE pc[r] = "batch"
      BY <1>1, <3>1 DEF FlushNothing, P!Abandon, P!Goto
    <3>2. CASE pc[r] # "batch"
      BY <1>0, <1>1, <2>1, <3>2, HeldByWorker DEF FlushNothing, Answers, PublisherAt
    <3> QED
      BY <3>1, <3>2
  <2>3. Holds(r, held[r], txn[r], "idle")
    BY <1>1, <2>2, HeldByWorker DEF FlushNothing, Holds
  <2>4. AfterFlush(r) \in {"stopped", "draining"}
    BY <1>0, FlushGoes
  <2>5. Answers(AfterFlush(r), current[r], batch[r], held[r], txn[r], "idle")
    BY <1>0, <2>1, <2>4 DEF Answers, PublisherAt, Owed, Hand, InHand, Emptying
  <2> QED
    BY <2>1, <2>3, <2>5, LeaseMoves
<1>2. CASE FlushBatch(r)
  <2>1. /\ Moves(r, "publishing", current[r], batch[r], tried[r], stopping[r])
        /\ step[r] = "flushing"
    BY <1>0, <1>2, OfWorker DEF FlushBatch, Goto, Moves
  <2>2. PICK p \in P!Publishing \cup {"returned"} : pc' = [pc EXCEPT ![r] = p]
    BY <1>2 DEF FlushBatch, P!FlushBatch, P!Goto, P!Publishing
  <2>3. Holds(r, held[r], txn[r], p)
    BY <1>2, <2>2, HeldByWorker DEF FlushBatch, Holds
  <2>4. Answers("publishing", current[r], batch[r], held[r], txn[r], p)
    BY <1>0, <2>1 DEF Answers, PublisherAt, Owed, Hand, InHand, Emptying
  <2> QED
    BY <2>1, <2>3, <2>4, LeaseMoves
<1>3. CASE Publish(r)
  <2>1. /\ Moves(r, step[r], current[r], batch[r], tried[r], stopping[r])
        /\ step[r] = "publishing"
    BY <1>0, <1>3, OfWorker DEF Publish, Moves
  <2>2. PICK p \in P!Publishing \cup {"returned", "raised"} : pc' = [pc EXCEPT ![r] = p]
    BY <1>3 DEF Publish, P!Verify, P!Move, P!Merge, P!WriteManifest, P!ReadGeneration,
      P!WriteTmp, P!Replace, P!Goto, P!Publishing
  <2>3. Holds(r, held[r], txn[r], p)
    BY <1>3, <2>2, HeldByWorker DEF Publish, Holds
  <2>4. Answers(step[r], current[r], batch[r], held[r], txn[r], p)
    BY <1>0, <2>1 DEF Answers, PublisherAt, Owed, Hand, InHand, Emptying
  <2> QED
    BY <2>1, <2>3, <2>4, LeaseMoves
<1>4. CASE PublishEnds(r)
  <2>1. PICK s \in {"checkpointing", "releasing"} :
          /\ Moves(r, s, current[r], batch[r], tried[r], stopping[r])
          /\ step[r] = "publishing"
    BY <1>0, <1>4, OfWorker DEF PublishEnds, Goto, Moves
  <2>2. Holds(r, held[r], txn[r], "idle")
    BY <1>4, HeldByWorker DEF PublishEnds, P!Return, Holds
  <2>3. Answers(s, current[r], batch[r], held[r], txn[r], "idle")
    BY <1>0, <2>1 DEF Answers, PublisherAt, Owed, Hand, InHand, Emptying
  <2> QED
    BY <2>1, <2>2, <2>3, LeaseMoves
<1>5. step[r] \in Emptying =>
        /\ batch[r] # <<>> /\ First(r) = batch[r][1]
        /\ Wins(batch[r]) = Wins(Tail(batch[r])) \cup {First(r).win}
        /\ \A again \in Emptying : Rest(r, again) \in {again, "stopped", "draining"}
  <2>1. step[r] \in Emptying => batch[r] # <<>>
    BY <1>0 DEF Fits
  <2>2. AfterFlush(r) \in {"stopped", "draining"}
    BY <1>0, FlushGoes
  <2> QED
    BY <1>0, <2>1, <2>2, WinsOf DEF First, Rest
<1>6. CASE Checkpoint(r)
  <2>1. /\ Moves(r, "committing", current[r], batch[r], tried[r], stopping[r])
        /\ step[r] = "checkpointing"
    BY <1>0, <1>6, OfWorker DEF Checkpoint, Goto, Moves
  <2>2. PICK t : t.win = First(r).win /\ txn' = [txn EXCEPT ![r] = t]
    BY <1>6 DEF Checkpoint, Q!BeginRetire
  <2>3. Holds(r, held[r], t, pc[r])
    BY <1>6, <2>2, HeldByWorker DEF Checkpoint, Q!BeginRetire, Holds
  <2>4. Answers("committing", current[r], batch[r], held[r], t, pc[r])
    BY <1>0, <2>1, <2>2 DEF Answers, PublisherAt, Owed, Hand, InHand, Emptying, First
  <2> QED
    BY <2>1, <2>3, <2>4, LeaseMoves
<1>7. CASE CommitCheckpoint(r)
  <2>1. /\ step[r] = "committing" /\ step[r] \in Emptying
        /\ held' = [held EXCEPT ![r] = held[r] \ {txn[r].win}] /\ UNCHANGED pc
        /\ txn' = [txn EXCEPT ![r] = Q!NoTxn]
    BY <1>7 DEF CommitCheckpoint, Q!CommitRetire, Emptying
  <2>2. txn[r].win = First(r).win
    BY <1>0, <2>1 DEF Answers, First
  <2> DEFINE h == held[r] \ {First(r).win}
  <2>3. Holds(r, h, Q!NoTxn, pc[r])
    BY <2>1, <2>2, HeldByWorker DEF Holds
  <2>4. h \subseteq Wins(Tail(batch[r])) /\ pc[r] = "idle"
    BY <1>0, <1>5, <2>1 DEF Answers, PublisherAt, Owed, Hand, InHand, Emptying
  <2>5. CASE First(r).bars
    <3>1. Moves(r, "covering", current[r], batch[r], tried[r], stopping[r])
      BY <1>0, <1>7, <2>5, OfWorker DEF CommitCheckpoint, Goto, Moves
    <3>2. Answers("covering", current[r], batch[r], h, Q!NoTxn, pc[r])
      BY <2>4 DEF Answers, PublisherAt, Owed, Hand, InHand, Emptying
    <3> QED
      BY <2>3, <3>1, <3>2, LeaseMoves
  <2>6. CASE ~First(r).bars
    <3>1. Moves(r, Rest(r, "checkpointing"), current[r], Tail(batch[r]), tried[r], stopping[r])
      BY <1>0, <1>7, <2>6, OfWorker DEF CommitCheckpoint, Goto, Set, Moves
    <3>2. Rest(r, "checkpointing") \in {"checkpointing", "stopped", "draining"}
      BY <1>5, <2>1 DEF Emptying
    <3>3. Rest(r, "checkpointing") # "checkpointing" => Tail(batch[r]) = <<>>
      BY <1>0, <1>5, <2>1, TailOfBatch DEF Rest
    <3>4. Answers(Rest(r, "checkpointing"), current[r], Tail(batch[r]), h, Q!NoTxn, pc[r])
      BY <2>4, <3>2, <3>3 DEF Answers, PublisherAt, Owed, Hand, InHand, Emptying
    <3> QED
      BY <2>3, <3>1, <3>4, LeaseMoves
  <2> QED
    BY <2>5, <2>6
<1>8. CASE UpsertCoverage(r) \/ ReleaseBatch(r)
  <2>1. PICK again \in {"checkpointing", "releasing"} :
          Moves(r, Rest(r, again), current[r], Tail(batch[r]), tried[r], stopping[r])
    BY <1>0, <1>8, OfWorker DEF UpsertCoverage, ReleaseBatch, Goto, Set, Moves
  <2>2. step[r] \in {"covering", "releasing"} /\ step[r] \in Emptying /\ again \in Emptying
    BY <1>8 DEF UpsertCoverage, ReleaseBatch, Goto, Emptying
  <2>3. PICK h : h \subseteq Wins(Tail(batch[r])) /\ Holds(r, h, txn[r], pc[r])
    <3>1. CASE UpsertCoverage(r)
      <4>1. held[r] \subseteq Wins(Tail(batch[r]))
        BY <1>0, <3>1 DEF UpsertCoverage, Goto, Answers, Owed, Hand, InHand
      <4>2. Holds(r, held[r], txn[r], pc[r])
        BY <3>1, HeldByWorker DEF UpsertCoverage, Holds
      <4> QED
        BY <4>1, <4>2
    <3>2. CASE ReleaseBatch(r)
      <4>1. held[r] \subseteq Wins(batch[r])
        BY <1>0, <3>2 DEF ReleaseBatch, Goto, Answers, Owed, Hand, InHand
      <4>2. held' = [held EXCEPT ![r] = held[r] \ {First(r).win}] /\ UNCHANGED <<txn, pc>>
        BY <3>2 DEF ReleaseBatch, Q!Release
      <4>3. Holds(r, held[r] \ {First(r).win}, txn[r], pc[r])
        BY <4>2, HeldByWorker DEF Holds
      <4>4. held[r] \ {First(r).win} \subseteq Wins(Tail(batch[r]))
        BY <1>5, <2>2, <4>1
      <4> QED
        BY <4>3, <4>4
    <3> QED
      BY <1>8, <3>1, <3>2
  <2>4. Rest(r, again) \in {again, "stopped", "draining"} /\ pc[r] = "idle"
    BY <1>0, <1>5, <2>2 DEF Answers, PublisherAt, Emptying
  <2>5. Rest(r, again) # again => Tail(batch[r]) = <<>>
    BY <1>0, <1>5, <2>2, TailOfBatch DEF Rest
  <2>6. Answers(Rest(r, again), current[r], Tail(batch[r]), h, txn[r], pc[r])
    BY <2>3, <2>4, <2>5 DEF Answers, PublisherAt, Owed, Hand, InHand, Emptying
  <2> QED
    BY <2>1, <2>3, <2>6, LeaseMoves
<1> QED
  BY <1>1, <1>2, <1>3, <1>4, <1>6, <1>7, <1>8 DEF Flush

LEMMA InitLeases == Init => LeaseInv
<1> SUFFICES ASSUME Init, NEW r \in Workers
             PROVE  Answers(step[r], current[r], batch[r], held[r], txn[r], pc[r])
  BY DEF LeaseInv
<1>1. step[r] = "stopped" /\ held[r] = {} /\ pc[r] = "idle"
  BY DEF Init, Q!Init, P!Init
<1> QED
  BY <1>1 DEF Answers, PublisherAt, InHand, Emptying

LEMMA StepLeases == Types /\ LeaseInv /\ [Next]_vars => LeaseInv'
<1> SUFFICES ASSUME Types, LeaseInv, [Next]_vars PROVE LeaseInv'
  OBVIOUS
<1>1. ASSUME NEW r \in Workers, Progress(r) \/ Fault(r) PROVE LeaseInv'
  BY <1>1, DrainLeases, FaultLeases, FlushLeases DEF Progress, Fault, Fetch
<1>2. CASE UNCHANGED <<step, current, batch, held, txn, pc>>
  BY <1>2 DEF LeaseInv
<1>3. CASE Operator \/ \E w \in Windows : Elapse(w)
  BY <1>2, <1>3 DEF Operator, Elapse, Q!ResumeAll, Q!Enqueue, Q!LeaseExpires
<1>4. CASE UNCHANGED vars
  BY <1>2, <1>4
<1> QED
  BY <1>1, <1>3, <1>4 DEF Next

(* However many workers drain the queue, and whatever interrupts them: a   *)
(* worker that is done with a drain, or was restarted, has answered for    *)
(* every window it claimed and left no batch open.                         *)
THEOREM LeasesNeverLeak == Spec => []NoLeaseLeaks
<1>1. Types /\ LeaseInv => NoLeaseLeaks
  <2> SUFFICES ASSUME Types, LeaseInv, NEW r \in Workers, step[r] = "stopped"
               PROVE  held[r] = {} /\ batch[r] = <<>> /\ pc[r] = "idle"
    BY DEF NoLeaseLeaks
  <2>1. batch[r] = <<>> /\ batch[r] \in Seq(Fetched)
    BY HeldByWorker DEF Fits
  <2>2. Wins(batch[r]) = {}
    BY <2>1, WinsOf
  <2> QED
    BY <2>1, <2>2, HeldByWorker DEF Answers, PublisherAt, Owed, Hand, InHand, Emptying
<1> QED
  BY <1>1, InitTypes, StepTypes, InitLeases, StepLeases, PTL DEF Spec

----------------------------------------------------------------------------
(* What holds of one worker process, as the application runs it.           *)
Alone == \A r, s \in Workers : r = s

(* No two entries of a batch are of the same window.                       *)
Distinct(b) == \A i, j \in 1 .. Len(b) : b[i].win = b[j].win => i = j

(* What a worker has to answer for is open: leased, as long as it may still*)
(* claim; at most parked by its own pause while the batch is dealt with.   *)
Opened(s, w, b, state) ==
  /\ Distinct(b)
  /\ s \in InHand \cup {"claiming"} => w \notin Wins(b)
  /\ s \in InHand \cup {"draining", "claiming"} =>
       \A x \in Wins(b) \cup Hand(s, w) : state[x] = "running"
  /\ \A x \in Owed(s, b) : state[x] \in {"pending", "running"}

(* The auth pause is the worker's own, and what it locked is still leased. *)
PauseOwn(r, s, pause, state) ==
  /\ s = "pausing" => pause.by = r /\ \A x \in pause.rows : state[x] = "running"
  /\ s # "pausing" => pause = Q!NoPause

(* The verdict on a window is the one the fetch gave, and its rows are     *)
(* counted after it is done.                                               *)
VerdictKept(s, b, t, state, counts) ==
  /\ s = "retiring" => t.to = "failed"
  /\ s = "committing" => t.to = IF b[1].bars THEN "done" ELSE "empty"
  /\ s = "covering" => state[b[1].win] = "done" /\ counts[b[1].win] = 0

DrainInv ==
  /\ \A r \in Workers :
       /\ Opened(step[r], current[r], batch[r], winState)
       /\ PauseOwn(r, step[r], pausing, winState)
       /\ VerdictKept(step[r], batch[r], txn[r], winState, covered)
  /\ CoverageNotInflated

(* No verdict on a window is taken back.                                   *)
Final ==
  \A w \in Windows :
    winState[w] \in {"done", "empty", "failed"} => winState'[w] = winState[w]

LEMMA CoverageKept ==
  ASSUME Types, CoverageNotInflated, Final, UNCHANGED covered
  PROVE  CoverageNotInflated'
<1> SUFFICES ASSUME NEW w \in Windows
             PROVE  covered[w] <= (IF winState'[w] = "done" THEN 1 ELSE 0)
  BY DEF CoverageNotInflated
<1>1. covered[w] \in Nat /\ covered[w] <= (IF winState[w] = "done" THEN 1 ELSE 0)
  BY DEF Types, RunnerTypes, CoverageNotInflated
<1> QED
  BY <1>1 DEF Final

(* The one worker moves.                                                   *)
LEMMA DrainMoves ==
  ASSUME Alone, Types, NEW r \in Workers,
         NEW s, NEW w, NEW b, NEW n, NEW q, NEW t,
         Moves(r, s, w, b, n, q), txn'[r] = t,
         Opened(s, w, b, winState'), PauseOwn(r, s, pausing', winState'),
         VerdictKept(s, b, t, winState', covered'),
         CoverageNotInflated'
  PROVE  DrainInv'
<1>1. step'[r] = s /\ current'[r] = w /\ batch'[r] = b
  BY DEF Types, RunnerTypes, Moves
<1>2. \A x \in Workers : x = r
  BY DEF Alone
<1> QED
  BY <1>1, <1>2 DEF DrainInv

(* What is known of the one worker.                                        *)
LEMMA OfDrain ==
  ASSUME Types, LeaseInv, DrainInv, NEW r \in Workers
  PROVE  /\ Opened(step[r], current[r], batch[r], winState)
         /\ PauseOwn(r, step[r], pausing, winState)
         /\ VerdictKept(step[r], batch[r], txn[r], winState, covered)
         /\ Answers(step[r], current[r], batch[r], held[r], txn[r], pc[r])
         /\ RunnerTypes /\ CoverageNotInflated
         /\ batch[r] \in Seq(Fetched) /\ Wins(batch[r]) \subseteq Windows
         /\ Fits(step[r], current[r], batch[r], tried[r])
         /\ winState \in [Windows -> Q!WindowStates]
         /\ txn \in [Workers -> Q!Txns \cup {Q!NoTxn}]
<1>1. batch[r] \in Seq(Fetched)
  BY HeldByWorker
<1> QED
  BY <1>1, WinsOf, HeldByWorker DEF DrainInv, Types, QueueTypes, Q!TypeOK

LEMMA Singles ==
  /\ Distinct(<<>>) /\ Wins(<<>>) = {}
  /\ \A b \in Seq(Fetched) :
       /\ b # <<>> /\ Distinct(b) => Distinct(Tail(b)) /\ b[1].win \notin Wins(Tail(b))
       /\ \A f \in Fetched : Distinct(b) /\ f.win \notin Wins(b) => Distinct(Append(b, f))
<1>1. Distinct(<<>>) /\ Wins(<<>>) = {}
  BY DEF Distinct, Wins
<1>2. ASSUME NEW b \in Seq(Fetched), b # <<>>, Distinct(b)
      PROVE  Distinct(Tail(b)) /\ b[1].win \notin Wins(Tail(b))
  <2>1. /\ Len(b) \in Nat \ {0} /\ Len(Tail(b)) = Len(b) - 1
        /\ \A i \in 1 .. Len(Tail(b)) : i + 1 \in 1 .. Len(b) /\ Tail(b)[i] = b[i + 1]
    BY <1>2, TailOfBatch
  <2>2. Distinct(Tail(b))
    <3> SUFFICES ASSUME NEW i \in 1 .. Len(Tail(b)), NEW j \in 1 .. Len(Tail(b)),
                        Tail(b)[i].win = Tail(b)[j].win
                 PROVE  i = j
      BY DEF Distinct
    <3>1. i + 1 = j + 1
      BY <1>2, <2>1 DEF Distinct
    <3> QED
      BY <2>1, <3>1
  <2>3. ASSUME NEW i \in 1 .. Len(Tail(b)) PROVE Tail(b)[i].win # b[1].win
    <3>1. i + 1 # 1 /\ 1 \in 1 .. Len(b)
      BY <2>1
    <3> QED
      BY <1>2, <2>1, <3>1 DEF Distinct
  <2> QED
    BY <2>2, <2>3 DEF Wins
<1>3. ASSUME NEW b \in Seq(Fetched), NEW f \in Fetched, Distinct(b), f.win \notin Wins(b)
      PROVE  Distinct(Append(b, f))
  <2>1. /\ Len(b) \in Nat /\ Len(Append(b, f)) = Len(b) + 1
        /\ \A i \in 1 .. Len(Append(b, f)) :
             \/ i \in 1 .. Len(b) /\ Append(b, f)[i] = b[i]
             \/ i = Len(b) + 1 /\ Append(b, f)[i] = f
    BY AppendToBatch
  <2>2. \A i \in 1 .. Len(b) : b[i].win # f.win
    BY <1>3 DEF Wins
  <2> DEFINE a == Append(b, f)
  <2> HIDE DEF a
  <2>3. Distinct(a)
    BY <1>3, <2>1, <2>2 DEF Distinct, a
  <2> QED
    BY <2>3 DEF a
<1> QED
  BY <1>1, <1>2, <1>3

(* Nothing of a window changes.                                            *)
LEMMA QuietWindows ==
  ASSUME Alone, Types, DrainInv, NEW r \in Workers,
         NEW s, NEW w, NEW b, NEW n, NEW q, NEW t,
         Moves(r, s, w, b, n, q), txn'[r] = t, UNCHANGED <<winState, covered>>,
         Opened(s, w, b, winState), PauseOwn(r, s, pausing', winState),
         VerdictKept(s, b, t, winState, covered)
  PROVE  DrainInv' /\ Final
<1>1. Final
  BY DEF Final
<1>2. CoverageNotInflated'
  BY <1>1, CoverageKept DEF DrainInv
<1>3. /\ Opened(s, w, b, winState') /\ PauseOwn(r, s, pausing', winState')
      /\ VerdictKept(s, b, t, winState', covered')
  OBVIOUS
<1> QED
  BY <1>1, <1>2, <1>3, DrainMoves

LEMMA QuietDrain ==
  ASSUME Alone, Types, LeaseInv, DrainInv, NEW r \in Workers,
         \/ ClaimNext(r) \/ LoopEnds(r) \/ FetchBars(r) \/ FetchEmpty(r) \/ FetchRefused(r)
         \/ Renewed(r) \/ RenewalFails(r) \/ PublishFails(r)
         \/ FlushNothing(r) \/ FlushBatch(r) \/ Publish(r) \/ PublishEnds(r) \/ Checkpoint(r)
  PROVE  DrainInv' /\ Final
<1>0. /\ Opened(step[r], current[r], batch[r], winState)
      /\ PauseOwn(r, step[r], pausing, winState)
      /\ VerdictKept(step[r], batch[r], txn[r], winState, covered)
      /\ RunnerTypes /\ batch[r] \in Seq(Fetched)
      /\ Fits(step[r], current[r], batch[r], tried[r])
      /\ txn \in [Workers -> Q!Txns \cup {Q!NoTxn}]
  BY OfDrain
<1> USE DEF InHand, Emptying
<1>1. CASE LoopEnds(r)
  <2>1. /\ Moves(r, "flushing", current[r], batch[r], tried[r], TRUE) /\ step[r] = "draining"
        /\ UNCHANGED <<winState, covered, pausing, txn>>
    BY <1>0, <1>1, OfWorker DEF LoopEnds, Goto, Set, Moves
  <2>2. Opened("flushing", current[r], batch[r], winState)
    BY <1>0, <2>1 DEF Opened, Hand, Owed
  <2>3. /\ PauseOwn(r, "flushing", pausing', winState)
        /\ VerdictKept("flushing", batch[r], txn'[r], winState, covered)
    BY <1>0, <2>1 DEF PauseOwn, VerdictKept
  <2> QED
    BY <2>1, <2>2, <2>3, QuietWindows
<1>2. ASSUME NEW bars \in BOOLEAN, Append1(r, bars) PROVE DrainInv' /\ Final
  <2> DEFINE to == IF Len(batch[r]) + 1 >= BatchSize THEN "flushing" ELSE "draining"
             f == [win |-> current[r], bars |-> bars]
             b == Append(batch[r], f)
  <2>1. /\ Moves(r, to, NoWindow, b, tried[r] + 1, stopping[r])
        /\ step[r] = "fetching" /\ UNCHANGED <<winState, covered, pausing, txn>>
    BY <1>0, <1>2, OfWorker DEF Append1, Progressed, Goto, Set, Moves
  <2>2. f \in Fetched /\ f.win = current[r]
    BY <1>0, <2>1 DEF Fetched, Fits
  <2>3. Wins(b) = Wins(batch[r]) \cup {current[r]}
    BY <1>0, <2>2, WinsOf
  <2>4. Distinct(b)
    BY <1>0, <2>1, <2>2, Singles DEF Opened
  <2>5. to \in {"flushing", "draining"}
    OBVIOUS
  <2>6. \A x \in Wins(b) : winState[x] = "running"
    BY <1>0, <2>1, <2>3 DEF Opened, Hand
  <2> HIDE DEF to, b
  <2>7. Opened(to, NoWindow, b, winState)
    BY <2>4, <2>5, <2>6 DEF Opened, Hand, Owed
  <2>8. PauseOwn(r, to, pausing', winState) /\ VerdictKept(to, b, txn'[r], winState, covered)
    BY <1>0, <2>1, <2>5 DEF PauseOwn, VerdictKept
  <2> QED
    BY <2>1, <2>7, <2>8, QuietWindows
<1>3. CASE FetchRefused(r)
  <2>1. /\ Moves(r, "retiring", current[r], batch[r], tried[r], stopping[r])
        /\ step[r] = "fetching"
    BY <1>0, <1>3, OfWorker DEF FetchRefused, Set, Moves
  <2>2. PICK w \in Windows : w = current[r]
    BY <1>0, <2>1 DEF Fits
  <2>3. Q!BeginRetire(r, w, "failed") /\ UNCHANGED covered
    BY <1>3, <2>2 DEF FetchRefused, Q!BeginReject, Q!BeginExhaust
  <2>4. txn'[r].to = "failed" /\ UNCHANGED <<winState, pausing>>
    BY <1>0, <2>3 DEF Q!BeginRetire, Q!tables
  <2>5. Opened("retiring", current[r], batch[r], winState)
    BY <1>0, <2>1 DEF Opened, Hand, Owed
  <2>6. /\ PauseOwn(r, "retiring", pausing', winState)
        /\ VerdictKept("retiring", batch[r], txn'[r], winState, covered)
    BY <1>0, <2>1, <2>4 DEF PauseOwn, VerdictKept
  <2> QED
    BY <2>1, <2>3, <2>4, <2>5, <2>6, QuietWindows
<1>4. CASE Renewed(r) \/ RenewalFails(r)
  <2>1. PICK s \in {"flushing", "pausing"} :
          /\ Moves(r, s, current[r], batch[r], tried[r], stopping[r])
          /\ step[r] = "renewing" /\ (s = "flushing" => UNCHANGED queue)
          /\ (s = "pausing" => Q!BeginPause(r)) /\ UNCHANGED covered
    BY <1>0, <1>4, OfWorker DEF Renewed, RenewalFails, Goto, Moves
  <2>2. Opened(s, current[r], batch[r], winState)
    BY <1>0, <2>1 DEF Opened, Hand, Owed
  <2>3. UNCHANGED <<winState, txn>> /\ PauseOwn(r, s, pausing', winState)
    BY <1>0, <2>1 DEF PauseOwn, Q!BeginPause, Q!tables, Q!Running
  <2>4. VerdictKept(s, batch[r], txn'[r], winState, covered)
    BY <2>1 DEF VerdictKept
  <2> QED
    BY <2>1, <2>2, <2>3, <2>4, QuietWindows
<1>5. CASE FlushNothing(r)
  <2>1. /\ Moves(r, AfterFlush(r), current[r], batch[r], tried[r], stopping[r])
        /\ batch[r] = <<>> /\ step[r] = "flushing" /\ UNCHANGED <<winState, covered, pausing, txn>>
    BY <1>0, <1>5, OfWorker DEF FlushNothing, Goto, Moves
  <2>2. AfterFlush(r) \in {"stopped", "draining"}
    BY <1>0, FlushGoes
  <2>3. Opened(AfterFlush(r), current[r], batch[r], winState)
    BY <2>1, <2>2, Singles DEF Opened, Hand, Owed
  <2>4. /\ PauseOwn(r, AfterFlush(r), pausing', winState)
        /\ VerdictKept(AfterFlush(r), batch[r], txn'[r], winState, covered)
    BY <1>0, <2>1, <2>2 DEF PauseOwn, VerdictKept
  <2> QED
    BY <2>1, <2>3, <2>4, QuietWindows
<1>6. CASE FlushBatch(r) \/ PublishFails(r) \/ Publish(r) \/ PublishEnds(r)
  <2>1. PICK s \in {"publishing", "checkpointing", "releasing"} :
          /\ Moves(r, s, current[r], batch[r], tried[r], stopping[r])
          /\ step[r] \in {"flushing", "publishing"}
          /\ UNCHANGED <<winState, covered, pausing, txn>>
    BY <1>0, <1>6, OfWorker
      DEF FlushBatch, PublishFails, Publish, PublishEnds, Goto, Moves
  <2>2. Opened(s, current[r], batch[r], winState)
    BY <1>0, <2>1 DEF Opened, Hand, Owed
  <2>3. /\ PauseOwn(r, s, pausing', winState)
        /\ VerdictKept(s, batch[r], txn'[r], winState, covered)
    BY <1>0, <2>1 DEF PauseOwn, VerdictKept
  <2> QED
    BY <2>1, <2>2, <2>3, QuietWindows
<1>7. CASE Checkpoint(r)
  <2>1. /\ Moves(r, "committing", current[r], batch[r], tried[r], stopping[r])
        /\ step[r] = "checkpointing" /\ UNCHANGED covered
    BY <1>0, <1>7, OfWorker DEF Checkpoint, Goto, Moves
  <2>2. PICK to \in {"done", "empty"} : to = IF batch[r][1].bars THEN "done" ELSE "empty"
    OBVIOUS
  <2>3. UNCHANGED <<winState, pausing>> /\ txn'[r].to = to
    BY <1>0, <1>7, <2>2 DEF Checkpoint, Q!BeginRetire, Q!tables, First
  <2>4. Opened("committing", current[r], batch[r], winState)
    BY <1>0, <2>1 DEF Opened, Hand, Owed
  <2>5. /\ PauseOwn(r, "committing", pausing', winState)
        /\ VerdictKept("committing", batch[r], txn'[r], winState, covered)
    BY <1>0, <2>1, <2>2, <2>3 DEF PauseOwn, VerdictKept
  <2> QED
    BY <2>1, <2>3, <2>4, <2>5, QuietWindows
<1>8. CASE ClaimNext(r)
  <2>1. PICK w \in Windows : Q!BeginClaim(r, w) /\ current' = [current EXCEPT ![r] = w]
    BY <1>8 DEF ClaimNext, Select, Set
  <2>2. /\ Moves(r, "claiming", w, batch[r], tried[r], stopping[r])
        /\ step[r] = "draining" /\ UNCHANGED covered
    BY <1>0, <1>8, <2>1, OfWorker DEF ClaimNext, Select, Goto, Moves
  <2>3. winState[w] = "pending" /\ UNCHANGED <<winState, pausing>>
    BY <2>1 DEF Q!BeginClaim, Q!Selectable, Q!Claimable, Q!tables
  <2>4. \A x \in Wins(batch[r]) : winState[x] = "running"
    BY <1>0, <2>2 DEF Opened
  <2>5. Opened("claiming", w, batch[r], winState)
    BY <1>0, <2>3, <2>4 DEF Opened, Hand, Owed
  <2>6. /\ PauseOwn(r, "claiming", pausing', winState)
        /\ VerdictKept("claiming", batch[r], txn'[r], winState, covered)
    BY <1>0, <2>2, <2>3 DEF PauseOwn, VerdictKept
  <2> QED
    BY <2>2, <2>3, <2>5, <2>6, QuietWindows
<1> QED
  BY <1>1, <1>2, <1>3, <1>4, <1>5, <1>6, <1>7, <1>8 DEF FetchBars, FetchEmpty

LEMMA LeasingDrain ==
  ASSUME Alone, Types, LeaseInv, DrainInv, NEW r \in Workers,
         \/ StartDrain(r) \/ Claimed(r) \/ Retired(r) \/ FetchFails(r)
         \/ StopForBudget(r) \/ AuthFails(r) \/ Park(r) \/ Crash(r)
  PROVE  DrainInv' /\ Final
<1>0. /\ Opened(step[r], current[r], batch[r], winState)
      /\ PauseOwn(r, step[r], pausing, winState)
      /\ VerdictKept(step[r], batch[r], txn[r], winState, covered)
      /\ Answers(step[r], current[r], batch[r], held[r], txn[r], pc[r])
      /\ RunnerTypes /\ batch[r] \in Seq(Fetched) /\ CoverageNotInflated
      /\ Wins(batch[r]) \subseteq Windows
      /\ Fits(step[r], current[r], batch[r], tried[r])
      /\ winState \in [Windows -> Q!WindowStates]
  BY OfDrain
<1> USE DEF InHand, Emptying
<1>1. CASE StartDrain(r)
  <2>1. /\ Moves(r, "draining", current[r], batch[r], 0, FALSE) /\ step[r] = "stopped"
        /\ UNCHANGED <<pausing, covered>>
    BY <1>0, <1>1, OfWorker DEF StartDrain, Goto, Set, Moves, Q!Reclaim
  <2>2. Final
    BY <1>0, <1>1 DEF StartDrain, Q!Reclaim, Q!Returned, Q!Stale, Q!Running, Final
  <2>3. batch[r] = <<>>
    BY <1>0, <2>1 DEF Fits
  <2>4. Opened("draining", current[r], batch[r], winState')
    BY <2>3, Singles DEF Opened, Hand, Owed
  <2>5. /\ PauseOwn(r, "draining", pausing', winState')
        /\ VerdictKept("draining", batch[r], txn'[r], winState', covered')
    BY <1>0, <2>1 DEF PauseOwn, VerdictKept
  <2> QED
    BY <1>0, <2>1, <2>2, <2>4, <2>5, CoverageKept, DrainMoves
<1>2. CASE Claimed(r)
  <2>1. /\ Moves(r, "fetching", current[r], batch[r], tried[r], stopping[r])
        /\ step[r] = "claiming" /\ UNCHANGED <<pausing, covered>>
    BY <1>0, <1>2, OfWorker DEF Claimed, Goto, Moves, Q!CommitClaim
  <2>2. /\ txn[r].to = "running" /\ txn[r].win = current[r]
        /\ winState' = [winState EXCEPT ![txn[r].win] = "running"]
    BY <1>0, <1>2, <2>1 DEF Claimed, Q!CommitClaim, Answers
  <2>3. /\ winState[current[r]] = "pending"
        /\ winState' = [winState EXCEPT ![current[r]] = "running"]
    BY <2>2 DEF Types, QueueLocks
  <2>4. current[r] \notin Wins(batch[r]) /\ \A x \in Wins(batch[r]) : winState[x] = "running"
    BY <1>0, <2>1 DEF Opened
  <2>5. Opened("fetching", current[r], batch[r], winState')
    BY <1>0, <2>1, <2>3, <2>4 DEF Opened, Hand, Owed, Fits
  <2>6. Final
    BY <1>0, <2>3 DEF Final
  <2>7. /\ PauseOwn(r, "fetching", pausing', winState')
        /\ VerdictKept("fetching", batch[r], txn'[r], winState', covered')
    BY <1>0, <2>1 DEF PauseOwn, VerdictKept
  <2> QED
    BY <1>0, <2>1, <2>5, <2>6, <2>7, CoverageKept, DrainMoves
<1>3. ASSUME NEW s \in {"draining", "flushing", "renewing"}, NEW n, NEW q,
             NEW state \in {"pending", "running", "failed"},
             Moves(r, s, NoWindow, batch[r], n, q), step[r] \in {"fetching", "retiring"},
             winState' = [winState EXCEPT ![current[r]] = state],
             UNCHANGED <<pausing, covered>>
      PROVE  DrainInv' /\ Final
  <2>1. winState[current[r]] = "running" /\ current[r] \notin Wins(batch[r])
        /\ \A x \in Wins(batch[r]) : winState[x] = "running"
    BY <1>0, <1>3 DEF Opened, Hand
  <2>2. \A x \in Wins(batch[r]) : winState'[x] = "running"
    BY <1>0, <1>3, <2>1
  <2>3. Opened(s, NoWindow, batch[r], winState')
    BY <1>0, <1>3, <2>2 DEF Opened, Hand, Owed
  <2>4. Final
    BY <1>0, <1>3, <2>1 DEF Final
  <2>5. /\ PauseOwn(r, s, pausing', winState')
        /\ VerdictKept(s, batch[r], txn'[r], winState', covered')
    BY <1>0, <1>3 DEF PauseOwn, VerdictKept
  <2> QED
    BY <1>0, <1>3, <2>3, <2>4, <2>5, CoverageKept, DrainMoves
<1>4. CASE Retired(r)
  <2>1. /\ Moves(r, "draining", NoWindow, batch[r], tried[r] + 1, stopping[r])
        /\ step[r] = "retiring" /\ UNCHANGED <<pausing, covered>>
    BY <1>0, <1>4, OfWorker DEF Retired, Set, Moves, Q!CommitRetire
  <2>2. txn[r].to = "failed" /\ txn[r].win = current[r]
    BY <1>0, <2>1 DEF VerdictKept, Answers
  <2>3. winState' = [winState EXCEPT ![current[r]] = "failed"]
    BY <1>4, <2>2 DEF Retired, Q!CommitRetire
  <2> QED
    BY <1>3, <2>1, <2>3
<1>5. CASE FetchFails(r)
  <2>1. /\ Moves(r, "draining", NoWindow, batch[r], tried[r] + 1, stopping[r])
        /\ step[r] = "fetching" /\ UNCHANGED <<pausing, covered>>
        /\ winState' = [winState EXCEPT ![current[r]] = "pending"]
    BY <1>0, <1>5, OfWorker DEF FetchFails, Progressed, Goto, Set, Moves, Q!FailRetry
  <2> QED
    BY <1>3, <2>1
<1>6. CASE StopForBudget(r) \/ AuthFails(r)
  <2>1. PICK s \in {"flushing", "renewing"} :
          /\ Moves(r, s, NoWindow, batch[r], tried[r], TRUE)
          /\ step[r] = "fetching" /\ UNCHANGED covered
    BY <1>0, <1>6, OfWorker DEF StopForBudget, AuthFails, Interrupted, Goto, Set, Moves
  <2>2. winState[current[r]] = "running"
    BY <1>0, <2>1 DEF Opened, Hand
  <2>3. winState' = [winState EXCEPT ![current[r]] = "pending"] /\ UNCHANGED pausing
    BY <1>6, <2>2 DEF StopForBudget, AuthFails, Q!Release
  <2> QED
    BY <1>3, <2>1, <2>3
<1>7. CASE Park(r)
  <2>1. /\ Moves(r, "flushing", current[r], batch[r], tried[r], stopping[r])
        /\ step[r] = "pausing" /\ pausing' = Q!NoPause /\ UNCHANGED covered
        /\ winState' = Q!Returned(pausing.rows)
    BY <1>0, <1>7, OfWorker DEF Park, Goto, Moves, Q!CommitPause
  <2>2. \A x \in pausing.rows : winState[x] = "running"
    BY <1>0, <2>1 DEF PauseOwn
  <2>3. \A x \in Windows : winState'[x] = winState[x] \/ (winState[x] = "running" /\ winState'[x] = "pending")
    BY <2>1, <2>2 DEF Q!Returned
  <2>4. Final
    BY <2>3 DEF Final
  <2>5. \A x \in Wins(batch[r]) : winState'[x] \in {"pending", "running"}
    <3>1. \A x \in Wins(batch[r]) : winState[x] \in {"pending", "running"}
      BY <1>0, <2>1 DEF Opened, Owed
    <3> QED
      BY <1>0, <2>3, <3>1
  <2>6. Opened("flushing", current[r], batch[r], winState')
    BY <1>0, <2>5 DEF Opened, Owed
  <2>7. /\ PauseOwn(r, "flushing", pausing', winState')
        /\ VerdictKept("flushing", batch[r], txn'[r], winState', covered')
    BY <2>1 DEF PauseOwn, VerdictKept
  <2> QED
    BY <1>0, <2>1, <2>4, <2>6, <2>7, CoverageKept, DrainMoves
<1>8. CASE Crash(r)
  <2>1. Moves(r, "stopped", NoWindow, <<>>, 0, FALSE) /\ UNCHANGED <<winState, covered>>
    BY <1>8 DEF Crash, Set, Moves, Q!Crash, Q!tables
  <2>2. pausing' = Q!NoPause
    <3>1. CASE step[r] = "pausing"
      <4>1. pausing.by = r
        BY <1>0, <3>1 DEF PauseOwn
      <4> QED
        BY <1>8, <4>1 DEF Crash, Q!Crash, Q!Idle
    <3>2. CASE step[r] # "pausing"
      <4>1. pausing = Q!NoPause
        BY <1>0, <3>2 DEF PauseOwn
      <4>2. pausing' \in {pausing, Q!NoPause}
        BY <1>8 DEF Crash, Q!Crash
      <4> QED
        BY <4>1, <4>2
    <3> QED
      BY <3>1, <3>2
  <2>3. Opened("stopped", NoWindow, <<>>, winState)
    BY Singles DEF Opened, Hand, Owed
  <2>4. /\ PauseOwn(r, "stopped", pausing', winState)
        /\ VerdictKept("stopped", <<>>, txn'[r], winState, covered)
    BY <2>2 DEF PauseOwn, VerdictKept
  <2> QED
    BY <2>1, <2>3, <2>4, QuietWindows
<1> QED
  BY <1>1, <1>2, <1>4, <1>5, <1>6, <1>7, <1>8

LEMMA CheckpointingDrain ==
  ASSUME Alone, Types, LeaseInv, DrainInv, NEW r \in Workers,
         CommitCheckpoint(r) \/ UpsertCoverage(r) \/ ReleaseBatch(r)
  PROVE  DrainInv' /\ Final
<1>0. /\ Opened(step[r], current[r], batch[r], winState)
      /\ PauseOwn(r, step[r], pausing, winState)
      /\ VerdictKept(step[r], batch[r], txn[r], winState, covered)
      /\ Answers(step[r], current[r], batch[r], held[r], txn[r], pc[r])
      /\ RunnerTypes /\ batch[r] \in Seq(Fetched) /\ CoverageNotInflated
      /\ Fits(step[r], current[r], batch[r], tried[r])
      /\ winState \in [Windows -> Q!WindowStates]
      /\ covered \in [Windows -> Nat]
  BY OfDrain DEF RunnerTypes
<1>1. step[r] \in {"committing", "covering", "releasing"} /\ batch[r] # <<>> /\ Distinct(batch[r])
      /\ step[r] \in Emptying
  BY <1>0 DEF CommitCheckpoint, UpsertCoverage, ReleaseBatch, Goto, Fits, Emptying, Opened
<1>2. PICK f \in Fetched, w \in Windows : f = First(r) /\ f = batch[r][1] /\ w = f.win
  BY <1>0, <1>1, TailOfBatch DEF First
<1> DEFINE b == Tail(batch[r])
<1>3. /\ Distinct(b) /\ w \notin Wins(b) /\ Wins(batch[r]) = Wins(b) \cup {w}
      /\ b \in Seq(Fetched) /\ Wins(b) \subseteq Windows
  BY <1>0, <1>1, <1>2, Singles, WinsOf, TailOfBatch
<1>4. \A again \in {"checkpointing", "releasing"} :
        /\ Rest(r, again) \in {again, "stopped", "draining"}
        /\ Rest(r, again) # again => b = <<>>
  <2>1. AfterFlush(r) \in {"stopped", "draining"}
    BY <1>0, FlushGoes
  <2> QED
    BY <1>0, <1>1, <2>1, TailOfBatch DEF Rest
<1>5. pausing = Q!NoPause /\ \A x \in Wins(b) : winState[x] \in {"pending", "running"}
  BY <1>0, <1>1, <1>3 DEF PauseOwn, Opened, Owed
<1> HIDE DEF b
(* The window is dropped from the batch.                                   *)
<1>6. ASSUME NEW again \in {"checkpointing", "releasing"}, NEW n, NEW q,
             Moves(r, Rest(r, again), current[r], b, n, q),
             \A x \in Wins(b) : winState'[x] \in {"pending", "running"},
             UNCHANGED pausing, CoverageNotInflated'
      PROVE  DrainInv'
  <2> DEFINE s == Rest(r, again)
  <2>1. s \in {"checkpointing", "releasing", "stopped", "draining"}
        /\ (s \in {"stopped", "draining"} => b = <<>>)
    BY <1>4
  <2>2. s = "draining" => Wins(b) = {}
    BY <2>1, Singles
  <2> HIDE DEF s
  <2>3. Opened(s, current[r], b, winState')
    BY <1>3, <1>6, <2>1, <2>2 DEF Opened, Hand, Owed, InHand
  <2>4. /\ PauseOwn(r, s, pausing', winState')
        /\ VerdictKept(s, b, txn'[r], winState', covered')
    BY <1>5, <1>6, <2>1 DEF PauseOwn, VerdictKept
  <2> QED
    BY <1>6, <2>3, <2>4, DrainMoves DEF s
<1>7. CASE CommitCheckpoint(r)
  <2>1. /\ step[r] = "committing" /\ txn[r].win = w
        /\ txn[r].to = IF f.bars THEN "done" ELSE "empty"
    BY <1>0, <1>2, <1>7 DEF CommitCheckpoint, Answers, VerdictKept
  <2>2. PICK to \in {"done", "empty"} : to = IF f.bars THEN "done" ELSE "empty"
    OBVIOUS
  <2>3. winState' = [winState EXCEPT ![w] = to] /\ UNCHANGED <<pausing, covered>>
    BY <1>7, <2>1, <2>2 DEF CommitCheckpoint, Q!CommitRetire
  <2>4. winState[w] \in {"pending", "running"}
    BY <1>0, <1>3, <2>1 DEF Opened, Owed
  <2>5. Final
    BY <1>0, <2>3, <2>4 DEF Final
  <2>6. CoverageNotInflated'
    BY <1>0, <2>3, <2>5, CoverageKept
  <2>7. \A x \in Wins(b) : winState'[x] = winState[x]
    BY <1>0, <1>3, <2>3
  <2>8. CASE f.bars
    <3>1. Moves(r, "covering", current[r], batch[r], tried[r], stopping[r])
      BY <1>0, <1>2, <1>7, <2>8, OfWorker DEF CommitCheckpoint, Goto, Moves
    <3>2. Opened("covering", current[r], batch[r], winState')
      BY <1>1, <1>5, <2>7 DEF Opened, Hand, Owed, InHand, b
    <3>3. winState'[w] = "done" /\ covered'[w] = 0
      <4>1. covered[w] <= 0 /\ covered[w] \in Nat
        BY <1>0, <2>4 DEF CoverageNotInflated
      <4> QED
        BY <1>0, <2>2, <2>3, <2>8, <4>1
    <3>4. /\ PauseOwn(r, "covering", pausing', winState')
          /\ VerdictKept("covering", batch[r], txn'[r], winState', covered')
      BY <1>2, <1>5, <2>3, <3>3 DEF PauseOwn, VerdictKept
    <3> QED
      BY <2>5, <2>6, <3>1, <3>2, <3>4, DrainMoves
  <2>9. CASE ~f.bars
    <3>1. Moves(r, Rest(r, "checkpointing"), current[r], b, tried[r], stopping[r])
      BY <1>0, <1>2, <1>7, <2>9, OfWorker DEF CommitCheckpoint, Goto, Set, Moves, b
    <3> QED
      BY <1>5, <1>6, <2>3, <2>5, <2>6, <2>7, <3>1
  <2> QED
    BY <2>8, <2>9
<1>8. CASE UpsertCoverage(r)
  <2>1. /\ Moves(r, Rest(r, "checkpointing"), current[r], b, tried[r], stopping[r])
        /\ step[r] = "covering" /\ covered' = [covered EXCEPT ![w] = covered[w] + 1]
        /\ UNCHANGED <<winState, pausing>>
    BY <1>0, <1>2, <1>8, OfWorker DEF UpsertCoverage, Goto, Set, Moves, b
  <2>2. winState[w] = "done" /\ covered[w] = 0
    BY <1>0, <1>2, <2>1 DEF VerdictKept
  <2>3. CoverageNotInflated'
    <3> SUFFICES ASSUME NEW x \in Windows
                 PROVE  covered'[x] <= (IF winState[x] = "done" THEN 1 ELSE 0)
      BY <2>1 DEF CoverageNotInflated
    <3>1. CASE x = w
      BY <1>0, <2>1, <2>2, <3>1
    <3>2. CASE x # w
      BY <1>0, <2>1, <3>2 DEF CoverageNotInflated
    <3> QED
      BY <3>1, <3>2
  <2>4. Final
    BY <2>1 DEF Final
  <2> QED
    BY <1>5, <1>6, <2>1, <2>3, <2>4
<1>9. CASE ReleaseBatch(r)
  <2>1. /\ Moves(r, Rest(r, "releasing"), current[r], b, tried[r], stopping[r])
        /\ step[r] = "releasing" /\ UNCHANGED <<covered, pausing>>
    BY <1>0, <1>9, OfWorker DEF ReleaseBatch, Goto, Set, Moves, Q!Release, b
  <2>2. \/ winState' = winState
        \/ winState[w] = "running" /\ winState' = [winState EXCEPT ![w] = "pending"]
    BY <1>2, <1>9 DEF ReleaseBatch, Q!Release
  <2>3. Final
    BY <1>0, <2>2 DEF Final
  <2>4. \A x \in Wins(b) : winState'[x] \in {"pending", "running"}
    BY <1>0, <1>3, <1>5, <2>2
  <2>5. CoverageNotInflated'
    BY <1>0, <2>1, <2>3, CoverageKept
  <2> QED
    BY <1>6, <2>1, <2>3, <2>4, <2>5
<1> QED
  BY <1>7, <1>8, <1>9

(* Whatever the operator and time do, no window of a batch is touched.     *)
LEMMA OutsideDrain ==
  ASSUME Types, LeaseInv, DrainInv, Operator \/ \E w \in Windows : Elapse(w)
  PROVE  DrainInv' /\ Final
<1>1. \A w \in Windows : winState'[w] = winState[w] \/ winState[w] = "absent"
  BY DEF Operator, Elapse, Q!ResumeAll, Q!Enqueue, Q!LeaseExpires
<1>2. UNCHANGED <<step, current, batch, txn, pausing, covered>>
  BY DEF Operator, Elapse, Q!ResumeAll, Q!Enqueue, Q!LeaseExpires
<1>3. Final
  BY <1>1 DEF Final
<1>4. CoverageNotInflated'
  BY <1>2, <1>3, CoverageKept DEF DrainInv
<1>5. ASSUME NEW r \in Workers
      PROVE  /\ Opened(step[r], current[r], batch[r], winState')
             /\ PauseOwn(r, step[r], pausing, winState')
             /\ VerdictKept(step[r], batch[r], txn[r], winState', covered)
  <2>1. /\ Opened(step[r], current[r], batch[r], winState)
        /\ PauseOwn(r, step[r], pausing, winState)
        /\ VerdictKept(step[r], batch[r], txn[r], winState, covered)
        /\ batch[r] \in Seq(Fetched) /\ Wins(batch[r]) \subseteq Windows
        /\ Fits(step[r], current[r], batch[r], tried[r])
    BY OfDrain
  <2>2. Owed(step[r], batch[r]) \subseteq Windows /\ Hand(step[r], current[r]) \subseteq Windows
    <3>1. step[r] = "covering" => Wins(Tail(batch[r])) \subseteq Windows
      BY <2>1, WinsOf DEF Fits, Emptying
    <3> QED
      BY <2>1, <3>1 DEF Owed, Hand, Fits
  <2>3. step[r] = "covering" => batch[r][1].win \in Windows
    BY <2>1, TailOfBatch DEF Fits, Emptying
  <2>4. pausing.rows \subseteq Windows
    BY DEF Types, QueueTypes, Q!TypeOK
  <2>5. Opened(step[r], current[r], batch[r], winState')
    BY <1>1, <2>1, <2>2 DEF Opened
  <2>6. PauseOwn(r, step[r], pausing, winState')
    BY <1>1, <2>1, <2>4 DEF PauseOwn
  <2>7. VerdictKept(step[r], batch[r], txn[r], winState', covered)
    BY <1>1, <2>1, <2>3 DEF VerdictKept
  <2> QED
    BY <2>5, <2>6, <2>7
<1> QED
  BY <1>2, <1>3, <1>4, <1>5 DEF DrainInv

LEMMA InitDrainInv == Init => DrainInv
<1> SUFFICES ASSUME Init PROVE DrainInv
  OBVIOUS
<1>1. /\ \A r \in Workers : step[r] = "stopped" /\ batch[r] = <<>>
      /\ pausing = Q!NoPause /\ \A w \in Windows : covered[w] = 0
  BY DEF Init, Q!Init
<1>2. ASSUME NEW r \in Workers PROVE Opened(step[r], current[r], batch[r], winState)
  BY <1>1, Singles DEF Opened, InHand, Owed
<1>3. ASSUME NEW r \in Workers
      PROVE  /\ PauseOwn(r, step[r], pausing, winState)
             /\ VerdictKept(step[r], batch[r], txn[r], winState, covered)
  BY <1>1 DEF PauseOwn, VerdictKept
<1>4. CoverageNotInflated
  BY <1>1 DEF CoverageNotInflated
<1> QED
  BY <1>2, <1>3, <1>4 DEF DrainInv

LEMMA StepDrainInv ==
  ASSUME Alone PROVE Types /\ LeaseInv /\ DrainInv /\ [Next]_vars => DrainInv' /\ Final
<1> SUFFICES ASSUME Types, LeaseInv, DrainInv, [Next]_vars PROVE DrainInv' /\ Final
  OBVIOUS
<1>1. CASE Operator \/ \E w \in Windows : Elapse(w)
  BY <1>1, OutsideDrain
<1>2. ASSUME NEW r \in Workers, Progress(r) \/ Fault(r) PROVE DrainInv' /\ Final
  <2>1. CASE Flush(r)
    BY <2>1, QuietDrain, CheckpointingDrain DEF Flush
  <2>2. CASE Fetch(r)
    BY <2>2, QuietDrain, LeasingDrain DEF Fetch
  <2>3. CASE Fault(r)
    BY <2>3, QuietDrain, LeasingDrain DEF Fault
  <2>4. CASE Progress(r) /\ ~Flush(r) /\ ~Fetch(r)
    BY <2>4, QuietDrain, LeasingDrain DEF Progress
  <2> QED
    BY <1>2, <2>1, <2>2, <2>3, <2>4
<1>3. CASE UNCHANGED vars
  <2>1. Final
    BY <1>3 DEF Final
  <2>2. CoverageNotInflated'
    BY <1>3 DEF DrainInv, CoverageNotInflated
  <2>3. ASSUME NEW r \in Workers
        PROVE  /\ Opened(step[r], current[r], batch[r], winState)'
               /\ PauseOwn(r, step[r], pausing, winState)'
               /\ VerdictKept(step[r], batch[r], txn[r], winState, covered)'
    BY <1>3, OfDrain DEF Opened, PauseOwn, VerdictKept
  <2> QED
    BY <2>1, <2>2, <2>3 DEF DrainInv
<1> QED
  BY <1>1, <1>2, <1>3 DEF Next

(* With one worker draining (the deployment runs one), the rows of a       *)
(* window are counted into bar_coverage at most once and only after        *)
(* complete_window marked it done, whatever fails, crashes or is reclaimed *)
(* in between.                                                             *)
THEOREM CoverageCountsOnce == ASSUME Alone PROVE Spec => []CoverageNotInflated
<1>1. Init => Types /\ LeaseInv /\ DrainInv
  BY InitTypes, InitLeases, InitDrainInv
<1>2. Types /\ LeaseInv /\ DrainInv /\ [Next]_vars => (Types /\ LeaseInv /\ DrainInv)'
  BY StepTypes, StepLeases, StepDrainInv
<1>3. DrainInv => CoverageNotInflated
  BY DEF DrainInv
<1> QED
  BY <1>1, <1>2, <1>3, PTL DEF Spec

(* With one worker, a window that was answered for (done, empty or failed) *)
(* is never put back: neither release_window, nor reclaim_stale_leases,    *)
(* nor the auth pause, nor a second checkpoint overwrites the verdict.     *)
THEOREM VerdictsAreFinal == ASSUME Alone PROVE Spec => AnsweredOnce
<1>1. Init => Types /\ LeaseInv /\ DrainInv
  BY InitTypes, InitLeases, InitDrainInv
<1>2. Types /\ LeaseInv /\ DrainInv /\ [Next]_vars => (Types /\ LeaseInv /\ DrainInv)'
  BY StepTypes, StepLeases, StepDrainInv
<1>3. Types /\ LeaseInv /\ DrainInv /\ [Next]_vars => [Final]_vars
  BY StepDrainInv
<1> QED
  BY <1>1, <1>2, <1>3, PTL DEF Spec, AnsweredOnce, Final

----------------------------------------------------------------------------
(* What the warehouse serves.                                              *)
Part(w) == [path |-> PathOf[w], digest |-> w]

(* The windows of a batch that had bars.                                   *)
Bars(b) == {b[i].win : i \in {k \in 1 .. Len(b) : b[k].bars}}

(* The current manifest lists the file of w, with the bars of one of its   *)
(* windows.                                                                *)
Served(w) ==
  PathOf[w] \in DOMAIN P!Current /\ OfFile(P!Current[PathOf[w]].digest, PathOf[w])

Named == {"generation", "tmp", "replace"}

(* The way of what was staged into the current manifest.                   *)
OnItsWay(r) ==
  /\ parts[r] \subseteq {Part(w) : w \in Windows}
  /\ pc[r] \in {"batch", "verify", "move"} => version[r] \notin moved
  /\ pc[r] \in {"merge", "manifest"} \cup Named /\ pointer.state = "whole" =>
       version[r] # pointer.version
  /\ pc[r] \in {"merge", "manifest"} \cup Named => version[r] \in moved
  /\ pc[r] \in {"manifest"} \cup Named => plan[r] = P!Over(P!NewEntries(r), P!Current)
  /\ pc[r] \in Named => manifests[version[r]] = plan[r]
  /\ pc[r] = "replace" => tmp.state = "whole" /\ tmp.version = version[r]

PointerStands ==
  /\ pointer.state \in {"absent", "whole"}
  /\ pointer.state = "whole" => pointer.version \in moved

(* Where the bars of a batch are: staged, and served once publish returned.*)
Booked(s, b, p, ps) ==
  /\ p \in P!Publishing \cup {"batch"} => \A w \in Bars(b) : Part(w) \in ps
  /\ p = "returned" \/ s \in {"checkpointing", "committing", "covering"} =>
       \A w \in Bars(b) : Served(w)

ServeInv ==
  /\ \A r \in Workers : OnItsWay(r) /\ Booked(step[r], batch[r], pc[r], parts[r])
  /\ PointerStands
  /\ \A w \in Windows : winState[w] = "done" => Served(w)

(* The new entries are those of the windows staged.                        *)
LEMMA EntriesOf ==
  ASSUME NEW r \in Workers, parts[r] \subseteq {Part(w) : w \in Windows},
         NEW w \in Windows
  PROVE  /\ Part(w) \in parts[r] => PathOf[w] \in DOMAIN P!NewEntries(r)
         /\ PathOf[w] \in DOMAIN P!NewEntries(r) => OfFile(P!NewEntries(r)[PathOf[w]].digest, PathOf[w])
<1> DEFINE D == {m.path : m \in parts[r]}
<1>1. DOMAIN P!NewEntries(r) = D
  BY DEF P!NewEntries
<1>2. Part(w) \in parts[r] => PathOf[w] \in D
  BY DEF Part
<1>3. ASSUME PathOf[w] \in D PROVE OfFile(P!NewEntries(r)[PathOf[w]].digest, PathOf[w])
  <2> DEFINE m == CHOOSE m \in parts[r] : m.path = PathOf[w]
  <2>1. m \in parts[r] /\ m.path = PathOf[w]
    BY <1>3
  <2>2. PICK v \in Windows : m = Part(v)
    BY <2>1
  <2>3. OfFile(m.digest, PathOf[w])
    BY <2>1, <2>2 DEF OfFile, Part
  <2>4. OfFile(P!RecordedDigest(r, PathOf[w]), PathOf[w])
    BY <2>3 DEF P!RecordedDigest
  <2> QED
    BY <1>3, <2>4 DEF P!NewEntries
<1> QED
  BY <1>1, <1>2, <1>3

LEMMA OverAt ==
  ASSUME NEW f, NEW g
  PROVE  /\ DOMAIN P!Over(f, g) = DOMAIN f \cup DOMAIN g
         /\ \A p \in DOMAIN f : P!Over(f, g)[p] = f[p]
         /\ \A p \in DOMAIN g \ DOMAIN f : P!Over(f, g)[p] = g[p]
BY DEF P!Over

(* The replacement of the pointer: everything served stays served, and what*)
(* was staged is served from here on.                                      *)
LEMMA ReplaceServes ==
  ASSUME Types, NEW r \in Workers, OnItsWay(r), P!Replace(r), NEW w \in Windows,
         Served(w) \/ Part(w) \in parts[r]
  PROVE  Served(w)'
<1>1. /\ pc[r] = "replace" /\ tmp.state = "whole" /\ tmp.version = version[r]
      /\ plan[r] = P!Over(P!NewEntries(r), P!Current) /\ manifests[version[r]] = plan[r]
  BY DEF P!Replace, P!Goto, OnItsWay, Named
<1>2. pointer' = tmp /\ manifests' = manifests
  BY <1>1 DEF P!Replace
<1>3. P!Current' = P!Over(P!NewEntries(r), P!Current)
  BY <1>1, <1>2 DEF P!Current
<1>4. PathOf[w] \in DOMAIN P!NewEntries(r) => OfFile(P!NewEntries(r)[PathOf[w]].digest, PathOf[w])
  BY EntriesOf DEF OnItsWay
<1>5. Part(w) \in parts[r] => PathOf[w] \in DOMAIN P!NewEntries(r)
  BY EntriesOf DEF OnItsWay
<1> DEFINE new == P!NewEntries(r)
           old == P!Current
<1>6. PathOf[w] \in DOMAIN new => OfFile(new[PathOf[w]].digest, PathOf[w])
  BY <1>4
<1>7. \/ PathOf[w] \in DOMAIN new
      \/ PathOf[w] \in DOMAIN old \ DOMAIN new /\ OfFile(old[PathOf[w]].digest, PathOf[w])
  BY <1>5 DEF Served
<1> HIDE DEF new, old
<1>8. /\ DOMAIN P!Over(new, old) = DOMAIN new \cup DOMAIN old
      /\ \A p \in DOMAIN new : P!Over(new, old)[p] = new[p]
      /\ \A p \in DOMAIN old \ DOMAIN new : P!Over(new, old)[p] = old[p]
  BY OverAt
<1> DEFINE all == P!Over(new, old)
<1> HIDE DEF all
<1>9. PathOf[w] \in DOMAIN all /\ OfFile(all[PathOf[w]].digest, PathOf[w])
  <2>1. CASE PathOf[w] \in DOMAIN new
    BY <1>6, <1>8, <2>1 DEF all
  <2>2. CASE PathOf[w] \in DOMAIN old \ DOMAIN new /\ OfFile(old[PathOf[w]].digest, PathOf[w])
    BY <1>8, <2>2 DEF all
  <2> QED
    BY <1>7, <2>1, <2>2
<1> QED
  BY <1>3, <1>9 DEF Served, new, old, all

(* Nothing else that the publisher does shows.                             *)
LEMMA CurrentStays ==
  ASSUME Types, PointerStands, NEW r \in Workers, OnItsWay(r),
         \/ \E v \in Versions : P!BeginBatch(r, v)
         \/ \E p \in Paths, d \in Windows : P!Stage(r, p, d)
         \/ P!Abandon(r) \/ P!FlushBatch(r) \/ P!Verify(r) \/ P!Move(r) \/ P!Return(r)
         \/ P!Merge(r) \/ P!WriteManifest(r) \/ P!ReadGeneration(r) \/ P!WriteTmp(r)
         \/ P!IOFails(r) \/ P!Crash(r)
  PROVE  P!Current' = P!Current /\ pointer' = pointer
<1>1. pointer' = pointer
  BY DEF P!BeginBatch, P!Stage, P!Abandon, P!FlushBatch, P!Verify, P!Move, P!Return, P!Merge,
         P!WriteManifest, P!ReadGeneration, P!WriteTmp, P!IOFails, P!Crash, P!TearManifest,
         P!TearTmp, P!disk
<1>2. CASE P!WriteManifest(r)
  <2>1. pc[r] = "manifest" /\ manifests' = [manifests EXCEPT ![version[r]] = plan[r]]
    BY <1>2 DEF P!WriteManifest, P!Goto
  <2>2. pointer.state = "whole" => version[r] # pointer.version /\ pointer.version \in Versions
    BY <2>1 DEF OnItsWay, Types, PublisherTypes
  <2>3. manifests \in [Versions -> P!Files(P!Entries)]
    BY DEF Types, PublisherTypes, P!TypeOK
  <2>4. pointer.state = "whole" => manifests'[pointer.version] = manifests[pointer.version]
    BY <2>1, <2>2, <2>3
  <2> QED
    BY <1>1, <2>4 DEF P!Current
<1>3. CASE ~P!WriteManifest(r)
  <2>1. manifests' = manifests
    BY <1>3 DEF P!BeginBatch, P!Stage, P!Abandon, P!FlushBatch, P!Verify, P!Move, P!Return,
         P!Merge, P!ReadGeneration, P!WriteTmp, P!IOFails, P!Crash, P!TearManifest,
         P!TearTmp, P!disk
  <2> QED
    BY <1>1, <2>1 DEF P!Current
<1> QED
  BY <1>2, <1>3

(* Each operation of the publisher keeps what is staged on its way.        *)
LEMMA StagingOnItsWay ==
  ASSUME Types, PointerStands, NEW r \in Workers, OnItsWay(r),
         \/ \E v \in Versions : P!BeginBatch(r, v)
         \/ \E w \in Windows : P!Stage(r, PathOf[w], w)
         \/ P!Abandon(r) \/ P!FlushBatch(r) \/ P!Verify(r) \/ P!Return(r)
         \/ P!IOFails(r) \/ P!Crash(r)
  PROVE  OnItsWay(r)' /\ PointerStands'
<1>0. DOMAIN pc = Workers /\ DOMAIN version = Workers /\ DOMAIN parts = Workers
  BY DEF Types, PublisherTypes, P!TypeOK
<1>1. PointerStands'
  BY DEF PointerStands, P!BeginBatch, P!Stage, P!Abandon, P!FlushBatch, P!Verify, P!Return,
         P!IOFails, P!Crash, P!TearManifest, P!TearTmp, P!disk
<1>2. ASSUME parts'[r] \subseteq {Part(w) : w \in Windows},
             pc'[r] \in {"idle", "batch", "returned", "raised", "verify", "move"},
             pc'[r] \in {"batch", "verify", "move"} => version'[r] \notin moved'
      PROVE  OnItsWay(r)'
  <2>1. pc'[r] \notin {"merge", "manifest"} \cup Named /\ pc'[r] # "replace"
    BY <1>2 DEF Named
  <2> QED
    BY <1>2, <2>1 DEF OnItsWay
<1>3. CASE \E v \in Versions : P!BeginBatch(r, v)
  BY <1>0, <1>1, <1>2, <1>3 DEF P!BeginBatch, P!Fresh, P!Goto
<1>4. ASSUME NEW w \in Windows, P!Stage(r, PathOf[w], w) PROVE OnItsWay(r)'
  <2>1. pc'[r] = "batch" /\ version'[r] \notin moved'
    BY <1>4 DEF P!Stage, OnItsWay
  <2>2. parts'[r] = parts[r] \cup {Part(w)}
    BY <1>0, <1>4 DEF P!Stage, Part
  <2>3. parts'[r] \subseteq {Part(x) : x \in Windows}
    BY <2>2 DEF OnItsWay
  <2> QED
    BY <1>2, <2>1, <2>3
<1>5. CASE P!Abandon(r) \/ P!Return(r) \/ P!Crash(r)
  <2>1. pc'[r] = "idle" /\ parts'[r] = {}
    BY <1>0, <1>5 DEF P!Abandon, P!Return, P!Crash, P!Goto
  <2> QED
    BY <1>1, <1>2, <2>1
<1>6. CASE P!FlushBatch(r) \/ P!Verify(r) \/ P!IOFails(r)
  <2>1. PICK to \in {"returned", "raised", "verify", "move"} :
          /\ pc'[r] = to /\ UNCHANGED <<parts, version, moved>>
          /\ to \in {"verify", "move"} => pc[r] \in {"batch", "verify"}
    BY <1>0, <1>6 DEF P!FlushBatch, P!Verify, P!IOFails, P!Goto, P!disk, P!TearManifest, P!TearTmp
  <2>2. to \in {"verify", "move"} => version[r] \notin moved
    BY <2>1 DEF OnItsWay
  <2>3. parts'[r] \subseteq {Part(w) : w \in Windows}
    BY <2>1 DEF OnItsWay
  <2> QED
    BY <1>1, <1>2, <2>1, <2>2, <2>3
<1> QED
  BY <1>1, <1>3, <1>4, <1>5, <1>6

LEMMA PublishOnItsWay ==
  ASSUME Types, PointerStands, NEW r \in Workers, OnItsWay(r),
         \/ P!Move(r) \/ P!Merge(r) \/ P!WriteManifest(r) \/ P!ReadGeneration(r)
         \/ P!WriteTmp(r) \/ P!Replace(r)
  PROVE  OnItsWay(r)' /\ PointerStands'
<1> USE DEF Types, PublisherTypes, P!TypeOK, P!disk
<1>0. UNCHANGED <<parts, version>> /\ P!NewEntries(r)' = P!NewEntries(r)
  BY DEF P!Move, P!Merge, P!WriteManifest, P!ReadGeneration, P!WriteTmp, P!Replace,
         P!NewEntries, P!RecordedDigest
<1>1. CASE P!Move(r)
  BY <1>0, <1>1 DEF P!Move, P!Goto, OnItsWay, PointerStands, Named
<1>2. CASE P!Merge(r) /\ P!Refused
  BY <1>0, <1>2 DEF P!Merge, P!Goto, OnItsWay, PointerStands, Named
<1>3. CASE P!Merge(r) /\ ~P!Refused
  <2>1. P!Predecessor = P!Current
    BY DEF P!Predecessor, P!Current, PointerStands
  <2>2. /\ pc[r] = "merge" /\ pc'[r] = "manifest"
        /\ plan'[r] = P!Over(P!NewEntries(r), P!Current)
    BY <1>3, <2>1 DEF P!Merge, P!Goto
  <2>3. P!Current' = P!Current /\ UNCHANGED <<pointer, moved>>
    BY <1>3, CurrentStays DEF P!Merge
  <2>4. plan'[r] = (P!Over(P!NewEntries(r), P!Current))'
    BY <1>0, <2>2, <2>3 DEF P!Over
  <2> QED
    BY <1>0, <2>2, <2>3, <2>4 DEF OnItsWay, PointerStands, Named
<1>4. CASE P!WriteManifest(r) \/ P!ReadGeneration(r) \/ P!WriteTmp(r)
  <2>1. P!Current' = P!Current /\ UNCHANGED <<pointer, moved, plan>>
    BY <1>4, CurrentStays DEF P!WriteManifest, P!ReadGeneration, P!WriteTmp
  <2>2. /\ pc[r] \in {"manifest", "generation", "tmp"} /\ pc'[r] \in Named
        /\ pc'[r] = "replace" => tmp'.state = "whole" /\ tmp'.version = version[r]
    BY <1>4 DEF P!WriteManifest, P!ReadGeneration, P!WriteTmp, P!Goto, Named
  <2>3. manifests'[version[r]] = plan[r]
    <3>1. CASE P!WriteManifest(r)
      <4>1. version[r] \in Versions
        BY <3>1 DEF P!WriteManifest, P!Goto, P!Publishing
      <4> QED
        BY <3>1, <4>1 DEF P!WriteManifest
    <3>2. CASE P!ReadGeneration(r) \/ P!WriteTmp(r)
      BY <3>2 DEF P!ReadGeneration, P!WriteTmp, P!Goto, OnItsWay, Named
    <3> QED
      BY <1>4, <3>1, <3>2
  <2>4. plan[r] = P!Over(P!NewEntries(r), P!Current)
    BY <2>2 DEF OnItsWay, Named
  <2>5. plan'[r] = (P!Over(P!NewEntries(r), P!Current))'
    BY <1>0, <2>1, <2>4 DEF P!Over
  <2>6. pointer.state = "whole" => version[r] # pointer.version
    BY <2>2 DEF OnItsWay, Named
  <2> QED
    BY <1>0, <2>1, <2>2, <2>3, <2>5, <2>6 DEF OnItsWay, PointerStands, Named
<1>5. CASE P!Replace(r)
  <2>1. /\ pc[r] = "replace" /\ pc'[r] = "returned" /\ pointer' = tmp /\ moved' = moved
        /\ tmp.state = "whole" /\ tmp.version = version[r]
    BY <1>5 DEF P!Replace, P!Goto, OnItsWay
  <2> QED
    BY <1>0, <2>1 DEF OnItsWay, PointerStands, Named
<1> QED
  BY <1>1, <1>2, <1>3, <1>4, <1>5

LEMMA BarsOf ==
  ASSUME NEW b \in Seq(Fetched)
  PROVE  /\ Bars(<<>>) = {}
         /\ b # <<>> => Bars(Tail(b)) \subseteq Bars(b)
         /\ b # <<>> /\ b[1].bars => b[1].win \in Bars(b)
         /\ \A f \in Fetched : Bars(Append(b, f)) \subseteq Bars(b) \cup (IF f.bars THEN {f.win} ELSE {})
         /\ Bars(b) \subseteq Windows
<1>1. Bars(<<>>) = {}
  BY DEF Bars
<1>2. ASSUME b # <<>> PROVE Bars(Tail(b)) \subseteq Bars(b) /\ (b[1].bars => b[1].win \in Bars(b))
  <2>1. /\ Len(b) \in Nat \ {0}
        /\ \A i \in 1 .. Len(Tail(b)) : i + 1 \in 1 .. Len(b) /\ Tail(b)[i] = b[i + 1]
    BY <1>2, TailOfBatch
  <2>2. 1 \in 1 .. Len(b)
    BY <2>1
  <2> QED
    BY <2>1, <2>2 DEF Bars
<1>3. ASSUME NEW f \in Fetched
      PROVE  Bars(Append(b, f)) \subseteq Bars(b) \cup (IF f.bars THEN {f.win} ELSE {})
  <2> DEFINE a == Append(b, f)
  <2>1. \A i \in 1 .. Len(a) :
          \/ i \in 1 .. Len(b) /\ a[i] = b[i]
          \/ i = Len(b) + 1 /\ a[i] = f
    BY AppendToBatch
  <2> HIDE DEF a
  <2>2. Bars(a) \subseteq Bars(b) \cup (IF f.bars THEN {f.win} ELSE {})
    BY <2>1 DEF Bars
  <2> QED
    BY <2>2 DEF a
<1>4. Bars(b) \subseteq Wins(b)
  BY DEF Bars, Wins
<1> QED
  BY <1>1, <1>2, <1>3, <1>4, WinsOf

(* Only the checkpoint of a window that had bars marks it done.            *)
LEMMA DoneIsCheckpointed ==
  ASSUME Types, LeaseInv, DrainInv, NEW r \in Workers, Progress(r) \/ Fault(r),
         NEW w \in Windows, winState'[w] = "done", winState[w] # "done"
  PROVE  /\ CommitCheckpoint(r) /\ step[r] = "committing"
         /\ batch[r][1].bars /\ w = batch[r][1].win
<1>0. /\ VerdictKept(step[r], batch[r], txn[r], winState, covered)
      /\ Answers(step[r], current[r], batch[r], held[r], txn[r], pc[r])
      /\ winState \in [Windows -> Q!WindowStates]
  BY OfDrain
<1>1. CASE CommitCheckpoint(r)
  <2>1. step[r] = "committing" /\ winState' = [winState EXCEPT ![txn[r].win] = txn[r].to]
    BY <1>1 DEF CommitCheckpoint, Q!CommitRetire
  <2>2. w = txn[r].win /\ txn[r].to = "done"
    BY <1>0, <2>1
  <2> QED
    BY <1>0, <1>1, <2>1, <2>2 DEF VerdictKept, Answers
<1>2. CASE Retired(r)
  <2>1. txn[r].to = "failed" /\ winState' = [winState EXCEPT ![txn[r].win] = txn[r].to]
    BY <1>0, <1>2 DEF Retired, VerdictKept, Q!CommitRetire
  <2> QED
    BY <1>0, <2>1
<1>3. CASE StartDrain(r)
  BY <1>0, <1>3 DEF StartDrain, Q!Reclaim, Q!Returned, queue
<1>4. CASE ClaimNext(r) \/ Claimed(r)
  BY <1>0, <1>4 DEF ClaimNext, Select, Claimed, Q!BeginClaim, Q!CommitClaim, Q!tables
<1>5. CASE FetchFails(r)
  BY <1>0, <1>5 DEF FetchFails, Q!FailRetry
<1>6. CASE StopForBudget(r) \/ AuthFails(r) \/ ReleaseBatch(r)
  BY <1>0, <1>6 DEF StopForBudget, AuthFails, ReleaseBatch, Q!Release
<1>7. CASE Park(r)
  BY <1>0, <1>7 DEF Park, Q!CommitPause, Q!Returned
<1>8. CASE FetchRefused(r)
  BY <1>8 DEF FetchRefused, Q!BeginReject, Q!BeginExhaust, Q!BeginRetire, Q!tables
<1>9. CASE RenewalFails(r)
  BY <1>9 DEF RenewalFails, Q!BeginPause, Q!tables, queue
<1>10. CASE Checkpoint(r)
  BY <1>10 DEF Checkpoint, Q!BeginRetire, Q!tables
<1>11. CASE Crash(r)
  BY <1>11 DEF Crash, Q!Crash, Q!tables, queue
<1>12. CASE LoopEnds(r) \/ FetchBars(r) \/ FetchEmpty(r) \/ Renewed(r) \/ FlushNothing(r)
            \/ FlushBatch(r) \/ Publish(r) \/ PublishEnds(r) \/ UpsertCoverage(r) \/ PublishFails(r)
  BY <1>12 DEF LoopEnds, FetchBars, FetchEmpty, Append1, Renewed, FlushNothing, FlushBatch,
               Publish, PublishEnds, UpsertCoverage, PublishFails, queue
<1> QED
  BY <1>1, <1>2, <1>3, <1>4, <1>5, <1>6, <1>7, <1>8, <1>9, <1>10, <1>11, <1>12
    DEF Progress, Fault, Fetch, Flush

(* The one worker moves: what is done was served, its batch still is, and  *)
(* the invariant is about nothing else.                                    *)
LEMMA ServeMoves ==
  ASSUME Alone, Types, LeaseInv, DrainInv, ServeInv, NEW r \in Workers, Progress(r) \/ Fault(r),
         OnItsWay(r)', PointerStands', \A w \in Windows : Served(w) => Served(w)',
         NEW s, NEW b, NEW p, NEW ps,
         step'[r] = s, batch'[r] = b, pc'[r] = p, parts'[r] = ps,
         p \in P!Publishing \cup {"batch"} => \A w \in Bars(b) : Part(w) \in ps,
         p = "returned" \/ s \in {"checkpointing", "committing", "covering"} =>
           \A w \in Bars(b) : Served(w)'
  PROVE  ServeInv'
<1>1. Booked(step[r], batch[r], pc[r], parts[r])'
  BY DEF Booked
<1>2. ASSUME NEW w \in Windows, winState'[w] = "done" PROVE Served(w)'
  <2>1. CASE winState[w] = "done"
    BY <2>1 DEF ServeInv
  <2>2. CASE winState[w] # "done"
    <3>1. step[r] = "committing" /\ batch[r][1].bars /\ w = batch[r][1].win
      BY <1>2, <2>2, DoneIsCheckpointed
    <3>2. batch[r] \in Seq(Fetched) /\ batch[r] # <<>>
      BY <3>1, OfDrain DEF Fits, Emptying
    <3>3. w \in Bars(batch[r])
      BY <3>1, <3>2, BarsOf
    <3>4. Served(w)
      BY <3>1, <3>3 DEF ServeInv, Booked
    <3> QED
      BY <3>4
  <2> QED
    BY <2>1, <2>2
<1>3. \A x \in Workers : x = r
  BY DEF Alone
<1> QED
  BY <1>1, <1>2, <1>3 DEF ServeInv

LEMMA StaysServed ==
  ASSUME P!Current' = P!Current
  PROVE  \A w \in Windows : Served(w)' = Served(w)
BY DEF Served

LEMMA StaysOnItsWay ==
  ASSUME NEW r \in Workers, OnItsWay(r), PointerStands, UNCHANGED warehouse
  PROVE  OnItsWay(r)' /\ PointerStands' /\ P!Current' = P!Current
<1>1. P!Current' = P!Current /\ P!NewEntries(r)' = P!NewEntries(r)
  BY DEF warehouse, P!Current, P!NewEntries, P!RecordedDigest
<1>2. (P!Over(P!NewEntries(r), P!Current))' = P!Over(P!NewEntries(r), P!Current)
  BY <1>1 DEF P!Over
<1> QED
  BY <1>1, <1>2 DEF warehouse, OnItsWay, PointerStands

(* The warehouse rests and the batch does not grow.                        *)
LEMMA QuietServe ==
  ASSUME Alone, Types, LeaseInv, DrainInv, ServeInv, NEW r \in Workers, Progress(r) \/ Fault(r),
         UNCHANGED warehouse, Bars(batch'[r]) \subseteq Bars(batch[r]),
         step'[r] \in {"checkpointing", "committing", "covering"} =>
           step[r] \in {"checkpointing", "committing", "covering"}
  PROVE  ServeInv'
<1>1. OnItsWay(r)' /\ PointerStands' /\ \A w \in Windows : Served(w) => Served(w)'
  BY StaysOnItsWay, StaysServed DEF ServeInv
<1>2. pc'[r] = pc[r] /\ parts'[r] = parts[r] /\ Booked(step[r], batch[r], pc[r], parts[r])
  BY DEF warehouse, ServeInv
<1>3. pc[r] \in P!Publishing \cup {"batch"} => \A w \in Bars(batch'[r]) : Part(w) \in parts[r]
  BY <1>2 DEF Booked
<1>4. pc[r] = "returned" \/ step'[r] \in {"checkpointing", "committing", "covering"} =>
        \A w \in Bars(batch'[r]) : Served(w)
  BY <1>2 DEF Booked
<1>5. Bars(batch'[r]) \subseteq Windows
  <2>1. Bars(batch[r]) \subseteq Windows
    BY OfDrain, BarsOf
  <2> QED
    BY <2>1
<1> QED
  BY <1>1, <1>2, <1>3, <1>4, <1>5, ServeMoves

LEMMA ServeOnShore ==
  ASSUME Alone, Types, LeaseInv, DrainInv, ServeInv, NEW r \in Workers,
         \/ StartDrain(r) \/ ClaimNext(r) \/ LoopEnds(r) \/ FetchEmpty(r) \/ FetchRefused(r)
         \/ Retired(r) \/ FetchFails(r) \/ StopForBudget(r) \/ AuthFails(r) \/ Renewed(r) \/ RenewalFails(r)
         \/ Park(r) \/ Checkpoint(r) \/ CommitCheckpoint(r) \/ UpsertCoverage(r) \/ ReleaseBatch(r)
  PROVE  ServeInv'
<1>0. /\ RunnerTypes /\ batch[r] \in Seq(Fetched) /\ DOMAIN step = Workers
      /\ Fits(step[r], current[r], batch[r], tried[r])
  BY OfDrain DEF RunnerTypes
<1>1. Progress(r) \/ Fault(r)
  BY DEF Progress, Fault, Fetch, Flush
<1>2. UNCHANGED warehouse
  BY DEF StartDrain, ClaimNext, Select, LoopEnds, FetchEmpty, FetchRefused, Retired, FetchFails, StopForBudget,
         AuthFails, Renewed, RenewalFails, Park, Checkpoint, CommitCheckpoint, UpsertCoverage,
         ReleaseBatch, Interrupted, Progressed
<1>3. CASE FetchEmpty(r)
  <2> DEFINE f == [win |-> current[r], bars |-> FALSE]
  <2>1. /\ step[r] = "fetching" /\ batch' = [batch EXCEPT ![r] = Append(batch[r], f)]
        /\ step'[r] \in {"flushing", "draining"}
    BY <1>0, <1>3 DEF FetchEmpty, Append1, Progressed, Goto, Set
  <2>2. f \in Fetched /\ ~f.bars
    BY <1>0, <2>1 DEF Fetched, Fits, InHand
  <2>3. Bars(Append(batch[r], f)) \subseteq Bars(batch[r])
    BY <1>0, <2>2, BarsOf
  <2>4. Bars(batch'[r]) \subseteq Bars(batch[r])
    BY <1>0, <2>1, <2>3 DEF RunnerTypes
  <2> QED
    BY <1>1, <1>2, <2>1, <2>4, QuietServe
<1>4. CASE StartDrain(r) \/ ClaimNext(r) \/ LoopEnds(r) \/ FetchRefused(r) \/ Retired(r) \/ FetchFails(r)
           \/ StopForBudget(r) \/ AuthFails(r) \/ Renewed(r) \/ RenewalFails(r) \/ Park(r)
  <2>1. batch' = batch /\ step'[r] \notin {"checkpointing", "committing", "covering"}
    BY <1>0, <1>4 DEF StartDrain, ClaimNext, Select, LoopEnds, FetchRefused, Retired, FetchFails, StopForBudget,
         AuthFails, Renewed, RenewalFails, Park, Interrupted, Progressed, Goto, Set
  <2> QED
    BY <1>1, <1>2, <2>1, QuietServe
<1>5. CASE Checkpoint(r)
  BY <1>1, <1>2, <1>5, QuietServe DEF Checkpoint, Goto
<1>6. CASE CommitCheckpoint(r) \/ UpsertCoverage(r) \/ ReleaseBatch(r)
  <2>1. step[r] \in {"committing", "covering", "releasing"} /\ batch[r] # <<>>
    BY <1>0, <1>6 DEF CommitCheckpoint, UpsertCoverage, ReleaseBatch, Goto, Fits, Emptying
  <2>2. batch'[r] = batch[r] \/ batch'[r] = Tail(batch[r])
    BY <1>0, <1>6 DEF CommitCheckpoint, UpsertCoverage, ReleaseBatch, Set, RunnerTypes
  <2>3. Bars(batch'[r]) \subseteq Bars(batch[r])
    BY <1>0, <2>1, <2>2, BarsOf
  <2>4. CASE step[r] # "releasing"
    BY <1>1, <1>2, <2>1, <2>3, <2>4, QuietServe
  <2>5. CASE step[r] = "releasing"
    <3>1. ReleaseBatch(r)
      BY <1>6, <2>5 DEF CommitCheckpoint, UpsertCoverage, Goto
    <3>2. step'[r] \in {"releasing", "stopped", "draining"}
      BY <1>0, <3>1 DEF ReleaseBatch, Goto, Rest, AfterFlush
    <3> QED
      BY <1>1, <1>2, <2>3, <3>2, QuietServe
  <2> QED
    BY <2>4, <2>5
<1> QED
  BY <1>3, <1>4, <1>5, <1>6

(* The steps of the worker that are operations of its publisher.           *)
LEMMA PublisherStays ==
  ASSUME Types, ServeInv, NEW r \in Workers,
         \/ \E v \in Versions : P!BeginBatch(r, v)
         \/ \E w \in Windows : P!Stage(r, PathOf[w], w)
         \/ P!Abandon(r) \/ P!FlushBatch(r) \/ P!Verify(r) \/ P!Move(r) \/ P!Return(r)
         \/ P!Merge(r) \/ P!WriteManifest(r) \/ P!ReadGeneration(r) \/ P!WriteTmp(r)
         \/ P!Replace(r) \/ P!IOFails(r) \/ P!Crash(r)
  PROVE  OnItsWay(r)' /\ PointerStands' /\ \A w \in Windows : Served(w) => Served(w)'
<1>1. OnItsWay(r) /\ PointerStands
  BY DEF ServeInv
<1>2. \A w \in Windows : PathOf[w] \in Paths
  BY RunnerAssumption
<1>3. OnItsWay(r)' /\ PointerStands'
  BY <1>1, StagingOnItsWay, PublishOnItsWay
<1>4. CASE P!Replace(r)
  BY <1>1, <1>3, <1>4, ReplaceServes
<1>5. CASE ~P!Replace(r)
  BY <1>1, <1>2, <1>3, <1>5, CurrentStays, StaysServed
<1> QED
  BY <1>3, <1>4, <1>5

LEMMA ServeAtSea ==
  ASSUME Alone, Types, LeaseInv, DrainInv, ServeInv, NEW r \in Workers,
         \/ Claimed(r) \/ FetchBars(r) \/ FlushNothing(r) \/ FlushBatch(r) \/ Publish(r)
         \/ PublishEnds(r) \/ PublishFails(r) \/ Crash(r)
  PROVE  ServeInv'
<1>0. /\ RunnerTypes /\ batch[r] \in Seq(Fetched) /\ Bars(batch[r]) \subseteq Windows
      /\ Fits(step[r], current[r], batch[r], tried[r])
      /\ PublisherAt(step[r], batch[r], pc[r])
      /\ Booked(step[r], batch[r], pc[r], parts[r])
      /\ DOMAIN pc = Workers /\ DOMAIN parts = Workers
      /\ DOMAIN step = Workers /\ DOMAIN batch = Workers
  BY OfDrain, BarsOf DEF Answers, ServeInv, RunnerTypes, Types, PublisherTypes, P!TypeOK
<1>1. Progress(r) \/ Fault(r)
  BY DEF Progress, Fault, Fetch, Flush
<1> USE DEF InHand, Emptying
<1> DEFINE Checked == {"checkpointing", "committing", "covering"}
<1>2. ASSUME OnItsWay(r)', PointerStands', \A w \in Windows : Served(w) => Served(w)',
             Bars(batch'[r]) \subseteq Windows,
             pc'[r] \in P!Publishing \cup {"batch"} =>
               \A w \in Bars(batch'[r]) : Part(w) \in parts'[r],
             pc'[r] = "returned" \/ step'[r] \in Checked => \A w \in Bars(batch'[r]) : Served(w)'
      PROVE  ServeInv'
  BY <1>1, <1>2, ServeMoves
<1>3. CASE Claimed(r) /\ UNCHANGED warehouse
  <2>1. batch' = batch /\ step'[r] = "fetching"
    BY <1>0, <1>3 DEF Claimed, Goto
  <2> QED
    BY <1>1, <1>3, <2>1, QuietServe
<1>4. CASE Claimed(r) /\ \E v \in Versions : P!BeginBatch(r, v)
  <2>1. OnItsWay(r)' /\ PointerStands' /\ \A w \in Windows : Served(w) => Served(w)'
    BY <1>4, PublisherStays
  <2>2. /\ step[r] = "claiming" /\ step'[r] = "fetching" /\ batch' = batch
        /\ pc[r] = "idle" /\ pc'[r] = "batch"
    BY <1>0, <1>4 DEF Claimed, Goto, P!BeginBatch, P!Goto
  <2>3. Bars(batch'[r]) = {}
    BY <1>0, <2>2, BarsOf DEF PublisherAt
  <2> QED
    BY <1>2, <2>1, <2>3
<1>5. CASE FetchBars(r)
  <2> DEFINE f == [win |-> current[r], bars |-> TRUE]
  <2>1. /\ step[r] = "fetching" /\ step'[r] \notin Checked
        /\ batch' = [batch EXCEPT ![r] = Append(batch[r], f)]
    BY <1>0, <1>5 DEF FetchBars, Append1, Progressed, Goto, Set
  <2>2. PICK x \in Windows : x = current[r]
    BY <1>0, <2>1 DEF Fits
  <2>3. P!Stage(r, PathOf[x], x)
    BY <1>5, <2>2 DEF FetchBars
  <2>4. OnItsWay(r)' /\ PointerStands' /\ \A w \in Windows : Served(w) => Served(w)'
    BY <2>3, PublisherStays
  <2>5. pc[r] = "batch" /\ pc' = pc /\ parts'[r] = parts[r] \cup {Part(x)}
    BY <1>0, <2>3 DEF P!Stage, Part
  <2>6. f \in Fetched /\ f.win = x
    BY <2>2 DEF Fetched
  <2>7. Bars(batch'[r]) \subseteq Bars(batch[r]) \cup {x}
    <3>1. Bars(Append(batch[r], f)) \subseteq Bars(batch[r]) \cup {x}
      BY <1>0, <2>6, BarsOf
    <3> QED
      BY <1>0, <2>1, <3>1
  <2>8. \A w \in Bars(batch[r]) : Part(w) \in parts[r]
    BY <1>0, <2>5 DEF Booked
  <2> QED
    BY <1>0, <1>2, <2>1, <2>4, <2>5, <2>7, <2>8
<1>6. CASE FlushNothing(r) \/ FlushBatch(r)
  <2>1. /\ step[r] = "flushing" /\ batch' = batch /\ step'[r] \in {"publishing", "stopped", "draining"}
        /\ \/ UNCHANGED warehouse
           \/ batch[r] = <<>> /\ P!Abandon(r)
           \/ P!FlushBatch(r)
    BY <1>0, <1>6 DEF FlushNothing, FlushBatch, Goto, AfterFlush
  <2>2. CASE UNCHANGED warehouse
    BY <1>1, <2>1, <2>2, QuietServe
  <2>3. CASE batch[r] = <<>> /\ P!Abandon(r)
    <3>1. OnItsWay(r)' /\ PointerStands' /\ \A w \in Windows : Served(w) => Served(w)'
      BY <2>3, PublisherStays
    <3>2. Bars(batch'[r]) = {}
      BY <2>1, <2>3, BarsOf, <1>0
    <3> QED
      BY <1>2, <3>1, <3>2
  <2>4. CASE P!FlushBatch(r)
    <3>1. OnItsWay(r)' /\ PointerStands' /\ \A w \in Windows : Served(w) => Served(w)'
      BY <2>4, PublisherStays
    <3>2. /\ pc[r] = "batch" /\ parts' = parts
          /\ pc'[r] = IF parts[r] = {} THEN "returned" ELSE "verify"
      BY <1>0, <2>4 DEF P!FlushBatch, P!Goto
    <3>3. \A w \in Bars(batch[r]) : Part(w) \in parts[r]
      BY <1>0, <3>2 DEF Booked
    <3>4. pc'[r] = "returned" => Bars(batch[r]) = {}
      BY <3>2, <3>3
    <3> QED
      BY <1>0, <1>2, <2>1, <3>1, <3>2, <3>3, <3>4
  <2> QED
    BY <2>1, <2>2, <2>3, <2>4
<1>7. CASE Publish(r) \/ PublishFails(r)
  <2>1. /\ step[r] = "publishing" /\ step' = step /\ batch' = batch
        /\ \/ P!Verify(r) \/ P!Move(r) \/ P!Merge(r) \/ P!WriteManifest(r)
           \/ P!ReadGeneration(r) \/ P!WriteTmp(r) \/ P!Replace(r) \/ P!IOFails(r)
    BY <1>7 DEF Publish, PublishFails, runner
  <2>2. OnItsWay(r)' /\ PointerStands' /\ \A w \in Windows : Served(w) => Served(w)'
    BY <2>1, PublisherStays
  <2>3. parts' = parts /\ pc[r] \in P!Publishing
    BY <2>1 DEF P!Verify, P!Move, P!Merge, P!WriteManifest, P!ReadGeneration, P!WriteTmp,
                P!Replace, P!IOFails, P!Goto, P!Publishing
  <2>4. \A w \in Bars(batch[r]) : Part(w) \in parts[r]
    BY <1>0, <2>3 DEF Booked
  <2>5. pc'[r] = "returned" => \A w \in Bars(batch[r]) : Served(w)'
    <3>1. CASE P!Replace(r)
      <4>1. OnItsWay(r)
        BY DEF ServeInv
      <4> QED
        BY <1>0, <2>4, <3>1, <4>1, ReplaceServes
    <3>2. CASE ~P!Replace(r)
      BY <1>0, <2>1, <3>2 DEF P!Verify, P!Move, P!Merge, P!WriteManifest, P!ReadGeneration,
                              P!WriteTmp, P!IOFails, P!Goto
    <3> QED
      BY <3>1, <3>2
  <2> QED
    BY <1>0, <1>2, <2>1, <2>2, <2>3, <2>4, <2>5
<1>8. CASE PublishEnds(r)
  <2>1. /\ P!Return(r) /\ batch' = batch /\ pc'[r] = "idle"
        /\ step'[r] \in Checked => pc[r] = "returned"
    BY <1>0, <1>8 DEF PublishEnds, Goto, P!Return
  <2>2. OnItsWay(r)' /\ PointerStands' /\ \A w \in Windows : Served(w) => Served(w)'
    BY <2>1, PublisherStays
  <2>3. pc[r] = "returned" => \A w \in Bars(batch[r]) : Served(w)
    BY <1>0 DEF Booked
  <2>4. pc'[r] \notin P!Publishing \cup {"batch"} /\ pc'[r] # "returned"
    BY <2>1 DEF P!Publishing
  <2> QED
    BY <1>0, <1>2, <2>1, <2>2, <2>3, <2>4
<1>9. CASE Crash(r)
  <2>1. /\ step'[r] = "stopped" /\ batch'[r] = <<>>
        /\ UNCHANGED warehouse \/ P!Crash(r)
    BY <1>0, <1>9 DEF Crash, Set
  <2>2. Bars(batch'[r]) = {}
    BY <1>0, <2>1, BarsOf
  <2>3. OnItsWay(r)' /\ PointerStands' /\ \A w \in Windows : Served(w) => Served(w)'
    BY <2>1, PublisherStays, StaysOnItsWay, StaysServed DEF ServeInv
  <2> QED
    BY <1>2, <2>2, <2>3
<1>10. Claimed(r) => UNCHANGED warehouse \/ \E v \in Versions : P!BeginBatch(r, v)
  BY DEF Claimed
<1> QED
  BY <1>3, <1>4, <1>5, <1>6, <1>7, <1>8, <1>9, <1>10

LEMMA ServeElsewhere ==
  ASSUME ServeInv, Operator \/ (\E w \in Windows : Elapse(w)) \/ UNCHANGED vars
  PROVE  ServeInv'
<1>1. UNCHANGED <<warehouse, step, batch>>
  BY DEF Operator, Elapse, vars, runner
<1>2. \A w \in Windows : winState'[w] = "done" => winState[w] = "done"
  BY DEF Operator, Elapse, vars, queue, Q!ResumeAll, Q!Enqueue, Q!LeaseExpires
<1>3. ASSUME NEW r \in Workers PROVE OnItsWay(r)' /\ PointerStands' /\ P!Current' = P!Current
  BY <1>1, StaysOnItsWay DEF ServeInv
<1>4. P!Current' = P!Current /\ PointerStands'
  BY <1>1 DEF ServeInv, warehouse, P!Current, PointerStands
<1>5. \A w \in Windows : Served(w)' = Served(w)
  BY <1>4, StaysServed
<1>6. ASSUME NEW r \in Workers PROVE Booked(step[r], batch[r], pc[r], parts[r])'
  <2>1. Booked(step[r], batch[r], pc[r], parts[r])
    BY DEF ServeInv
  <2>2. \A x : Served(x)' = Served(x)
    BY <1>4 DEF Served
  <2> QED
    BY <1>1, <2>1, <2>2 DEF Booked, warehouse
<1> QED
  BY <1>2, <1>3, <1>4, <1>5, <1>6 DEF ServeInv

LEMMA InitServeInv == Init => ServeInv
<1> SUFFICES ASSUME Init PROVE ServeInv
  OBVIOUS
<1>1. PointerStands
  BY DEF Init, P!Init, PointerStands, P!NoFile
<1>2. ASSUME NEW r \in Workers PROVE OnItsWay(r) /\ Booked(step[r], batch[r], pc[r], parts[r])
  <2>1. pc[r] = "idle" /\ parts[r] = {} /\ step[r] = "stopped" /\ batch[r] = <<>>
    BY DEF Init, P!Init
  <2> QED
    BY <2>1 DEF OnItsWay, Booked, Named, P!Publishing
<1>3. \A w \in Windows : winState[w] # "done"
  BY DEF Init, Q!Init
<1> QED
  BY <1>1, <1>2, <1>3 DEF ServeInv

LEMMA StepServeInv ==
  ASSUME Alone
  PROVE  Types /\ LeaseInv /\ DrainInv /\ ServeInv /\ [Next]_vars => ServeInv'
<1> SUFFICES ASSUME Types, LeaseInv, DrainInv, ServeInv, [Next]_vars PROVE ServeInv'
  OBVIOUS
<1>1. ASSUME NEW r \in Workers, Progress(r) \/ Fault(r) PROVE ServeInv'
  BY <1>1, ServeOnShore, ServeAtSea DEF Progress, Fault, Fetch, Flush
<1> QED
  BY <1>1, ServeElsewhere DEF Next

(* With one worker: whatever fails or crashes, the file of a window marked *)
(* done is in what the warehouse serves, from its checkpoint on and for    *)
(* good, with its own bars or those of another window of the same file.    *)
THEOREM DoneStaysReachable == ASSUME Alone PROVE Spec => []DoneIsReachable
<1>1. Init => Types /\ LeaseInv /\ DrainInv /\ ServeInv
  BY InitTypes, InitLeases, InitDrainInv, InitServeInv
<1>2. Types /\ LeaseInv /\ DrainInv /\ ServeInv /\ [Next]_vars =>
        (Types /\ LeaseInv /\ DrainInv /\ ServeInv)'
  BY StepTypes, StepLeases, StepDrainInv, StepServeInv
<1>3. ServeInv => DoneIsReachable
  BY DEF ServeInv, DoneIsReachable, Served
<1> QED
  BY <1>1, <1>2, <1>3, PTL DEF Spec

=============================================================================
