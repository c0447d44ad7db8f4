--------------------------- MODULE BackfillRunner ---------------------------
(***************************************************************************)
(* The process that downloads history: BackfillRunner.drain of             *)
(* backend/app/worker/backfill_runner.py, called once per beat by          *)
(* backend/app/worker/core.py.  It composes the queue (its transactions)   *)
(* and the warehouse publisher (its file operations):                      *)
(*                                                                         *)
(*   drain: reclaim -> { claim -> fetch -> stage } ... -> flush            *)
(*   flush: publish the batch, then checkpoint each window of it           *)
(*                                                                         *)
(* The batch lives in memory: a crash loses it, whatever was published.    *)
(* The error of a fetch (authentication, rate limit, refused request,      *)
(* anything else) is a choice of the environment.                          *)
(***************************************************************************)
EXTENDS Integers, Sequences, TLC

CONSTANTS
  Jobs, Windows, JobOf, Rank, Batches, Workers, MaxAttempts, LeaseOutlives,
  Versions, Paths, MaxRollbacks, NoVersion,
  PathOf,        \* partition file of a window: segment/year/month/symbol
  BatchSize,     \* PUBLISH_BATCH_SIZE
  MaxWindows,    \* WINDOWS_PER_BEAT, the max_windows of a drain
  NoWindow       \* not a window

ASSUME RunnerAssumption ==
  /\ PathOf \in [Windows -> Paths]
  /\ BatchSize \in Nat \ {0} /\ MaxWindows \in Nat \ {0}
  /\ NoWindow \notin Windows

\* What the queue and the publisher assume of their constants.
ASSUME PartsAssumption ==
  /\ JobOf \in [Windows -> Jobs]
  /\ Rank \in [Windows -> Nat]
  /\ Batches \in [Jobs -> SUBSET SUBSET Windows]
  /\ \A j \in Jobs : \A ws \in Batches[j] : \A w \in ws : JobOf[w] = j
  /\ MaxAttempts \in Nat \ {0}
  /\ LeaseOutlives \in BOOLEAN
  /\ NoVersion \notin Versions /\ MaxRollbacks \in Nat

VARIABLES
  jobState, winState, attempts, overdue, txn, pausing, held, takenOver,
  staging, files, moved, manifests, written, pointer, tmp,
  pc, version, parts, plan, generation, rollbacks,
  step,          \* where a worker is in drain, run_once or flush
  current,       \* the window run_once is working on
  batch,         \* _pending: windows staged but not checkpointed
  tried,         \* stats.windows_attempted of this drain
  stopping,      \* whether the drain returns after the flush
  covered        \* how often bar_coverage has counted the rows of a window

Q == INSTANCE BackfillQueue
P == INSTANCE WarehousePublisher WITH Actors <- Workers, Digests <- Windows

queue == <<jobState, winState, attempts, overdue, txn, pausing, held, takenOver>>
warehouse == <<staging, files, moved, manifests, written, pointer, tmp,
               pc, version, parts, plan, generation, rollbacks>>
runner == <<step, current, batch, tried, stopping>>
vars == <<queue, warehouse, runner, covered>>

----------------------------------------------------------------------------
Steps == {"stopped", "draining", "claiming", "fetching", "retiring", "renewing", "pausing",
          "flushing", "publishing", "checkpointing", "committing", "covering",
          "releasing"}
Fetched == [win : Windows, bars : BOOLEAN]

Init ==
  /\ Q!Init /\ P!Init
  /\ step = [r \in Workers |-> "stopped"]
  /\ current = [r \in Workers |-> NoWindow]
  /\ batch = [r \in Workers |-> <<>>]
  /\ tried = [r \in Workers |-> 0]
  /\ stopping = [r \in Workers |-> FALSE]
  /\ covered = [w \in Windows |-> 0]

Goto(r, from, to) == step[r] = from /\ step' = [step EXCEPT ![r] = to]
Set(f, r, x) == [f EXCEPT ![r] = x]

\* run_once returns True: the drain counts the window and goes on.
Progressed(r, next) ==
  /\ Goto(r, "fetching", next)
  /\ current' = Set(current, r, NoWindow)
  /\ tried' = Set(tried, r, tried[r] + 1)

\* run_once raises: the drain flushes what it has and returns.
Interrupted(r, next) ==
  /\ Goto(r, "fetching", next)
  /\ current' = Set(current, r, NoWindow)
  /\ stopping' = Set(stopping, r, TRUE)
  /\ UNCHANGED <<batch, tried>>

----------------------------------------------------------------------------
(* A beat: drain() starts with reclaim_stale_leases.                       *)
StartDrain_NoReclaim(r) ==  \* mutant: leases are reclaimed elsewhere, or never
  /\ Goto(r, "stopped", "draining")
  /\ tried' = Set(tried, r, 0)
  /\ stopping' = Set(stopping, r, FALSE)
  /\ UNCHANGED <<queue, warehouse, current, batch, covered>>

StartDrain(r) ==
  /\ Goto(r, "stopped", "draining")
  /\ IF Q!Stale = {} THEN UNCHANGED queue ELSE Q!Reclaim
  /\ tried' = Set(tried, r, 0)
  /\ stopping' = Set(stopping, r, FALSE)
  /\ UNCHANGED <<warehouse, current, batch, covered>>

\* claim_next_window: its SELECT returns a row.
Select(r) ==
  /\ Goto(r, "draining", "claiming")
  /\ \E w \in Windows : Q!BeginClaim(r, w) /\ current' = Set(current, r, w)
  /\ UNCHANGED <<warehouse, batch, tried, stopping, covered>>

(* run_once: claim the next window ...                                     *)
ClaimNext_OneMore(r) ==  \* mutant: max_windows is off by one
  tried[r] <= MaxWindows /\ Select(r)

ClaimNext(r) ==
  tried[r] < MaxWindows /\ Select(r)

(* ... and, once it is leased, open a batch for it if none is open.        *)
Claimed(r) ==
  /\ Goto(r, "claiming", "fetching")
  /\ Q!CommitClaim(r)
  /\ IF pc[r] = "batch" THEN UNCHANGED warehouse
                        ELSE \E v \in Versions : P!BeginBatch(r, v)
  /\ UNCHANGED <<current, batch, tried, stopping, covered>>

(* The loop ends: nothing to claim, or max_windows were attempted.         *)
LoopEnds(r) ==
  /\ \/ tried[r] = MaxWindows
     \/ \A w \in Windows : ~Q!Selectable(w)
  /\ Goto(r, "draining", "flushing")
  /\ stopping' = Set(stopping, r, TRUE)
  /\ UNCHANGED <<queue, warehouse, current, batch, tried, covered>>

\* run_once flushes when the batch is full.
Append1(r, bars) ==
  LET full == Len(batch[r]) + 1 >= BatchSize
  IN  /\ batch' = Set(batch, r, Append(batch[r], [win |-> current[r], bars |-> bars]))
      /\ Progressed(r, IF full THEN "flushing" ELSE "draining")
      /\ UNCHANGED <<queue, stopping, covered>>

(* The fetch answers with bars, staged under the window's partition path,  *)
(* or with none, which is an answer too.                                   *)
FetchBars(r) ==
  /\ Append1(r, TRUE)
  /\ P!Stage(r, PathOf[current[r]], current[r])

FetchEmpty(r) ==
  /\ Append1(r, FALSE)
  /\ UNCHANGED warehouse

(* The disk is full (check_write_admission) or the daily API budget is     *)
(* spent (DhanRateLimitError): the window is released, the drain stops.    *)
StopForBudget(r) ==
  /\ Interrupted(r, "flushing")
  /\ Q!Release(r, current[r])
  /\ UNCHANGED <<warehouse, covered>>

(* DhanAuthenticationError: release, then _handle_auth_failure renews the  *)
(* token or parks every job.                                               *)
AuthFails(r) ==
  /\ Interrupted(r, "renewing")
  /\ Q!Release(r, current[r])
  /\ UNCHANGED <<warehouse, covered>>

Renewed(r) ==
  /\ Goto(r, "renewing", "flushing")
  /\ UNCHANGED <<queue, warehouse, current, batch, tried, stopping, covered>>

RenewalFails(r) ==
  /\ Goto(r, "renewing", "pausing")
  /\ Q!BeginPause(r)
  /\ UNCHANGED <<warehouse, current, batch, tried, stopping, covered>>

Park(r) ==
  /\ Goto(r, "pausing", "flushing")
  /\ Q!CommitPause(r)
  /\ UNCHANGED <<warehouse, current, batch, tried, stopping, covered>>

(* DhanClientError retires the window at once; any other error when its    *)
(* attempts are used up.                                                   *)
FetchRefused(r) ==
  /\ step[r] = "fetching"
  /\ Q!BeginReject(r, current[r]) \/ Q!BeginExhaust(r, current[r])
  /\ step' = Set(step, r, "retiring")
  /\ UNCHANGED <<warehouse, current, batch, tried, stopping, covered>>

Retired(r) ==
  /\ step[r] = "retiring"
  /\ Q!CommitRetire(r)
  /\ step' = Set(step, r, "draining")
  /\ current' = Set(current, r, NoWindow)
  /\ tried' = Set(tried, r, tried[r] + 1)
  /\ UNCHANGED <<warehouse, batch, stopping, covered>>

FetchFails(r) ==
  /\ Progressed(r, "draining")
  /\ Q!FailRetry(r, current[r])
  /\ UNCHANGED <<warehouse, batch, stopping, covered>>

----------------------------------------------------------------------------
\* After a flush the drain returns, or goes on when the batch was just full.
AfterFlush(r) == IF stopping[r] THEN "stopped" ELSE "draining"

(* flush with nothing pending abandons the open batch.                     *)
FlushNothing(r) ==
  /\ batch[r] = <<>>
  /\ Goto(r, "flushing", AfterFlush(r))
  /\ IF pc[r] = "batch" THEN P!Abandon(r) ELSE UNCHANGED warehouse
  /\ UNCHANGED <<queue, current, batch, tried, stopping, covered>>

FlushBatch(r) ==
  /\ batch[r] # <<>>
  /\ Goto(r, "flushing", "publishing")
  /\ P!FlushBatch(r)
  /\ UNCHANGED <<queue, current, batch, tried, stopping, covered>>

Publish(r) ==
  /\ step[r] = "publishing"
  /\ \/ P!Verify(r) \/ P!Move(r) \/ P!Merge(r) \/ P!WriteManifest(r)
     \/ P!ReadGeneration(r) \/ P!WriteTmp(r) \/ P!Replace(r)
  /\ UNCHANGED <<queue, runner, covered>>

PublishFails(r) ==
  /\ step[r] = "publishing"
  /\ P!IOFails(r)
  /\ UNCHANGED <<queue, runner, covered>>

(* Published: checkpoint.  Raised: nothing was, release the whole batch.   *)
PublishEnds_Swallowed(r) ==  \* mutant: a failed publish is not noticed
  /\ Goto(r, "publishing", "checkpointing")
  /\ P!Return(r)
  /\ UNCHANGED <<queue, current, batch, tried, stopping, covered>>

PublishEnds(r) ==
  /\ Goto(r, "publishing", IF pc[r] = "returned" THEN "checkpointing" ELSE "releasing")
  /\ P!Return(r)
  /\ UNCHANGED <<queue, current, batch, tried, stopping, covered>>

\* The next window of the batch, and the step once it is dealt with.
First(r) == batch[r][1]
Rest(r, again) == IF Len(batch[r]) > 1 THEN again ELSE AfterFlush(r)

(* complete_window, then upsert_coverage, two transactions per window.     *)
Checkpoint_CountsFirst(r) ==  \* mutant: coverage before complete_window
  /\ Goto(r, "checkpointing", "committing")
  /\ Q!BeginRetire(r, First(r).win, IF First(r).bars THEN "done" ELSE "empty")
  /\ covered' = [covered EXCEPT ![First(r).win] = @ + 1]
  /\ UNCHANGED <<warehouse, current, batch, tried, stopping>>

Checkpoint(r) ==
  /\ Goto(r, "checkpointing", "committing")
  /\ Q!BeginRetire(r, First(r).win, IF First(r).bars THEN "done" ELSE "empty")
  /\ UNCHANGED <<warehouse, current, batch, tried, stopping, covered>>

CommitCheckpoint(r) ==
  /\ step[r] = "committing"
  /\ Q!CommitRetire(r)
  /\ IF First(r).bars
     THEN Goto(r, "committing", "covering") /\ UNCHANGED batch
     ELSE /\ Goto(r, "committing", Rest(r, "checkpointing"))
          /\ batch' = Set(batch, r, Tail(batch[r]))
  /\ UNCHANGED <<warehouse, current, tried, stopping, covered>>

UpsertCoverage(r) ==
  /\ Goto(r, "covering", Rest(r, "checkpointing"))
  /\ covered' = [covered EXCEPT ![First(r).win] = @ + 1]
  /\ batch' = Set(batch, r, Tail(batch[r]))
  /\ UNCHANGED <<queue, warehouse, current, tried, stopping>>

ReleaseBatch_FirstOnly(r) ==  \* mutant: the batch is dropped after one release
  /\ Goto(r, "releasing", AfterFlush(r))
  /\ Q!Release(r, First(r).win)
  /\ batch' = Set(batch, r, <<>>)
  /\ UNCHANGED <<warehouse, current, tried, stopping, covered>>

ReleaseBatch(r) ==
  /\ Goto(r, "releasing", Rest(r, "releasing"))
  /\ Q!Release(r, First(r).win)
  /\ batch' = Set(batch, r, Tail(batch[r]))
  /\ UNCHANGED <<warehouse, current, tried, stopping, covered>>

----------------------------------------------------------------------------
(* The process is killed, at any point, and started again.                 *)
Crash(r) ==
  /\ step[r] # "stopped"
  /\ IF held[r] # {} \/ ~Q!Idle(r) THEN Q!Crash(r) ELSE UNCHANGED queue
  /\ IF pc[r] = "idle" THEN UNCHANGED warehouse ELSE P!Crash(r)
  /\ step' = Set(step, r, "stopped")
  /\ current' = Set(current, r, NoWindow)
  /\ batch' = Set(batch, r, <<>>)
  /\ tried' = Set(tried, r, 0)
  /\ stopping' = Set(stopping, r, FALSE)
  /\ UNCHANGED covered

(* Everything that is not the worker: enqueueing, the operator resuming    *)
(* parked jobs, and time.                                                  *)
Operator ==
  /\ Q!ResumeAll \/ \E j \in Jobs : \E ws \in Batches[j] : Q!Enqueue(j, ws)
  /\ UNCHANGED <<warehouse, runner, covered>>

Elapse(w) ==
  /\ Q!LeaseExpires(w)
  /\ UNCHANGED <<warehouse, runner, covered>>

Fetch(r) ==
  FetchBars(r) \/ FetchEmpty(r) \/ FetchRefused(r) \/ FetchFails(r)

Flush(r) ==
  \/ FlushNothing(r) \/ FlushBatch(r) \/ Publish(r) \/ PublishEnds(r)
  \/ Checkpoint(r) \/ CommitCheckpoint(r) \/ UpsertCoverage(r) \/ ReleaseBatch(r)

Progress(r) ==
  \/ StartDrain(r) \/ ClaimNext(r) \/ Claimed(r) \/ LoopEnds(r) \/ Fetch(r) \/ Retired(r)
  \/ Renewed(r) \/ Park(r) \/ Flush(r)

Fault(r) ==
  StopForBudget(r) \/ AuthFails(r) \/ RenewalFails(r) \/ PublishFails(r) \/ Crash(r)

Next ==
  \/ \E r \in Workers : Progress(r) \/ Fault(r)
  \/ Operator
  \/ \E w \in Windows : Elapse(w)

Spec == Init /\ [][Next]_vars

(* What the liveness of the drain rests on: beats keep coming, the process *)
(* keeps executing, an answer to a request arrives, time passes.           *)
FairSpec ==
  /\ Spec
  /\ \A r \in Workers : WF_vars(Progress(r))
  /\ \A w \in Windows : WF_vars(Elapse(w))

----------------------------------------------------------------------------
(* Every variable stays in its type: a drain attempts at most MaxWindows   *)
(* windows and a batch never outgrows PUBLISH_BATCH_SIZE.                  *)
TypeOK ==
  /\ Q!TypeOK /\ P!TypeOK
  /\ step \in [Workers -> Steps]
  /\ current \in [Workers -> Windows \cup {NoWindow}]
  /\ \A r \in Workers : batch[r] \in Seq(Fetched) /\ Len(batch[r]) <= BatchSize
  /\ tried \in [Workers -> 0 .. MaxWindows]
  /\ stopping \in [Workers -> BOOLEAN]
  /\ covered \in [Windows -> Nat]

(* flush publishes before it checkpoints: whatever fails or crashes, the   *)
(* file of a window marked done is in what the warehouse serves, with the  *)
(* bars of that window, or of another one of the same file that superseded *)
(* it.                                                                     *)
OfFile(d, p) == d \in {w \in Windows : PathOf[w] = p}
DoneIsReachable ==
  \A w \in Windows :
    winState[w] = "done" =>
      /\ PathOf[w] \in DOMAIN P!Current
      /\ OfFile(P!Current[PathOf[w]].digest, PathOf[w])

(* Every way out of a drain answers for every window it claimed: no lease  *)
(* and no open batch is left behind by a worker that did not crash.        *)
NoLeaseLeaks ==
  \A r \in Workers :
    step[r] = "stopped" => held[r] = {} /\ batch[r] = <<>> /\ pc[r] = "idle"

(* A window that was answered for is never requested again.                *)
AnsweredOnce ==
  [][\A w \in Windows :
       winState[w] \in {"done", "empty", "failed"} => winState'[w] = winState[w]]_vars

(* bar_coverage never counts the rows of a window twice, nor rows of a     *)
(* window that is not done.                                                *)
CoverageNotInflated ==
  \A w \in Windows : covered[w] <= (IF winState[w] = "done" THEN 1 ELSE 0)

\* Versions bounds the names of a behaviour; the program never runs out.
NamesLast ==
  \A r \in Workers :
    step[r] = "claiming" => pc[r] = "batch" \/ \E v \in Versions : P!Fresh(v)

\* What flush_batch finds in the staging directory is not what was staged.
Refused(r) == pc[r] = "verify" /\ ~P!Verified(r)

(* The queue drains: once faults stop, and as long as jobs are not parked, *)
(* every window is answered for, except one whose attempts were used up by *)
(* crashes (see ExhaustedRetires of BackfillQueue).  A batch that does not *)
(* pass the publisher's own verification is no fault: it must not happen,  *)
(* as it would be released and come back the same.                         *)
Drains ==
  /\ <>[][\A r \in Workers : Fault(r) => Refused(r)]_vars
  /\ []NamesLast
  => \A w \in Windows :
       winState[w] # "absent" ~>
         \/ winState[w] \in {"done", "empty", "failed"}
         \/ jobState[JobOf[w]] = "paused_auth"
         \/ winState[w] = "pending" /\ attempts[w] = MaxAttempts
=============================================================================
