--------------------------- MODULE BackfillQueue ---------------------------
(***************************************************************************)
(* The resumable backfill queue of backend/app/worker/backfill_queue.py:   *)
(* the Postgres tables backfill_job and backfill_window, and every         *)
(* transaction that changes them, called by any number of workers.         *)
(*                                                                         *)
(* A function of the source is one READ COMMITTED transaction.  Where what *)
(* other transactions commit in its middle makes no difference it is one   *)
(* action.  Three of them are a Begin and a Commit action instead: a claim *)
(* (it selects a row and locks it, then leases it), retiring a window (it  *)
(* locks the row and counts the windows of the job as the OTHER            *)
(* transactions have committed them so far), and the auth pause (it        *)
(* rewrites the windows with one statement and the jobs with the next).    *)
(***************************************************************************)
EXTENDS Integers, FiniteSets

CONSTANTS
  Jobs,          \* rows of backfill_job: series to download
  Windows,       \* rows of backfill_window, each the window of one job
  JobOf,         \* the job of a window
  Rank,          \* place of a window in (tier, priority, job_id, window_start)
  Batches,       \* what one enqueue inserts for a job: sets of its windows
  Workers,       \* the processes that drain the queue
  MaxAttempts,   \* BackfillRunner.max_attempts
  LeaseOutlives  \* may a live worker hold a window longer than the lease?

ASSUME QueueAssumption ==
  /\ JobOf \in [Windows -> Jobs]
  /\ Rank \in [Windows -> Nat]
  /\ Batches \in [Jobs -> SUBSET SUBSET Windows]
  /\ \A j \in Jobs, ws \in SUBSET Windows :
       ws \in Batches[j] => \A w \in ws : JobOf[w] = j
  /\ MaxAttempts \in Nat \ {0}
  /\ LeaseOutlives \in BOOLEAN

VARIABLES
  jobState,      \* backfill_job.state
  winState,      \* backfill_window.state
  attempts,      \* backfill_window.attempts
  overdue,       \* windows whose claimed_at is older than the lease time
  txn,           \* the transaction a worker has open on a window, or NoTxn:
                 \* the state it gives the window and the verdict on the job
  pausing,       \* the auth-pause transaction: whose, and the rows it locks
  held,          \* windows a worker was given and has not answered for
  takenOver      \* windows a reclaim or an auth pause has taken from a worker
                 \* that was alive and still held them (history variable)

tables == <<jobState, winState, attempts, overdue>>
vars == <<tables, txn, pausing, held, takenOver>>

----------------------------------------------------------------------------
Open == {"pending", "running"}
Terminal == {"done", "empty", "failed"}

JobStates == {"absent", "pending", "running", "done", "failed", "paused_auth"}
WindowStates == {"absent"} \cup Open \cup Terminal

NoTxn == [win |-> "none", to |-> "none", close |-> "none"]
Txns ==
  [win : Windows, to : {"running"} \cup Terminal, close : {"none", "done", "failed"}]

NoPause == [by |-> "none", rows |-> {}]

\* A row a transaction has updated is locked until that transaction commits:
\* another transaction that would update it waits.
Locked(w) ==
  \/ \E r \in Workers : txn[r] # NoTxn /\ txn[r].win = w
  \/ w \in pausing.rows
Idle(r) == txn[r] = NoTxn /\ pausing.by # r

SiblingsOf(w) == {v \in Windows : JobOf[v] = JobOf[w] /\ v # w}
WindowsOf(j) == {w \in Windows : JobOf[w] = j}
Holders(w) == {r \in Workers : w \in held[r]}
Running == {w \in Windows : winState[w] = "running"}

Init ==
  /\ jobState = [j \in Jobs |-> "absent"]
  /\ winState = [w \in Windows |-> "absent"]
  /\ attempts = [w \in Windows |-> 0]
  /\ overdue = {}
  /\ txn = [r \in Workers |-> NoTxn]
  /\ pausing = NoPause
  /\ held = [r \in Workers |-> {}]
  /\ takenOver = {}

----------------------------------------------------------------------------
(* enqueue_jobs: insert the job and its windows, ON CONFLICT DO NOTHING.   *)
(* A job that exists keeps its state, whatever windows are inserted under  *)
(* it.                                                                     *)
Enqueue_Resets(j, ws) ==  \* mutant: ON CONFLICT DO UPDATE resets the window
  /\ ws \in Batches[j]
  /\ jobState' = [jobState EXCEPT ![j] = IF @ = "absent" THEN "pending" ELSE @]
  /\ winState' = [w \in Windows |-> IF w \in ws THEN "pending" ELSE winState[w]]
  /\ UNCHANGED <<attempts, overdue, txn, pausing, held, takenOver>>

Enqueue(j, ws) ==
  /\ ws \in Batches[j]
  /\ jobState[j] = "absent" \/ \E w \in ws : winState[w] = "absent"
  /\ jobState' = [jobState EXCEPT ![j] = IF @ = "absent" THEN "pending" ELSE @]
  /\ winState' = [w \in Windows |->
                    IF w \in ws /\ winState[w] = "absent" THEN "pending"
                                                          ELSE winState[w]]
  /\ UNCHANGED <<attempts, overdue, txn, pausing, held, takenOver>>

(* claim_next_window: its SELECT finds the first window that is pending,   *)
(* has attempts left and belongs to a runnable job, passes over the rows   *)
(* other transactions have locked and locks the one it returns (FOR UPDATE *)
(* SKIP LOCKED); its UPDATEs lease the row whatever is in it by then.      *)
Claimable_NoBudget(w) ==  \* mutant: attempts are not checked
  winState[w] = "pending" /\ jobState[JobOf[w]] \in {"pending", "running"}

Claimable(w) ==
  /\ winState[w] = "pending"
  /\ jobState[JobOf[w]] \in {"pending", "running"}
  /\ attempts[w] < MaxAttempts

Selectable_NoLock(w) == Claimable(w)  \* mutant: a SELECT without FOR UPDATE

Selectable(w) == Claimable(w) /\ ~Locked(w)

BeginClaim(r, w) ==
  /\ Idle(r)
  /\ Selectable(w)
  /\ \A v \in Windows : Selectable(v) => Rank[w] <= Rank[v]
  /\ txn' = [txn EXCEPT ![r] = [win |-> w, to |-> "running", close |-> "none"]]
  /\ UNCHANGED <<tables, pausing, held, takenOver>>

CommitClaim(r) ==
  /\ txn[r].to = "running"
  /\ LET w == txn[r].win
     IN  /\ winState' = [winState EXCEPT ![w] = "running"]
         /\ attempts' = [attempts EXCEPT ![w] = @ + 1]
         /\ overdue' = overdue \ {w}
         /\ jobState' = [jobState EXCEPT ![JobOf[w]] =
                           IF @ = "pending" THEN "running" ELSE @]
         /\ held' = [held EXCEPT ![r] = @ \cup {w}]
  /\ txn' = [txn EXCEPT ![r] = NoTxn]
  /\ UNCHANGED <<pausing, takenOver>>

(* The verdict of _settle_job_if_finished for the job of w, when w is      *)
(* about to be `to` and every other window is as committed now.            *)
Verdict_PendingOnly(w, to) ==  \* mutant: leased windows are not counted
  IF \E v \in SiblingsOf(w) : winState[v] = "pending" THEN "none"
  ELSE IF to = "failed" \/ \E v \in SiblingsOf(w) : winState[v] = "failed"
       THEN "failed" ELSE "done"

Verdict(w, to) ==
  IF \E v \in SiblingsOf(w) : winState[v] \in Open THEN "none"
  ELSE IF to = "failed" \/ \E v \in SiblingsOf(w) : winState[v] = "failed"
       THEN "failed" ELSE "done"

(* complete_window and the retiring branch of fail_window: update the row, *)
(* whatever its state, and settle the job in the same transaction.         *)
BeginRetire(r, w, to) ==
  /\ Idle(r)
  /\ w \in held[r] /\ ~Locked(w)
  /\ txn' = [txn EXCEPT ![r] = [win |-> w, to |-> to, close |-> Verdict(w, to)]]
  /\ UNCHANGED <<tables, pausing, held, takenOver>>

BeginComplete(r, w) == \E to \in {"done", "empty"} : BeginRetire(r, w, to)

\* fail_window(max_attempts=0) after a DhanClientError retires at once.
BeginReject(r, w) == BeginRetire(r, w, "failed")

BeginExhaust(r, w) ==
  /\ attempts[w] >= MaxAttempts
  /\ BeginRetire(r, w, "failed")

CommitRetire(r) ==
  /\ txn[r].to \in Terminal
  /\ LET w == txn[r].win
         close == txn[r].close
     IN  /\ winState' = [winState EXCEPT ![w] = txn[r].to]
         /\ jobState' = [jobState EXCEPT ![JobOf[w]] =
                           IF close = "none" THEN @ ELSE close]
         /\ held' = [held EXCEPT ![r] = @ \ {w}]
  /\ txn' = [txn EXCEPT ![r] = NoTxn]
  /\ UNCHANGED <<attempts, overdue, pausing, takenOver>>

(* fail_window while attempts remain: back to the queue, attempt consumed. *)
FailRetry(r, w) ==
  /\ Idle(r)
  /\ w \in held[r] /\ ~Locked(w)
  /\ attempts[w] < MaxAttempts
  /\ winState' = [winState EXCEPT ![w] = "pending"]
  /\ held' = [held EXCEPT ![r] = @ \ {w}]
  /\ UNCHANGED <<jobState, attempts, overdue, txn, pausing, takenOver>>

(* release_window: only a running row is returned, its attempt refunded.   *)
Release(r, w) ==
  /\ Idle(r)
  /\ w \in held[r] /\ ~Locked(w)
  /\ IF winState[w] = "running"
     THEN /\ winState' = [winState EXCEPT ![w] = "pending"]
          /\ attempts' = [attempts EXCEPT ![w] = @ - 1]
          /\ overdue' = overdue \ {w}
     ELSE UNCHANGED <<winState, attempts, overdue>>
  /\ held' = [held EXCEPT ![r] = @ \ {w}]
  /\ UNCHANGED <<jobState, txn, pausing, takenOver>>

----------------------------------------------------------------------------
TakeOver(ws) == takenOver \cup {w \in ws : Holders(w) # {}}

\* Rows as an UPDATE that finds them running leaves them: a row that another
\* transaction is retiring is terminal by the time the UPDATE gets its lock.
Returned(ws) == [w \in Windows |-> IF w \in ws THEN "pending" ELSE winState[w]]

(* reclaim_stale_leases: every running row with an old claimed_at goes     *)
(* back to the queue; the attempt it used stays used.                      *)
Stale_AnyState ==   \* mutant: no state check, claimed_at outlives the lease
  {w \in overdue : ~Locked(w)}
Stale_NotLast ==    \* mutant: a lease on the last attempt is left alone
  {w \in Running \cap overdue : ~Locked(w) /\ attempts[w] < MaxAttempts}

Stale == {w \in Running \cap overdue : ~Locked(w)}

Reclaim ==
  /\ Stale # {}
  /\ winState' = Returned(Stale)
  /\ overdue' = overdue \ Stale
  /\ takenOver' = TakeOver(Stale)
  /\ UNCHANGED <<jobState, attempts, txn, pausing, held>>

(* pause_all_for_auth, its first statement: running rows go back.          *)
BeginPause(r) ==
  /\ Idle(r) /\ pausing = NoPause
  /\ pausing' = [by |-> r, rows |-> {w \in Running : ~Locked(w)}]
  /\ UNCHANGED <<tables, txn, held, takenOver>>

(* Its second statement parks the jobs runnable by then, and it commits.   *)
CommitPause(r) ==
  /\ pausing.by = r
  /\ winState' = Returned(pausing.rows)
  /\ overdue' = overdue \ pausing.rows
  /\ jobState' = [j \in Jobs |->
                    IF jobState[j] \in {"pending", "running"}
                    THEN "paused_auth" ELSE jobState[j]]
  /\ takenOver' = TakeOver(pausing.rows)
  /\ pausing' = NoPause
  /\ UNCHANGED <<attempts, txn, held>>

(* resume_after_auth                                                       *)
ResumeAll ==
  /\ \E j \in Jobs : jobState[j] = "paused_auth"
  /\ jobState' = [j \in Jobs |->
                    IF jobState[j] = "paused_auth" THEN "pending" ELSE jobState[j]]
  /\ UNCHANGED <<winState, attempts, overdue, txn, pausing, held, takenOver>>

(* Half an hour passes for a running row.  Unless LeaseOutlives, a live    *)
(* worker always answers for its windows before that.                      *)
LeaseExpires(w) ==
  /\ winState[w] = "running" /\ w \notin overdue
  /\ LeaseOutlives \/ Holders(w) = {}
  /\ overdue' = overdue \cup {w}
  /\ UNCHANGED <<jobState, winState, attempts, txn, pausing, held, takenOver>>

(* A worker process dies and is started again: what it held is forgotten,  *)
(* and the transaction it has open rolls back.                             *)
Crash(r) ==
  /\ held[r] # {} \/ ~Idle(r)
  /\ held' = [held EXCEPT ![r] = {}]
  /\ txn' = [txn EXCEPT ![r] = NoTxn]
  /\ pausing' = IF pausing.by = r THEN NoPause ELSE pausing
  /\ UNCHANGED <<tables, takenOver>>

----------------------------------------------------------------------------
WorkerStep(r) ==
  \/ \E w \in Windows :
       \/ BeginClaim(r, w)
       \/ BeginComplete(r, w)
       \/ BeginReject(r, w)
       \/ BeginExhaust(r, w)
       \/ FailRetry(r, w)
       \/ Release(r, w)
  \/ CommitClaim(r)
  \/ CommitRetire(r)
  \/ BeginPause(r)
  \/ CommitPause(r)
  \/ Crash(r)

Next ==
  \/ \E j \in Jobs : \E ws \in Batches[j] : Enqueue(j, ws)
  \/ \E r \in Workers : WorkerStep(r)
  \/ Reclaim
  \/ ResumeAll
  \/ \E w \in Windows : LeaseExpires(w)

Spec == Init /\ [][Next]_vars

(* A worker keeps claiming and answering for what it claimed, time passes, *)
(* and every drain starts with a reclaim.  The UPDATE of a reclaim waits   *)
(* its turn for a row lock, so pauses that keep starting and rolling back  *)
(* cannot keep it from a row for ever: strong fairness.                    *)
Answer(r) ==
  \/ \E w \in Windows : BeginComplete(r, w) \/ BeginReject(r, w)
  \/ CommitRetire(r)

FairSpec ==
  /\ Spec
  /\ \A r \in Workers :
       /\ WF_vars((\E w \in Windows : BeginClaim(r, w)) \/ CommitClaim(r))
       /\ WF_vars(Answer(r))
       /\ WF_vars(CommitPause(r))
  /\ SF_vars(Reclaim)
  /\ \A w \in Windows : WF_vars(LeaseExpires(w))

----------------------------------------------------------------------------
(* Every variable stays in its type: in particular no interleaving of      *)
(* claims, refunds and reclaims takes the attempts counter of a window     *)
(* below zero or past its budget (claim_next_window, release_window).      *)
TypeOK ==
  /\ jobState \in [Jobs -> JobStates]
  /\ winState \in [Windows -> WindowStates]
  /\ attempts \in [Windows -> 0 .. MaxAttempts]
  /\ overdue \in SUBSET Windows
  /\ txn \in [Workers -> Txns \cup {NoTxn}]
  /\ pausing \in [by : Workers \cup {"none"}, rows : SUBSET Windows]
  /\ held \in [Workers -> SUBSET Windows]
  /\ takenOver \in SUBSET Windows

(* SKIP LOCKED plus the state guard do hand a window to one worker only,   *)
(* as long as neither a reclaim nor an auth pause has taken it from a      *)
(* worker that still held it: those two are the only ways to lose a lease. *)
LeaseExclusive ==
  \A w \in Windows \ takenOver, r, s \in Workers :
    w \in held[r] => /\ winState[w] = "running"
                     /\ w \in held[s] => r = s

(* A window that was answered for is never fetched again: unless it was    *)
(* taken over, done, empty and failed are final for every worker, whatever *)
(* complete_window and fail_window write without looking at the state.     *)
TerminalStable ==
  [][\A w \in Windows \ takenOver' :
       winState[w] \in Terminal => winState'[w] = winState[w]]_vars

(* _settle_job_if_finished closes a job with the right verdict: a closed   *)
(* job has only terminal windows, and it is failed when one of them is.    *)
ClosedJobIsFinished ==
  \A j \in Jobs :
    jobState[j] \in {"done", "failed"} /\ WindowsOf(j) \cap takenOver = {} =>
      /\ \A w \in WindowsOf(j) : winState[w] \notin Open
      /\ jobState[j] = "failed" <=> \E w \in WindowsOf(j) : winState[w] = "failed"

(* The lease of a dead worker always comes back to the queue, also on the  *)
(* last attempt (reclaim_stale_leases at the start of every drain).        *)
DeadLeaseReturns ==
  \A w \in Windows :
    (winState[w] = "running" /\ Holders(w) = {}) ~> winState[w] # "running"

----------------------------------------------------------------------------
(* What the source says of the queue and the code does not do.             *)

(* backfill_queue.py:265: "a window that repeatedly kills its worker still *)
(* retires eventually".                                                    *)
ExhaustedRetires ==
  [](\A j \in Jobs : jobState[j] # "paused_auth") =>
    \A w \in Windows :
      (winState[w] = "pending" /\ attempts[w] = MaxAttempts) ~>
        winState[w] \in Terminal

(* backfill_queue.py:500: "Close a job once no window remains pending or   *)
(* running".                                                               *)
FinishedJobIsClosed ==
  \A j \in Jobs :
    /\ \A r \in Workers : Idle(r)
    /\ \A w \in WindowsOf(j) : winState[w] \in Terminal
    => jobState[j] \in {"done", "failed"}
=============================================================================
