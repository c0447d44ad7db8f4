------------------------ MODULE BackfillQueueProofs ------------------------
(***************************************************************************)
(* Proofs about BackfillQueue, for any jobs, windows and workers.          *)
(***************************************************************************)
EXTENDS BackfillQueue, TLAPS

USE DEF tables, vars

(* An open transaction is on a row the auth pause has not locked; one that *)
(* retires a window has it from a worker that holds it.                    *)
TxnInv ==
  \A r \in Workers :
    txn[r] # NoTxn =>
      /\ txn[r].win \notin pausing.rows
      /\ txn[r].to \in Terminal => txn[r].win \in held[r]

(* Two open transactions are on different rows.                            *)
LockInv ==
  \A r, s \in Workers :
    txn[r] # NoTxn /\ txn[s] # NoTxn /\ r # s => txn[r].win # txn[s].win

(* A row that is being claimed stays as its SELECT found it.               *)
ClaimInv ==
  \A r \in Workers :
    txn[r].to = "running" =>
      /\ winState[txn[r].win] = "pending"
      /\ attempts[txn[r].win] < MaxAttempts
      /\ txn[r].close = "none"

(* The rows an open auth pause has locked are still leased.                *)
PauseInv == \A w \in pausing.rows : winState[w] = "running"

(* A lease has cost an attempt: refunding it cannot go below zero.         *)
AttemptInv == \A w \in Windows : winState[w] = "running" => attempts[w] >= 1

QInv ==
  /\ TypeOK /\ TxnInv /\ LockInv /\ ClaimInv
  /\ PauseInv /\ AttemptInv /\ LeaseExclusive

LEMMA ConstantTypes ==
  /\ MaxAttempts \in Nat \ {0}
  /\ JobOf \in [Windows -> Jobs]
BY QueueAssumption DEF QueueAssumption

LEMMA InitQInv == Init => QInv
BY QueueAssumption DEF Init, QInv, TypeOK, TxnInv, LockInv, ClaimInv, PauseInv,
  AttemptInv, LeaseExclusive, JobStates, WindowStates, NoPause, NoTxn

\* An open transaction is a claim of a pending row or retires a held one.
LEMMA OpenTxn ==
  ASSUME QInv, NEW r \in Workers, txn[r] # NoTxn
  PROVE  /\ txn[r].win \in Windows /\ txn[r].win \notin pausing.rows
         /\ txn[r].to = "running" \/ txn[r].to \in Terminal
         /\ txn[r].close \in {"none", "done", "failed"}
<1>1. txn[r] \in Txns
  BY DEF QInv, TypeOK
<1> QED
  BY <1>1 DEF QInv, TxnInv, Txns

LEMMA Claiming ==
  ASSUME QInv, NEW r \in Workers, txn[r].to = "running"
  PROVE  /\ txn[r] # NoTxn /\ txn[r].win \in Windows
         /\ winState[txn[r].win] = "pending" /\ txn[r].close = "none"
         /\ Locked(txn[r].win)
<1>1. txn[r] # NoTxn
  BY DEF NoTxn
<1> QED
  BY <1>1, OpenTxn DEF QInv, ClaimInv, Locked

LEMMA Retiring ==
  ASSUME QInv, NEW r \in Workers, txn[r].to \in Terminal
  PROVE  /\ txn[r] # NoTxn /\ txn[r].win \in Windows /\ txn[r].win \in held[r]
         /\ txn[r].to # "running" /\ txn[r].to \in WindowStates
         /\ txn[r].close = "none" \/ txn[r].close \in JobStates
<1>1. txn[r] # NoTxn /\ txn[r].to # "running"
  BY DEF NoTxn, Terminal
<1> QED
  BY <1>1, OpenTxn DEF QInv, TxnInv, WindowStates, JobStates

LEMMA EnqueueQInv ==
  ASSUME QInv, NEW j \in Jobs, NEW ws \in Batches[j], Enqueue(j, ws)
  PROVE  QInv'
<1>1. TypeOK'
  BY DEF QInv, TypeOK, JobStates, WindowStates, Open, Enqueue
<1>2. TxnInv'
  BY DEF QInv, TxnInv, Enqueue
<1>3. PauseInv'
  BY DEF QInv, TypeOK, PauseInv, Enqueue
<1>4. AttemptInv'
  BY DEF QInv, AttemptInv, Enqueue
<1>5. LeaseExclusive'
  BY DEF QInv, LeaseExclusive, Enqueue
<1>6. LockInv'
  BY DEF QInv, TypeOK, LockInv, Enqueue
<1>7. ClaimInv'
  <2> SUFFICES ASSUME NEW s \in Workers, txn[s].to = "running"
               PROVE  /\ winState'[txn[s].win] = "pending"
                      /\ attempts'[txn[s].win] < MaxAttempts
                      /\ txn[s].close = "none"
    BY DEF ClaimInv, Enqueue
  <2>1. /\ txn[s].win \in Windows /\ winState[txn[s].win] = "pending"
        /\ Locked(txn[s].win) /\ txn[s].close = "none"
        /\ attempts[txn[s].win] < MaxAttempts
    BY Claiming DEF QInv, ClaimInv
  <2> QED
    BY <2>1 DEF QInv, TypeOK, Enqueue
<1> QED
  BY <1>1, <1>2, <1>3, <1>4, <1>5, <1>6, <1>7 DEF QInv

LEMMA BeginClaimQInv ==
  ASSUME QInv, NEW r \in Workers, NEW w \in Windows, BeginClaim(r, w)
  PROVE  QInv'
<1> DEFINE claim == [win |-> w, to |-> "running", close |-> "none"]
<1>0. /\ txn' = [txn EXCEPT ![r] = claim]
      /\ UNCHANGED <<tables, pausing, held, takenOver>>
      /\ Claimable(w) /\ ~Locked(w)
      /\ "running" \notin Terminal
  BY DEF BeginClaim, Selectable, Terminal
<1>1. TypeOK'
  BY <1>0 DEF QInv, TypeOK, Txns
<1>2. TxnInv'
  BY <1>0 DEF QInv, TypeOK, TxnInv, Locked
<1>3. PauseInv'
  BY <1>0 DEF QInv, PauseInv
<1>4. AttemptInv'
  BY <1>0 DEF QInv, AttemptInv
<1>5. LeaseExclusive'
  BY <1>0 DEF QInv, LeaseExclusive
<1>6. LockInv'
  BY <1>0 DEF QInv, TypeOK, LockInv, Locked
<1>7. ClaimInv'
  BY <1>0 DEF QInv, TypeOK, ClaimInv, Claimable
<1> QED
  BY <1>1, <1>2, <1>3, <1>4, <1>5, <1>6, <1>7 DEF QInv

LEMMA CommitClaimQInv ==
  ASSUME QInv, NEW r \in Workers, CommitClaim(r)
  PROVE  QInv'
<1> DEFINE w == txn[r].win
<1>0. /\ txn[r] # NoTxn /\ txn[r].to = "running" /\ w \in Windows
      /\ winState[w] = "pending" /\ attempts[w] < MaxAttempts
      /\ w \notin pausing.rows
      /\ \A s \in Workers : txn[s] # NoTxn /\ s # r => txn[s].win # w
  BY DEF CommitClaim, QInv, TypeOK, TxnInv, LockInv, ClaimInv, Txns, NoTxn
<1>1. /\ txn' = [txn EXCEPT ![r] = NoTxn]
      /\ winState' = [winState EXCEPT ![w] = "running"]
      /\ attempts' = [attempts EXCEPT ![w] = @ + 1]
      /\ overdue' = overdue \ {w}
      /\ jobState' = [jobState EXCEPT ![JobOf[w]] =
                        IF @ = "pending" THEN "running" ELSE @]
      /\ held' = [held EXCEPT ![r] = @ \cup {w}]
      /\ UNCHANGED <<pausing, takenOver>>
  BY DEF CommitClaim
<1> HIDE DEF w
<1>2. TypeOK'
  <2>1. attempts' \in [Windows -> 0 .. MaxAttempts]
    BY <1>0, <1>1, ConstantTypes DEF QInv, TypeOK
  <2>2. /\ jobState' \in [Jobs -> JobStates]
        /\ winState' \in [Windows -> WindowStates]
    BY <1>1 DEF QInv, TypeOK, JobStates, WindowStates, Open
  <2> QED
    BY <1>0, <1>1, <2>1, <2>2 DEF QInv, TypeOK
<1>3. TxnInv'
  BY <1>0, <1>1 DEF QInv, TypeOK, TxnInv
<1>4. PauseInv'
  BY <1>0, <1>1 DEF QInv, TypeOK, PauseInv
<1>5. AttemptInv'
  BY <1>0, <1>1 DEF QInv, TypeOK, AttemptInv
<1>6. LeaseExclusive'
  BY <1>0, <1>1 DEF QInv, TypeOK, LeaseExclusive
<1>7. LockInv'
  BY <1>1 DEF QInv, TypeOK, LockInv
<1>8. ClaimInv'
  <2> SUFFICES ASSUME NEW s \in Workers, txn'[s].to = "running"
               PROVE  /\ winState'[txn'[s].win] = "pending"
                      /\ attempts'[txn'[s].win] < MaxAttempts
                      /\ txn'[s].close = "none"
    BY DEF ClaimInv
  <2>1. s # r /\ txn'[s] = txn[s] /\ txn[s] # NoTxn
    BY <1>1 DEF QInv, TypeOK, NoTxn
  <2>2. txn[s].win # w /\ txn[s].win \in Windows
    BY <1>0, <2>1 DEF QInv, TypeOK, Txns
  <2> QED
    BY <1>1, <2>1, <2>2 DEF QInv, TypeOK, ClaimInv
<1> QED
  BY <1>2, <1>3, <1>4, <1>5, <1>6, <1>7, <1>8 DEF QInv

LEMMA BeginRetireQInv ==
  ASSUME QInv, NEW r \in Workers, NEW w \in Windows, NEW to \in Terminal,
         BeginRetire(r, w, to)
  PROVE  QInv'
<1>1. TypeOK'
  BY DEF QInv, TypeOK, Txns, BeginRetire, Verdict
<1>2. TxnInv'
  BY DEF QInv, TxnInv, BeginRetire, Locked
<1>3. PauseInv'
  BY DEF QInv, PauseInv, BeginRetire
<1>4. AttemptInv'
  BY DEF QInv, AttemptInv, BeginRetire
<1>5. LeaseExclusive'
  BY DEF QInv, LeaseExclusive, BeginRetire
<1>6. LockInv'
  BY DEF QInv, TypeOK, LockInv, BeginRetire, Locked
<1>7. ClaimInv'
  BY DEF QInv, TypeOK, ClaimInv, BeginRetire, Terminal
<1> QED
  BY <1>1, <1>2, <1>3, <1>4, <1>5, <1>6, <1>7 DEF QInv

LEMMA CommitRetireQInv ==
  ASSUME QInv, NEW r \in Workers, CommitRetire(r)
  PROVE  QInv'
<1> DEFINE w == txn[r].win
           to == txn[r].to
           close == txn[r].close
<1>0. /\ txn[r] # NoTxn /\ w \in Windows /\ w \in held[r] /\ w \notin pausing.rows
      /\ to \in Terminal /\ to # "running" /\ to \in WindowStates
      /\ close = "none" \/ close \in JobStates
      /\ \A s \in Workers : txn[s] # NoTxn /\ s # r => txn[s].win # w
  BY Retiring, OpenTxn DEF CommitRetire, QInv, LockInv
<1>1. /\ winState' = [winState EXCEPT ![w] = to]
      /\ jobState' = [jobState EXCEPT ![JobOf[w]] = IF close = "none" THEN @ ELSE close]
      /\ txn' = [txn EXCEPT ![r] = NoTxn]
      /\ held' = [held EXCEPT ![r] = @ \ {w}]
      /\ UNCHANGED <<attempts, overdue, pausing, takenOver>>
  BY DEF CommitRetire
<1> HIDE DEF w, to, close
<1>2. TypeOK'
  BY <1>0, <1>1 DEF QInv, TypeOK
<1>3. TxnInv'
  BY <1>0, <1>1 DEF QInv, TypeOK, TxnInv
<1>4. PauseInv'
  BY <1>0, <1>1 DEF QInv, TypeOK, PauseInv
<1>5. AttemptInv'
  BY <1>0, <1>1 DEF QInv, TypeOK, AttemptInv
<1>6. LeaseExclusive'
  BY <1>0, <1>1 DEF QInv, TypeOK, LeaseExclusive
<1>7. LockInv'
  BY <1>1 DEF QInv, TypeOK, LockInv
<1>8. ClaimInv'
  <2> SUFFICES ASSUME NEW s \in Workers, txn'[s].to = "running"
               PROVE  /\ winState'[txn'[s].win] = "pending"
                      /\ attempts'[txn'[s].win] < MaxAttempts
                      /\ txn'[s].close = "none"
    BY DEF ClaimInv
  <2>1. s # r /\ txn'[s] = txn[s]
    BY <1>1 DEF QInv, TypeOK, NoTxn
  <2>2. /\ txn[s].win # w /\ txn[s].win \in Windows
        /\ winState[txn[s].win] = "pending" /\ txn[s].close = "none"
    BY <1>0, <2>1, Claiming
  <2> QED
    BY <1>1, <2>1, <2>2 DEF QInv, TypeOK, ClaimInv
<1> QED
  BY <1>2, <1>3, <1>4, <1>5, <1>6, <1>7, <1>8 DEF QInv

LEMMA FailRetryQInv ==
  ASSUME QInv, NEW r \in Workers, NEW w \in Windows, FailRetry(r, w)
  PROVE  QInv'
<1>1. TypeOK'
  BY DEF QInv, TypeOK, WindowStates, Open, FailRetry
<1>2. TxnInv'
  BY DEF QInv, TxnInv, FailRetry, Locked
<1>3. PauseInv'
  BY DEF QInv, PauseInv, FailRetry, Locked
<1>4. AttemptInv'
  BY DEF QInv, AttemptInv, FailRetry
<1>5. LeaseExclusive'
  BY DEF QInv, TypeOK, LeaseExclusive, FailRetry
<1>6. LockInv'
  BY DEF QInv, TypeOK, LockInv, FailRetry
<1>7. ClaimInv'
  BY DEF QInv, TypeOK, ClaimInv, FailRetry, Locked
<1> QED
  BY <1>1, <1>2, <1>3, <1>4, <1>5, <1>6, <1>7 DEF QInv

LEMMA ReleaseQInv ==
  ASSUME QInv, NEW r \in Workers, NEW w \in Windows, Release(r, w)
  PROVE  QInv'
<1>1. TypeOK'
  BY QueueAssumption DEF QInv, TypeOK, AttemptInv, WindowStates, Open, Release
<1>2. TxnInv'
  BY DEF QInv, TxnInv, Release, Locked
<1>3. PauseInv'
  BY DEF QInv, TypeOK, PauseInv, Release, Locked
<1>4. AttemptInv'
  BY DEF QInv, TypeOK, AttemptInv, Release
<1>5. LeaseExclusive'
  BY DEF QInv, TypeOK, LeaseExclusive, Release
<1>6. LockInv'
  BY DEF QInv, TypeOK, LockInv, Release
<1>7. ClaimInv'
  <2> SUFFICES ASSUME NEW s \in Workers, txn[s].to = "running"
               PROVE  /\ winState'[txn[s].win] = "pending"
                      /\ attempts'[txn[s].win] < MaxAttempts
                      /\ txn[s].close = "none"
    BY DEF ClaimInv, Release
  <2>1. /\ txn[s].win \in Windows /\ winState[txn[s].win] = "pending"
        /\ Locked(txn[s].win) /\ txn[s].close = "none"
        /\ attempts[txn[s].win] < MaxAttempts
    BY Claiming DEF QInv, ClaimInv
  <2> QED
    BY <2>1 DEF QInv, TypeOK, Release
<1> QED
  BY <1>1, <1>2, <1>3, <1>4, <1>5, <1>6, <1>7 DEF QInv

LEMMA CrashQInv ==
  ASSUME QInv, NEW r \in Workers, Crash(r)
  PROVE  QInv'
<1>1. TypeOK'
  BY DEF QInv, TypeOK, Crash, NoPause
<1>2. TxnInv'
  BY DEF QInv, TypeOK, TxnInv, Crash, NoPause
<1>3. PauseInv'
  BY DEF QInv, PauseInv, Crash, NoPause
<1>4. AttemptInv'
  BY DEF QInv, AttemptInv, Crash
<1>5. LeaseExclusive'
  BY DEF QInv, LeaseExclusive, Crash
<1>6. LockInv'
  BY DEF QInv, TypeOK, LockInv, Crash
<1>7. ClaimInv'
  BY DEF QInv, TypeOK, ClaimInv, Crash, NoTxn
<1> QED
  BY <1>1, <1>2, <1>3, <1>4, <1>5, <1>6, <1>7 DEF QInv

LEMMA ReclaimQInv ==
  ASSUME QInv, Reclaim
  PROVE  QInv'
<1>1. TypeOK'
  BY DEF QInv, TypeOK, WindowStates, Open, Reclaim, Returned, TakeOver,
    Holders
<1>2. TxnInv'
  BY DEF QInv, TxnInv, Reclaim
<1>3. PauseInv'
  BY DEF QInv, TypeOK, PauseInv, Reclaim, Stale, Returned, Locked
<1>4. AttemptInv'
  BY DEF QInv, AttemptInv, Reclaim, Returned
<1>5. LeaseExclusive'
  BY DEF QInv, LeaseExclusive, Reclaim, Returned, TakeOver, Holders
<1>6. LockInv'
  BY DEF QInv, TypeOK, LockInv, Reclaim
<1>7. ClaimInv'
  <2> SUFFICES ASSUME NEW s \in Workers, txn[s].to = "running"
               PROVE  /\ winState'[txn[s].win] = "pending"
                      /\ attempts'[txn[s].win] < MaxAttempts
                      /\ txn[s].close = "none"
    BY DEF ClaimInv, Reclaim
  <2>1. /\ txn[s].win \in Windows /\ winState[txn[s].win] = "pending"
        /\ Locked(txn[s].win) /\ txn[s].close = "none"
        /\ attempts[txn[s].win] < MaxAttempts
    BY Claiming DEF QInv, ClaimInv
  <2> QED
    BY <2>1 DEF QInv, TypeOK, Reclaim, Stale, Returned
<1> QED
  BY <1>1, <1>2, <1>3, <1>4, <1>5, <1>6, <1>7 DEF QInv

LEMMA BeginPauseQInv ==
  ASSUME QInv, NEW r \in Workers, BeginPause(r)
  PROVE  QInv'
<1>1. TypeOK'
  BY DEF QInv, TypeOK, BeginPause, Running
<1>2. TxnInv'
  BY DEF QInv, TxnInv, BeginPause, Locked
<1>3. PauseInv'
  BY DEF PauseInv, BeginPause, Running
<1>4. AttemptInv'
  BY DEF QInv, AttemptInv, BeginPause
<1>5. LeaseExclusive'
  BY DEF QInv, LeaseExclusive, BeginPause
<1>6. LockInv'
  BY DEF QInv, TypeOK, LockInv, BeginPause
<1>7. ClaimInv'
  BY DEF QInv, TypeOK, ClaimInv, BeginPause
<1> QED
  BY <1>1, <1>2, <1>3, <1>4, <1>5, <1>6, <1>7 DEF QInv

LEMMA CommitPauseQInv ==
  ASSUME QInv, NEW r \in Workers, CommitPause(r)
  PROVE  QInv'
<1>1. TypeOK'
  BY DEF QInv, TypeOK, JobStates, WindowStates, Open, CommitPause, Returned,
    TakeOver, NoPause
<1>2. TxnInv'
  BY DEF QInv, TxnInv, CommitPause, NoPause
<1>3. PauseInv'
  BY DEF PauseInv, CommitPause, NoPause
<1>4. AttemptInv'
  BY DEF QInv, AttemptInv, CommitPause, Returned
<1>5. LeaseExclusive'
  BY DEF QInv, LeaseExclusive, CommitPause, Returned, TakeOver, Holders
<1>6. LockInv'
  BY DEF QInv, TypeOK, LockInv, CommitPause
<1>7. ClaimInv'
  <2> SUFFICES ASSUME NEW s \in Workers, txn[s].to = "running"
               PROVE  /\ winState'[txn[s].win] = "pending"
                      /\ attempts'[txn[s].win] < MaxAttempts
                      /\ txn[s].close = "none"
    BY DEF ClaimInv, CommitPause
  <2>1. /\ txn[s].win \in Windows /\ winState[txn[s].win] = "pending"
        /\ Locked(txn[s].win) /\ txn[s].close = "none"
        /\ attempts[txn[s].win] < MaxAttempts
    BY Claiming DEF QInv, ClaimInv
  <2> QED
    BY <2>1 DEF QInv, TypeOK, CommitPause, Returned
<1> QED
  BY <1>1, <1>2, <1>3, <1>4, <1>5, <1>6, <1>7 DEF QInv

LEMMA ResumeAllQInv ==
  ASSUME QInv, ResumeAll
  PROVE  QInv'
<1>1. TypeOK'
  BY DEF QInv, TypeOK, JobStates, ResumeAll
<1>2. TxnInv'
  BY DEF QInv, TxnInv, ResumeAll
<1>3. PauseInv'
  BY DEF QInv, PauseInv, ResumeAll
<1>4. AttemptInv'
  BY DEF QInv, AttemptInv, ResumeAll
<1>5. LeaseExclusive'
  BY DEF QInv, LeaseExclusive, ResumeAll
<1>6. LockInv'
  BY DEF QInv, TypeOK, LockInv, ResumeAll
<1>7. ClaimInv'
  BY DEF QInv, TypeOK, ClaimInv, ResumeAll
<1> QED
  BY <1>1, <1>2, <1>3, <1>4, <1>5, <1>6, <1>7 DEF QInv

LEMMA LeaseExpiresQInv ==
  ASSUME QInv, NEW w \in Windows, LeaseExpires(w)
  PROVE  QInv'
<1>1. TypeOK'
  BY DEF QInv, TypeOK, LeaseExpires
<1>2. TxnInv'
  BY DEF QInv, TxnInv, LeaseExpires
<1>3. PauseInv'
  BY DEF QInv, PauseInv, LeaseExpires
<1>4. AttemptInv'
  BY DEF QInv, AttemptInv, LeaseExpires
<1>5. LeaseExclusive'
  BY DEF QInv, LeaseExclusive, LeaseExpires
<1>6. LockInv'
  BY DEF QInv, TypeOK, LockInv, LeaseExpires
<1>7. ClaimInv'
  BY DEF QInv, TypeOK, ClaimInv, LeaseExpires
<1> QED
  BY <1>1, <1>2, <1>3, <1>4, <1>5, <1>6, <1>7 DEF QInv

----------------------------------------------------------------------------
LEMMA StepQInv == QInv /\ [Next]_vars => QInv'
<1> SUFFICES ASSUME QInv, [Next]_vars PROVE QInv'
  OBVIOUS
<1>1. ASSUME NEW j \in Jobs, NEW ws \in Batches[j], Enqueue(j, ws) PROVE QInv'
  BY <1>1, EnqueueQInv
<1>2. ASSUME NEW r \in Workers, WorkerStep(r) PROVE QInv'
  <2>1. ASSUME NEW w \in Windows, NEW to \in Terminal, BeginRetire(r, w, to)
        PROVE QInv'
    BY <2>1, BeginRetireQInv
  <2>2. ASSUME NEW w \in Windows,
               BeginComplete(r, w) \/ BeginReject(r, w) \/ BeginExhaust(r, w)
        PROVE QInv'
    BY <2>1, <2>2 DEF BeginComplete, BeginReject, BeginExhaust, Terminal
  <2> QED
    BY <1>2, <2>2, BeginClaimQInv, CommitClaimQInv, FailRetryQInv, ReleaseQInv,
      CommitRetireQInv, BeginPauseQInv, CommitPauseQInv, CrashQInv DEF WorkerStep
<1>3. ASSUME NEW w \in Windows, LeaseExpires(w) PROVE QInv'
  BY <1>3, LeaseExpiresQInv
<1>4. CASE UNCHANGED vars
  BY <1>4 DEF QInv, TypeOK, TxnInv, LockInv, ClaimInv, PauseInv, AttemptInv,
    LeaseExclusive
<1> QED
  BY <1>1, <1>2, <1>3, <1>4, ReclaimQInv, ResumeAllQInv DEF Next

LEMMA QueueInvariant == Spec => []QInv
BY InitQInv, StepQInv, PTL DEF Spec

(* Every variable of the queue keeps its type; the attempts counter stays  *)
(* between zero and max_attempts under every interleaving of claims,       *)
(* refunds (release_window) and reclaims.                                  *)
THEOREM TypeCorrect == Spec => []TypeOK
<1>1. QInv => TypeOK
  BY DEF QInv
<1> QED
  BY <1>1, QueueInvariant, PTL

(* claim_next_window hands a window to one worker only, and its row says   *)
(* running, unless reclaim_stale_leases or pause_all_for_auth took it from *)
(* a worker that still held it.                                            *)
THEOREM LeaseIsExclusive == Spec => []LeaseExclusive
<1>1. QInv => LeaseExclusive
  BY DEF QInv
<1> QED
  BY <1>1, QueueInvariant, PTL

----------------------------------------------------------------------------
\* A terminal window that was not taken over is held by nobody.
LEMMA TerminalIsFree ==
  ASSUME QInv, NEW w \in Windows, w \notin takenOver, winState[w] \in Terminal
  PROVE  \A r \in Workers : w \notin held[r]
BY DEF QInv, LeaseExclusive, Terminal

LEMMA StepTerminal ==
  ASSUME QInv, [Next]_vars, NEW w \in Windows, w \notin takenOver',
         winState[w] \in Terminal
  PROVE  winState'[w] = winState[w]
<1>1. w \notin takenOver
  BY DEF Next, WorkerStep, Enqueue, BeginClaim, CommitClaim, BeginRetire, BeginComplete,
    BeginReject, BeginExhaust, CommitRetire, FailRetry, Release, Crash, Reclaim,
    BeginPause, CommitPause, ResumeAll, LeaseExpires, TakeOver
<1>2. \A r \in Workers : w \notin held[r]
  BY <1>1, TerminalIsFree
<1>3. ASSUME NEW j \in Jobs, NEW ws \in Batches[j], Enqueue(j, ws)
      PROVE winState'[w] = winState[w]
  BY <1>3 DEF Enqueue, Terminal
<1>4. ASSUME NEW r \in Workers, WorkerStep(r)
      PROVE winState'[w] = winState[w]
  <2>1. CASE CommitClaim(r)
    BY <2>1 DEF QInv, TypeOK, ClaimInv, CommitClaim, Terminal
  <2>2. CASE CommitRetire(r)
    BY <1>2, <2>2, Retiring DEF QInv, TypeOK, CommitRetire
  <2>3. ASSUME NEW v \in Windows, FailRetry(r, v) \/ Release(r, v)
        PROVE winState'[w] = winState[w]
    BY <1>2, <2>3 DEF QInv, TypeOK, FailRetry, Release
  <2>4. CASE CommitPause(r)
    BY <2>4 DEF QInv, PauseInv, CommitPause, Returned, Terminal
  <2> QED
    BY <1>4, <2>1, <2>2, <2>3, <2>4 DEF WorkerStep, BeginComplete, BeginReject,
      BeginExhaust, BeginRetire, BeginClaim, BeginPause, Crash
<1>5. CASE Reclaim
  BY <1>5 DEF Reclaim, Returned, Stale, Running, Terminal
<1> QED
  BY <1>3, <1>4, <1>5 DEF Next, ResumeAll, LeaseExpires

(* What complete_window and fail_window settled stays settled: unless a    *)
(* window was taken over, no worker re-opens or rewrites a terminal one.   *)
THEOREM TerminalIsStable == Spec => TerminalStable
<1>1. QInv /\ [Next]_vars =>
        [\A w \in Windows \ takenOver' :
           winState[w] \in Terminal => winState'[w] = winState[w]]_vars
  BY StepTerminal
<1> QED
  BY <1>1, QueueInvariant, PTL DEF Spec, TerminalStable

----------------------------------------------------------------------------
(***************************************************************************)
(* The verdict on a job.  _settle_job_if_finished counts the windows of a  *)
(* job as they are committed, so it is right only when no window appears   *)
(* afterwards: the theorem is about jobs whose windows are enqueued        *)
(* together.                                                               *)
(***************************************************************************)
WholeBatches == \A j \in Jobs : Batches[j] \subseteq {WindowsOf(j)}

(* The windows of a job exist exactly when the job does, and a worker      *)
(* only holds windows that exist.                                          *)
TogetherInv ==
  /\ \A w \in Windows : winState[w] = "absent" <=> jobState[JobOf[w]] = "absent"
  /\ \A r \in Workers : \A w \in held[r] : winState[w] # "absent"

(* No window of the job was taken from a worker that still held it.        *)
Undisturbed(j) == \A w \in Windows : JobOf[w] = j => w \notin takenOver

Failed(w) == winState[w] = "failed"

(* A transaction that is going to close a job saw its siblings finished,   *)
(* and they still are: what it decided is still the verdict.               *)
VerdictStands(r) ==
  LET w == txn[r].win
  IN  /\ \A v \in SiblingsOf(w) : winState[v] \notin Open
      /\ txn[r].close = "failed" <=>
           txn[r].to = "failed" \/ \E v \in SiblingsOf(w) : Failed(v)

ClosingInv ==
  \A r \in Workers :
    txn[r] # NoTxn /\ txn[r].close # "none" /\ Undisturbed(JobOf[txn[r].win])
      => VerdictStands(r)

ClosedInv ==
  \A j \in Jobs :
    jobState[j] \in {"done", "failed"} /\ Undisturbed(j) =>
      /\ \A w \in WindowsOf(j) : winState[w] \notin Open
      /\ jobState[j] = "failed" <=> \E w \in WindowsOf(j) : Failed(w)

JInv == TogetherInv /\ ClosingInv /\ ClosedInv

----------------------------------------------------------------------------
LEMMA InitJInv == Init => JInv
BY ConstantTypes DEF Init, JInv, TogetherInv, ClosingInv, ClosedInv

\* A transaction that closes a job retires a window its worker holds.
LEMMA Closing ==
  ASSUME QInv, NEW r \in Workers, txn[r] # NoTxn, txn[r].close # "none"
  PROVE  txn[r].win \in held[r] /\ txn[r].win \in Windows
BY OpenTxn, Claiming, Retiring

(* A window that is held, and was not taken over, is running: its job is   *)
(* not closed, and nobody else's transaction is closing it.                *)
LEMMA HeldIsOpen ==
  ASSUME QInv, JInv, NEW r \in Workers, NEW w \in held[r], Undisturbed(JobOf[w])
  PROVE  /\ w \in Windows /\ winState[w] = "running"
         /\ jobState[JobOf[w]] \notin {"done", "failed"}
         /\ \A s \in Workers :
              txn[s] # NoTxn /\ JobOf[txn[s].win] = JobOf[w] /\ txn[s].win # w
                => txn[s].close = "none"
<1>1. w \in Windows /\ w \notin takenOver
  BY DEF QInv, TypeOK, Undisturbed
<1>2. winState[w] = "running"
  BY <1>1 DEF QInv, LeaseExclusive
<1>3. jobState[JobOf[w]] \notin {"done", "failed"}
  BY <1>1, <1>2, ConstantTypes DEF JInv, ClosedInv, WindowsOf, Open
<1>4. ASSUME NEW s \in Workers, txn[s] # NoTxn, JobOf[txn[s].win] = JobOf[w],
             txn[s].win # w, txn[s].close # "none"
      PROVE  FALSE
  <2>1. VerdictStands(s)
    BY <1>4 DEF JInv, ClosingInv
  <2>2. w \in SiblingsOf(txn[s].win)
    BY <1>1, <1>4 DEF SiblingsOf
  <2> QED
    BY <1>2, <2>1, <2>2 DEF VerdictStands, Open
<1> QED
  BY <1>1, <1>2, <1>3, <1>4

LEMMA EnqueueJInv ==
  ASSUME WholeBatches, QInv, JInv, NEW j \in Jobs, NEW ws \in Batches[j], Enqueue(j, ws)
  PROVE  JInv'
<1>1. ws = WindowsOf(j)
  BY DEF WholeBatches
<1>2. jobState[j] = "absent" /\ \A w \in WindowsOf(j) : winState[w] = "absent"
  BY <1>1 DEF JInv, TogetherInv, Enqueue, WindowsOf
<1>3. /\ jobState' = [jobState EXCEPT ![j] = "pending"]
      /\ winState' = [w \in Windows |-> IF JobOf[w] = j THEN "pending" ELSE winState[w]]
      /\ UNCHANGED <<txn, held, takenOver>>
  BY <1>1, <1>2 DEF Enqueue, WindowsOf
<1>4. TogetherInv'
  BY <1>3, ConstantTypes DEF QInv, TypeOK, JInv, TogetherInv
<1>5. ClosingInv'
  <2> SUFFICES ASSUME NEW r \in Workers, txn[r] # NoTxn, txn[r].close # "none",
                      Undisturbed(JobOf[txn[r].win])
               PROVE  VerdictStands(r)'
    BY <1>3 DEF ClosingInv, Undisturbed
  <2>1. VerdictStands(r)
    BY DEF JInv, ClosingInv
  <2>2. txn[r].win \in held[r] /\ txn[r].win \in Windows
    BY Closing
  <2>3. JobOf[txn[r].win] # j
    BY <1>2, <2>2 DEF JInv, TogetherInv, WindowsOf
  <2> QED
    BY <1>3, <2>1, <2>3 DEF VerdictStands, SiblingsOf, Failed
<1>6. ClosedInv'
  <2> SUFFICES ASSUME NEW k \in Jobs, jobState'[k] \in {"done", "failed"}, Undisturbed(k)
               PROVE  /\ \A w \in WindowsOf(k) : winState'[w] \notin Open
                      /\ jobState'[k] = "failed" <=>
                           \E w \in WindowsOf(k) : winState'[w] = "failed"
    BY <1>3 DEF ClosedInv, Undisturbed, WindowsOf, Failed
  <2>1. k # j
    BY <1>3 DEF QInv, TypeOK
  <2> QED
    BY <1>3, <2>1 DEF QInv, TypeOK, JInv, ClosedInv, WindowsOf, Failed
<1> QED
  BY <1>4, <1>5, <1>6 DEF JInv

(* Steps that only move windows between pending and running, or move ones  *)
(* that were taken over, and neither close a job nor open a transaction.   *)
LEMMA OpenMovesJInv ==
  ASSUME QInv, JInv,
         takenOver \subseteq takenOver',
         \A w \in Windows :
           \/ winState'[w] = winState[w]
           \/ /\ winState[w] # "absent" /\ winState'[w] \in Open
              /\ (winState[w] \in Open \/ w \in takenOver),
         \A j \in Jobs :
           \/ jobState'[j] = jobState[j]
           \/ {jobState[j], jobState'[j]} \subseteq {"pending", "running", "paused_auth"},
         \A r \in Workers : txn'[r] \in {txn[r], NoTxn},
         \A r \in Workers : \A w \in held'[r] :
           \/ w \in held[r]
           \/ w \in Windows /\ winState'[w] = "running"
  PROVE  JInv'
<1>1. TogetherInv'
  <2>1. \A w \in Windows : winState'[w] = "absent" <=> winState[w] = "absent"
    BY DEF Open
  <2>2. \A j \in Jobs : jobState'[j] = "absent" <=> jobState[j] = "absent"
    OBVIOUS
  <2> QED
    BY <2>1, <2>2, ConstantTypes DEF QInv, TypeOK, JInv, TogetherInv
<1>2. \A j \in Jobs : Undisturbed(j)' => Undisturbed(j)
  BY DEF Undisturbed
<1>3. \A w \in Windows :
        winState[w] \notin Open /\ w \notin takenOver => winState'[w] = winState[w]
  OBVIOUS
<1>4. ClosingInv'
  <2> SUFFICES ASSUME NEW r \in Workers, txn'[r] # NoTxn, txn'[r].close # "none",
                      \A w \in Windows :
                        JobOf[w] = JobOf[txn'[r].win] => w \notin takenOver'
               PROVE  VerdictStands(r)'
    BY DEF ClosingInv, Undisturbed, VerdictStands, Failed
  <2>1. txn'[r] = txn[r]
    OBVIOUS
  <2>2. txn[r].win \in Windows /\ JobOf[txn[r].win] \in Jobs
    BY <2>1, OpenTxn, ConstantTypes
  <2>3. Undisturbed(JobOf[txn[r].win])
    BY <2>1 DEF Undisturbed
  <2>4. VerdictStands(r)
    BY <2>1, <2>3 DEF JInv, ClosingInv
  <2>5. \A v \in SiblingsOf(txn[r].win) : winState'[v] = winState[v]
    BY <1>3, <2>3, <2>4 DEF VerdictStands, SiblingsOf, Undisturbed
  <2> QED
    BY <2>1, <2>4, <2>5 DEF VerdictStands, SiblingsOf, Failed
<1>5. ClosedInv'
  <2> SUFFICES ASSUME NEW j \in Jobs, jobState'[j] \in {"done", "failed"}, Undisturbed(j)'
               PROVE  /\ \A w \in WindowsOf(j) : winState'[w] \notin Open
                      /\ jobState'[j] = "failed" <=>
                           \E w \in WindowsOf(j) : winState'[w] = "failed"
    BY DEF ClosedInv, WindowsOf, Failed
  <2>1. jobState[j] = jobState'[j] /\ Undisturbed(j)
    BY <1>2
  <2>2. \A w \in WindowsOf(j) : winState[w] \notin Open /\ winState'[w] = winState[w]
    BY <1>3, <2>1 DEF JInv, ClosedInv, WindowsOf, Undisturbed
  <2> QED
    BY <2>1, <2>2 DEF JInv, ClosedInv, Failed
<1> QED
  BY <1>1, <1>4, <1>5 DEF JInv

(* A window a worker holds is open, or it was taken over.                  *)
LEMMA HeldState ==
  ASSUME QInv, JInv, NEW r \in Workers, NEW w \in held[r]
  PROVE  /\ w \in Windows /\ winState[w] # "absent"
         /\ (winState[w] \in Open \/ w \in takenOver)
BY DEF QInv, TypeOK, LeaseExclusive, JInv, TogetherInv, Open

LEMMA CommitClaimJInv ==
  ASSUME QInv, JInv, NEW r \in Workers, CommitClaim(r)
  PROVE  JInv'
<1> DEFINE w == txn[r].win
<1>1. w \in Windows /\ winState[w] = "pending" /\ JobOf[w] \in Jobs
  BY Claiming, ConstantTypes DEF CommitClaim
<1>2. /\ txn' = [txn EXCEPT ![r] = NoTxn]
      /\ winState' = [winState EXCEPT ![w] = "running"]
      /\ jobState' = [jobState EXCEPT ![JobOf[w]] =
                        IF @ = "pending" THEN "running" ELSE @]
      /\ held' = [held EXCEPT ![r] = @ \cup {w}]
      /\ UNCHANGED takenOver
  BY DEF CommitClaim
<1> HIDE DEF w
<1>3. \A j \in Jobs :
        \/ jobState'[j] = jobState[j]
        \/ {jobState[j], jobState'[j]} \subseteq {"pending", "running", "paused_auth"}
  BY <1>1, <1>2 DEF QInv, TypeOK
<1>4. \A v \in Windows :
        \/ winState'[v] = winState[v]
        \/ winState[v] = "pending" /\ winState'[v] = "running"
  BY <1>1, <1>2 DEF QInv, TypeOK
<1>5. \A s \in Workers : \A v \in held'[s] :
        v \in held[s] \/ (v \in Windows /\ winState'[v] = "running")
  <2> SUFFICES ASSUME NEW s \in Workers, NEW v \in held'[s], v \notin held[s]
               PROVE  v \in Windows /\ winState'[v] = "running"
    OBVIOUS
  <2>1. v = w
    BY <1>2 DEF QInv, TypeOK
  <2> QED
    BY <1>1, <1>2, <2>1 DEF QInv, TypeOK
<1>6. \A s \in Workers : txn'[s] \in {txn[s], NoTxn}
  BY <1>2 DEF QInv, TypeOK
<1> QED
  BY <1>2, <1>3, <1>4, <1>5, <1>6, OpenMovesJInv DEF Open

(* The SELECT of a claim opens a transaction that closes no job.           *)
LEMMA BeginClaimJInv ==
  ASSUME QInv, JInv, NEW r \in Workers, NEW w \in Windows, BeginClaim(r, w)
  PROVE  JInv'
<1>1. TogetherInv' /\ ClosedInv'
  BY DEF BeginClaim, JInv, TogetherInv, ClosedInv, Undisturbed, Failed
<1>2. ClosingInv'
  <2> SUFFICES ASSUME NEW s \in Workers, txn'[s] # NoTxn, txn'[s].close # "none",
                      Undisturbed(JobOf[txn'[s].win])
               PROVE  VerdictStands(s)'
    BY DEF BeginClaim, ClosingInv, Undisturbed
  <2>1. txn'[s] = txn[s]
    BY DEF BeginClaim, QInv, TypeOK
  <2>2. VerdictStands(s)
    BY <2>1 DEF JInv, ClosingInv
  <2> QED
    BY <2>1, <2>2 DEF BeginClaim, VerdictStands, SiblingsOf, Failed
<1> QED
  BY <1>1, <1>2 DEF JInv

LEMMA GiveBackJInv ==
  ASSUME QInv, JInv, NEW r \in Workers, NEW w \in Windows,
         FailRetry(r, w) \/ Release(r, w)
  PROVE  JInv'
<1>1. w \in held[r]
  BY DEF FailRetry, Release
<1>2. winState[w] # "absent" /\ (winState[w] \in Open \/ w \in takenOver)
  BY <1>1, HeldState
<1>3. \A v \in Windows :
        winState'[v] = winState[v] \/ (v = w /\ winState'[v] = "pending")
  BY DEF FailRetry, Release, QInv, TypeOK
<1>4. /\ UNCHANGED <<jobState, txn, takenOver>>
      /\ \A s \in Workers : held'[s] \subseteq held[s]
  BY DEF FailRetry, Release, QInv, TypeOK
<1> QED
  BY <1>2, <1>3, <1>4, OpenMovesJInv DEF Open

LEMMA TakeBackJInv ==
  ASSUME QInv, JInv, Reclaim \/ \E r \in Workers : CommitPause(r)
  PROVE  JInv'
<1>1. \A w \in Windows :
        \/ winState'[w] = winState[w]
        \/ winState[w] = "running" /\ winState'[w] = "pending"
  BY DEF Reclaim, CommitPause, Returned, Stale, Running, QInv, PauseInv
<1>2. /\ UNCHANGED <<txn, held>> /\ takenOver \subseteq takenOver'
      /\ \A j \in Jobs :
           \/ jobState'[j] = jobState[j]
           \/ {jobState[j], jobState'[j]} \subseteq {"pending", "running", "paused_auth"}
  BY DEF Reclaim, CommitPause, TakeOver
<1> QED
  BY <1>1, <1>2, OpenMovesJInv DEF Open

LEMMA QuietJInv ==
  ASSUME QInv, JInv,
         \/ \E r \in Workers : BeginPause(r) \/ Crash(r)
         \/ ResumeAll
         \/ \E w \in Windows : LeaseExpires(w)
         \/ UNCHANGED vars
  PROVE  JInv'
<1>1. /\ UNCHANGED <<winState, takenOver>>
      /\ \A r \in Workers : held'[r] \subseteq held[r]
      /\ \A r \in Workers : txn'[r] \in {txn[r], NoTxn}
      /\ \A j \in Jobs :
           \/ jobState'[j] = jobState[j]
           \/ {jobState[j], jobState'[j]} \subseteq {"pending", "running", "paused_auth"}
  BY DEF BeginPause, Crash, ResumeAll, LeaseExpires, QInv, TypeOK
<1> QED
  BY <1>1, OpenMovesJInv

----------------------------------------------------------------------------
(* The verdict is right when it is taken ...                               *)
LEMMA BeginRetireJInv ==
  ASSUME QInv, JInv, NEW r \in Workers, NEW w \in Windows, NEW to \in Terminal,
         BeginRetire(r, w, to)
  PROVE  JInv'
<1> USE DEF BeginRetire
<1>1. txn' = [txn EXCEPT ![r] = [win |-> w, to |-> to, close |-> Verdict(w, to)]]
  OBVIOUS
<1>2. TogetherInv' /\ ClosedInv'
  BY DEF JInv, TogetherInv, ClosedInv, Undisturbed, Failed
<1>3. ClosingInv'
  <2> SUFFICES ASSUME NEW s \in Workers, txn'[s] # NoTxn, txn'[s].close # "none",
                      Undisturbed(JobOf[txn'[s].win])
               PROVE  VerdictStands(s)'
    BY DEF ClosingInv, Undisturbed
  <2>1. CASE s = r
    <3>1. /\ txn'[s].win = w /\ txn'[s].to = to /\ txn'[s].close = Verdict(w, to)
      BY <1>1, <2>1 DEF QInv, TypeOK
    <3>2. \A v \in SiblingsOf(w) : winState[v] \notin Open
      BY <3>1 DEF Verdict
    <3>3. Verdict(w, to) = "failed" <=>
            to = "failed" \/ \E v \in SiblingsOf(w) : Failed(v)
      BY <3>2 DEF Verdict, Failed
    <3> QED
      BY <3>1, <3>2, <3>3 DEF VerdictStands, SiblingsOf, Failed
  <2>2. CASE s # r
    <3>1. txn'[s] = txn[s]
      BY <1>1, <2>2 DEF QInv, TypeOK
    <3>2. VerdictStands(s)
      BY <3>1 DEF JInv, ClosingInv
    <3> QED
      BY <3>1, <3>2 DEF VerdictStands, SiblingsOf, Failed
  <2> QED
    BY <2>1, <2>2
<1> QED
  BY <1>2, <1>3 DEF JInv

(* ... and still right when it is committed.                               *)
LEMMA CommitRetireJInv ==
  ASSUME QInv, JInv, NEW r \in Workers, CommitRetire(r)
  PROVE  JInv'
<1> DEFINE w == txn[r].win
           to == txn[r].to
           close == txn[r].close
<1>1. /\ w \in Windows /\ w \in held[r] /\ JobOf[w] \in Jobs /\ txn[r] # NoTxn
      /\ to \in Terminal /\ close \in {"none", "done", "failed"}
  BY Retiring, OpenTxn, ConstantTypes DEF CommitRetire
<1>2. /\ winState' = [winState EXCEPT ![w] = to]
      /\ jobState' = [jobState EXCEPT ![JobOf[w]] = IF close = "none" THEN @ ELSE close]
      /\ txn' = [txn EXCEPT ![r] = NoTxn]
      /\ held' = [held EXCEPT ![r] = @ \ {w}]
      /\ UNCHANGED takenOver
  BY DEF CommitRetire
<1>3. winState[w] # "absent"
  BY <1>1, HeldState
<1> HIDE DEF w, to, close
<1>4. TogetherInv'
  BY <1>1, <1>2, <1>3, ConstantTypes DEF QInv, TypeOK, JInv, TogetherInv, Terminal
<1>5. ClosingInv'
  <2> SUFFICES ASSUME NEW s \in Workers, txn'[s] # NoTxn, txn'[s].close # "none",
                      Undisturbed(JobOf[txn'[s].win])
               PROVE  VerdictStands(s)'
    BY <1>2 DEF ClosingInv, Undisturbed
  <2>1. txn'[s] = txn[s] /\ s # r
    BY <1>2 DEF QInv, TypeOK
  <2>2. /\ VerdictStands(s)
        /\ txn[s].win \in Windows /\ txn[s].win \in held[s]
    BY <2>1, Closing DEF JInv, ClosingInv
  <2>3. JobOf[txn[s].win] # JobOf[w]
    <3> SUFFICES ASSUME JobOf[txn[s].win] = JobOf[w] PROVE FALSE
      OBVIOUS
    <3>1. txn[s].win # w
      BY <1>1, <2>1, <2>2 DEF QInv, LeaseExclusive, Undisturbed
    <3> QED
      BY <1>1, <2>1, <3>1, HeldIsOpen
  <2> QED
    BY <1>2, <2>1, <2>2, <2>3 DEF VerdictStands, SiblingsOf, Failed
<1>6. ClosedInv'
  <2> SUFFICES ASSUME NEW j \in Jobs, jobState'[j] \in {"done", "failed"}, Undisturbed(j)
               PROVE  /\ \A v \in WindowsOf(j) : winState'[v] \notin Open
                      /\ jobState'[j] = "failed" <=>
                           \E v \in WindowsOf(j) : winState'[v] = "failed"
    BY <1>2 DEF ClosedInv, Undisturbed, WindowsOf, Failed
  <2>1. CASE j # JobOf[w]
    BY <1>2, <2>1 DEF QInv, TypeOK, JInv, ClosedInv, WindowsOf, Failed
  <2>2. CASE j = JobOf[w]
    <3>1. jobState[j] \notin {"done", "failed"}
      BY <1>1, <2>2, HeldIsOpen
    <3>2. close # "none" /\ jobState'[j] = close
      BY <1>1, <1>2, <2>2, <3>1 DEF QInv, TypeOK
    <3>3. /\ \A v \in SiblingsOf(w) : winState[v] \notin Open
          /\ close = "failed" <=> to = "failed" \/ \E v \in SiblingsOf(w) : Failed(v)
      BY <1>1, <2>2, <3>2 DEF JInv, ClosingInv, VerdictStands, w, to, close
    <3>4. WindowsOf(j) = SiblingsOf(w) \cup {w} /\ w \notin SiblingsOf(w)
      BY <1>1, <2>2 DEF WindowsOf, SiblingsOf
    <3>5. /\ winState'[w] = to
          /\ \A v \in SiblingsOf(w) : winState'[v] = winState[v]
      BY <1>1, <1>2, <3>4 DEF QInv, TypeOK, SiblingsOf
    <3> QED
      BY <1>1, <3>2, <3>3, <3>4, <3>5 DEF Terminal, Open, Failed
  <2> QED
    BY <2>1, <2>2
<1> QED
  BY <1>4, <1>5, <1>6 DEF JInv

----------------------------------------------------------------------------
LEMMA NextJInv ==
  ASSUME WholeBatches, QInv, JInv, [Next]_vars
  PROVE  JInv'
<1>1. ASSUME NEW r \in Workers, WorkerStep(r)
      PROVE  JInv'
  <2>1. ASSUME NEW w \in Windows,
               BeginComplete(r, w) \/ BeginReject(r, w) \/ BeginExhaust(r, w)
        PROVE  JInv'
    BY <2>1, BeginRetireJInv DEF BeginComplete, BeginReject, BeginExhaust, Terminal
  <2> QED
    BY <1>1, <2>1, BeginClaimJInv, CommitClaimJInv, GiveBackJInv, CommitRetireJInv, TakeBackJInv, QuietJInv
      DEF WorkerStep
<1> QED
  BY <1>1, EnqueueJInv, TakeBackJInv, QuietJInv DEF Next

(* _settle_job_if_finished, for jobs whose windows are enqueued together   *)
(* and none of which was taken from a live worker: a closed job has no     *)
(* window left to do, and is failed exactly when a window failed.          *)
THEOREM ClosedIsFinished ==
  ASSUME WholeBatches
  PROVE  Spec => []ClosedJobIsFinished
<1>1. QInv /\ JInv => ClosedJobIsFinished
  BY DEF JInv, ClosedInv, ClosedJobIsFinished, Undisturbed, WindowsOf, Failed
<1>2. QInv /\ JInv /\ [Next]_vars => JInv'
  BY NextJInv
<1> QED
  BY <1>1, <1>2, InitJInv, QueueInvariant, PTL DEF Spec
=============================================================================
