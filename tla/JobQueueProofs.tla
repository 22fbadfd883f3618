--------------------------- MODULE JobQueueProofs ---------------------------
(* Proofs about JobQueue: its type invariant and its safety properties.    *)
EXTENDS JobQueue, TLAPS

-----------------------------------------------------------------------------
(* Every step is one of three kinds: of the queue, a worker or a request.  *)

QueueStep == (\E j \in Jobs : Enqueue(j)) \/ (\E j \in Subs : Age(j))
WorkerStep(w) == Work(w) \/ Fail(w) \/ Crash(w)
PollStep(p) == Serve(p) \/ Abort(p) \/ \E s \in Subs : ReadJob(p, s)

\* The next-state relation is covered by the three kinds of steps.
LEMMA StepKinds ==
    ASSUME Next
    PROVE  QueueStep \/ (\E w \in Workers : WorkerStep(w))
                     \/ (\E p \in Polls : PollStep(p))
BY DEF Next, QueueStep, WorkerStep, PollStep

-----------------------------------------------------------------------------
(* Type correctness.                                                       *)

\* New jobs and the passing of time keep the types.
LEMMA QueueTypes == ASSUME TypeOK, QueueStep PROVE TypeOK'
<1>1. ASSUME NEW j \in Jobs, Enqueue(j) PROVE TypeOK'
  BY <1>1 DEF Enqueue, TypeOK, Statuses, Active, workerVars, pollVars
<1>2. ASSUME NEW j \in Subs, Age(j) PROVE TypeOK'
  BY <1>2 DEF Age, TypeOK, Jobs, workerVars, pollVars
<1>3. QED BY <1>1, <1>2 DEF QueueStep

\* The job of a worker that is not idle exists, as far as types go.
LEMMA FinishJobTypes ==
    ASSUME TypeOK, NEW w \in Workers, wjob[w] \in Subs,
           NEW st \in Finished, NEW res \in Results,
           NEW ok \in Nat, NEW n \in Nat, FinishJob(w, st, res, ok, n)
    PROVE  TypeOK'
BY KindsAreDisjoint
   DEF FinishJob, Release, TypeOK, Jobs, Statuses, pollVars

\* The end of an evaluation keeps the types.
LEMMA FinishEvalTypes ==
    ASSUME TypeOK, NEW w \in Workers, wjob[w] \in Jobs,
           NEW st \in Finished, FinishEval(w, st)
    PROVE  TypeOK'
BY DEF FinishEval, Release, TypeOK, Statuses, pollVars

\* Whatever a worker does keeps the types.
LEMMA WorkerTypes ==
    ASSUME TypeOK, WorkerInv, NEW w \in Workers, WorkerStep(w)
    PROVE  TypeOK'
<1> USE DEF Jobs
<1>1. CASE LockNext(w)
  BY <1>1 DEF LockNext, TypeOK, jobVars, pollVars
<1>2. CASE CommitClaim(w)
  BY <1>2 DEF CommitClaim, TypeOK, Statuses, Active, Executing, pollVars
<1>3. CASE LoadCases(w)
  <2>1. CaseCounts(wjob[w]) \subseteq Nat
    BY CasesAreNumbers DEF CaseCounts
  <2>2. QED
    BY <1>3, <2>1 DEF LoadCases, TypeOK, Executing, jobVars, pollVars
<1>4. CASE PassCase(w)
  BY <1>4 DEF PassCase, TypeOK, jobVars, pollVars
<1>5. CASE NoTestCases(w)
  BY <1>5, FinishJobTypes DEF NoTestCases, WorkerInv, Finished, Results
<1>6. CASE TimeOut(w)
  BY <1>6, FinishJobTypes DEF TimeOut, WorkerInv, Finished, Results, TypeOK
<1>7. CASE RuntimeError(w)
  BY <1>7, FinishJobTypes
     DEF RuntimeError, WorkerInv, Finished, Results, TypeOK
<1>8. CASE Mismatch(w)
  BY <1>8, FinishJobTypes DEF Mismatch, WorkerInv, Finished, Results, TypeOK
<1>9. CASE Accept(w)
  BY <1>9, FinishJobTypes DEF Accept, WorkerInv, Finished, Results, TypeOK
<1>10. CASE EvalDone(w)
  BY <1>10, FinishEvalTypes DEF EvalDone, WorkerInv, Finished
<1>11. CASE ReportFailure(w)
  <2>1. wjob[w] \in Jobs
    BY <1>11 DEF ReportFailure, WorkerInv, TypeOK
  <2>2. CASE wjob[w] \in Evals
    BY <1>11, <2>1, <2>2, FinishEvalTypes DEF ReportFailure, Finished
  <2>3. CASE wjob[w] \notin Evals
    BY <1>11, <2>1, <2>3, FinishJobTypes DEF ReportFailure, Finished, Results
  <2>4. QED BY <2>2, <2>3
<1>12. CASE Fail(w)
  BY <1>12 DEF Fail, TypeOK, Executing, jobVars, pollVars
<1>13. CASE Crash(w)
  BY <1>13 DEF Crash, Release, TypeOK, jobVars, pollVars
<1>14. QED
  BY <1>1, <1>2, <1>3, <1>4, <1>5, <1>6, <1>7, <1>8, <1>9, <1>10, <1>11,
     <1>12, <1>13 DEF WorkerStep, Work, Judge

\* Whatever a result request does keeps the types.
LEMMA PollTypes ==
    ASSUME TypeOK, PollInv, NEW p \in Polls, PollStep(p)
    PROVE  TypeOK'
<1> USE DEF Jobs
<1>1. ASSUME NEW s \in Subs, ReadJob(p, s) PROVE TypeOK'
  BY <1>1 DEF ReadJob, TypeOK, jobVars, workerVars
<1>2. CASE ExpireSubmission(p)
  BY <1>2 DEF ExpireSubmission, ExpiredResult, TypeOK, Results, jobVars,
              workerVars
<1>3. CASE ExpireJob(p)
  BY <1>3 DEF ExpireJob, ExpiredStatus, TypeOK, Statuses, Finished, workerVars
<1>4. CASE RefreshSubmission(p)
  BY <1>4 DEF RefreshSubmission, TypeOK, PollInv, jobVars, workerVars
<1>5. CASE RefreshJob(p)
  BY <1>5 DEF RefreshJob, TypeOK, PollInv, jobVars, workerVars
<1>6. CASE Reply(p)
  BY <1>6 DEF Reply, Solved, EndRequest, TypeOK, Results, Statuses, jobVars,
              workerVars
<1>7. CASE Abort(p)
  BY <1>7 DEF Abort, EndRequest, TypeOK, Results, Statuses, jobVars, workerVars
<1>8. QED
  BY <1>1, <1>2, <1>3, <1>4, <1>5, <1>6, <1>7 DEF PollStep, Serve

-----------------------------------------------------------------------------
(* Workers and jobs: who holds what.                                       *)

HoldInv == WorkerInv /\ HolderInv /\ JobInv

\* A new job is nobody's yet.
LEMMA QueueHolds == ASSUME Inv, QueueStep PROVE HoldInv'
<1>1. ASSUME NEW j \in Jobs, Enqueue(j) PROVE HoldInv'
  BY <1>1 DEF Enqueue, Inv, TypeOK, HoldInv, WorkerInv, HolderInv, JobInv,
              Executing, workerVars
<1>2. ASSUME NEW j \in Subs, Age(j) PROVE HoldInv'
  BY <1>2 DEF Age, Inv, TypeOK, HoldInv, WorkerInv, HolderInv, JobInv, Jobs,
              workerVars
<1>3. QED BY <1>1, <1>2 DEF QueueStep

\* A worker that ends its job leaves the others with theirs.
LEMMA FinishJobHolds ==
    ASSUME Inv, NEW w \in Workers, wpc[w] \in Executing, wjob[w] \in Subs,
           NEW st \in Finished, NEW res \in Results \ {"pending"},
           NEW ok \in Nat, NEW n \in Nat, FinishJob(w, st, res, ok, n)
    PROVE  HoldInv'
<1> USE KindsAreDisjoint DEF FinishJob, Release, Inv, TypeOK, Jobs
<1>1. WorkerInv' BY DEF WorkerInv, HolderInv, Executing, Finished
<1>2. HolderInv' BY DEF HolderInv
<1>3. JobInv' BY DEF JobInv, WorkerInv, Finished
<1>4. QED BY <1>1, <1>2, <1>3 DEF HoldInv

\* The same for a worker that ends an evaluation.
LEMMA FinishEvalHolds ==
    ASSUME Inv, NEW w \in Workers, wpc[w] \in Executing, wjob[w] \in Evals,
           NEW st \in Finished, FinishEval(w, st)
    PROVE  HoldInv'
<1> USE KindsAreDisjoint DEF FinishEval, Release, Inv, TypeOK, Jobs
<1>1. WorkerInv' BY DEF WorkerInv, HolderInv, Executing, Finished
<1>2. HolderInv' BY DEF HolderInv
<1>3. JobInv' BY DEF JobInv, WorkerInv, Finished
<1>4. QED BY <1>1, <1>2, <1>3 DEF HoldInv

\* What a worker does changes neither the holder nor the state of a job
\* that another worker executes.
LEMMA WorkerHolds ==
    ASSUME Inv, NEW w \in Workers, WorkerStep(w) PROVE HoldInv'
<1> USE KindsAreDisjoint DEF Inv, TypeOK, Jobs
<1>1. CASE LockNext(w)
  <2> USE <1>1 DEF LockNext, NextInQueue, Claimable, Locked, jobVars
  <2>1. PICK j \in Jobs : /\ NextInQueue(j)
                          /\ wjob' = [wjob EXCEPT ![w] = j]
    OBVIOUS
  <2>2. \A v \in Workers : wjob[v] # j
    BY <2>1 DEF WorkerInv, Executing
  <2>3. WorkerInv' BY <2>1 DEF WorkerInv, Executing
  <2>4. HolderInv' BY <2>1, <2>2 DEF HolderInv
  <2>5. JobInv' BY DEF JobInv
  <2>6. QED BY <2>3, <2>4, <2>5 DEF HoldInv
<1>2. CASE CommitClaim(w)
  <2> USE <1>2 DEF CommitClaim
  <2>1. wjob[w] \in Jobs /\ ~started[wjob[w]] /\ verdict[wjob[w]] = "pending"
    BY DEF WorkerInv, JobInv
  <2>2. WorkerInv' BY <2>1 DEF WorkerInv, HolderInv, Executing
  <2>3. HolderInv' BY DEF HolderInv
  <2>4. JobInv' BY <2>1 DEF JobInv
  <2>5. QED BY <2>2, <2>3, <2>4 DEF HoldInv
<1>3. CASE LoadCases(w)
  <2>1. CaseCounts(wjob[w]) \subseteq Nat
    BY CasesAreNumbers DEF CaseCounts
  <2>2. QED
    BY <1>3, <2>1 DEF LoadCases, HoldInv, WorkerInv, HolderInv, JobInv,
                      Executing, jobVars
<1>4. CASE PassCase(w)
  BY <1>4 DEF PassCase, HoldInv, WorkerInv, HolderInv, JobInv, jobVars
<1>5. CASE Judge(w) /\ ~LoadCases(w) /\ ~PassCase(w)
  <2>1. wpc[w] \in Executing /\ wjob[w] \in Subs
    BY <1>5 DEF Judge, NoTestCases, TimeOut, RuntimeError, Mismatch, Accept,
                Executing, WorkerInv
  <2>2. PICK st \in Finished, res \in Results \ {"pending"}, ok \in Nat,
             n \in Nat : FinishJob(w, st, res, ok, n)
    BY <1>5 DEF Judge, NoTestCases, TimeOut, RuntimeError, Mismatch, Accept,
                Finished, Results
  <2>3. QED BY <2>1, <2>2, FinishJobHolds
<1>6. CASE EvalDone(w)
  BY <1>6, FinishEvalHolds DEF EvalDone, WorkerInv, Finished, Executing
<1>7. CASE ReportFailure(w)
  <2>1. wpc[w] \in Executing /\ wjob[w] \in Jobs
    BY <1>7 DEF ReportFailure, WorkerInv, Executing
  <2>2. CASE wjob[w] \in Evals
    BY <1>7, <2>1, <2>2, FinishEvalHolds DEF ReportFailure, Finished
  <2>3. CASE wjob[w] \notin Evals
    BY <1>7, <2>1, <2>3, FinishJobHolds DEF ReportFailure, Finished, Results
  <2>4. QED BY <2>2, <2>3
<1>8. CASE Fail(w)
  BY <1>8 DEF Fail, HoldInv, WorkerInv, HolderInv, JobInv, Executing, jobVars
<1>9. CASE Crash(w)
  BY <1>9 DEF Crash, Release, HoldInv, WorkerInv, HolderInv, JobInv,
              Executing, jobVars
<1>10. QED
  BY <1>1, <1>2, <1>3, <1>4, <1>5, <1>6, <1>7, <1>8, <1>9
     DEF WorkerStep, Work, Judge

\* A request never touches a job whose claim is open: its UPDATE waits.
LEMMA PollHolds ==
    ASSUME Inv, NEW p \in Polls, PollStep(p) PROVE HoldInv'
<1>1. CASE ExpireJob(p)
  <2> USE <1>1, KindsAreDisjoint
      DEF ExpireJob, ExpiredStatus, Inv, TypeOK, Jobs, workerVars
  <2>1. pjob[p] \in Subs BY DEF PollInv
  <2>2. \A w \in Workers : wjob[w] = pjob[p] => wpc[w] # "locked"
    BY DEF Locked
  <2>3. WorkerInv' BY <2>1, <2>2 DEF WorkerInv, Executing
  <2>4. HolderInv' /\ JobInv' BY <2>1 DEF HolderInv, JobInv
  <2>5. QED BY <2>3, <2>4 DEF HoldInv
<1>2. CASE ~ExpireJob(p)
  <2>1. UNCHANGED <<jobVars, workerVars, verdict>>
    BY <1>2 DEF PollStep, Serve, ReadJob, ExpireSubmission, ExpiredResult,
                RefreshSubmission, RefreshJob, Reply, Solved, Abort, EndRequest
  <2>2. QED
    BY <2>1 DEF Inv, HoldInv, WorkerInv, HolderInv, JobInv, jobVars,
                workerVars
<1>3. QED BY <1>1, <1>2

-----------------------------------------------------------------------------
(* The order of arrival.                                                   *)

\* A new row goes behind all the others; no row ever leaves the table.
LEMMA OrderStep == ASSUME Inv, [Next]_vars PROVE OrderInv'
<1> TypeOK /\ WorkerInv /\ PollInv /\ OrderInv
  BY DEF Inv
<1>1. ASSUME NEW j \in Jobs, Enqueue(j) PROVE OrderInv'
  <2>1. /\ \A k \in Jobs : status'[k] # "absent" <=> k = j \/ status[k] # "absent"
        /\ \A k \in Jobs \ {j} : ahead'[k] = ahead[k]
        /\ ahead'[j] = {k \in Jobs : status[k] # "absent"}
        /\ status[j] = "absent"
    BY <1>1 DEF Enqueue, TypeOK
  <2>2. \A k \in Jobs : ahead[k] \subseteq Jobs
    BY DEF TypeOK
  <2>3. QED BY <2>1, <2>2 DEF OrderInv
<1>2. ASSUME ahead' = ahead,
             \A j \in Jobs : status'[j] = "absent" <=> status[j] = "absent"
      PROVE  OrderInv'
  BY <1>2 DEF OrderInv
<1>3. ASSUME NEW j \in Subs, Age(j) PROVE OrderInv'
  BY <1>2, <1>3 DEF Age
<1>4. ASSUME NEW w \in Workers, WorkerStep(w) PROVE OrderInv'
  <2>1. CASE wpc[w] # "idle"
    <3>1. wjob[w] \in Jobs /\ status[wjob[w]] # "absent"
      BY <2>1, KindsAreDisjoint DEF TypeOK, WorkerInv, Executing, Jobs
    <3>2. ahead' = ahead
      BY <1>4
         DEF WorkerStep, Work, LockNext, CommitClaim, Judge, LoadCases,
             PassCase, NoTestCases, TimeOut, RuntimeError, Mismatch, Accept,
             EvalDone, ReportFailure, FinishJob, FinishEval, Fail, Crash,
             jobVars
    <3>3. \/ status' = status
          \/ \E st \in Statuses \ {"absent"} :
                status' = [status EXCEPT ![wjob[w]] = st]
      BY <1>4
         DEF WorkerStep, Work, LockNext, CommitClaim, Judge, LoadCases,
             PassCase, NoTestCases, TimeOut, RuntimeError, Mismatch, Accept,
             EvalDone, ReportFailure, FinishJob, FinishEval, Fail, Crash,
             jobVars, Statuses, Active, Finished
    <3>4. QED BY <1>2, <3>1, <3>2, <3>3 DEF TypeOK
  <2>2. CASE wpc[w] = "idle"
    BY <1>2, <1>4, <2>2
       DEF WorkerStep, Work, LockNext, CommitClaim, Judge, LoadCases,
           PassCase, NoTestCases, TimeOut, RuntimeError, Mismatch, Accept,
           EvalDone, ReportFailure, Fail, Crash, jobVars
  <2>3. QED BY <2>1, <2>2
<1>5. ASSUME NEW p \in Polls, PollStep(p) PROVE OrderInv'
  <2>1. CASE ExpireJob(p)
    <3>1. pjob[p] \in Jobs /\ status[pjob[p]] # "absent"
      BY <2>1 DEF ExpireJob, TypeOK, PollInv, Jobs
    <3>2. /\ ahead' = ahead
          /\ status' = [status EXCEPT ![pjob[p]] = "failed"]
      BY <2>1 DEF ExpireJob, ExpiredStatus
    <3>3. QED BY <1>2, <3>1, <3>2 DEF TypeOK
  <2>2. CASE ~ExpireJob(p)
    BY <1>2, <1>5, <2>2
       DEF PollStep, Serve, ReadJob, ExpireSubmission, ExpiredResult,
           RefreshSubmission, RefreshJob, Reply, Solved, Abort, EndRequest,
           jobVars
  <2>3. QED BY <2>1, <2>2
<1>6. CASE UNCHANGED vars
  BY <1>2, <1>6 DEF vars, jobVars
<1>7. QED
  BY <1>1, <1>3, <1>4, <1>5, <1>6, StepKinds DEF QueueStep

-----------------------------------------------------------------------------
(* Results: what the submissions, the jobs' status and the rewards say.    *)

BoardInv == /\ PollInv
            /\ FinishedHasVerdict
            /\ VerdictIsReal
            /\ RewardEarned
            /\ ScoreMatches

\* A new job has no result to be wrong about.
LEMMA QueueBoard == ASSUME Inv, QueueStep PROVE BoardInv'
<1> USE DEF Inv, TypeOK, BoardInv, PollInv, FinishedHasVerdict,
            VerdictIsReal, RewardEarned, ScoreMatches, Jobs, pollVars
<1>1. ASSUME NEW j \in Jobs, Enqueue(j) PROVE BoardInv'
  BY <1>1 DEF Enqueue, Finished
<1>2. ASSUME NEW j \in Subs, Age(j) PROVE BoardInv'
  BY <1>2 DEF Age
<1>3. QED BY <1>1, <1>2 DEF QueueStep

\* The verdict is the first one, and the score is the verdict's.
LEMMA FinishJobBoard ==
    ASSUME Inv, NEW w \in Workers, wpc[w] \in Executing, wjob[w] \in Subs,
           NEW st \in Finished, NEW res \in Results \ {"pending"},
           NEW ok \in Nat, NEW n \in Nat, FinishJob(w, st, res, ok, n),
           st = "success" => /\ n > 0
                             /\ IF res = "success" THEN ok = n ELSE ok < n
    PROVE  BoardInv'
<1> USE KindsAreDisjoint DEF FinishJob, Inv, TypeOK, Jobs, pollVars
<1>1. verdict[wjob[w]] = "pending" BY DEF WorkerInv
<1>2. PollInv' BY <1>1 DEF PollInv, Finished
<1>3. FinishedHasVerdict' BY DEF FinishedHasVerdict
<1>4. VerdictIsReal' BY DEF VerdictIsReal
<1>5. RewardEarned' BY <1>1 DEF RewardEarned
<1>6. ScoreMatches'
  <2> SUFFICES ASSUME NEW s \in Subs, status'[s] = "success"
               PROVE  /\ payload'[s].total > 0
                      /\ IF verdict'[s] = "success"
                         THEN payload'[s].passed = payload'[s].total
                         ELSE payload'[s].passed < payload'[s].total
    BY DEF ScoreMatches
  <2>1. CASE s = wjob[w]
    BY <2>1
  <2>2. CASE s # wjob[w]
    BY <2>2 DEF ScoreMatches
  <2>3. QED BY <2>1, <2>2
<1>7. QED BY <1>2, <1>3, <1>4, <1>5, <1>6 DEF BoardInv

\* An evaluation touches no submission.
LEMMA FinishEvalBoard ==
    ASSUME Inv, NEW w \in Workers, wjob[w] \in Evals, NEW st \in Finished,
           FinishEval(w, st)
    PROVE  BoardInv'
BY KindsAreDisjoint
   DEF FinishEval, Inv, TypeOK, Jobs, BoardInv, PollInv, FinishedHasVerdict,
       VerdictIsReal, RewardEarned, ScoreMatches, pollVars

\* What a worker writes agrees with what it found.
LEMMA WorkerBoard ==
    ASSUME Inv, NEW w \in Workers, WorkerStep(w) PROVE BoardInv'
<1> USE DEF Inv, TypeOK
<1>1. CASE CommitClaim(w)
  BY <1>1, KindsAreDisjoint
     DEF CommitClaim, BoardInv, PollInv, FinishedHasVerdict, VerdictIsReal,
         RewardEarned, ScoreMatches, Jobs, Finished, pollVars
<1>2. CASE Judge(w) /\ ~LoadCases(w) /\ ~PassCase(w)
  <2>1. wpc[w] \in Executing /\ wjob[w] \in Subs
    BY <1>2 DEF Judge, NoTestCases, TimeOut, RuntimeError, Mismatch, Accept,
                Executing, WorkerInv
  <2>2. PICK st \in Finished, res \in Results \ {"pending"}, ok \in Nat,
             n \in Nat :
           /\ FinishJob(w, st, res, ok, n)
           /\ st = "success" => /\ n > 0
                                /\ IF res = "success" THEN ok = n
                                                      ELSE ok < n
    <3>1. CASE NoTestCases(w)
      BY <3>1 DEF NoTestCases, Finished, Results
    <3>2. CASE TimeOut(w)
      BY <3>2 DEF TimeOut, Finished, Results
    <3>3. CASE RuntimeError(w)
      BY <3>3 DEF RuntimeError, Finished, Results
    <3>4. CASE Mismatch(w)
      BY <3>4 DEF Mismatch, Finished, Results
    <3>5. CASE Accept(w)
      BY <3>5 DEF Accept, Finished, Results
    <3>6. QED BY <1>2, <3>1, <3>2, <3>3, <3>4, <3>5 DEF Judge
  <2>3. QED BY <2>1, <2>2, FinishJobBoard
<1>3. CASE EvalDone(w)
  BY <1>3, FinishEvalBoard DEF EvalDone, WorkerInv, Finished
<1>4. CASE ReportFailure(w)
  <2>1. wpc[w] \in Executing /\ wjob[w] \in Jobs
    BY <1>4 DEF ReportFailure, WorkerInv, Executing
  <2>2. CASE wjob[w] \in Evals
    BY <1>4, <2>1, <2>2, FinishEvalBoard DEF ReportFailure, Finished
  <2>3. CASE wjob[w] \notin Evals
    BY <1>4, <2>1, <2>3, FinishJobBoard
       DEF ReportFailure, Finished, Results, Jobs
  <2>4. QED BY <2>2, <2>3
<1>5. CASE UNCHANGED <<jobVars, result, solved, pollVars, verdict>>
  BY <1>5 DEF BoardInv, PollInv, FinishedHasVerdict, VerdictIsReal,
              RewardEarned, ScoreMatches, jobVars, pollVars
<1>6. QED
  BY <1>1, <1>2, <1>3, <1>4, <1>5
     DEF WorkerStep, Work, Judge, LockNext, LoadCases, PassCase, Fail, Crash

\* A request decides a submission before its job, and only as an error.
LEMMA PollBoard ==
    ASSUME Inv, NEW p \in Polls, PollStep(p) PROVE BoardInv'
<1> USE KindsAreDisjoint
    DEF Inv, TypeOK, Jobs, BoardInv, PollInv, FinishedHasVerdict,
        VerdictIsReal, RewardEarned, ScoreMatches, jobVars
<1>1. ASSUME NEW s \in Subs, ReadJob(p, s) PROVE BoardInv'
  BY <1>1 DEF ReadJob
<1>2. CASE ExpireSubmission(p)
  BY <1>2 DEF ExpireSubmission, ExpiredResult
<1>3. CASE ExpireJob(p)
  BY <1>3 DEF ExpireJob, ExpiredStatus
<1>4. CASE RefreshSubmission(p)
  BY <1>4 DEF RefreshSubmission
<1>5. CASE RefreshJob(p)
  BY <1>5 DEF RefreshJob
<1>6. CASE Reply(p)
  BY <1>6 DEF Reply, Solved, EndRequest
<1>7. CASE Abort(p)
  BY <1>7 DEF Abort, EndRequest
<1>8. QED
  BY <1>1, <1>2, <1>3, <1>4, <1>5, <1>6, <1>7 DEF PollStep, Serve

-----------------------------------------------------------------------------
(* The invariant.                                                          *)

\* The invariant holds initially.
LEMMA InvInit == Init => Inv
BY KindsAreDisjoint
   DEF Init, Inv, TypeOK, WorkerInv, HolderInv, JobInv, OrderInv, PollInv,
       FinishedHasVerdict, VerdictIsReal, RewardEarned, ScoreMatches,
       Statuses, Active, Finished, Results, Executing, Jobs

\* The invariant is inductive.
LEMMA InvStep == Inv /\ [Next]_vars => Inv'
<1> SUFFICES ASSUME Inv, [Next]_vars PROVE Inv'
  OBVIOUS
<1>0. OrderInv'
  BY OrderStep
<1>1. CASE QueueStep
  BY <1>0, <1>1, QueueTypes, QueueHolds, QueueBoard DEF Inv, HoldInv, BoardInv
<1>2. CASE \E w \in Workers : WorkerStep(w)
  BY <1>0, <1>2, WorkerTypes, WorkerHolds, WorkerBoard DEF Inv, HoldInv, BoardInv
<1>3. CASE \E p \in Polls : PollStep(p)
  BY <1>0, <1>3, PollTypes, PollHolds, PollBoard DEF Inv, HoldInv, BoardInv
<1>4. CASE UNCHANGED vars
  BY <1>0, <1>4 DEF vars, jobVars, workerVars, pollVars, Inv, TypeOK, WorkerInv,
              HolderInv, JobInv, PollInv, FinishedHasVerdict, VerdictIsReal,
              RewardEarned, ScoreMatches
<1>5. QED BY <1>1, <1>2, <1>3, <1>4, StepKinds

\* Inv is an invariant of the queue, whatever the sets of jobs, workers and
\* requests are.
THEOREM Invariance == Spec => []Inv
BY InvInit, InvStep, PTL DEF Spec

\* Every variable keeps its type.
THEOREM TypeCorrect == Spec => []TypeOK
<1>1. Inv => TypeOK BY DEF Inv
<1>2. QED BY <1>1, Invariance, PTL

\* FOR UPDATE SKIP LOCKED with the pending filter makes claims exclusive,
\* and the job a worker executes stays its own until it reports.
THEOREM ExclusiveClaims == Spec => []ClaimExclusive
<1>1. Inv => ClaimExclusive
  <2> SUFFICES ASSUME Inv PROVE ClaimExclusive
    OBVIOUS
  <2>1. \A v, w \in Workers : wjob[v] = wjob[w] /\ v # w => wjob[v] = NoJob
    BY DEF Inv, HolderInv
  <2>2. ASSUME NEW w \in Workers, wpc[w] \in Executing
        PROVE  /\ started[wjob[w]]
               /\ \/ status[wjob[w]] = "running"
                  \/ status[wjob[w]] = "failed" /\ result[wjob[w]] = "error"
    <3>1. wjob[w] \in Jobs
      BY <2>2, KindsAreDisjoint DEF Inv, TypeOK, WorkerInv, Executing
    <3>2. CASE wjob[w] \in Evals
      BY <2>2, <3>2 DEF Inv, WorkerInv
    <3>3. CASE wjob[w] \in Subs
      BY <2>2, <3>3
         DEF Inv, TypeOK, WorkerInv, FinishedHasVerdict, VerdictIsReal,
             Finished, Results
    <3>4. QED BY <3>1, <3>2, <3>3 DEF Jobs
  <2>3. QED BY <2>1, <2>2 DEF ClaimExclusive
<1>2. QED BY <1>1, Invariance, PTL

\* Neither the worker's finish_job nor _expire_stale_job leaves a finished
\* job without a result.
THEOREM ResultsAreThere == Spec => []FinishedHasVerdict
BY Invariance, PTL DEF Inv

\* Results other than error are the worker's.
THEOREM ResultsAreReal == Spec => []VerdictIsReal
BY Invariance, PTL DEF Inv

\* A job that succeeded has a score, full marks exactly for an accepted
\* submission, whichever writers raced for it.
THEOREM ScoresMatch == Spec => []ScoreMatches
BY Invariance, PTL DEF Inv

\* solve_success is only paid for submissions a worker accepted.
THEOREM RewardsAreEarned == Spec => []RewardEarned
<1>1. Inv => RewardEarned BY DEF Inv
<1>2. QED BY <1>1, Invariance, PTL

\* Only LockNext gives a job to a worker.
LEMMA TakenByLockNext ==
    ASSUME Inv, Next, NEW w \in Workers, NEW j \in Jobs,
           wjob[w] = NoJob, wjob'[w] = j
    PROVE  LockNext(w)
<1>1. j # NoJob BY KindsAreDisjoint
<1>2. ~QueueStep
  BY <1>1 DEF QueueStep, Enqueue, Age, workerVars
<1>3. ~(\E p \in Polls : PollStep(p))
  BY <1>1 DEF PollStep, Serve, ReadJob, ExpireSubmission, ExpiredResult,
              ExpireJob, ExpiredStatus, RefreshSubmission, RefreshJob,
              Reply, Solved, Abort, EndRequest, workerVars
<1>4. PICK v \in Workers : WorkerStep(v)
  BY <1>2, <1>3, StepKinds
<1>5. LockNext(v)
  BY <1>1, <1>4
     DEF WorkerStep, Work, Judge, CommitClaim, LoadCases, PassCase,
         NoTestCases, TimeOut, RuntimeError, Mismatch, Accept, EvalDone,
         ReportFailure, FinishJob, FinishEval, Release, Fail, Crash,
         Inv, TypeOK
<1>6. v = w
  BY <1>1, <1>5 DEF LockNext, Inv, TypeOK
<1>7. QED BY <1>5, <1>6

\* No job is executed twice.
THEOREM ExecutedOnce == Spec => ClaimedOnce
<1>1. Inv /\ [Next]_vars =>
        [\A w \in Workers, j \in Jobs :
            wjob[w] = NoJob /\ wjob'[w] = j => ~started[j]]_vars
  <2> SUFFICES ASSUME Inv, Next, NEW w \in Workers, NEW j \in Jobs,
                      wjob[w] = NoJob, wjob'[w] = j
               PROVE  ~started[j]
    OBVIOUS
  <2>1. LockNext(w)
    BY TakenByLockNext
  <2>2. status[j] = "pending"
    BY <2>1 DEF LockNext, NextInQueue, Claimable, Inv, TypeOK
  <2>3. QED BY <2>2 DEF Inv, JobInv
<1>2. QED BY <1>1, Invariance, PTL DEF Spec, ClaimedOnce

\* The rows of the queue are always in one order, that of their arrival.
THEOREM QueueIsOrdered == Spec => []OrderInv
<1>1. Inv => OrderInv BY DEF Inv
<1>2. QED BY <1>1, Invariance, PTL

\* No overtaking: a job passed over by the worker that takes a later one
\* is in the hands of another worker (ORDER BY ... SKIP LOCKED).
THEOREM OldestIsTaken == Spec => FirstComeFirstServed
<1>1. Inv /\ [Next]_vars =>
        [\A w \in Workers, j \in Jobs :
            wjob[w] = NoJob /\ wjob'[w] = j =>
               \A k \in ahead[j] : status[k] = "pending" =>
                  \E v \in Workers \ {w} : wjob[v] = k]_vars
  <2> SUFFICES ASSUME Inv, Next, NEW w \in Workers, NEW j \in Jobs,
                      wjob[w] = NoJob, wjob'[w] = j,
                      NEW k \in ahead[j], status[k] = "pending"
               PROVE  \E v \in Workers \ {w} : wjob[v] = k
    OBVIOUS
  <2>1. LockNext(w)
    BY TakenByLockNext
  <2>2. NextInQueue(j)
    BY <2>1 DEF LockNext, Inv, TypeOK
  <2>3. PICK v \in Workers : wpc[v] = "locked" /\ wjob[v] = k
    BY <2>2 DEF NextInQueue, Claimable, Locked
  <2>4. k \in Jobs
    BY DEF Inv, TypeOK
  <2>5. v # w
    BY <2>3, <2>4, KindsAreDisjoint
  <2>6. QED BY <2>3, <2>5
<1>2. QED BY <1>1, Invariance, PTL DEF Spec, FirstComeFirstServed

-----------------------------------------------------------------------------
(* Refinement: the queue implements Judging.                               *)

phaseBar   == [s \in Subs |-> Phase(s)]
outcomeBar == [s \in Subs |-> verdict[s]]

\* Nothing is started, judged, shown or awarded initially.
LEMMA InitRefines == Init => Judging!Init
BY DEF Init, Judging!Init, Judging!Subs, Subs, Jobs, Phase

\* Steps that touch neither the mapped columns nor the history stutter.
LEMMA Stutters ==
    ASSUME UNCHANGED <<started, verdict, result, solved>>
    PROVE  UNCHANGED Judging!vars
BY DEF Judging!vars, Phase

\* A claim starts a submission's execution; other jobs are not mapped.
LEMMA ClaimRefines ==
    ASSUME Inv, NEW w \in Workers, CommitClaim(w)
    PROVE  [Judging!Next]_(Judging!vars)
<1> USE KindsAreDisjoint DEF CommitClaim, Inv, TypeOK, Jobs
<1>1. /\ wjob[w] \in Jobs
      /\ ~started[wjob[w]]
      /\ verdict[wjob[w]] = "pending"
  BY DEF WorkerInv, JobInv
<1>2. CASE wjob[w] \in Subs
  <2>1. phaseBar' = [phaseBar EXCEPT ![wjob[w]] = "started"]
    BY <1>1, <1>2 DEF phaseBar, Phase
  <2>2. Judging!Start(wjob[w])
    BY <1>1, <1>2, <2>1 DEF Judging!Start, phaseBar, Phase
  <2>3. QED BY <1>2, <2>2 DEF Judging!Next, Judging!Subs, Subs
<1>3. CASE wjob[w] \notin Subs
  BY <1>1, <1>3 DEF Judging!vars, Phase, Subs
<1>4. QED BY <1>2, <1>3

\* A worker's report decides the submission it executes.
LEMMA FinishJobRefines ==
    ASSUME Inv, NEW w \in Workers, wpc[w] \in Executing, wjob[w] \in Subs,
           NEW st \in Finished, NEW res \in Results \ {"pending"},
           NEW ok \in Nat, NEW n \in Nat, FinishJob(w, st, res, ok, n)
    PROVE  Judging!Next
<1> USE DEF FinishJob, Inv, TypeOK, Jobs
<1>1. started[wjob[w]] /\ verdict[wjob[w]] = "pending"
  BY DEF WorkerInv
<1>2. phaseBar' = [phaseBar EXCEPT ![wjob[w]] = "judged"]
  BY DEF phaseBar, Phase
<1>3. outcomeBar' = [outcomeBar EXCEPT ![wjob[w]] = res]
  BY DEF outcomeBar
<1>4. Judging!Decide(wjob[w], res)
  BY <1>1, <1>2, <1>3 DEF Judging!Decide, phaseBar, outcomeBar, Phase
<1>5. QED BY <1>4 DEF Judging!Next, Judging!Subs, Subs, Results

\* Evaluations are invisible to those who submit.
LEMMA FinishEvalRefines ==
    ASSUME NEW w \in Workers, NEW st, FinishEval(w, st)
    PROVE  UNCHANGED Judging!vars
BY Stutters DEF FinishEval

\* A worker's step starts, decides or changes nothing that is promised.
LEMMA WorkerRefines ==
    ASSUME Inv, NEW w \in Workers, WorkerStep(w)
    PROVE  [Judging!Next]_(Judging!vars)
<1>1. CASE CommitClaim(w)
  BY <1>1, ClaimRefines
<1>2. CASE Judge(w) /\ ~LoadCases(w) /\ ~PassCase(w)
  <2>1. wpc[w] \in Executing /\ wjob[w] \in Subs
    BY <1>2 DEF Judge, NoTestCases, TimeOut, RuntimeError, Mismatch, Accept,
                Executing, Inv, WorkerInv
  <2>2. PICK st \in Finished, res \in Results \ {"pending"}, ok \in Nat,
             n \in Nat : FinishJob(w, st, res, ok, n)
    BY <1>2 DEF Judge, NoTestCases, TimeOut, RuntimeError, Mismatch, Accept,
                Finished, Results, Inv, TypeOK
  <2>3. QED BY <2>1, <2>2, FinishJobRefines
<1>3. CASE EvalDone(w)
  BY <1>3, FinishEvalRefines DEF EvalDone
<1>4. CASE ReportFailure(w)
  <2>1. wpc[w] \in Executing /\ wjob[w] \in Jobs
    BY <1>4, KindsAreDisjoint
       DEF ReportFailure, Inv, TypeOK, WorkerInv, Executing
  <2>2. CASE wjob[w] \in Evals
    BY <1>4, <2>2, FinishEvalRefines DEF ReportFailure
  <2>3. CASE wjob[w] \notin Evals
    BY <1>4, <2>1, <2>3, FinishJobRefines
       DEF ReportFailure, Finished, Results, Jobs
  <2>4. QED BY <2>2, <2>3
<1>5. CASE UNCHANGED <<jobVars, result, solved, pollVars, verdict>>
  BY <1>5, Stutters DEF jobVars
<1>6. QED
  BY <1>1, <1>2, <1>3, <1>4, <1>5
     DEF WorkerStep, Work, Judge, LockNext, LoadCases, PassCase, Fail, Crash

\* A request's step gives up, awards or changes nothing that is promised.
LEMMA PollRefines ==
    ASSUME Inv, NEW p \in Polls, PollStep(p)
    PROVE  [Judging!Next]_(Judging!vars)
<1>1. CASE ExpireSubmission(p)
  <2>1. pjob[p] \in Subs
    BY <1>1 DEF ExpireSubmission, ExpiredResult, Inv, TypeOK, PollInv
  <2>2. Judging!GiveUp(pjob[p])
    BY <1>1, <2>1
       DEF ExpireSubmission, ExpiredResult, Judging!GiveUp, jobVars, Phase
  <2>3. QED BY <2>1, <2>2 DEF Judging!Next, Judging!Subs, Subs
<1>2. CASE Reply(p) /\ solved' # solved
  <2>1. /\ pjob[p] \in Submits
        /\ verdict[pjob[p]] = "success"
        /\ solved' = solved \cup {pjob[p]}
    BY <1>2 DEF Reply, Solved, Inv, PollInv
  <2>2. Judging!Award(pjob[p])
    BY <1>2, <2>1
       DEF Reply, Solved, EndRequest, Judging!Award, jobVars, Phase, Subs
  <2>3. QED BY <2>1, <2>2 DEF Judging!Next
<1>3. CASE UNCHANGED <<started, verdict, result, solved>>
  BY <1>3, Stutters
<1>4. QED
  BY <1>1, <1>2, <1>3
     DEF PollStep, Serve, ReadJob, ExpireJob, ExpiredStatus,
         RefreshSubmission, RefreshJob, Reply, Solved, Abort, EndRequest,
         jobVars

\* Every step is one of Judging, or changes nothing there.
LEMMA StepRefines ==
    Inv /\ [Next]_vars => [Judging!Next]_(Judging!vars)
<1> SUFFICES ASSUME Inv, [Next]_vars PROVE [Judging!Next]_(Judging!vars)
  OBVIOUS
<1>1. CASE QueueStep
  BY <1>1, Stutters DEF QueueStep, Enqueue, Age
<1>2. CASE \E w \in Workers : WorkerStep(w)
  BY <1>2, WorkerRefines
<1>3. CASE \E p \in Polls : PollStep(p)
  BY <1>3, PollRefines
<1>4. CASE UNCHANGED vars
  BY <1>4, Stutters DEF vars, jobVars
<1>5. QED BY <1>1, <1>2, <1>3, <1>4, StepKinds

\* What the database, the workers and the requests do together is an
\* implementation of the promise made to those who submit code.
THEOREM QueueImplementsJudging == Spec => ImplementsJudging
BY InitRefines, StepRefines, Invariance, PTL
   DEF Spec, ImplementsJudging, Judging!Spec
=============================================================================
