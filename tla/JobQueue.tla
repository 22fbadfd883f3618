------------------------------ MODULE JobQueue ------------------------------
(***************************************************************************)
(* The judging queue: the table submissions_executionjob, the workers that *)
(* claim and execute its pending rows (worker/main.py), and the result     *)
(* requests of the web application, which read a job and may expire it     *)
(* (django/submissions/views.py).                                          *)
(*                                                                         *)
(* A step is one database statement or transaction.  A submission has at   *)
(* most one code_run or code_submit job, so the two share an identity;     *)
(* code_eval jobs have no submission.  Time is abstracted to one bit per   *)
(* job: its started_at (or created_at, while it is not started) is older   *)
(* than CODE_JOB_RESULT_TIMEOUT_SEC.                                       *)
(***************************************************************************)
EXTENDS Naturals

CONSTANTS
    Submits,          \* submissions judged by a code_submit job
    Runs,             \* submissions tried by a code_run job
    Evals,            \* code_eval jobs of the test case agent
    Workers,          \* worker processes
    Polls,            \* concurrent requests for a submission's result
    MaxCases,         \* bound on the number of test cases of a problem
    DefaultTestCases, \* number of test cases a code_run job uses
    NoJob             \* what an idle worker or request holds

Subs == Submits \cup Runs
Jobs == Subs \cup Evals

ASSUME KindsAreDisjoint ==
    /\ Submits \cap Runs = {}
    /\ Subs \cap Evals = {}
    /\ NoJob \notin Jobs

ASSUME CasesAreNumbers ==
    /\ MaxCases \in Nat
    /\ DefaultTestCases \in Nat \ {0}

VARIABLES
    status,    \* ExecutionJob.status ("absent" before the row exists)
    started,   \* ExecutionJob.started_at is set
    payload,   \* ExecutionJob.result_payload: passed and total
    ahead,     \* the jobs whose (created_at, id) is smaller
    aged,      \* the job's reference time is over the result timeout
    result,    \* Submission.result
    solved,    \* submissions with a PointLog for solve_success
    wpc,       \* where each worker is in process_one
    wjob,      \* the job each worker holds
    total,     \* number of test cases the worker fetched
    passed,    \* number of test cases that passed so far
    ppc,       \* where each result request is in submission_result
    pjob,      \* the submission the request is about
    seenResult,\* Submission.result as the request last read it
    seenStatus,\* ExecutionJob.status as the request last read it
    verdict    \* history: the result a worker reported for the job

jobVars    == <<status, started, payload, ahead, aged>>
workerVars == <<wpc, wjob, total, passed>>
pollVars   == <<ppc, pjob, seenResult, seenStatus>>
vars == <<jobVars, result, solved, workerVars, pollVars, verdict>>

Active   == {"pending", "running"}               \* ACTIVE_JOB_STATUSES
Finished == {"success", "failed", "timeout"}     \* FINISHED_JOB_STATUSES
Statuses == {"absent"} \cup Active \cup Finished
Results  == {"pending", "success", "wrong", "error", "timeout"}
Executing == {"loading", "judging", "evaluating", "failing"}

TypeOK ==
    /\ status  \in [Jobs -> Statuses]
    /\ started \in [Jobs -> BOOLEAN]
    /\ payload \in [Jobs -> [passed : Nat, total : Nat]]
    /\ ahead   \in [Jobs -> SUBSET Jobs]
    /\ aged    \in [Jobs -> BOOLEAN]
    /\ result  \in [Subs -> Results]
    /\ solved  \subseteq Submits
    /\ wpc     \in [Workers -> {"idle", "locked"} \cup Executing]
    /\ wjob    \in [Workers -> Jobs \cup {NoJob}]
    /\ total   \in [Workers -> Nat]
    /\ passed  \in [Workers -> Nat]
    /\ ppc     \in [Polls -> {"idle", "expire_submission", "expire_job",
                              "refresh_submission", "refresh_job", "reply"}]
    /\ pjob    \in [Polls -> Subs \cup {NoJob}]
    /\ seenResult \in [Polls -> Results]
    /\ seenStatus \in [Polls -> Statuses]
    /\ verdict \in [Jobs -> Results]

Init ==
    /\ status  = [j \in Jobs |-> "absent"]
    /\ started = [j \in Jobs |-> FALSE]
    /\ payload = [j \in Jobs |-> [passed |-> 0, total |-> 0]]
    /\ ahead   = [j \in Jobs |-> {}]
    /\ aged    = [j \in Jobs |-> FALSE]
    /\ result  = [s \in Subs |-> "pending"]
    /\ solved  = {}
    /\ wpc     = [w \in Workers |-> "idle"]
    /\ wjob    = [w \in Workers |-> NoJob]
    /\ total   = [w \in Workers |-> 0]
    /\ passed  = [w \in Workers |-> 0]
    /\ ppc     = [p \in Polls |-> "idle"]
    /\ pjob    = [p \in Polls |-> NoJob]
    /\ seenResult = [p \in Polls |-> "pending"]
    /\ seenStatus = [p \in Polls |-> "absent"]
    /\ verdict = [j \in Jobs |-> "pending"]

-----------------------------------------------------------------------------
(* Filling the queue, and the passing of time.                             *)

\* _enqueue_code_job, and the create of _eval_batch: a new pending row.
Enqueue(j) ==
    /\ status[j] = "absent"
    /\ status' = [status EXCEPT ![j] = "pending"]
    /\ ahead'  = [ahead EXCEPT ![j] = {k \in Jobs : status[k] # "absent"}]
    /\ UNCHANGED <<started, payload, aged, result, solved, workerVars,
                   pollVars, verdict>>

\* CODE_JOB_RESULT_TIMEOUT_SEC passes while the job is unfinished.
Age(j) ==
    /\ status[j] \in Active
    /\ ~aged[j]
    /\ aged' = [aged EXCEPT ![j] = TRUE]
    /\ UNCHANGED <<status, started, payload, ahead, result, solved,
                   workerVars, pollVars, verdict>>

-----------------------------------------------------------------------------
(* The worker: process_one.                                                *)

Locked(j) == \E w \in Workers : wpc[w] = "locked" /\ wjob[w] = j

\* Mutants: no SKIP LOCKED; running jobs taken again; code_eval missing from
\* the list of job types; no ORDER BY.
ClaimableIgnoringLocks(j) == status[j] = "pending"
ClaimableAgain(j) == status[j] \in Active /\ ~Locked(j)
ClaimableButEvals(j) == status[j] = "pending" /\ ~Locked(j) /\ j \notin Evals
NextInAnyOrder(j) == status[j] = "pending" /\ ~Locked(j)

\* The row that SELECT ... ORDER BY created_at, id FOR UPDATE SKIP LOCKED
\* LIMIT 1 returns: the oldest pending job that no one else has locked.
Claimable(j) == status[j] = "pending" /\ ~Locked(j)
NextInQueue(j) == Claimable(j) /\ \A k \in ahead[j] : ~Claimable(k)

LockNext(w) ==
    /\ wpc[w] = "idle"
    /\ \E j \in Jobs :
        /\ NextInQueue(j)
        /\ wjob' = [wjob EXCEPT ![w] = j]
    /\ wpc' = [wpc EXCEPT ![w] = "locked"]
    /\ UNCHANGED <<jobVars, result, solved, total, passed, pollVars, verdict>>

\* UPDATE ... SET status = 'running', started_at = NOW(), and the commit.
CommitClaim(w) ==
    /\ wpc[w] = "locked"
    /\ status'  = [status EXCEPT ![wjob[w]] = "running"]
    /\ started' = [started EXCEPT ![wjob[w]] = TRUE]
    /\ aged'    = [aged EXCEPT ![wjob[w]] = FALSE]
    /\ wpc' = [wpc EXCEPT
                 ![w] = IF wjob[w] \in Evals THEN "evaluating" ELSE "loading"]
    /\ UNCHANGED <<payload, ahead, result, solved, wjob, total, passed,
                   pollVars, verdict>>

\* test_case_limit: a submission is judged on every test case of its
\* problem, a run on the first DefaultTestCases.
CaseCounts(j) ==
    IF j \in Submits THEN 0 .. MaxCases
    ELSE {n \in 0 .. MaxCases : n <= DefaultTestCases}

LoadCases(w) ==
    /\ wpc[w] = "loading"
    /\ \E n \in CaseCounts(wjob[w]) : total' = [total EXCEPT ![w] = n]
    /\ passed' = [passed EXCEPT ![w] = 0]
    /\ wpc' = [wpc EXCEPT ![w] = "judging"]
    /\ UNCHANGED <<jobVars, result, solved, wjob, pollVars, verdict>>

\* One test case ran in time, exited with 0 and printed what was expected.
PassCase(w) ==
    /\ wpc[w] = "judging"
    /\ passed[w] < total[w]
    /\ passed' = [passed EXCEPT ![w] = @ + 1]
    /\ UNCHANGED <<jobVars, result, solved, wpc, wjob, total, pollVars,
                   verdict>>

Release(w) ==
    /\ wpc'    = [wpc EXCEPT ![w] = "idle"]
    /\ wjob'   = [wjob EXCEPT ![w] = NoJob]
    /\ total'  = [total EXCEPT ![w] = 0]
    /\ passed' = [passed EXCEPT ![w] = 0]

\* finish_job and its commit: the submission and the job are overwritten by
\* id, whatever they hold by now.
FinishJob(w, st, res, ok, n) ==
    /\ result'  = [result EXCEPT ![wjob[w]] = res]
    /\ status'  = [status EXCEPT ![wjob[w]] = st]
    /\ payload' = [payload EXCEPT ![wjob[w]] = [passed |-> ok, total |-> n]]
    /\ verdict' = [verdict EXCEPT ![wjob[w]] = res]
    /\ Release(w)
    /\ UNCHANGED <<started, ahead, aged, solved, pollVars>>

\* "테스트케이스가 없습니다."
NoTestCases(w) ==
    /\ wpc[w] = "judging"
    /\ total[w] = 0
    /\ FinishJob(w, "failed", "error", 0, 0)

\* The next test case used up, or found used up, the time of the whole job.
TimeOut(w) ==
    /\ wpc[w] = "judging"
    /\ passed[w] < total[w]
    /\ FinishJob(w, "timeout", "timeout", passed[w], total[w])

\* The next test case exited with an error.
RuntimeError(w) ==
    /\ wpc[w] = "judging"
    /\ passed[w] < total[w]
    /\ FinishJob(w, "failed", "error", passed[w], total[w])

\* The next test case printed something else: judging stops there.
Mismatch(w) ==
    /\ wpc[w] = "judging"
    /\ passed[w] < total[w]
    /\ FinishJob(w, "success", "wrong", passed[w], total[w])

\* Mutant: an empty list of test cases counts as passed.
AcceptVacuously(w) ==
    /\ wpc[w] = "judging"
    /\ passed[w] = total[w]
    /\ FinishJob(w, "success", "success", passed[w], total[w])

\* Every test case passed.
Accept(w) ==
    /\ wpc[w] = "judging"
    /\ total[w] > 0
    /\ passed[w] = total[w]
    /\ FinishJob(w, "success", "success", passed[w], total[w])

\* _finish_eval, which writes the job only: the outputs of the batch, or the
\* exception that ended it.
FinishEval(w, st) ==
    /\ status'  = [status EXCEPT ![wjob[w]] = st]
    /\ Release(w)
    /\ UNCHANGED <<started, payload, ahead, aged, result, solved, pollVars,
                   verdict>>

EvalDone(w) == wpc[w] = "evaluating" /\ FinishEval(w, "success")

\* An exception while executing: the transaction is rolled back.
Fail(w) ==
    /\ wpc[w] \in {"loading", "judging", "evaluating"}
    /\ wpc' = [wpc EXCEPT ![w] = "failing"]
    /\ UNCHANGED <<jobVars, result, solved, wjob, total, passed, pollVars,
                   verdict>>

\* The handler of that exception ends the job on a second connection.
ReportFailure(w) ==
    /\ wpc[w] = "failing"
    /\ IF wjob[w] \in Evals THEN FinishEval(w, "failed")
                            ELSE FinishJob(w, "failed", "error", 0, 0)

\* The process dies, or the exception handler fails too and the main loop
\* starts over: an open transaction is rolled back and its row lock goes.
Crash(w) ==
    /\ wpc[w] # "idle"
    /\ Release(w)
    /\ UNCHANGED <<jobVars, result, solved, pollVars, verdict>>

-----------------------------------------------------------------------------
(* The result request: submission_result and _expire_stale_job.  Each      *)
(* statement commits on its own.  A request about a submission that has no *)
(* job yet writes nothing and is left out.                                 *)

\* Mutant: only a running job can expire.
StaleIfRunning(s) == status[s] = "running" /\ aged[s]
Stale(s) == status[s] \in Active /\ aged[s]

\* Reads the job; the copy in memory alone decides whether it is expired.
ReadJob(p, s) ==
    /\ ppc[p] = "idle"
    /\ status[s] # "absent"
    /\ pjob' = [pjob EXCEPT ![p] = s]
    /\ ppc' = [ppc EXCEPT ![p] = IF Stale(s)
                                 THEN "expire_submission"
                                 ELSE "refresh_submission"]
    /\ UNCHANGED <<jobVars, result, solved, workerVars, seenResult,
                   seenStatus, verdict>>

\* Mutants: the submission is not decided; it gets the worker's word; the
\* job gets the submission's word.
ResultLeftPending == "pending"
ResultIsTimeout   == "timeout"
StatusIsError     == "error"
ExpiredResult     == "error"
ExpiredStatus     == "failed"

ExpireSubmission(p) ==
    /\ ppc[p] = "expire_submission"
    /\ result' = [result EXCEPT ![pjob[p]] = ExpiredResult]
    /\ ppc' = [ppc EXCEPT ![p] = "expire_job"]
    /\ UNCHANGED <<jobVars, solved, workerVars, pjob, seenResult, seenStatus,
                   verdict>>

\* The UPDATE waits while a worker's claim holds the row.
ExpireJob(p) ==
    /\ ppc[p] = "expire_job"
    /\ ~Locked(pjob[p])
    /\ status'  = [status EXCEPT ![pjob[p]] = ExpiredStatus]
    /\ payload' = [payload EXCEPT ![pjob[p]] = [passed |-> 0, total |-> 0]]
    /\ ppc' = [ppc EXCEPT ![p] = "refresh_submission"]
    /\ UNCHANGED <<started, ahead, aged, result, solved, workerVars, pjob,
                   seenResult, seenStatus, verdict>>

RefreshSubmission(p) ==
    /\ ppc[p] = "refresh_submission"
    /\ seenResult' = [seenResult EXCEPT ![p] = result[pjob[p]]]
    /\ ppc' = [ppc EXCEPT ![p] = "refresh_job"]
    /\ UNCHANGED <<jobVars, result, solved, workerVars, pjob, seenStatus,
                   verdict>>

RefreshJob(p) ==
    /\ ppc[p] = "refresh_job"
    /\ seenStatus' = [seenStatus EXCEPT ![p] = status[pjob[p]]]
    /\ ppc' = [ppc EXCEPT ![p] = "reply"]
    /\ UNCHANGED <<jobVars, result, solved, workerVars, pjob, seenResult,
                   verdict>>

EndRequest(p) ==
    /\ ppc'  = [ppc EXCEPT ![p] = "idle"]
    /\ pjob' = [pjob EXCEPT ![p] = NoJob]
    /\ seenResult' = [seenResult EXCEPT ![p] = "pending"]
    /\ seenStatus' = [seenStatus EXCEPT ![p] = "absent"]
    /\ UNCHANGED <<jobVars, result, workerVars, verdict>>

\* Mutant: every finished submission is rewarded.
Ended(p)  == seenStatus[p] \in Finished
Solved(p) == seenResult[p] = "success" /\ seenStatus[p] \in Finished

\* Awards solve_success (once per submission) and answers the browser.
Reply(p) ==
    /\ ppc[p] = "reply"
    /\ solved' = IF pjob[p] \in Submits /\ Solved(p)
                 THEN solved \cup {pjob[p]} ELSE solved
    /\ EndRequest(p)

\* The request's process is killed or a statement fails.
Abort(p) ==
    /\ ppc[p] # "idle"
    /\ UNCHANGED solved
    /\ EndRequest(p)

-----------------------------------------------------------------------------
Judge(w) == LoadCases(w) \/ PassCase(w) \/ NoTestCases(w) \/ TimeOut(w)
              \/ RuntimeError(w) \/ Mismatch(w) \/ Accept(w)

Work(w) == LockNext(w) \/ CommitClaim(w) \/ Judge(w) \/ EvalDone(w)
             \/ ReportFailure(w)

Serve(p) == ExpireSubmission(p) \/ ExpireJob(p) \/ RefreshSubmission(p)
              \/ RefreshJob(p) \/ Reply(p)

Next ==
    \/ \E j \in Jobs : Enqueue(j)
    \/ \E j \in Subs : Age(j)
    \/ \E w \in Workers : Work(w) \/ Fail(w) \/ Crash(w)
    \/ \E p \in Polls : Serve(p) \/ Abort(p) \/ \E s \in Subs : ReadJob(p, s)

Spec == Init /\ [][Next]_vars

\* The workers keep polling: each takes the next job when there is one and
\* goes on with the job it has (main is an endless loop that outlives every
\* exception).  Killed again and again, it still commits a claim at last.
WorkerFairness ==
    \A w \in Workers :
        /\ WF_vars(LockNext(w))
        /\ WF_vars(Judge(w) \/ EvalDone(w) \/ ReportFailure(w))
        /\ \A j \in Jobs : SF_vars(CommitClaim(w) /\ wjob[w] = j)

\* The browser keeps asking for s, and not every request that finds s
\* expired is cut short.  No worker dies in the claim of a job for ever.
PollFairness ==
    /\ \A s \in Subs :
        /\ WF_vars(Age(s))
        /\ SF_vars(\E p \in Polls : ReadJob(p, s))
        /\ \A p \in Polls : /\ SF_vars(ExpireSubmission(p) /\ pjob[p] = s)
                            /\ SF_vars(ExpireJob(p) /\ pjob[p] = s)
    /\ \A p \in Polls : WF_vars(Serve(p))
    /\ \A w \in Workers, j \in Jobs : SF_vars(CommitClaim(w) /\ wjob[w] = j)

-----------------------------------------------------------------------------
(* Safety.                                                                 *)

\* Two workers never work on one job, and the job a worker executes was
\* started and is running, unless a result request expired it meanwhile.
\* SKIP LOCKED and the pending filter of process_one are there for this.
ClaimExclusive ==
    /\ \A v, w \in Workers : wjob[v] = wjob[w] /\ v # w => wjob[v] = NoJob
    /\ \A w \in Workers : wpc[w] \in Executing =>
          /\ started[wjob[w]]
          /\ \/ status[wjob[w]] = "running"
             \/ status[wjob[w]] = "failed" /\ result[wjob[w]] = "error"

\* A job that is over has a verdict for the user: finish_job and
\* _expire_stale_job never leave a finished job whose submission is still
\* pending, even when a process dies between their writes.
FinishedHasVerdict ==
    \A s \in Subs : status[s] \in Finished => result[s] # "pending"

\* success, wrong and timeout are only ever published by the worker that
\* executed the job; a request may publish error and nothing else.
VerdictIsReal ==
    \A s \in Subs : result[s] \in {"success", "wrong", "timeout"}
                       => verdict[s] = result[s]

\* solve_success is awarded only for a submission that a worker accepted,
\* although the request decides on copies read by two separate queries and
\* the row may have been expired since.
RewardEarned == \A s \in solved : verdict[s] = "success"

\* While a job's status is success its payload is the count of the verdict:
\* all cases passed and there was at least one, or a case was missed.
ScoreMatches ==
    \A s \in Subs : status[s] = "success" =>
        /\ payload[s].total > 0
        /\ IF verdict[s] = "success" THEN payload[s].passed = payload[s].total
                                     ELSE payload[s].passed < payload[s].total

\* A job is executed at most once: it is never claimed again after it was
\* started, whoever crashed and whatever was written over it.
ClaimedOnce ==
    [][\A w \in Workers, j \in Jobs :
          wjob[w] = NoJob /\ wjob'[w] = j => ~started[j]]_vars

\* No overtaking: when a worker takes a job, every older job still pending
\* is in the hands of another worker.
FirstComeFirstServed ==
    [][\A w \in Workers, j \in Jobs :
          wjob[w] = NoJob /\ wjob'[w] = j =>
             \A k \in ahead[j] : status[k] = "pending" =>
                \E v \in Workers \ {w} : wjob[v] = k]_vars

-----------------------------------------------------------------------------
(* Liveness.  Each property states the fairness it needs.                  *)

\* The browser never waits indefinitely: a job whose result is asked for
\* again and again ends, even if every worker is dead (_expire_stale_job).
PolledJobFinishes ==
    PollFairness =>
        \A s \in Subs : status[s] \in Active ~> status[s] \in Finished

\* No pending job starves: a worker claims it unless a request expires it
\* first, although workers crash and no request may ever come.
PendingIsServed ==
    WorkerFairness =>
        \A j \in Jobs : status[j] = "pending" ~> status[j] # "pending"

-----------------------------------------------------------------------------
(* The inductive invariant behind the safety properties.                   *)

\* What a worker holds, and that nobody else decides a job it executes.
WorkerInv ==
    \A w \in Workers :
        /\ wpc[w] = "idle" <=> wjob[w] = NoJob
        /\ wpc[w] = "locked" => status[wjob[w]] = "pending"
        /\ wpc[w] \in {"loading", "judging"} => wjob[w] \in Subs
        /\ wpc[w] = "evaluating" => wjob[w] \in Evals
        /\ wpc[w] \in Executing =>
              /\ started[wjob[w]]
              /\ verdict[wjob[w]] = "pending"
              /\ wjob[w] \in Evals => status[wjob[w]] = "running"
              /\ wjob[w] \in Subs => status[wjob[w]] \in {"running", "failed"}
        /\ passed[w] <= total[w]

HolderInv ==
    \A v, w \in Workers : wjob[v] = wjob[w] /\ v # w => wjob[v] = NoJob

\* started_at is set by the claim, a verdict is found after it.
JobInv ==
    \A j \in Jobs :
        /\ status[j] \in {"absent", "pending"} => ~started[j]
        /\ verdict[j] # "pending" => started[j]

\* What a request knows between two of its statements.
PollInv ==
    \A p \in Polls :
        /\ ppc[p] = "idle" <=> pjob[p] = NoJob
        /\ ppc[p] # "idle" => status[pjob[p]] # "absent"
        /\ ppc[p] = "expire_job" => result[pjob[p]] # "pending"
        /\ ppc[p] \in {"refresh_job", "reply"} /\ seenResult[p] = "success"
              => verdict[pjob[p]] = "success"

\* The rows are in one order, that of their arrival: ahead is a strict
\* total order on them, and no row that comes later gets ahead of one.
OrderInv ==
    /\ \A j \in Jobs : j \notin ahead[j]
    /\ \A j, k \in Jobs : k \in ahead[j] =>
          status[j] # "absent" /\ status[k] # "absent"
    /\ \A j, k \in Jobs : status[j] # "absent" /\ status[k] # "absent" =>
          j = k \/ j \in ahead[k] \/ k \in ahead[j]
    /\ \A j, k \in Jobs : k \in ahead[j] => ahead[k] \subseteq ahead[j]

Inv ==
    /\ TypeOK
    /\ WorkerInv
    /\ HolderInv
    /\ JobInv
    /\ OrderInv
    /\ PollInv
    /\ FinishedHasVerdict
    /\ VerdictIsReal
    /\ RewardEarned
    /\ ScoreMatches

-----------------------------------------------------------------------------
(* What the documentation says and the code does not do.                   *)

\* Data model document: Submission.result is decided once.
ResultDecidedOnce ==
    [][\A s \in Subs : result[s] # "pending" => result'[s] = result[s]]_vars

\* Data model document: once the job is over the screen shows
\* submission_result as the final verdict, so a final answer has one.
FinalReplyHasVerdict ==
    \A p \in Polls : ppc[p] = "reply" /\ seenStatus[p] \in Finished
                        => seenResult[p] # "pending"

-----------------------------------------------------------------------------
(* The abstract specification this one implements.                         *)

Phase(s) == IF verdict[s] # "pending" THEN "judged"
            ELSE IF started[s] THEN "started" ELSE "queued"

Judging == INSTANCE Judging WITH
    phase   <- [s \in Subs |-> Phase(s)],
    outcome <- [s \in Subs |-> verdict[s]],
    board   <- result,
    awarded <- solved

\* The queue implements what its users are promised (Judging).
ImplementsJudging == Judging!Spec
=============================================================================
