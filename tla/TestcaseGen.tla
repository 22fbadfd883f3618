---------------------------- MODULE TestcaseGen -----------------------------
(***************************************************************************)
(* The first submissions to a problem that has no test cases: the request  *)
(* that creates each submission (_create_code_job), the thread it starts   *)
(* (_generate_then_enqueue, django/submissions/views.py), and the agent    *)
(* that a winning thread runs (django/problems/services/testcase_agent.py) *)
(* with the worker as the one that answers its code_eval jobs.             *)
(*                                                                         *)
(* Problems do not share rows, so there is one problem here.  A submission *)
(* stands for its request and then for its thread.  Time is abstracted to  *)
(* two bits, both about TESTCASE_GEN_TIMEOUT_SEC: a marker is old, and the *)
(* deadline of a waiting thread has passed.                                *)
(***************************************************************************)
EXTENDS Naturals

CONSTANTS
    Subs,    \* the submissions
    MaxFix,  \* max_fix: how often the solution is repaired
    NoSub    \* nobody

ASSUME GenAssumption == MaxFix \in Nat /\ NoSub \notin Subs

VARIABLES
    lock,     \* the request that holds the lock on the problem's row
    pc,       \* where the request or thread of each submission is
    sawCases, \* what the request found under the lock
    role,     \* what the request decided the submission is
    marker,   \* status of the testcase_gen job it created
    old,      \* that marker is older than TESTCASE_GEN_TIMEOUT_SEC
    expired,  \* the deadline of a waiting thread has passed
    awaited,  \* the generators with a marker when that deadline was set
    attempt,  \* how often the agent has repaired the solution
    eval,     \* status of the code_eval job the agent polls
    outcome,  \* what the agent's end is to be recorded as
    batches,  \* number of batches of test cases saved for the problem
    job,      \* the submission has an ExecutionJob
    late      \* history: a marker got old while its thread was at work

claimVars == <<lock, sawCases, role>>
agentVars == <<attempt, eval, outcome>>
waitVars  == <<expired, awaited>>
vars == <<claimVars, pc, marker, old, waitVars, agentVars, batches, job, late>>

Agent == {"check", "generate", "seed", "seeding", "solve", "solving", "fix",
          "save"}
Thread == Agent \cup {"mark", "wait", "enqueue"}

TypeOK ==
    /\ lock \in Subs \cup {NoSub}
    /\ pc \in [Subs -> Thread \cup {"new", "locked", "decided", "created",
                                    "done", "dead"}]
    /\ sawCases \in [Subs -> BOOLEAN]
    /\ role \in [Subs -> {"none", "direct", "winner", "loser"}]
    /\ marker \in [Subs -> {"none", "running", "success", "failed"}]
    /\ old \in [Subs -> BOOLEAN]
    /\ expired \in [Subs -> BOOLEAN]
    /\ awaited \in [Subs -> SUBSET Subs]
    /\ attempt \in [Subs -> 0 .. MaxFix]
    /\ eval \in [Subs -> {"none", "pending", "success", "failed"}]
    /\ outcome \in [Subs -> {"success", "failed"}]
    /\ batches \in Nat
    /\ job \in [Subs -> BOOLEAN]
    /\ late \in BOOLEAN

Init ==
    /\ lock = NoSub
    /\ pc = [s \in Subs |-> "new"]
    /\ sawCases = [s \in Subs |-> FALSE]
    /\ role = [s \in Subs |-> "none"]
    /\ marker = [s \in Subs |-> "none"]
    /\ old = [s \in Subs |-> FALSE]
    /\ expired = [s \in Subs |-> FALSE]
    /\ awaited = [s \in Subs |-> {}]
    /\ attempt = [s \in Subs |-> 0]
    /\ eval = [s \in Subs |-> "none"]
    /\ outcome = [s \in Subs |-> "success"]
    /\ batches = 0
    /\ job = [s \in Subs |-> FALSE]
    /\ late = FALSE

-----------------------------------------------------------------------------
(* The request: _create_code_job.                                          *)

\* Mutant: get() without select_for_update.
NeverLocked == TRUE
Unlocked == lock = NoSub

\* SELECT ... FOR UPDATE on the problem, and has_tcs.
LockProblem(s) ==
    /\ pc[s] = "new"
    /\ Unlocked
    /\ lock' = s
    /\ sawCases' = [sawCases EXCEPT ![s] = batches > 0]
    /\ pc' = [pc EXCEPT ![s] = "locked"]
    /\ UNCHANGED <<role, marker, old, waitVars, agentVars, batches, job, late>>

\* Mutant: the filter on the status misses the running ones.
NoActiveMarker == FALSE

\* _active_gen_marker.
ActiveMarker == \E t \in Subs : marker[t] = "running" /\ ~old[t]

\* The markers are read: the submission gets its job at once (direct), has
\* to generate the test cases (winner), or waits for them (loser).
Decide(s) ==
    /\ pc[s] = "locked"
    /\ role' = [role EXCEPT ![s] = IF sawCases[s] THEN "direct"
                                   ELSE IF ActiveMarker THEN "loser"
                                   ELSE "winner"]
    /\ pc' = [pc EXCEPT ![s] = "decided"]
    /\ UNCHANGED <<lock, sawCases, marker, old, waitVars, agentVars, batches,
                   job, late>>

\* The submission commits with its job or with its marker.
Create(s) ==
    /\ pc[s] = "decided"
    /\ lock' = NoSub
    /\ job' = [job EXCEPT ![s] = role[s] = "direct"]
    /\ marker' = [marker EXCEPT ![s] =
                     IF role[s] = "winner" THEN "running" ELSE "none"]
    /\ pc' = [pc EXCEPT ![s] = IF role[s] = "direct" THEN "done"
                               ELSE "created"]
    /\ UNCHANGED <<sawCases, role, old, waitVars, agentVars, batches, late>>

\* Points are awarded (module Rewards), then the thread starts; one that has
\* to wait sets its deadline.
StartThread(s) ==
    /\ pc[s] = "created"
    /\ pc' = [pc EXCEPT ![s] = IF role[s] = "winner" THEN "check" ELSE "wait"]
    /\ awaited' = [awaited EXCEPT ![s] =
                      IF role[s] = "winner" THEN {}
                      ELSE {t \in Subs : marker[t] = "running"}]
    /\ UNCHANGED <<claimVars, marker, old, expired, agentVars, batches, job,
                   late>>

-----------------------------------------------------------------------------
(* The thread of the winner: generate_and_save.                            *)

Go(s, to) ==
    /\ pc' = [pc EXCEPT ![s] = to]
    /\ UNCHANGED <<claimVars, marker, old, waitVars, job, late>>

\* Any exception of the agent: the marker will say failed.
FailAgent(s) ==
    /\ outcome' = [outcome EXCEPT ![s] = "failed"]
    /\ Go(s, "mark")
    /\ UNCHANGED <<attempt, eval, batches>>

CheckCases(s) ==
    /\ pc[s] = "check"
    /\ Go(s, IF batches > 0 THEN "mark" ELSE "generate")
    /\ UNCHANGED <<agentVars, batches>>

\* The language model is asked for a solution, a generator and inputs.
CallGenerate(s) ==
    /\ pc[s] = "generate"
    /\ \/ Go(s, "seed") /\ UNCHANGED <<agentVars, batches>>
       \/ FailAgent(s)

\* _eval_batch creates a job: the generator's seeds, or the solution's
\* inputs.
PostEval(s) ==
    /\ pc[s] \in {"seed", "solve"}
    /\ eval' = [eval EXCEPT ![s] = "pending"]
    /\ Go(s, IF pc[s] = "seed" THEN "seeding" ELSE "solving")
    /\ UNCHANGED <<attempt, outcome, batches>>

\* A worker finishes the job (module JobQueue), in time or not.
AnswerEval(s) ==
    /\ eval[s] = "pending"
    /\ \E st \in {"success", "failed"} : eval' = [eval EXCEPT ![s] = st]
    /\ UNCHANGED <<claimVars, pc, marker, old, waitVars, attempt, outcome,
                   batches, job, late>>

\* Mutant: off by one.
CanFixOnceMore(s) == attempt[s] <= MaxFix
CanFix(s) == attempt[s] < MaxFix

\* The answer is read: seeds become inputs; a solution that crashes on one
\* is repaired as long as max_fix allows, and used as it is after that.
ReadEval(s) ==
    /\ pc[s] \in {"seeding", "solving"}
    /\ eval[s] = "success"
    /\ \/ pc[s] = "seeding" /\ Go(s, "solve")
       \/ pc[s] = "solving" /\ Go(s, "save")
       \/ pc[s] = "solving" /\ CanFix(s) /\ Go(s, "fix")
    /\ UNCHANGED <<agentVars, batches>>

\* The job failed, or the time to poll it is over while it waits.
EvalFails(s) ==
    /\ pc[s] \in {"seeding", "solving"}
    /\ eval[s] \in {"failed", "pending"}
    /\ FailAgent(s)

CallFix(s) ==
    /\ pc[s] = "fix"
    /\ \/ /\ attempt' = [attempt EXCEPT ![s] = @ + 1]
          /\ Go(s, "solve")
          /\ UNCHANGED <<eval, outcome, batches>>
       \/ FailAgent(s)

\* bulk_create, if an input survived.  The foreign keys are checked at the
\* commit, which waits for the lock on the problem.
SaveCases(s) ==
    /\ pc[s] = "save"
    /\ \/ lock = NoSub /\ batches' = batches + 1 /\ Go(s, "mark")
                       /\ UNCHANGED agentVars
       \/ Go(s, "mark") /\ UNCHANGED <<batches, agentVars>>
       \/ FailAgent(s)

\* The marker is finished, by id; if that fails the job is queued anyhow.
Mark(s) ==
    /\ pc[s] = "mark"
    /\ \/ marker' = [marker EXCEPT ![s] = outcome[s]]
       \/ UNCHANGED marker
    /\ pc' = [pc EXCEPT ![s] = "enqueue"]
    /\ UNCHANGED <<claimVars, old, waitVars, agentVars, batches, job, late>>

-----------------------------------------------------------------------------
(* The thread of a loser, and what both kinds of thread end with.          *)

\* Mutant: no deadline.
CasesFound(s) == batches > 0
WaitOver(s) == batches > 0 \/ expired[s]

Wait(s) ==
    /\ pc[s] = "wait"
    /\ WaitOver(s)
    /\ Go(s, "enqueue")
    /\ UNCHANGED <<agentVars, batches>>

EnqueueJob(s) ==
    /\ pc[s] = "enqueue"
    /\ job' = [job EXCEPT ![s] = TRUE]
    /\ pc' = [pc EXCEPT ![s] = "done"]
    /\ UNCHANGED <<claimVars, marker, old, waitVars, agentVars, batches, late>>

-----------------------------------------------------------------------------
(* Time and failures.                                                      *)

\* The marker gets too old to count, whatever its thread is doing.
AgeMarker(s) ==
    /\ marker[s] = "running"
    /\ ~old[s]
    /\ old' = [old EXCEPT ![s] = TRUE]
    /\ late' = (late \/ pc[s] \in {"created"} \cup Agent)
    /\ UNCHANGED <<claimVars, pc, marker, waitVars, agentVars, batches, job>>

\* Mutant: a deadline that is shorter than the life of a marker.
DueEarly(s) == TRUE

\* Deadline and markers live TESTCASE_GEN_TIMEOUT_SEC, and the markers that
\* the thread found were there before its deadline was set.
Due(s) == \A t \in awaited[s] : marker[t] = "running" => old[t]

Expire(s) ==
    /\ pc[s] = "wait"
    /\ ~expired[s]
    /\ Due(s)
    /\ expired' = [expired EXCEPT ![s] = TRUE]
    /\ UNCHANGED <<claimVars, pc, marker, old, awaited, agentVars, batches,
                   job, late>>

\* The request fails before the thread is started, or the process dies with
\* its daemon threads, or the job cannot be inserted: the locks go, what was
\* committed stays.
Die(s) ==
    /\ pc[s] \notin {"new", "done", "dead"}
    /\ lock' = IF lock = s THEN NoSub ELSE lock
    /\ pc' = [pc EXCEPT ![s] = "dead"]
    /\ UNCHANGED <<sawCases, role, marker, old, waitVars, agentVars, batches,
                   job, late>>

-----------------------------------------------------------------------------
Request(s) == LockProblem(s) \/ Decide(s) \/ Create(s)
Generate(s) ==
    \/ CheckCases(s) \/ CallGenerate(s) \/ PostEval(s) \/ ReadEval(s)
    \/ EvalFails(s) \/ CallFix(s) \/ SaveCases(s) \/ Mark(s)
RunThread(s) == StartThread(s) \/ Generate(s) \/ Wait(s) \/ EnqueueJob(s)

Next == \E s \in Subs : Request(s) \/ RunThread(s) \/ AnswerEval(s)
                          \/ AgeMarker(s) \/ Expire(s) \/ Die(s)

Spec == Init /\ [][Next]_vars

\* Threads run, the calls they make return (the agent's have time limits),
\* and time passes.  No worker need ever answer.
ThreadFairness ==
    \A s \in Subs :
        WF_vars(RunThread(s)) /\ WF_vars(AgeMarker(s)) /\ WF_vars(Expire(s))

-----------------------------------------------------------------------------
(* Safety.                                                                 *)

\* No two submissions are generators at a time, as far as fresh markers
\* tell: the lock makes reading the markers and adding one a single step.
OneGenerator ==
    \A s, t \in Subs :
        /\ marker[s] = "running" /\ ~old[s]
        /\ marker[t] = "running" /\ ~old[t]
        => s = t

\* The test cases of a problem are generated and saved once, provided that
\* no generator is still at work when its marker is too old to count.
SavedOnce == ~late => batches <= 1

\* A generator at work: from its marker to the save of its test cases.
Working(s) == role[s] = "winner" /\ pc[s] \in {"created"} \cup Agent

\* A job is queued before there are test cases only if its thread has tried
\* to generate them itself, or if the generators it waited for have all
\* ended without any or are still at work after their markers got old: the
\* wait never ends while a generator in time is about to save them.
JobsFindCases ==
    \A s \in Subs : job[s] =>
        \/ batches > 0
        \/ role[s] = "winner" /\ pc[s] = "done"
        \/ role[s] = "loser" /\ \A t \in awaited[s] : Working(t) => old[t]

-----------------------------------------------------------------------------
(* The inductive invariant behind the safety properties.                   *)

LockInv ==
    \A s \in Subs :
        /\ pc[s] \in {"locked", "decided"} <=> lock = s
        /\ lock = s => (sawCases[s] <=> batches > 0)

\* The part a submission has, and the marker and the job that go with it.
RoleInv ==
    \A s \in Subs :
        /\ pc[s] \in {"new", "locked"} => role[s] = "none" /\ ~job[s]
        /\ pc[s] = "decided" => role[s] # "none" /\ ~job[s]
        /\ pc[s] = "created" => role[s] \in {"winner", "loser"}
        /\ pc[s] \in Agent \cup {"mark"} => role[s] = "winner"
        /\ pc[s] = "wait" => role[s] = "loser"
        /\ pc[s] = "enqueue" => role[s] \in {"winner", "loser"}
        /\ pc[s] = "enqueue" /\ role[s] = "loser" => batches > 0 \/ expired[s]
        /\ marker[s] # "none" => role[s] = "winner"
        /\ pc[s] = "fix" => attempt[s] < MaxFix
        /\ job[s] => pc[s] = "done"
        /\ role[s] = "none" => marker[s] = "none" /\ ~old[s]

\* What was read under the lock is still so when the submission commits.
DecidedInv ==
    \A s \in Subs : pc[s] = "decided" =>
        /\ marker[s] = "none" /\ ~old[s]
        /\ role[s] = "direct" <=> sawCases[s]
        /\ role[s] = "winner" => ~ActiveMarker

WorkInv ==
    \A s \in Subs : Working(s) =>
        /\ marker[s] = "running"
        /\ ~late => ~old[s] /\ batches = 0

\* Generators that a thread waits for have a marker or had one; at its
\* deadline those markers are old.
AwaitInv ==
    \A s \in Subs :
        /\ expired[s] =>
              role[s] = "loser" /\ pc[s] \notin {"decided", "created"}
        /\ \A t \in awaited[s] :
              /\ role[t] = "winner" /\ pc[t] # "decided"
              /\ expired[s] /\ marker[t] = "running" => old[t]

\* Only a thread that has waited, or generated, queues a job early.
QueuedInv ==
    \A s \in Subs : job[s] =>
        \/ batches > 0
        \/ role[s] = "loser" /\ expired[s]
        \/ role[s] = "winner" /\ pc[s] = "done"

Inv ==
    /\ TypeOK
    /\ LockInv
    /\ RoleInv
    /\ DecidedInv
    /\ WorkInv
    /\ OneGenerator
    /\ SavedOnce
    /\ AwaitInv
    /\ QueuedInv

-----------------------------------------------------------------------------
(* Liveness.                                                               *)

\* A submission whose process lives gets its job, with or without test
\* cases, whatever the agent, the workers and the other threads do.
JobIsQueued ==
    ThreadFairness =>
        \A s \in Subs : pc[s] = "created" ~> job[s] \/ pc[s] = "dead"

-----------------------------------------------------------------------------
(* What the documentation says and the code does not do.                   *)

\* FR-EXEC-004: the lock and the marker prevent duplicate generation.
NeverSavedTwice == batches <= 1
=============================================================================
