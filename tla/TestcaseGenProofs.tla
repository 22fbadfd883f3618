------------------------- MODULE TestcaseGenProofs --------------------------
(* Proofs about TestcaseGen: its type invariant and its safety properties. *)
EXTENDS TestcaseGen, TLAPS

\* The invariant holds initially.
LEMMA Initially == Init => Inv
<1> SUFFICES ASSUME Init PROVE Inv
  OBVIOUS
<1>1. TypeOK
  <2>1. /\ lock \in Subs \cup {NoSub}
        /\ batches \in Nat
        /\ attempt \in [Subs -> 0 .. MaxFix]
    BY GenAssumption DEF Init
  <2>2. /\ sawCases \in [Subs -> BOOLEAN] /\ old \in [Subs -> BOOLEAN]
        /\ expired \in [Subs -> BOOLEAN] /\ job \in [Subs -> BOOLEAN]
        /\ late \in BOOLEAN /\ awaited \in [Subs -> SUBSET Subs]
    BY DEF Init
  <2>3. QED BY <2>1, <2>2 DEF Init, TypeOK
<1>2. LockInv /\ RoleInv /\ DecidedInv /\ WorkInv
  BY GenAssumption
     DEF Init, LockInv, RoleInv, DecidedInv, WorkInv, Working, Agent
<1>3. OneGenerator /\ SavedOnce /\ AwaitInv /\ QueuedInv
  BY DEF Init, OneGenerator, SavedOnce, AwaitInv, QueuedInv
<1>4. QED BY <1>1, <1>2, <1>3 DEF Inv

-----------------------------------------------------------------------------
(* The steps of the request.                                               *)

\* A lock that is free is taken, and what it shows stays true under it.
LEMMA LockProblemStep ==
    ASSUME Inv, NEW s \in Subs, LockProblem(s) PROVE Inv'
<1> USE GenAssumption
    DEF LockProblem, Unlocked, waitVars, agentVars, Inv, TypeOK
<1>1. TypeOK' BY DEF Thread, Agent
<1>2. LockInv' BY DEF LockInv
<1>3. RoleInv' BY DEF RoleInv, Agent
<1>4. WorkInv' BY DEF WorkInv, Working, Agent
<1>5. OneGenerator' /\ SavedOnce' BY DEF OneGenerator, SavedOnce
<1>6. QueuedInv' BY DEF QueuedInv
<1>7. DecidedInv' BY DEF DecidedInv, LockInv, ActiveMarker
<1>8. AwaitInv' BY DEF AwaitInv, RoleInv
<1>9. QED BY <1>1, <1>2, <1>3, <1>4, <1>5, <1>6, <1>7, <1>8

\* What a request decides is true when it decides.
LEMMA DecideStep ==
    ASSUME Inv, NEW s \in Subs, Decide(s) PROVE Inv'
<1> USE GenAssumption DEF Decide, waitVars, agentVars, Inv, TypeOK
<1>1. TypeOK' BY DEF Thread, Agent
<1>2. LockInv' BY DEF LockInv
<1>3. RoleInv' BY DEF RoleInv, LockInv, Agent
<1>4. WorkInv' BY DEF WorkInv, Working, Agent
<1>5. OneGenerator' /\ SavedOnce' BY DEF OneGenerator, SavedOnce
<1>6. QueuedInv' BY DEF QueuedInv, RoleInv
<1>7. DecidedInv'
  BY DEF DecidedInv, LockInv, RoleInv, ActiveMarker
<1>8. AwaitInv' BY DEF AwaitInv, RoleInv
<1>9. QED BY <1>1, <1>2, <1>3, <1>4, <1>5, <1>6, <1>7, <1>8

\* Under the lock a new generator is the only fresh one.
LEMMA CreateStep ==
    ASSUME Inv, NEW s \in Subs, Create(s) PROVE Inv'
<1> USE GenAssumption DEF Create, waitVars, agentVars, Inv, TypeOK
<1>1. TypeOK' BY DEF Thread, Agent
<1>2. LockInv' BY DEF LockInv
<1>3. RoleInv' BY DEF RoleInv, LockInv, Agent
<1>4. WorkInv'
  BY DEF WorkInv, Working, RoleInv, LockInv, DecidedInv, Agent
<1>5. OneGenerator'
  BY DEF OneGenerator, ActiveMarker, DecidedInv
<1>6. SavedOnce' BY DEF SavedOnce
<1>7. QueuedInv' BY DEF QueuedInv, RoleInv, LockInv, DecidedInv
<1>8. DecidedInv' BY DEF DecidedInv, LockInv
<1>9. AwaitInv' BY DEF AwaitInv, RoleInv
<1>10. QED BY <1>1, <1>2, <1>3, <1>4, <1>5, <1>6, <1>7, <1>8, <1>9

-----------------------------------------------------------------------------
(* The steps of a thread that change nothing but its place, its answers    *)
(* and its outcome.                                                        *)

\* A step to a place the submission's part allows keeps the invariant.
LEMMA WalkStep ==
    ASSUME Inv, NEW s \in Subs, NEW to \in Thread \cup {"dead"},
           UNCHANGED <<sawCases, role, marker, old, expired, batches, job,
                       late>>,
           pc' = [pc EXCEPT ![s] = to],
           lock' = IF lock = s THEN NoSub ELSE lock,
           attempt' \in [Subs -> 0 .. MaxFix],
           eval' \in [Subs -> {"none", "pending", "success", "failed"}],
           outcome' \in [Subs -> {"success", "failed"}],
           pc[s] \notin {"new", "done", "dead"},
           pc[s] \in {"locked", "decided"} => to = "dead",
           \/ awaited' = awaited
           \/ /\ pc[s] = "created"
              /\ \E T \in SUBSET {t \in Subs : marker[t] = "running"} :
                    awaited' = [awaited EXCEPT ![s] = T],
           to \in Agent \cup {"mark"} => role[s] = "winner",
           to \in Agent => pc[s] \in {"created"} \cup Agent,
           to = "wait" => role[s] = "loser",
           to = "enqueue" =>
              \/ role[s] = "winner"
              \/ role[s] = "loser" /\ (batches > 0 \/ expired[s]),
           to = "fix" => attempt'[s] < MaxFix,
           \A t \in Subs \ {s} : attempt'[t] = attempt[t]
    PROVE  Inv'
<1> USE GenAssumption DEF Inv, TypeOK
<1>1. TypeOK'
  <2>1. awaited' \in [Subs -> SUBSET Subs]
    OBVIOUS
  <2>2. pc' \in [Subs -> Thread \cup {"new", "locked", "decided", "created",
                                      "done", "dead"}]
    OBVIOUS
  <2>3. lock' \in Subs \cup {NoSub}
    OBVIOUS
  <2>4. QED BY <2>1, <2>2, <2>3
<1>2. LockInv' BY DEF LockInv, Thread, Agent
<1>3. RoleInv' BY DEF RoleInv, Thread, Agent
<1>4. WorkInv' BY DEF WorkInv, Working, Thread, Agent
<1>5. OneGenerator' /\ SavedOnce' BY DEF OneGenerator, SavedOnce
<1>6. QueuedInv' BY DEF QueuedInv, RoleInv
<1>7. DecidedInv' BY DEF DecidedInv, ActiveMarker, Thread, Agent
<1>8. AwaitInv'
  <2>1. ASSUME NEW t \in Subs, marker[t] = "running"
        PROVE  role[t] = "winner" /\ pc[t] # "decided"
    BY <2>1 DEF RoleInv, DecidedInv
  <2>2. CASE awaited' = awaited
    BY <2>2 DEF AwaitInv, Thread, Agent
  <2>3. CASE awaited' # awaited
    BY <2>1, <2>3 DEF AwaitInv, Thread, Agent
  <2>4. QED BY <2>2, <2>3
<1>9. QED BY <1>1, <1>2, <1>3, <1>4, <1>5, <1>6, <1>7, <1>8

\* Most steps of a thread are such steps.
LEMMA Walks ==
    ASSUME Inv, NEW s \in Subs,
           \/ StartThread(s) \/ CheckCases(s) \/ CallGenerate(s)
           \/ PostEval(s) \/ ReadEval(s) \/ EvalFails(s) \/ CallFix(s)
           \/ Wait(s) \/ Die(s)
    PROVE  Inv'
<1> USE GenAssumption
    DEF claimVars, waitVars, agentVars, Go, FailAgent, Agent, Thread
<1>0. TypeOK /\ RoleInv /\ (pc[s] \notin {"locked", "decided"} => lock # s)
  BY DEF Inv, LockInv
<1>1. CASE StartThread(s)
  <2>1. CASE role[s] = "winner"
    BY <1>0, <1>1, <2>1, WalkStep DEF StartThread, RoleInv, TypeOK
  <2>2. CASE role[s] # "winner"
    BY <1>0, <1>1, <2>2, WalkStep DEF StartThread, RoleInv, TypeOK
  <2>3. QED BY <2>1, <2>2
<1>2. CASE CheckCases(s)
  <2>1. CASE batches > 0
    BY <1>0, <1>2, <2>1, WalkStep DEF CheckCases, RoleInv, TypeOK
  <2>2. CASE ~(batches > 0)
    BY <1>0, <1>2, <2>2, WalkStep DEF CheckCases, RoleInv, TypeOK
  <2>3. QED BY <2>1, <2>2
<1>3. CASE CallGenerate(s)
  BY <1>0, <1>3, WalkStep DEF CallGenerate, RoleInv, TypeOK
<1>4. CASE PostEval(s)
  <2>1. CASE pc[s] = "seed"
    BY <1>0, <1>4, <2>1, WalkStep DEF PostEval, RoleInv, TypeOK
  <2>2. CASE pc[s] # "seed"
    BY <1>0, <1>4, <2>2, WalkStep DEF PostEval, RoleInv, TypeOK
  <2>3. QED BY <2>1, <2>2
<1>5. CASE ReadEval(s)
  BY <1>0, <1>5, WalkStep DEF ReadEval, CanFix, RoleInv, TypeOK
<1>6. CASE EvalFails(s)
  BY <1>0, <1>6, WalkStep DEF EvalFails, RoleInv, TypeOK
<1>7. CASE CallFix(s)
  <2>1. attempt[s] + 1 \in 0 .. MaxFix
    BY <1>0, <1>7 DEF CallFix, RoleInv, TypeOK
  <2>2. CASE /\ attempt' = [attempt EXCEPT ![s] = @ + 1]
             /\ Go(s, "solve")
             /\ UNCHANGED <<eval, outcome, batches>>
    <3>1. attempt' \in [Subs -> 0 .. MaxFix]
      BY <1>0, <2>1, <2>2 DEF TypeOK
    <3>2. pc[s] = "fix" /\ role[s] = "winner"
      BY <1>0, <1>7 DEF CallFix, RoleInv
    <3>3. lock' = IF lock = s THEN NoSub ELSE lock
      BY <1>0, <2>2, <3>2
    <3>4. QED
      BY <1>0, <2>2, <3>1, <3>2, <3>3, WalkStep DEF TypeOK
  <2>3. CASE FailAgent(s)
    BY <1>0, <1>7, <2>3, WalkStep DEF CallFix, RoleInv, TypeOK
  <2>4. QED BY <1>7, <2>2, <2>3 DEF CallFix
<1>8. CASE Wait(s)
  BY <1>0, <1>8, WalkStep DEF Wait, WaitOver, RoleInv, TypeOK
<1>9. CASE Die(s)
  BY <1>0, <1>9, WalkStep DEF Die, TypeOK
<1>10. QED
  BY <1>1, <1>2, <1>3, <1>4, <1>5, <1>6, <1>7, <1>8, <1>9

-----------------------------------------------------------------------------
(* The steps that save, mark and queue, and those of time and the worker.  *)

\* The only generator at work saves the first batch, unless it is late.
LEMMA SaveStep ==
    ASSUME Inv, NEW s \in Subs, SaveCases(s) PROVE Inv'
<1> USE GenAssumption
    DEF claimVars, waitVars, agentVars, Go, FailAgent, Agent, Thread
<1>0. TypeOK /\ RoleInv /\ (pc[s] \notin {"locked", "decided"} => lock # s)
  BY DEF Inv, LockInv
<1>1. CASE batches' = batches
  BY <1>0, <1>1, WalkStep DEF SaveCases, RoleInv, TypeOK
<1>2. CASE /\ lock = NoSub /\ batches' = batches + 1
           /\ Go(s, "mark") /\ UNCHANGED agentVars
  <2> USE <1>2 DEF SaveCases, Inv, TypeOK
  <2>1. TypeOK'
    OBVIOUS
  <2>2. LockInv' /\ RoleInv'
    BY DEF LockInv, RoleInv
  <2>3. ASSUME ~late, NEW t \in Subs \ {s} PROVE ~Working(t)
    BY <2>3 DEF WorkInv, Working, RoleInv, OneGenerator
  <2>4. WorkInv'
    BY <2>3 DEF WorkInv, Working
  <2>5. SavedOnce' /\ OneGenerator' /\ QueuedInv'
    BY DEF SavedOnce, OneGenerator, QueuedInv, WorkInv, Working, RoleInv
  <2>6. DecidedInv' /\ AwaitInv'
    BY DEF DecidedInv, ActiveMarker, AwaitInv
  <2>7. QED BY <2>1, <2>2, <2>4, <2>5, <2>6
<1>3. QED BY <1>0, <1>1, <1>2 DEF SaveCases, TypeOK

\* A generator that is done gives up its marker.
LEMMA MarkStep ==
    ASSUME Inv, NEW s \in Subs, Mark(s) PROVE Inv'
<1> USE DEF Mark, claimVars, waitVars, agentVars, Inv, TypeOK
<1>1. TypeOK'
  BY DEF Thread
<1>2. LockInv' /\ RoleInv'
  BY DEF LockInv, RoleInv, Agent
<1>3. WorkInv'
  BY DEF WorkInv, Working, Agent
<1>4. OneGenerator' /\ SavedOnce' /\ QueuedInv'
  BY DEF OneGenerator, SavedOnce, QueuedInv, RoleInv
<1>5. DecidedInv' /\ AwaitInv'
  BY DEF DecidedInv, ActiveMarker, AwaitInv
<1>6. QED BY <1>1, <1>2, <1>3, <1>4, <1>5

\* Only a thread whose work or wait is over queues a job.
LEMMA EnqueueStep ==
    ASSUME Inv, NEW s \in Subs, EnqueueJob(s) PROVE Inv'
<1> USE DEF EnqueueJob, claimVars, waitVars, agentVars, Inv, TypeOK
<1>1. TypeOK'
  OBVIOUS
<1>2. LockInv' /\ RoleInv'
  BY DEF LockInv, RoleInv, Agent
<1>3. WorkInv'
  BY DEF WorkInv, Working, Agent
<1>4. OneGenerator' /\ SavedOnce' /\ QueuedInv'
  BY DEF OneGenerator, SavedOnce, QueuedInv, RoleInv
<1>5. DecidedInv' /\ AwaitInv'
  BY DEF DecidedInv, ActiveMarker, AwaitInv
<1>6. QED BY <1>1, <1>2, <1>3, <1>4, <1>5

\* Answers of the worker and the passing of time.
LEMMA OutsideStep ==
    ASSUME Inv, NEW s \in Subs, AnswerEval(s) \/ AgeMarker(s) \/ Expire(s)
    PROVE  Inv'
<1> USE DEF claimVars, waitVars, agentVars, Inv, TypeOK
<1>1. CASE AnswerEval(s)
  BY <1>1 DEF AnswerEval, LockInv, RoleInv, DecidedInv, ActiveMarker,
              WorkInv, Working, OneGenerator, SavedOnce, AwaitInv, QueuedInv
<1>2. CASE AgeMarker(s)
  <2>1. TypeOK' /\ LockInv' /\ RoleInv'
    BY <1>2 DEF AgeMarker, LockInv, RoleInv
  <2>2. WorkInv'
    BY <1>2 DEF AgeMarker, WorkInv, Working, Agent
  <2>3. OneGenerator' /\ SavedOnce' /\ QueuedInv'
    BY <1>2 DEF AgeMarker, OneGenerator, SavedOnce, QueuedInv
  <2>4. DecidedInv' /\ AwaitInv'
    BY <1>2 DEF AgeMarker, DecidedInv, ActiveMarker, AwaitInv
  <2>5. QED BY <2>1, <2>2, <2>3, <2>4
<1>3. CASE Expire(s)
  BY <1>3 DEF Expire, Due, LockInv, RoleInv, DecidedInv, ActiveMarker,
              WorkInv, Working, OneGenerator, SavedOnce, AwaitInv, QueuedInv
<1>4. QED BY <1>1, <1>2, <1>3

-----------------------------------------------------------------------------
(* The theorems.                                                           *)

\* The invariant is inductive.
LEMMA InductiveStep == Inv /\ [Next]_vars => Inv'
<1> SUFFICES ASSUME Inv, [Next]_vars PROVE Inv'
  OBVIOUS
<1>1. CASE UNCHANGED vars
  BY <1>1
     DEF vars, claimVars, waitVars, agentVars, Inv, TypeOK, LockInv, RoleInv,
         DecidedInv, ActiveMarker, WorkInv, Working, OneGenerator, SavedOnce,
         AwaitInv, QueuedInv
<1>2. ASSUME NEW s \in Subs,
             \/ Request(s) \/ RunThread(s) \/ AnswerEval(s)
             \/ AgeMarker(s) \/ Expire(s) \/ Die(s)
      PROVE  Inv'
  BY <1>2, LockProblemStep, DecideStep, CreateStep, Walks, SaveStep, MarkStep,
     EnqueueStep, OutsideStep
     DEF Request, RunThread, Generate
<1>3. QED BY <1>1, <1>2 DEF Next

\* The invariant that the properties below are read from.
THEOREM Invariance == Spec => []Inv
BY Initially, InductiveStep, PTL DEF Spec

\* The variables keep their types for any number of submissions and repairs:
\* the agent never repairs a solution more than max_fix times.
THEOREM TypeCorrect == Spec => []TypeOK
BY Invariance, PTL DEF Inv

\* There is one generator at a time, as far as fresh markers tell.
THEOREM GeneratorIsAlone == Spec => []OneGenerator
BY Invariance, PTL DEF Inv

\* Test cases are saved once if no generator outlives its marker.
THEOREM CasesSavedOnce == Spec => []SavedOnce
BY Invariance, PTL DEF Inv

\* At a deadline the markers that were found are old, so a generator that
\* is still at work is late.
LEMMA WaitsLongEnough == Inv => JobsFindCases
<1> SUFFICES ASSUME Inv, NEW s \in Subs, job[s], ~(batches > 0),
                    role[s] = "loser", NEW t \in awaited[s], Working(t)
             PROVE  old[t]
  BY DEF Inv, QueuedInv, JobsFindCases
<1>1. expired[s] /\ t \in Subs
  BY DEF Inv, QueuedInv, TypeOK
<1>2. marker[t] = "running"
  BY <1>1 DEF Inv, WorkInv
<1>3. QED BY <1>1, <1>2 DEF Inv, AwaitInv

\* No job is queued ahead of the test cases, save by a thread that has tried
\* to generate them, or one whose generators have ended without any or are
\* still at work after their markers got old.
THEOREM NoJobAheadOfCases == Spec => []JobsFindCases
BY Invariance, WaitsLongEnough, PTL
=============================================================================
