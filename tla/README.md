# A verification development of WOOK'S CODING

The repository is a service where learners solve programming problems: a
Django application keeps users, problems, submissions, points and notes in
PostgreSQL; worker processes judge the submitted code; a FastAPI service talks
to a language model and to a vector database. This directory holds TLA+
modules of the parts where processes meet, the TLC configurations that check
them on small instances, and proofs of the main properties for every instance.

## The system

### Parts, their state and their operations

| part | state | operations | who calls it |
|---|---|---|---|
| judging queue (`submissions_executionjob`) | jobs with type, status, `started_at`, payload; `Submission.result` | enqueue, claim, finish, expire | web application, worker, test case agent |
| worker (`worker/main.py`) | the job it holds, the cases it fetched and passed | `process_one`, `process_eval`, `finish_job` | its own endless loop |
| submission requests (`django/submissions/views.py`) | none between requests; daemon threads | `_create_code_job`, `submission_result`, `_expire_stale_job`, `_generate_then_enqueue` | browser |
| test case agent (`django/problems/services/testcase_agent.py`) | the thread's progress, its `code_eval` jobs, the problem's test cases | `generate_and_save`, `_eval_batch`, `_run_solution` | a thread of a submission request |
| points, levels, missions (`django/gamification/services.py`) | `PointLog`, `point` and `level` of the user, `UserMission` | `record_user_action`, `award_points`, `advance_missions` | submission, result, note and review requests |
| account pages (`django/mypage/views.py`) | the user's row, an audit log, a session flag | change e-mail, avatar, password; delete | browser |
| wrong notes (`django/wrongnotes`) | a note with its status and analysis, the meta row of its vectors | create, review, hide, restore | browser; calls the AI proxy |
| coding state (`django/codingstate`) | one summary per user with its submission count | refresh, ensure_fresh, batch_refresh | note requests, a command |
| AI proxy (`django/ai_proxy`) | a log row per call, an error row per failure | `call_fastapi`, the pages that pass answers on | everything that needs the language model |
| vector index (`fastapi_app/services/chroma.py`) | the chunks of every note | embed (delete, then upsert), search | FastAPI handlers |
| language model services (`fastapi_app/services`) | none | prompts and parsing | AI proxy |
| solve page (`django/static/js/problem_solve.js`) | editor, draft, boxes, buttons, mode, hints | type, reset, run, submit, poll, ask for a hint | the learner; calls the submission requests and the AI proxy |

The parts meet in the database. Requests commit every statement on its own
(there is no `ATOMIC_REQUESTS`), at PostgreSQL's READ COMMITTED; only
`_create_code_job` and `award_points` open transactions. So what protects the
data is row locks (`FOR UPDATE SKIP LOCKED` of the worker, `select_for_update`
of the problem, the lock an UPDATE takes on the user's row), unique constraints
(`uniq_point_award`, `uniq_user_mission`), and the order of the statements.

### What is hard about it

* A worker and a result request decide the same job without talking to each
  other: the request expires what it believes is late, the worker overwrites by
  id what it finished. Either may die between its statements.
* The first submissions to a problem without test cases elect a generator by a
  marker row that simply gets old, while the generator may still be at work.
* The same action is reported again and again (each poll of a solved
  submission), from several tabs, and must be rewarded once.
* Values are read into memory, changed and saved: the progress of a mission,
  the previous coding state, and the whole user row in the password form.
* Calls to FastAPI take up to two minutes and fail in many ways; what was
  written before them stays. The handlers treat an empty answer of the language
  model in four ways, and a failure is logged at two places of the client.
* The page waits for minutes while the learner goes on, and puts its verdict
  together from two reads between which the worker commits.

The deployment starts one synchronous gunicorn process (no `--workers`), which
`WEB_CONCURRENCY`, `--threads` or the development server change, and the code
speaks of concurrent requests (`submissions/views.py:171,187`). The models let
any number of requests run. Of the divergences below, `queue_decided_once`,
`queue_final_reply` and `testcases_saved_twice` need only one request at a time
(next to a worker, or to the threads that requests leave behind);
`rewards_points_paid`, `rewards_progress` and `wrongnotes_unique` need two.

## Modules

| module | what it is |
|---|---|
| `JobQueue` | the queue, the workers, the result requests |
| `Judging` | the abstract specification of the queue: what is promised to those who submit |
| `JobQueueProofs` | inductive invariant, safety, and refinement of `Judging` |
| `Points` | the tables of levels and avatars, and what a set of rewards pays |
| `Rewards`, `RewardsProofs` | points, level, avatar and missions of one user, with the account pages |
| `Account` | the abstract specification of a user's row: what is paid, worn and put back |
| `TestcaseGen`, `TestcaseGenProofs` | creating submissions to one problem, the threads, the agent |
| `WrongNotes`, `WrongNotesProofs` | the notes about one submission, the AI server's index, reviews |
| `AIProxy` | one call of the AI server, its log and error rows, the answers of the handlers |
| `CodingState`, `CodingStateProofs` | the refreshes of the summaries (hook, command, batch) and the pages, over `AIProxy` |
| `SolvePage`, `SolvePageProofs` | the page on which a problem is solved, against a worker and the result request |
| `OutputCompare` | what is kept of a program's output, and `compare_output`, as functions of texts |
| `NoteSearch` | the chunks of a note, and the ranking of a search, as functions |
| `Recursion` | induction over numbers, and that recursive definitions have the function they describe |
| `TextProofs` | theorems about `OutputCompare` and `NoteSearch` |
| `MC...` | definitions the configurations need (symmetry, an instance of the missions), and the checks of the functions on short texts |

`TestcaseGen` and `JobQueue` share two borders: a thread's `EnqueueJob` is
`Enqueue` there, and the agent's `PostEval`/`AnswerEval` are `Enqueue` and the
worker's finish of a `code_eval` job there. `JobQueue`'s `Reply` and
`TestcaseGen`'s `StartThread` call `record_user_action`, which is `Rewards`, and
so do `Award` and `AwardReview` of `WrongNotes`. The hook at the end of a post of
`WrongNotes` is `StartHook` of `CodingState`. `SolvePage` has the server side of
its submission in short, from the same lines as `JobQueue` (`ReadJob` to
`ReadStatus`, `Claim`, `Judge`), since what matters there is which pair of reads
the page gets.

### JobQueue

One step is one statement or transaction. A submission has at most one
`code_run` or `code_submit` job (the thread enqueues only if there is none), so
they share an identity; `code_eval` jobs stand alone.

* The claim is two steps, because the row lock taken by `SELECT ... FOR UPDATE
  SKIP LOCKED LIMIT 1` (`LockNext`) is held until the commit (`CommitClaim`),
  and another worker skips it meanwhile. A crash in between gives it back.
* `LoadCases`, `PassCase` and the six ways to finish are the loop over the test
  cases: which one happens is up to the submitted code. A failed statement goes
  through `Fail` and `ReportFailure`; `Crash` is the process, or the handler
  itself, failing.
* `ReadJob` decides on the copy whether the job is stale; `ExpireSubmission`
  and `ExpireJob` write; `RefreshSubmission` and `RefreshJob` read what the
  answer will say; `Reply` rewards. `Abort` may come before any of them.
* Time is one bit per job, `aged`: its reference time (`started_at`, or
  `created_at` before that) is `CODE_JOB_RESULT_TIMEOUT_SEC` ago. The claim
  resets it, because it sets `started_at`.
* `ahead[j]` are the jobs before `j` in `ORDER BY created_at, id`.
* `verdict` is a history variable: what a worker reported for the job.

`Judging` knows no rows, workers or requests: a submission is executed at most
once, the execution decides its outcome, the board shows nothing, the outcome,
or an error put there because nobody answered, and a solve is rewarded only if
the outcome is success.

### Rewards

One user (the rows of different users are disjoint). A `PointLog` row is
identified by its key: an action (type and object) or a completed mission.
`InsertLog` waits for an uncommitted row with the same key, as a unique index
makes it; `AddPoint` takes the lock on the user's row, released by
`CommitAward`; a failure undoes the open transaction only. `ReadMission` and
`SaveMission` are the read and the write of `advance_missions`, which has no
transaction. A history variable, `lost`, has the missions for which a request died
while it still owed a count or a payment (`Owes`, `Pays`), or saved an old copy. `LoadUser` reads the user when a request of the account pages begins;
`SaveUser` is the password form, which saves every column of that copy, and
`SaveAvatar` the choice of an avatar, which is checked against the copy's points
and saves its own column. The change of e-mail saves one column nothing else uses.

`Account` knows no requests, copies or transactions: a reward is paid once, for
its points; an avatar needs points that were earned; and an old row may be put
back, with no more than what was earned. `Rewards` implements it with
`paid <- log`, `earned <- Earned(log)` and `balance <- point`. The refinement says
of the avatar what no invariant over `point` can: after a password form has put
back old points, the avatar may cost more than the user has, but never more than
the user has earned.

### TestcaseGen

One problem without test cases. A submission is its request (`LockProblem`,
`Decide`, `Create`, `StartThread`) and then its thread: a *winner*, which left a
marker and runs the agent, or a *loser*, which waits for the test cases. The
agent asks the language model, lets a worker run the generator and the
solution, repairs the solution at most `max_fix` times, and saves. Everything
it calls may fail. `SaveCases` waits for the problem's row lock, since foreign
keys are checked at commit. `old` says that the marker is over
`TESTCASE_GEN_TIMEOUT_SEC`, `expired` that a waiting thread's deadline has
passed. Both times are the same constant, so a deadline does not pass before every
running marker that was there when it was set (`awaited`) is old. `Die` is the end of the process with its daemon threads. Two reads that
follow each other at once and test the same (`test_cases.exists()` of the
thread and of `generate_and_save`) are one step, `CheckCases`.

### WrongNotes

The posts of the form of one failed submission, statement by statement: `Find`,
`Create`, `Edit`, `Analyze` (search and analysis, whose errors only join the
result), `CallEmbed` and what follows its answer, `Award`. Comment, analysis
and chunks are named by the post they come from, so a property can tell whether
they belong together: `index` has, for each note, the posts that its chunks come
from. `ServeEmbed` is the AI server: it deletes the note's chunks and stores the
new ones, or fails before or after the deletion, whether or not the client still
waits. A deletion that fails is swallowed (`chroma.py:217`), and the call succeeds:
the ids of chunks are made of the note, the section and the position, so of the
old chunks any whose ids do not recur stay beside the new ones. `EmbedFails` is every `FastAPIClientError`, the time limit
included; `Die` is the end of the process and every other exception. A review
loads the note, saves its flag and awards. History variables: `overlap` says that a
post began while another one, or the embed request of one, was in progress,
`undeleted` which notes had their old chunks not deleted when new ones were stored
last. `Consistent` is therefore exact about the index: an indexed note has the
chunks of its comment there, and others only after such a failure.

### AIProxy and CodingState

`AIProxy` has the steps of one call and leaves to the module that extends it who
calls. A completion of the language model is a text, nothing, a stub or an
exception; one operator per service function says what it returns or raises
(`GenerateHint`, `AskTutor`, ...), one per handler what becomes of that
(`HintReply`, `TutorReply`, ...), and a reply may also be broken or late. The client writes the
log as processing (`Send`), the error row of an exception in its handler
(`LogException`), completes the log (`CompleteLog`), and writes the error row of
an answer that says it failed afterwards (`LogFailure`). At any of these places
an exception that no clause names may end the call.

In `CodingState` a caller does one task: the hook (`StartHook`, `CheckGate`), the
command for one user (`StartSingle`) or for all (`StartBatch`, `FetchUsers`,
`NextUser`), or a page (`RejectPage`, `SendPage`, `AnswerPage`). The three kinds
of refresh share `ReadPrev`, `GatherAndSend`, the call, and `SaveState`,
`RefreshFails` or `RefreshRaises`. The text of a summary is reduced to its
*memory*: the number of summaries, each made from the one before, that it builds
on. A blank answer, which the handler takes for a success, brings it to zero.
Users submit and delete their accounts at any time. A caller that dies takes no
further step, so there is no action for it, and nothing is assumed of fairness.
History variables: `saves` and `run` count what a state should say, `behind` marks
a refresh that read an older state than it will replace, `lost` the users whose
state such a refresh has written, `missed` the users refreshed since a caller
looked at them.

### SolvePage

One step is what the script does between two waits. `Click` is `createJob` up to
its request, `Posted` the answer; `Wake`, `Render` and `KeepWaiting` are the loop
of `pollResult`; `Throw` is the handler of exceptions and `End` the `finally`.
There is a slot for each of two calls, so that the model itself would let a
second call begin while the first is in flight: that this never happens is part
of `ShowsLatest`. `Type`, `SaveDraft` (the timer), `Reset`, `Look` and the hints go
on meanwhile; `OtherTab` writes the same key of localStorage; `Reload` begins
anew, and forgets the calls. `ReadResult` and `ReadStatus` are the two queries of
the result request. A submission that waits for test cases looks like a pending
one. A submission is followed only as long as its page asks for it.

`mode` is the quest status; reading, coding and looking at a hint count as one
mode, since no property tells them apart. The words that `resultLooksSuccess`
searches for occur in one result only, which makes its second test an equality;
its first, passed = total, is the bit `full`.

### OutputCompare and NoteSearch

Both hold functions of the code, without variables. A text is a sequence of
characters, of which `OutputCompare` knows CR, LF and blanks only. `Captured` is what
`run_code` keeps of an output: `text=True` turns the three line ends into LF, and
`limit_text` cuts. `normalize` and `Words` (`str.split`) are built from the string
methods the code calls (`Parts`, `Strip`, `Joined`). A word is a finite number with
a value, or `float()` refuses it or reads it as nan or infinite, which is close to
nothing; numbers and the tolerance are multiples of one unit.

In `NoteSearch` a text is the sequence of its sentences, as `SENTENCE_SPLIT_RE` and
`strip` leave them; `chunk_text` is the loop with the chunk it fills. A hit of the
vector database is an owner, a note, a section and a distance; `Nearest` is what
`collection.query` may return, `search_notes` the answers that may follow (equal
scores come in any order), with scores as fractions.

`JobQueue` takes "the output matches" as a choice of the submitted code, and
`WrongNotes` the chunks by the post they come from, so neither module uses these
functions: they say what the choices stand for.

## Runs

| run | instance | what it shows |
|---|---|---|
| `queue_judging` | one submission, one evaluation, two workers, one request, up to two cases | exclusive claims in order, no second execution, sound results, scores and rewards, refinement of `Judging`; a polled job ends, a pending job of any type is taken |
| `queue_decided_once` | one submission, one worker, one request | **violated**: the late worker overwrites the expired result |
| `queue_final_reply` | the same | **violated**: an answer may say that the job is over and the result pending |
| `rewards_concurrent` | two requests, three actions, one mission of two, one request of the account pages | awards are exact, never repeated, and end; every action is counted and every completed mission paid, unless a request died there or two counted from one copy; the row implements `Account` |
| `rewards_points_paid` | two requests, one action, one password form | **violated**: the form puts back old points |
| `rewards_progress` | two requests, two actions, nothing fails | **violated**: two actions count as one |
| `testcases_generated` | two submissions | one generator, one batch, no job ahead of the cases of a generator in time; every submission whose process lives gets its job |
| `testcases_saved_twice` | two submissions | **violated**: a generator outlives its marker, and two batches are saved |
| `wrongnotes_posts` | two posts about one submission, one review | one note, whose status claims no more than is true, if posts do not overlap; vectors and rewards whatever overlaps; a post that lives ends |
| `wrongnotes_unique` | two posts | **violated**: two posts at a time create two notes |
| `coding_state` | two callers of any kind, two users, one submission each | log and error rows agree with what callers were told; counters, memory and submission counts are sound when refreshes do not overlap; batches go on after a failure; calls pay off |
| `solve_page` | one text, two levels of hints, two calls | the page shows the last call only; a verdict is the worker's; the draft is kept; every call gives the buttons back |

Two runs also evaluate functions, as assumptions of their `MC` module, on every text
up to a length that lets every case of their definitions occur. `MCJobQueue` takes
texts of up to four characters over CR, LF, a blank and a digit: `normalize` changes
a text once, keeps its words, does not see the kind of line end, and leaves alone
what is already in the form that `NormalForm` promises. `MCWrongNotes` takes texts of up to two
sentences of up to five characters, with chunks of three, and indexes of up to four
chunks of two notes: chunks fit, keep the text, and no two neighbours would have fit
one chunk; scores are similarities; every search has an answer. Two facts there
deserve attention. `search_notes` drops the excluded note only after the nearest
chunks were taken, so that a note's own chunks can leave no place for another note
(`OwnChunksCrowdOut`). And collections are named after the embedder so that vectors
of two dimensions never meet (`chroma.py:53`), but `embed_text` falls back to the
hashed vectors when the model does not answer, and passes them to the collection of
the model's vectors (`FallbackDoesNotFit`).

The bounds. Two workers are enough for every race about a row, since a row has
one holder and one challenger. In `queue_judging` one request meets two workers
and two kinds of jobs; requests meet each other only through the rows that one
request and a worker also change, and the proofs cover any number. One
submission next to one evaluation makes the order of the queue matter. Two cases
are the least with a mismatch after a pass. A mission of two actions with two
solves and a third action that no mission counts makes counting, over-counting
and losing counts possible. Two submissions to a problem are a generator next to
a waiting thread, or next to its successor once its marker is old; more of them
are left to the proofs. `MaxFix` is 1, the default of `generate_testcases`. Two
posts are one that fails or dies and one that repeats it, or two at a time; more
of them, and more reviews than one, are left to the proofs. Two callers of `CodingState` are a refresh and
one that overtakes it, two users a batch with one that fails or is deleted; with
`MinNew` = 1, one submission each is enough to make a state stale again. Two
levels of hints have a first and a last one. The proofs need none of these
bounds.

Symmetry is declared in `coding_state` and `wrongnotes_unique` only, which check no
liveness, over sets the specification never orders or tells apart. Deadlock is
checked except in `TestcaseGen`, `WrongNotes` and `CodingState`, where requests
come to rest: they are sent once and done.

### Fairness

* `PendingIsServed` assumes that the workers go on (`main` is an endless loop
  that outlives every exception) and, since a worker may be killed again and
  again in the middle of a claim, that it is not killed there for ever (strong
  fairness of the commit). Nothing is assumed of requests.
* `PolledJobFinishes` assumes nothing of the workers' progress except that none
  keeps a row locked for ever: it assumes that time passes, that the page keeps
  polling (its scripts do), and that not every poll that finds the job expired
  is cut short.
* `RequestsEnd` assumes that a request that is not cut short goes on, and that
  a wait for a lock which is released again and again ends.
* `JobIsQueued` assumes that live threads go on and that time passes (markers get
  old, deadlines pass): the calls
  they make have time limits (`timeout=120`, `poll=180`). No worker need answer.
* `PostsEnd` assumes that a post that lives goes on: each call has the limit
  `INTERNAL_API_TIMEOUT_SEC`. The AI server need not answer.
* `CallEnds` assumes that the browser's requests are answered or broken off, its
  timers fire, and time passes until `MAX_WAIT_MS` is over. No worker need take
  the job, and the page may be loaded again at any time.

## Proofs

Each proof module first shows an inductive invariant, one lemma per kind of
step, and reads the properties from it.

* `JobQueueProofs`. The properties are not inductive: what a finished job says
  depends on what workers and requests hold between their steps. `WorkerInv`
  says what a worker at each place holds, and that the job it executes has no
  verdict yet and is running or was expired; `HolderInv` that holders differ;
  `JobInv` that a pending job was never started; `PollInv` what a request knows
  between two statements (that it decided the submission before the job, and
  that a success it has read is the worker's, and that its job exists); `OrderInv`
  that the order of arrival is a strict total order of the jobs there are. From
  `Inv`: `TypeOK`, `ClaimExclusive`, `FinishedHasVerdict`, `VerdictIsReal`,
  `ScoreMatches`, `RewardEarned`, the action properties `ClaimedOnce` and
  `FirstComeFirstServed`, and step by step the refinement `Spec => Judging!Spec`.
  `FirstComeFirstServed` speaks of the first step of a claim, which locks the row;
  without `OrderInv` the job it takes could be one of two that are each before the
  other. Assumptions: the sets of jobs are disjoint,
  `MaxCases` and `DefaultTestCases` are numbers.
* `RewardsProofs`. `AwardsExclusive` says that awards hold the user's row, and a
  key, one at a time. `MissionRewardEarned` needs to know that the progress of a
  mission never exceeds the number of rewarded actions that no request still
  has to count (`ProgressInv`, `Counted`), that an action is counted by one
  request only (`CountersDistinct`), and the same for the copies in memory
  (`Knows`). `MissionsAreServed` needs that between two saves of a mission nothing
  is counted for it: a debt stays until it is counted, unless its request dies
  (`DebtsStay`, `CountsStay`), and a due payment likewise (`PaymentsStay`).
  `LevelFollowsPoints` needs that nobody writes the points while an
  award is uncommitted (`AddedInv`) and that the form's copies are consistent
  (`ChangeInv`). `PointsMatchLog` and the refinement of `Account` need `BalanceInv`:
  what a copy of the row says of the points is within what was earned, and the
  avatars, the row's and the copies', were paid for; an award still open is kept
  apart by `AddedInv`. A sum over a set is a recursion, and what it computes cannot be proved; so
  `Earned` is the cardinality of a set with one pair for each point paid, and the one
  fact the proofs need, that a new reward adds its points, is a fact about
  cardinalities. Assumptions: rewards and targets are numbers, the set of actions is
  finite.
* `TestcaseGenProofs`. `LockInv` and `DecidedInv` say that what was seen under
  the lock, and what was decided from it, stays true while the lock is held: a
  submission that is about to become the generator is still alone. `RoleInv`
  says which part a submission has at each place,
  `WorkInv` that a generator at work has its marker and that there are no test
  cases before it saves them, unless one is late, and `AwaitInv` that the markers a
  thread has waited for are old at its deadline. Assumption: `MaxFix` is a
  number.
* `WrongNotesProofs`. `PlaceInv` says what a post and a review know at each
  place, `SerialInv` that a post which is alone works on the only note and has
  put its own comment, analysis and chunks there (and that these are the only
  chunks, unless the deletion of old ones failed: `DoneBy`), and that an embed
  request still on its way finds its note not marked as indexed. Assumption: `NoPost` is
  no post.
* `CodingStateProofs`. `CallAt` says what the log and error rows are at each place
  of a call, `PlaceAt` what a caller is doing when it calls. `OwedAt` says that the
  users a batch has not called for are still ahead of it, `PrevAt` that a refresh
  which is not behind replaces the state it has read, `TotalAt` and `DueAt` that
  its count is not ahead of the submissions and is due for users nobody else
  refreshed. `RowInv` ties the counters to the history. Assumptions: `MinNew` is
  positive, there are finitely many users, `NoUser` and `NoState` are no values of
  the others. Every property of the run is proved.
* `SolvePageProofs`. `ShowsLatest` and `DraftIsKept` are inductive with the types.
  `VerdictIsShown` needs `RowInv`: a row or an answer says success, or full marks,
  only if the worker accepted; and once a job is finished and was not expired, its
  worker has written all it will write, so an answer whose second read saw it
  finished has the full marks of an accepted submission even if its first read
  came before. Assumption: there is at least one hint.

* `Recursion` and `TextProofs` are about functions of texts of any length, so they
  need induction over the length. The library's induction theorems take an operator
  as a parameter, which the provers cannot instantiate; but that `<` is well-founded
  on the numbers, and that a well-founded relation has minimal elements (`WFMin`),
  are first-order. From them come `LeastNumber`, induction over a set of numbers
  (`InductionUpTo`), and `Iteration`: from a start and a step there is a function on
  `0 .. N` that follows them, which is what a recursive function of this project
  needs to be more than a `CHOOSE`. For each recursive function a lemma gives its
  recursion (`EndingsRecursion`, `PartsRecursion`, `JoinedRecursion`,
  `WordsRecursion`, `PackingRecursion`, `FlatRecursion`), and what it computes follows by induction over the positions.
  - Of the comparison: the form of a normalized text (`NormalForm`), and that a
    text in that form is left alone (`NormalTextsStay`: its lines, split and
    joined again, are the text, and nothing of a line is trimmed), so that
    normalizing is idempotent (`NormalizeIsIdempotent`); that a `line_trim` case
    accepts its own expected output with any line ends (`ExpectedOutputPasses`)
    and its normal form (`NormalFormPasses`); and which cases can be passed at all. An `exact`
    case can if and only if its text has no CR and fits the limit
    (`ExactIsPassable`): one with the line ends CR LF, as HTML forms post them,
    accepts no program. A `float` case can if and only if all its words
    are numbers (`FloatIsPassable`): `YES` or `inf` among them refuses the reference
    solution, too. `FloatIsSymmetric`: which text is expected does not matter.
  - Of the index: chunks are not empty and never too long (`ChunksFit`); blanks
    aside they say what the text says, in order (`ChunksKeepText`: nothing is lost
    at a flush or a cut); two neighbouring chunks would not fit one, unless a
    sentence is cut (`ChunksAreTight`); and a search lists the best notes it has met, at most
    `top_k`, each once (`AnswerIsBest`).

  Assumptions: the characters of line ends are two and no blanks; the chunk size, the
  limits and the weights are numbers.

Every invariant, action property and refinement that a passing run checks is proved.
Model-checked only: the liveness properties `PolledJobFinishes`, `PendingIsServed`,
`RequestsEnd`, `JobIsQueued`, `PostsEnd` and `CallEnds` (fairness is out of the
prover's reach), and, on short texts and small indexes only, that normalizing
keeps the words and that scores are similarities.

## Where the code and its documents differ

See `findings` in `PROJECT.json`: a result that is decided twice, an answer that
is final and has no result, points lost to the password form, lost progress of
missions, test cases saved twice, two notes for one submission.

What the properties of the passing runs leave out by their premises is what the
code does as well, and a reader should not take it for excluded:

* the analysis of one post beside the comment of another, when posts overlap
  (`Consistent` is about posts that do not);
* old chunks beside the new ones after a deletion that failed (`undeleted` in
  `Consistent`), although `llm_wiki/산출물/05_테스트계획_및_결과보고서.md:221`
  expects of indexing again that old chunks are cleared and none are duplicated;
* refreshes of a summary that overlap and count as one (`CountsRefreshes`,
  `NeverOlder`), and a user who is called for again because another caller's
  refresh came between the check and the call (`CallPaysOff`);
* a memory that a blank answer has overwritten: `CountsRefreshes` follows it;
* logs that stay processing because their caller died or an exception escaped
  (`LogTellsTheTruth` is about calls that return), and batches that such an
  exception broke off (`BatchGoesOn` is about those that end by themselves);
* jobs queued ahead of the test cases of a generator whose marker got old
  (`JobsFindCases`), and a submission whose own thread died, which stays pending
  for ever (`JobIsQueued` ends there);
* a mission whose step or reward is lost, because a request died between the award
  and its count or between the count and its reward, or counted from an old copy
  (`lost` in `MissionsAreServed`, which says that nothing else loses them).

## Not modelled

* The runner's limits on submitted code, and its isolation: the operating system
  enforces them.
* The vectors of texts, how a text is split into sentences, and the evaluation of
  the search (`rag_eval.py`), which is run by hand.
* `wrong_note_report.py`, which no part of the application calls; prompts, outputs
  and messages.
* Administration (points and missions edited by hand, test cases deleted), the
  commands `generate_testcases`, which takes no marker, and `load_problems`, an
  import of the catalogue that is run by hand.
* `wrongnote_form.js`, the templates, and the tabs and toggles of the solve page,
  which hide and show text. That the page tells generating from pending is wording.
* Hiding a note from the review board and back, the change of e-mail: one column
  of one row, written from the request alone.
* The parts that only read: catalogue, recommendation, dashboards, inspection
  commands. Deployment is described above as far as it decides what may overlap.

`PROJECT.json` lists every part with its status and the reason.

## Plan

1. Done: `JobQueue` with `Judging`, `Rewards` with `Account`, `TestcaseGen`,
   `WrongNotes`, `AIProxy` with `CodingState`, `SolvePage`, `OutputCompare` and
   `NoteSearch`, and their proofs.
2. Proofs for texts of any length of what is checked on short ones: `normalize`
   keeps the words, scores are similarities.
3. An abstract specification of the notes (a note per submission, with a status
   that can be trusted) that `WrongNotes` implements when posts do not overlap.
4. An abstract specification of the generation of test cases (one batch, then jobs)
   that `TestcaseGen` implements while no generator is late.
