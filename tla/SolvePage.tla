----------------------------- MODULE SolvePage ------------------------------
(***************************************************************************)
(* The page on which a learner solves a problem: the editor and its draft, *)
(* the run and submit buttons with the poll for the result, and the hints  *)
(* (django/static/js/problem_solve.js), against a server that judges the   *)
(* submission and answers polls (django/submissions/views.py,              *)
(* worker/main.py).                                                        *)
(*                                                                         *)
(* A step is what the script does between two waits.  Each press of a      *)
(* button starts a call of createJob, which goes on beside everything the  *)
(* learner does; there is a slot for each of two calls at a time.          *)
(* The submission of a call is followed while the page asks for it: nobody *)
(* else polls it.  A submission that waits for test cases is pending.      *)
(***************************************************************************)
EXTENDS Naturals

CONSTANTS
    Codes,      \* what the editor may hold
    Blank,      \* nothing, or no draft
    HintLevels  \* 3 in the template

ASSUME SolvePageAssumption ==
    /\ Blank \notin Codes
    /\ HintLevels \in Nat \ {0}

VARIABLES
    mode,        \* the state shown as quest status
    editor,      \* the code in the editor
    timer,       \* the draft will be saved in 220 ms
    draft,       \* the draft in localStorage, shared with other tabs
    foreign,     \* history: another tab wrote the draft last
    buttons,     \* run and submit are enabled
    loading, error,  \* these boxes are visible
    shown,       \* the call whose result the status box shows, or None
    link,        \* the call whose note the link creates, or None
    turn,        \* slot of the last call
    place,       \* where each call is
    kind,        \* run or submit
    late,        \* MAX_WAIT_MS is over
    row,         \* submission and job of each call, on the server
    reply,       \* the answer to its poll
    level,       \* unlockedHintLevel
    opened,      \* hints whose toggle is enabled
    asking,      \* the hint that is awaited, or 0
    hintButton   \* the button for the next hint is enabled

editVars == <<editor, timer, draft, foreign>>
boxVars == <<buttons, loading, error, shown, link>>
jobVars == <<turn, place, kind, late, row, reply>>
hintVars == <<level, opened, asking, hintButton>>
vars == <<mode, editVars, boxVars, jobVars, hintVars>>

Slots == {1, 2}
\* The two endpoints, and the type of the submission they make.
Kinds == {"run", "submit"}
None == 0
Older == 3  \* a call before the last one

Contents == Codes \cup {Blank}
\* Reading, coding and looking at a hint are all "solving".
Modes == {"solving", "running", "success", "failed"}

\* Places of a call that waits for an answer to its poll.
Polling == {"polling", "expiring", "writing", "checked", "read", "replied"}
Followed == Polling \cup {"waiting"}
Places == {"idle", "posting", "refused"} \cup Followed

\* An error is one of the worker, the code, the time limit or an expiry.
Results == {"pending", "success", "wrong", "error"}
Statuses == {"pending", "running", "success", "failed"}
Finished == {"success", "failed"}

\* Of the payload only this is followed: passed and total are equal, and not
\* zero.  `worker` and `expired` are history.
Rows == [result : Results, status : Statuses, full : BOOLEAN,
         worker : {"new", "judging", "accepted", "rejected"},
         expired : BOOLEAN]
NewRow == [result |-> "pending", status |-> "pending", full |-> FALSE,
           worker |-> "new", expired |-> FALSE]
Replies == [result : Results, status : Statuses, full : BOOLEAN]
NoReply == [result |-> "pending", status |-> "pending", full |-> FALSE]

TypeOK ==
    /\ mode \in Modes
    /\ editor \in Contents /\ draft \in Contents
    /\ timer \in BOOLEAN /\ foreign \in BOOLEAN
    /\ buttons \in BOOLEAN /\ loading \in BOOLEAN /\ error \in BOOLEAN
    /\ shown \in Slots \cup {None}
    /\ link \in Slots \cup {None, Older}
    /\ turn \in Slots
    /\ place \in [Slots -> Places]
    /\ kind \in [Slots -> Kinds]
    /\ late \in [Slots -> BOOLEAN]
    /\ row \in [Slots -> Rows]
    /\ reply \in [Slots -> Replies]
    /\ level \in 0..HintLevels
    /\ opened \subseteq 1..HintLevels
    /\ asking \in 0..HintLevels
    /\ hintButton \in BOOLEAN

-----------------------------------------------------------------------------
(* Loading the page.                                                       *)

AllIdle == [s \in Slots |-> "idle"]
AllRun == [s \in Slots |-> "run"]
NoneLate == [s \in Slots |-> FALSE]
NewRows == [s \in Slots |-> NewRow]
NoReplies == [s \in Slots |-> NoReply]

\* The template has no code; a draft is restored.
Init ==
    /\ draft \in Contents
    /\ editor = draft /\ mode = "solving"
    /\ timer = FALSE /\ foreign = FALSE
    /\ buttons = TRUE /\ loading = FALSE /\ error = FALSE
    /\ shown = None /\ link = None /\ turn = 1
    /\ place = AllIdle /\ kind = AllRun /\ late = NoneLate
    /\ row = NewRows /\ reply = NoReplies
    /\ level = 0 /\ opened = {} /\ asking = 0 /\ hintButton = TRUE

\* The page is loaded again, or closed and opened; its calls are gone.  The
\* draft is restored before changes of the editor are listened to.
Reload ==
    /\ editor' = draft /\ mode' = "solving"
    /\ timer' = FALSE /\ foreign' = FALSE
    /\ buttons' = TRUE /\ loading' = FALSE /\ error' = FALSE
    /\ shown' = None /\ link' = None /\ turn' = 1
    /\ place' = AllIdle /\ kind' = AllRun /\ late' = NoneLate
    /\ row' = NewRows /\ reply' = NoReplies
    /\ level' = 0 /\ opened' = {} /\ asking' = 0 /\ hintButton' = TRUE
    /\ UNCHANGED draft

-----------------------------------------------------------------------------
(* The editor.                                                             *)

\* persistCode, on every change.
Type(c) ==
    /\ c # editor
    /\ editor' = c
    /\ timer' = TRUE
    /\ mode' = "solving"
    /\ UNCHANGED <<draft, foreign, boxVars, jobVars, hintVars>>

SaveDraft ==
    /\ timer
    /\ draft' = editor
    /\ timer' = FALSE
    /\ foreign' = FALSE
    /\ UNCHANGED <<mode, editor, boxVars, jobVars, hintVars>>

\* The same problem is open in another tab.
OtherTab(c) ==
    /\ c # draft
    /\ draft' = c
    /\ foreign' = TRUE
    /\ UNCHANGED <<mode, editor, timer, boxVars, jobVars, hintVars>>

\* Mutant: localStorage.removeItem is forgotten.
DraftAfterResetKept == draft
DraftAfterReset == Blank

\* The reset button.  CodeMirror reports the change, a textarea does not.
\* What was waiting to be saved is saved as it is then.
Reset ==
    /\ editor' = Blank
    /\ draft' = DraftAfterReset
    /\ timer' \in {timer, TRUE}
    /\ error' = FALSE /\ loading' = FALSE /\ shown' = None
    /\ mode' = "solving"
    /\ UNCHANGED <<foreign, buttons, link, jobVars, hintVars>>

\* The tabs of the text, the check list, the copies of samples.
Look ==
    /\ mode # "solving"
    /\ mode' = "solving"
    /\ UNCHANGED <<editVars, boxVars, jobVars, hintVars>>

-----------------------------------------------------------------------------
(* createJob and pollResult.                                               *)

\* The first slot that no call is in.
FreeSlots == {s \in Slots : place[s] = "idle" /\ (s = 1 \/ place[1] # "idle")}

\* A press of run or submit.  persistCode sets the mode once more.  The server
\* refuses to judge nothing.
Click(k) ==
    /\ buttons
    /\ \E s \in FreeSlots :
        /\ turn' = s
        /\ place' = [place EXCEPT ![s] =
                        IF editor = Blank THEN "refused" ELSE "posting"]
        /\ kind' = [kind EXCEPT ![s] = k]
    /\ link' = IF link = None THEN None ELSE Older
    /\ buttons' = FALSE /\ loading' = TRUE
    /\ error' = FALSE /\ shown' = None
    /\ mode' = "solving" /\ timer' = TRUE
    /\ UNCHANGED <<editor, draft, foreign, late, row, reply, hintVars>>

\* The call is over, and its submission is followed no longer.
End(s) ==
    /\ place' = [place EXCEPT ![s] = "idle"]
    /\ kind' = [kind EXCEPT ![s] = "run"]
    /\ late' = [late EXCEPT ![s] = FALSE]
    /\ row' = [row EXCEPT ![s] = NewRow]
    /\ reply' = [reply EXCEPT ![s] = NoReply]
    /\ loading' = FALSE
    /\ buttons' = TRUE
    /\ UNCHANGED <<turn, editVars, hintVars>>

\* The handler of exceptions.
Throw(s) ==
    /\ End(s)
    /\ error' = TRUE
    /\ mode' = "failed"
    /\ UNCHANGED <<shown, link>>

\* An answer that says no, is no answer, or is lost; for a POST the submission
\* may have been made all the same.
Broken(s) == place[s] \in Polling \cup {"posting"} /\ Throw(s)
Refused(s) == place[s] = "refused" /\ Throw(s)

\* The job is created, or being prepared, and the first poll is sent.
Posted(s) ==
    /\ place[s] = "posting"
    /\ place' = [place EXCEPT ![s] = "polling"]
    /\ loading' = TRUE /\ mode' = "running"
    /\ UNCHANGED <<turn, kind, late, row, reply, buttons, error, shown, link,
                   editVars, hintVars>>

\* Nothing that the learner sees.
Unseen == UNCHANGED <<turn, kind, late, mode, boxVars, editVars, hintVars>>

\* Time goes on while the page asks.
PassTime(s) ==
    /\ place[s] \in Followed /\ ~late[s]
    /\ late' = [late EXCEPT ![s] = TRUE]
    /\ UNCHANGED <<turn, place, kind, row, reply, mode, boxVars, editVars,
                   hintVars>>

\* Mutant: only a job that was started is given up.
GivesUpOnRunning(s) == late[s] /\ reply[s].status = "running"
GivesUp(s) == late[s]

\* 700 ms after an answer.
Wake(s) ==
    /\ place[s] = "waiting"
    /\ \/ GivesUp(s) /\ Throw(s)
       \/ /\ ~GivesUp(s)
          /\ place' = [place EXCEPT ![s] = "polling"]
          /\ reply' = [reply EXCEPT ![s] = NoReply]
          /\ UNCHANGED row /\ Unseen

\* Mutant: only the label is looked at.
SaysSuccess(r) == r.result = "success"
\* resultLooksSuccess.  The words it knows occur in no other result.
LooksSuccess(r) == r.full \/ r.result = "success"

\* wrong_note_create_url is there.
OffersNote(s) == kind[s] = "submit" /\ reply[s].result \in {"wrong", "error"}

\* Mutant: the link is not taken back.
LinkKept(s) == IF OffersNote(s) THEN s ELSE link
\* updateWrongNoteLink.
LinkAfter(s) == IF OffersNote(s) THEN s ELSE None

\* The answer says that the job is finished: renderResult.
Render(s) ==
    /\ place[s] = "replied" /\ reply[s].status \in Finished
    /\ link' = LinkAfter(s)
    /\ shown' = s
    /\ mode' = IF LooksSuccess(reply[s]) THEN "success" ELSE "failed"
    /\ End(s)
    /\ UNCHANGED error

\* It does not.
KeepWaiting(s) ==
    /\ place[s] = "replied" /\ reply[s].status \notin Finished
    /\ place' = [place EXCEPT ![s] = "waiting"]
    /\ loading' = TRUE /\ mode' = "running"
    /\ UNCHANGED <<turn, kind, late, row, reply, buttons, error, shown, link,
                   editVars, hintVars>>

-----------------------------------------------------------------------------
(* The server.                                                             *)

\* submission_result reads the job, which may be active for too long.
ReadJob(s) ==
    /\ place[s] = "polling"
    /\ \/ place' = [place EXCEPT ![s] = "checked"]
       \/ /\ row[s].status \notin Finished
          /\ place' = [place EXCEPT ![s] = "expiring"]
    /\ UNCHANGED <<row, reply>> /\ Unseen

\* _expire_stale_job.
ExpireResult(s) ==
    /\ place[s] = "expiring"
    /\ row' = [row EXCEPT ![s].result = "error", ![s].expired = TRUE]
    /\ place' = [place EXCEPT ![s] = "writing"]
    /\ UNCHANGED reply /\ Unseen

ExpireJob(s) ==
    /\ place[s] = "writing"
    /\ row' = [row EXCEPT ![s].status = "failed", ![s].full = FALSE]
    /\ place' = [place EXCEPT ![s] = "checked"]
    /\ UNCHANGED reply /\ Unseen

\* Submission and job are read by two queries.
ReadResult(s) ==
    /\ place[s] = "checked"
    /\ reply' = [reply EXCEPT ![s].result = row[s].result]
    /\ place' = [place EXCEPT ![s] = "read"]
    /\ UNCHANGED row /\ Unseen

ReadStatus(s) ==
    /\ place[s] = "read"
    /\ reply' = [reply EXCEPT ![s].status = row[s].status,
                              ![s].full = row[s].full]
    /\ place' = [place EXCEPT ![s] = "replied"]
    /\ UNCHANGED row /\ Unseen

\* A worker takes the job.
Claim(s) ==
    /\ place[s] \in Followed
    /\ row[s].worker = "new" /\ row[s].status = "pending"
    /\ row' = [row EXCEPT ![s].worker = "judging", ![s].status = "running"]
    /\ UNCHANGED <<place, reply>> /\ Unseen

\* It finishes the job, whatever the row has become meanwhile.
Judge(s) ==
    /\ place[s] \in Followed
    /\ row[s].worker = "judging"
    /\ \E v \in Results \ {"pending"} :
          row' = [row EXCEPT
                    ![s].result = v,
                    ![s].status = IF v = "error" THEN "failed" ELSE "success",
                    ![s].full = (v = "success"),
                    ![s].worker = IF v = "success" THEN "accepted"
                                                   ELSE "rejected"]
    /\ UNCHANGED <<place, reply>> /\ Unseen

-----------------------------------------------------------------------------
(* Hints.                                                                  *)

\* Mutant: one level too many.
MoreHintsTooMany(l) == l <= HintLevels
MoreHints(l) == l < HintLevels

RequestHint ==
    /\ hintButton
    /\ asking' = level + 1
    /\ hintButton' = FALSE
    /\ mode' = "solving"
    /\ UNCHANGED <<level, opened, editVars, boxVars, jobVars>>

\* Status success, with or without content.
OpenHint ==
    /\ asking # 0
    /\ level' = asking
    /\ opened' = opened \cup {asking}
    /\ asking' = 0
    /\ hintButton' = MoreHints(level')
    /\ mode' = "solving"
    /\ UNCHANGED <<editVars, boxVars, jobVars>>

\* Any other status, or an exception.
MissHint ==
    /\ asking # 0
    /\ asking' = 0
    /\ hintButton' = MoreHints(level)
    /\ UNCHANGED <<mode, level, opened, editVars, boxVars, jobVars>>

-----------------------------------------------------------------------------
Learner ==
    \/ Reload \/ SaveDraft \/ Reset \/ Look
    \/ \E c \in Contents : Type(c) \/ OtherTab(c)
    \/ \E k \in Kinds : Click(k)
    \/ RequestHint \/ OpenHint \/ MissHint

\* What goes on by itself in a call that is answered.
Proceed(s) ==
    \/ Posted(s) \/ Refused(s) \/ Wake(s) \/ Render(s) \/ KeepWaiting(s)
    \/ ReadJob(s) \/ ExpireResult(s) \/ ExpireJob(s)
    \/ ReadResult(s) \/ ReadStatus(s)

Next ==
    \/ Learner
    \/ \E s \in Slots :
          Proceed(s) \/ Broken(s) \/ PassTime(s) \/ Claim(s) \/ Judge(s)

Spec == Init /\ [][Next]_vars

\* Requests are answered or broken off, and time passes.  No worker need ever
\* take the job.
Fairness ==
    /\ WF_vars(\E s \in Slots : Proceed(s))
    /\ WF_vars(\E s \in Slots : PassTime(s))

FairSpec == Spec /\ Fairness

-----------------------------------------------------------------------------
(* Properties                                                              *)

\* The page shows what it asked for last: one call is in flight and the
\* buttons are disabled meanwhile, whatever the learner does; a result belongs
\* to the last call, stands beside no error, and the link beside it does not
\* lead to the note of another submission; hints are opened in turn, one
\* request at a time (problem_solve.js:119-129,219-258,264-321).
ShowsLatest ==
    /\ buttons <=> \A s \in Slots : place[s] = "idle"
    /\ \A s \in Slots : place[s] # "idle" =>
          s = turn /\ shown = None /\ ~error
    /\ loading \/ mode = "running" => ~buttons
    /\ mode = "success" => shown # None
    /\ shown # None => shown = turn /\ ~error /\ link \in {None, shown}
    /\ opened = 1..level
    /\ asking \in {0, level + 1}
    /\ hintButton <=> asking = 0 /\ level < HintLevels

\* "Quest Clear" is shown exactly when the worker accepted the code, even if
\* the answer was put together from two reads with the worker in between;
\* only a submission that was expired may be accepted later than shown
\* (problem_solve.js:131-135, submissions/views.py:253-258).
VerdictIsShown ==
    [][\A s \in Slots : Render(s) =>
          /\ mode' = "success" => row[s].worker = "accepted"
          /\ mode' = "failed" =>
                row[s].worker # "accepted" \/ row[s].expired]_vars

\* What the learner sees in the editor is what loading the page brings back,
\* 220 ms after the last change, unless another tab saved its own
\* (problem_solve.js:60-82,307-313).
DraftIsKept == timer \/ foreign \/ draft = editor

\* Every call comes to an end and gives the buttons back, although no worker
\* may ever answer (problem_solve.js:190-217,254-257).
CallEnds == ~buttons ~> buttons

-----------------------------------------------------------------------------
(* The inductive invariant.                                                *)

\* What the row and the reply of a call say of its worker.  Once the job is
\* finished, and was not expired, the worker has written all it will write.
RowAt(s) ==
    LET accepted == row[s].worker = "accepted"
        through == row[s].worker \in {"accepted", "rejected"}
    IN  /\ place[s] \notin Followed => row[s] = NewRow
        /\ place[s] = "writing" => row[s].expired
        /\ row[s].full \/ row[s].result = "success" => accepted
        /\ reply[s].full \/ reply[s].result = "success" => accepted
        /\ ~row[s].expired =>
              /\ row[s].status \in Finished => through
              /\ accepted => row[s].full
              /\ reply[s].status \in Finished =>
                    through /\ (accepted => reply[s].full)

RowInv == \A s \in Slots : RowAt(s)

Inv == TypeOK /\ ShowsLatest /\ DraftIsKept /\ RowInv
=============================================================================
