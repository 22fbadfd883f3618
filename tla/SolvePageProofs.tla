-------------------------- MODULE SolvePageProofs ---------------------------
(* Proofs about SolvePage: its type invariant and its safety properties.   *)
EXTENDS SolvePage, TLAPS

\* What a call starts with, and is left with at its end.
LEMMA NewTypes == NewRow \in Rows /\ NoReply \in Replies
BY DEF NewRow, NoReply, Rows, Replies, Results, Statuses

\* The invariant holds when the page is loaded, and when it is loaded again.
LEMMA Initially == Init => Inv
<1> SUFFICES ASSUME Init PROVE Inv
  OBVIOUS
<1> USE SolvePageAssumption DEF Init, AllIdle, AllRun, NoneLate, NewRows,
        NoReplies, Slots, None
<1>1. TypeOK
  <2>1. 0 \in 0..HintLevels OBVIOUS
  <2>2. QED
    BY <2>1, NewTypes DEF TypeOK, Contents, Modes, Places, Kinds
<1>2. ShowsLatest
  <2>1. opened = 1..level /\ asking \in {0, level + 1}
    OBVIOUS
  <2>2. hintButton <=> asking = 0 /\ level < HintLevels
    OBVIOUS
  <2>3. QED BY <2>1, <2>2 DEF ShowsLatest
<1>3. DraftIsKept BY DEF DraftIsKept
<1>4. RowInv
  BY DEF RowInv, RowAt, NewRow, NoReply, Finished, Followed, Polling
<1>5. QED BY <1>1, <1>2, <1>3, <1>4 DEF Inv

LEMMA ReloadStep == ASSUME Inv, Reload PROVE Inv'
<1> USE SolvePageAssumption DEF Reload, AllIdle, AllRun, NoneLate, NewRows,
        NoReplies, Slots, None
<1>1. TypeOK'
  <2>1. 0 \in 0..HintLevels OBVIOUS
  <2>2. draft \in Contents BY DEF Inv, TypeOK
  <2>3. QED
    BY <2>1, <2>2, NewTypes DEF TypeOK, Modes, Places, Kinds
<1>2. ShowsLatest'
  <2>1. opened' = 1..level' /\ asking' \in {0, level' + 1}
    OBVIOUS
  <2>2. hintButton' <=> asking' = 0 /\ level' < HintLevels
    OBVIOUS
  <2>3. QED BY <2>1, <2>2 DEF ShowsLatest
<1>3. DraftIsKept' BY DEF DraftIsKept
<1>4. RowInv'
  BY DEF RowInv, RowAt, NewRow, NoReply, Finished, Followed, Polling
<1>5. QED BY <1>1, <1>2, <1>3, <1>4 DEF Inv

-----------------------------------------------------------------------------
(* Steps of the learner that leave the calls alone.                        *)

\* What is known of the rows depends on the calls only.
LEMMA RowsStay ==
    ASSUME RowInv, UNCHANGED <<place, row, reply>> PROVE RowInv'
BY DEF RowInv, RowAt

\* A change of the editor starts the timer.
LEMMA TypeStep == ASSUME Inv, NEW c \in Contents, Type(c) PROVE Inv'
<1> USE DEF Type, Inv
<1>1. TypeOK'
  BY DEF TypeOK, boxVars, jobVars, hintVars, Modes
<1>2. ShowsLatest'
  BY SolvePageAssumption
     DEF ShowsLatest, TypeOK, editVars, boxVars, jobVars, hintVars, Slots,
         None
<1>3. DraftIsKept' BY DEF DraftIsKept, editVars
<1>4. RowInv' BY RowsStay DEF jobVars
<1>5. QED BY <1>1, <1>2, <1>3, <1>4

\* What is saved is what is in the editor.
LEMMA SaveDraftStep == ASSUME Inv, SaveDraft PROVE Inv'
<1> USE DEF SaveDraft, Inv
<1>1. TypeOK'
  BY DEF TypeOK, boxVars, jobVars, hintVars
<1>2. ShowsLatest'
  BY SolvePageAssumption
     DEF ShowsLatest, TypeOK, editVars, boxVars, jobVars, hintVars, Slots,
         None
<1>3. DraftIsKept' BY DEF DraftIsKept, editVars
<1>4. RowInv' BY RowsStay DEF jobVars
<1>5. QED BY <1>1, <1>2, <1>3, <1>4

\* What another tab writes is marked as foreign.
LEMMA OtherTabStep == ASSUME Inv, NEW c \in Contents, OtherTab(c) PROVE Inv'
<1> USE DEF OtherTab, Inv
<1>1. TypeOK'
  BY SolvePageAssumption
     DEF TypeOK, editVars, boxVars, jobVars, hintVars, Contents, Modes,
         Slots, None
<1>2. ShowsLatest'
  BY SolvePageAssumption
     DEF ShowsLatest, TypeOK, editVars, boxVars, jobVars, hintVars, Slots,
         None
<1>3. DraftIsKept' BY DEF DraftIsKept, editVars
<1>4. RowInv' BY RowsStay DEF jobVars
<1>5. QED BY <1>1, <1>2, <1>3, <1>4

\* A reset clears the editor and the draft alike.
LEMMA ResetStep == ASSUME Inv, Reset PROVE Inv'
<1> USE DEF Reset, Inv
<1>1. TypeOK'
  BY SolvePageAssumption
     DEF TypeOK, editVars, boxVars, jobVars, hintVars, Contents, Modes,
         Slots, None, DraftAfterReset
<1>2. ShowsLatest'
  BY SolvePageAssumption
     DEF ShowsLatest, TypeOK, editVars, boxVars, jobVars, hintVars, Slots,
         None, DraftAfterReset
<1>3. DraftIsKept' BY DEF DraftIsKept, editVars, DraftAfterReset
<1>4. RowInv' BY RowsStay DEF jobVars
<1>5. QED BY <1>1, <1>2, <1>3, <1>4

\* Reading shows no result.
LEMMA LookStep == ASSUME Inv, Look PROVE Inv'
<1> USE DEF Look, Inv
<1>1. TypeOK'
  BY SolvePageAssumption
     DEF TypeOK, editVars, boxVars, jobVars, hintVars, Contents, Modes,
         Slots, None
<1>2. ShowsLatest'
  BY SolvePageAssumption
     DEF ShowsLatest, TypeOK, editVars, boxVars, jobVars, hintVars, Slots,
         None
<1>3. DraftIsKept' BY DEF DraftIsKept, editVars
<1>4. RowInv' BY RowsStay DEF jobVars
<1>5. QED BY <1>1, <1>2, <1>3, <1>4

\* The next hint is the one after those that are open.
LEMMA RequestHintStep == ASSUME Inv, RequestHint PROVE Inv'
<1> USE DEF RequestHint, Inv
<1>1. TypeOK'
  <2>1. asking' \in 0..HintLevels
    BY SolvePageAssumption DEF TypeOK, ShowsLatest
  <2>2. QED
    BY <2>1 DEF TypeOK, editVars, boxVars, jobVars, Modes
<1>2. ShowsLatest'
  BY SolvePageAssumption
     DEF ShowsLatest, TypeOK, editVars, boxVars, jobVars, hintVars, Slots,
         None
<1>3. DraftIsKept' BY DEF DraftIsKept, editVars
<1>4. RowInv' BY RowsStay DEF jobVars
<1>5. QED BY <1>1, <1>2, <1>3, <1>4

\* An answer opens the hint that was asked for.
LEMMA OpenHintStep == ASSUME Inv, OpenHint PROVE Inv'
<1> USE DEF OpenHint, Inv
<1>1. TypeOK'
  BY SolvePageAssumption
     DEF TypeOK, editVars, boxVars, jobVars, hintVars, Contents, Modes,
         Slots, None, MoreHints
<1>2. ShowsLatest'
  <2>1. asking = level + 1 /\ level \in Nat /\ opened = 1..level
    BY SolvePageAssumption DEF TypeOK, ShowsLatest
  <2>2. opened' = 1..level'
    BY <2>1
  <2>3. asking' = 0 /\ (hintButton' <=> level' < HintLevels)
    BY DEF MoreHints
  <2>4. UNCHANGED <<boxVars, jobVars>> /\ mode' = "solving"
    OBVIOUS
  <2>5. QED
    BY <2>2, <2>3, <2>4 DEF ShowsLatest, boxVars, jobVars
<1>3. DraftIsKept' BY DEF DraftIsKept, editVars
<1>4. RowInv' BY RowsStay DEF jobVars
<1>5. QED BY <1>1, <1>2, <1>3, <1>4

\* Without an answer the same hint can be asked for again.
LEMMA MissHintStep == ASSUME Inv, MissHint PROVE Inv'
<1> USE DEF MissHint, Inv
<1>1. TypeOK'
  BY SolvePageAssumption
     DEF TypeOK, editVars, boxVars, jobVars, hintVars, Contents, Modes,
         Slots, None, MoreHints
<1>2. ShowsLatest'
  BY SolvePageAssumption
     DEF ShowsLatest, TypeOK, editVars, boxVars, jobVars, hintVars, Slots,
         None, MoreHints
<1>3. DraftIsKept' BY DEF DraftIsKept, editVars
<1>4. RowInv' BY RowsStay DEF jobVars
<1>5. QED BY <1>1, <1>2, <1>3, <1>4

-----------------------------------------------------------------------------
(* A call of createJob.                                                    *)

\* The buttons are enabled only if no call is in flight.
LEMMA ClickStep ==
    ASSUME Inv, NEW k \in Kinds, Click(k) PROVE Inv'
<1> USE DEF Click, Inv
<1>1. PICK s \in FreeSlots :
        /\ turn' = s
        /\ place' = [place EXCEPT ![s] =
                        IF editor = Blank THEN "refused" ELSE "posting"]
        /\ kind' = [kind EXCEPT ![s] = k]
  OBVIOUS
<1>2. /\ s \in Slots
      /\ \A t \in Slots : place[t] = "idle"
  BY DEF FreeSlots, ShowsLatest
<1>3. TypeOK'
  BY <1>1, <1>2
     DEF TypeOK, hintVars, Modes, Places, Followed, Slots, None, Older
<1>4. ShowsLatest'
  BY <1>1, <1>2 DEF ShowsLatest, TypeOK, hintVars, Slots, None
<1>5. DraftIsKept' BY DEF DraftIsKept
<1>6. RowInv'
  BY <1>1, <1>2 DEF RowInv, RowAt, TypeOK, Followed, Polling, Slots
<1>7. QED BY <1>3, <1>4, <1>5, <1>6

\* A call that ends leaves all calls at rest and its submission unknown.
LEMMA EndsCall ==
    ASSUME Inv, NEW s \in Slots, place[s] # "idle", End(s)
    PROVE  /\ \A t \in Slots : place'[t] = "idle"
           /\ s = turn /\ turn' = turn /\ shown = None /\ ~error
           /\ place' \in [Slots -> Places]
           /\ kind' \in [Slots -> Kinds]
           /\ late' \in [Slots -> BOOLEAN]
           /\ row' \in [Slots -> Rows]
           /\ reply' \in [Slots -> Replies]
           /\ DraftIsKept'
           /\ RowInv'
<1> USE DEF Inv, End
<1>1. \A t \in Slots : t # s => place[t] = "idle"
  BY DEF ShowsLatest
<1>2. /\ \A t \in Slots : place'[t] = "idle"
      /\ s = turn /\ turn' = turn /\ shown = None /\ ~error
  BY <1>1 DEF ShowsLatest, TypeOK
<1>3. NewRow \in Rows /\ NoReply \in Replies
  BY DEF NewRow, NoReply, Rows, Replies, Results, Statuses
<1>4. /\ place' \in [Slots -> Places]
      /\ kind' \in [Slots -> Kinds]
      /\ late' \in [Slots -> BOOLEAN]
      /\ row' \in [Slots -> Rows]
      /\ reply' \in [Slots -> Replies]
  BY <1>3 DEF TypeOK, Places, Kinds
<1>5. DraftIsKept' BY DEF DraftIsKept, editVars
<1>6. RowInv'
  <2> SUFFICES ASSUME NEW t \in Slots PROVE RowAt(t)'
    BY DEF RowInv
  <2>1. CASE t = s
    BY <2>1 DEF RowAt, TypeOK, NewRow, NoReply, Finished
  <2>2. CASE t # s
    <3>1. place'[t] = place[t] /\ row'[t] = row[t] /\ reply'[t] = reply[t]
      BY <2>2 DEF TypeOK
    <3>2. QED BY <3>1 DEF RowInv, RowAt
  <2>3. QED BY <2>1, <2>2
<1>7. QED BY <1>2, <1>4, <1>5, <1>6

\* An exception leaves the error, and no result.
LEMMA ThrowStep ==
    ASSUME Inv, NEW s \in Slots, place[s] # "idle", Throw(s) PROVE Inv'
<1>1. End(s) BY DEF Throw
<1>2. TypeOK'
  BY <1>1, EndsCall DEF Throw, End, Inv, TypeOK, editVars, hintVars, Modes
<1>3. ShowsLatest'
  <2>1. /\ \A t \in Slots : place'[t] = "idle"
        /\ shown = None
    BY <1>1, EndsCall
  <2>2. /\ UNCHANGED <<shown, level, opened, asking, hintButton>>
        /\ buttons' /\ ~loading' /\ mode' = "failed"
    BY DEF Throw, End, hintVars
  <2>3. QED BY <2>1, <2>2 DEF Inv, ShowsLatest
<1>4. QED BY <1>1, <1>2, <1>3, EndsCall DEF Inv

\* A result is shown with its own link.
LEMMA RenderStep == ASSUME Inv, NEW s \in Slots, Render(s) PROVE Inv'
<1>1. End(s) /\ place[s] # "idle" BY DEF Render
<1>2. TypeOK'
  BY <1>1, EndsCall
     DEF Render, LinkAfter, End, Inv, TypeOK, editVars, hintVars, Modes,
         Slots, None
<1>3. ShowsLatest'
  <2>1. /\ \A t \in Slots : place'[t] = "idle"
        /\ s = turn /\ turn' = turn /\ ~error
    BY <1>1, EndsCall
  <2>2. /\ UNCHANGED <<error, level, opened, asking, hintButton>>
        /\ buttons' /\ ~loading'
        /\ shown' = s /\ link' \in {None, s}
        /\ mode' \in {"success", "failed"}
    BY DEF Render, LinkAfter, End, hintVars
  <2>3. s # None
    BY DEF Slots, None
  <2>4. QED BY <2>1, <2>2, <2>3 DEF Inv, ShowsLatest
<1>4. QED BY <1>1, <1>2, <1>3, EndsCall DEF Inv

-----------------------------------------------------------------------------
(* Steps of a call that goes on.                                           *)

\* A step of a call in flight that only moves it, or changes what it knows.
LEMMA CallGoesOn ==
    ASSUME Inv, NEW s \in Slots, place[s] # "idle",
           NEW p \in Places \ {"idle"},
           place' = [place EXCEPT ![s] = p],
           UNCHANGED <<turn, kind, buttons, error, shown, link, editVars,
                       hintVars>>,
           \/ loading' = TRUE /\ mode' = "running"
           \/ UNCHANGED <<loading, mode>>,
           late' \in [Slots -> BOOLEAN],
           row' \in [Slots -> Rows], reply' \in [Slots -> Replies],
           RowInv'
    PROVE  Inv'
<1> USE DEF Inv
<1>1. TypeOK' BY DEF TypeOK, editVars, hintVars, Modes
<1>2. ShowsLatest' BY DEF ShowsLatest, TypeOK, hintVars
<1>3. DraftIsKept' BY DEF DraftIsKept, editVars
<1>4. QED BY <1>1, <1>2, <1>3

\* What is known of the other call stays.
LEMMA OthersStay ==
    ASSUME Inv, NEW s \in Slots, RowAt(s)',
           \A t \in Slots \ {s} :
              /\ place'[t] = place[t] /\ row'[t] = row[t]
              /\ reply'[t] = reply[t]
    PROVE  RowInv'
<1> SUFFICES ASSUME NEW t \in Slots, t # s PROVE RowAt(t)'
  BY DEF RowInv
<1>1. QED BY DEF Inv, RowInv, RowAt

\* A new submission is pending.
LEMMA PostedStep ==
    ASSUME Inv, NEW s \in Slots, Posted(s) PROVE Inv'
<1> USE DEF Posted, Inv, Unseen
<1>1. /\ row[s] \in Rows /\ reply[s] \in Replies
      /\ place[s] \in Places \ {"idle"}
  BY DEF TypeOK, Followed, Polling
<1>2. RowAt(s)'
  BY <1>1 DEF RowInv, RowAt, TypeOK, Finished, Followed, Polling, Statuses,
         NewRow
<1>3. RowInv' BY <1>2, OthersStay DEF TypeOK
<1>4. row'[s] \in Rows /\ reply'[s] \in Replies
  BY <1>1 DEF TypeOK
<1>5. /\ late' \in [Slots -> BOOLEAN]
      /\ row' \in [Slots -> Rows] /\ reply' \in [Slots -> Replies]
  BY <1>4 DEF TypeOK
<1>6. PICK p \in Places \ {"idle"} : place' = [place EXCEPT ![s] = p]
  BY <1>1 DEF TypeOK, Places, Followed, Polling
<1>7. QED BY <1>1, <1>3, <1>5, <1>6, CallGoesOn DEF boxVars

\* A job that is not finished is waited for.
LEMMA KeepWaitingStep ==
    ASSUME Inv, NEW s \in Slots, KeepWaiting(s) PROVE Inv'
<1> USE DEF KeepWaiting, Inv, Unseen
<1>1. /\ row[s] \in Rows /\ reply[s] \in Replies
      /\ place[s] \in Places \ {"idle"}
  BY DEF TypeOK, Followed, Polling
<1>2. RowAt(s)'
  BY <1>1 DEF RowInv, RowAt, TypeOK, Finished, Followed, Polling, Statuses
<1>3. RowInv' BY <1>2, OthersStay DEF TypeOK
<1>4. row'[s] \in Rows /\ reply'[s] \in Replies
  BY <1>1 DEF TypeOK
<1>5. /\ late' \in [Slots -> BOOLEAN]
      /\ row' \in [Slots -> Rows] /\ reply' \in [Slots -> Replies]
  BY <1>4 DEF TypeOK
<1>6. PICK p \in Places \ {"idle"} : place' = [place EXCEPT ![s] = p]
  BY <1>1 DEF TypeOK, Places, Followed, Polling
<1>7. QED BY <1>1, <1>3, <1>5, <1>6, CallGoesOn DEF boxVars

\* A job that is finished is not expired.
LEMMA ReadJobStep ==
    ASSUME Inv, NEW s \in Slots, ReadJob(s) PROVE Inv'
<1> USE DEF ReadJob, Inv, Unseen
<1>1. /\ row[s] \in Rows /\ reply[s] \in Replies
      /\ place[s] \in Places \ {"idle"}
  BY DEF TypeOK, Followed, Polling
<1>2. RowAt(s)'
  BY <1>1 DEF RowInv, RowAt, TypeOK, Finished, Followed, Polling, Statuses
<1>3. RowInv' BY <1>2, OthersStay DEF TypeOK
<1>4. row'[s] \in Rows /\ reply'[s] \in Replies
  BY <1>1 DEF TypeOK
<1>5. /\ late' \in [Slots -> BOOLEAN]
      /\ row' \in [Slots -> Rows] /\ reply' \in [Slots -> Replies]
  BY <1>4 DEF TypeOK
<1>6. PICK p \in Places \ {"idle"} : place' = [place EXCEPT ![s] = p]
  BY <1>1 DEF TypeOK, Places, Followed, Polling
<1>7. QED BY <1>1, <1>3, <1>5, <1>6, CallGoesOn DEF boxVars

\* An expired submission is marked as such.
LEMMA ExpireResultStep ==
    ASSUME Inv, NEW s \in Slots, ExpireResult(s) PROVE Inv'
<1> USE DEF ExpireResult, Inv, Unseen
<1>1. /\ row[s] \in Rows /\ reply[s] \in Replies
      /\ place[s] \in Places \ {"idle"}
  BY DEF TypeOK, Followed, Polling
<1>2. RowAt(s)'
  BY <1>1 DEF RowInv, RowAt, TypeOK, Finished, Followed, Polling, Statuses
<1>3. RowInv' BY <1>2, OthersStay DEF TypeOK
<1>4. row'[s] \in Rows /\ reply'[s] \in Replies
  BY <1>1 DEF TypeOK, Rows, Results
<1>5. /\ late' \in [Slots -> BOOLEAN]
      /\ row' \in [Slots -> Rows] /\ reply' \in [Slots -> Replies]
  BY <1>4 DEF TypeOK
<1>6. PICK p \in Places \ {"idle"} : place' = [place EXCEPT ![s] = p]
  BY <1>1 DEF TypeOK, Places, Followed, Polling
<1>7. QED BY <1>1, <1>3, <1>5, <1>6, CallGoesOn DEF boxVars

\* A job is expired after its submission.
LEMMA ExpireJobStep ==
    ASSUME Inv, NEW s \in Slots, ExpireJob(s) PROVE Inv'
<1> USE DEF ExpireJob, Inv, Unseen
<1>1. /\ row[s] \in Rows /\ reply[s] \in Replies
      /\ place[s] \in Places \ {"idle"}
  BY DEF TypeOK, Followed, Polling
<1>2. RowAt(s)'
  BY <1>1 DEF RowInv, RowAt, TypeOK, Finished, Followed, Polling, Statuses
<1>3. RowInv' BY <1>2, OthersStay DEF TypeOK
<1>4. row'[s] \in Rows /\ reply'[s] \in Replies
  BY <1>1 DEF TypeOK, Rows, Statuses
<1>5. /\ late' \in [Slots -> BOOLEAN]
      /\ row' \in [Slots -> Rows] /\ reply' \in [Slots -> Replies]
  BY <1>4 DEF TypeOK
<1>6. PICK p \in Places \ {"idle"} : place' = [place EXCEPT ![s] = p]
  BY <1>1 DEF TypeOK, Places, Followed, Polling
<1>7. QED BY <1>1, <1>3, <1>5, <1>6, CallGoesOn DEF boxVars

\* A success that is read was accepted.
LEMMA ReadResultStep ==
    ASSUME Inv, NEW s \in Slots, ReadResult(s) PROVE Inv'
<1> USE DEF ReadResult, Inv, Unseen
<1>1. /\ row[s] \in Rows /\ reply[s] \in Replies
      /\ place[s] \in Places \ {"idle"}
  BY DEF TypeOK, Followed, Polling
<1>2. RowAt(s)'
  BY <1>1 DEF RowInv, RowAt, TypeOK, Finished, Followed, Polling, Statuses
<1>3. RowInv' BY <1>2, OthersStay DEF TypeOK
<1>4. row'[s] \in Rows /\ reply'[s] \in Replies
  BY <1>1 DEF TypeOK, Rows, Replies
<1>5. /\ late' \in [Slots -> BOOLEAN]
      /\ row' \in [Slots -> Rows] /\ reply' \in [Slots -> Replies]
  BY <1>4 DEF TypeOK
<1>6. PICK p \in Places \ {"idle"} : place' = [place EXCEPT ![s] = p]
  BY <1>1 DEF TypeOK, Places, Followed, Polling
<1>7. QED BY <1>1, <1>3, <1>5, <1>6, CallGoesOn DEF boxVars

\* A finished job, as read, says all its worker will say.
LEMMA ReadStatusStep ==
    ASSUME Inv, NEW s \in Slots, ReadStatus(s) PROVE Inv'
<1> USE DEF ReadStatus, Inv, Unseen
<1>1. /\ row[s] \in Rows /\ reply[s] \in Replies
      /\ place[s] \in Places \ {"idle"}
  BY DEF TypeOK, Followed, Polling
<1>2. RowAt(s)'
  BY <1>1 DEF RowInv, RowAt, TypeOK, Finished, Followed, Polling, Statuses
<1>3. RowInv' BY <1>2, OthersStay DEF TypeOK
<1>4. row'[s] \in Rows /\ reply'[s] \in Replies
  BY <1>1 DEF TypeOK, Rows, Replies
<1>5. /\ late' \in [Slots -> BOOLEAN]
      /\ row' \in [Slots -> Rows] /\ reply' \in [Slots -> Replies]
  BY <1>4 DEF TypeOK
<1>6. PICK p \in Places \ {"idle"} : place' = [place EXCEPT ![s] = p]
  BY <1>1 DEF TypeOK, Places, Followed, Polling
<1>7. QED BY <1>1, <1>3, <1>5, <1>6, CallGoesOn DEF boxVars

\* Time changes no row.
LEMMA PassTimeStep ==
    ASSUME Inv, NEW s \in Slots, PassTime(s) PROVE Inv'
<1> USE DEF PassTime, Inv, Unseen
<1>1. /\ row[s] \in Rows /\ reply[s] \in Replies
      /\ place[s] \in Places \ {"idle"}
  BY DEF TypeOK, Followed, Polling
<1>2. RowAt(s)'
  BY <1>1 DEF RowInv, RowAt, TypeOK, Finished, Followed, Polling, Statuses
<1>3. RowInv' BY <1>2, OthersStay DEF TypeOK
<1>4. row'[s] \in Rows /\ reply'[s] \in Replies
  BY <1>1 DEF TypeOK
<1>5. /\ late' \in [Slots -> BOOLEAN]
      /\ row' \in [Slots -> Rows] /\ reply' \in [Slots -> Replies]
  BY <1>4 DEF TypeOK
<1>6. PICK p \in Places \ {"idle"} : place' = [place EXCEPT ![s] = p]
  BY <1>1 DEF TypeOK, Places, Followed, Polling
<1>7. QED BY <1>1, <1>3, <1>5, <1>6, CallGoesOn DEF boxVars

\* A job that is taken was pending.
LEMMA ClaimStep ==
    ASSUME Inv, NEW s \in Slots, Claim(s) PROVE Inv'
<1> USE DEF Claim, Inv, Unseen
<1>1. /\ row[s] \in Rows /\ reply[s] \in Replies
      /\ place[s] \in Places \ {"idle"}
  BY DEF TypeOK, Followed, Polling
<1>2. RowAt(s)'
  BY <1>1 DEF RowInv, RowAt, TypeOK, Finished, Followed, Polling, Statuses
<1>3. RowInv' BY <1>2, OthersStay DEF TypeOK
<1>4. row'[s] \in Rows /\ reply'[s] \in Replies
  BY <1>1 DEF TypeOK, Rows, Statuses
<1>5. /\ late' \in [Slots -> BOOLEAN]
      /\ row' \in [Slots -> Rows] /\ reply' \in [Slots -> Replies]
  BY <1>4 DEF TypeOK
<1>6. PICK p \in Places \ {"idle"} : place' = [place EXCEPT ![s] = p]
  BY <1>1 DEF TypeOK, Places, Followed, Polling
<1>7. QED BY <1>1, <1>3, <1>5, <1>6, CallGoesOn DEF boxVars

\* A worker says success, and full marks, for accepted code only.
LEMMA JudgeStep ==
    ASSUME Inv, NEW s \in Slots, Judge(s) PROVE Inv'
<1> USE DEF Judge, Inv, Unseen
<1>1. /\ row[s] \in Rows /\ reply[s] \in Replies
      /\ place[s] \in Places \ {"idle"}
  BY DEF TypeOK, Followed, Polling
<1>2. RowAt(s)'
  <2>1. PICK v \in Results \ {"pending"} :
          row' = [row EXCEPT
                    ![s].result = v,
                    ![s].status = IF v = "error" THEN "failed" ELSE "success",
                    ![s].full = (v = "success"),
                    ![s].worker = IF v = "success" THEN "accepted"
                                                   ELSE "rejected"]
    OBVIOUS
  <2>2. /\ row'[s].result = v /\ row'[s].expired = row[s].expired
        /\ row'[s].full <=> v = "success"
        /\ row'[s].worker = IF v = "success" THEN "accepted" ELSE "rejected"
    BY <1>1, <2>1 DEF TypeOK, Rows
  <2>3. RowAt(s) /\ row[s].worker = "judging"
    BY DEF RowInv
  <2>4. place'[s] = place[s] /\ reply'[s] = reply[s]
    OBVIOUS
  <2>5. QED BY <2>2, <2>3, <2>4 DEF RowAt
<1>3. RowInv' BY <1>2, OthersStay DEF TypeOK
<1>4. row'[s] \in Rows /\ reply'[s] \in Replies
  BY <1>1 DEF TypeOK, Rows, Results, Statuses
<1>5. /\ late' \in [Slots -> BOOLEAN]
      /\ row' \in [Slots -> Rows] /\ reply' \in [Slots -> Replies]
  BY <1>4 DEF TypeOK
<1>6. PICK p \in Places \ {"idle"} : place' = [place EXCEPT ![s] = p]
  BY <1>1 DEF TypeOK, Places, Followed, Polling
<1>7. QED BY <1>1, <1>3, <1>5, <1>6, CallGoesOn DEF boxVars

\* A call that wakes up asks again or gives up.
LEMMA WakeStep == ASSUME Inv, NEW s \in Slots, Wake(s) PROVE Inv'
<1> USE DEF Wake
<1>1. CASE Throw(s) BY <1>1, ThrowStep
<1>2. CASE /\ place' = [place EXCEPT ![s] = "polling"]
           /\ reply' = [reply EXCEPT ![s] = NoReply]
           /\ UNCHANGED row /\ Unseen
  <2> USE <1>2 DEF Inv
  <2>1. RowAt(s)'
    BY DEF RowInv, RowAt, TypeOK, Finished, Followed, Polling, NoReply
  <2>2. RowInv' BY <2>1, OthersStay DEF TypeOK
  <2>3. /\ late' \in [Slots -> BOOLEAN]
        /\ row' \in [Slots -> Rows] /\ reply' \in [Slots -> Replies]
    BY DEF TypeOK, Unseen, Replies, Results, Statuses, NoReply
  <2>4. "polling" \in Places \ {"idle"}
    BY DEF Places, Followed, Polling
  <2>5. QED BY <2>2, <2>3, <2>4, CallGoesOn DEF Unseen, boxVars
<1>3. QED BY <1>1, <1>2

-----------------------------------------------------------------------------
(* The theorems.                                                           *)

LEMMA NextStep == Inv /\ [Next]_vars => Inv'
<1> SUFFICES ASSUME Inv, [Next]_vars PROVE Inv'
  OBVIOUS
<1>1. CASE Learner
  <2>1. CASE Reload \/ SaveDraft \/ Reset \/ Look
    BY <2>1, ReloadStep, SaveDraftStep, ResetStep, LookStep
  <2>2. CASE \E c \in Contents : Type(c) \/ OtherTab(c)
    BY <2>2, TypeStep, OtherTabStep
  <2>3. CASE \E k \in Kinds : Click(k)
    BY <2>3, ClickStep
  <2>4. CASE RequestHint \/ OpenHint \/ MissHint
    BY <2>4, RequestHintStep, OpenHintStep, MissHintStep
  <2>5. QED BY <1>1, <2>1, <2>2, <2>3, <2>4 DEF Learner
<1>2. ASSUME NEW s \in Slots, Proceed(s) PROVE Inv'
  <2>1. CASE Refused(s)
    BY <2>1, ThrowStep DEF Refused
  <2>2. CASE Posted(s) \/ Wake(s) \/ Render(s) \/ KeepWaiting(s)
    BY <2>2, PostedStep, WakeStep, RenderStep, KeepWaitingStep
  <2>3. CASE ReadJob(s) \/ ExpireResult(s) \/ ExpireJob(s)
    BY <2>3, ReadJobStep, ExpireResultStep, ExpireJobStep
  <2>4. CASE ReadResult(s) \/ ReadStatus(s)
    BY <2>4, ReadResultStep, ReadStatusStep
  <2>5. QED BY <1>2, <2>1, <2>2, <2>3, <2>4 DEF Proceed
<1>3. ASSUME NEW s \in Slots, Broken(s) PROVE Inv'
  BY <1>3, ThrowStep DEF Broken, Polling
<1>4. ASSUME NEW s \in Slots, PassTime(s) \/ Claim(s) \/ Judge(s) PROVE Inv'
  BY <1>4, PassTimeStep, ClaimStep, JudgeStep
<1>5. CASE UNCHANGED vars
  BY <1>5
     DEF vars, editVars, boxVars, jobVars, hintVars, Inv, TypeOK, ShowsLatest,
         DraftIsKept, RowInv, RowAt
<1>6. QED BY <1>1, <1>2, <1>3, <1>4, <1>5 DEF Next

\* The invariant holds in every state of the page.
THEOREM Invariance == Spec => []Inv
BY Initially, NextStep, PTL DEF Spec

\* The variables keep their types, for any number of hints.
THEOREM TypeCorrect == Spec => []TypeOK
BY Invariance, PTL DEF Inv

\* One call is in flight at a time, and what the page shows belongs to the
\* last one (problem_solve.js:219-258).
THEOREM PageShowsLatest == Spec => []ShowsLatest
BY Invariance, PTL DEF Inv

\* The draft is what is in the editor, once it is saved
\* (problem_solve.js:60-82,307-313).
THEOREM DraftsAreKept == Spec => []DraftIsKept
BY Invariance, PTL DEF Inv

\* What the page says of the code is what the worker found, although the
\* answer is put together from two reads (submissions/views.py:253-258).
THEOREM VerdictsAreShown == Spec => VerdictIsShown
<1>1. ASSUME Inv, NEW s \in Slots, Render(s)
      PROVE  /\ mode' = "success" => row[s].worker = "accepted"
             /\ mode' = "failed" =>
                   row[s].worker # "accepted" \/ row[s].expired
  <2>1. RowAt(s) BY <1>1 DEF Inv, RowInv
  <2>2. QED BY <1>1, <2>1 DEF Render, LooksSuccess, RowAt
<1>2. Inv => [\A s \in Slots : Render(s) =>
                /\ mode' = "success" => row[s].worker = "accepted"
                /\ mode' = "failed" =>
                      row[s].worker # "accepted" \/ row[s].expired]_vars
  BY <1>1
<1>3. QED BY <1>2, Invariance, PTL DEF VerdictIsShown
=============================================================================
