---------------------------- MODULE CodingState -----------------------------
(***************************************************************************)
(* The summary that the AI functions keep of each user, and who refreshes  *)
(* it: the hook at the end of a post of a wrong note, the command for one  *)
(* user or for all, both through django/codingstate/services.py; and the   *)
(* pages that ask the AI server something else (django/ai_proxy/views.py). *)
(*                                                                         *)
(* A caller does one task and ends; one that dies takes no further step.   *)
(* One step is one statement, except that reads which follow each other at *)
(* once and feed one decision are one step.  The text of a summary is      *)
(* abstracted to its memory: how many summaries, each made from the one    *)
(* before, it builds on.                                                   *)
(***************************************************************************)
EXTENDS AIProxy, Sequences, FiniteSets, Functions

CONSTANTS
    Users,
    MinNew,     \* min_new_submissions
    MaxSubmits, \* bound on the submissions of a user
    NoState, NoUser

ASSUME CodingStateAssumption ==
    /\ MinNew \in Nat \ {0}
    /\ MaxSubmits \in Nat
    /\ NoUser \notin Users
    /\ NoState \notin [count : Nat, refreshes : Nat, memory : Nat]
    /\ IsFiniteSet(Users)

VARIABLES
    accounts,  \* users whose account exists
    submits,   \* their final submissions
    state,     \* their CodingState rows
    task,      \* what each caller does: a refresh, or a page by its kind
    place,     \* where it is
    user,      \* the user it refreshes
    todo,      \* stale_ids of a batch, from its next user on
    users,     \* the users it fetched and has not called for yet
    prev,      \* the state it read before the call
    total,     \* total_submissions it gathered
    answer,    \* HTTP status of a page
    saves,     \* history: how often each state was saved
    run,       \* history: saves since the last blank summary
    behind,    \* history: another caller saved the state since prev was read
    missed,    \* history: users saved since the caller checked them
    lost       \* history: users whose state was saved by a caller behind

rowVars == <<accounts, submits, state>>
locals == <<user, todo, users, prev, total>>
history == <<saves, run, behind, missed, lost>>
vars == <<callVars, rowVars, task, place, locals, answer, history>>

Batches == {"stale", "all"}
Pages == Kinds \ {"summarize"}
Tasks == {"none", "hook", "single"} \cup Batches \cup Pages
Refreshing == {"read", "calling"}
Ended == {"done", "aborted"}
Places == {"new", "counted", "selected", "next", "reading"}
              \cup Refreshing \cup Ended
States == [count : Nat, refreshes : Nat, memory : Nat]

TypeOK ==
    /\ CallTypeOK
    /\ accounts \subseteq Users
    /\ submits \in [Users -> 0..MaxSubmits]
    /\ state \in [Users -> States \cup {NoState}]
    /\ \A u \in Users \ accounts : state[u] = NoState
    /\ task \in [Callers -> Tasks]
    /\ place \in [Callers -> Places]
    /\ user \in [Callers -> Users \cup {NoUser}]
    /\ todo \in [Callers -> Seq(Users)]
    /\ users \in [Callers -> SUBSET Users]
    /\ prev \in [Callers -> States \cup {NoState}]
    /\ total \in [Callers -> 0..MaxSubmits]
    /\ answer \in [Callers -> {0, 200, 400, 403, 404, 500, 502}]
    /\ saves \in [Users -> Nat]
    /\ run \in [Users -> Nat]
    /\ behind \in [Callers -> BOOLEAN]
    /\ missed \in [Callers -> SUBSET Users]
    /\ lost \subseteq Users

Init ==
    /\ CallInit
    /\ accounts = Users
    /\ submits = [u \in Users |-> 0]
    /\ state = [u \in Users |-> NoState]
    /\ task = [p \in Callers |-> "none"]
    /\ place = [p \in Callers |-> "new"]
    /\ user = [p \in Callers |-> NoUser]
    /\ todo = [p \in Callers |-> << >>]
    /\ users = [p \in Callers |-> {}]
    /\ prev = [p \in Callers |-> NoState]
    /\ total = [p \in Callers |-> 0]
    /\ answer = [p \in Callers |-> 0]
    /\ saves = [u \in Users |-> 0]
    /\ run = [u \in Users |-> 0]
    /\ behind = [p \in Callers |-> FALSE]
    /\ missed = [p \in Callers |-> {}]
    /\ lost = {}

-----------------------------------------------------------------------------
(* What users do meanwhile.                                                *)

Submit(u) ==
    /\ u \in accounts
    /\ submits[u] < MaxSubmits
    /\ submits' = [submits EXCEPT ![u] = @ + 1]
    /\ UNCHANGED <<callVars, accounts, state, task, place, locals, answer,
                   history>>

\* user.delete() takes the submissions and the state along.
DeleteAccount(u) ==
    /\ u \in accounts
    /\ accounts' = accounts \ {u}
    /\ submits' = [submits EXCEPT ![u] = 0]
    /\ state' = [state EXCEPT ![u] = NoState]
    /\ UNCHANGED <<callVars, task, place, locals, answer, history>>

-----------------------------------------------------------------------------
(* Who is to be refreshed.                                                 *)

Begin(p, what) ==
    /\ place[p] = "new"
    /\ task' = [task EXCEPT ![p] = what]
Move(p, to) == place' = [place EXCEPT ![p] = to]
Keep(p, u) == user' = [user EXCEPT ![p] = u]

\* refresh(u) begins, with nothing known of u.
Refresh(p, u) ==
    /\ Move(p, "reading")
    /\ Keep(p, u)
    /\ prev' = [prev EXCEPT ![p] = NoState]
    /\ total' = [total EXCEPT ![p] = 0]

\* A caller that ends forgets what it knew.
Leave(p, how) ==
    /\ Move(p, how)
    /\ Keep(p, NoUser)
    /\ todo' = [todo EXCEPT ![p] = << >>]
    /\ prev' = [prev EXCEPT ![p] = NoState]
    /\ total' = [total EXCEPT ![p] = 0]
    /\ UNCHANGED users

\* ensure_fresh of a user who is posting a wrong note: the count.
StartHook(p, u) ==
    /\ Begin(p, "hook")
    /\ u \in accounts
    /\ IF submits[u] = 0
       THEN Leave(p, "done")
       ELSE /\ Move(p, "counted")
            /\ Keep(p, u)
            /\ total' = [total EXCEPT ![p] = submits[u]]
            /\ UNCHANGED <<todo, users, prev>>
    /\ UNCHANGED <<callVars, rowVars, answer, history>>

\* Mutant: the count of the state is not taken off.
StaleByTotal(count, u) == state[u] = NoState \/ count >= MinNew
\* Enough submissions are new, or there is no state yet.
Stale(count, u) ==
    state[u] = NoState \/ count >= state[u].count + MinNew

\* The hook's look at the state.
CheckGate(p) ==
    /\ place[p] = "counted"
    /\ IF Stale(total[p], user[p])
       THEN Refresh(p, user[p]) /\ UNCHANGED <<todo, users>>
       ELSE Leave(p, "done")
    /\ UNCHANGED <<callVars, rowVars, task, answer, history>>

\* refresh_coding_state <user_id>.
StartSingle(p, u) ==
    /\ Begin(p, "single")
    /\ u \in accounts
    /\ Refresh(p, u)
    /\ UNCHANGED <<callVars, rowVars, todo, users, answer, history>>

\* select_stale_user_ids, by the number of submissions, most first.
Selected(force) ==
    {u \in accounts : submits[u] > 0 /\ (force \/ Stale(submits[u], u))}
Orders(S) ==
    {s \in [1..Cardinality(S) -> S] :
        /\ IsInjective(s)
        /\ \A i, j \in DOMAIN s : i < j => submits[s[i]] >= submits[s[j]]}

\* batch_refresh: the selection, cut to `limit` (None is Cardinality(Users)).
StartBatch(p, how, limit) ==
    /\ Begin(p, how)
    /\ \E s \in Orders(Selected(how = "all")) :
          todo' = [todo EXCEPT ![p] =
                      SubSeq(s, 1, IF Len(s) < limit THEN Len(s) ELSE limit)]
    /\ Move(p, "selected")
    /\ UNCHANGED <<callVars, rowVars, user, users, prev, total, answer,
                   history>>

\* The users are fetched by id.
FetchUsers(p) ==
    /\ place[p] = "selected"
    /\ users' = [users EXCEPT ![p] = Range(todo[p]) \cap accounts]
    /\ Move(p, "next")
    /\ UNCHANGED <<callVars, rowVars, task, user, todo, prev, total, answer,
                   history>>

\* The loop of a batch over the ids, which skips those not fetched.  The
\* other tasks have none, and end.
NextUser(p) ==
    /\ place[p] = "next"
    /\ \/ todo[p] = << >> /\ Leave(p, "done")
       \/ /\ todo[p] # << >>
          /\ todo' = [todo EXCEPT ![p] = Tail(todo[p])]
          /\ IF Head(todo[p]) \in users[p]
             THEN Refresh(p, Head(todo[p])) /\ UNCHANGED users
             ELSE UNCHANGED <<place, user, users, prev, total>>
    /\ UNCHANGED <<callVars, rowVars, task, answer, history>>

-----------------------------------------------------------------------------
(* refresh                                                                 *)

ReadPrev(p) ==
    /\ place[p] = "reading"
    /\ prev' = [prev EXCEPT ![p] = state[user[p]]]
    /\ behind' = [behind EXCEPT ![p] = FALSE]
    /\ Move(p, "read")
    /\ UNCHANGED <<callVars, rowVars, task, user, todo, users, total, answer,
                   saves, run, missed, lost>>

\* Mutant: only the submissions since the last refresh are counted.
GatheredSince(p) ==
    LET all == submits[user[p]] IN
    IF prev[p] = NoState THEN all ELSE all - prev[p].count
\* gather_stats: total_submissions.
Gathered(p) == submits[user[p]]

\* gather_stats, and the log row of the call, which needs the user's row.
GatherAndSend(p) ==
    /\ place[p] = "read"
    /\ user[p] \in accounts
    /\ total' = [total EXCEPT ![p] = Gathered(p)]
    /\ users' = [users EXCEPT ![p] = @ \ {user[p]}]
    /\ Send(p)
    /\ Move(p, "calling")
    /\ UNCHANGED <<rowVars, task, user, todo, prev, answer, history>>

\* Mutant: every refresh is the first.
FirstState(p) ==
    [count |-> total[p], refreshes |-> 1,
     memory |-> IF reply[p] = "hollow" THEN 0 ELSE 1]
\* The defaults of update_or_create.
NewState(p) ==
    LET old == IF prev[p] = NoState
               THEN [count |-> 0, refreshes |-> 0, memory |-> 0]
               ELSE prev[p]
    IN  [count |-> total[p],
         refreshes |-> old.refreshes + 1,
         memory |-> IF reply[p] = "hollow" THEN 0 ELSE old.memory + 1]

\* The call of a refresh has returned; other tasks are pages.
Refreshed(p) ==
    /\ place[p] = "calling" /\ task[p] \notin Pages
    /\ call[p] = "returned"

\* update_or_create, which needs the user's row too.
SaveState(p) ==
    /\ Refreshed(p) /\ Answered(reply[p])
    /\ user[p] \in accounts
    /\ LET u == user[p] IN
        /\ state' = [state EXCEPT ![u] = NewState(p)]
        /\ saves' = [saves EXCEPT ![u] = @ + 1]
        /\ run' = [run EXCEPT ![u] = IF reply[p] = "hollow" THEN 0 ELSE @ + 1]
        /\ behind' = [q \in Callers |->
              /\ q # p
              /\ \/ behind[q]
                 \/ place[q] \in Refreshing /\ user[q] = u]
        /\ missed' = [q \in Callers |->
              IF user[q] = u \/ u \in Range(todo[q])
              THEN missed[q] \cup {u} ELSE missed[q]]
        /\ lost' = IF behind[p] THEN lost \cup {u} ELSE lost
    /\ Move(p, "next")
    /\ Forget(p)
    /\ UNCHANGED <<accounts, submits, task, locals, answer>>

\* Mutant: a batch ends at the first refresh that fails.
AfterFailureStop(p) == Leave(p, "done")
AfterFailure(p) == Move(p, "next") /\ UNCHANGED locals

\* FastAPIClientError: refresh returns None.
RefreshFails(p) ==
    /\ Refreshed(p) /\ ~Answered(reply[p])
    /\ AfterFailure(p)
    /\ Forget(p)
    /\ UNCHANGED <<rowVars, task, answer, history>>

\* Any other exception, of the call or of a row that refers to a user who is
\* gone, ends the caller: only the post around a hook swallows it.
RefreshRaises(p) ==
    /\ place[p] \in Refreshing /\ task[p] \notin Pages
    /\ \/ call[p] \in InCall
       \/ user[p] \notin accounts
    /\ Leave(p, IF task[p] = "hook" THEN "done" ELSE "aborted")
    /\ Forget(p)
    /\ UNCHANGED <<rowVars, task, answer, history>>

-----------------------------------------------------------------------------
(* Pages.                                                                  *)

Reply(p, code) ==
    /\ answer' = [answer EXCEPT ![p] = code]
    /\ Move(p, "done")

\* The checks of the request: 400 for a body that is no object or lacks a
\* field, 403 for a run of the lab by someone who is no administrator, 404
\* for a hint about a problem that does not exist, 500 for a value that
\* cannot be converted.
Rejections(k) ==
    {400, 500} \cup CASE k = "hint" -> {404} [] k = "lab" -> {403}
                      [] OTHER -> {}
RejectPage(p, k) ==
    /\ Begin(p, k)
    /\ \E code \in Rejections(k) : Reply(p, code)
    /\ UNCHANGED <<callVars, rowVars, locals, history>>

\* The test case agent calls the same way, and gets the data or an exception
\* where a page answers 200 or 502.
SendPage(p, k) ==
    /\ Begin(p, k)
    /\ Send(p)
    /\ Move(p, "calling")
    /\ UNCHANGED <<rowVars, locals, answer, history>>

\* Mutant: only the status "failed" is an error of the page.
PageCodeUnlessFailed(p) == IF StatusOf(reply[p]) = "failed" THEN 502 ELSE 200
PageCode(p) == IF Answered(reply[p]) THEN 200 ELSE 502

AnswerPage(p) ==
    /\ place[p] = "calling" /\ task[p] \in Pages
    /\ \/ call[p] = "returned" /\ Reply(p, PageCode(p))
       \/ call[p] \in InCall /\ Reply(p, 500)
    /\ UNCHANGED <<callVars, rowVars, task, locals, history>>

-----------------------------------------------------------------------------
Calling(p) ==
    /\ place[p] = "calling"
    /\ CallStep(p, IF task[p] \in Pages THEN task[p] ELSE "summarize")
    /\ UNCHANGED <<rowVars, task, place, locals, answer, history>>

Start(p) ==
    \/ \E u \in Users : StartHook(p, u) \/ StartSingle(p, u)
    \/ \E how \in Batches, limit \in 1..Cardinality(Users) :
          StartBatch(p, how, limit)
    \/ \E k \in Pages : RejectPage(p, k) \/ SendPage(p, k)

Next ==
    \/ \E u \in Users : Submit(u) \/ DeleteAccount(u)
    \/ \E p \in Callers :
          \/ Start(p) \/ CheckGate(p) \/ FetchUsers(p) \/ NextUser(p)
          \/ ReadPrev(p) \/ GatherAndSend(p) \/ Calling(p)
          \/ SaveState(p) \/ RefreshFails(p) \/ RefreshRaises(p)
          \/ AnswerPage(p)

Spec == Init /\ [][Next]_vars

-----------------------------------------------------------------------------
(* Properties                                                              *)

\* Log and error rows agree with what the caller was told, whichever way the
\* call went: a page that answers 200 has a log that succeeded, one that
\* answers 502 a log that failed and exactly one error row, and a request
\* that was rejected has no rows at all (client.py:124-246, views.py:91).
LogTellsTheTruth ==
    \A p \in Callers :
        /\ CallLogged(p)
        /\ answer[p] = 200 =>
              log[p] \in {"success", "empty"} /\ errors[p] = 0
        /\ answer[p] = 502 =>
              log[p] \in {"failed", "timeout"} /\ errors[p] = 1
        /\ answer[p] \in {400, 403, 404} => log[p] = "none"

\* refresh_count is the number of refreshes, and the memory goes back to the
\* last blank answer of the language model or to the beginning, as long as no
\* refresh was saved by a caller that had read an older state
\* (services.py:139,156-169).
CountsRefreshes ==
    \A u \in Users \ lost : state[u] # NoState =>
        state[u].refreshes = saves[u] /\ state[u].memory = run[u]

\* A state never counts more submissions than there are, and a refresh never
\* takes it back to fewer, unless another one was saved since it read the
\* state (services.py:139,168).
NeverOlder ==
    [][\A p \in Callers : SaveState(p) /\ ~behind[p] =>
          LET u == user[p] IN
          /\ state'[u].count <= submits[u]
          /\ state[u] # NoState => state'[u].count >= state[u].count]_vars

\* Neither a hook nor a batch of stale users pays for a call before MinNew
\* new submissions, unless the user was refreshed by another caller between
\* the check and the call (services.py:182-186,214).
CallPaysOff ==
    [][\A p \in Callers :
          /\ SaveState(p) /\ task[p] \in {"hook", "stale"}
          /\ user[p] \notin missed[p] /\ state[user[p]] # NoState
          => state'[user[p]].count >= state[user[p]].count + MinNew]_vars

\* A user whose refresh fails does not keep the others from theirs: a batch
\* that ends by itself has called for every user it fetched
\* (services.py:233-243).
BatchGoesOn ==
    \A p \in Callers :
        task[p] \in Batches /\ place[p] = "done" => users[p] = {}

-----------------------------------------------------------------------------
(* The inductive invariant.                                                *)

\* What the rows say at each place of a call.
CallAt(p) ==
    /\ call[p] = "idle" =>
          reply[p] = "none" /\ log[p] = "none" /\ errors[p] = 0
    /\ call[p] = "sent" => log[p] = "processing" /\ errors[p] = 0
    /\ call[p] = "failing" =>
          log[p] = "processing" /\ errors[p] = 0 /\ reply[p] \in Exceptions
    /\ call[p] = "received" =>
          /\ log[p] = "processing" /\ reply[p] \in Replies
          /\ errors[p] = IF LogsFirst(reply[p]) THEN 1 ELSE 0
    /\ call[p] = "completed" =>
          /\ log[p] = StatusOf(reply[p]) /\ reply[p] \in Replies
          /\ errors[p] = 0 /\ LogsLast(reply[p])
    /\ call[p] = "returned" =>
          /\ log[p] = StatusOf(reply[p]) /\ reply[p] \in Replies
          /\ errors[p] = IF Answered(reply[p]) THEN 0 ELSE 1

\* A caller calls at one place only, and knows its user while it refreshes.
PlaceAt(p) ==
    /\ call[p] # "idle" =>
          \/ place[p] = "calling"
          \/ task[p] \in Pages /\ place[p] = "done"
    /\ place[p] = "new" =>
          /\ task[p] = "none" /\ user[p] = NoUser
          /\ todo[p] = << >> /\ users[p] = {}
    /\ place[p] = "counted" => task[p] = "hook"
    /\ place[p] = "selected" => task[p] \in Batches
    /\ task[p] \in Pages =>
          place[p] \in {"calling", "done"} /\ user[p] = NoUser
    /\ place[p] \in {"counted", "reading", "read", "calling"}
          /\ task[p] \notin Pages => user[p] \in Users
    /\ task[p] \notin Pages \/ place[p] = "calling" => answer[p] = 0
    /\ answer[p] = 200 => call[p] = "returned" /\ Answered(reply[p])
    /\ answer[p] = 502 => call[p] = "returned" /\ ~Answered(reply[p])
    /\ answer[p] \in {400, 403, 404} => call[p] = "idle"

\* The users that a batch has still to call for are ahead of it.
OwedAt(p) ==
    task[p] \in Batches =>
        /\ place[p] \in {"selected", "done"} => users[p] = {}
        /\ place[p] \in {"next", "calling"} =>
              users[p] \subseteq Range(todo[p])
        /\ place[p] \in {"reading", "read"} =>
              users[p] \subseteq Range(todo[p]) \cup {user[p]}

\* What it has counted is not ahead of the submissions.
TotalAt(p) ==
    place[p] \in {"counted", "calling"} /\ user[p] \in accounts =>
        total[p] <= submits[user[p]]

\* What a refresh has read is what it will replace, unless it is behind.
PrevAt(p) ==
    place[p] \in Refreshing /\ user[p] \in accounts /\ ~behind[p] =>
        /\ prev[p] = state[user[p]]
        /\ place[p] = "calling" /\ prev[p] # NoState =>
              total[p] >= prev[p].count

\* There is reason to refresh u: it has no state, or enough submissions are
\* new among n.
Due(u, n) == state[u] # NoState => n >= state[u].count + MinNew

\* The users a hook or a batch of stale users is about to refresh are due,
\* unless they were refreshed since it looked.
DueAt(p) ==
    task[p] \in {"hook", "stale"} =>
        /\ \A u \in (Range(todo[p]) \cap accounts) \ missed[p] :
              Due(u, submits[u])
        /\ user[p] \in accounts \ missed[p] =>
              /\ place[p] \in {"reading", "read"} =>
                    Due(user[p], submits[user[p]])
              /\ place[p] = "calling" => Due(user[p], total[p])

CallerInv(p) ==
    CallAt(p) /\ PlaceAt(p) /\ OwedAt(p) /\ TotalAt(p) /\ PrevAt(p) /\ DueAt(p)

\* No count is ahead of the submissions, and the counters agree with the
\* history as long as states were saved in turn.
RowInv ==
    /\ \A u \in Users : state[u] # NoState => state[u].count <= submits[u]
    /\ \A u \in accounts \ lost :
        /\ state[u] = NoState => saves[u] = 0 /\ run[u] = 0
        /\ state[u] # NoState =>
              state[u].refreshes = saves[u] /\ state[u].memory = run[u]

CallersInv == \A p \in Callers : CallerInv(p)

Inv == TypeOK /\ RowInv /\ CallersInv
=============================================================================
