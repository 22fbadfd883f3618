------------------------------ MODULE Rewards -------------------------------
(***************************************************************************)
(* Points, levels and missions of one user: record_user_action and what it *)
(* calls (django/gamification/services.py), run by concurrent requests,    *)
(* next to the two other writers of the user's row (django/mypage/views.py *)
(* ), which both work on a copy of it read when the request began: the     *)
(* change of password saves every column of its copy, the choice of an     *)
(* avatar only its own.                                                    *)
(*                                                                         *)
(* A step is a statement, or a group of statements of one transaction that *)
(* no other transaction can tell from a single one.  The rows of different *)
(* users are disjoint, so one user is enough.                              *)
(***************************************************************************)
EXTENDS Points

CONSTANTS
    Requests,  \* concurrent requests that record an action of the user
    Changes,   \* concurrent requests of the account pages
    Events,    \* user actions: an action type and the object it is about
    Missions,  \* the active missions
    Triggered, \* the missions whose trigger_action is the type of an event
    Target,    \* Mission.target_count
    Reward,    \* POINT_REWARD_MAP, by what is rewarded
    NoKey, NoMission

Keys == Events \cup Missions  \* what a PointLog row can be about

ASSUME RewardsAreNumbers ==
    /\ Events \cap Missions = {}
    /\ IsFiniteSet(Events)
    /\ Triggered \in [Events -> SUBSET Missions]
    /\ Target \in [Missions -> Nat]
    /\ Reward \in [Keys -> Nat]
    /\ NoKey \notin Keys
    /\ NoMission \notin Missions

VARIABLES
    point, level, avatar, \* of the user's row
    log,           \* the keys with a PointLog row
    progress,      \* UserMission.progress_count (0 before the row exists)
    completed,     \* UserMission.is_completed
    pc, event,     \* where each request is, and the action it records
    key,           \* what award_points is called for
    newPoint,      \* the point it has written and not yet committed
    todo,          \* missions advance_missions still has to visit
    mission, copy, \* the one it visits, and its progress as read
    cpc, cpoint, clevel, cavatar, \* the account pages and their copies
    overwritten,   \* history: a password change has put back other points
    lost           \* history: the missions for which a request died before it
                   \* counted or paid, or saved an old copy of the progress

userVars    == <<point, level, avatar, overwritten>>
missionVars == <<progress, completed, lost>>
requestVars == <<pc, event, key, newPoint, todo, mission, copy>>
changeVars  == <<cpc, cpoint, clevel, cavatar>>
vars == <<userVars, log, missionVars, requestVars, changeVars>>

Waiting == {"insert", "inserted", "added"}  \* inside award_points

TypeOK ==
    /\ point \in Nat /\ level \in 1 .. 7 /\ avatar \in 1 .. 7
    /\ overwritten \in BOOLEAN
    /\ log \subseteq Keys
    /\ progress \in [Missions -> Nat]
    /\ completed \in [Missions -> BOOLEAN]
    /\ lost \subseteq Missions
    /\ pc \in [Requests -> {"idle", "next", "advance"} \cup Waiting]
    /\ event \in [Requests -> Events \cup {NoKey}]
    /\ key \in [Requests -> Keys \cup {NoKey}]
    /\ newPoint \in [Requests -> Nat]
    /\ todo \in [Requests -> SUBSET Missions]
    /\ mission \in [Requests -> Missions \cup {NoMission}]
    /\ copy \in [Requests -> Nat]
    /\ cpc \in [Changes -> {"idle", "loaded"}]
    /\ cpoint \in [Changes -> Nat]
    /\ clevel \in [Changes -> 1 .. 7]
    /\ cavatar \in [Changes -> 1 .. 7]

Init ==
    /\ point = 0 /\ level = LevelOf(0) /\ avatar = 1 /\ overwritten = FALSE
    /\ log = {}
    /\ progress = [m \in Missions |-> 0]
    /\ completed = [m \in Missions |-> FALSE]
    /\ lost = {}
    /\ pc = [r \in Requests |-> "idle"]
    /\ event = [r \in Requests |-> NoKey]
    /\ key = [r \in Requests |-> NoKey]
    /\ newPoint = [r \in Requests |-> 0]
    /\ todo = [r \in Requests |-> {}]
    /\ mission = [r \in Requests |-> NoMission]
    /\ copy = [r \in Requests |-> 0]
    /\ cpc = [c \in Changes |-> "idle"]
    /\ cpoint = [c \in Changes |-> 0]
    /\ clevel = [c \in Changes |-> 1]
    /\ cavatar = [c \in Changes |-> 1]

-----------------------------------------------------------------------------
(* award_points.                                                           *)

\* record_user_action.  The polls of a solved submission, and a review that
\* two tabs confirm, record one and the same action again.
Begin(r, e) ==
    /\ pc[r] = "idle"
    /\ pc' = [pc EXCEPT ![r] = "insert"]
    /\ event' = [event EXCEPT ![r] = e]
    /\ key' = [key EXCEPT ![r] = e]
    /\ UNCHANGED <<userVars, log, missionVars, newPoint, todo, mission, copy,
                   changeVars>>

EndRequest(r) ==
    /\ pc' = [pc EXCEPT ![r] = "idle"]
    /\ event' = [event EXCEPT ![r] = NoKey]
    /\ key' = [key EXCEPT ![r] = NoKey]
    /\ newPoint' = [newPoint EXCEPT ![r] = 0]
    /\ todo' = [todo EXCEPT ![r] = {}]
    /\ mission' = [mission EXCEPT ![r] = NoMission]
    /\ copy' = [copy EXCEPT ![r] = 0]

\* The unique constraint makes an INSERT wait for the transaction that has
\* inserted the same key and has not ended.
Uncommitted(k) ==
    \E s \in Requests : pc[s] \in {"inserted", "added"} /\ key[s] = k

\* Mutant: no unique constraint on the identity of a reward.
CanAlwaysInsert(k) == TRUE
CanInsert(k) == k \notin log /\ ~Uncommitted(k)

\* Mutant: the point is read and written back without a lock.
NeverLocked == FALSE

\* The row of the user is locked from its first UPDATE to the commit.
UserRowLocked == \E s \in Requests : pc[s] = "added"

\* Mutant: the lookup is tried again instead of returned.
FindLogRetrying(r) ==
    /\ pc[r] = "insert"
    /\ key[r] \in log
    /\ UNCHANGED vars

\* get_or_create finds the row: no reward.  An action ends there, a mission
\* returns to the loop of advance_missions.
FindLog(r) ==
    /\ pc[r] = "insert"
    /\ key[r] \in log
    /\ IF key[r] \in Events
       THEN EndRequest(r)
       ELSE /\ pc' = [pc EXCEPT ![r] = "next"]
            /\ UNCHANGED <<event, key, newPoint, todo, mission, copy>>
    /\ UNCHANGED <<userVars, log, missionVars, changeVars>>

\* get_or_create inserts the row, still unseen by others.
InsertLog(r) ==
    /\ pc[r] = "insert"
    /\ CanInsert(key[r])
    /\ pc' = [pc EXCEPT ![r] = "inserted"]
    /\ UNCHANGED <<userVars, log, missionVars, event, key, newPoint, todo,
                   mission, copy, changeVars>>

\* UPDATE ... SET point = point + reward, and reading the result back.
AddPoint(r) ==
    /\ pc[r] = "inserted"
    /\ ~UserRowLocked
    /\ newPoint' = [newPoint EXCEPT ![r] = point + Reward[key[r]]]
    /\ pc' = [pc EXCEPT ![r] = "added"]
    /\ UNCHANGED <<userVars, log, missionVars, event, key, todo, mission,
                   copy, changeVars>>

\* Mutant: the level is computed before the point is read back.
OldLevel(r) == LevelOf(point)
NewLevel(r) == LevelOf(newPoint[r])

\* Mutant: only the points are given.
NeverAdvancing(r) == todo[r]

\* The missions still to visit once the reward is there: those of a new
\* action, or the rest of those the request is visiting.
Advancing(r) == IF key[r] \in Events THEN Triggered[key[r]] ELSE todo[r]

\* UPDATE ... SET level, and the commit of row, point and level.  A new
\* reward for an action goes on to advance_missions.
CommitAward(r) ==
    /\ pc[r] = "added"
    /\ point' = newPoint[r]
    /\ level' = NewLevel(r)
    /\ log' = log \cup {key[r]}
    /\ todo' = [todo EXCEPT ![r] = Advancing(r)]
    /\ pc' = [pc EXCEPT ![r] = "next"]
    /\ UNCHANGED <<avatar, overwritten, missionVars, event, key, newPoint,
                   mission, copy, changeVars>>

-----------------------------------------------------------------------------
(* advance_missions.                                                       *)

\* Gets (or creates) the user's row of the next mission, in no set order.
ReadMission(r) ==
    /\ pc[r] = "next"
    /\ \E m \in todo[r] :
        /\ todo' = [todo EXCEPT ![r] = @ \ {m}]
        /\ IF completed[m]
           THEN UNCHANGED <<pc, mission, copy>>
           ELSE /\ mission' = [mission EXCEPT ![r] = m]
                /\ copy' = [copy EXCEPT ![r] = progress[m]]
                /\ pc' = [pc EXCEPT ![r] = "advance"]
    /\ UNCHANGED <<userVars, log, missionVars, event, key, newPoint,
                   changeVars>>

AtMost(n, bound) == IF n <= bound THEN n ELSE bound

\* Mutant: off by one.
CompletesEarly(m, n) == n + 1 >= Target[m]
Completes(m, n) == n >= Target[m]

\* Saves the copy, one step further; a completed mission is rewarded.
SaveMission(r) ==
    /\ pc[r] = "advance"
    /\ LET m == mission[r]
           n == AtMost(copy[r] + 1, Target[m])
       IN /\ progress'  = [progress EXCEPT ![m] = n]
          /\ completed' = [completed EXCEPT ![m] = Completes(m, n)]
          /\ lost' = IF copy[r] = progress[m] THEN lost ELSE lost \cup {m}
          /\ IF Completes(m, n)
             THEN /\ key' = [key EXCEPT ![r] = m]
                  /\ pc' = [pc EXCEPT ![r] = "insert"]
             ELSE /\ pc' = [pc EXCEPT ![r] = "next"]
                  /\ UNCHANGED key
    /\ UNCHANGED <<userVars, log, event, newPoint, todo, mission, copy,
                   changeVars>>

Return(r) ==
    /\ pc[r] = "next"
    /\ todo[r] = {}
    /\ EndRequest(r)
    /\ UNCHANGED <<userVars, log, missionVars, changeVars>>

\* The request still has to count its event for the mission.
Owes(r, m) == m \in todo[r] \/ (pc[r] = "advance" /\ mission[r] = m)

\* The request still has to pay for the mission it completed.
Pays(r, m) == pc[r] \in Waiting /\ key[r] = m

\* A statement fails or the process dies: the open transaction is undone,
\* what was committed before it stays.
Abort(r) ==
    /\ pc[r] # "idle"
    /\ EndRequest(r)
    /\ lost' = lost \cup {m \in Missions : Owes(r, m) \/ Pays(r, m)}
    /\ UNCHANGED <<userVars, log, progress, completed, changeVars>>

-----------------------------------------------------------------------------
(* The account pages: AvatarUpdateView and AccountPasswordChangeView.      *)

\* request.user, read when the request begins.
LoadUser(c) ==
    /\ cpc[c] = "idle"
    /\ cpc' = [cpc EXCEPT ![c] = "loaded"]
    /\ cpoint' = [cpoint EXCEPT ![c] = point]
    /\ clevel' = [clevel EXCEPT ![c] = level]
    /\ cavatar' = [cavatar EXCEPT ![c] = avatar]
    /\ UNCHANGED <<userVars, log, missionVars, requestVars>>

EndChange(c) ==
    /\ cpc[c] = "loaded"
    /\ cpc' = [cpc EXCEPT ![c] = "idle"]
    /\ cpoint' = [cpoint EXCEPT ![c] = 0]
    /\ clevel' = [clevel EXCEPT ![c] = 1]
    /\ cavatar' = [cavatar EXCEPT ![c] = 1]

\* SetPasswordForm.save saves the whole row.
SaveUser(c) ==
    /\ EndChange(c)
    /\ ~UserRowLocked
    /\ point' = cpoint[c]
    /\ level' = clevel[c]
    /\ avatar' = cavatar[c]
    /\ overwritten' = (overwritten \/ cpoint[c] # point)
    /\ UNCHANGED <<log, missionVars, requestVars>>

\* The avatar is one that the copy's points unlock (avatar_items);
\* save(update_fields=["selected_avatar"]) writes nothing else.
SaveAvatar(c) ==
    /\ EndChange(c)
    /\ ~UserRowLocked
    /\ \E a \in 1 .. 7 : Unlocked(a, cpoint[c]) /\ avatar' = a
    /\ UNCHANGED <<point, level, overwritten, log, missionVars, requestVars>>

\* The avatar is locked, the form is not valid, or the request dies.
DropChange(c) ==
    /\ EndChange(c)
    /\ UNCHANGED <<userVars, log, missionVars, requestVars>>

-----------------------------------------------------------------------------
Award(r) == FindLog(r) \/ InsertLog(r) \/ AddPoint(r) \/ CommitAward(r)
Advance(r) == ReadMission(r) \/ SaveMission(r) \/ Return(r)
Record(r) == (\E e \in Events : Begin(r, e)) \/ Award(r) \/ Advance(r)
ChangeAccount(c) ==
    LoadUser(c) \/ SaveUser(c) \/ SaveAvatar(c) \/ DropChange(c)

Next ==
    \/ \E r \in Requests : Record(r) \/ Abort(r)
    \/ \E c \in Changes : ChangeAccount(c)

Spec == Init /\ [][Next]_vars

\* No request fails and nobody changes a password.
UndisturbedSpec == Init /\ [][\E r \in Requests : Record(r)]_vars

\* Requests that are not cut short run to their end; a transaction that
\* waits for a lock gets it.
Fairness ==
    \A r \in Requests :
        /\ WF_vars(FindLog(r) \/ CommitAward(r) \/ Advance(r))
        /\ SF_vars(InsertLog(r) \/ AddPoint(r))

-----------------------------------------------------------------------------
(* Safety.                                                                 *)

Earned(keys) == Sum(keys, Reward)

\* The user's points are never more than what the log accounts for, and
\* exactly that unless a password change put back an old copy: concurrent
\* awards lose nothing, and a repeated one adds nothing.
PointsMatchLog ==
    /\ point <= Earned(log)
    /\ ~overwritten => point = Earned(log)

\* The level always belongs to the points, although it is computed by the
\* program from a value it has read and written by another statement.
LevelFollowsPoints == level = LevelOf(point)

Triggering(m) == {e \in log \cap Events : m \in Triggered[e]}

\* daily_mission_completed is paid only after target_count different
\* actions of the trigger were rewarded, however the requests that count
\* them interleave, repeat and die.
MissionRewardEarned ==
    \A m \in log \cap Missions : Cardinality(Triggering(m)) >= Target[m]

\* The rewarded actions nobody is going to count for the mission any more.
Counted(m) ==
    {e \in Triggering(m) : \A r \in Requests : event[r] = e => ~Owes(r, m)}

\* A repeated action finds the log and does nothing more, so what a request
\* leaves undone is never made up for.  Nothing else is lost: the progress
\* of a mission is the number of its rewarded actions, and a mission that is
\* completed is paid or about to be paid, unless a request died before it
\* counted or paid for that mission, or two counted from the same copy.
MissionsAreServed ==
    \A m \in Missions \ lost :
        /\ progress[m] = AtMost(Cardinality(Counted(m)), Target[m])
        /\ completed[m] => m \in log \/ \E r \in Requests : Pays(r, m)

\* The account as its user may think of it, whatever runs concurrently:
\* every reward is paid once and in full, and an avatar is worn only after
\* the points for it were earned, although it is checked against an old
\* copy of the points and saved, and put back, much later.
A == INSTANCE Account WITH
        paid <- log, earned <- Earned(log), balance <- point
ImplementsAccount == A!Spec

\* An award adds exactly its reward to the points as they are when it
\* commits: between its UPDATE and its commit nobody else writes them,
\* neither another award nor the save of a whole row.
PaidExactly ==
    [][\A k \in Keys : k \in log' \ log =>
          log' = log \cup {k} /\ point' = point + Reward[k]]_vars

-----------------------------------------------------------------------------
(* The inductive invariant behind the safety properties.                   *)

\* No two transactions hold the user's row, and none inserts a key that is
\* there already or that another one is inserting.
AwardsExclusive ==
    /\ \A r, s \in Requests : pc[r] = "added" /\ pc[s] = "added" => r = s
    /\ \A r, s \in Requests :
          /\ {pc[r], pc[s]} \subseteq {"inserted", "added"}
          /\ key[r] = key[s]
          => r = s
    /\ \A r \in Requests : pc[r] \in {"inserted", "added"} => key[r] \notin log

\* What a request knows between two statements.
Knows(r) ==
    /\ pc[r] = "idle" => todo[r] = {}
    /\ pc[r] \in Waiting => key[r] \in Keys
    /\ pc[r] \in Waiting /\ key[r] \in Events =>
          key[r] = event[r] /\ todo[r] = {}
    /\ pc[r] = "advance" => mission[r] \in Missions \ todo[r]
    /\ \A m \in Missions :
          /\ pc[r] \in Waiting /\ key[r] = m =>
                Target[m] <= Cardinality(Triggering(m))
          /\ pc[r] = "advance" /\ mission[r] = m =>
                copy[r] <= Cardinality(Counted(m))
          /\ Owes(r, m) => event[r] \in Triggering(m)

RequestInv == \A r \in Requests : Knows(r)

\* An action is counted by one request only.
CountersDistinct ==
    \A r, s \in Requests, m \in Missions :
        Owes(r, m) /\ Owes(s, m) /\ event[r] = event[s] => r = s

ProgressInv ==
    \A m \in Missions :
        /\ progress[m] <= Cardinality(Counted(m))
        /\ completed[m] => progress[m] = Target[m]

\* What a request has written and not committed is what it will commit.
AddedInv ==
    \A r \in Requests : pc[r] = "added" =>
                          newPoint[r] = point + Reward[key[r]]

ChangeInv ==
    \A c \in Changes : cpc[c] = "loaded" => clevel[c] = LevelOf(cpoint[c])

\* A copy of the row holds no more than was earned, and the avatar, the
\* copies' too, is one that was earned.
BalanceInv ==
    /\ IsFiniteSet(PointsFor(log, Reward))
    /\ PointsMatchLog
    /\ Unlocked(avatar, Earned(log))
    /\ \A c \in Changes : cpc[c] = "loaded" =>
          cpoint[c] <= Earned(log) /\ Unlocked(cavatar[c], Earned(log))

Inv ==
    /\ TypeOK
    /\ AwardsExclusive
    /\ RequestInv
    /\ CountersDistinct
    /\ ProgressInv
    /\ MissionRewardEarned
    /\ MissionsAreServed
    /\ AddedInv
    /\ ChangeInv
    /\ BalanceInv
    /\ LevelFollowsPoints

-----------------------------------------------------------------------------
(* Liveness.                                                               *)

\* Locks and waits are never circular: a request that is recording an
\* action ends, so a browser that reports it gets its answer.
RequestsEnd ==
    Fairness => \A r \in Requests : pc[r] # "idle" ~> pc[r] = "idle"

-----------------------------------------------------------------------------
(* What the documentation says and the code does not do.                   *)

\* FR-GAME-001: points are paid for learning actions by a fixed table, so
\* what the user has is what the log says was paid.
PointsArePaid == point = Earned(log)

\* FR-GAME-004: when the trigger action happens the progress increases.
ProgressCounts ==
    (\A r \in Requests : pc[r] = "idle") =>
        \A m \in Missions :
            progress[m] = AtMost(Cardinality(Triggering(m)), Target[m])
=============================================================================
