--------------------------- MODULE RewardsProofs ----------------------------
(* Proofs about Rewards: its type invariant and its safety properties.     *)
EXTENDS Rewards, FiniteSetTheorems, TLAPS

-----------------------------------------------------------------------------
(* Cardinalities.                                                          *)

\* Every number of points has one of the seven levels.
LEMMA LevelRange == \A p \in Nat : LevelOf(p) \in 1 .. 7
<1> SUFFICES ASSUME NEW p \in Nat PROVE LevelOf(p) \in 1 .. 7
  OBVIOUS
<1> DEFINE S == {l \in 1 .. 7 : RequiredPoint[l] <= p}
<1>1. IsFiniteSet(1 .. 7) /\ Cardinality(1 .. 7) = 7
  <2>1. /\ IsFiniteSet(1 .. 7)
        /\ Cardinality(1 .. 7) = IF 1 > 7 THEN 0 ELSE 7 - 1 + 1
    BY FS_Interval, 1 \in Int, 7 \in Int, ZenonT(30)
  <2>2. QED BY <2>1
<1>2. IsFiniteSet(S) /\ Cardinality(S) <= 7
  BY <1>1, FS_Subset, S \in SUBSET (1 .. 7)
<1>3. 1 \in S
  BY DEF RequiredPoint
<1>4. Cardinality(S) \in Nat /\ Cardinality(S) # 0
  BY <1>2, <1>3, FS_CardinalityType, FS_EmptySet
<1>5. Cardinality(S) \in 1 .. 7
  BY <1>2, <1>4
<1>6. QED BY <1>5 DEF LevelOf

\* There are finitely many actions, so they can be counted.
LEMMA CountsAreNumbers ==
    ASSUME NEW S \in SUBSET Events
    PROVE  IsFiniteSet(S) /\ Cardinality(S) \in Nat
BY RewardsAreNumbers, FS_Subset, FS_CardinalityType

\* More actions are at least as many.
LEMMA CountsGrow ==
    ASSUME NEW T \in SUBSET Events, NEW S \in SUBSET T
    PROVE  Cardinality(S) <= Cardinality(T)
BY CountsAreNumbers, FS_Subset

\* What is counted was rewarded, and is an action.
LEMMA SetsAreEvents ==
    ASSUME NEW m \in Missions
    PROVE  Counted(m) \subseteq Triggering(m) /\ Triggering(m) \subseteq Events
BY DEF Counted, Triggering

-----------------------------------------------------------------------------
(* The invariant holds initially.                                          *)

\* The invariant holds initially.
LEMMA Initially == Init => Inv
<1> SUFFICES ASSUME Init PROVE Inv
  OBVIOUS
<1>1. TypeOK
  <2>1. LevelOf(0) \in 1 .. 7
    BY LevelRange
  <2>2. /\ log \subseteq Keys
        /\ progress \in [Missions -> Nat]
        /\ cpc \in [Changes -> {"idle", "loaded"}]
        /\ cpoint \in [Changes -> Nat]
        /\ clevel \in [Changes -> 1 .. 7]
        /\ cavatar \in [Changes -> 1 .. 7]
    BY DEF Init
  <2>3. /\ point \in Nat /\ level \in 1 .. 7
        /\ overwritten \in BOOLEAN /\ completed \in [Missions -> BOOLEAN]
        /\ lost \subseteq Missions
    BY <2>1 DEF Init
  <2>4. avatar \in 1 .. 7
    BY DEF Init
  <2>5. /\ pc \in [Requests -> {"idle", "next", "advance"} \cup Waiting]
        /\ event \in [Requests -> Events \cup {NoKey}]
        /\ key \in [Requests -> Keys \cup {NoKey}]
        /\ newPoint \in [Requests -> Nat]
        /\ todo \in [Requests -> SUBSET Missions]
        /\ mission \in [Requests -> Missions \cup {NoMission}]
        /\ copy \in [Requests -> Nat]
    BY DEF Init
  <2>6. QED BY <2>2, <2>3, <2>4, <2>5 DEF TypeOK
<1>2. AwardsExclusive /\ CountersDistinct
  BY DEF Init, AwardsExclusive, CountersDistinct, Owes
<1>3. RequestInv /\ AddedInv
  BY DEF Init, RequestInv, Knows, AddedInv, Owes, Waiting
<1>4. ProgressInv
  <2> SUFFICES ASSUME NEW m \in Missions
               PROVE /\ progress[m] <= Cardinality(Counted(m))
                     /\ completed[m] => progress[m] = Target[m]
    BY DEF ProgressInv
  <2>1. progress[m] = 0 /\ ~completed[m]
    BY DEF Init
  <2>2. Cardinality(Counted(m)) \in Nat
    BY CountsAreNumbers, SetsAreEvents
  <2>3. QED BY <2>1, <2>2
<1>5. MissionRewardEarned
  BY DEF Init, MissionRewardEarned
<1>6. ChangeInv /\ LevelFollowsPoints
  BY DEF Init, ChangeInv, LevelFollowsPoints
<1>7. BalanceInv
  <2>1. PointsFor({}, Reward) = {}
    BY DEF PointsFor
  <2>2. Sum({}, Reward) = 0 /\ IsFiniteSet(PointsFor({}, Reward))
    BY <2>1, FS_EmptySet DEF Sum
  <2>3. QED
    BY <2>2
       DEF Init, BalanceInv, PointsMatchLog, Earned, Unlocked, RequiredPoint
<1>8. MissionsAreServed
  <2> SUFFICES ASSUME NEW m \in Missions
               PROVE /\ ~completed[m]
                     /\ progress[m] = AtMost(Cardinality(Counted(m)),
                                             Target[m])
    BY DEF MissionsAreServed
  <2>1. Counted(m) = {}
    BY DEF Init, Counted, Triggering
  <2>2. Cardinality(Counted(m)) = 0 /\ Target[m] \in Nat
    BY <2>1, FS_EmptySet, RewardsAreNumbers
  <2>3. progress[m] = 0 /\ ~completed[m]
    BY DEF Init
  <2>4. QED BY <2>2, <2>3 DEF AtMost
<1>9. QED BY <1>1, <1>2, <1>3, <1>4, <1>5, <1>6, <1>7, <1>8 DEF Inv

-----------------------------------------------------------------------------
(* Type correctness.                                                       *)

\* The end of a request keeps the types.
LEMMA EndRequestTypes ==
    ASSUME TypeOK, NEW r \in Requests, EndRequest(r),
           UNCHANGED <<userVars, log, progress, completed, changeVars>>,
           lost' \subseteq Missions
    PROVE  TypeOK'
BY DEF EndRequest, TypeOK, userVars, changeVars

\* Every step keeps the types.
LEMMA TypeStep == ASSUME Inv, [Next]_vars PROVE TypeOK'
<1> TypeOK /\ RequestInv
  BY DEF Inv
<1> USE RewardsAreNumbers DEF userVars, missionVars, changeVars, Keys
<1>1. ASSUME NEW r \in Requests, NEW e \in Events, Begin(r, e) PROVE TypeOK'
  BY <1>1 DEF Begin, TypeOK, Waiting
<1>2. ASSUME NEW r \in Requests, FindLog(r) PROVE TypeOK'
  <2>1. CASE key[r] \in Events
    BY <1>2, <2>1, EndRequestTypes DEF FindLog, TypeOK
  <2>2. CASE key[r] \notin Events
    BY <1>2, <2>2 DEF FindLog, TypeOK
  <2>3. QED BY <2>1, <2>2
<1>3. ASSUME NEW r \in Requests, InsertLog(r) PROVE TypeOK'
  BY <1>3 DEF InsertLog, TypeOK, Waiting
<1>4. ASSUME NEW r \in Requests, AddPoint(r) PROVE TypeOK'
  <2>1. point + Reward[key[r]] \in Nat
    BY <1>4 DEF AddPoint, TypeOK, RequestInv, Knows, Waiting
  <2>2. QED BY <1>4, <2>1 DEF AddPoint, TypeOK, Waiting
<1>5. ASSUME NEW r \in Requests, CommitAward(r) PROVE TypeOK'
  <2>1. LevelOf(newPoint[r]) \in 1 .. 7
    BY LevelRange DEF TypeOK
  <2>2. key[r] \in Keys
    BY <1>5 DEF CommitAward, RequestInv, Knows, Waiting
  <2>3. todo' \in [Requests -> SUBSET Missions]
    BY <1>5 DEF CommitAward, Advancing, TypeOK
  <2>4. QED BY <1>5, <2>1, <2>2, <2>3 DEF CommitAward, NewLevel, TypeOK
<1>6. ASSUME NEW r \in Requests, ReadMission(r) PROVE TypeOK'
  <2>1. PICK m \in todo[r] : ReadMission(r)!2!(m)
    BY <1>6 DEF ReadMission
  <2>2. m \in Missions /\ progress[m] \in Nat
    BY <2>1 DEF TypeOK
  <2>3. /\ pc' \in [Requests -> {"idle", "next", "advance"} \cup Waiting]
        /\ todo' \in [Requests -> SUBSET Missions]
        /\ mission' \in [Requests -> Missions \cup {NoMission}]
        /\ copy' \in [Requests -> Nat]
    BY <2>1, <2>2 DEF TypeOK, Waiting
  <2>4. QED BY <1>6, <2>3 DEF ReadMission, TypeOK
<1>7. ASSUME NEW r \in Requests, SaveMission(r) PROVE TypeOK'
  <2>1. mission[r] \in Missions
    BY <1>7 DEF SaveMission, RequestInv, Knows
  <2>2. AtMost(copy[r] + 1, Target[mission[r]]) \in Nat
    BY <2>1 DEF AtMost, TypeOK
  <2>3. QED BY <1>7, <2>1, <2>2 DEF SaveMission, Completes, TypeOK, Waiting
<1>8. ASSUME NEW r \in Requests, Return(r) \/ Abort(r) PROVE TypeOK'
  <2>1. lost' \subseteq Missions
    BY <1>8 DEF Return, Abort, TypeOK
  <2>2. QED BY <1>8, <2>1, EndRequestTypes DEF Return, Abort
<1>9. ASSUME NEW c \in Changes, ChangeAccount(c) PROVE TypeOK'
  <2>1. CASE LoadUser(c)
    BY <2>1 DEF LoadUser, TypeOK, requestVars
  <2>2. CASE SaveUser(c)
    BY <2>2 DEF SaveUser, EndChange, TypeOK, requestVars
  <2>3. CASE SaveAvatar(c)
    BY <2>3 DEF SaveAvatar, EndChange, TypeOK, requestVars
  <2>4. CASE DropChange(c)
    BY <2>4 DEF DropChange, EndChange, TypeOK, requestVars
  <2>5. QED BY <1>9, <2>1, <2>2, <2>3, <2>4 DEF ChangeAccount
<1>10. CASE UNCHANGED vars
  BY <1>10 DEF vars, TypeOK, requestVars
<1>11. QED
  BY <1>1, <1>2, <1>3, <1>4, <1>5, <1>6, <1>7, <1>8, <1>9, <1>10
     DEF Next, Record, Award, Advance

-----------------------------------------------------------------------------
(* Locks: awards exclude one another, and nobody writes under a row lock.  *)

\* The unique constraint and the row lock keep awards apart.
LEMMA ExclusiveStep == ASSUME Inv, [Next]_vars PROVE AwardsExclusive'
<1> TypeOK /\ AwardsExclusive /\ RequestInv
  BY DEF Inv
<1>1. ASSUME NEW r \in Requests, InsertLog(r) PROVE AwardsExclusive'
  BY <1>1 DEF InsertLog, CanInsert, AwardsExclusive, TypeOK, Uncommitted
<1>2. ASSUME NEW r \in Requests, AddPoint(r) PROVE AwardsExclusive'
  BY <1>2 DEF AddPoint, AwardsExclusive, TypeOK, UserRowLocked
<1>3. ASSUME NEW r \in Requests, CommitAward(r) PROVE AwardsExclusive'
  BY <1>3 DEF CommitAward, AwardsExclusive, TypeOK
<1>4. ASSUME log' = log,
             \A s \in Requests : pc'[s] \in {"inserted", "added"} =>
                pc'[s] = pc[s] /\ key'[s] = key[s]
      PROVE  AwardsExclusive'
  BY <1>4 DEF AwardsExclusive
<1>5. ASSUME NEW r \in Requests,
             (\E e \in Events : Begin(r, e)) \/ FindLog(r) \/ Advance(r)
                \/ Abort(r)
      PROVE  AwardsExclusive'
  BY <1>4, <1>5
     DEF Begin, FindLog, Advance, ReadMission, SaveMission, Return, Abort,
         EndRequest, TypeOK
<1>6. CASE UNCHANGED vars \/ \E c \in Changes : ChangeAccount(c)
  BY <1>4, <1>6
     DEF ChangeAccount, LoadUser, SaveUser, SaveAvatar, EndChange,
         DropChange, vars, requestVars
<1>7. QED
  BY <1>1, <1>2, <1>3, <1>5, <1>6 DEF Next, Record, Award

\* Nobody writes the points while an award is uncommitted.
LEMMA AddedStep == ASSUME Inv, [Next]_vars PROVE AddedInv'
<1> TypeOK /\ AwardsExclusive /\ AddedInv
  BY DEF Inv
<1>1. ASSUME NEW r \in Requests, AddPoint(r) PROVE AddedInv'
  BY <1>1 DEF AddPoint, AddedInv, TypeOK, userVars
<1>2. ASSUME NEW r \in Requests, CommitAward(r) PROVE AddedInv'
  BY <1>2 DEF CommitAward, AddedInv, AwardsExclusive, TypeOK
<1>3. ASSUME NEW c \in Changes, SaveUser(c) PROVE AddedInv'
  BY <1>3 DEF SaveUser, AddedInv, UserRowLocked, requestVars
<1>4. ASSUME point' = point,
             \A s \in Requests : pc'[s] = "added" =>
                pc[s] = "added" /\ newPoint'[s] = newPoint[s]
                                /\ key'[s] = key[s]
      PROVE  AddedInv'
  BY <1>4 DEF AddedInv
<1>5. ASSUME NEW r \in Requests,
             (\E e \in Events : Begin(r, e)) \/ FindLog(r) \/ InsertLog(r)
                \/ Advance(r) \/ Abort(r)
      PROVE  AddedInv'
  BY <1>4, <1>5
     DEF Begin, FindLog, InsertLog, Advance, ReadMission, SaveMission, Return,
         Abort, EndRequest, TypeOK, userVars
<1>6. ASSUME NEW c \in Changes,
             LoadUser(c) \/ SaveAvatar(c) \/ DropChange(c)
      PROVE  AddedInv'
  BY <1>4, <1>6 DEF LoadUser, SaveAvatar, DropChange, userVars, requestVars
<1>7. CASE UNCHANGED vars
  BY <1>4, <1>7 DEF vars, userVars, requestVars
<1>8. QED
  BY <1>1, <1>2, <1>3, <1>5, <1>6, <1>7
     DEF Next, Record, Award, ChangeAccount

-----------------------------------------------------------------------------
(* Points and levels are written together.                                 *)

\* Whoever writes the points writes the level that belongs to them.
LEMMA LevelStep ==
    ASSUME Inv, [Next]_vars PROVE LevelFollowsPoints' /\ ChangeInv'
<1> TypeOK /\ LevelFollowsPoints /\ ChangeInv
  BY DEF Inv
<1>1. ASSUME NEW r \in Requests, CommitAward(r)
      PROVE  LevelFollowsPoints' /\ ChangeInv'
  BY <1>1 DEF CommitAward, NewLevel, LevelFollowsPoints, ChangeInv, changeVars
<1>2. ASSUME NEW c \in Changes, ChangeAccount(c)
      PROVE  LevelFollowsPoints' /\ ChangeInv'
  <2>1. CASE LoadUser(c)
    BY <2>1 DEF LoadUser, LevelFollowsPoints, ChangeInv, TypeOK, userVars
  <2>2. CASE SaveUser(c)
    BY <2>2 DEF SaveUser, EndChange, LevelFollowsPoints, ChangeInv, TypeOK
  <2>3. CASE SaveAvatar(c) \/ DropChange(c)
    BY <2>3
       DEF SaveAvatar, DropChange, EndChange, LevelFollowsPoints, ChangeInv,
           TypeOK, userVars
  <2>4. QED BY <1>2, <2>1, <2>2, <2>3 DEF ChangeAccount
<1>3. CASE UNCHANGED <<userVars, changeVars>>
  BY <1>3 DEF userVars, changeVars, LevelFollowsPoints, ChangeInv
<1>4. ASSUME NEW r \in Requests, Record(r) \/ Abort(r), ~CommitAward(r)
      PROVE  UNCHANGED <<userVars, changeVars>>
  BY <1>4
     DEF Record, Begin, Award, FindLog, InsertLog, AddPoint, Advance,
         ReadMission, SaveMission, Return, Abort
<1>5. CASE UNCHANGED vars
  BY <1>3, <1>5 DEF vars
<1>6. QED
  BY <1>1, <1>2, <1>3, <1>4, <1>5 DEF Next

-----------------------------------------------------------------------------
(* The points of a user are the sum of the log.                            *)

\* A reward of n points is worth n pairs.
LEMMA OneReward ==
    ASSUME NEW k, NEW n \in Nat
    PROVE  /\ IsFiniteSet({k} \X (1 .. n))
           /\ Cardinality({k} \X (1 .. n)) = n
<1>1. IsFiniteSet(1 .. n) /\ Cardinality(1 .. n) = n
  <2>1. /\ IsFiniteSet(1 .. n)
        /\ Cardinality(1 .. n) = IF 1 > n THEN 0 ELSE n - 1 + 1
    BY FS_Interval, 1 \in Int, n \in Int, ZenonT(30)
  <2>2. QED BY <2>1
<1>2. IsFiniteSet({k}) /\ Cardinality({k}) = 1
  BY FS_Singleton
<1>3. /\ IsFiniteSet({k} \X (1 .. n))
      /\ Cardinality({k} \X (1 .. n)) = Cardinality({k}) * Cardinality(1 .. n)
  BY <1>1, <1>2, FS_Product, ZenonT(30)
<1>4. QED BY <1>1, <1>2, <1>3

\* A set of rewards pays a number of points.
LEMMA SumIsNumber ==
    ASSUME NEW S, IsFiniteSet(PointsFor(S, Reward))
    PROVE  Sum(S, Reward) \in Nat
BY FS_CardinalityType DEF Sum

\* One reward more adds its points to the sum.
LEMMA OneRewardMore ==
    ASSUME NEW S \in SUBSET Keys, NEW k \in Keys \ S,
           IsFiniteSet(PointsFor(S, Reward))
    PROVE  /\ IsFiniteSet(PointsFor(S \cup {k}, Reward))
           /\ Sum(S \cup {k}, Reward) = Sum(S, Reward) + Reward[k]
<1> DEFINE P == PointsFor(S, Reward)
           Q == {k} \X (1 .. Reward[k])
<1>1. Reward[k] \in Nat
  BY RewardsAreNumbers
<1>2. IsFiniteSet(Q) /\ Cardinality(Q) = Reward[k]
  BY <1>1, OneReward
<1>3. PointsFor(S \cup {k}, Reward) = P \cup Q
  BY DEF PointsFor
<1>4. P \cap Q = {}
  BY DEF PointsFor
<1>5. /\ IsFiniteSet(P \cup Q)
      /\ Cardinality(P \cup Q)
            = Cardinality(P) + Cardinality(Q) - Cardinality(P \cap Q)
  BY <1>2, FS_Union
<1>6. Cardinality(P \cap Q) = 0
  BY <1>4, FS_EmptySet
<1>7. Cardinality(P) \in Nat
  BY FS_CardinalityType
<1>8. /\ Sum(S \cup {k}, Reward) = Cardinality(P \cup Q)
      /\ Sum(S, Reward) = Cardinality(P)
  BY <1>3 DEF Sum
<1>9. Cardinality(P \cup Q) = Cardinality(P) + Reward[k]
  <2> HIDE DEF P, Q
  <2>1. QED BY <1>1, <1>2, <1>5, <1>6, <1>7
<1>10. IsFiniteSet(PointsFor(S \cup {k}, Reward))
  BY <1>3, <1>5
<1>11. QED BY <1>8, <1>9, <1>10

\* More points unlock what fewer points did.
LEMMA MoreUnlock ==
    ASSUME NEW a \in 1 .. 7, NEW p \in Nat, NEW q \in Nat, p <= q,
           Unlocked(a, p)
    PROVE  Unlocked(a, q)
BY DEF Unlocked, RequiredPoint

\* An award pays its reward, and whoever puts an old copy back puts back
\* nothing that was not earned.
LEMMA BalanceStep == ASSUME Inv, [Next]_vars PROVE BalanceInv'
<1> TypeOK /\ BalanceInv /\ PointsMatchLog
  BY DEF Inv, BalanceInv
<1>0. Earned(log) \in Nat
  BY SumIsNumber DEF BalanceInv, Earned
<1>1. ASSUME NEW r \in Requests, CommitAward(r) PROVE BalanceInv'
  <2>1. key[r] \in Keys \ log /\ newPoint[r] = point + Reward[key[r]]
    BY <1>1
       DEF CommitAward, Inv, RequestInv, Knows, Waiting, AwardsExclusive,
           AddedInv
  <2>2. /\ IsFiniteSet(PointsFor(log', Reward))
        /\ Earned(log') = Earned(log) + Reward[key[r]]
    BY <1>1, <2>1, OneRewardMore
       DEF CommitAward, TypeOK, BalanceInv, Earned
  <2>3. Reward[key[r]] \in Nat
    BY <2>1, RewardsAreNumbers
  <2>4. Earned(log') \in Nat /\ Earned(log) <= Earned(log')
    BY <1>0, <2>2, <2>3
  <2>5. PointsMatchLog'
    BY <1>0, <1>1, <2>1, <2>2, <2>3
       DEF CommitAward, PointsMatchLog, TypeOK
  <2>6. Unlocked(avatar', Earned(log'))
    BY <1>0, <1>1, <2>4, MoreUnlock DEF CommitAward, BalanceInv, TypeOK
  <2>7. ASSUME NEW c \in Changes, cpc'[c] = "loaded"
        PROVE  cpoint'[c] <= Earned(log') /\ Unlocked(cavatar'[c], Earned(log'))
    <3>1. /\ cpc[c] = "loaded" /\ cpoint'[c] = cpoint[c]
          /\ cavatar'[c] = cavatar[c]
      BY <1>1, <2>7 DEF CommitAward, changeVars
    <3>2. /\ cpoint[c] \in Nat /\ cavatar[c] \in 1 .. 7
          /\ cpoint[c] <= Earned(log) /\ Unlocked(cavatar[c], Earned(log))
      BY <3>1 DEF BalanceInv, TypeOK
    <3>3. QED BY <1>0, <2>4, <3>1, <3>2, MoreUnlock
  <2>8. QED BY <2>2, <2>5, <2>6, <2>7 DEF BalanceInv
<1>2. ASSUME NEW c \in Changes, LoadUser(c) PROVE BalanceInv'
  <2>1. UNCHANGED <<point, avatar, overwritten, log>>
    BY <1>2 DEF LoadUser, userVars
  <2>2. ASSUME NEW d \in Changes, cpc'[d] = "loaded"
        PROVE  cpoint'[d] <= Earned(log) /\ Unlocked(cavatar'[d], Earned(log))
    BY <1>2, <2>2 DEF LoadUser, BalanceInv, PointsMatchLog, TypeOK
  <2>3. QED BY <2>1, <2>2 DEF BalanceInv, PointsMatchLog
<1>3. ASSUME NEW c \in Changes, EndChange(c), log' = log,
             PointsMatchLog', Unlocked(avatar', Earned(log))
      PROVE  BalanceInv'
  <2>1. ASSUME NEW d \in Changes, cpc'[d] = "loaded"
        PROVE  cpoint'[d] <= Earned(log) /\ Unlocked(cavatar'[d], Earned(log))
    BY <1>3, <2>1 DEF EndChange, BalanceInv, TypeOK
  <2>2. QED BY <1>3, <2>1 DEF BalanceInv
<1>4. ASSUME NEW c \in Changes, SaveUser(c) PROVE BalanceInv'
  <2>1. PointsMatchLog' /\ Unlocked(avatar', Earned(log))
    BY <1>4 DEF SaveUser, EndChange, BalanceInv, PointsMatchLog, TypeOK
  <2>2. QED BY <1>3, <1>4, <2>1 DEF SaveUser
<1>5. ASSUME NEW c \in Changes, SaveAvatar(c) PROVE BalanceInv'
  <2>1. PICK a \in 1 .. 7 : Unlocked(a, cpoint[c]) /\ avatar' = a
    BY <1>5 DEF SaveAvatar
  <2>2. cpoint[c] \in Nat /\ cpoint[c] <= Earned(log)
    BY <1>5 DEF SaveAvatar, EndChange, BalanceInv, TypeOK
  <2>3. Unlocked(avatar', Earned(log))
    BY <1>0, <2>1, <2>2, MoreUnlock
  <2>4. PointsMatchLog'
    BY <1>5 DEF SaveAvatar, PointsMatchLog
  <2>5. QED BY <1>3, <1>5, <2>3, <2>4 DEF SaveAvatar
<1>6. ASSUME NEW c \in Changes, DropChange(c) PROVE BalanceInv'
  <2>1. UNCHANGED <<point, avatar, overwritten, log>>
    BY <1>6 DEF DropChange, userVars
  <2>2. PointsMatchLog' /\ Unlocked(avatar', Earned(log))
    BY <2>1 DEF PointsMatchLog, BalanceInv
  <2>3. QED BY <1>3, <1>6, <2>1, <2>2 DEF DropChange
<1>7. CASE UNCHANGED <<point, avatar, overwritten, log, changeVars>>
  BY <1>7 DEF BalanceInv, PointsMatchLog, changeVars
<1>8. ASSUME NEW r \in Requests, Record(r) \/ Abort(r), ~CommitAward(r)
      PROVE  UNCHANGED <<userVars, log, changeVars>>
  BY <1>8
     DEF Record, Begin, Award, FindLog, InsertLog, AddPoint, Advance,
         ReadMission, SaveMission, Return, Abort
<1>9. CASE UNCHANGED vars
  BY <1>7, <1>9 DEF vars, userVars
<1>10. QED
  BY <1>1, <1>2, <1>4, <1>5, <1>6, <1>7, <1>8, <1>9
     DEF Next, ChangeAccount, userVars

-----------------------------------------------------------------------------
(* Counting: a step may count an action for a mission, and never forgets   *)
(* one that was counted.                                                   *)

\* No row of the log is ever deleted.
LEMMA NothingIsUnlogged == ASSUME Inv, [Next]_vars PROVE log \subseteq log'
BY DEF Next, vars, Record, Begin, Award, FindLog, InsertLog, AddPoint,
       CommitAward, Advance, ReadMission, SaveMission, Return, Abort,
       ChangeAccount, LoadUser, SaveUser, SaveAvatar, EndChange,
         DropChange

\* A debt is an old one, or that of the one action rewarded in this step.
LEMMA Debts ==
    ASSUME Inv, [Next]_vars
    PROVE  \E q \in Requests \cup {NoKey} :
              \A r \in Requests, m \in Missions : Owes(r, m)' =>
                \/ Owes(r, m) /\ event'[r] = event[r]
                \/ r = q /\ event'[r] \in Events \ log
                     /\ event'[r] \in log' /\ m \in Triggered[event'[r]]
<1> DEFINE Old(r, m) == Owes(r, m) /\ event'[r] = event[r]
<1> TypeOK /\ AwardsExclusive /\ RequestInv
  BY DEF Inv
<1>1. ASSUME NEW r \in Requests, NEW m \in Missions, Owes(r, m)',
             NEW s \in Requests, Record(s) \/ Abort(s), ~CommitAward(s)
      PROVE  Old(r, m)
  BY <1>1
     DEF Record, Begin, Award, FindLog, InsertLog, AddPoint, Advance,
         ReadMission, SaveMission, Return, Abort, EndRequest, Owes, TypeOK,
         RequestInv, Knows
<1>2. ASSUME NEW r \in Requests, NEW m \in Missions, Owes(r, m)',
             NEW s \in Requests, CommitAward(s)
      PROVE  \/ Old(r, m)
             \/ r = s /\ event'[r] \in Events \ log
                  /\ event'[r] \in log' /\ m \in Triggered[event'[r]]
  BY <1>2
     DEF CommitAward, Advancing, Owes, TypeOK, RequestInv, Knows, Waiting,
         AwardsExclusive
<1>3. ASSUME NEW r \in Requests, NEW m \in Missions, Owes(r, m)',
             UNCHANGED vars \/ \E c \in Changes : ChangeAccount(c)
      PROVE  Old(r, m)
  BY <1>3
     DEF ChangeAccount, LoadUser, SaveUser, SaveAvatar, EndChange,
         DropChange, vars, requestVars,
         Owes
<1>4. CASE \E s \in Requests : CommitAward(s)
  BY <1>2, <1>4
<1>5. CASE ~\E s \in Requests : CommitAward(s)
  BY <1>1, <1>3, <1>5 DEF Next
<1>6. QED BY <1>4, <1>5

\* Only the request that committed an award counts its action.
LEMMA CountersStep == ASSUME Inv, [Next]_vars PROVE CountersDistinct'
<1> CountersDistinct /\ RequestInv
  BY DEF Inv
<1>1. PICK q \in Requests \cup {NoKey} :
         \A r \in Requests, m \in Missions : Owes(r, m)' =>
            \/ Owes(r, m) /\ event'[r] = event[r]
            \/ r = q /\ event'[r] \in Events \ log
                 /\ event'[r] \in log' /\ m \in Triggered[event'[r]]
  BY Debts
<1>2. ASSUME NEW r \in Requests, NEW m \in Missions, Owes(r, m)
      PROVE  event[r] \in log
  BY <1>2 DEF RequestInv, Knows, Triggering
<1>3. QED BY <1>1, <1>2 DEF CountersDistinct

\* The sets of actions that the counters are compared with only grow.
LEMMA SetsGrow ==
    ASSUME Inv, [Next]_vars, NEW m \in Missions
    PROVE  /\ Triggering(m) \subseteq Triggering(m)'
           /\ Counted(m) \subseteq Counted(m)'
<1>1. Triggering(m) \subseteq Triggering(m)'
  BY NothingIsUnlogged DEF Triggering
<1>2. ASSUME NEW e \in Counted(m) PROVE e \in Counted(m)'
  <2>1. e \in Triggering(m)' /\ e \in log
    BY <1>1, <1>2 DEF Counted, Triggering
  <2>2. ASSUME NEW r \in Requests, event'[r] = e PROVE ~Owes(r, m)'
    BY <1>2, <2>1, <2>2, Debts DEF Counted
  <2>3. QED BY <2>1, <2>2 DEF Counted
<1>3. QED BY <1>1, <1>2

\* The numbers of counted and of rewarded actions never shrink.
LEMMA CountsGrowToo ==
    ASSUME Inv, [Next]_vars, NEW m \in Missions, NEW n \in Nat
    PROVE  /\ n <= Cardinality(Triggering(m)) =>
                  n <= Cardinality(Triggering(m)')
           /\ n <= Cardinality(Counted(m)) => n <= Cardinality(Counted(m)')
<1>1. /\ Counted(m) \subseteq Events /\ Counted(m)' \subseteq Events
      /\ Triggering(m) \subseteq Events /\ Triggering(m)' \subseteq Events
  BY DEF Counted, Triggering
<1>2. /\ Cardinality(Triggering(m)) <= Cardinality(Triggering(m)')
      /\ Cardinality(Counted(m)) <= Cardinality(Counted(m)')
  BY <1>1, SetsGrow, CountsGrow
<1>3. /\ Cardinality(Triggering(m)) \in Nat
      /\ Cardinality(Triggering(m)') \in Nat
      /\ Cardinality(Counted(m)) \in Nat
      /\ Cardinality(Counted(m)') \in Nat
  BY <1>1, CountsAreNumbers
<1>4. QED BY <1>2, <1>3

\* The save of a mission counts one action, at most one more than its copy.
LEMMA SaveCounts ==
    ASSUME Inv, NEW r \in Requests, NEW m \in Missions,
           SaveMission(r), mission[r] = m
    PROVE  /\ copy[r] + 1 <= Cardinality(Counted(m)')
           /\ Cardinality(Counted(m)') = Cardinality(Counted(m)) + 1
<1> DEFINE e == event[r]
<1>1. TypeOK /\ RequestInv /\ CountersDistinct
  BY DEF Inv
<1>2. m \notin todo[r] /\ Owes(r, m) /\ e \in Triggering(m)
  BY <1>1 DEF SaveMission, RequestInv, Knows, Owes
<1>3. Counted(m) \in SUBSET Events /\ Counted(m)' \in SUBSET Events
  BY DEF Counted, Triggering
<1>4. e \notin Counted(m)
  BY <1>2 DEF Counted
<1>5. e \in Counted(m)'
  <2>1. e \in Triggering(m)'
    BY <1>2 DEF SaveMission, Triggering
  <2>2. ASSUME NEW s \in Requests, event'[s] = e PROVE ~Owes(s, m)'
    <3>1. CASE s = r
      BY <1>1, <1>2, <3>1 DEF SaveMission, Owes, TypeOK
    <3>2. CASE s # r
      BY <1>1, <1>2, <2>2, <3>2
         DEF SaveMission, Owes, TypeOK, CountersDistinct
    <3>3. QED BY <3>1, <3>2
  <2>3. QED BY <2>1, <2>2 DEF Counted
<1>6. ASSUME NEW f \in Counted(m)', f # e PROVE f \in Counted(m)
  <2>1. f \in Triggering(m) /\ event' = event
    BY <1>6 DEF SaveMission, Counted, Triggering
  <2>2. ASSUME NEW s \in Requests, event[s] = f PROVE ~Owes(s, m)
    <3>1. s # r /\ ~Owes(s, m)'
      BY <1>6, <2>1, <2>2 DEF Counted
    <3>2. QED BY <1>1, <3>1 DEF SaveMission, Owes, TypeOK
  <2>3. QED BY <2>1, <2>2 DEF Counted
<1>7. Counted(m)' = Counted(m) \cup {e}
  <2>1. [Next]_vars
    BY DEF Next, Record, Advance
  <2>2. QED BY <1>5, <1>6, <2>1, SetsGrow
<1>8. Cardinality(Counted(m)') = Cardinality(Counted(m)) + 1
  BY <1>3, <1>4, <1>7, CountsAreNumbers, FS_AddElement
<1>9. copy[r] \in Nat /\ copy[r] <= Cardinality(Counted(m))
  BY <1>1 DEF SaveMission, RequestInv, Knows, TypeOK
<1>10. /\ Cardinality(Counted(m)) \in Nat
       /\ Cardinality(Counted(m)') \in Nat
  BY <1>3, CountsAreNumbers
<1>11. QED BY <1>8, <1>9, <1>10

\* Only a save of the mission writes its row.
LEMMA OthersSaveNothing ==
    ASSUME Inv, [Next]_vars, NEW m \in Missions,
           \A r \in Requests : ~(SaveMission(r) /\ mission[r] = m)
    PROVE  progress'[m] = progress[m] /\ completed'[m] = completed[m]
<1> TypeOK
  BY DEF Inv
<1>1. ASSUME NEW r \in Requests, SaveMission(r)
      PROVE  progress'[m] = progress[m] /\ completed'[m] = completed[m]
  BY <1>1 DEF SaveMission, TypeOK
<1>2. CASE UNCHANGED <<progress, completed>>
  BY <1>2
<1>3. QED
  BY <1>1, <1>2
     DEF Next, vars, missionVars, Record, Begin, Award, FindLog, InsertLog,
         AddPoint, CommitAward, Advance, ReadMission, Return, Abort,
         ChangeAccount, LoadUser, SaveUser, SaveAvatar, EndChange, DropChange

\* The progress stays within what was counted, and a mission is completed
\* at its target.
LEMMA ProgressStep == ASSUME Inv, [Next]_vars PROVE ProgressInv'
<1> TypeOK /\ RequestInv /\ ProgressInv
  BY DEF Inv
<1> SUFFICES ASSUME NEW m \in Missions
             PROVE  /\ progress'[m] <= Cardinality(Counted(m)')
                    /\ completed'[m] => progress'[m] = Target[m]
  BY DEF ProgressInv
<1>1. ASSUME NEW r \in Requests, SaveMission(r), mission[r] = m
      PROVE  /\ progress'[m] <= Cardinality(Counted(m)')
             /\ completed'[m] => progress'[m] = Target[m]
  <2>1. /\ progress'[m] = AtMost(copy[r] + 1, Target[m])
        /\ completed'[m] => progress'[m] >= Target[m]
    BY <1>1 DEF SaveMission, Completes, TypeOK
  <2>2. copy[r] \in Nat /\ Target[m] \in Nat
    BY RewardsAreNumbers DEF TypeOK
  <2>3. /\ progress'[m] \in Nat /\ progress'[m] <= copy[r] + 1
        /\ progress'[m] <= Target[m]
    BY <2>1, <2>2 DEF AtMost
  <2>4. copy[r] + 1 <= Cardinality(Counted(m)')
    BY <1>1, SaveCounts
  <2>5. Cardinality(Counted(m)') \in Nat
    <3>1. Counted(m)' \in SUBSET Events
      BY DEF Counted, Triggering
    <3>2. QED BY <3>1, CountsAreNumbers
  <2>6. progress'[m] <= Cardinality(Counted(m)')
    BY <2>2, <2>3, <2>4, <2>5
  <2>7. completed'[m] => progress'[m] = Target[m]
    BY <2>1, <2>2, <2>3
  <2>8. QED BY <2>6, <2>7
<1>2. CASE progress'[m] = progress[m] /\ completed'[m] = completed[m]
  BY <1>2, CountsGrowToo DEF ProgressInv, TypeOK
<1>3. QED
  BY <1>1, <1>2, OthersSaveNothing

\* What a request owes it goes on owing, until it counts it; or it died, or
\* the mission is completed.
LEMMA DebtsStay ==
    ASSUME Inv, [Next]_vars, NEW r \in Requests, NEW m \in Missions,
           Owes(r, m), ~(Owes(r, m)' /\ event'[r] = event[r])
    PROVE  (SaveMission(r) /\ mission[r] = m) \/ m \in lost' \/ completed[m]
<1> TypeOK /\ RequestInv
  BY DEF Inv
<1>1. ASSUME NEW s \in Requests, s # r, Record(s) \/ Abort(s)
      PROVE  FALSE
  BY <1>1
     DEF Record, Begin, Award, FindLog, InsertLog, AddPoint, CommitAward,
         Advance, ReadMission, SaveMission, Return, Abort, EndRequest, Owes,
         TypeOK
<1>2. CASE Abort(r)
  BY <1>2 DEF Abort
<1>3. CASE (\E e \in Events : Begin(r, e)) \/ FindLog(r) \/ Return(r)
  BY <1>3
     DEF Begin, FindLog, Return, Owes, TypeOK, RequestInv, Knows, Waiting
<1>4. CASE InsertLog(r) \/ AddPoint(r)
  BY <1>4 DEF InsertLog, AddPoint, Owes, TypeOK
<1>5. CASE CommitAward(r)
  BY <1>5
     DEF CommitAward, Advancing, Owes, TypeOK, RequestInv, Knows, Waiting
<1>6. CASE ReadMission(r)
  BY <1>6 DEF ReadMission, Owes, TypeOK
<1>7. CASE SaveMission(r)
  BY <1>7 DEF SaveMission, Owes, TypeOK
<1>8. CASE UNCHANGED vars \/ \E c \in Changes : ChangeAccount(c)
  BY <1>8
     DEF ChangeAccount, LoadUser, SaveUser, SaveAvatar, EndChange,
         DropChange, vars, requestVars, Owes
<1>9. QED
  BY <1>1, <1>2, <1>3, <1>4, <1>5, <1>6, <1>7, <1>8
     DEF Next, Record, Award, Advance

\* Between two saves of a mission nothing is counted for it, as long as no
\* request dies and the mission is not completed.
LEMMA CountsStay ==
    ASSUME Inv, [Next]_vars, NEW m \in Missions, m \notin lost',
           ~completed[m],
           \A r \in Requests : ~(SaveMission(r) /\ mission[r] = m)
    PROVE  Counted(m)' = Counted(m)
<1> TypeOK /\ RequestInv
  BY DEF Inv
<1> SUFFICES ASSUME NEW e \in Counted(m)' PROVE e \in Counted(m)
  BY SetsGrow
<1>1. e \in Events \cap log' /\ m \in Triggered[e]
  BY DEF Counted, Triggering
<1>2. ASSUME NEW r \in Requests, event[r] = e PROVE ~Owes(r, m)
  BY <1>2, DebtsStay DEF Counted
<1>3. CASE e \in log
  BY <1>1, <1>2, <1>3 DEF Counted, Triggering
<1>4. CASE e \notin log
  <2>1. PICK r \in Requests : CommitAward(r) /\ key[r] = e
    BY <1>1, <1>4
       DEF Next, vars, Record, Begin, Award, FindLog, InsertLog, AddPoint,
           CommitAward, Advance, ReadMission, SaveMission, Return, Abort,
           ChangeAccount, LoadUser, SaveUser, SaveAvatar, EndChange,
           DropChange
  <2>2. event'[r] = e /\ Owes(r, m)'
    BY <1>1, <2>1
       DEF CommitAward, Advancing, Owes, TypeOK, RequestInv, Knows, Waiting
  <2>3. QED BY <2>2 DEF Counted
<1>5. QED BY <1>3, <1>4

\* A payment that is due is made, by this request or by another one, unless
\* the request dies.
LEMMA PaymentsStay ==
    ASSUME Inv, [Next]_vars, NEW m \in Missions, NEW r \in Requests,
           Pays(r, m)
    PROVE  m \in log' \/ m \in lost' \/ Pays(r, m)'
<1> TypeOK
  BY DEF Inv
<1>1. ASSUME NEW s \in Requests, s # r, Record(s) \/ Abort(s)
      PROVE  Pays(r, m)'
  BY <1>1
     DEF Record, Begin, Award, FindLog, InsertLog, AddPoint, CommitAward,
         Advance, ReadMission, SaveMission, Return, Abort, EndRequest, Pays,
         TypeOK
<1>2. CASE Abort(r)
  BY <1>2 DEF Abort
<1>3. CASE FindLog(r) \/ InsertLog(r) \/ AddPoint(r) \/ CommitAward(r)
  BY <1>3
     DEF FindLog, InsertLog, AddPoint, CommitAward, Pays, Waiting, TypeOK
<1>4. CASE (\E e \in Events : Begin(r, e)) \/ Advance(r)
  BY <1>4
     DEF Begin, Advance, ReadMission, SaveMission, Return, Pays, Waiting
<1>5. CASE UNCHANGED vars \/ \E c \in Changes : ChangeAccount(c)
  BY <1>5
     DEF ChangeAccount, LoadUser, SaveUser, SaveAvatar, EndChange,
         DropChange, vars, requestVars, Pays
<1>6. QED
  BY <1>1, <1>2, <1>3, <1>4, <1>5 DEF Next, Record, Award

\* Deaths and old copies apart, every action is counted and every completed
\* mission paid.
LEMMA ServedStep == ASSUME Inv, [Next]_vars PROVE MissionsAreServed'
<1> TypeOK /\ ProgressInv /\ MissionsAreServed
  BY DEF Inv
<1> SUFFICES ASSUME NEW m \in Missions, m \notin lost'
             PROVE  /\ progress'[m] = AtMost(Cardinality(Counted(m)'),
                                             Target[m])
                    /\ completed'[m] =>
                          m \in log' \/ \E r \in Requests : Pays(r, m)'
  BY DEF MissionsAreServed
<1>1. m \notin lost
  BY DEF Next, vars, missionVars, Record, Begin, Award, FindLog, InsertLog,
         AddPoint, CommitAward, Advance, ReadMission, SaveMission, Return,
         Abort, ChangeAccount, LoadUser, SaveUser, SaveAvatar, EndChange,
         DropChange
<1>2. /\ Cardinality(Counted(m)) \in Nat
      /\ Cardinality(Counted(m)') \in Nat
      /\ Target[m] \in Nat /\ progress[m] \in Nat
  <2>1. Counted(m) \in SUBSET Events /\ Counted(m)' \in SUBSET Events
    BY DEF Counted, Triggering
  <2>2. QED BY <2>1, CountsAreNumbers, RewardsAreNumbers DEF TypeOK
<1>3. progress[m] = AtMost(Cardinality(Counted(m)), Target[m])
  BY <1>1 DEF MissionsAreServed
<1>4. ASSUME NEW r \in Requests, SaveMission(r), mission[r] = m
      PROVE  /\ progress'[m] = AtMost(Cardinality(Counted(m)'), Target[m])
             /\ completed'[m] => Pays(r, m)'
  <2>1. copy[r] = progress[m]
    BY <1>4 DEF SaveMission
  <2>2. progress'[m] = AtMost(progress[m] + 1, Target[m])
    BY <1>4, <2>1 DEF SaveMission, TypeOK
  <2>3. Cardinality(Counted(m)') = Cardinality(Counted(m)) + 1
    BY <1>4, SaveCounts
  <2>4. progress'[m] = AtMost(Cardinality(Counted(m)'), Target[m])
    BY <1>2, <1>3, <2>2, <2>3 DEF AtMost
  <2>5. completed'[m] => Pays(r, m)'
    BY <1>4 DEF SaveMission, Pays, Waiting, TypeOK
  <2>6. QED BY <2>4, <2>5
<1>5. ASSUME \A r \in Requests : ~(SaveMission(r) /\ mission[r] = m)
      PROVE  /\ progress'[m] = AtMost(Cardinality(Counted(m)'), Target[m])
             /\ completed'[m] =>
                   m \in log' \/ \E r \in Requests : Pays(r, m)'
  <2>1. progress'[m] = progress[m] /\ completed'[m] = completed[m]
    BY <1>5, OthersSaveNothing
  <2>2. CASE ~completed[m]
    BY <1>3, <1>5, <2>1, <2>2, CountsStay
  <2>3. CASE completed[m]
    <3>1. progress[m] = Target[m] /\ progress[m] <= Cardinality(Counted(m)')
      BY <1>2, <2>3, CountsGrowToo DEF ProgressInv
    <3>2. m \in log \/ \E r \in Requests : Pays(r, m)
      BY <1>1, <2>3 DEF MissionsAreServed
    <3>3. m \in log' \/ \E r \in Requests : Pays(r, m)'
      BY <3>2, PaymentsStay, NothingIsUnlogged
    <3>4. QED BY <1>2, <2>1, <3>1, <3>3 DEF AtMost
  <2>4. QED BY <2>2, <2>3
<1>6. QED BY <1>4, <1>5

\* A mission is logged by a request that saw it complete.
LEMMA PaidStep == ASSUME Inv, [Next]_vars PROVE MissionRewardEarned'
<1> TypeOK /\ RequestInv /\ MissionRewardEarned
  BY DEF Inv
<1>0. \A m \in Missions : Target[m] \in Nat
                              /\ Cardinality(Triggering(m)') \in Nat
  <2> TAKE m \in Missions
  <2>1. Triggering(m)' \in SUBSET Events
    BY DEF Triggering
  <2>2. QED BY <2>1, CountsAreNumbers, RewardsAreNumbers
<1> SUFFICES ASSUME NEW m \in Missions, m \in log'
             PROVE  Target[m] <= Cardinality(Triggering(m)')
  BY <1>0 DEF MissionRewardEarned
<1>1. Target[m] <= Cardinality(Triggering(m))
  <2>1. CASE m \in log
    <3>1. Triggering(m) \in SUBSET Events
      BY DEF Triggering
    <3>2. QED
      BY <2>1, <3>1, CountsAreNumbers, RewardsAreNumbers
         DEF MissionRewardEarned
  <2>2. CASE m \notin log
    <3>1. \E r \in Requests : CommitAward(r) /\ key[r] = m
      BY <2>2
         DEF Next, vars, Record, Begin, Award, FindLog, InsertLog, AddPoint,
             CommitAward, Advance, ReadMission, SaveMission, Return, Abort,
             ChangeAccount, LoadUser, SaveUser, SaveAvatar, EndChange,
         DropChange
    <3>2. QED BY <3>1 DEF CommitAward, RequestInv, Knows, Waiting
  <2>3. QED BY <2>1, <2>2
<1>2. QED BY <1>1, CountsGrowToo, RewardsAreNumbers

-----------------------------------------------------------------------------
(* What a request knows stays true while others work, and after its own    *)
(* next step.                                                              *)

\* What a request still has to count was rewarded.
LEMMA DebtsAreLogged ==
    ASSUME Inv, [Next]_vars, NEW r \in Requests, NEW m \in Missions,
           Owes(r, m)'
    PROVE  event'[r] \in Triggering(m)'
<1>1. CASE Owes(r, m) /\ event'[r] = event[r]
  <2>1. event[r] \in Triggering(m)
    BY <1>1 DEF Inv, RequestInv, Knows
  <2>2. QED BY <1>1, <2>1, SetsGrow
<1>2. CASE /\ event'[r] \in Events \cap log'
           /\ m \in Triggered[event'[r]]
  BY <1>2 DEF Triggering
<1>3. QED BY <1>1, <1>2, Debts

\* A step of one request takes nothing from what another one knows.
LEMMA OthersKnow ==
    ASSUME Inv, [Next]_vars, NEW s \in Requests,
           pc'[s] = pc[s], event'[s] = event[s], key'[s] = key[s],
           todo'[s] = todo[s], mission'[s] = mission[s], copy'[s] = copy[s]
    PROVE  Knows(s)'
<1> TypeOK /\ Knows(s)
  BY DEF Inv, RequestInv
<1>1. ASSUME NEW m \in Missions, pc'[s] \in Waiting, key'[s] = m
      PROVE  Target[m] <= Cardinality(Triggering(m)')
  BY <1>1, CountsGrowToo, RewardsAreNumbers DEF Knows
<1>2. ASSUME NEW m \in Missions, pc'[s] = "advance", mission'[s] = m
      PROVE  copy'[s] <= Cardinality(Counted(m)')
  BY <1>2, CountsGrowToo DEF Knows, TypeOK
<1>3. QED
  BY <1>1, <1>2, DebtsAreLogged DEF Knows

\* Each step leaves the request that takes it with what it must know.
LEMMA KnowsStep ==
    ASSUME Inv, [Next]_vars, NEW s \in Requests PROVE Knows(s)'
<1> TypeOK /\ Knows(s) /\ ProgressInv
  BY DEF Inv, RequestInv
<1>1. CASE \E e \in Events : Begin(s, e)
  BY <1>1, DebtsAreLogged, RewardsAreNumbers
     DEF Begin, Knows, TypeOK, Waiting, Keys
<1>2. ASSUME EndRequest(s) PROVE Knows(s)'
  BY <1>2, DebtsAreLogged DEF EndRequest, Knows, TypeOK, Waiting
<1>3. CASE FindLog(s) /\ key[s] \notin Events
  BY <1>3, DebtsAreLogged DEF FindLog, Knows, TypeOK, Waiting
<1>4. CASE InsertLog(s)
  <2>1. ASSUME NEW m \in Missions, key[s] = m
        PROVE  Target[m] <= Cardinality(Triggering(m)')
    BY <1>4, <2>1, CountsGrowToo, RewardsAreNumbers
       DEF InsertLog, Knows, Waiting
  <2>2. QED
    BY <1>4, <2>1, DebtsAreLogged DEF InsertLog, Knows, TypeOK, Waiting
<1>5. CASE AddPoint(s)
  <2>1. ASSUME NEW m \in Missions, key[s] = m
        PROVE  Target[m] <= Cardinality(Triggering(m)')
    BY <1>5, <2>1, CountsGrowToo, RewardsAreNumbers
       DEF AddPoint, Knows, Waiting
  <2>2. QED
    BY <1>5, <2>1, DebtsAreLogged DEF AddPoint, Knows, TypeOK, Waiting
<1>6. CASE CommitAward(s)
  BY <1>6, DebtsAreLogged DEF CommitAward, Knows, TypeOK, Waiting
<1>7. CASE ReadMission(s)
  <2>1. ASSUME NEW m \in Missions
        PROVE  progress[m] <= Cardinality(Counted(m)')
    BY CountsGrowToo DEF ProgressInv, TypeOK
  <2>2. QED
    BY <1>7, <2>1, DebtsAreLogged DEF ReadMission, Knows, TypeOK, Waiting
<1>8. CASE SaveMission(s)
  <2>1. PICK m \in Missions : mission[s] = m
    BY <1>8 DEF SaveMission, Knows
  <2>2. copy[s] + 1 <= Cardinality(Counted(m)')
    BY <1>8, <2>1, SaveCounts
  <2>3. Cardinality(Counted(m)') <= Cardinality(Triggering(m)')
    <3>1. /\ Counted(m)' \subseteq Triggering(m)'
          /\ Triggering(m)' \subseteq Events
      BY DEF Counted, Triggering
    <3>2. QED BY <3>1, CountsGrow
  <2>4. /\ Cardinality(Counted(m)') \in Nat
        /\ Cardinality(Triggering(m)') \in Nat
    <3>1. Counted(m)' \in SUBSET Events /\ Triggering(m)' \in SUBSET Events
      BY DEF Counted, Triggering
    <3>2. QED BY <3>1, CountsAreNumbers
  <2>5. CASE AtMost(copy[s] + 1, Target[m]) >= Target[m]
    <3>1. Target[m] <= Cardinality(Triggering(m)')
      BY <2>2, <2>3, <2>4, <2>5, RewardsAreNumbers DEF AtMost, TypeOK
    <3>2. pc'[s] = "insert" /\ key'[s] = m /\ todo'[s] = todo[s]
      BY <1>8, <2>1, <2>5 DEF Completes, SaveMission, TypeOK
    <3>3. QED
      BY <3>1, <3>2, DebtsAreLogged, RewardsAreNumbers
         DEF Knows, Waiting, Keys
  <2>6. CASE ~(AtMost(copy[s] + 1, Target[m]) >= Target[m])
    <3>1. pc'[s] = "next"
      BY <1>8, <2>1, <2>6 DEF Completes, SaveMission, TypeOK
    <3>2. QED BY <3>1, DebtsAreLogged DEF Knows, Waiting
  <2>7. QED BY <2>5, <2>6
<1>9. CASE \E r \in Requests \ {s} : Record(r) \/ Abort(r)
  BY <1>9, OthersKnow
     DEF Record, Begin, Award, FindLog, InsertLog, AddPoint, CommitAward,
         Advance, ReadMission, SaveMission, Return, Abort, EndRequest, TypeOK
<1>10. CASE UNCHANGED vars \/ \E c \in Changes : ChangeAccount(c)
  BY <1>10, OthersKnow
     DEF ChangeAccount, LoadUser, SaveUser, SaveAvatar, EndChange,
         DropChange, vars, requestVars
<1>11. QED
  BY <1>1, <1>2, <1>3, <1>4, <1>5, <1>6, <1>7, <1>8, <1>9, <1>10
     DEF Next, Record, Award, Advance, FindLog, Return, Abort

-----------------------------------------------------------------------------
(* The theorems.                                                           *)

\* The invariant is inductive.
LEMMA InductiveStep == Inv /\ [Next]_vars => Inv'
<1> SUFFICES ASSUME Inv, [Next]_vars PROVE Inv'
  OBVIOUS
<1>1. RequestInv'
  BY KnowsStep DEF RequestInv
<1>2. QED
  BY <1>1, TypeStep, ExclusiveStep, CountersStep, ProgressStep, PaidStep,
     ServedStep, AddedStep, LevelStep, BalanceStep
     DEF Inv

\* The invariant that the properties below are read from.
THEOREM Invariance == Spec => []Inv
BY Initially, InductiveStep, PTL DEF Spec

\* The variables of the rewards keep their types for any number of
\* requests, missions and actions: the level is always one of the seven.
THEOREM TypeCorrect == Spec => []TypeOK
BY Invariance, PTL DEF Inv

\* Awards exclude one another: one holder of the user's row, one inserter
\* of a key (get_or_create, the unique constraint, the row lock).
THEOREM OneAwardAtATime == Spec => []AwardsExclusive
BY Invariance, PTL DEF Inv

\* The level always belongs to the points, under any interleaving of
\* award_points with saves of old copies of the row.
THEOREM LevelsFollow == Spec => []LevelFollowsPoints
BY Invariance, PTL DEF Inv

\* A mission is paid only after target_count different rewarded actions.
THEOREM MissionsAreEarned == Spec => []MissionRewardEarned
BY Invariance, PTL DEF Inv

\* The progress of a mission is the number of its rewarded actions, and a
\* completed mission is paid or about to be paid, unless a request died in
\* advance_missions before it counted or paid, or saved an old copy.
THEOREM MissionsServed == Spec => []MissionsAreServed
BY Invariance, PTL DEF Inv

\* Only a commit of an award adds to the log.
LEMMA StepPaysExactly ==
    Inv /\ [Next]_vars =>
        [\A k \in Keys : k \in log' \ log =>
            log' = log \cup {k} /\ point' = point + Reward[k]]_vars
<1> SUFFICES ASSUME Inv, [Next]_vars, NEW k \in Keys, k \in log' \ log
             PROVE  log' = log \cup {k} /\ point' = point + Reward[k]
  OBVIOUS
<1>1. \E r \in Requests : CommitAward(r)
  BY DEF Next, vars, Record, Begin, Award, FindLog, InsertLog, AddPoint,
         CommitAward, Advance, ReadMission, SaveMission, Return, Abort,
         ChangeAccount, LoadUser, SaveUser, SaveAvatar, EndChange,
         DropChange
<1>2. QED BY <1>1 DEF CommitAward, Inv, AddedInv

\* An award adds its reward to the points of the moment it commits, once:
\* no concurrent award or save is lost between its UPDATE and its commit.
THEOREM AwardsPayExactly == Spec => PaidExactly
BY Invariance, StepPaysExactly, PTL DEF Spec, PaidExactly

\* The points are what the log accounts for, and never more: no award is
\* lost or counted twice, whatever requests run concurrently.
THEOREM PointsMatch == Spec => []PointsMatchLog
BY Invariance, PTL DEF Inv, BalanceInv

\* A step of the code is a step of the account, or none.
LEMMA StepOfAccount == Inv /\ [Next]_vars => [A!Next]_(A!vars)
<1> SUFFICES ASSUME Inv, [Next]_vars PROVE A!Next \/ UNCHANGED A!vars
  OBVIOUS
<1> TypeOK /\ BalanceInv /\ PointsMatchLog
  BY DEF Inv, BalanceInv
<1>0. Earned(log) \in Nat
  BY SumIsNumber DEF BalanceInv, Earned
<1>1. ASSUME NEW r \in Requests, CommitAward(r) PROVE A!Next
  <2>1. key[r] \in Keys \ log /\ newPoint[r] = point + Reward[key[r]]
    BY <1>1
       DEF CommitAward, Inv, RequestInv, Knows, Waiting, AwardsExclusive,
           AddedInv
  <2>2. Earned(log') = Earned(log) + Reward[key[r]]
    BY <1>1, <2>1, OneRewardMore
       DEF CommitAward, TypeOK, BalanceInv, Earned
  <2>3. A!Pay(key[r])
    BY <1>1, <2>1, <2>2 DEF CommitAward, A!Pay
  <2>4. QED BY <2>1, <2>3 DEF A!Next
<1>2. ASSUME NEW c \in Changes, SaveUser(c) PROVE A!Next
  <2>1. A!PutBack(cavatar[c]) /\ cavatar[c] \in 1 .. 7
    BY <1>0, <1>2
       DEF SaveUser, EndChange, A!PutBack, BalanceInv,
           PointsMatchLog, TypeOK, Unlocked, RequiredPoint
  <2>2. QED BY <2>1 DEF A!Next
<1>3. ASSUME NEW c \in Changes, SaveAvatar(c) PROVE A!Next
  <2>1. PICK a \in 1 .. 7 : Unlocked(a, cpoint[c]) /\ avatar' = a
    BY <1>3 DEF SaveAvatar
  <2>2. cpoint[c] \in Nat /\ cpoint[c] <= Earned(log)
    BY <1>3 DEF SaveAvatar, EndChange, BalanceInv, TypeOK
  <2>3. A!Wear(a)
    BY <1>0, <1>3, <2>1, <2>2, MoreUnlock
       DEF SaveAvatar, A!Wear, Unlocked, RequiredPoint
  <2>4. QED BY <2>3 DEF A!Next
<1>4. ASSUME NEW r \in Requests, Record(r) \/ Abort(r), ~CommitAward(r)
      PROVE  UNCHANGED A!vars
  BY <1>4
     DEF Record, Begin, Award, FindLog, InsertLog, AddPoint, Advance,
         ReadMission, SaveMission, Return, Abort, A!vars, userVars
<1>5. ASSUME NEW c \in Changes, LoadUser(c) \/ DropChange(c)
      PROVE  UNCHANGED A!vars
  BY <1>5 DEF LoadUser, DropChange, A!vars, userVars
<1>6. CASE UNCHANGED vars
  BY <1>6 DEF vars, userVars, A!vars
<1>7. QED
  BY <1>1, <1>2, <1>3, <1>4, <1>5, <1>6 DEF Next, ChangeAccount

\* The rewards implement the account: every reward paid once and in full,
\* an avatar worn only after its points were earned, and old copies of the
\* row put back without anything that was not earned.
THEOREM RewardsImplementAccount == Spec => ImplementsAccount
<1>1. Init => A!Init
  <2>1. Sum({}, Reward) = 0
    BY FS_EmptySet, PointsFor({}, Reward) = {} DEF Sum, PointsFor
  <2>2. QED BY <2>1 DEF Init, A!Init, Earned
<1>2. QED
  BY <1>1, Invariance, StepOfAccount, PTL DEF Spec, ImplementsAccount, A!Spec
=============================================================================
