------------------------- MODULE CodingStateProofs --------------------------
(* Proofs about CodingState: its type invariant and its safety properties. *)
EXTENDS CodingState, SequenceTheorems, FiniteSetTheorems, TLAPS

-----------------------------------------------------------------------------
(* Sequences of user ids.                                                  *)

\* What is in a sequence is its first element or in the rest.
LEMMA RangeOfTail ==
    ASSUME NEW S, NEW s \in Seq(S), s # << >>
    PROVE  /\ Head(s) \in S /\ Tail(s) \in Seq(S)
           /\ Range(s) = {Head(s)} \cup Range(Tail(s))
<1>1. Head(s) \in S /\ Tail(s) \in Seq(S)
  OBVIOUS
<1>2. Len(s) \in Nat /\ Len(s) >= 1 /\ DOMAIN s = 1..Len(s)
  OBVIOUS
<1>3. DOMAIN Tail(s) = 1..(Len(s) - 1)
  BY <1>2
<1>4. \A i \in DOMAIN Tail(s) : Tail(s)[i] = s[i + 1]
  BY <1>2, <1>3
<1>5. Head(s) = s[1]
  OBVIOUS
<1>6. Range(s) \subseteq {Head(s)} \cup Range(Tail(s))
  <2> SUFFICES ASSUME NEW i \in 1..Len(s), i # 1
               PROVE  s[i] \in Range(Tail(s))
    BY <1>2, <1>5 DEF Range
  <2>1. i - 1 \in DOMAIN Tail(s) /\ Tail(s)[i - 1] = s[i]
    BY <1>2, <1>3, <1>4
  <2>2. QED BY <2>1 DEF Range
<1>7. {Head(s)} \cup Range(Tail(s)) \subseteq Range(s)
  BY <1>2, <1>3, <1>4, <1>5 DEF Range
<1>8. QED BY <1>1, <1>6, <1>7

\* A batch selects users, and the limit leaves only such as were selected.
LEMMA SelectionIsSequence ==
    ASSUME NEW S \in SUBSET Users, NEW s \in Orders(S), NEW n \in Nat
    PROVE  LET cut == SubSeq(s, 1, IF Len(s) < n THEN Len(s) ELSE n) IN
           cut \in Seq(S) /\ Range(cut) \subseteq S
<1>1. Cardinality(S) \in Nat
  BY CodingStateAssumption, FS_Subset, FS_CardinalityType
<1>2. s \in Seq(S)
  BY <1>1 DEF Orders
<1> DEFINE m == IF Len(s) < n THEN Len(s) ELSE n
<1>3. m \in 0..Len(s)
  BY <1>2
<1>4. SubSeq(s, 1, m) \in Seq(S)
  BY <1>2, <1>3
<1>5. QED BY <1>4 DEF Range

-----------------------------------------------------------------------------
(* The invariant holds initially.                                          *)
LEMMA Initially == Init => Inv
<1> SUFFICES ASSUME Init PROVE Inv
  OBVIOUS
<1> USE CodingStateAssumption DEF Init, CallInit
<1>1. TypeOK
  BY DEF TypeOK, CallTypeOK, CallPlaces, InCall, Tasks, Places
<1>2. RowInv
  BY DEF RowInv
<1>3. ASSUME NEW q \in Callers PROVE CallerInv(q)
  <2>1. /\ call[q] = "idle" /\ reply[q] = "none" /\ log[q] = "none"
        /\ errors[q] = 0 /\ task[q] = "none" /\ place[q] = "new"
        /\ user[q] = NoUser /\ todo[q] = << >> /\ users[q] = {}
        /\ answer[q] = 0
    OBVIOUS
  <2> HIDE DEF Init, CallInit
  <2>2. CallAt(q)
    BY <2>1 DEF CallAt
  <2>3. PlaceAt(q)
    BY <2>1 DEF PlaceAt, Batches, Pages, Kinds
  <2>4. OwedAt(q) /\ TotalAt(q) /\ PrevAt(q) /\ DueAt(q)
    BY <2>1 DEF OwedAt, TotalAt, PrevAt, DueAt, Batches, Refreshing
  <2>5. QED BY <2>2, <2>3, <2>4 DEF CallerInv
<1>4. QED BY <1>1, <1>2, <1>3 DEF Inv, CallersInv

-----------------------------------------------------------------------------
(* A step of one caller that writes no row of a state disturbs nothing but *)
(* what is known of that caller.                                           *)

OthersKeep(p) ==
    \A q \in Callers \ {p} :
        /\ call'[q] = call[q] /\ reply'[q] = reply[q]
        /\ log'[q] = log[q] /\ errors'[q] = errors[q]
        /\ task'[q] = task[q] /\ place'[q] = place[q]
        /\ user'[q] = user[q] /\ todo'[q] = todo[q]
        /\ users'[q] = users[q] /\ prev'[q] = prev[q]
        /\ total'[q] = total[q] /\ answer'[q] = answer[q]
        /\ behind'[q] = behind[q] /\ missed'[q] = missed[q]

\* It is enough to look at the caller that moves.
LEMMA OneCallerMoves ==
    ASSUME Inv, NEW p \in Callers, OthersKeep(p),
           UNCHANGED <<rowVars, saves, run, lost>>, TypeOK', CallerInv(p)'
    PROVE  Inv'
<1>1. RowInv'
  BY DEF Inv, RowInv, rowVars
<1>2. ASSUME NEW q \in Callers \ {p} PROVE CallerInv(q)'
  <2> USE DEF OthersKeep, rowVars
  <2>1. CallerInv(q)
    BY DEF Inv, CallersInv
  <2>2. CallAt(q)' /\ PlaceAt(q)' /\ OwedAt(q)'
    BY <2>1 DEF CallerInv, CallAt, PlaceAt, OwedAt
  <2>3. TotalAt(q)' /\ PrevAt(q)' /\ DueAt(q)'
    BY <2>1 DEF CallerInv, TotalAt, PrevAt, DueAt, Due
  <2>4. QED BY <2>2, <2>3 DEF CallerInv
<1>3. QED BY <1>1, <1>2 DEF Inv, CallersInv

-----------------------------------------------------------------------------
(* The environment.                                                        *)

\* More submissions leave every count valid and every user who is due, due.
LEMMA SubmitStep ==
    ASSUME Inv, NEW u \in Users, Submit(u) PROVE Inv'
<1> USE DEF Submit, callVars, locals, history
<1>1. TypeOK'
  BY CodingStateAssumption DEF Inv, TypeOK, CallTypeOK
<1>2. \A v \in Users :
          /\ submits[v] \in Nat /\ submits'[v] \in Nat
          /\ submits'[v] >= submits[v]
          /\ state[v] # NoState => state[v].count \in Nat
  BY CodingStateAssumption DEF Inv, TypeOK, States
<1>3. RowInv'
  BY <1>2 DEF Inv, RowInv
<1>4. ASSUME NEW q \in Callers PROVE CallerInv(q)'
  <2>1. CallerInv(q) /\ accounts \subseteq Users /\ total[q] \in Nat
    BY CodingStateAssumption DEF Inv, CallersInv, TypeOK
  <2>2. CallAt(q)' /\ PlaceAt(q)' /\ OwedAt(q)'
    BY <2>1 DEF CallerInv, CallAt, PlaceAt, OwedAt
  <2>3. TotalAt(q)'
    BY <1>2, <2>1 DEF CallerInv, TotalAt
  <2>4. PrevAt(q)'
    BY <2>1 DEF CallerInv, PrevAt
  <2>5. \A v \in accounts : Due(v, submits[v]) => Due(v, submits[v])'
    BY <1>2, <2>1, CodingStateAssumption DEF Due
  <2>6. DueAt(q)'
    BY <2>1, <2>5 DEF CallerInv, DueAt, Due
  <2>7. QED BY <2>2, <2>3, <2>4, <2>6 DEF CallerInv
<1>5. QED BY <1>1, <1>3, <1>4 DEF Inv, CallersInv

\* An account that is gone has no state, and no caller saves one for it.
LEMMA DeleteAccountStep ==
    ASSUME Inv, NEW u \in Users, DeleteAccount(u) PROVE Inv'
<1> USE DEF DeleteAccount, callVars, locals, history
<1>1. TypeOK'
  BY CodingStateAssumption DEF Inv, TypeOK, CallTypeOK
<1>2. \A v \in Users : v # u =>
          submits'[v] = submits[v] /\ state'[v] = state[v]
  BY DEF Inv, TypeOK
<1>3. state'[u] = NoState /\ accounts' \subseteq accounts /\ u \notin accounts'
      /\ accounts \subseteq Users
  BY DEF Inv, TypeOK
<1>4. RowInv'
  BY <1>2, <1>3 DEF Inv, RowInv
<1>5. ASSUME NEW q \in Callers PROVE CallerInv(q)'
  <2>1. CallerInv(q)
    BY DEF Inv, CallersInv
  <2>2. CallAt(q)' /\ PlaceAt(q)' /\ OwedAt(q)'
    BY <2>1 DEF CallerInv, CallAt, PlaceAt, OwedAt
  <2>3. TotalAt(q)' /\ PrevAt(q)'
    BY <1>2, <1>3, <2>1 DEF CallerInv, TotalAt, PrevAt
  <2>4. DueAt(q)'
    BY <1>2, <1>3, <2>1 DEF CallerInv, DueAt, Due
  <2>5. QED BY <2>2, <2>3, <2>4 DEF CallerInv
<1>6. QED BY <1>1, <1>4, <1>5 DEF Inv, CallersInv

-----------------------------------------------------------------------------
(* What the helpers of the actions do.                                     *)

\* The tasks are told apart, and so are the places.
LEMMA Kept ==
    /\ "hook" \in Tasks /\ "single" \in Tasks /\ Batches \subseteq Tasks
    /\ Pages \subseteq Tasks /\ "none" \notin Pages \cup Batches
    /\ "hook" \notin Pages \cup Batches /\ "single" \notin Pages \cup Batches
    /\ Pages \cap Batches = {} /\ "stale" \in Batches
    /\ Refreshing \cup Ended \cup {"counted", "selected", "next", "reading"}
          \subseteq Places
    /\ Range(<< >>) = {}
BY DEF Tasks, Batches, Pages, Kinds, Places, Refreshing, Ended, Range

\* What a caller knows besides its call.
LocalTypes ==
    /\ place \in [Callers -> Places]
    /\ user \in [Callers -> Users \cup {NoUser}]
    /\ todo \in [Callers -> Seq(Users)]
    /\ users \in [Callers -> SUBSET Users]
    /\ prev \in [Callers -> States \cup {NoState}]
    /\ total \in [Callers -> 0..MaxSubmits]

LocalsKeep(p) ==
    \A q \in Callers \ {p} :
        /\ place'[q] = place[q] /\ user'[q] = user[q] /\ todo'[q] = todo[q]
        /\ users'[q] = users[q] /\ prev'[q] = prev[q] /\ total'[q] = total[q]

CallsKeep(p) ==
    \A q \in Callers \ {p} :
        /\ call'[q] = call[q] /\ reply'[q] = reply[q]
        /\ log'[q] = log[q] /\ errors'[q] = errors[q]

\* What the invariant says of one caller.
LEMMA Known ==
    ASSUME Inv, NEW p \in Callers
    PROVE  TypeOK /\ CallTypeOK /\ LocalTypes /\ CallerInv(p) /\ PlaceAt(p)
BY DEF Inv, CallersInv, CallerInv, TypeOK, LocalTypes

\* A caller that leaves has nothing left but the users of its batch.
LEMMA Leaving ==
    ASSUME LocalTypes, NEW p \in Callers, NEW how \in Ended, Leave(p, how)
    PROVE  /\ LocalTypes' /\ LocalsKeep(p)
           /\ place'[p] = how /\ user'[p] = NoUser /\ todo'[p] = << >>
           /\ users'[p] = users[p]
<1> USE DEF LocalTypes, Leave, Move, Keep
<1>1. 0 \in 0..MaxSubmits /\ how \in Places
  BY CodingStateAssumption, Kept
<1>2. place' \in [Callers -> Places]
  BY <1>1
<1>3. user' \in [Callers -> Users \cup {NoUser}]
  OBVIOUS
<1>4. todo' \in [Callers -> Seq(Users)]
  OBVIOUS
<1>5. prev' \in [Callers -> States \cup {NoState}]
  OBVIOUS
<1>6. total' \in [Callers -> 0..MaxSubmits]
  BY <1>1
<1>7. LocalsKeep(p)
  BY DEF LocalsKeep
<1>8. QED BY <1>2, <1>3, <1>4, <1>5, <1>6, <1>7

\* One that starts a refresh knows its user only.
LEMMA Beginning ==
    ASSUME LocalTypes, NEW p \in Callers, NEW u \in Users, Refresh(p, u),
           todo' \in [Callers -> Seq(Users)], UNCHANGED users,
           \A q \in Callers \ {p} : todo'[q] = todo[q]
    PROVE  /\ LocalTypes' /\ LocalsKeep(p)
           /\ place'[p] = "reading" /\ user'[p] = u /\ users'[p] = users[p]
<1> USE DEF LocalTypes, Refresh, Move, Keep
<1>1. 0 \in 0..MaxSubmits /\ "reading" \in Places
  BY CodingStateAssumption, Kept
<1>2. place' \in [Callers -> Places]
  BY <1>1
<1>3. user' \in [Callers -> Users \cup {NoUser}]
  OBVIOUS
<1>4. prev' \in [Callers -> States \cup {NoState}]
  OBVIOUS
<1>5. total' \in [Callers -> 0..MaxSubmits]
  BY <1>1
<1>6. LocalsKeep(p)
  BY DEF LocalsKeep
<1>7. QED BY <1>2, <1>3, <1>4, <1>5, <1>6

-----------------------------------------------------------------------------
(* The selection.                                                          *)

\* A hook that starts knows a user, how many submissions it has, or nothing.
LEMMA StartHookStep ==
    ASSUME Inv, NEW p \in Callers, NEW u \in Users, StartHook(p, u)
    PROVE  Inv'
<1> USE DEF Begin, callVars, rowVars, history
<1>1. TypeOK /\ CallerInv(p) /\ place[p] = "new" /\ task[p] = "none"
      /\ users[p] = {} /\ todo[p] = << >> /\ call[p] = "idle" /\ answer[p] = 0
      /\ LocalTypes
  BY Kept, Known DEF PlaceAt, StartHook
<1>2. /\ task' = [task EXCEPT ![p] = "hook"]
      /\ UNCHANGED <<callVars, rowVars, answer, history>>
  BY DEF StartHook
<1>3. task' \in [Callers -> Tasks]
  BY <1>1, <1>2, Kept DEF TypeOK
<1>4. /\ LocalTypes' /\ LocalsKeep(p)
      /\ users'[p] = {} /\ todo'[p] = << >>
      /\ \/ place'[p] = "done" /\ user'[p] = NoUser
         \/ place'[p] = "counted" /\ user'[p] = u /\ total'[p] = submits[u]
  <2>1. CASE submits[u] = 0
    <3>1. Leave(p, "done")
      BY <2>1 DEF StartHook
    <3>2. QED BY <1>1, <3>1, Leaving DEF Ended
  <2>2. CASE submits[u] # 0
    <3>1. /\ place' = [place EXCEPT ![p] = "counted"]
          /\ user' = [user EXCEPT ![p] = u]
          /\ total' = [total EXCEPT ![p] = submits[u]]
          /\ UNCHANGED <<todo, users, prev>>
      BY <2>2 DEF StartHook, Move, Keep
    <3>2. submits[u] \in 0..MaxSubmits
      BY <1>1 DEF TypeOK
    <3>3. place' \in [Callers -> Places]
      BY <1>1, <3>1, Kept DEF LocalTypes
    <3>4. user' \in [Callers -> Users \cup {NoUser}]
      BY <1>1, <3>1 DEF LocalTypes
    <3>5. total' \in [Callers -> 0..MaxSubmits]
      BY <1>1, <3>1, <3>2 DEF LocalTypes
    <3>6. QED BY <1>1, <3>1, <3>3, <3>4, <3>5 DEF LocalTypes, LocalsKeep
  <2>3. QED BY <2>1, <2>2
<1>5. TypeOK'
  BY <1>1, <1>2, <1>3, <1>4 DEF TypeOK, CallTypeOK, LocalTypes
<1>6. OthersKeep(p)
  BY <1>1, <1>2, <1>4 DEF TypeOK, OthersKeep, LocalsKeep
<1>7. CallerInv(p)'
  <2>1. /\ task'[p] = "hook" /\ call'[p] = "idle" /\ answer'[p] = 0
        /\ submits' = submits /\ accounts' = accounts
        /\ submits[u] \in Nat /\ accounts \subseteq Users
    BY <1>1, <1>2, CodingStateAssumption DEF TypeOK
  <2>2. CallAt(p)'
    BY <1>1, <1>2 DEF CallerInv, CallAt
  <2>3. PlaceAt(p)' /\ OwedAt(p)'
    BY <1>4, <2>1, Kept DEF PlaceAt, OwedAt
  <2>4. TotalAt(p)' /\ PrevAt(p)'
    BY <1>4, <2>1, CodingStateAssumption DEF TotalAt, PrevAt, Refreshing
  <2>5. DueAt(p)'
    BY <1>4, <2>1, Kept, CodingStateAssumption DEF DueAt
  <2>6. QED BY <2>2, <2>3, <2>4, <2>5 DEF CallerInv
<1>8. QED BY <1>2, <1>5, <1>6, <1>7, OneCallerMoves

\* The hook goes on with a user who is due, or ends.
LEMMA CheckGateStep ==
    ASSUME Inv, NEW p \in Callers, CheckGate(p) PROVE Inv'
<1> USE DEF callVars, rowVars, history
<1>1. TypeOK /\ CallerInv(p) /\ LocalTypes /\ place[p] = "counted"
      /\ task[p] = "hook" /\ user[p] \in Users /\ call[p] = "idle"
      /\ answer[p] = 0
      /\ UNCHANGED <<callVars, rowVars, task, answer, history>>
  BY Kept, Known DEF PlaceAt, CheckGate
<1>2. /\ LocalTypes' /\ LocalsKeep(p)
      /\ \/ place'[p] = "done" /\ user'[p] = NoUser /\ todo'[p] = << >>
         \/ /\ place'[p] = "reading" /\ user'[p] = user[p]
            /\ todo'[p] = todo[p] /\ Stale(total[p], user[p])
  <2>1. CASE Stale(total[p], user[p])
    <3>1. Refresh(p, user[p]) /\ UNCHANGED <<todo, users>>
      BY <2>1 DEF CheckGate
    <3>2. QED BY <1>1, <2>1, <3>1, Beginning DEF LocalTypes
  <2>2. CASE ~Stale(total[p], user[p])
    <3>1. Leave(p, "done")
      BY <2>2 DEF CheckGate
    <3>2. QED BY <1>1, <3>1, Leaving DEF Ended
  <2>3. QED BY <2>1, <2>2
<1>3. TypeOK'
  <2>1. LocalTypes'
    BY <1>2
  <2>2. QED BY <1>1, <2>1 DEF TypeOK, CallTypeOK, LocalTypes
<1>4. OthersKeep(p)
  BY <1>1, <1>2 DEF TypeOK, OthersKeep, LocalsKeep
<1>5. CallerInv(p)'
  <2>1. CallAt(p)'
    BY <1>1 DEF CallerInv, CallAt
  <2>2. PlaceAt(p)' /\ OwedAt(p)'
    BY <1>1, <1>2, Kept DEF PlaceAt, OwedAt
  <2>3. TotalAt(p)' /\ PrevAt(p)'
    BY <1>1, <1>2, CodingStateAssumption DEF TotalAt, PrevAt, Refreshing
  <2>4. DueAt(p)'
    <3>1. \A v \in (Range(todo[p]) \cap accounts) \ missed[p] :
              Due(v, submits[v])
      BY <1>1 DEF CallerInv, DueAt
    <3>2. CASE place'[p] = "done"
      BY <1>1, <1>2, <3>2, Kept, CodingStateAssumption DEF DueAt, TypeOK
    <3>3. CASE place'[p] = "reading"
      <4>1. user[p] \in accounts => Due(user[p], submits[user[p]])
        <5>1. SUFFICES ASSUME user[p] \in accounts, state[user[p]] # NoState
                       PROVE  submits[user[p]] >= state[user[p]].count + MinNew
          BY DEF Due
        <5>2. total[p] <= submits[user[p]]
          BY <1>1, <5>1 DEF CallerInv, TotalAt
        <5>3. total[p] >= state[user[p]].count + MinNew
          BY <1>2, <3>3, <5>1 DEF Stale
        <5>4. /\ total[p] \in Nat /\ submits[user[p]] \in Nat
              /\ state[user[p]].count \in Nat /\ MinNew \in Nat
          BY <1>1, <5>1, CodingStateAssumption DEF TypeOK, States
        <5>5. QED BY <5>2, <5>3, <5>4
      <4>2. QED BY <1>1, <1>2, <3>1, <3>3, <4>1 DEF DueAt, Due
    <3>4. QED BY <1>2, <3>2, <3>3
  <2>5. QED BY <2>1, <2>2, <2>3, <2>4 DEF CallerInv
<1>6. QED BY <1>1, <1>3, <1>4, <1>5, OneCallerMoves

\* The command for one user.
LEMMA StartSingleStep ==
    ASSUME Inv, NEW p \in Callers, NEW u \in Users, StartSingle(p, u)
    PROVE  Inv'
<1> USE DEF Begin, callVars, rowVars, history
<1>1. TypeOK /\ CallerInv(p) /\ LocalTypes /\ place[p] = "new"
      /\ task[p] = "none" /\ call[p] = "idle" /\ answer[p] = 0
      /\ task' = [task EXCEPT ![p] = "single"] /\ Refresh(p, u)
      /\ UNCHANGED <<callVars, rowVars, todo, users, answer, history>>
  BY Kept, Known DEF PlaceAt, StartSingle
<1>2. task' \in [Callers -> Tasks] /\ task'[p] = "single"
  BY <1>1, Kept DEF TypeOK
<1>3. /\ LocalTypes' /\ LocalsKeep(p)
      /\ place'[p] = "reading" /\ user'[p] = u
  BY <1>1, Beginning DEF LocalTypes
<1>4. TypeOK'
  BY <1>1, <1>2, <1>3 DEF TypeOK, CallTypeOK, LocalTypes
<1>5. OthersKeep(p)
  BY <1>1, <1>3 DEF TypeOK, OthersKeep, LocalsKeep
<1>6. CallerInv(p)'
  <2>1. CallAt(p)'
    BY <1>1 DEF CallerInv, CallAt
  <2>2. PlaceAt(p)' /\ OwedAt(p)'
    BY <1>1, <1>2, <1>3, Kept DEF PlaceAt, OwedAt
  <2>3. TotalAt(p)' /\ PrevAt(p)' /\ DueAt(p)'
    BY <1>2, <1>3, Kept DEF TotalAt, PrevAt, DueAt, Refreshing
  <2>4. QED BY <2>1, <2>2, <2>3 DEF CallerInv
<1>7. QED BY <1>1, <1>4, <1>5, <1>6, OneCallerMoves

\* A batch starts with users who are due, all of them to be called for.
LEMMA StartBatchStep ==
    ASSUME Inv, NEW p \in Callers, NEW how \in Batches,
           NEW limit \in 1..Cardinality(Users), StartBatch(p, how, limit)
    PROVE  Inv'
<1> USE DEF Begin, Move, callVars, rowVars, history
<1>1. TypeOK /\ CallerInv(p) /\ LocalTypes /\ place[p] = "new"
      /\ task[p] = "none" /\ call[p] = "idle" /\ answer[p] = 0
      /\ user[p] = NoUser /\ users[p] = {}
      /\ task' = [task EXCEPT ![p] = how]
      /\ place' = [place EXCEPT ![p] = "selected"]
      /\ UNCHANGED <<callVars, rowVars, user, users, prev, total, answer,
                     history>>
  BY Kept, Known DEF PlaceAt, StartBatch
<1>2. task' \in [Callers -> Tasks] /\ task'[p] = how
  BY <1>1, Kept DEF TypeOK
<1> DEFINE S == Selected(how = "all")
<1>3. PICK s \in Orders(S) :
          todo' = [todo EXCEPT ![p] =
                      SubSeq(s, 1, IF Len(s) < limit THEN Len(s) ELSE limit)]
  BY DEF StartBatch
<1>4. S \in SUBSET Users
  BY <1>1 DEF Selected, TypeOK
<1>5. /\ todo' \in [Callers -> Seq(Users)] /\ Range(todo'[p]) \subseteq S
      /\ \A q \in Callers \ {p} : todo'[q] = todo[q]
  <2> DEFINE cut == SubSeq(s, 1, IF Len(s) < limit THEN Len(s) ELSE limit)
  <2>1. limit \in Nat
    BY CodingStateAssumption, FS_CardinalityType
  <2>2. cut \in Seq(S) /\ Range(cut) \subseteq S
    BY <1>4, <2>1, SelectionIsSequence
  <2>3. cut \in Seq(Users)
    BY <1>4, <2>2
  <2>4. todo' = [todo EXCEPT ![p] = cut]
    BY <1>3
  <2> HIDE DEF cut, S
  <2>5. QED BY <1>1, <2>2, <2>3, <2>4 DEF LocalTypes
<1>6. LocalTypes' /\ LocalsKeep(p) /\ place'[p] = "selected"
  BY <1>1, <1>5, Kept DEF LocalTypes, LocalsKeep
<1>7. TypeOK'
  BY <1>1, <1>2, <1>6 DEF TypeOK, CallTypeOK, LocalTypes
<1>8. OthersKeep(p)
  BY <1>1, <1>6 DEF TypeOK, OthersKeep, LocalsKeep
<1>9. CallerInv(p)'
  <2>1. CallAt(p)'
    BY <1>1 DEF CallerInv, CallAt
  <2>2. PlaceAt(p)' /\ OwedAt(p)'
    BY <1>1, <1>2, <1>6, Kept DEF PlaceAt, OwedAt
  <2>3. TotalAt(p)' /\ PrevAt(p)'
    BY <1>6 DEF TotalAt, PrevAt, Refreshing
  <2>4. DueAt(p)'
    <3>1. SUFFICES ASSUME how = "stale", NEW v \in Range(todo'[p])
                   PROVE  Due(v, submits[v])
      BY <1>1, <1>2, <1>6, Kept, CodingStateAssumption DEF DueAt, Due, TypeOK
    <3>2. Stale(submits[v], v)
      BY <1>5, <3>1 DEF Selected
    <3>3. QED BY <3>2 DEF Due, Stale
  <2>5. QED BY <2>1, <2>2, <2>3, <2>4 DEF CallerInv
<1>10. QED BY <1>1, <1>7, <1>8, <1>9, OneCallerMoves

\* The users fetched are among those to be called for.
LEMMA FetchUsersStep ==
    ASSUME Inv, NEW p \in Callers, FetchUsers(p) PROVE Inv'
<1> USE DEF Move, callVars, rowVars, history
<1>1. TypeOK /\ CallerInv(p) /\ LocalTypes /\ place[p] = "selected"
      /\ task[p] \in Batches /\ call[p] = "idle" /\ answer[p] = 0
      /\ users' = [users EXCEPT ![p] = Range(todo[p]) \cap accounts]
      /\ place' = [place EXCEPT ![p] = "next"]
      /\ UNCHANGED <<callVars, rowVars, task, user, todo, prev, total,
                     answer, history>>
  BY Kept, Known DEF PlaceAt, FetchUsers
<1>2. LocalTypes' /\ LocalsKeep(p) /\ place'[p] = "next"
      /\ users'[p] \subseteq Range(todo[p])
  <2>1. place' \in [Callers -> Places]
    BY <1>1, Kept DEF LocalTypes
  <2>2. users' \in [Callers -> SUBSET Users]
    BY <1>1 DEF LocalTypes, TypeOK
  <2>3. QED BY <1>1, <2>1, <2>2 DEF LocalTypes, LocalsKeep
<1>3. TypeOK'
  BY <1>1, <1>2 DEF TypeOK, CallTypeOK, LocalTypes
<1>4. OthersKeep(p)
  BY <1>1, <1>2 DEF TypeOK, OthersKeep, LocalsKeep
<1>5. CallerInv(p)'
  <2>1. CallAt(p)'
    BY <1>1 DEF CallerInv, CallAt
  <2>2. PlaceAt(p)' /\ OwedAt(p)'
    BY <1>1, <1>2, Kept DEF PlaceAt, OwedAt
  <2>3. TotalAt(p)' /\ PrevAt(p)'
    BY <1>2 DEF TotalAt, PrevAt, Refreshing
  <2>4. DueAt(p)'
    BY <1>1, <1>2 DEF CallerInv, DueAt, Due
  <2>5. QED BY <2>1, <2>2, <2>3, <2>4 DEF CallerInv
<1>6. QED BY <1>1, <1>3, <1>4, <1>5, OneCallerMoves

\* The loop takes the first user left, who was fetched or is skipped.
LEMMA NextUserStep ==
    ASSUME Inv, NEW p \in Callers, NextUser(p) PROVE Inv'
<1> USE DEF callVars, rowVars, history
<1>1. TypeOK /\ CallerInv(p) /\ LocalTypes /\ place[p] = "next"
      /\ call[p] = "idle" /\ answer[p] = 0 /\ task[p] \notin Pages
      /\ UNCHANGED <<callVars, rowVars, task, answer, history>>
  <2>1. /\ place[p] = "next"
        /\ UNCHANGED <<callVars, rowVars, task, answer, history>>
    BY DEF NextUser
  <2>2. QED BY <2>1, Kept DEF Inv, CallersInv, CallerInv, PlaceAt, TypeOK,
                              LocalTypes
<1>2. task[p] \in Batches => users[p] \subseteq Range(todo[p])
  BY <1>1 DEF CallerInv, OwedAt
<1>3. /\ LocalTypes' /\ LocalsKeep(p) /\ users'[p] = users[p]
      /\ Range(todo'[p]) \subseteq Range(todo[p])
      /\ \/ /\ place'[p] = "done" /\ user'[p] = NoUser
            /\ todo[p] = << >> /\ todo'[p] = << >>
         \/ /\ place'[p] = "next"
            /\ users[p] \cap Range(todo[p]) \subseteq Range(todo'[p])
         \/ /\ place'[p] = "reading" /\ user'[p] \in Range(todo[p])
            /\ Range(todo[p]) = {user'[p]} \cup Range(todo'[p])
  <2>1. CASE todo[p] = << >>
    <3>1. Leave(p, "done")
      BY <2>1 DEF NextUser
    <3>2. /\ LocalTypes' /\ LocalsKeep(p)
          /\ place'[p] = "done" /\ user'[p] = NoUser /\ todo'[p] = << >>
          /\ users'[p] = users[p]
      BY <1>1, <3>1, Leaving DEF Ended
    <3>3. QED BY <2>1, <3>2, Kept
  <2>2. CASE todo[p] # << >>
    <3> DEFINE u == Head(todo[p])
    <3>1. /\ u \in Users /\ Tail(todo[p]) \in Seq(Users)
          /\ Range(todo[p]) = {u} \cup Range(Tail(todo[p]))
      BY <1>1, <2>2, RangeOfTail DEF LocalTypes
    <3>2. todo' = [todo EXCEPT ![p] = Tail(todo[p])]
      BY <2>2 DEF NextUser
    <3>3. /\ todo' \in [Callers -> Seq(Users)] /\ todo'[p] = Tail(todo[p])
          /\ \A q \in Callers \ {p} : todo'[q] = todo[q]
      BY <1>1, <3>1, <3>2 DEF LocalTypes
    <3>4. CASE u \in users[p]
      <4>1. Refresh(p, u) /\ UNCHANGED users
        BY <2>2, <3>4 DEF NextUser
      <4>2. /\ LocalTypes' /\ LocalsKeep(p) /\ place'[p] = "reading"
            /\ user'[p] = u /\ users'[p] = users[p]
        BY <1>1, <3>1, <3>3, <4>1, Beginning
      <4>3. QED BY <3>1, <3>3, <4>2
    <3>5. CASE u \notin users[p]
      <4>1. UNCHANGED <<place, user, users, prev, total>>
        BY <2>2, <3>5 DEF NextUser
      <4>2. LocalTypes' /\ LocalsKeep(p)
        BY <1>1, <3>3, <4>1 DEF LocalTypes, LocalsKeep
      <4>3. QED BY <1>1, <3>1, <3>3, <3>5, <4>1, <4>2
    <3>6. QED BY <3>4, <3>5
  <2>3. QED BY <2>1, <2>2
<1>4. TypeOK'
  <2>1. LocalTypes'
    BY <1>3
  <2>2. QED BY <1>1, <2>1 DEF TypeOK, CallTypeOK, LocalTypes
<1>5. OthersKeep(p)
  <2>1. LocalsKeep(p)
    BY <1>3
  <2>2. QED BY <1>1, <2>1 DEF OthersKeep, LocalsKeep
<1>6. CallerInv(p)'
  <2>1. CallAt(p)'
    BY <1>1 DEF CallerInv, CallAt
  <2>2. user'[p] \in Users \cup {NoUser} /\ Range(todo[p]) \subseteq Users
    BY <1>1, <1>3 DEF LocalTypes, Range
  <2>3. PlaceAt(p)'
    BY <1>1, <1>3, <2>2, Kept DEF PlaceAt
  <2>4. OwedAt(p)'
    BY <1>1, <1>2, <1>3, Kept DEF OwedAt
  <2>5. TotalAt(p)' /\ PrevAt(p)'
    BY <1>3 DEF TotalAt, PrevAt, Refreshing
  <2>6. DueAt(p)'
    <3>1. SUFFICES ASSUME task[p] \in {"hook", "stale"}
                   PROVE  DueAt(p)'
      BY <1>1 DEF DueAt
    <3>2. \A v \in (Range(todo[p]) \cap accounts) \ missed[p] :
              Due(v, submits[v])
      BY <1>1, <3>1 DEF CallerInv, DueAt
    <3>3. QED BY <1>1, <1>3, <3>2, CodingStateAssumption DEF DueAt, Due, TypeOK
  <2>7. QED BY <2>1, <2>3, <2>4, <2>5, <2>6 DEF CallerInv
<1>7. QED BY <1>1, <1>3, <1>4, <1>5, <1>6, OneCallerMoves

-----------------------------------------------------------------------------
(* A refresh.                                                              *)

\* What has just been read is what the row says.
LEMMA ReadPrevStep ==
    ASSUME Inv, NEW p \in Callers, ReadPrev(p) PROVE Inv'
<1> USE DEF Move, callVars, rowVars
<1>1. TypeOK /\ CallerInv(p) /\ LocalTypes /\ place[p] = "reading"
      /\ call[p] = "idle" /\ task[p] \notin Pages /\ user[p] \in Users
      /\ answer[p] = 0
      /\ prev' = [prev EXCEPT ![p] = state[user[p]]]
      /\ behind' = [behind EXCEPT ![p] = FALSE]
      /\ place' = [place EXCEPT ![p] = "read"]
      /\ UNCHANGED <<callVars, rowVars, task, user, todo, users, total,
                     answer, saves, run, missed, lost>>
  BY Kept, Known DEF PlaceAt, ReadPrev
<1>2. LocalTypes' /\ LocalsKeep(p) /\ place'[p] = "read"
      /\ prev'[p] = state[user[p]]
  <2>1. place' \in [Callers -> Places]
    BY <1>1, Kept DEF LocalTypes, Refreshing
  <2>2. prev' \in [Callers -> States \cup {NoState}]
    BY <1>1 DEF LocalTypes, TypeOK
  <2>3. QED BY <1>1, <2>1, <2>2 DEF LocalTypes, LocalsKeep
<1>3. TypeOK'
  <2>1. behind' \in [Callers -> BOOLEAN]
    BY <1>1 DEF TypeOK
  <2>2. QED BY <1>1, <1>2, <2>1 DEF TypeOK, CallTypeOK, LocalTypes
<1>4. OthersKeep(p)
  BY <1>1, <1>2 DEF TypeOK, OthersKeep, LocalsKeep
<1>5. CallerInv(p)'
  <2>1. CallAt(p)'
    BY <1>1 DEF CallerInv, CallAt
  <2>2. PlaceAt(p)'
    BY <1>1, <1>2, Kept DEF PlaceAt
  <2>3. OwedAt(p)' /\ TotalAt(p)' /\ PrevAt(p)'
    BY <1>1, <1>2 DEF CallerInv, OwedAt, TotalAt, PrevAt
  <2>4. DueAt(p)'
    BY <1>1, <1>2 DEF CallerInv, DueAt, Due
  <2>5. QED BY <2>1, <2>2, <2>3, <2>4 DEF CallerInv
<1>6. QED BY <1>1, <1>3, <1>4, <1>5, OneCallerMoves

\* The count it gathers is at least the one it has read.
LEMMA GatherAndSendStep ==
    ASSUME Inv, NEW p \in Callers, GatherAndSend(p) PROVE Inv'
<1> USE DEF Move, callVars, rowVars, history
<1>1. TypeOK /\ CallerInv(p) /\ LocalTypes /\ place[p] = "read"
      /\ call[p] = "idle" /\ task[p] \notin Pages /\ user[p] \in accounts
      /\ user[p] \in Users /\ answer[p] = 0
      /\ total' = [total EXCEPT ![p] = submits[user[p]]]
      /\ users' = [users EXCEPT ![p] = @ \ {user[p]}]
      /\ place' = [place EXCEPT ![p] = "calling"]
      /\ log' = [log EXCEPT ![p] = "processing"]
      /\ errors' = [errors EXCEPT ![p] = 0]
      /\ reply' = [reply EXCEPT ![p] = "none"]
      /\ call' = [call EXCEPT ![p] = "sent"]
      /\ UNCHANGED <<rowVars, task, user, todo, prev, answer, history>>
  BY Kept, Known DEF PlaceAt, GatherAndSend, Gathered,
              Send, Goto, TypeOK, LocalTypes
<1>2. CallTypeOK' /\ CallsKeep(p)
  <2>1. CallTypeOK
    BY <1>1 DEF TypeOK
  <2>2. call' \in [Callers -> CallPlaces]
    BY <1>1, <2>1 DEF CallTypeOK, CallPlaces, InCall
  <2>3. reply' \in [Callers -> Replies \cup {"none"}]
    BY <1>1, <2>1 DEF CallTypeOK
  <2>4. errors' \in [Callers -> 0..1]
    BY <1>1, <2>1 DEF CallTypeOK
  <2>5. log' \in [Callers -> {"none", "processing", "success", "empty",
                              "failed", "timeout"}]
    BY <1>1, <2>1 DEF CallTypeOK
  <2>6. QED BY <1>1, <2>1, <2>2, <2>3, <2>4, <2>5 DEF CallTypeOK, CallsKeep
<1>3. LocalTypes' /\ LocalsKeep(p) /\ place'[p] = "calling"
      /\ total'[p] = submits[user[p]] /\ users'[p] = users[p] \ {user[p]}
  <2>1. place' \in [Callers -> Places]
    BY <1>1, Kept DEF LocalTypes, Refreshing
  <2>2. total' \in [Callers -> 0..MaxSubmits]
    BY <1>1 DEF LocalTypes, TypeOK
  <2>3. users' \in [Callers -> SUBSET Users]
    BY <1>1 DEF LocalTypes
  <2>4. QED BY <1>1, <2>1, <2>2, <2>3 DEF LocalTypes, LocalsKeep
<1>4. TypeOK'
  BY <1>1, <1>2, <1>3 DEF TypeOK, LocalTypes
<1>5. OthersKeep(p)
  BY <1>1, <1>2, <1>3 DEF OthersKeep, LocalsKeep, CallsKeep
<1>6. CallerInv(p)'
  <2>1. call'[p] = "sent" /\ log'[p] = "processing" /\ errors'[p] = 0
    BY <1>1 DEF TypeOK, CallTypeOK
  <2>2. CallAt(p)'
    BY <2>1 DEF CallAt
  <2>3. PlaceAt(p)'
    BY <1>1, <1>3, <2>1, Kept DEF PlaceAt
  <2>4. OwedAt(p)'
    BY <1>1, <1>3 DEF CallerInv, OwedAt
  <2>5. TotalAt(p)'
    BY <1>1, <1>3, CodingStateAssumption DEF TotalAt, TypeOK
  <2>6. PrevAt(p)'
    <3>1. state[user[p]] # NoState => state[user[p]].count <= submits[user[p]]
      BY <1>1 DEF Inv, RowInv
    <3>2. submits[user[p]] \in Nat
          /\ (state[user[p]] # NoState => state[user[p]].count \in Nat)
      BY <1>1, CodingStateAssumption DEF TypeOK, States
    <3>3. QED BY <1>1, <1>3, <3>1, <3>2 DEF CallerInv, PrevAt, Refreshing
  <2>7. DueAt(p)'
    BY <1>1, <1>3 DEF CallerInv, DueAt, Due
  <2>8. QED BY <2>2, <2>3, <2>4, <2>5, <2>6, <2>7 DEF CallerInv
<1>7. QED BY <1>1, <1>4, <1>5, <1>6, OneCallerMoves

-----------------------------------------------------------------------------
(* The call.                                                               *)

\* An answer of any handler is a reply.
LEMMA RepliesOnly ==
    ASSUME NEW kind \in Kinds, NEW r \in PossibleReplies(kind)
    PROVE  r \in Replies
<1>1. CASE r \in Exceptions
  BY <1>1 DEF Replies
<1>2. CASE r \notin Exceptions
  <2>1. PICK c \in Completions : r = HandlerReply(kind, c)
    BY <1>2 DEF PossibleReplies
  <2>2. QED
    BY <2>1 DEF HandlerReply, HintReply, TutorReply, SearchReply,
                AnalyzeReply, EmbedReply, SummarizeReply, GenerateReply,
                LabReply, Answer, EmptyIfBlank, GenerateHint, AnalyzeNote,
                AskTutor, Summarize, RunNode, GenerateCases, CallIndex,
                CallModel,
                Replies, Exceptions, Completions, Kinds
<1>3. QED BY <1>1, <1>2

\* The steps of a call keep its rows in line with it.
LEMMA CallSteps ==
    ASSUME CallTypeOK, NEW p \in Callers, NEW kind \in Kinds, CallAt(p),
           CallStep(p, kind)
    PROVE  /\ CallTypeOK' /\ CallsKeep(p) /\ CallAt(p)'
           /\ call[p] \in InCall /\ call'[p] # "idle"
<1> USE DEF CallTypeOK, CallAt, CallsKeep, Goto
<1>1. CASE Receive(p, kind)
  <2>1. PICK r \in PossibleReplies(kind) :
            /\ reply' = [reply EXCEPT ![p] = r]
            /\ call' = [call EXCEPT ![p] =
                            IF LogsFirst(r) THEN "failing" ELSE "received"]
    BY <1>1 DEF Receive
  <2>2. r \in Replies
    BY RepliesOnly
  <2>3. call[p] = "sent" /\ UNCHANGED <<log, errors>>
    BY <1>1 DEF Receive
  <2>4. (IF LogsFirst(r) THEN "failing" ELSE "received") \in CallPlaces
    BY DEF CallPlaces, InCall
  <2>5. QED BY <2>1, <2>2, <2>3, <2>4 DEF LogsFirst, InCall
<1>2. CASE LogException(p)
  <2>1. /\ call[p] = "failing" /\ errors[p] = 0
        /\ errors' = [errors EXCEPT ![p] = 1]
        /\ call' = [call EXCEPT ![p] = "received"]
        /\ UNCHANGED <<reply, log>>
    BY <1>2 DEF LogException
  <2>2. "received" \in CallPlaces
    BY DEF CallPlaces, InCall
  <2>3. QED BY <2>1, <2>2 DEF LogsFirst, Replies, InCall
<1>3. CASE CompleteLog(p)
  <2>1. /\ call[p] = "received" /\ reply[p] \in Replies
        /\ log' = [log EXCEPT ![p] = StatusOf(reply[p])]
        /\ call' = [call EXCEPT ![p] =
              IF LogsLast(reply[p]) THEN "completed" ELSE "returned"]
        /\ UNCHANGED <<reply, errors>>
    BY <1>3 DEF CompleteLog
  <2>2. (IF LogsLast(reply[p]) THEN "completed" ELSE "returned")
            \in CallPlaces
    BY DEF CallPlaces, InCall
  <2>3. StatusOf(reply[p]) \in {"success", "empty", "failed", "timeout"}
    BY DEF StatusOf
  <2>4. LogsFirst(reply[p]) => ~Answered(reply[p])
    BY DEF LogsFirst, Exceptions, Answered, StatusOf
  <2>5. QED BY <2>1, <2>2, <2>3, <2>4 DEF LogsLast, InCall
<1>4. CASE LogFailure(p)
  <2>1. /\ call[p] = "completed" /\ errors[p] = 0 /\ LogsLast(reply[p])
        /\ errors' = [errors EXCEPT ![p] = 1]
        /\ call' = [call EXCEPT ![p] = "returned"]
        /\ UNCHANGED <<reply, log>>
    BY <1>4 DEF LogFailure
  <2>2. "returned" \in CallPlaces
    BY DEF CallPlaces, InCall
  <2>3. QED BY <2>1, <2>2 DEF LogsLast, InCall
<1>5. QED BY <1>1, <1>2, <1>3, <1>4 DEF CallStep

\* What is forgotten is as if no call had been made.
LEMMA Forgetting ==
    ASSUME CallTypeOK, NEW p \in Callers, Forget(p)
    PROVE  CallTypeOK' /\ CallsKeep(p) /\ CallAt(p)' /\ call'[p] = "idle"
<1> USE DEF CallTypeOK, CallsKeep, Forget, Goto
<1>1. call' \in [Callers -> CallPlaces]
  BY DEF CallPlaces
<1>2. /\ call'[p] = "idle" /\ reply'[p] = "none" /\ log'[p] = "none"
      /\ errors'[p] = 0
  OBVIOUS
<1>3. CallAt(p)'
  BY <1>2 DEF CallAt
<1>4. QED BY <1>1, <1>2, <1>3

\* A call goes on while its caller waits.
LEMMA CallingStep ==
    ASSUME Inv, NEW p \in Callers, Calling(p) PROVE Inv'
<1> USE DEF rowVars, locals, history
<1>1. /\ place[p] = "calling"
      /\ UNCHANGED <<rowVars, task, place, locals, answer, history>>
  BY DEF Calling
<1>2. TypeOK /\ CallerInv(p)
  BY DEF Inv, CallersInv
<1>3. PICK kind \in Kinds : CallStep(p, kind)
  BY DEF Calling, Pages, Kinds
<1>4. /\ CallTypeOK' /\ CallsKeep(p) /\ CallAt(p)'
      /\ call[p] \in InCall /\ call'[p] # "idle"
  BY <1>2, <1>3, CallSteps DEF TypeOK, CallerInv
<1>5. TypeOK'
  BY <1>1, <1>2, <1>4 DEF TypeOK
<1>6. OthersKeep(p)
  BY <1>1, <1>4 DEF OthersKeep, CallsKeep
<1>7. CallerInv(p)'
  <2>1. answer[p] = 0
    BY <1>1, <1>2 DEF CallerInv, PlaceAt
  <2>2. PlaceAt(p)'
    BY <1>1, <1>2, <2>1 DEF CallerInv, PlaceAt
  <2>3. OwedAt(p)' /\ TotalAt(p)' /\ PrevAt(p)'
    BY <1>1, <1>2 DEF CallerInv, OwedAt, TotalAt, PrevAt
  <2>4. DueAt(p)'
    BY <1>1, <1>2 DEF CallerInv, DueAt, Due
  <2>5. QED BY <1>4, <2>2, <2>3, <2>4 DEF CallerInv
<1>8. QED BY <1>1, <1>5, <1>6, <1>7, OneCallerMoves

\* A refresh that gets no summary goes on with the next user.
LEMMA RefreshFailsStep ==
    ASSUME Inv, NEW p \in Callers, RefreshFails(p) PROVE Inv'
<1> USE DEF rowVars, locals, history
<1>1. /\ Refreshed(p) /\ Forget(p) /\ place' = [place EXCEPT ![p] = "next"]
      /\ UNCHANGED <<rowVars, task, locals, answer, history>>
  BY DEF RefreshFails, AfterFailure, Move
<1>2. TypeOK /\ CallerInv(p) /\ LocalTypes /\ place[p] = "calling"
      /\ task[p] \notin Pages /\ answer[p] = 0
  BY <1>1, Known DEF Refreshed, PlaceAt
<1>3. CallTypeOK' /\ CallsKeep(p) /\ CallAt(p)' /\ call'[p] = "idle"
  BY <1>1, <1>2, Forgetting DEF TypeOK
<1>4. place' \in [Callers -> Places] /\ place'[p] = "next"
      /\ \A q \in Callers \ {p} : place'[q] = place[q]
  BY <1>1, <1>2, Kept DEF LocalTypes
<1>5. TypeOK'
  BY <1>1, <1>2, <1>3, <1>4 DEF TypeOK
<1>6. OthersKeep(p)
  BY <1>1, <1>3, <1>4 DEF OthersKeep, CallsKeep
<1>7. CallerInv(p)'
  <2>1. PlaceAt(p)'
    BY <1>1, <1>2, <1>3, <1>4 DEF PlaceAt
  <2>2. OwedAt(p)' /\ TotalAt(p)' /\ PrevAt(p)'
    BY <1>1, <1>2, <1>4 DEF CallerInv, OwedAt, TotalAt, PrevAt, Refreshing
  <2>3. DueAt(p)'
    BY <1>1, <1>2, <1>4 DEF CallerInv, DueAt, Due
  <2>4. QED BY <1>3, <2>1, <2>2, <2>3 DEF CallerInv
<1>8. QED BY <1>1, <1>5, <1>6, <1>7, OneCallerMoves

\* A refresh that ends by another exception ends its caller.
LEMMA RefreshRaisesStep ==
    ASSUME Inv, NEW p \in Callers, RefreshRaises(p) PROVE Inv'
<1> USE DEF rowVars, history
<1> DEFINE how == IF task[p] = "hook" THEN "done" ELSE "aborted"
<1>1. /\ place[p] \in Refreshing /\ task[p] \notin Pages
      /\ Leave(p, how) /\ Forget(p)
      /\ UNCHANGED <<rowVars, task, answer, history>>
  BY DEF RefreshRaises
<1>2. TypeOK /\ CallerInv(p) /\ LocalTypes /\ answer[p] = 0
  <2>1. TypeOK /\ CallerInv(p)
    BY DEF Inv, CallersInv
  <2>2. answer[p] = 0
    BY <1>1, <2>1 DEF CallerInv, PlaceAt
  <2>3. QED BY <2>1, <2>2 DEF TypeOK, LocalTypes
<1>3. CallTypeOK' /\ CallsKeep(p) /\ CallAt(p)' /\ call'[p] = "idle"
  BY <1>1, <1>2, Forgetting DEF TypeOK
<1>4. how \in Ended
  BY DEF Ended
<1>5. /\ LocalTypes' /\ LocalsKeep(p)
      /\ place'[p] = how /\ user'[p] = NoUser /\ todo'[p] = << >>
  BY <1>1, <1>2, <1>4, Leaving
<1>6. TypeOK'
  BY <1>1, <1>2, <1>3, <1>5 DEF TypeOK, LocalTypes
<1>7. OthersKeep(p)
  BY <1>1, <1>3, <1>5 DEF OthersKeep, CallsKeep, LocalsKeep
<1>8. CallerInv(p)'
  <2>1. task'[p] = task[p] /\ answer'[p] = 0 /\ accounts' \subseteq Users
    BY <1>1, <1>2 DEF TypeOK
  <2>2. place'[p] = "done" => task[p] = "hook"
    BY <1>5
  <2> HIDE DEF how
  <2>3. place'[p] \in {"done", "aborted"}
    BY <1>4, <1>5 DEF Ended
  <2>4. PlaceAt(p)'
    BY <1>1, <1>3, <2>1, <2>3 DEF PlaceAt
  <2>5. OwedAt(p)'
    BY <2>1, <2>2, <2>3, Kept DEF OwedAt
  <2>6. TotalAt(p)' /\ PrevAt(p)'
    BY <2>3 DEF TotalAt, PrevAt, Refreshing
  <2>7. DueAt(p)'
    BY <1>5, <2>1, <2>3, Kept, CodingStateAssumption DEF DueAt
  <2>8. QED BY <1>3, <2>4, <2>5, <2>6, <2>7 DEF CallerInv
<1>9. QED BY <1>1, <1>6, <1>7, <1>8, OneCallerMoves

-----------------------------------------------------------------------------
(* The pages.                                                              *)

\* A request that is rejected makes no call.
LEMMA RejectPageStep ==
    ASSUME Inv, NEW p \in Callers, NEW k \in Pages, RejectPage(p, k)
    PROVE  Inv'
<1> USE DEF Begin, Reply, Move, callVars, rowVars, locals, history
<1>1. PICK code \in Rejections(k) : answer' = [answer EXCEPT ![p] = code]
  BY DEF RejectPage
<1>2. code \in {400, 403, 404, 500}
  BY DEF Rejections
<1>3. /\ TypeOK /\ CallerInv(p) /\ place[p] = "new" /\ task[p] = "none"
      /\ call[p] = "idle" /\ user[p] = NoUser /\ users[p] = {}
      /\ todo[p] = << >>
      /\ task' = [task EXCEPT ![p] = k]
      /\ place' = [place EXCEPT ![p] = "done"]
      /\ UNCHANGED <<callVars, rowVars, locals, history>>
  BY Kept, Known DEF PlaceAt, RejectPage
<1>4. /\ task' \in [Callers -> Tasks] /\ place' \in [Callers -> Places]
      /\ answer' \in [Callers -> {0, 200, 400, 403, 404, 500, 502}]
  <2>1. task' \in [Callers -> Tasks]
    BY <1>3, Kept DEF TypeOK
  <2>2. place' \in [Callers -> Places]
    BY <1>3, Kept DEF TypeOK, Ended
  <2>3. answer' \in [Callers -> {0, 200, 400, 403, 404, 500, 502}]
    BY <1>1, <1>2, <1>3 DEF TypeOK
  <2>4. QED BY <2>1, <2>2, <2>3
<1>5. TypeOK'
  BY <1>3, <1>4 DEF TypeOK, CallTypeOK
<1>6. OthersKeep(p)
  BY <1>1, <1>3 DEF OthersKeep, TypeOK
<1>7. CallerInv(p)'
  <2>1. /\ task'[p] = k /\ place'[p] = "done" /\ answer'[p] = code
    BY <1>1, <1>3 DEF TypeOK
  <2>2. CallAt(p)'
    BY <1>3 DEF CallerInv, CallAt
  <2>3. PlaceAt(p)' /\ OwedAt(p)'
    BY <1>2, <1>3, <2>1, Kept DEF PlaceAt, OwedAt
  <2>4. TotalAt(p)' /\ PrevAt(p)' /\ DueAt(p)'
    BY <2>1, Kept DEF TotalAt, PrevAt, DueAt, Refreshing
  <2>5. QED BY <2>2, <2>3, <2>4 DEF CallerInv
<1>8. QED BY <1>3, <1>5, <1>6, <1>7, OneCallerMoves

\* A page that calls knows nothing but its call.
LEMMA SendPageStep ==
    ASSUME Inv, NEW p \in Callers, NEW k \in Pages, SendPage(p, k)
    PROVE  Inv'
<1> USE DEF Begin, Move, rowVars, locals, history
<1>1. TypeOK /\ CallerInv(p) /\ place[p] = "new" /\ task[p] = "none"
      /\ call[p] = "idle" /\ user[p] = NoUser /\ users[p] = {}
      /\ answer[p] = 0
      /\ task' = [task EXCEPT ![p] = k]
      /\ place' = [place EXCEPT ![p] = "calling"]
      /\ log' = [log EXCEPT ![p] = "processing"]
      /\ errors' = [errors EXCEPT ![p] = 0]
      /\ reply' = [reply EXCEPT ![p] = "none"]
      /\ call' = [call EXCEPT ![p] = "sent"]
      /\ UNCHANGED <<rowVars, locals, answer, history>>
  BY Kept, Known DEF PlaceAt, SendPage, Send, Goto
<1>2. task' \in [Callers -> Tasks] /\ place' \in [Callers -> Places]
  BY <1>1, Kept DEF TypeOK, Refreshing
<1>3. CallTypeOK' /\ CallsKeep(p)
  <2>1. CallTypeOK
    BY <1>1 DEF TypeOK
  <2>2. call' \in [Callers -> CallPlaces]
    BY <1>1, <2>1 DEF CallTypeOK, CallPlaces, InCall
  <2>3. reply' \in [Callers -> Replies \cup {"none"}]
    BY <1>1, <2>1 DEF CallTypeOK
  <2>4. errors' \in [Callers -> 0..1]
    BY <1>1, <2>1 DEF CallTypeOK
  <2>5. log' \in [Callers -> {"none", "processing", "success", "empty",
                              "failed", "timeout"}]
    BY <1>1, <2>1 DEF CallTypeOK
  <2>6. QED BY <1>1, <2>1, <2>2, <2>3, <2>4, <2>5 DEF CallTypeOK, CallsKeep
<1>4. TypeOK'
  BY <1>1, <1>2, <1>3 DEF TypeOK
<1>5. OthersKeep(p)
  BY <1>1, <1>3 DEF OthersKeep, CallsKeep, TypeOK
<1>6. CallerInv(p)'
  <2>1. /\ call'[p] = "sent" /\ log'[p] = "processing" /\ errors'[p] = 0
        /\ task'[p] = k /\ place'[p] = "calling" /\ accounts \subseteq Users
    BY <1>1 DEF TypeOK, CallTypeOK
  <2>2. CallAt(p)'
    BY <2>1 DEF CallAt
  <2>3. PlaceAt(p)' /\ OwedAt(p)'
    BY <1>1, <2>1, Kept DEF PlaceAt, OwedAt
  <2>4. TotalAt(p)' /\ PrevAt(p)' /\ DueAt(p)'
    BY <1>1, <2>1, Kept, CodingStateAssumption DEF TotalAt, PrevAt, DueAt
  <2>5. QED BY <2>2, <2>3, <2>4 DEF CallerInv
<1>7. QED BY <1>1, <1>4, <1>5, <1>6, OneCallerMoves

\* A page ends with the status of its call, or by an exception.
LEMMA AnswerPageStep ==
    ASSUME Inv, NEW p \in Callers, AnswerPage(p) PROVE Inv'
<1> USE DEF Reply, Move, callVars, rowVars, locals, history
<1>1. TypeOK /\ CallerInv(p) /\ place[p] = "calling" /\ task[p] \in Pages
      /\ place' = [place EXCEPT ![p] = "done"]
      /\ UNCHANGED <<callVars, rowVars, task, locals, history>>
  BY DEF Inv, CallersInv, AnswerPage
<1>2. PICK code \in {200, 500, 502} :
          /\ answer' = [answer EXCEPT ![p] = code]
          /\ code = 200 => call[p] = "returned" /\ Answered(reply[p])
          /\ code = 502 => call[p] = "returned" /\ ~Answered(reply[p])
  BY DEF AnswerPage, PageCode
<1>3. /\ place' \in [Callers -> Places]
      /\ answer' \in [Callers -> {0, 200, 400, 403, 404, 500, 502}]
  BY <1>1, <1>2, Kept DEF TypeOK, Ended
<1>4. TypeOK'
  BY <1>1, <1>3 DEF TypeOK, CallTypeOK
<1>5. OthersKeep(p)
  BY <1>1, <1>2 DEF OthersKeep, TypeOK
<1>6. CallerInv(p)'
  <2>1. place'[p] = "done" /\ answer'[p] = code
    BY <1>1, <1>2 DEF TypeOK
  <2>2. CallAt(p)'
    BY <1>1 DEF CallerInv, CallAt
  <2>3. PlaceAt(p)'
    BY <1>1, <1>2, <2>1, Kept DEF CallerInv, PlaceAt
  <2>4. OwedAt(p)' /\ TotalAt(p)' /\ PrevAt(p)' /\ DueAt(p)'
    BY <1>1, <2>1, Kept DEF OwedAt, TotalAt, PrevAt, DueAt, Refreshing
  <2>5. QED BY <2>2, <2>3, <2>4 DEF CallerInv
<1>7. QED BY <1>1, <1>4, <1>5, <1>6, OneCallerMoves

-----------------------------------------------------------------------------
(* A state is saved: the only step that disturbs other callers.            *)

\* What a save builds on is what was gathered and read.
LEMMA SavedState ==
    ASSUME TypeOK, NEW p \in Callers
    PROVE  /\ NewState(p) \in States /\ NewState(p).count = total[p]
           /\ NewState(p) # NoState
           /\ NewState(p).refreshes =
                 IF prev[p] = NoState THEN 1 ELSE prev[p].refreshes + 1
           /\ NewState(p).memory =
                 IF reply[p] = "hollow" THEN 0
                 ELSE IF prev[p] = NoState THEN 1 ELSE prev[p].memory + 1
<1>1. total[p] \in Nat /\ prev[p] \in States \cup {NoState}
  BY CodingStateAssumption DEF TypeOK
<1>2. CASE prev[p] = NoState
  BY <1>1, <1>2, CodingStateAssumption DEF NewState, States
<1>3. CASE prev[p] # NoState
  BY <1>1, <1>3, CodingStateAssumption DEF NewState, States
<1>4. QED BY <1>2, <1>3

\* What a step that saves a state does to the other variables.
LEMMA SaveEffect ==
    ASSUME Inv, NEW p \in Callers, SaveState(p)
    PROVE  /\ TypeOK /\ CallerInv(p) /\ place[p] = "calling"
           /\ task[p] \notin Pages /\ user[p] \in accounts
           /\ user[p] \in Users
           /\ CallTypeOK' /\ CallsKeep(p) /\ CallAt(p)' /\ call'[p] = "idle"
           /\ place' \in [Callers -> Places] /\ place'[p] = "next"
           /\ \A q \in Callers \ {p} : place'[q] = place[q]
           /\ \A v \in Users : state'[v] =
                 IF v = user[p] THEN NewState(p) ELSE state[v]
           /\ \A v \in Users : saves'[v] =
                 IF v = user[p] THEN saves[v] + 1 ELSE saves[v]
           /\ \A v \in Users : run'[v] =
                 IF v # user[p] THEN run[v]
                 ELSE IF reply[p] = "hollow" THEN 0 ELSE run[v] + 1
           /\ lost' = IF behind[p] THEN lost \cup {user[p]} ELSE lost
<1> USE DEF Refreshed, Move
<1>1. /\ place[p] = "calling" /\ task[p] \notin Pages /\ user[p] \in accounts
      /\ Forget(p) /\ place' = [place EXCEPT ![p] = "next"]
      /\ lost' = IF behind[p] THEN lost \cup {user[p]} ELSE lost
  BY DEF SaveState
<1>2. TypeOK /\ CallerInv(p) /\ user[p] \in Users
  BY <1>1 DEF Inv, CallersInv, TypeOK
<1>3. CallTypeOK' /\ CallsKeep(p) /\ CallAt(p)' /\ call'[p] = "idle"
  BY <1>1, <1>2, Forgetting DEF TypeOK
<1>4. place' \in [Callers -> Places] /\ place'[p] = "next"
      /\ \A q \in Callers \ {p} : place'[q] = place[q]
  BY <1>1, <1>2, Kept DEF TypeOK
<1>5. \A v \in Users : state'[v] =
          IF v = user[p] THEN NewState(p) ELSE state[v]
  BY <1>2 DEF SaveState, TypeOK
<1>6. \A v \in Users : saves'[v] =
          IF v = user[p] THEN saves[v] + 1 ELSE saves[v]
  BY <1>2 DEF SaveState, TypeOK
<1>7. \A v \in Users : run'[v] =
          IF v # user[p] THEN run[v]
          ELSE IF reply[p] = "hollow" THEN 0 ELSE run[v] + 1
  BY <1>2 DEF SaveState, TypeOK
<1>8. QED BY <1>1, <1>2, <1>3, <1>4, <1>5, <1>6, <1>7

\* Others who are refreshing the user are behind from now on, and those who
\* wait to are noted as having missed the save.
LEMMA SaveDisturbs ==
    ASSUME Inv, NEW p \in Callers, SaveState(p), NEW q \in Callers
    PROVE  /\ behind'[q] \in BOOLEAN /\ missed'[q] \in SUBSET Users
           /\ ~behind'[q] /\ q # p => ~behind[q]
           /\ ~behind'[q] /\ q # p /\ place[q] \in Refreshing =>
                 user[q] # user[p]
           /\ missed[q] \subseteq missed'[q]
           /\ user[q] = user[p] => user[p] \in missed'[q]
           /\ user[p] \in Range(todo[q]) => user[p] \in missed'[q]
<1>1. TypeOK /\ user[p] \in Users
  BY SaveEffect
<1>2. behind'[q] = /\ q # p
                   /\ \/ behind[q]
                      \/ place[q] \in Refreshing /\ user[q] = user[p]
  BY DEF SaveState
<1>3. missed'[q] = IF user[q] = user[p] \/ user[p] \in Range(todo[q])
                   THEN missed[q] \cup {user[p]} ELSE missed[q]
  BY DEF SaveState
<1>4. behind[q] \in BOOLEAN /\ missed[q] \in SUBSET Users
  BY <1>1 DEF TypeOK
<1>5. behind'[q] \in BOOLEAN
  BY <1>2, <1>4
<1>6. /\ ~behind'[q] /\ q # p => ~behind[q]
      /\ ~behind'[q] /\ q # p /\ place[q] \in Refreshing => user[q] # user[p]
  BY <1>2
<1>7. QED BY <1>1, <1>3, <1>4, <1>5, <1>6

LEMMA SaveStateStep ==
    ASSUME Inv, NEW p \in Callers, SaveState(p) PROVE Inv'
<1> USE DEF locals
<1>1. UNCHANGED <<accounts, submits, task, locals, answer>>
  BY DEF SaveState
<1>2. /\ TypeOK /\ CallerInv(p) /\ place[p] = "calling"
      /\ task[p] \notin Pages /\ user[p] \in accounts /\ user[p] \in Users
      /\ NewState(p) \in States /\ NewState(p) # NoState
      /\ NewState(p).count = total[p]
  BY SaveEffect, SavedState
<1> DEFINE u == user[p]
<1>21. lost' = IF behind[p] THEN lost \cup {u} ELSE lost
  BY SaveEffect
<1>22. lost \subseteq Users /\ accounts \subseteq Users
  BY <1>2 DEF TypeOK
<1> HIDE DEF u
<1>3. TypeOK'
  <2>1. state' \in [Users -> States \cup {NoState}]
    BY <1>2 DEF SaveState, TypeOK
  <2>2. saves' \in [Users -> Nat]
    BY <1>2 DEF SaveState, TypeOK
  <2>3. run' \in [Users -> Nat]
    BY <1>2 DEF SaveState, TypeOK
  <2>4. behind' \in [Callers -> BOOLEAN]
    <3>1. behind' = [q \in Callers |-> behind'[q]]
      BY DEF SaveState
    <3>2. \A q \in Callers : behind'[q] \in BOOLEAN
      BY SaveDisturbs
    <3>3. QED BY <3>1, <3>2
  <2>5. missed' \in [Callers -> SUBSET Users]
    <3>1. missed' = [q \in Callers |-> missed'[q]]
      BY DEF SaveState
    <3>2. \A q \in Callers : missed'[q] \in SUBSET Users
      BY SaveDisturbs
    <3>3. QED BY <3>1, <3>2
  <2>6. \A v \in Users \ accounts : state'[v] = NoState
    BY <1>2, SaveEffect DEF TypeOK
  <2>7. CallTypeOK' /\ place' \in [Callers -> Places] /\ lost' \subseteq Users
    <3>1. CallTypeOK' /\ place' \in [Callers -> Places]
      BY SaveEffect
    <3>2. lost' \subseteq Users
      BY <1>2, <1>21, <1>22 DEF u
    <3>3. QED BY <3>1, <3>2
  <2>8. QED
    BY <1>1, <1>2, <2>1, <2>2, <2>3, <2>4, <2>5, <2>6, <2>7 DEF TypeOK
<1>4. RowInv'
  <2>1. total[p] <= submits[user[p]]
    BY <1>2 DEF CallerInv, TotalAt
  <2>2. \A v \in Users : state'[v] # NoState => state'[v].count <= submits'[v]
    BY <1>1, <1>2, <2>1, SaveEffect DEF Inv, RowInv
  <2>3. ASSUME NEW v \in accounts', v \notin lost'
        PROVE  /\ state'[v] = NoState => saves'[v] = 0 /\ run'[v] = 0
               /\ state'[v] # NoState =>
                     /\ state'[v].refreshes = saves'[v]
                     /\ state'[v].memory = run'[v]
    <3>1. v \in accounts /\ v \in Users /\ v \notin lost
      BY <1>1, <1>21, <1>22, <2>3
    <3>2. CASE v # user[p]
      BY <3>1, <3>2, SaveEffect DEF Inv, RowInv
    <3>3. CASE v = user[p]
      <4>1. ~behind[p]
        BY <2>3, <3>3, SaveEffect
      <4>2. prev[p] = state[v]
        BY <1>2, <3>1, <3>3, <4>1 DEF CallerInv, PrevAt, Refreshing
      <4>3. /\ state'[v] = NewState(p) /\ saves'[v] = saves[v] + 1
            /\ run'[v] = IF reply[p] = "hollow" THEN 0 ELSE run[v] + 1
        BY <3>1, <3>3, SaveEffect
      <4>4. /\ state[v] = NoState => saves[v] = 0 /\ run[v] = 0
            /\ state[v] # NoState =>
                  state[v].refreshes = saves[v] /\ state[v].memory = run[v]
        BY <3>1 DEF Inv, RowInv
      <4>5. QED BY <1>2, <4>2, <4>3, <4>4, SavedState
    <3>4. QED BY <3>2, <3>3
  <2>4. QED BY <2>2, <2>3 DEF RowInv
<1>5. CallerInv(p)'
  <2>1. answer[p] = 0
    BY <1>2 DEF CallerInv, PlaceAt
  <2>2. CallAt(p)' /\ PlaceAt(p)'
    BY <1>1, <1>2, <2>1, SaveEffect DEF PlaceAt
  <2>3. OwedAt(p)'
    BY <1>1, <1>2, SaveEffect DEF CallerInv, OwedAt
  <2>4. TotalAt(p)' /\ PrevAt(p)'
    BY SaveEffect DEF TotalAt, PrevAt, Refreshing
  <2>5. DueAt(p)'
    <3>1. ASSUME task[p] \in {"hook", "stale"},
                 NEW v \in (Range(todo[p]) \cap accounts) \ missed'[p]
          PROVE  Due(v, submits[v])'
      <4>1. v # user[p] /\ v \in Users /\ v \notin missed[p]
        BY <1>2, <3>1, SaveDisturbs DEF TypeOK
      <4>2. state'[v] = state[v]
        BY <4>1, SaveEffect
      <4>3. Due(v, submits[v])
        BY <1>2, <3>1, <4>1 DEF CallerInv, DueAt
      <4>4. QED BY <1>1, <4>2, <4>3 DEF Due
    <3>2. place'[p] = "next"
      BY SaveEffect
    <3>3. QED BY <1>1, <3>1, <3>2 DEF DueAt
  <2>6. QED BY <2>2, <2>3, <2>4, <2>5 DEF CallerInv
<1>6. ASSUME NEW q \in Callers \ {p} PROVE CallerInv(q)'
  <2>1. CallerInv(q) /\ place'[q] = place[q] /\ call'[q] = call[q]
        /\ reply'[q] = reply[q] /\ log'[q] = log[q] /\ errors'[q] = errors[q]
    BY SaveEffect DEF Inv, CallersInv, CallsKeep
  <2>2. CallAt(q)' /\ PlaceAt(q)' /\ OwedAt(q)' /\ TotalAt(q)'
    BY <1>1, <2>1 DEF CallerInv, CallAt, PlaceAt, OwedAt, TotalAt
  <2>3. PrevAt(q)'
    <3>1. SUFFICES ASSUME place[q] \in Refreshing, user[q] \in accounts,
                          ~behind'[q]
                   PROVE  /\ prev[q] = state'[user[q]]
                          /\ place[q] = "calling" /\ prev[q] # NoState =>
                                total[q] >= prev[q].count
      BY <1>1, <2>1 DEF PrevAt
    <3>2. ~behind[q] /\ user[q] # user[p] /\ user[q] \in Users
      BY <1>2, <3>1, SaveDisturbs DEF TypeOK
    <3>3. state'[user[q]] = state[user[q]]
      BY <3>2, SaveEffect
    <3>4. QED BY <2>1, <3>1, <3>2, <3>3 DEF CallerInv, PrevAt
  <2>4. DueAt(q)'
    <3>1. ASSUME NEW v \in accounts \ missed'[q],
                 v \in Range(todo[q]) \/ v = user[q]
          PROVE  v \notin missed[q] /\ state'[v] = state[v]
      <4>1. v # user[p] /\ v \in Users /\ v \notin missed[q]
        BY <1>2, <3>1, SaveDisturbs DEF TypeOK
      <4>2. QED BY <4>1, SaveEffect
    <3>2. QED BY <1>1, <2>1, <3>1 DEF CallerInv, DueAt, Due
  <2>5. QED BY <2>2, <2>3, <2>4 DEF CallerInv
<1>7. QED BY <1>3, <1>4, <1>5, <1>6 DEF Inv, CallersInv

-----------------------------------------------------------------------------
(* The theorems.                                                           *)

\* Nothing happens when nothing changes.
LEMMA Stutter == Inv /\ UNCHANGED vars => Inv'
<1> SUFFICES ASSUME Inv, UNCHANGED vars PROVE Inv'
  OBVIOUS
<1> USE DEF vars, callVars, rowVars, locals, history
<1>1. TypeOK'
  BY DEF Inv, TypeOK, CallTypeOK
<1>2. RowInv'
  BY DEF Inv, RowInv
<1>3. ASSUME NEW q \in Callers PROVE CallerInv(q)'
  BY DEF Inv, CallersInv, CallerInv, CallAt, PlaceAt, OwedAt, TotalAt,
         PrevAt, DueAt, Due
<1>4. QED BY <1>1, <1>2, <1>3 DEF Inv, CallersInv

\* The invariant is inductive.
LEMMA InductiveStep == Inv /\ [Next]_vars => Inv'
<1> SUFFICES ASSUME Inv, Next PROVE Inv'
  BY Stutter
<1>1. ASSUME NEW u \in Users, Submit(u) \/ DeleteAccount(u) PROVE Inv'
  BY <1>1, SubmitStep, DeleteAccountStep
<1>2. ASSUME NEW p \in Callers, Start(p) PROVE Inv'
  BY <1>2, StartHookStep, StartSingleStep, StartBatchStep, RejectPageStep,
     SendPageStep DEF Start
<1>3. ASSUME NEW p \in Callers,
             \/ CheckGate(p) \/ FetchUsers(p) \/ NextUser(p)
             \/ ReadPrev(p) \/ GatherAndSend(p) \/ Calling(p)
             \/ SaveState(p) \/ RefreshFails(p) \/ RefreshRaises(p)
             \/ AnswerPage(p)
      PROVE  Inv'
  BY <1>3, CheckGateStep, FetchUsersStep, NextUserStep, ReadPrevStep,
     GatherAndSendStep, CallingStep, SaveStateStep, RefreshFailsStep,
     RefreshRaisesStep, AnswerPageStep
<1>4. QED BY <1>1, <1>2, <1>3 DEF Next

\* The invariant that the properties below are read from.
THEOREM Invariance == Spec => []Inv
BY Initially, InductiveStep, PTL DEF Spec

\* The variables keep their types for any number of callers and users.
THEOREM TypeCorrect == Spec => []TypeOK
BY Invariance, PTL DEF Inv

\* Whatever the AI server does to a call, the page, the log and the error
\* rows agree about it.
THEOREM LogsAreTrue == Spec => []LogTellsTheTruth
<1>1. Inv => LogTellsTheTruth
  <2> SUFFICES ASSUME Inv, NEW p \in Callers
               PROVE  /\ CallLogged(p)
                      /\ answer[p] = 200 =>
                            log[p] \in {"success", "empty"} /\ errors[p] = 0
                      /\ answer[p] = 502 =>
                            log[p] \in {"failed", "timeout"} /\ errors[p] = 1
                      /\ answer[p] \in {400, 403, 404} => log[p] = "none"
    BY DEF LogTellsTheTruth
  <2>1. CallAt(p) /\ PlaceAt(p) /\ call[p] \in CallPlaces
    BY DEF Inv, CallersInv, CallerInv, TypeOK, CallTypeOK
  <2>2. StatusOf(reply[p]) \in {"success", "empty", "failed", "timeout"}
    BY DEF StatusOf
  <2>3. CallLogged(p)
    BY <2>1, <2>2
       DEF CallAt, CallLogged, CallPlaces, InCall, LogsFirst, LogsLast,
           Answered
  <2>4. QED BY <2>1, <2>2, <2>3 DEF CallAt, PlaceAt, Answered
<1>2. QED BY <1>1, Invariance, PTL

\* The counters of a state are the history of its refreshes, unless one of
\* them was saved by a caller that had read an older state.
THEOREM RefreshesAreCounted == Spec => []CountsRefreshes
<1>1. Inv => CountsRefreshes
  BY DEF Inv, RowInv, CountsRefreshes, TypeOK
<1>2. QED BY <1>1, Invariance, PTL

\* A batch that ends by itself has called for every user it fetched.
THEOREM BatchesGoOn == Spec => []BatchGoesOn
<1>1. Inv => BatchGoesOn
  BY DEF Inv, CallersInv, CallerInv, OwedAt, BatchGoesOn
<1>2. QED BY <1>1, Invariance, PTL

\* A save counts no more than there is, and no less than it replaces unless
\* another one came between.
THEOREM StatesNeverAge == Spec => NeverOlder
<1>1. Inv /\ [Next]_vars =>
          [\A p \in Callers : SaveState(p) /\ ~behind[p] =>
              LET u == user[p] IN
              /\ state'[u].count <= submits[u]
              /\ state[u] # NoState => state'[u].count >= state[u].count]_vars
  <2> SUFFICES ASSUME Inv, NEW p \in Callers, SaveState(p), ~behind[p]
               PROVE  /\ state'[user[p]].count <= submits[user[p]]
                      /\ state[user[p]] # NoState =>
                            state'[user[p]].count >= state[user[p]].count
    OBVIOUS
  <2>1. /\ CallerInv(p) /\ place[p] = "calling" /\ user[p] \in accounts
        /\ state'[user[p]].count = total[p]
    BY SaveEffect, SavedState
  <2>2. QED BY <2>1 DEF CallerInv, TotalAt, PrevAt, Refreshing
<1>2. QED BY <1>1, Invariance, PTL DEF Spec, NeverOlder

\* A call that was made because a user was due saves a state that is due.
THEOREM CallsPayOff == Spec => CallPaysOff
<1>1. Inv /\ [Next]_vars =>
          [\A p \in Callers :
              /\ SaveState(p) /\ task[p] \in {"hook", "stale"}
              /\ user[p] \notin missed[p] /\ state[user[p]] # NoState
              => state'[user[p]].count >=
                     state[user[p]].count + MinNew]_vars
  <2> SUFFICES ASSUME Inv, NEW p \in Callers, SaveState(p),
                      task[p] \in {"hook", "stale"},
                      user[p] \notin missed[p], state[user[p]] # NoState
               PROVE  state'[user[p]].count >= state[user[p]].count + MinNew
    OBVIOUS
  <2>1. /\ CallerInv(p) /\ place[p] = "calling" /\ user[p] \in accounts
        /\ state'[user[p]].count = total[p]
    BY SaveEffect, SavedState
  <2>2. QED BY <2>1 DEF CallerInv, DueAt, Due
<1>2. QED BY <1>1, Invariance, PTL DEF Spec, CallPaysOff

=============================================================================
