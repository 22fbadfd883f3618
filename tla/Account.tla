------------------------------ MODULE Account -------------------------------
(***************************************************************************)
(* What a user's account promises, whoever writes its row: a reward is     *)
(* paid at most once and adds exactly its points; nothing else adds any;   *)
(* and the avatar is one the user's rewards have paid for.  An old copy of *)
(* the row can be put back, but never more than what was earned.           *)
(***************************************************************************)
EXTENDS Naturals

CONSTANTS
    Keys,          \* what can be rewarded
    Reward,        \* the points a reward adds
    RequiredPoint  \* the points an avatar needs

VARIABLES
    paid,     \* the rewards that were paid
    earned,   \* the points of all of them
    balance,  \* the points of the user
    avatar    \* the avatar the user has selected

vars == <<paid, earned, balance, avatar>>

Init == paid = {} /\ earned = 0 /\ balance = 0 /\ avatar = 1

Pay(k) ==
    /\ k \notin paid
    /\ paid' = paid \cup {k}
    /\ earned' = earned + Reward[k]
    /\ balance' = balance + Reward[k]
    /\ UNCHANGED avatar

Wear(a) ==
    /\ RequiredPoint[a] <= earned
    /\ avatar' = a
    /\ UNCHANGED <<paid, earned, balance>>

PutBack(a) ==
    /\ RequiredPoint[a] <= earned
    /\ avatar' = a
    /\ balance' \in 0 .. earned
    /\ UNCHANGED <<paid, earned>>

Next ==
    \/ \E k \in Keys : Pay(k)
    \/ \E a \in 1 .. 7 : Wear(a) \/ PutBack(a)

Spec == Init /\ [][Next]_vars
=============================================================================
