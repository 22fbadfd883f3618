------------------------------ MODULE MCRewards -----------------------------
(* Instances of Rewards for TLC: two solved problems, a mission to solve   *)
(* two, and a review, which no mission counts.                             *)
EXTENDS Rewards, TLC

CONSTANTS solve1, solve2, review, daily

MCTriggered == [e \in Events |-> IF e = review THEN {} ELSE {daily}]
MCTarget == [m \in Missions |-> 2]
MCReward ==
    [k \in Keys |-> IF k = daily THEN 30 ELSE IF k = review THEN 10 ELSE 20]

=============================================================================
