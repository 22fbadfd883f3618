------------------------------- MODULE Points -------------------------------
(* The tables of django/accounts/models.py: what a number of points is     *)
(* worth, and the sum of what a set of rewards pays.                       *)
EXTENDS Naturals, FiniteSets

\* LEVEL_CATALOG and AVATAR_CATALOG: the seven levels, and the seven
\* avatars, begin at the same points.
RequiredPoint == <<0, 50, 100, 200, 350, 500, 800>>

\* Mutant: a level begins one point after its required_point.
LevelOfStrict(p) == Cardinality({l \in 1 .. 7 : RequiredPoint[l] < p})

\* calculate_user_level on LEVEL_CATALOG: the highest level whose
\* required_point is reached.
LevelOf(p) == Cardinality({l \in 1 .. 7 : RequiredPoint[l] <= p})

\* avatar_items: whether an avatar is unlocked with a number of points.
Unlocked(a, p) == p >= RequiredPoint[a]

\* One pair for each point that the rewards of the keys pay.
PointsFor(keys, reward) == UNION {{k} \X (1 .. reward[k]) : k \in keys}

Sum(keys, reward) == Cardinality(PointsFor(keys, reward))
=============================================================================
