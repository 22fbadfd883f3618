\* FR-GAME-001, with one request and one change of the password.
SPECIFICATION Spec
CONSTANTS
    Requests = {r1, r2}
    Changes = {c1}
    Events = {solve1}
    Missions = {daily}
    Triggered <- MCTriggered
    Target <- MCTarget
    Reward <- MCReward
    NoKey = NoKey
    NoMission = NoMission
    solve1 = solve1
    solve2 = solve2
    review = review
    daily = daily
INVARIANTS
    PointsArePaid
