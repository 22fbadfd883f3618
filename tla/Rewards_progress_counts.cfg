\* FR-GAME-004, with two requests that nothing disturbs.
SPECIFICATION UndisturbedSpec
CONSTANTS
    Requests = {r1, r2}
    Changes = {}
    Events = {solve1, solve2}
    Missions = {daily}
    Triggered <- MCTriggered
    Target <- MCTarget
    Reward <- MCReward
    NoKey = NoKey
    NoMission = NoMission
    solve1 = solve1
    solve2 = solve2
    review = review
    daily = daily
INVARIANTS
    ProgressCounts
