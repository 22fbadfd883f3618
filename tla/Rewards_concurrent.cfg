\* Two requests, three actions, one request of the account pages.
SPECIFICATION Spec
CONSTANTS
    Requests = {r1, r2}
    Changes = {c1}
    Events = {solve1, solve2, review}
    Missions = {daily}
    Triggered <- MCTriggered
    Target <- MCTarget
    Reward <- MCReward
    NoKey = NoKey
    NoMission = NoMission
    solve1 = solve1
    solve2 = solve2
    review = review
    daily = daily
INVARIANTS
    TypeOK
    PointsMatchLog
    LevelFollowsPoints
    MissionRewardEarned
    MissionsAreServed
PROPERTIES
    ImplementsAccount
    RequestsEnd
