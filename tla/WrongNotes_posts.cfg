\* Two posts about one submission, a review.
SPECIFICATION Spec
CONSTANTS
    Posts = {p1, p2}
    Reviews = {r1}
    NoPost = NoPost
    Blank = Blank
    Letter = Letter
    ChunkMax = 3
    PerQuery = 1
    TopK = 5
    Unit = 2
    Threshold = 1
    WMean = 1
    WMax = 1
    MaxSentence = 5
    MaxStored = 4
CHECK_DEADLOCK FALSE
INVARIANTS
    TypeOK
    OneNote
    Consistent
    IndexOfNote
    RewardsMatch
PROPERTY
    PostsEnd
