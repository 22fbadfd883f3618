\* Two submissions to one problem.
SPECIFICATION Spec
CONSTANTS
    Subs = {s1, s2}
    MaxFix = 1
    NoSub = NoSub
CHECK_DEADLOCK FALSE
INVARIANTS
    TypeOK
    OneGenerator
    SavedOnce
    
PROPERTIES
    JobIsQueued
