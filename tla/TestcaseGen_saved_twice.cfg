\* FR-EXEC-004 on the generation of test cases.
SPECIFICATION Spec
CONSTANTS
    Subs = {s1, s2}
    MaxFix = 1
    NoSub = NoSub
CHECK_DEADLOCK FALSE
INVARIANTS
    NeverSavedTwice
