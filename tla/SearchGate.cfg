SPECIFICATION SearchSpec
CHECK_DEADLOCK FALSE
CONSTANTS
    q1 = q1
    s1 = s1
    o1 = o1
    o2 = o2
    Scans = {q1, s1}
    Searches = {q1}
    Occs = {o1, o2}
    HarnessCount = 2
    Toks = {1, 2}
    FirstTok = 1
    Keys = {1}
    Faults = {"kill"}
    Restores = TRUE
    MaxGen = 3
    MaxEdits = 1
    MaxFaults = 1
    HarnessOf <- TwoHarnesses
INVARIANTS
    SearchTypeOK
PROPERTIES
    FreshAnswer
    CatchUpWithin
    RefreshOnlyWhenBehind
