SPECIFICATION SearchSpec
CHECK_DEADLOCK FALSE
CONSTANTS
    q1 = q1
    s1 = s1
    o1 = o1
    o2 = o2
    Scans = {q1, s1}
    Searches = {q1}
    Occs = {o1}
    HarnessCount = 1
    Toks = {1, 2}
    FirstTok = 1
    Keys = {1}
    Faults = {}
    Restores = TRUE
    MaxGen = 3
    MaxEdits = 1
    MaxFaults = 0
    HarnessOf <- OneHarness
PROPERTIES
    OnlyFreshAnswers
