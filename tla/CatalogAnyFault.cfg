SPECIFICATION Spec
CHECK_DEADLOCK FALSE
CONSTANTS
    s1 = s1
    s2 = s2
    o1 = o1
    o2 = o2
    Scans = {s1, s2}
    Occs = {o1}
    HarnessCount = 1
    Toks = {1, 2}
    FirstTok = 1
    Keys = {1}
    Faults = {"error", "lost", "kill", "drop"}
    Restores = TRUE
    MaxGen = 3
    MaxEdits = 0
    MaxFaults = 1
    HarnessOf <- OneHarness
PROPERTIES
    ServedRows
    
