SPECIFICATION Spec
CHECK_DEADLOCK FALSE
CONSTANTS
    Occurrences = {1, 2}
    Sources = {1}
    SourceOf <- OneSource
    Contents = {1, 2}
    Sessions <- SomeSessions
    Paths = {"a"}
    MaxScans = 1
    MaxExports = 1
    MaxImports = 1
    MaxResets = 1
    MaxEdits = 1
    MaxAtOnce = 2
INVARIANTS EveryExportImports
