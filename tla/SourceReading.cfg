SPECIFICATION SourceSpec
CHECK_DEADLOCK FALSE
CONSTANTS
    Symbols = {1, 2}
    Newline = 0
    Values <- SomeValues
    MaxBytes = 2
    Starts <- SomeStarts
    Blocks <- SomeBlocks
    Archives <- SomeArchives
    Inodes = {1, 2}
    Modes = {"growing", "final"}
    MaxSize = 4
    MaxWrites = 3
    MaxOpens = 3
INVARIANTS
    SourceTypeOK
    PlainReadsOneVersion
    PlainReadToTheEnd
    PlainAppendsFollowed
    DecodedReadsOneVersion
    DecodedEndIsVerified
PROPERTIES
    RefusedOnlyAfterFinalTail
