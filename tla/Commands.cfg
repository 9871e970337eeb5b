SPECIFICATION Spec
CHECK_DEADLOCK FALSE
CONSTANTS
    proc1 = proc1
    proc2 = proc2
    Processes = {proc1, proc2}
    Occurrences = {1, 2}
    Sources = {1}
    SourceOf <- OneSource
    ParentOf <- Chain
    Payloads = {1, 2}
    Observable <- SomeRevisions
    Paths = {"a"}
    Readable <- SomeTranscripts
    Registered = {1, 2}
    Known <- SomeIds
    Rollouts <- TwoOccurrences
    Bounds <- Small
SYMMETRY AnyOrder
INVARIANTS
    CommandsTypeOK
    RestoresOneStream
    
    
    ReportedStreamsKept
    
    ListingNotOlder
    HintsNameListed
    FlushedHoldsListed
    ReusedIsCurrent
    DatesCurrent
    RetainedTogether
    RelationsExact
    PrintedIdsSelect
    ProfileKept
    ClaimsAreOwn
