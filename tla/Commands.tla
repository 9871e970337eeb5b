------------------------------ MODULE Commands ------------------------------
(***************************************************************************)
(* The parts of the program that share no state with each other, one of    *)
(* them in each behaviour: which is the command that the root was given     *)
(* (internal/cli/root.go).  A behaviour has ten variables, and they are     *)
(* those of the module of its part.                                        *)
(***************************************************************************)
EXTENDS Integers, Sequences

CONSTANTS
    Processes,   \* processes that run the same command at the same time
    Occurrences, Sources, SourceOf, ParentOf,
    Payloads, Observable, Paths, \* of StateTransfer: its Contents and Sessions
    Readable,    \* the transcripts of RecordRelations
    Registered, Known, \* the harnesses and the IDs of Selection
    Rollouts,    \* the sessions of Presence
    Bounds       \* of each part, the bounds of its module

VARIABLES part, a, b, c, d, e, f, g, h, i, j
vars == <<part, a, b, c, d, e, f, g, h, i, j>>

State == INSTANCE StateTransfer
    WITH schema <- a, tables <- b, scan <- c, export <- d, import <- e,
         file <- f, kept <- g, streams <- h, count <- i,
         Contents <- Payloads, Sessions <- Observable,
         MaxScans <- Bounds.state.scans, MaxExports <- Bounds.state.exports,
         MaxImports <- Bounds.state.imports, MaxResets <- Bounds.state.resets,
         MaxEdits <- Bounds.state.edits, MaxAtOnce <- Bounds.state.atOnce
Maintenance == INSTANCE CatalogInit
    WITH server <- a, catalog <- b, init <- c, lock <- d, doctor <- e,
         Inits <- Processes
Listing == INSTANCE ListingCache
    WITH harness <- a, container <- b, file <- c, proc <- d, listings <- e,
         newest <- f,
         MaxVersions <- Bounds.list.versions, MaxListings <- Bounds.list.listings
Reading == INSTANCE SessionReading
    WITH harness <- a, transcript <- b, beside <- c, scan <- d, checkpoint <- e,
         past <- f, changes <- g, scans <- h,
         MaxLength <- Bounds.scan.length, MaxChanges <- Bounds.scan.changes,
         MaxScans <- Bounds.scan.scans
Relations == INSTANCE RecordRelations
    WITH harness <- a, transcript <- b, at <- c, calls <- d, results <- e,
         pairs <- f, replies <- g, Transcripts <- Readable
Selecting == INSTANCE Selection
    WITH sessions <- a, list <- b, printed <- c, show <- d, changes <- e,
         Harnesses <- Registered, Ids <- Known,
         MinDigits <- Bounds.show.digits, MaxChanges <- Bounds.show.changes
Completion == INSTANCE Install
    WITH shell <- a, profile <- b, script <- c, run <- d, backup <- e, safe <- f,
         hole <- g, lost <- h, edits <- i, runs <- j,
         Installs <- Processes, Shells <- {0, 1, 2},
         MaxEdits <- Bounds.completion.edits, MaxRuns <- Bounds.completion.runs
Current == INSTANCE Presence
    WITH provider <- a, time <- b, process <- c, registry <- d, listed <- e,
         probe <- f, held <- g, changes <- h,
         Sessions <- Rollouts, PerSecond <- Bounds.current.perSecond,
         MaxTime <- Bounds.current.time, MaxChanges <- Bounds.current.changes

ASSUME CommandsAssumption ==
    /\ State!ConstantsOK /\ Listing!ConstantsOK /\ Maintenance!ConstantsOK
    /\ Current!ConstantsOK /\ Relations!ConstantsOK /\ Selecting!ConstantsOK
    /\ Reading!ConstantsOK /\ Completion!ConstantsOK

Init ==
    \/ part = "state" /\ State!Init /\ j = 0
    \/ part = "init" /\ Maintenance!Init /\ f = 0 /\ g = 0 /\ h = 0 /\ i = 0 /\ j = 0
    \/ part = "list" /\ Listing!Init /\ g = 0 /\ h = 0 /\ i = 0 /\ j = 0
    \/ part = "scan" /\ Reading!Init /\ i = 0 /\ j = 0
    \/ part = "read" /\ Relations!Init /\ h = 0 /\ i = 0 /\ j = 0
    \/ part = "show" /\ Selecting!Init /\ f = 0 /\ g = 0 /\ h = 0 /\ i = 0 /\ j = 0
    \/ part = "completion" /\ Completion!Init
    \/ part = "list --current" /\ Current!Init /\ i = 0 /\ j = 0

RunState == part = "state" /\ State!Next /\ UNCHANGED j
RunInit == part = "init" /\ Maintenance!Next /\ UNCHANGED <<f, g, h, i, j>>
RunList == part = "list" /\ Listing!Next /\ UNCHANGED <<g, h, i, j>>
RunScan == part = "scan" /\ Reading!Next /\ UNCHANGED <<i, j>>
RunRead == part = "read" /\ Relations!Next /\ UNCHANGED <<h, i, j>>
RunShow == part = "show" /\ Selecting!Next /\ UNCHANGED <<f, g, h, i, j>>
RunCompletion == part = "completion" /\ Completion!Next
RunCurrent == part = "list --current" /\ Current!Next /\ UNCHANGED <<i, j>>

Next ==
    /\ RunState \/ RunInit \/ RunList \/ RunScan \/ RunRead \/ RunShow
       \/ RunCompletion \/ RunCurrent
    /\ UNCHANGED part

Spec == Init /\ [][Next]_vars

-----------------------------------------------------------------------------
\* The variables have the types of the part that runs.
CommandsTypeOK ==
    /\ part = "state" => State!TypeOK
    /\ part = "init" => Maintenance!TypeOK
    /\ part = "list" => Listing!TypeOK
    /\ part = "scan" => Reading!TypeOK
    /\ part = "read" => Relations!TypeOK
    /\ part = "show" => Selecting!TypeOK
    /\ part = "completion" => Completion!TypeOK
    /\ part = "list --current" => Current!TypeOK

\* What an import restores was written as one stream, by an export or by who
\* sealed it, and never in part; alone, it is what the catalog then holds.
RestoresOneStream == part = "state" => State!RestoresOneStream
\* An import nobody interferes with never fails in its transaction: validation
\* is as strict as the constraints of the tables.
ValidatedImports == part = "state" => State!ValidatedImports
\* An export during which nothing was retained can be imported, whatever killed
\* scans left behind.
QuietExportsImport == part = "state" => State!QuietExportsImport
\* A stream that was reported is left alone by every other export.
ReportedStreamsKept == part = "state" => State!ReportedStreamsKept
\* Two catalog inits at a time do not fail of each other in the schema, and if
\* their extensions collide these are there.
InitsAgree == part = "init" => Maintenance!InitsAgree
\* A listing shows no session older than it was when the listing began, whether
\* it was read or came from the cache, and whoever filled the cache; except what
\* Claude's adapter finds in the cache for a transcript that is gone.
ListingNotOlder == part = "list" => Listing!ListingNotOlder
\* A parent hint resolved by path names the transcript of the same listing.
HintsNameListed == part = "list" => Listing!HintsNameListed
\* After a flush the cache file has exactly what was listed, unless another
\* process wrote it since it was read.
FlushedHoldsListed == part = "list" => Listing!FlushedHoldsListed
\* A scan reuses a retained session only while its records and its tail are
\* those of the listed containers.
ReusedIsCurrent == part = "scan" => Reading!ReusedIsCurrent
\* So are its title and dates (Codex and OMP).
DatesCurrent == part = "scan" => Reading!DatesCurrent
\* Retained records and what is retained from beside them were there together.
RetainedTogether == part = "scan" => Reading!RetainedTogether
\* Calls are paired with results, and replies with parents, exactly where the
\* whole transcript leaves no doubt, in whatever order they come.
RelationsExact == part = "read" => Relations!RelationsExact
\* A printed session ID, used later, selects its session or is reported as
\* ambiguous because of one that was not listed.
PrintedIdsSelect == part = "show" => Selecting!PrintedIdsSelect
\* Installs that fail or are killed leave the lines of the user in the profile
\* or beside it.
ProfileKept == part = "completion" => Completion!ProfileKept
\* A session claimed of a process was its own, although PIDs are reused.
ClaimsAreOwn == part = "list --current" => Current!ClaimsAreOwn
=============================================================================
