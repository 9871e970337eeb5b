--------------------------- MODULE StateTransfer ---------------------------
(***************************************************************************)
(* Moving retained evidence out of a catalog and into another              *)
(* (internal/catalog/state.go, internal/cli/catalogstate.go).              *)
(*                                                                         *)
(* None of these commands takes the lease of the writer, so a scan may     *)
(* retain evidence between any two of their statements.  A stream has the  *)
(* tables of the catalog it was read from; a checksum is the lines it is   *)
(* the checksum of.                                                        *)
(***************************************************************************)
EXTENDS Integers, FiniteSets

CONSTANTS
    Occurrences,  \* observed instances of sources
    Sources,
    SourceOf,     \* the source of each occurrence
    Contents,     \* what a snapshot may hold
    Sessions,     \* what the harness may hold: the revisions a scan may read
    Paths,        \* where a stream may be written
    MaxScans, MaxExports, MaxImports, MaxResets, MaxEdits, \* bounds
    MaxAtOnce     \* bound of the commands that run at the same time

ConstantsOK ==
    /\ SourceOf \in [Occurrences -> Sources]
    /\ 0 \notin Contents /\ Paths # {}
    /\ Sessions \subseteq [occurrence : Occurrences, snapshot : Contents,
                           external : Contents \cup {0}]

VARIABLES
    schema,  \* the revision the schema carries, or "absent"
    tables,  \* the retained tables
    scan,    \* the scan command: the statement it is at, and its locals
    export,  \* the export command
    import,  \* the import command
    file,    \* what is at each path
    kept,    \* history: the stream an export reported at a path
    streams, \* history: the tables an export, or who sealed one, put in a stream
    count    \* how often each command has run

vars == <<schema, tables, scan, export, import, file, kept, streams, count>>

-----------------------------------------------------------------------------
\* Retained rows.  An identity is visible or tombstoned; a revision is named by
\* its hash, thus by what is hashed; a checkpoint names a revision, and with it
\* the snapshot.  A blob is intact when it restores to what its hash names.
Sighting == {"visible", "gone"}
Blobs == [content : Contents, intact : BOOLEAN]
Revisions == Sessions
Partial(S, T) == UNION {[D -> T] : D \in SUBSET S}
Tables == [source : Partial(Sources, Sighting),
           occurrence : Partial(Occurrences, Sighting),
           blob : SUBSET Blobs,
           revision : SUBSET Revisions,
           checkpoint : Partial(Occurrences, Revisions)]

None == [x \in {} |-> "gone"]
Empty == [source |-> None, occurrence |-> None, blob |-> {}, revision |-> {},
          checkpoint |-> None]
TableOrder == <<"source", "occurrence", "blob", "revision", "checkpoint">>

Set(f, x, y) == [z \in DOMAIN f \cup {x} |-> IF z = x THEN y ELSE f[z]]
Retained(blobs) == {b.content : b \in blobs}

\* The foreign keys of the retained tables.
References(t) ==
    /\ \A o \in DOMAIN t.occurrence : SourceOf[o] \in DOMAIN t.source
    /\ \A r \in t.revision :
          /\ r.occurrence \in DOMAIN t.occurrence
          /\ r.snapshot \in Retained(t.blob)
          /\ r.external \in Retained(t.blob) \cup {0}
    /\ \A o \in DOMAIN t.checkpoint :
          /\ o \in DOMAIN t.occurrence
          /\ t.checkpoint[o] \in t.revision

\* A stream at a path: its manifest and the records behind it.
NoManifest == [revision |-> "none", checksum |-> Empty, counts |-> <<>>]
CountsOf(t) == <<Cardinality(DOMAIN t.source), Cardinality(DOMAIN t.occurrence),
                 Cardinality(t.blob), Cardinality(t.revision),
                 Cardinality(DOMAIN t.checkpoint)>>
Manifest(t) == [revision |-> "ours", checksum |-> t, counts |-> CountsOf(t)]
Whole(t) == [manifest |-> Manifest(t), body |-> t]
Absent == [manifest |-> NoManifest, body |-> Empty, exists |-> FALSE]
At(stream) == [manifest |-> stream.manifest, body |-> stream.body, exists |-> TRUE]
Blank == [manifest |-> NoManifest, body |-> Empty]

TypeOK ==
    /\ schema \in {"absent", "ours", "other"}
    /\ tables \in Tables
    /\ scan.at \in {"idle", "sources", "session", "external", "snapshot",
                    "revision", "checkpoint", "occurrences gone", "sources gone"}
    /\ scan.todo \subseteq Occurrences /\ scan.listed \subseteq Occurrences
    /\ export.at \in 0 .. 7 /\ export.path \in Paths /\ export.quiet \in BOOLEAN
    /\ export.got \in Tables
    /\ import.at \in 0 .. 8 /\ import.stream \in Tables /\ import.alone \in BOOLEAN
    /\ import.outcome \in {"none", "refused", "constraint", "restored"}
    /\ \A p \in Paths : file[p].body \in Tables /\ kept[p].stream \in Tables
    /\ streams \subseteq Tables

IdleScan == [at |-> "idle", listed |-> {}, todo |-> {}, rev |-> 0]
IdleExport == [at |-> 0, path |-> CHOOSE p \in Paths : TRUE, got |-> Empty,
               quiet |-> TRUE]
IdleImport == [at |-> 0, stream |-> Empty, alone |-> TRUE, outcome |-> "none"]
Init ==
    /\ schema \in {"absent", "ours", "other"}
    /\ tables = Empty
    /\ scan = IdleScan
    /\ export = IdleExport
    /\ import = IdleImport
    /\ file = [p \in Paths |-> Absent]
    /\ kept = [p \in Paths |-> [reported |-> FALSE, quiet |-> FALSE,
                                stream |-> Empty]]
    /\ streams = {}
    /\ count = [scan |-> 0, export |-> 0, import |-> 0, reset |-> 0, edit |-> 0]

Running ==
    Cardinality({c \in {"scan", "export", "import"} :
                    CASE c = "scan" -> scan.at # "idle"
                      [] c = "export" -> export.at # 0
                      [] c = "import" -> import.at # 0})
Begins == Running < MaxAtOnce

Count(command, max) ==
    /\ count[command] < max
    /\ count' = [count EXCEPT ![command] = @ + 1]

\* What the other commands could notice of a committed change.
DisturbExport == export' = [export EXCEPT !.quiet = @ /\ export.at = 0]
DisturbImport ==
    import' = [import EXCEPT !.alone = @ /\ import.at = 0 /\ import.outcome # "restored"]

-----------------------------------------------------------------------------
(* The scan command, as far as it retains evidence: each statement commits *)
(* by itself.                                                              *)

\* A statement that violates a foreign key, or finds no table, fails.
Statement(from, new, then) ==
    /\ scan.at = from
    /\ IF schema = "ours" /\ References(new)
       THEN tables' = new /\ scan' = then /\ DisturbExport /\ DisturbImport
       ELSE scan' = IdleScan /\ UNCHANGED <<tables, export, import>>
    /\ UNCHANGED <<schema, file, kept, streams, count>>

StartScan ==
    /\ scan.at = "idle"
    /\ schema = "ours"
    /\ Begins /\ Count("scan", MaxScans)
    /\ \E listed \in SUBSET Occurrences :
          scan' = [IdleScan EXCEPT !.at = "sources", !.listed = listed,
                                   !.todo = listed]
    /\ UNCHANGED <<schema, tables, export, import, file,
                   kept, streams>>

\* ObserveSource, for the sources of the listing, and ObserveOccurrence clear
\* the tombstone.
SourcesOf(occurrences) == {SourceOf[o] : o \in occurrences}
ObserveSource ==
    LET seen == SourcesOf(scan.listed) IN
    Statement("sources",
              [tables EXCEPT !.source =
                  [s \in DOMAIN @ \cup seen |->
                      IF s \in seen THEN "visible" ELSE @[s]]],
              [scan EXCEPT !.at = "session"])

\* Of an unchanged session nothing else is written that was not there.
ObserveOccurrence ==
    \E r \in Sessions :
       LET o == r.occurrence
           reuse == o \in DOMAIN tables.checkpoint /\ tables.checkpoint[o] = r IN
       /\ o \in scan.todo
       /\ Statement("session",
                    [tables EXCEPT !.occurrence = Set(@, o, "visible")],
                    [scan EXCEPT
                        !.at = IF reuse THEN "session"
                               ELSE IF r.external = 0 THEN "snapshot"
                               ELSE "external",
                        !.todo = @ \ {o}, !.rev = r])

Intact(content) == [content |-> content, intact |-> TRUE]
PutExternal ==
    Statement("external",
              [tables EXCEPT !.blob = @ \cup {Intact(scan.rev.external)}],
              [scan EXCEPT !.at = "snapshot"])
PutSnapshot ==
    Statement("snapshot",
              [tables EXCEPT !.blob = @ \cup {Intact(scan.rev.snapshot)}],
              [scan EXCEPT !.at = "revision"])
PutSessionRevision ==
    Statement("revision",
              [tables EXCEPT !.revision = @ \cup {scan.rev}],
              [scan EXCEPT !.at = "checkpoint"])
PutCheckpoint ==
    Statement("checkpoint",
              [tables EXCEPT !.checkpoint =
                  Set(@, scan.rev.occurrence, scan.rev)],
              [scan EXCEPT !.at = "session"])

EndOfListing ==
    /\ scan.at = "session"
    /\ scan.todo = {}
    /\ scan' = [scan EXCEPT !.at = "occurrences gone"]
    /\ UNCHANGED <<schema, tables, export, import, file,
                   kept, streams, count>>

\* Tombstone: two statements.  An empty list matches nothing, not everything.
Gone(table, seen) ==
    [x \in DOMAIN table |->
        IF seen # {} /\ x \notin seen THEN "gone" ELSE table[x]]
TombstoneOccurrences ==
    Statement("occurrences gone",
              [tables EXCEPT !.occurrence = Gone(@, scan.listed)],
              [scan EXCEPT !.at = "sources gone"])
TombstoneSources ==
    Statement("sources gone",
              [tables EXCEPT !.source = Gone(@, SourcesOf(scan.listed))],
              IdleScan)

\* A scan is killed, or a statement fails; a partial scan absorbs the failure
\* of a session and takes the next.
ScanFails ==
    /\ scan.at # "idle"
    /\ \/ scan' = IdleScan
       \/ /\ scan.at \in {"external", "snapshot", "revision", "checkpoint"}
          /\ scan' = [scan EXCEPT !.at = "session"]
    /\ UNCHANGED <<schema, tables, export, import, file,
                   kept, streams, count>>

Scan == \/ StartScan \/ ObserveSource \/ ObserveOccurrence
        \/ PutExternal \/ PutSnapshot \/ PutSessionRevision \/ PutCheckpoint
        \/ EndOfListing \/ TombstoneOccurrences \/ TombstoneSources \/ ScanFails

-----------------------------------------------------------------------------
(* catalog state export.  Step 1 is the check of the schema, the reads of  *)
(* the five tables are steps 2 to 6, and the writing is step 7.            *)

ExportRest == UNCHANGED <<schema, tables, scan, import>>

\* The file is created, empty, before anything else, and never an existing one.
CreatesAny(path) == TRUE
Creates(path) == ~file[path].exists
CreateStream(path) ==
    /\ export.at = 0
    /\ Begins /\ Count("export", MaxExports)
    /\ Creates(path)
    /\ file' = [file EXCEPT ![path] = At(Blank)]
    /\ export' = [at |-> 1, path |-> path, got |-> Empty, quiet |-> TRUE]
    /\ ExportRest
    /\ UNCHANGED <<kept, streams>>

ExportStatus ==
    /\ export.at = 1
    /\ schema = "ours"
    /\ export' = [export EXCEPT !.at = 2, !.quiet = TRUE]
    /\ ExportRest
    /\ UNCHANGED <<file, kept, streams, count>>

\* readState: one statement, thus one snapshot, for each table.
SnapshotsOnly(t) ==
    [t EXCEPT !.blob = {b \in @ : \E r \in t.revision : r.snapshot = b.content}]
ReadRows(t) == t
ReadState ==
    /\ export.at \in 2 .. 6
    /\ schema = "ours"
    /\ LET table == TableOrder[export.at - 1] IN
       export' = [export EXCEPT !.at = @ + 1,
                                !.got[table] = ReadRows(tables)[table]]
    /\ ExportRest
    /\ UNCHANGED <<file, kept, streams, count>>

\* Some of the buffer reaches the file before the rest does.
Cut(t, n) == [table \in DOMAIN t |->
                 IF \E i \in 1 .. n : TableOrder[i] = table THEN t[table]
                 ELSE Empty[table]]
WritePart ==
    /\ export.at = 7
    /\ file[export.path] = At(Blank)
    /\ streams' = streams \cup {export.got}
    /\ \E n \in {0, 3} :
             file' = [file EXCEPT ![export.path] =
                         At([manifest |-> Manifest(export.got),
                             body |-> Cut(export.got, n)])]
    /\ ExportRest
    /\ UNCHANGED <<export, kept, count>>
WriteRest ==
    /\ export.at = 7
    /\ file' = [file EXCEPT ![export.path] = At(Whole(export.got))]
    /\ kept' = [kept EXCEPT ![export.path] =
                   [reported |-> TRUE, quiet |-> export.quiet,
                    stream |-> export.got]]
    /\ streams' = streams \cup {export.got}
    /\ export' = IdleExport
    /\ ExportRest
    /\ UNCHANGED count

\* An error or a kill leaves the file as it is.
ExportFails ==
    /\ export.at # 0
    /\ export' = IdleExport
    /\ ExportRest
    /\ UNCHANGED <<file, kept, streams, count>>

Export == \/ \E path \in Paths : CreateStream(path)
          \/ ExportStatus \/ ReadState \/ WritePart \/ WriteRest \/ ExportFails

-----------------------------------------------------------------------------
(* catalog state import.  Step 1 is the check of the schema, step 2 reads  *)
(* and validates the stream, steps 3 to 7 look at the five tables and step *)
(* 8 writes.                                                               *)

ImportRest == UNCHANGED <<schema, scan, file, kept, streams>>
ImportEnds(outcome) ==
    /\ import' = [IdleImport EXCEPT !.alone = import.alone, !.outcome = outcome]
    /\ UNCHANGED <<tables, export>>

StartImport ==
    /\ import.at = 0
    /\ Begins /\ Count("import", MaxImports)
    /\ import' = [IdleImport EXCEPT !.at = 1]
    /\ UNCHANGED <<tables, export>>
    /\ ImportRest

ImportStatus ==
    /\ import.at = 1
    /\ IF schema = "ours"
       THEN import' = [import EXCEPT !.at = 2] /\ UNCHANGED <<tables, export>>
       ELSE ImportEnds("refused")
    /\ ImportRest
    /\ UNCHANGED count

\* validateState, with the integrity of every blob.
ValidSnapshots(t) ==
    /\ \A b \in t.blob : b.intact
    /\ References([t EXCEPT !.revision =
                      {[r EXCEPT !.external = 0] : r \in @},
                   !.checkpoint = None])
Valid(t) ==
    /\ \A b \in t.blob : b.intact
    /\ References(t)

\* decodeState: the manifest, the checksum, the counts and the references.
SameCounts(stream) == stream.manifest.counts = CountsOf(stream.body)
SameLines(stream) ==
    /\ stream.manifest.checksum = stream.body
    /\ stream.manifest.counts = CountsOf(stream.body)
Accepts(stream) ==
    /\ stream.manifest.revision = "ours"
    /\ SameLines(stream)
    /\ Valid(stream.body)

DecodeState(path) ==
    /\ import.at = 2
    /\ file[path].exists
    /\ IF Accepts(file[path])
       THEN /\ import' = [import EXCEPT !.at = 3, !.stream = file[path].body,
                                        !.alone = TRUE]
            /\ UNCHANGED <<tables, export>>
       ELSE ImportEnds("refused")
    /\ ImportRest
    /\ UNCHANGED count

\* requireEmptyState: one statement for each table.
RequireEmpty ==
    /\ import.at \in 3 .. 7
    /\ LET table == TableOrder[import.at - 2] IN
       IF schema # "ours" THEN ImportEnds("refused")
       ELSE IF tables[table] # Empty[table] THEN ImportEnds("refused")
       ELSE import' = [import EXCEPT !.at = @ + 1] /\ UNCHANGED <<tables, export>>
    /\ ImportRest
    /\ UNCHANGED count

\* writeState: one transaction, which a row with the same key ends.
Keys(t) == <<DOMAIN t.source, DOMAIN t.occurrence, Retained(t.blob), t.revision,
             DOMAIN t.checkpoint>>
Conflicts(t) == \E i \in 1 .. 5 : Keys(t)[i] \cap Keys(tables)[i] # {}
Join(f, g) == [x \in DOMAIN f \cup DOMAIN g |->
                  IF x \in DOMAIN f THEN f[x] ELSE g[x]]
Merged(t) ==
    [source |-> Join(t.source, tables.source),
     occurrence |-> Join(t.occurrence, tables.occurrence),
     blob |-> t.blob \cup tables.blob,
     revision |-> t.revision \cup tables.revision,
     checkpoint |-> Join(t.checkpoint, tables.checkpoint)]
WriteState ==
    /\ import.at = 8
    /\ IF schema # "ours" THEN ImportEnds("refused")
       ELSE IF Conflicts(import.stream) \/ ~References(Merged(import.stream))
       THEN ImportEnds("constraint")
       ELSE /\ tables' = Merged(import.stream)
            /\ import' = [import EXCEPT !.at = 0, !.outcome = "restored"]
            /\ DisturbExport
    /\ ImportRest
    /\ UNCHANGED count

ImportFails ==
    /\ import.at # 0
    /\ ImportEnds("refused")
    /\ ImportRest
    /\ UNCHANGED count

Import == \/ StartImport \/ ImportStatus \/ RequireEmpty \/ WriteState
          \/ ImportFails
          \/ \E path \in Paths : DecodeState(path)

-----------------------------------------------------------------------------
(* The user: drops the schema and runs catalog init, and edits a stream,   *)
(* with or without sealing it with a new checksum and new counts.          *)

ResetCatalog ==
    /\ Running = 0 /\ Count("reset", MaxResets)
    /\ schema' = "ours"
    /\ tables' = Empty
    /\ DisturbExport /\ DisturbImport
    /\ UNCHANGED <<scan, file, kept, streams>>

Without(f, x) == [y \in DOMAIN f \ {x} |-> f[y]]
Edits(t) ==
    {[t EXCEPT !.source = Without(@, s)] : s \in DOMAIN t.source} \cup
    {[t EXCEPT !.occurrence[o] = "gone"] : o \in DOMAIN t.occurrence} \cup
    {[t EXCEPT !.blob = @ \ {b}] : b \in t.blob} \cup
    {[t EXCEPT !.blob = (@ \ {b}) \cup {[b EXCEPT !.intact = FALSE]}] :
        b \in t.blob} \cup
    {[t EXCEPT !.revision = @ \ {r}] : r \in t.revision}
EditStream(path) ==
    /\ file[path].exists
    /\ Running = 0 /\ Count("edit", MaxEdits)
    /\ \E body \in Edits(file[path].body) :
          \/ /\ file' = [file EXCEPT ![path].body = body]
             /\ UNCHANGED streams
          \/ /\ file' = [file EXCEPT ![path] = At(Whole(body))]
             /\ streams' = streams \cup {body}
    /\ kept' = [kept EXCEPT ![path].reported = FALSE]
    /\ UNCHANGED <<schema, tables, scan, export, import>>

User == ResetCatalog \/ \E path \in Paths : EditStream(path)

Next == Scan \/ Export \/ Import \/ User

Spec == Init /\ [][Next]_vars

-----------------------------------------------------------------------------
\* What an import restores was written as one stream, by an export or by who
\* sealed it: never a part of one, or one whose records were changed.  Alone,
\* it is what the catalog then holds.
RestoresOneStream ==
    import.outcome = "restored" =>
        /\ import.stream \in streams
        /\ import.alone => tables = import.stream

\* The validation of a stream is as strict as the constraints of the tables: an
\* import that nobody interferes with never fails in its transaction.
ValidatedImports == import.outcome = "constraint" => ~import.alone

\* An export during which nothing was retained can be imported, whatever scans
\* left behind when they were killed.
QuietExportsImport ==
    \A p \in Paths : kept[p].reported /\ kept[p].quiet => Accepts(file[p])

\* A stream that was reported is what is found at its path: no other export,
\* running or failing, touches it.
ReportedStreamsKept ==
    \A p \in Paths : kept[p].reported => file[p] = At(Whole(kept[p].stream))

\* An export beside a scan can be imported too.
EveryExportImports == \A p \in Paths : kept[p].reported => Accepts(file[p])
=============================================================================
