---------------------------- MODULE CatalogScan ----------------------------
(***************************************************************************)
(* The scan lifecycle of the search catalog: the generations a scan        *)
(* builds, publishes, fails and reclaims (internal/catalog) and the        *)
(* program that drives them (runScan in internal/cli/scan.go), running as  *)
(* several processes on one PostgreSQL schema while the transcripts on     *)
(* disk change.                                                            *)
(*                                                                         *)
(* One action is one database statement or transaction, as the server      *)
(* executes it, together with the local computation up to the next one.    *)
(* A statement may fail without effect ("error"), commit although the      *)
(* client sees an error ("lost"), the process may be killed between two    *)
(* statements ("kill") and the connection that carries the writer lease    *)
(* may die while the process lives ("drop").  Faults says which of these   *)
(* an instance of the model considers.                                     *)
(***************************************************************************)
EXTENDS Integers, FiniteSets

CONSTANTS
    Scans,        \* processes that run a scan, one or more times
    Occs,         \* source occurrences: one transcript file each
    HarnessCount, \* registered harnesses, numbered in registry order
    HarnessOf,    \* the harness of an occurrence; a harness has one source
    Toks,         \* discovery tokens: size, mtime and header of a transcript
    FirstTok,     \* the token every transcript starts with
    Keys,         \* builder keys: one per set of builder versions in use
    Faults,       \* subset of {"error", "lost", "kill", "drop"}
    Restores,     \* TRUE: an edit may bring back an older token
    MaxGen,       \* bound: generations ever begun
    MaxEdits,     \* bound: changes of the files
    MaxFaults     \* bound: faults of any kind

Harnesses == 1 .. HarnessCount
Gens == 1 .. MaxGen

ASSUME CatalogAssumption ==
    /\ HarnessCount \in Nat
    /\ HarnessOf \in [Occs -> Harnesses]
    /\ Toks \subseteq Nat \ {0}
    /\ FirstTok \in Toks
    /\ Keys # {}
    /\ Faults \subseteq {"error", "lost", "kill", "drop"}
    /\ Restores \in BOOLEAN
    /\ MaxGen \in Nat /\ MaxEdits \in Nat /\ MaxFaults \in Nat

ASSUME NoneAssumption == 0 \notin Scans

VARIABLES
    gen,        \* the generation table
    active,     \* the single row of active_generation; 0 when there is none
    member,     \* generation_member: the derived sessions of a generation
    derived,    \* the derived tables, one element per derived session
    revision,   \* session_revision: retained immutable evidence
    checkpoint, \* scan_checkpoint: the confirmed revision of an occurrence
    track,      \* source_occurrence: unknown, visible or gone (tombstone)
    lease,      \* the process whose connection holds the writer lease, or 0
    ver,        \* the token each transcript has on disk
    here,       \* the transcripts that exist
    broken,     \* the transcripts that cannot be read
    unlisted,   \* the harnesses that cannot be listed
    pc,         \* where each scan is
    cand,       \* the candidate generation of each scan
    run,        \* the other locals of each scan
    stale,      \* scans holding the id of a derived session since deleted
    edits,      \* changes of the files so far
    faults      \* faults so far

store == <<gen, active, member, derived, revision, checkpoint, track>>
disk == <<ver, here, broken, unlisted, edits>>
vars == <<store, lease, disk, pc, cand, run, stale, faults>>

-----------------------------------------------------------------------------
(* The rows.                                                               *)

\* What a revision hash identifies: the occurrence, the discovery token the
\* listing gave and the bytes the read then found.  Each token stands for
\* different bytes.
Revisions == [occ : Occs, tok : Toks, body : Toks]
NoRevision == [occ |-> 0, tok |-> 0, body |-> 0]

\* A derived session is unique per revision and builder key.
Rows == [rev : Revisions, key : Keys]
ASSUME FiniteAssumption == IsFiniteSet(Rows)

States == {"none", "building", "complete", "partial", "failed", "superseded"}
Published == {"complete", "partial"}
Discarded == {"failed", "superseded"}

\* A declared failure: a harness whose source could not be read, or one that
\* could not be listed (its record has an empty source id).
Failures == [kind : {"source", "harness"}, harness : Harnesses]

\* The counts a scan records.  The relation resolution is a property of the set
\* "over" it was computed for, or null when "known" is FALSE.
NoCounts == [sessions |-> -1, known |-> FALSE, over |-> {}]
Counts == [sessions : Int, known : BOOLEAN, over : SUBSET Rows]

GenerationRow(state, parent) ==
    [state |-> state, parent |-> parent, reclaimed |-> FALSE, declared |-> {},
     counts |-> NoCounts]
Generation == [state : States, parent : Gens \cup {0}, reclaimed : BOOLEAN,
               declared : SUBSET Failures, counts : Counts]

\* Which failures a scan may absorb into a partial generation.
Tolerance == [all : BOOLEAN, sources : SUBSET Harnesses,
              harnesses : SUBSET Harnesses]
Strict == [all |-> FALSE, sources |-> {}, harnesses |-> {}]
Partial == [all |-> TRUE, sources |-> {}, harnesses |-> {}]
TolerateDeclared(declared) ==
    [all |-> FALSE,
     sources |-> {f.harness : f \in {d \in declared : d.kind = "source"}},
     harnesses |-> {f.harness : f \in {d \in declared : d.kind = "harness"}}]
ToleratesSource(tol, h) == tol.all \/ h \in tol.sources
ToleratesHarness(tol, h) == tol.all \/ h \in tol.harnesses

\* Slips a change of this code could make, for which the properties are checked
\* to notice them, stand before the definition they vary; their names say what
\* the slip is.
ReclaimFailedOnly == {g \in Gens : gen[g].state = "failed" /\ ~gen[g].reclaimed}
ReclaimSupersededOnly ==
    {g \in Gens : gen[g].state = "superseded" /\ ~gen[g].reclaimed}
Reclaimable == {g \in Gens : gen[g].state \in Discarded /\ ~gen[g].reclaimed}
Unreclaimed == {g \in Gens : /\ gen[g].state # "none"
                             /\ ~gen[g].reclaimed
                             /\ g # active}
OrphansOfCandidates(members) ==
    {d \in derived : \A g \in Gens : gen[g].state = "building" =>
                                         d \notin members[g]}
Orphans(members) == {d \in derived : \A g \in Gens : d \notin members[g]}

-----------------------------------------------------------------------------
(* The locals of a scan.                                                   *)

Steps == {"idle", "sweep", "list", "clean", "settle", "active", "begin",
          "observe", "look", "read", "retain", "write", "present", "confirm",
          "absorb", "count", "index", "publish", "fail", "release"}

Idle == [tol |-> Strict, key |-> CHOOSE k \in Keys : TRUE, phase |-> "before",
         todo |-> {}, base |-> 0, listing |-> [o \in Occs |-> 0],
         work |-> {}, seen |-> {}, rev |-> NoRevision, failures |-> {},
         result |-> "none"]

Locals == [tol : Tolerance, key : Keys,
           phase : {"before", "after", "abandon", "stuck"},
           todo : SUBSET Gens, base : Gens \cup {0},
           listing : [Occs -> Toks \cup {0}],
           work : SUBSET Occs, seen : SUBSET Occs,
           rev : [occ : Occs \cup {0}, tok : Toks \cup {0},
                  body : Toks \cup {0}],
           failures : SUBSET Failures,
           result : {"none", "complete", "partial"}]

\* The derived session a scan looks for, writes or presents.
Session(s) == [rev |-> run[s].rev, key |-> run[s].key]

TypeOK ==
    /\ gen \in [Gens -> Generation]
    /\ active \in Gens \cup {0}
    /\ member \in [Gens -> SUBSET Rows]
    /\ derived \subseteq Rows
    /\ revision \subseteq Revisions
    /\ checkpoint \in [Occs -> Revisions \cup {NoRevision}]
    /\ track \in [Occs -> {"unknown", "visible", "gone"}]
    /\ lease \in Scans \cup {0}
    /\ ver \in [Occs -> Toks]
    /\ here \subseteq Occs
    /\ broken \subseteq Occs
    /\ unlisted \subseteq Harnesses
    /\ pc \in [Scans -> Steps]
    /\ cand \in [Scans -> Gens \cup {0}]
    /\ run \in [Scans -> Locals]
    /\ stale \subseteq Scans
    /\ edits \in Nat
    /\ faults \in Nat

Init ==
    /\ gen = [g \in Gens |-> GenerationRow("none", 0)]
    /\ active = 0
    /\ member = [g \in Gens |-> {}]
    /\ derived = {}
    /\ revision = {}
    /\ checkpoint = [o \in Occs |-> NoRevision]
    /\ track = [o \in Occs |-> "unknown"]
    /\ lease = 0
    /\ ver = [o \in Occs |-> FirstTok]
    /\ here \in SUBSET Occs
    /\ broken = {}
    /\ unlisted = {}
    /\ pc = [s \in Scans |-> "idle"]
    /\ cand = [s \in Scans |-> 0]
    /\ run = [s \in Scans |-> Idle]
    /\ stale = {}
    /\ edits = 0
    /\ faults = 0

-----------------------------------------------------------------------------
(* What becomes of a statement.                                            *)

\* Where an error takes a scan: a session's error is absorbed or not, an error
\* while the candidate is filled fails the candidate, any other one ends the
\* scan.
OnError(s) ==
    CASE pc[s] \in {"look", "read", "retain", "write", "present", "confirm"} ->
             "absorb"
      [] pc[s] \in {"observe", "count", "index", "publish"} -> "fail"
      [] OTHER -> "release"

Goto(s, step) == pc' = [pc EXCEPT ![s] = step]
Advance(s, step) == Goto(s, step) /\ UNCHANGED faults
Fault(kind) ==
    kind \in Faults /\ faults < MaxFaults /\ faults' = faults + 1
\* The statement commits; the client learns of it, or only sees an error.
Commit(s, step) == \/ Advance(s, step)
                   \/ Fault("lost") /\ Goto(s, OnError(s))

Update(s, locals) == run' = [run EXCEPT ![s] = locals]
HasCandidate(s) ==
    pc[s] \in {"observe", "look", "read", "retain", "write", "present",
               "confirm", "absorb", "count", "index", "publish", "fail"}

-----------------------------------------------------------------------------
(* The lease and the repair every scan starts with.                        *)

\* The advisory lock is exclusive to one connection.
LeaseShared == TRUE
LeaseFree == lease = 0

\* AcquireScanLease.  A scan that finds the lease taken fails with
\* scan_in_progress and changes nothing, so only success is an action.  The
\* guard on unborn generations keeps every started scan within MaxGen.
Start(s, tol, key) ==
    /\ pc[s] = "idle"
    /\ LeaseFree
    /\ Cardinality({g \in Gens : gen[g].state = "none"}) >
           Cardinality({t \in Scans : pc[t] \in {"sweep", "list", "clean",
                                                "settle", "active", "begin"}
                                     /\ run[t].phase = "before"})
    /\ lease' = s
    /\ Update(s, [Idle EXCEPT !.tol = tol, !.key = key])
    /\ Goto(s, "sweep")
    /\ UNCHANGED <<store, disk, cand, stale, faults>>

\* The candidates the sweep fails: every open one.
AbandonedBeforeActive(g) == gen[g].state = "building" /\ g < active
Abandoned(g) == gen[g].state = "building"

SweepWithoutReclaim(s) ==
    /\ pc[s] = "sweep"
    /\ gen' = [g \in Gens |-> IF Abandoned(g)
                              THEN [gen[g] EXCEPT !.state = "failed"]
                              ELSE gen[g]]
    /\ Commit(s, "active")
    /\ UNCHANGED <<active, member, derived, revision, checkpoint, track, lease,
                   disk, cand, run, stale>>
SweepAbandonedCandidates(s) ==
    /\ pc[s] = "sweep"
    /\ gen' = [g \in Gens |-> IF Abandoned(g)
                              THEN [gen[g] EXCEPT !.state = "failed"]
                              ELSE gen[g]]
    /\ Commit(s, "list")
    /\ UNCHANGED <<active, member, derived, revision, checkpoint, track, lease,
                   disk, cand, run, stale>>

\* What follows a Reclaim: at the start of a scan the candidate, after a
\* publication or a failure the end of the scan.
AfterReclaim(s) == IF run[s].phase = "before" THEN "active" ELSE "release"

\* Reclaim lists what it will clean up; an empty list ends it.
ListReclaimable(s) ==
    /\ pc[s] = "list"
    /\ Update(s, [run[s] EXCEPT !.todo = Reclaimable])
    /\ Advance(s, IF Reclaimable = {} THEN AfterReclaim(s) ELSE "clean")
    /\ UNCHANGED <<store, lease, disk, cand, stale>>

\* Cleanup of the oldest generation left on the list, and the refusal of an
\* active one, which stops the whole Reclaim.  The checks run before the
\* transaction; a generation that is discarded and not active stays so.
Oldest(s, g) == g \in run[s].todo /\ \A h \in run[s].todo : g <= h
RefusedByState(g) == gen[g].state \notin Discarded
Refused(g) == g = active \/ gen[g].state \notin Discarded

Cleanup(s, g) ==
    LET dead == Orphans([member EXCEPT ![g] = {}]) IN
    /\ pc[s] = "clean"
    /\ Oldest(s, g)
    /\ ~Refused(g)
    /\ member' = [member EXCEPT ![g] = {}]
    /\ derived' = derived \ dead
    /\ stale' = stale \cup {t \in Scans : pc[t] = "present"
                                        /\ Session(t) \in dead}
    /\ gen' = [gen EXCEPT ![g].reclaimed = TRUE]
    /\ \/ /\ Update(s, [run[s] EXCEPT !.todo = @ \ {g}])
          /\ Advance(s, IF run[s].todo = {g} THEN "settle" ELSE "clean")
       \/ /\ Update(s, [run[s] EXCEPT !.phase = "stuck"])
          /\ Fault("lost") /\ Goto(s, "release")
    /\ UNCHANGED <<active, revision, checkpoint, track, lease, disk, cand>>

CleanupRefused(s, g) ==
    /\ pc[s] = "clean"
    /\ Oldest(s, g)
    /\ Refused(g)
    /\ Update(s, [run[s] EXCEPT !.phase = "stuck"])
    /\ Advance(s, "release")
    /\ UNCHANGED <<store, lease, disk, cand, stale>>

\* settleProjections: the vacuum after a Reclaim that dropped something.
Settle(s) ==
    /\ pc[s] = "settle"
    /\ Advance(s, AfterReclaim(s))
    /\ UNCHANGED <<store, lease, disk, cand, run, stale>>

ActiveGeneration(s) ==
    /\ pc[s] = "active"
    /\ Update(s, [run[s] EXCEPT !.base = active])
    /\ Advance(s, "begin")
    /\ UNCHANGED <<store, lease, disk, cand, stale>>

\* BeginCandidate.  When the acknowledgement is lost the scan ends without
\* knowing the candidate it left.
BeginCandidate(s, g) ==
    /\ pc[s] = "begin"
    /\ gen[g].state = "none"
    /\ \A h \in 1 .. (g - 1) : gen[h].state # "none"
    /\ gen' = [gen EXCEPT ![g] = GenerationRow("building", run[s].base)]
    /\ \/ Advance(s, "observe") /\ cand' = [cand EXCEPT ![s] = g]
       \/ Fault("lost") /\ Goto(s, "release") /\ UNCHANGED cand
    /\ UNCHANGED <<active, member, derived, revision, checkpoint, track, lease,
                   disk, run, stale>>

-----------------------------------------------------------------------------
(* Filling the candidate.                                                  *)

Listed(o) == o \in here /\ HarnessOf[o] \notin unlisted

\* observeSources lists the harnesses one by one; each is its own failure
\* domain.  A listing failure the tolerance does not cover fails the scan.
ObserveSources(s) ==
    /\ pc[s] = "observe"
    /\ IF \A h \in unlisted : ToleratesHarness(run[s].tol, h)
       THEN /\ Update(s, [run[s] EXCEPT
                  !.listing = [o \in Occs |-> IF Listed(o) THEN ver[o] ELSE 0],
                  !.work = {o \in Occs : Listed(o)},
                  !.failures = {[kind |-> "harness", harness |-> h] :
                                    h \in unlisted}])
            /\ Advance(s, "look")
       ELSE Advance(s, "fail") /\ UNCHANGED run
    /\ UNCHANGED <<store, lease, disk, cand, stale>>

\* Where a scan is with the session of occurrence o: retainSession records the
\* sighting, loads the checkpoint and looks for the derived session to reuse.
LookAt(s, o) ==
    LET known == checkpoint[o]
        reuse == /\ known # NoRevision
                 /\ known.tok = run[s].listing[o]
                 /\ [rev |-> known, key |-> run[s].key] \in derived
    IN
    /\ pc[s] = "look"
    /\ o \in run[s].work
    /\ track' = [track EXCEPT ![o] = "visible"]
    /\ Update(s, [run[s] EXCEPT
          !.seen = @ \cup {o},
          !.rev = IF reuse THEN known
                  ELSE [NoRevision EXCEPT !.occ = o]])
    /\ Advance(s, IF reuse THEN "present" ELSE "read")
    /\ stale' = stale \ {s}
    /\ UNCHANGED <<gen, active, member, derived, revision, checkpoint, lease,
                   disk, cand>>

\* One of those statements fails, before or after the sighting was recorded.
LookFails(s, o) ==
    /\ pc[s] = "look"
    /\ o \in run[s].work
    /\ Fault("error")
    /\ track' \in {track, [track EXCEPT ![o] = "visible"]}
    /\ Update(s, [run[s] EXCEPT !.rev = [NoRevision EXCEPT !.occ = o]])
    /\ Goto(s, "absorb")
    /\ UNCHANGED <<gen, active, member, derived, revision, checkpoint, lease,
                   disk, cand, stale>>

\* readItems and sourceState: the transcript as it is now, which need not be
\* the one the listing saw.
ReadTranscript(s) ==
    LET o == run[s].rev.occ IN
    /\ pc[s] = "read"
    /\ IF o \in here \ broken
       THEN /\ Update(s, [run[s] EXCEPT
                  !.rev = [occ |-> o, tok |-> run[s].listing[o],
                           body |-> ver[o]]])
            /\ Advance(s, "retain")
       ELSE Advance(s, "absorb") /\ UNCHANGED run
    /\ UNCHANGED <<store, lease, disk, cand, stale>>

\* PutSnapshot and PutSessionRevision, then the lookup of presentDerived: the
\* derived session may exist because the transcript reverted.
RetainRevision(s) ==
    /\ pc[s] = "retain"
    /\ revision' = revision \cup {run[s].rev}
    /\ Commit(s, IF Session(s) \in derived THEN "present" ELSE "write")
    /\ stale' = stale \ {s}
    /\ UNCHANGED <<gen, active, member, derived, checkpoint, track, lease, disk,
                   cand, run>>

\* WriteSession: one transaction, refused when another writer has just written
\* the same derived session.
WriteSession(s) ==
    /\ pc[s] = "write"
    /\ IF Session(s) \in derived
       THEN Advance(s, "absorb") /\ UNCHANGED derived
       ELSE derived' = derived \cup {Session(s)} /\ Commit(s, "present")
    /\ stale' = stale \ {s}
    /\ UNCHANGED <<gen, active, member, revision, checkpoint, track, lease, disk,
                   cand, run>>

\* AddGenerationMember, refused by the foreign key when the derived session
\* behind the id this scan holds was deleted meanwhile.
AddGenerationMember(s) ==
    /\ pc[s] = "present"
    /\ IF s \in stale
       THEN Advance(s, "absorb") /\ UNCHANGED member
       ELSE /\ member' = [member EXCEPT ![cand[s]] = @ \cup {Session(s)}]
            /\ Commit(s, "confirm")
    /\ UNCHANGED <<gen, active, derived, revision, checkpoint, track, lease,
                   disk, cand, run, stale>>

\* The session of occurrence o is done, one way or the other.
FinishNothing(s, o) == [run[s] EXCEPT !.rev = NoRevision]
Finish(s, o) == [run[s] EXCEPT !.work = @ \ {o}, !.rev = NoRevision]

\* PutCheckpoint ends a session: the confirmed revision, new or unchanged.
PutCheckpoint(s) ==
    LET o == run[s].rev.occ IN
    /\ pc[s] = "confirm"
    /\ checkpoint' = [checkpoint EXCEPT ![o] = run[s].rev]
    /\ \/ Advance(s, "look") /\ Update(s, Finish(s, o))
       \/ Fault("lost") /\ Goto(s, "absorb") /\ UNCHANGED run
    /\ UNCHANGED <<gen, active, member, derived, revision, track, lease, disk,
                   cand, stale>>

\* The failures a partial scan declares, with that of the source of harness h.
RecordNothing(failures, h) == failures
Record(failures, h) == failures \cup {[kind |-> "source", harness |-> h]}

\* fill after retainSession failed: the failure is absorbed when the tolerance
\* covers the source, and fails the scan otherwise.
AbsorbFailure(s) ==
    LET o == run[s].rev.occ
        h == HarnessOf[o] IN
    /\ pc[s] = "absorb"
    /\ IF ToleratesSource(run[s].tol, h)
       THEN /\ Update(s, [Finish(s, o) EXCEPT !.failures = Record(@, h)])
            /\ Advance(s, "look")
       ELSE Advance(s, "fail") /\ UNCHANGED run
    /\ UNCHANGED <<store, lease, disk, cand, stale>>

\* Catalog.Tombstone.  A nil slice of seen occurrences is encoded as NULL, for
\* which the predicate of the update is never true.
Tombstoned(seen) ==
    IF seen = {} THEN track
    ELSE [o \in Occs |-> IF track[o] = "visible" /\ o \notin seen
                         THEN "gone" ELSE track[o]]

\* Nothing is missing from the listing for another reason than its absence.
AllSourcesRead(s) == \A f \in run[s].failures : f.kind # "source"
NothingFailed(s) == run[s].failures = {}

\* tombstone, skipped when anything failed.  It updates two tables in separate
\* statements, so it can fail with the occurrences already updated.
TombstoneUnseen(s) ==
    /\ pc[s] = "look"
    /\ run[s].work = {}
    /\ IF NothingFailed(s)
       THEN /\ track' = Tombstoned(run[s].seen)
            /\ \/ Advance(s, "count")
               \/ (Fault("error") \/ Fault("lost")) /\ Goto(s, "fail")
       ELSE Advance(s, "count") /\ UNCHANGED track
    /\ UNCHANGED <<gen, active, member, derived, revision, checkpoint, lease,
                   disk, cand, run, stale>>

-----------------------------------------------------------------------------
(* Counting, publishing, failing.                                          *)

\* IncrementalCounts: what the parent recorded plus the membership difference.
\* Any difference leaves the relation resolution uncomputed.
CountsOfAdded(mine, theirs, inherited) ==
    [inherited EXCEPT !.sessions = @ + Cardinality(mine \ theirs)]
IncrementalCounts(mine, theirs, inherited) ==
    LET added == mine \ theirs
        removed == theirs \ mine
        same == added = {} /\ removed = {} IN
    [sessions |-> inherited.sessions + Cardinality(added)
                      - Cardinality(removed),
     known |-> same /\ inherited.known,
     over |-> IF same THEN inherited.over ELSE {}]

FullCounts(mine) ==
    [sessions |-> Cardinality(mine), known |-> TRUE, over |-> mine]

\* count and RecordBuild: incremental whenever the parent recorded its counts.
CountCandidate(s) ==
    LET base == run[s].base
        mine == member[cand[s]]
        counts == IF base # 0 /\ gen[base].counts # NoCounts
                  THEN IncrementalCounts(mine, member[base], gen[base].counts)
                  ELSE FullCounts(mine) IN
    /\ pc[s] = "count"
    /\ gen' = [gen EXCEPT ![cand[s]].counts = counts]
    /\ Commit(s, "index")
    /\ UNCHANGED <<active, member, derived, revision, checkpoint, track, lease,
                   disk, cand, run, stale>>

\* MaintainIndexes touches no row of the model; its failure also tries to fail
\* the candidate itself.
MaintainIndexes(s) ==
    /\ pc[s] = "index"
    /\ \/ Advance(s, "publish") /\ UNCHANGED gen
       \/ /\ Fault("error")
          /\ gen' \in {gen, [gen EXCEPT ![cand[s]].state = "failed"]}
          /\ Goto(s, "fail")
    /\ UNCHANGED <<active, member, derived, revision, checkpoint, track, lease,
                   disk, cand, run, stale>>

\* failedSources keeps one record per source id.  All listing failures share
\* the empty id, so only the first unlistable harness keeps its record.
FailedSources(failures) ==
    {f \in failures : \/ f.kind = "source"
                      \/ \A g \in failures : g.kind = "harness" =>
                             f.harness <= g.harness}

\* publish: one transaction that requires a building candidate, supersedes the
\* active generation, completes the candidate and moves the pointer.
PublishedState(s) == "published"
PublishState(s) == IF run[s].failures = {} THEN "complete" ELSE "partial"

SupersededByComplete(s, g) == g = active /\ PublishState(s) = "complete"
Superseded(s, g) == g = active

Publish(s) ==
    LET c == cand[s] IN
    /\ pc[s] = "publish"
    /\ gen[c].state = "building"
    /\ gen' = [g \in Gens |->
                 IF g = c THEN [gen[g] EXCEPT
                                  !.state = PublishState(s),
                                  !.declared = FailedSources(run[s].failures)]
                 ELSE IF Superseded(s, g)
                      THEN [gen[g] EXCEPT !.state = "superseded"]
                 ELSE gen[g]]
    /\ active' = c
    /\ \/ /\ Advance(s, "list")
          /\ Update(s, [run[s] EXCEPT !.result = PublishState(s),
                                      !.phase = "after"])
          /\ cand' = [cand EXCEPT ![s] = 0]
       \/ Fault("lost") /\ Goto(s, "fail") /\ UNCHANGED <<run, cand>>
    /\ UNCHANGED <<member, derived, revision, checkpoint, track, lease, disk,
                   stale>>

PublishRefused(s) ==
    /\ pc[s] = "publish"
    /\ gen[cand[s]].state # "building"
    /\ Advance(s, "fail")
    /\ UNCHANGED <<store, lease, disk, cand, run, stale>>

\* abandon: MarkFailed looks at the id alone, then Reclaim runs.
MarkFailed(s) ==
    /\ pc[s] = "fail"
    /\ gen' = [gen EXCEPT ![cand[s]].state = "failed"]
    /\ cand' = [cand EXCEPT ![s] = 0]
    /\ \/ Advance(s, "list") /\ Update(s, [run[s] EXCEPT !.phase = "abandon"])
       \/ /\ Fault("lost") /\ Goto(s, "release")
          /\ Update(s, [run[s] EXCEPT !.phase = "stuck"])
    /\ UNCHANGED <<active, member, derived, revision, checkpoint, track, lease,
                   disk, stale>>

\* The connection of the lease is returned or destroyed; either way the server
\* releases the lock this process still holds.
LeaveLease(s) == lease' = IF lease = s THEN 0 ELSE lease
Leave(s) ==
    /\ LeaveLease(s)
    /\ Goto(s, "idle")
    /\ cand' = [cand EXCEPT ![s] = 0]
    /\ Update(s, Idle)
    /\ stale' = stale \ {s}
    /\ UNCHANGED <<store, disk>>

Release(s) == pc[s] = "release" /\ Leave(s) /\ UNCHANGED faults

-----------------------------------------------------------------------------
(* Faults and the files.                                                   *)

\* A statement fails without effect, at any step that runs one and has no
\* failure of its own above.
DatabaseError(s) ==
    /\ pc[s] \in {"sweep", "list", "clean", "settle", "active", "begin",
                  "observe", "retain", "write", "present", "confirm", "count",
                  "publish", "fail"}
    /\ Fault("error")
    /\ Goto(s, OnError(s))
    /\ Update(s, IF pc[s] \in {"list", "clean", "settle"}
                 THEN [run[s] EXCEPT !.phase = "stuck"] ELSE run[s])
    /\ UNCHANGED <<store, lease, disk, cand, stale>>

Kill(s) == pc[s] # "idle" /\ Fault("kill") /\ Leave(s)

\* The server or the network closes the connection the lease lives on; the
\* pool opens other connections and the scan goes on.
DropLease ==
    /\ lease # 0
    /\ Fault("drop")
    /\ lease' = 0
    /\ UNCHANGED <<store, disk, pc, cand, run, stale>>

Edit ==
    /\ edits < MaxEdits
    /\ edits' = edits + 1
    /\ \/ \E o \in here, t \in Toks :
            /\ t # ver[o]
            /\ Restores \/ t > ver[o]
            /\ ver' = [ver EXCEPT ![o] = t]
            /\ UNCHANGED <<here, broken, unlisted>>
       \/ \E o \in Occs :
            /\ here' \in {here \cup {o}, here \ {o}}
            /\ here' # here
            /\ UNCHANGED <<ver, broken, unlisted>>
       \/ \E o \in here :
            /\ broken' = IF o \in broken THEN broken \ {o} ELSE broken \cup {o}
            /\ UNCHANGED <<ver, here, unlisted>>
       \/ \E h \in Harnesses :
            /\ unlisted' = IF h \in unlisted THEN unlisted \ {h}
                           ELSE unlisted \cup {h}
            /\ UNCHANGED <<ver, here, broken>>
    /\ UNCHANGED <<store, lease, pc, cand, run, stale, faults>>

-----------------------------------------------------------------------------
Work(s) ==
    \/ SweepAbandonedCandidates(s) \/ ListReclaimable(s)
    \/ \E g \in Gens : Cleanup(s, g) \/ CleanupRefused(s, g)
    \/ Settle(s) \/ ActiveGeneration(s)
    \/ \E g \in Gens : BeginCandidate(s, g)
    \/ ObserveSources(s)
    \/ \E o \in Occs : LookAt(s, o) \/ LookFails(s, o)
    \/ ReadTranscript(s) \/ RetainRevision(s) \/ WriteSession(s)
    \/ AddGenerationMember(s) \/ PutCheckpoint(s) \/ AbsorbFailure(s)
    \/ TombstoneUnseen(s) \/ CountCandidate(s) \/ MaintainIndexes(s)
    \/ Publish(s) \/ PublishRefused(s) \/ MarkFailed(s) \/ Release(s)
    \/ DatabaseError(s)

Next ==
    \/ \E s \in Scans : \/ \E tol \in {Strict, Partial}, key \in Keys :
                              Start(s, tol, key)
                        \/ Work(s)
                        \/ Kill(s)
    \/ DropLease
    \/ Edit

Spec == Init /\ [][Next]_vars /\ \A s \in Scans : WF_vars(Work(s))

-----------------------------------------------------------------------------
(* Properties.                                                             *)

\* The rows a search reads from generation g.
Presented(g) == IF g = 0 THEN {} ELSE member[g]

\* The catalog implements the promise of CatalogAnswer: scans that fail, are
\* killed and repair each other show to a search as one step that replaces
\* the whole answer by a newer one.
Answer == INSTANCE CatalogAnswer WITH
    id <- active,
    complete <- active # 0 /\ gen[active].state = "complete",
    rows <- Presented(active),
    evidence <- revision
AnswersWhole == Answer!Spec

\* A scan works through what it listed: every session left to do has the token
\* of the listing, past the read the scan holds one complete revision, and a
\* scan that writes has a candidate.
Sound(s) ==
    /\ \A o \in run[s].work : run[s].listing[o] \in Toks
    /\ HasCandidate(s) => cand[s] \in Gens
    /\ pc[s] = "read" => run[s].rev.occ \in run[s].work
    /\ pc[s] = "absorb" => run[s].rev.occ \in Occs
    /\ pc[s] \in {"retain", "write", "present", "confirm"} =>
           run[s].rev \in Revisions
InProgress == \A s \in Scans : Sound(s)

\* One scan writes at a time: however scans are killed or fail, at most one
\* candidate is ever open, because the sweep under the lease fails every
\* candidate a dead writer left before a new one is begun.
OneCandidate ==
    \A g, h \in Gens : gen[g].state = "building" /\ gen[h].state = "building"
                           => g = h

\* The pointer and the state column, written by one transaction and read by
\* separate statements elsewhere, agree: exactly the active generation is
\* complete or partial.
PublishedIsActive ==
    \A g \in Gens : gen[g].state \in Published <=> g = active

\* Everything before a scan's own candidate is repaired: nothing is left to
\* reclaim and no candidate is open when it reads the active generation.
RepairedBeforeCandidate ==
    \A s \in Scans : pc[s] \in {"active", "begin"} =>
        /\ Unreclaimed = {}
        /\ \A g \in Gens : gen[g].state # "building"

\* A candidate ready to be published presents every listed occurrence exactly
\* once, at the token of the listing and from the scan's own builder, or has
\* recorded the failure of its source; it presents nothing that is not listed.
NothingMissingSilently ==
    \A s \in Scans : pc[s] = "publish" =>
        /\ \A o \in Occs : run[s].listing[o] # 0 =>
              \/ \E d \in member[cand[s]] : /\ d.rev.occ = o
                                            /\ d.rev.tok = run[s].listing[o]
              \/ [kind |-> "source", harness |-> HarnessOf[o]]
                     \in run[s].failures
        /\ \A d \in member[cand[s]] : /\ run[s].listing[d.rev.occ] # 0
                                      /\ d.key = run[s].key
        /\ \A d, e \in member[cand[s]] : d.rev.occ = e.rev.occ => d = e

\* The counts a refresh derives from its parent's over any chain of refreshes
\* are the counts of what it presents, and a resolution that is reported was
\* computed over exactly the presented set.
CountsTrue ==
    active # 0 =>
        /\ gen[active].counts.sessions = Cardinality(member[active])
        /\ gen[active].counts.known => gen[active].counts.over = member[active]

\* A scan that published and reclaimed without an error leaves a catalog the
\* freshness gate calls clean; when it is complete, no derived row is kept
\* that it does not present.
SuccessLeavesNothing ==
    \A s \in Scans :
        pc[s] = "release" /\ run[s].result # "none" /\ run[s].phase = "after" =>
            /\ Unreclaimed = {}
            /\ run[s].result = "complete" => derived = member[active]

\* A scan that fails before publication and whose cleanup went through leaves
\* the generation it started from active and no row of its own.
FailureLeavesNothing ==
    \A s \in Scans : pc[s] = "release" /\ run[s].phase = "abandon" =>
        /\ active = run[s].base
        /\ Unreclaimed = {}
        /\ derived = Presented(active)

\* Whatever scans, cleanups and faults do, the generation a search reads does
\* not change under it: until the pointer moves its state, its declared
\* failures, its counts and its rows stay, and every row it presents exists.
ServedUnchanged ==
    [][active # 0 /\ active' = active =>
         /\ gen'[active] = gen[active]
         /\ member'[active] = member[active]
         /\ member[active] \subseteq derived']_vars

\* The rows and counts a search reads stay even when a lost acknowledgement
\* makes a scan fail the generation it has published, or two scans run because
\* a lease was lost: the refusal to clean up the active generation and the
\* orphan rule, which looks at every generation's members, protect them.
ServedRows ==
    [][active # 0 /\ active' = active =>
         /\ member'[active] = member[active]
         /\ gen'[active].counts = gen[active].counts
         /\ member[active] \subseteq derived']_vars

\* An occurrence gains a tombstone only when a scan listed every harness and
\* did not find it, never because something could not be read.
TombstonesTruthful ==
    [][\A o \in Occs : track[o] = "visible" /\ track'[o] = "gone" =>
         \E s \in Scans : /\ pc[s] = "look"
                          /\ run[s].listing[o] = 0
                          /\ run[s].failures = {}
                          /\ run[s].seen =
                                 {p \in Occs : run[s].listing[p] # 0}]_vars

\* Every scan ends, and returns the lease, once its statements are answered.
ScanEnds == \A s \in Scans : pc[s] # "idle" ~> pc[s] = "idle"

\* The oldest generation a Reclaim lists can be cleaned up: no scan is stopped
\* by the refusal to clean up the active generation (README: a dirty catalog is
\* repaired by the next scan).
ReclaimNeverRefused ==
    \A s \in Scans : pc[s] = "clean" => active \notin run[s].todo

\* A complete scan leaves no unlisted occurrence visible (README: a source
\* that disappeared gains a tombstone).
DisappearedIsTombstoned ==
    \A s \in Scans : pc[s] = "publish" /\ run[s].failures = {} =>
        \A o \in Occs : run[s].listing[o] = 0 => track[o] # "visible"

=============================================================================
