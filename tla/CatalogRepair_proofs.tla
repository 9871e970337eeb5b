------------------------ MODULE CatalogRepair_proofs ------------------------
(***************************************************************************)
(* What a scan finds and leaves, as long as no lease is lost under it: the *)
(* repair it starts with, the state of the catalog after a success and     *)
(* after a failure, and what a candidate holds when it is published, every *)
(* listed transcript or the failure of its source and the true counts.     *)
(***************************************************************************)
EXTENDS CatalogServed_proofs

\* The scan that moves is the only one that runs.
LEMMA Solo ==
    ASSUME TypeOK, Alone, NEW s \in Scans, Moves(s)
    PROVE  \A t \in Scans \ {s} : pc[t] = "idle" /\ pc'[t] = "idle"
<1>1. pc[s] # "idle" \/ lease = 0
  <2>1. ASSUME NEW o \in Occs, LookAt(s, o) \/ LookFails(s, o)
        PROVE  pc[s] # "idle"
    BY <2>1 DEF LookAt, LookFails
  <2>2. ASSUME NEW g \in Gens,
               BeginCandidate(s, g) \/ Cleanup(s, g) \/ CleanupRefused(s, g)
        PROVE  pc[s] # "idle"
    BY <2>2 DEF BeginCandidate, Cleanup, CleanupRefused
  <2>3. QED
    BY <2>1, <2>2 DEF Moves, Work, Start, LeaseFree, Kill,
       SweepAbandonedCandidates, ListReclaimable, Settle, ActiveGeneration,
       ObserveSources, ReadTranscript, RetainRevision, WriteSession,
       AddGenerationMember, PutCheckpoint, AbsorbFailure, TombstoneUnseen,
       CountCandidate, MaintainIndexes, Publish, PublishRefused, MarkFailed,
       Release, DatabaseError
<1>2. \A t \in Scans \ {s} : pc[t] = "idle"
  BY <1>1, NoneAssumption DEF Alone
<1>3. QED
  BY <1>2, OthersRest

\* Which statements change what a scan has planned.
LEMMA PlanKept ==
    ASSUME TypeOK, NEW s \in Scans, Moves(s), pc[s] # "idle", pc'[s] # "idle"
    PROVE  /\ run'[s].tol = run[s].tol
           /\ run'[s].base = run[s].base \/ ActiveGeneration(s)
           /\ \/ /\ run'[s].phase = run[s].phase
                 /\ run'[s].result = run[s].result
              \/ Publish(s) /\ pc'[s] = "list"
              \/ MarkFailed(s) /\ pc'[s] = "list"
              \/ pc'[s] = "release" /\ run'[s].phase = "stuck"
           /\ \/ run'[s].failures = run[s].failures
              \/ ObserveSources(s) \/ AbsorbFailure(s)
<1>0. run[s] \in Locals
  BY LocalsFields
<1>1. CASE \/ SweepAbandonedCandidates(s) \/ Settle(s) \/ RetainRevision(s)
           \/ WriteSession(s) \/ AddGenerationMember(s) \/ TombstoneUnseen(s)
           \/ CountCandidate(s) \/ MaintainIndexes(s) \/ PublishRefused(s)
           \/ \E g \in Gens : BeginCandidate(s, g)
  <2>1. run' = run
    BY <1>1 DEF SweepAbandonedCandidates, Settle, RetainRevision,
       WriteSession, AddGenerationMember, TombstoneUnseen, CountCandidate,
       MaintainIndexes, PublishRefused, BeginCandidate
  <2>2. QED
    BY <2>1
<1>2. CASE ListReclaimable(s) \/ ActiveGeneration(s)
  <2>1. \/ run'[s] = [run[s] EXCEPT !.todo = Reclaimable]
        \/ /\ run'[s] = [run[s] EXCEPT !.base = active]
           /\ ActiveGeneration(s)
    BY <1>2, Moved DEF ListReclaimable, ActiveGeneration
  <2>2. QED
    BY <1>0, <2>1 DEF Locals
<1>3. CASE \E g \in Gens : Cleanup(s, g) \/ CleanupRefused(s, g)
  <2>1. PICK g \in Gens : Cleanup(s, g) \/ CleanupRefused(s, g)
    BY <1>3
  <2>2. \/ run'[s] = [run[s] EXCEPT !.todo = @ \ {g}]
        \/ /\ run'[s] = [run[s] EXCEPT !.phase = "stuck"]
           /\ pc'[s] = "release"
    BY <2>1, Moved DEF Cleanup, CleanupRefused, Advance
  <2>3. QED
    BY <1>0, <2>2 DEF Locals
<1>4. CASE ObserveSources(s) \/ AbsorbFailure(s)
  <2>1. \/ run'[s] = run[s]
        \/ run'[s] = [run[s] EXCEPT
               !.listing = [o \in Occs |-> IF Listed(o) THEN ver[o] ELSE 0],
               !.work = {o \in Occs : Listed(o)},
               !.failures = {[kind |-> "harness", harness |-> h] :
                                 h \in unlisted}]
        \/ run'[s] = [run[s] EXCEPT
               !.work = @ \ {run[s].rev.occ}, !.rev = NoRevision,
               !.failures = @ \cup {[kind |-> "source",
                                     harness |-> HarnessOf[run[s].rev.occ]]}]
    <3>1. CASE ObserveSources(s)
      BY <3>1, Moved DEF ObserveSources
    <3>2. CASE AbsorbFailure(s)
      BY <3>2, Moved DEF AbsorbFailure, Finish, Record
    <3>3. QED
      BY <1>4, <3>1, <3>2
  <2>2. QED
    BY <1>0, <1>4, <2>1 DEF Locals
<1>5. CASE \/ \E o \in Occs : LookAt(s, o) \/ LookFails(s, o)
           \/ ReadTranscript(s) \/ PutCheckpoint(s)
  <2>1. \/ run'[s] = run[s]
        \/ \E rev : run'[s] = [run[s] EXCEPT !.rev = rev]
        \/ \E seen, rev : run'[s] = [run[s] EXCEPT !.seen = seen, !.rev = rev]
        \/ \E work, rev : run'[s] = [run[s] EXCEPT !.work = work, !.rev = rev]
    <3>1. ASSUME NEW o \in Occs, LookAt(s, o)
          PROVE  \E seen, rev :
                     run'[s] = [run[s] EXCEPT !.seen = seen, !.rev = rev]
      BY <3>1, Moved DEF LookAt
    <3>2. ASSUME NEW o \in Occs, LookFails(s, o)
          PROVE  \E rev : run'[s] = [run[s] EXCEPT !.rev = rev]
      BY <3>2, Moved DEF LookFails
    <3>3. CASE ReadTranscript(s)
      BY <3>3, Moved DEF ReadTranscript
    <3>4. CASE PutCheckpoint(s)
      BY <3>4, Moved DEF PutCheckpoint, Finish
    <3>5. QED
      BY <1>5, <3>1, <3>2, <3>3, <3>4
  <2>2. QED
    BY <1>0, <2>1 DEF Locals
<1>6. CASE Publish(s)
  <2>1. pc'[s] = "list" \/ run' = run
    BY <1>6, Moved DEF Publish, Advance
  <2>2. \/ run' = run
        \/ run'[s] = [run[s] EXCEPT !.result = PublishState(s),
                                    !.phase = "after"]
    BY <1>6, Moved DEF Publish
  <2>3. QED
    BY <1>0, <1>6, <2>1, <2>2 DEF Locals
<1>7. CASE MarkFailed(s)
  <2>1. \/ /\ pc'[s] = "list"
           /\ run'[s] = [run[s] EXCEPT !.phase = "abandon"]
        \/ /\ pc'[s] = "release"
           /\ run'[s] = [run[s] EXCEPT !.phase = "stuck"]
    BY <1>7, Moved DEF MarkFailed, Advance
  <2>2. QED
    BY <1>0, <1>7, <2>1 DEF Locals
<1>8. CASE DatabaseError(s)
  <2>1. \/ run'[s] = run[s]
        \/ /\ run'[s] = [run[s] EXCEPT !.phase = "stuck"]
           /\ pc'[s] = "release"
    BY <1>8, Moved DEF DatabaseError, OnError
  <2>2. QED
    BY <1>0, <2>1 DEF Locals
<1>9. ~\/ Release(s) \/ Kill(s)
       \/ \E tol \in Tolerance, key \in Keys : Start(s, tol, key)
  BY RepairFlow DEF Flows
<1>10. QED
  BY <1>1, <1>2, <1>3, <1>4, <1>5, <1>6, <1>7, <1>8, <1>9 DEF Moves, Work

-----------------------------------------------------------------------------
(* What is published, what is reclaimed.                                   *)

\* No generation but the active one is published.
PublishedOnlyActive == \A g \in Gens : gen[g].state \in Published => g = active

\* Only publish publishes.
LEMMA PublishedByPublish ==
    ASSUME TypeOK, NEW s \in Scans, Moves(s), ~Publish(s)
    PROVE  \A g \in Gens : gen'[g].state \in Published =>
               gen[g].state \in Published
<1>1. CASE SweepAbandonedCandidates(s)
  BY <1>1 DEF SweepAbandonedCandidates, TypeOK, Generation, Published
<1>2. CASE \E g \in Gens : BeginCandidate(s, g)
  BY <1>2 DEF BeginCandidate, GenerationRow, TypeOK, Published
<1>3. CASE MaintainIndexes(s) \/ MarkFailed(s)
  <2>1. \/ gen' = gen
        \/ gen' = [gen EXCEPT ![cand[s]].state = "failed"]
    BY <1>3 DEF MaintainIndexes, MarkFailed
  <2>2. QED
    BY <2>1 DEF TypeOK, Generation, Published
<1>4. QED
  BY <1>1, <1>2, <1>3, StatesKept DEF Moves

LEMMA PublishedOnlyActiveStep ==
    ASSUME TypeOK, InProgress, PublishedOnlyActive, [AnyStep]_vars
    PROVE  PublishedOnlyActive'
<1>1. ASSUME NEW s \in Scans, Moves(s) PROVE PublishedOnlyActive'
  <2>1. CASE Publish(s)
    BY <2>1 DEF Publish, Superseded, PublishedOnlyActive, Published, TypeOK,
       Generation
  <2>2. CASE ~Publish(s)
    BY <1>1, <2>2, PublishedByPublish, PointerKept DEF PublishedOnlyActive
  <2>3. QED
    BY <2>1, <2>2
<1>2. CASE UNCHANGED Program
  BY <1>2 DEF Program, store, PublishedOnlyActive
<1>3. QED
  BY <1>1, <1>2, OneMoves

\* A generation is reclaimed for good: it was discarded, it presents nothing
\* and it is neither active nor the candidate of a scan.
Emptied ==
    /\ \A g \in Gens : gen[g].reclaimed => /\ gen[g].state \in Discarded
                                           /\ member[g] = {}
                                           /\ g # active
    /\ \A s \in Scans : HasCandidate(s) => ~gen[cand[s]].reclaimed

\* Only Cleanup reclaims.
LEMMA ReclaimedByCleanup ==
    ASSUME TypeOK, NEW s \in Scans, Moves(s),
           ~\E g \in Gens : Cleanup(s, g)
    PROVE  \A g \in Gens :
               \/ gen'[g].reclaimed = gen[g].reclaimed
               \/ BeginCandidate(s, g) /\ ~gen'[g].reclaimed
<1>1. CASE SweepAbandonedCandidates(s)
  BY <1>1 DEF SweepAbandonedCandidates, TypeOK, Generation
<1>2. CASE \E g \in Gens : BeginCandidate(s, g)
  <2>1. PICK g \in Gens : BeginCandidate(s, g)
    BY <1>2
  <2>2. gen' = [gen EXCEPT ![g] = GenerationRow("building", run[s].base)]
    BY <2>1 DEF BeginCandidate
  <2>3. QED
    BY <2>1, <2>2 DEF GenerationRow, TypeOK
<1>3. CASE MaintainIndexes(s) \/ MarkFailed(s) \/ CountCandidate(s)
  <2>1. \/ gen' = gen
        \/ gen' = [gen EXCEPT ![cand[s]].state = "failed"]
        \/ \E counts : gen' = [gen EXCEPT ![cand[s]].counts = counts]
    BY <1>3 DEF MaintainIndexes, MarkFailed, CountCandidate
  <2>2. QED
    BY <2>1 DEF TypeOK, Generation
<1>4. CASE Publish(s)
  BY <1>4 DEF Publish, TypeOK, Generation
<1>5. QED
  BY <1>1, <1>2, <1>3, <1>4, TableKept

\* Nothing is revived: what is discarded stays so.
LEMMA DiscardedStay ==
    ASSUME TypeOK, NEW s \in Scans, Moves(s)
    PROVE  \A g \in Gens : gen[g].state \in Discarded =>
               gen'[g].state \in Discarded
<1>1. CASE SweepAbandonedCandidates(s)
  BY <1>1 DEF SweepAbandonedCandidates, Abandoned, TypeOK, Generation,
     Discarded
<1>2. CASE \E g \in Gens : BeginCandidate(s, g)
  BY <1>2 DEF BeginCandidate, GenerationRow, TypeOK, Discarded
<1>3. CASE MaintainIndexes(s) \/ MarkFailed(s)
  <2>1. \/ gen' = gen
        \/ gen' = [gen EXCEPT ![cand[s]].state = "failed"]
    BY <1>3 DEF MaintainIndexes, MarkFailed
  <2>2. QED
    BY <2>1 DEF TypeOK, Generation, Discarded
<1>4. CASE Publish(s)
  BY <1>4 DEF Publish, TypeOK, Generation, Discarded
<1>5. QED
  BY <1>1, <1>2, <1>3, <1>4, StatesKept DEF Moves

LEMMA EmptiedStep ==
    ASSUME TypeOK, InProgress, Owned, Alone, PublishedOnlyActive, Emptied,
           [AnyStep]_vars
    PROVE  Emptied'
<1>1. ASSUME NEW s \in Scans, Moves(s) PROVE Emptied'
  <2>0. \A t \in Scans : HasCandidate(t)' => t = s
    BY <1>1, Solo DEF HasCandidate
  <2>1. CASE \E g \in Gens : Cleanup(s, g)
    <3>1. PICK g \in Gens : Cleanup(s, g)
      BY <2>1
    <3>2. /\ member' = [member EXCEPT ![g] = {}]
          /\ gen' = [gen EXCEPT ![g].reclaimed = TRUE]
          /\ g # active /\ gen[g].state \in Discarded /\ active' = active
      BY <3>1 DEF Cleanup, Refused
    <3>3. ~HasCandidate(s)'
      BY <3>1, RepairFlow DEF Flows, HasCandidate
    <3>4. QED
      BY <2>0, <3>2, <3>3 DEF Emptied, TypeOK, Generation
  <2>2. CASE ~\E g \in Gens : Cleanup(s, g)
    <3>1. ASSUME NEW g \in Gens, gen'[g].reclaimed
          PROVE  /\ gen'[g].state \in Discarded /\ member'[g] = {}
                 /\ g # active'
      <4>1. gen[g].reclaimed
        BY <1>1, <2>2, <3>1, ReclaimedByCleanup
      <4>2. gen[g].state \in Discarded /\ member[g] = {} /\ g # active
        BY <4>1 DEF Emptied
      <4>3. AddGenerationMember(s) => g # cand[s]
        BY <4>1 DEF AddGenerationMember, Emptied, HasCandidate
      <4>4. member'[g] = {}
        BY <1>1, <4>2, <4>3, MembersOnlyLeave
      <4>5. g # active'
        <5>1. Publish(s) => gen[cand[s]].state \notin Discarded
          BY DEF Publish, Discarded
        <5>2. QED
          BY <1>1, <4>2, <5>1, PointerKept
      <4>6. QED
        BY <1>1, <4>2, <4>4, <4>5, DiscardedStay
    <3>2. ASSUME HasCandidate(s)' PROVE ~gen'[cand'[s]].reclaimed
      <4>1. CASE \E g \in Gens : BeginCandidate(s, g)
        <5>1. PICK g \in Gens : BeginCandidate(s, g)
          BY <4>1
        <5>2. cand'[s] = g
          BY <3>2, <5>1, Moved DEF BeginCandidate, TypeOK, Advance,
             HasCandidate
        <5>3. QED
          BY <5>1, <5>2 DEF BeginCandidate, GenerationRow, TypeOK
      <4>2. CASE ~\E g \in Gens : BeginCandidate(s, g)
        <5>1. HasCandidate(s) /\ cand'[s] = cand[s]
          BY <1>1, <3>2, <4>2, KeepsCandidate DEF Moves
        <5>2. cand[s] \in Gens /\ ~gen[cand[s]].reclaimed
          BY <5>1 DEF Emptied, InProgress, Sound
        <5>3. QED
          BY <1>1, <2>2, <5>1, <5>2, ReclaimedByCleanup
      <4>3. QED
        BY <4>1, <4>2
    <3>3. QED
      BY <2>0, <3>1, <3>2 DEF Emptied
  <2>3. QED
    BY <2>1, <2>2
<1>2. CASE UNCHANGED Program
  BY <1>2 DEF Program, store, Emptied, HasCandidate
<1>3. QED
  BY <1>1, <1>2, OneMoves

-----------------------------------------------------------------------------
(* The repair.                                                             *)

\* What a cleanup of generation g leaves: g is no longer to reclaim and every
\* row left is presented by some generation.
LEMMA CleanupLeaves ==
    ASSUME TypeOK, NEW s \in Scans, NEW g \in Gens, Cleanup(s, g)
    PROVE  /\ Reclaimable' = Reclaimable \ {g}
           /\ Orphans(member)' = {}
           /\ \/ /\ run'[s] = [run[s] EXCEPT !.todo = @ \ {g}]
                 /\ pc'[s] = IF run[s].todo = {g} THEN "settle" ELSE "clean"
              \/ pc'[s] = "release" /\ run'[s].phase = "stuck"
<1>1. /\ gen' = [gen EXCEPT ![g].reclaimed = TRUE]
      /\ derived' = derived \ Orphans(member')
      /\ member' = [member EXCEPT ![g] = {}]
  BY DEF Cleanup
<1>2. Reclaimable' = Reclaimable \ {g}
  <2>1. \A h \in Gens : /\ gen'[h].state = gen[h].state
                        /\ gen'[h].reclaimed = IF h = g THEN TRUE
                                               ELSE gen[h].reclaimed
    BY <1>1 DEF TypeOK, Generation
  <2>2. QED
    BY <2>1 DEF Reclaimable
<1>3. Orphans(member)' = {}
  BY <1>1 DEF Orphans
<1>4. \/ /\ run'[s] = [run[s] EXCEPT !.todo = @ \ {g}]
         /\ pc'[s] = IF run[s].todo = {g} THEN "settle" ELSE "clean"
      \/ run'[s] = [run[s] EXCEPT !.phase = "stuck"] /\ pc'[s] = "release"
  BY Moved DEF Cleanup, Advance
<1>5. QED
  BY <1>2, <1>3, <1>4, LocalsFields DEF Locals

\* Nothing is left to reclaim from the moment a Reclaim has gone through its
\* list until the next candidate.
Clean == Reclaimable = {} /\ \A g \in Gens : gen[g].state # "building"
Repaired(s) ==
    /\ pc[s] \notin {"idle", "list", "clean", "settle", "release"} =>
           run[s].phase = "before"
    /\ pc[s] = "clean" => Reclaimable \subseteq run[s].todo
    /\ pc[s] = "settle" => Orphans(member) = {}
    /\ pc[s] \in {"settle", "active", "begin"} => Clean
    /\ pc[s] = "release" /\ run[s].phase \in {"after", "abandon"} => Clean

\* The statements of a Reclaim and what they lead to.
LEMMA Reclaims ==
    ASSUME TypeOK, NEW s \in Scans, Moves(s),
           pc[s] \in {"list", "clean", "settle"}
    PROVE  \/ ListReclaimable(s) \/ Settle(s)
           \/ \E g \in Gens : Cleanup(s, g) \/ CleanupRefused(s, g)
           \/ DatabaseError(s) /\ pc'[s] = "release"
           \/ Kill(s) /\ pc'[s] = "idle"
<1> USE RepairFlow, FillFlow DEF Flows
<1>1. ~\E g \in Gens : BeginCandidate(s, g)
  OBVIOUS
<1>2. ~\E o \in Occs : LookAt(s, o) \/ LookFails(s, o)
  OBVIOUS
<1>3. ~\E tol \in Tolerance, key \in Keys : Start(s, tol, key)
  OBVIOUS
<1>4. ~\/ SweepAbandonedCandidates(s) \/ ActiveGeneration(s) \/ Release(s)
       \/ ObserveSources(s) \/ ReadTranscript(s) \/ RetainRevision(s)
       \/ WriteSession(s) \/ AddGenerationMember(s) \/ PutCheckpoint(s)
       \/ AbsorbFailure(s) \/ TombstoneUnseen(s) \/ CountCandidate(s)
       \/ MaintainIndexes(s) \/ Publish(s) \/ PublishRefused(s)
       \/ MarkFailed(s)
  OBVIOUS
<1>5. QED
  BY <1>1, <1>2, <1>3, <1>4 DEF Moves, Work

\* A scan that releases its lease only leaves.
LEMMA Releases ==
    ASSUME TypeOK, NEW s \in Scans, Moves(s), pc[s] = "release"
    PROVE  pc'[s] = "idle"
<1> USE RepairFlow, FillFlow DEF Flows
<1>1. ~\E g \in Gens : \/ Cleanup(s, g) \/ CleanupRefused(s, g)
                      \/ BeginCandidate(s, g)
  OBVIOUS
<1>2. ~\E o \in Occs : LookAt(s, o) \/ LookFails(s, o)
  OBVIOUS
<1>3. ~\E tol \in Tolerance, key \in Keys : Start(s, tol, key)
  OBVIOUS
<1>4. QED
  BY <1>1, <1>2, <1>3 DEF Moves, Work

LEMMA RepairedStep ==
    ASSUME TypeOK, InProgress, Alone, NEW s \in Scans, Repaired(s), Moves(s),
           pc'[s] # "idle", pc[s] # "idle"
    PROVE  Repaired(s)'
<1>0. run[s] \in Locals
  BY LocalsFields
<1>1. ASSUME pc'[s] \notin {"idle", "list", "clean", "settle", "release"}
      PROVE  run'[s].phase = "before"
  <2>1. run'[s].phase = run[s].phase
    BY <1>1, PlanKept
  <2>2. CASE pc[s] \notin {"idle", "list", "clean", "settle", "release"}
    BY <2>1, <2>2 DEF Repaired
  <2>3. CASE ListReclaimable(s) \/ Settle(s)
    <3>1. pc'[s] = AfterReclaim(s)
      BY <1>1, <2>3, Moved DEF ListReclaimable, Settle, Advance
    <3>2. QED
      BY <1>1, <2>1, <3>1 DEF AfterReclaim
  <2>4. CASE pc[s] \in {"list", "clean", "settle", "release"}
    <3>1. pc[s] \in {"list", "clean", "settle"}
      BY <2>4, Releases
    <3>2. ListReclaimable(s) \/ Settle(s)
      BY <1>1, <3>1, Reclaims, RepairFlow DEF Flows
    <3>3. QED
      BY <2>3, <3>2
  <2>5. QED
    BY <2>2, <2>4
<1>2. ASSUME pc'[s] = "clean"
      PROVE  Reclaimable' \subseteq run'[s].todo
  <2>1. CASE ListReclaimable(s)
    <3>1. run'[s] = [run[s] EXCEPT !.todo = Reclaimable] /\ gen' = gen
      BY <2>1, Moved DEF ListReclaimable, store
    <3>2. QED
      BY <1>0, <3>1 DEF Locals, Reclaimable
  <2>2. CASE \E g \in Gens : Cleanup(s, g)
    <3>1. PICK g \in Gens : Cleanup(s, g)
      BY <2>2
    <3>2. /\ Reclaimable' = Reclaimable \ {g} /\ pc[s] = "clean"
          /\ run'[s] = [run[s] EXCEPT !.todo = @ \ {g}]
      BY <1>2, <3>1, CleanupLeaves DEF Cleanup
    <3>3. QED
      BY <1>0, <3>2 DEF Locals, Repaired
  <2>3. QED
    BY <1>2, <2>1, <2>2, CameFrom
<1>3. ASSUME pc'[s] = "settle" PROVE Orphans(member)' = {} /\ Clean'
  <2>1. PICK g \in Gens : Cleanup(s, g)
    BY <1>3, CameFrom
  <2>2. /\ Reclaimable' = Reclaimable \ {g} /\ pc[s] = "clean"
        /\ run[s].todo = {g} /\ Orphans(member)' = {}
    BY <1>3, <2>1, CleanupLeaves DEF Cleanup
  <2>3. \A h \in Gens : gen'[h].state # "building"
    BY <2>1, <2>2 DEF Cleanup, Alone, TypeOK, Generation
  <2>4. QED
    BY <2>2, <2>3 DEF Repaired, Clean
<1>4. ASSUME \/ pc'[s] \in {"active", "begin"}
             \/ pc'[s] = "release" /\ run'[s].phase \in {"after", "abandon"}
      PROVE  Clean'
  <2>1. CASE ListReclaimable(s)
    <3>1. Reclaimable = {} /\ pc[s] = "list" /\ gen' = gen
      BY <1>4, <2>1, Moved DEF ListReclaimable, Advance, store
    <3>2. QED
      BY <3>1 DEF Clean, Reclaimable, Alone
  <2>2. CASE Settle(s) \/ ActiveGeneration(s)
    <3>1. pc[s] \in {"settle", "active"} /\ gen' = gen
      BY <2>2 DEF Settle, ActiveGeneration, store
    <3>2. QED
      BY <3>1 DEF Clean, Repaired, Reclaimable
  <2>3. CASE pc'[s] = "release" /\ run'[s].phase \in {"after", "abandon"}
    <3>1. run'[s].phase = run[s].phase
      BY <2>3, PlanKept
    <3>2. pc[s] \in {"list", "clean", "settle", "release"}
      BY <2>3, <3>1 DEF Repaired
    <3>3. ~\E g \in Gens : Cleanup(s, g) \/ CleanupRefused(s, g)
      <4>1. ASSUME NEW g \in Gens, CleanupRefused(s, g)
            PROVE  run'[s].phase = "stuck"
        <5>1. run'[s] = [run[s] EXCEPT !.phase = "stuck"]
          BY <4>1, Moved DEF CleanupRefused
        <5>2. QED
          BY <1>0, <5>1 DEF Locals
      <4>2. QED
        BY <2>3, <4>1, CleanupLeaves
    <3>4. ~DatabaseError(s)
      <4>1. DatabaseError(s) => run'[s] = [run[s] EXCEPT !.phase = "stuck"]
        BY <3>2, Moved DEF DatabaseError
      <4>2. QED
        BY <1>0, <2>3, <4>1 DEF Locals
    <3>5. ListReclaimable(s) \/ Settle(s)
      BY <2>3, <3>2, <3>3, <3>4, Reclaims, Releases
    <3>6. QED
      BY <2>1, <2>2, <3>5
  <2>4. QED
    BY <1>4, <2>1, <2>2, <2>3, CameFrom
<1>5. QED
  BY <1>1, <1>2, <1>3, <1>4 DEF Repaired

-----------------------------------------------------------------------------
(* What is left when a scan ends.                                          *)

\* The generation a scan started from is active until it publishes; what it
\* publishes or fails leaves something to reclaim, or no row to drop.
Based(s) ==
    /\ pc[s] = "begin" => run[s].base = active
    /\ HasCandidate(s) => \/ run[s].base = active
                          \/ pc[s] = "fail" /\ cand[s] = active
    /\ pc[s] \in {"list", "clean", "settle", "release"} =>
        /\ run[s].phase = "after" => active # 0
        /\ run[s].phase = "abandon" => \/ run[s].base = active
                                       \/ active \in Reclaimable
        /\ run[s].phase = "abandon" /\ pc[s] = "list" => Reclaimable # {}
        /\ run[s].phase = "abandon" /\ pc[s] = "release" =>
               Orphans(member) = {}
        /\ run[s].phase = "after" /\ run[s].result = "complete" =>
            /\ pc[s] = "list" => Orphans(member) = {} \/ Reclaimable # {}
            /\ pc[s] = "release" => Orphans(member) = {}

\* Before the first publication, a candidate whose sessions have not failed
\* presents every derived row there is: there is no other place for one.
First(s) ==
    active = 0 =>
        /\ pc[s] = "observe" => derived = {}
        /\ pc[s] \in Building \ {"absorb"} /\ run[s].failures = {} =>
               \A d \in derived : \/ d \in member[cand[s]]
                                  \/ pc[s] = "present" /\ d = Session(s)
NothingFirst == active = 0 /\ Unreclaimed = {} => derived = {}

\* A catalog with nothing to reclaim and no open candidate is clean.
LEMMA CleanIsClean ==
    ASSUME TypeOK, PublishedOnlyActive, Clean
    PROVE  Unreclaimed = {}
<1>1. ASSUME NEW g \in Gens, gen[g].state # "none", ~gen[g].reclaimed,
             g # active
      PROVE  FALSE
  <2>1. gen[g].state \in Published \cup Discarded
    BY <1>1 DEF TypeOK, Generation, States, Published, Discarded, Clean
  <2>2. gen[g].state \in Discarded
    BY <1>1, <2>1 DEF PublishedOnlyActive
  <2>3. QED
    BY <1>1, <2>2 DEF Clean, Reclaimable
<1>2. QED
  BY <1>1 DEF Unreclaimed

\* With nothing unreclaimed and no orphan, what is derived is what is active.
LEMMA OnlyActivePresents ==
    ASSUME TypeOK, Referenced, Emptied, OnePerOccurrence,
           Unreclaimed = {}, Orphans(member) = {}
    PROVE  derived = Presented(active)
<1>1. ASSUME NEW d \in derived PROVE active # 0 /\ d \in member[active]
  <2>1. PICK g \in Gens : d \in member[g]
    BY DEF Orphans
  <2>2. gen[g].state # "none" /\ ~gen[g].reclaimed
    BY <2>1 DEF Emptied, OnePerOccurrence
  <2>3. g = active
    BY <2>2 DEF Unreclaimed
  <2>4. QED
    BY <2>1, <2>3, NoGeneration
<1>2. active # 0 => member[active] \subseteq derived
  BY DEF Referenced, TypeOK
<1>3. QED
  BY <1>1, <1>2 DEF Presented

LEMMA BasedStep ==
    ASSUME TypeOK, InProgress, Owned, Alone, Emptied, NEW s \in Scans,
           Repaired(s), Based(s), First(s), Moves(s),
           pc'[s] # "idle", pc[s] # "idle"
    PROVE  Based(s)'
<1>0. run[s] \in Locals /\ (run'[s].base = run[s].base \/ ActiveGeneration(s))
  BY LocalsFields, PlanKept
<1>1. ASSUME pc'[s] = "begin" PROVE run'[s].base = active'
  <2>1. ActiveGeneration(s)
    BY <1>1, CameFrom
  <2>2. run'[s] = [run[s] EXCEPT !.base = active] /\ active' = active
    BY <2>1, Moved DEF ActiveGeneration, store
  <2>3. QED
    BY <2>2, LocalsFields DEF Locals
<1>2. ASSUME HasCandidate(s)'
      PROVE  \/ run'[s].base = active'
             \/ pc'[s] = "fail" /\ cand'[s] = active'
  <2>1. CASE \E g \in Gens : BeginCandidate(s, g)
    <3>1. pc[s] = "begin" /\ run' = run /\ active' = active
      BY <2>1 DEF BeginCandidate
    <3>2. QED
      BY <3>1 DEF Based
  <2>2. CASE ~\E g \in Gens : BeginCandidate(s, g)
    <3>1. HasCandidate(s) /\ cand'[s] = cand[s] /\ pc[s] # "fail"
      BY <1>2, <2>2, KeepsCandidate, FailingEnds DEF Moves
    <3>2. run[s].base = active
      BY <3>1 DEF Based
    <3>3. run'[s].base = run[s].base
      BY <1>0, <3>1 DEF ActiveGeneration, HasCandidate
    <3>4. Publish(s) => pc'[s] = "fail"
      BY <1>2, FillFlow DEF Flows, HasCandidate
    <3>5. QED
      BY <3>1, <3>2, <3>3, <3>4, PointerKept
  <2>3. QED
    BY <2>1, <2>2
<1>3. ASSUME pc'[s] \in {"list", "clean", "settle", "release"}
      PROVE  /\ run'[s].phase = "after" => active' # 0
             /\ run'[s].phase = "abandon" => \/ run'[s].base = active'
                                             \/ active' \in Reclaimable'
             /\ run'[s].phase = "abandon" /\ pc'[s] = "list" =>
                    Reclaimable' # {}
             /\ run'[s].phase = "abandon" /\ pc'[s] = "release" =>
                    Orphans(member)' = {}
             /\ run'[s].phase = "after" /\ run'[s].result = "complete" =>
                 /\ pc'[s] = "list" => \/ Orphans(member)' = {}
                                       \/ Reclaimable' # {}
                 /\ pc'[s] = "release" => Orphans(member)' = {}
  <2>1. CASE Publish(s) /\ pc'[s] = "list"
    <3>1. /\ run'[s] = [run[s] EXCEPT !.result = PublishState(s),
                                      !.phase = "after"]
          /\ active' = cand[s] /\ cand[s] \in Gens /\ cand[s] # active
          /\ member' = member /\ derived' = derived
      BY <2>1, Moved DEF Publish, Advance, Fault, OnError, InProgress, Sound,
         HasCandidate, Owned
    <3>2. active' # 0
      BY <3>1, NoGeneration
    <3>3. /\ run'[s].phase = "after"
          /\ run'[s].result = "complete" => run[s].failures = {}
      BY <1>0, <3>1, LocalsFields DEF Locals, PublishState
    <3>4. CASE active # 0
      <4>1. active \in Gens /\ ~gen[active].reclaimed
        <5>1. active \in Gens
          BY <3>4 DEF TypeOK
        <5>2. QED
          BY <5>1 DEF Emptied, TypeOK, Generation
      <4>2. gen'[active] = [gen[active] EXCEPT !.state = "superseded"]
        BY <2>1, <3>1, <4>1 DEF Publish, Superseded
      <4>3. gen'[active].state = "superseded" /\ ~gen'[active].reclaimed
        BY <4>1, <4>2 DEF TypeOK, Generation
      <4>4. active \in Reclaimable'
        BY <4>1, <4>3 DEF Reclaimable, Discarded
      <4>5. QED
        BY <2>1, <3>2, <3>3, <4>4
    <3>5. CASE active = 0
      <4>1. run'[s].result = "complete" =>
                \A d \in derived : d \in member[cand[s]]
        BY <2>1, <3>3, <3>5 DEF First, Building, Publish
      <4>2. run'[s].result = "complete" => Orphans(member)' = {}
        BY <3>1, <4>1 DEF Orphans
      <4>3. QED
        BY <2>1, <3>2, <3>3, <4>2
    <3>6. QED
      BY <3>4, <3>5
  <2>2. CASE MarkFailed(s) /\ pc'[s] = "list"
    <3>1. /\ run'[s] = [run[s] EXCEPT !.phase = "abandon"]
          /\ gen' = [gen EXCEPT ![cand[s]].state = "failed"]
          /\ active' = active /\ cand[s] \in Gens
          /\ ~gen[cand[s]].reclaimed
      BY <2>2, Moved DEF MarkFailed, Advance, InProgress, Sound,
         HasCandidate, Emptied
    <3>2. gen'[cand[s]].state = "failed" /\ ~gen'[cand[s]].reclaimed
      BY <3>1 DEF TypeOK, Generation
    <3>3. cand[s] \in Reclaimable'
      BY <3>1, <3>2 DEF Reclaimable, Discarded
    <3>4. run[s].base = active \/ cand[s] = active
      BY <2>2 DEF MarkFailed, Based, HasCandidate
    <3>5. run'[s].phase = "abandon" /\ run'[s].base = run[s].base
      BY <3>1, LocalsFields DEF Locals
    <3>6. QED
      BY <2>2, <3>1, <3>3, <3>4, <3>5
  <2>3. CASE /\ ~(Publish(s) /\ pc'[s] = "list")
             /\ ~(MarkFailed(s) /\ pc'[s] = "list")
             /\ run'[s].phase \in {"after", "abandon"}
    <3>1. run'[s].phase = run[s].phase /\ run'[s].result = run[s].result
      BY <2>3, PlanKept
    <3>2. pc[s] \in {"list", "clean", "settle"}
      BY <1>3, <2>3, <3>1, Releases DEF Repaired
    <3>3. run'[s].base = run[s].base
      BY <1>0, <3>2 DEF ActiveGeneration
    <3>4. ~DatabaseError(s) /\ ~\E g \in Gens : CleanupRefused(s, g)
      <4>1. DatabaseError(s) \/ (\E g \in Gens : CleanupRefused(s, g))
              => run'[s] = [run[s] EXCEPT !.phase = "stuck"]
        BY <3>2, Moved DEF DatabaseError, CleanupRefused
      <4>2. QED
        BY <2>3, <4>1, LocalsFields DEF Locals
    <3>5. CASE ListReclaimable(s) \/ Settle(s)
      <4>1. UNCHANGED <<gen, active, member, derived>>
        BY <3>5 DEF ListReclaimable, Settle, store
      <4>2. Reclaimable' = Reclaimable /\ Orphans(member)' = Orphans(member)
        BY <4>1 DEF Reclaimable, Orphans
      <4>3. CASE ListReclaimable(s)
        <5>1. pc[s] = "list" /\ (pc'[s] # "clean" => Reclaimable = {})
              /\ pc'[s] # "list"
          BY <4>3, Moved DEF ListReclaimable, Advance, AfterReclaim
        <5>2. pc'[s] # "settle"
          BY <4>3, RepairFlow DEF Flows
        <5>3. QED
          BY <3>1, <3>3, <4>1, <4>2, <5>1, <5>2 DEF Based
      <4>4. CASE Settle(s)
        <5>1. pc[s] = "settle" /\ pc'[s] \in {"active", "release"}
          BY <4>4, RepairFlow DEF Flows
        <5>2. Orphans(member) = {}
          BY <5>1 DEF Repaired
        <5>3. QED
          BY <1>3, <3>1, <3>3, <4>1, <4>2, <5>1, <5>2 DEF Based
      <4>5. QED
        BY <3>5, <4>3, <4>4
    <3>6. CASE \E g \in Gens : Cleanup(s, g)
      <4>1. PICK g \in Gens : Cleanup(s, g)
        BY <3>6
      <4>2. /\ Reclaimable' = Reclaimable \ {g}
            /\ g # active /\ active' = active /\ pc[s] = "clean"
            /\ pc'[s] \in {"clean", "settle"}
        BY <2>3, <4>1, CleanupLeaves DEF Cleanup, Refused
      <4>3. QED
        BY <3>1, <3>3, <4>2 DEF Based
    <3>7. QED
      BY <1>3, <3>2, <3>4, <3>5, <3>6, Reclaims
  <2>4. QED
    BY <2>1, <2>2, <2>3
<1>4. QED
  BY <1>1, <1>2, <1>3 DEF Based

\* A session that is to be presented is presented, or its scan absorbs the
\* error; an absorbed error is recorded.
LEMMA Presents ==
    ASSUME TypeOK, NEW s \in Scans, Moves(s)
    PROVE  /\ pc[s] = "present" /\ pc'[s] \in Building \ {"absorb"} =>
                  AddGenerationMember(s)
           /\ pc[s] = "absorb" /\ pc'[s] \in Building => AbsorbFailure(s)
<1> USE RepairFlow, FillFlow DEF Flows, Building, Filling
<1>1. CASE \E g \in Gens : \/ Cleanup(s, g) \/ CleanupRefused(s, g)
                          \/ BeginCandidate(s, g)
  BY <1>1
<1>2. CASE \E o \in Occs : LookAt(s, o) \/ LookFails(s, o)
  BY <1>2
<1>3. CASE \E tol \in Tolerance, key \in Keys : Start(s, tol, key)
  BY <1>3
<1>4. QED
  BY <1>1, <1>2, <1>3 DEF Moves, Work

LEMMA FirstStep ==
    ASSUME TypeOK, InProgress, PublishedOnlyActive, NothingFirst,
           NEW s \in Scans, Repaired(s), First(s), Moves(s),
           pc'[s] # "idle", pc[s] # "idle"
    PROVE  First(s)'
<1>1. SUFFICES ASSUME active' = 0
               PROVE  /\ pc'[s] = "observe" => derived' = {}
                      /\ pc'[s] \in Building \ {"absorb"}
                           /\ run'[s].failures = {} =>
                             \A d \in derived' :
                                \/ d \in member'[cand'[s]]
                                \/ pc'[s] = "present" /\ d = Session(s)'
  BY DEF First
<1>2. active = 0
  <2>1. Publish(s) => cand[s] \in Gens
    BY DEF Publish, InProgress, Sound, HasCandidate
  <2>2. QED
    BY <1>1, <2>1, PointerKept, NoGeneration
<1>3. ASSUME pc'[s] = "observe" PROVE derived' = {}
  <2>1. PICK g \in Gens : BeginCandidate(s, g)
    BY <1>3, CameFrom
  <2>2. pc[s] = "begin" /\ derived' = derived
    BY <2>1 DEF BeginCandidate
  <2>3. Unreclaimed = {}
    BY <2>2, CleanIsClean DEF Repaired
  <2>4. QED
    BY <1>2, <2>2, <2>3 DEF NothingFirst
<1>4. ASSUME pc'[s] \in Building \ {"absorb"}, run'[s].failures = {},
             NEW d \in derived'
      PROVE  \/ d \in member'[cand'[s]]
             \/ pc'[s] = "present" /\ d = Session(s)'
  <2>1. CASE ObserveSources(s)
    <3>1. pc[s] = "observe" /\ derived' = derived
      BY <2>1 DEF ObserveSources, store
    <3>2. QED
      BY <1>2, <1>4, <3>1 DEF First
  <2>2. CASE ~ObserveSources(s)
    <3>1. /\ pc[s] \in Building /\ cand'[s] = cand[s]
          /\ run[s].failures = {}
          /\ ~AbsorbFailure(s)
      BY <1>4, <2>2, FillKept
    <3>2. \A c \in derived : \/ c \in member[cand[s]]
                             \/ pc[s] = "present" /\ c = Session(s)
      BY <1>2, <1>4, <3>1, Presents DEF First
    <3>3. ~\E g \in Gens : Cleanup(s, g)
      BY <3>1 DEF Cleanup, Building, Filling
    <3>4. CASE WriteSession(s)
      <4>1. /\ pc'[s] = "present" /\ derived' = derived \cup {Session(s)}
            /\ member' = member /\ Session(s)' = Session(s)
        BY <1>4, <3>4, Moved DEF WriteSession, Commit, Advance,
           OnError, Session
      <4>2. pc[s] = "write"
        BY <3>4 DEF WriteSession
      <4>3. QED
        BY <1>4, <3>1, <3>2, <4>1, <4>2
    <3>5. CASE AddGenerationMember(s)
      <4>1. /\ member' = [member EXCEPT ![cand[s]] = @ \cup {Session(s)}]
            /\ derived' = derived /\ cand[s] \in Gens
        BY <1>4, <3>5, Moved DEF AddGenerationMember, Advance, InProgress,
           Sound, HasCandidate
      <4>2. QED
        BY <1>4, <3>1, <3>2, <4>1 DEF TypeOK
    <3>6. CASE ~WriteSession(s) /\ ~AddGenerationMember(s)
      <4>1. derived' = derived /\ member' = member
        BY <3>3, <3>6, RowsKept
      <4>2. pc[s] # "present"
        BY <1>4, <3>6, Presents
      <4>3. QED
        BY <1>4, <3>1, <3>2, <4>1, <4>2
    <3>7. QED
      BY <3>4, <3>5, <3>6
  <2>3. QED
    BY <2>1, <2>2
<1>5. QED
  BY <1>3, <1>4

LEMMA NothingFirstStep ==
    ASSUME TypeOK, InProgress, Owned, Emptied, NothingFirst, [AnyStep]_vars,
           Emptied', OnePerOccurrence'
    PROVE  NothingFirst'
<1>1. ASSUME NEW s \in Scans, Moves(s), active' = 0, Unreclaimed' = {}
      PROVE  derived' = {}
  <2>1. active = 0
    <3>1. Publish(s) => cand[s] \in Gens
      BY DEF Publish, InProgress, Sound, HasCandidate
    <3>2. QED
      BY <1>1, <3>1, PointerKept, NoGeneration
  <2>2. CASE \E g \in Gens : Cleanup(s, g)
    <3>1. Orphans(member)' = {}
      BY <2>2, CleanupLeaves
    <3>2. ASSUME NEW d \in derived' PROVE FALSE
      <4>1. PICK h \in Gens : d \in member'[h]
        BY <3>1 DEF Orphans
      <4>2. gen'[h].state # "none" /\ ~gen'[h].reclaimed
        BY <4>1 DEF Emptied, OnePerOccurrence
      <4>3. QED
        BY <1>1, <4>2, NoGeneration DEF Unreclaimed
    <3>3. QED
      BY <3>2
  <2>3. CASE ~\E g \in Gens : Cleanup(s, g)
    <3>1. ASSUME NEW g \in Gens, gen[g].state # "none", ~gen[g].reclaimed
          PROVE  FALSE
      <4>1. gen'[g].state # "none" /\ ~gen'[g].reclaimed
        BY <1>1, <2>3, <3>1, BornStay, ReclaimedByCleanup
      <4>2. QED
        BY <1>1, <4>1, NoGeneration DEF Unreclaimed
    <3>2. derived = {}
      BY <2>1, <3>1 DEF NothingFirst, Unreclaimed
    <3>3. ~WriteSession(s)
      <4>1. WriteSession(s) => HasCandidate(s)
        BY DEF WriteSession, HasCandidate
      <4>2. HasCandidate(s) => /\ cand[s] \in Gens
                               /\ gen[cand[s]].state # "none"
                               /\ ~gen[cand[s]].reclaimed
        BY DEF Owned, Emptied, InProgress, Sound
      <4>3. QED
        BY <3>1, <4>1, <4>2
    <3>4. QED
      BY <1>1, <2>3, <3>2, <3>3, RowsKept
  <2>4. QED
    BY <2>2, <2>3
<1>2. CASE UNCHANGED Program
  BY <1>2 DEF Program, store, NothingFirst, Unreclaimed
<1>3. QED
  BY <1>1, <1>2, OneMoves DEF NothingFirst

\* What the scans have repaired, started from and first derived.
Mending == \A s \in Scans : Repaired(s) /\ Based(s) /\ First(s)

LEMMA MendingStep ==
    ASSUME TypeOK, InProgress, Owned, Alone, PublishedOnlyActive, Emptied,
           NothingFirst, Mending, [AnyStep]_vars
    PROVE  Mending'
<1>1. ASSUME NEW t \in Scans, pc'[t] = "idle"
      PROVE  Repaired(t)' /\ Based(t)' /\ First(t)'
  BY <1>1 DEF Repaired, Based, First, HasCandidate, Building, Filling
<1>2. ASSUME NEW s \in Scans, Moves(s) PROVE Mending'
  <2>1. ASSUME pc[s] = "idle", pc'[s] # "idle"
        PROVE  Repaired(s)' /\ Based(s)' /\ First(s)'
    <3>1. \E tol \in Tolerance, key \in Keys : Start(s, tol, key)
      <4>1. ~\E g \in Gens : \/ Cleanup(s, g) \/ CleanupRefused(s, g)
                            \/ BeginCandidate(s, g)
        BY <2>1, RepairFlow DEF Flows
      <4>2. ~\E o \in Occs : LookAt(s, o) \/ LookFails(s, o)
        BY <2>1, FillFlow DEF Flows
      <4>3. QED
        BY <1>2, <2>1, <4>1, <4>2, RepairFlow, FillFlow
           DEF Flows, Moves, Work
    <3>2. pc'[s] = "sweep" /\ run'[s].phase = "before"
      BY <3>1, Moved, LocalsFields DEF Start, Idle
    <3>3. QED
      BY <3>2 DEF Repaired, Based, First, HasCandidate, Building, Filling
  <2>2. ASSUME pc[s] # "idle", pc'[s] # "idle"
        PROVE  Repaired(s)' /\ Based(s)' /\ First(s)'
    BY <1>2, <2>2, RepairedStep, BasedStep, FirstStep DEF Mending
  <2>3. QED
    BY <1>1, <1>2, <2>1, <2>2, Solo DEF Mending
<1>3. CASE UNCHANGED Program
  BY <1>3 DEF Program, store, Mending, Repaired, Based, First, HasCandidate,
     Clean, Reclaimable, Orphans, Session
<1>4. QED
  BY <1>2, <1>3, OneMoves

-----------------------------------------------------------------------------
(* The theorems.                                                           *)

LEMMA AlwaysEmptied ==
    ASSUME "drop" \notin Faults
    PROVE  Behaviour => []PublishedOnlyActive /\ []Emptied
<1>1. Init => PublishedOnlyActive /\ Emptied
  BY DEF Init, PublishedOnlyActive, Emptied, Published, HasCandidate,
     GenerationRow
<1>2. TypeOK /\ InProgress /\ Owned /\ Alone /\ PublishedOnlyActive /\ Emptied
        /\ [AnyStep]_vars => PublishedOnlyActive' /\ Emptied'
  BY PublishedOnlyActiveStep, EmptiedStep
<1>3. QED
  BY <1>1, <1>2, AlwaysOwned, AlwaysAlone, AlwaysTyped, PTL DEF Behaviour

LEMMA AlwaysMending ==
    ASSUME "drop" \notin Faults
    PROVE  Behaviour => []NothingFirst /\ []Mending
<1>1. Init => NothingFirst /\ Mending
  BY DEF Init, NothingFirst, Mending, Repaired, Based, First, HasCandidate,
     Building, Filling
<1>2. TypeOK /\ InProgress /\ Owned /\ Emptied /\ NothingFirst /\ [AnyStep]_vars
        /\ Emptied' /\ OnePerOccurrence' => NothingFirst'
  BY NothingFirstStep
<1>3. TypeOK /\ InProgress /\ Owned /\ Alone /\ PublishedOnlyActive /\ Emptied
        /\ NothingFirst /\ Mending /\ [AnyStep]_vars => Mending'
  BY MendingStep
<1>4. QED
  BY <1>1, <1>2, <1>3, AlwaysOwned, AlwaysAlone, AlwaysEmptied,
     AlwaysOneRow, AlwaysTyped, PTL DEF Behaviour

\* Whatever earlier scans left, by errors, kills or lost acknowledgements, is
\* repaired before a scan reads the active generation and begins its own.  The
\* hypothesis is needed: beside a scan that lost its lease nothing is clean.
THEOREM RepairedFirst ==
    ASSUME "drop" \notin Faults
    PROVE  Spec => []RepairedBeforeCandidate
<1>1. TypeOK /\ PublishedOnlyActive /\ Mending => RepairedBeforeCandidate
  BY CleanIsClean DEF Mending, Repaired, Clean, RepairedBeforeCandidate
<1>2. QED
  BY <1>1, AlwaysEmptied, AlwaysMending, AlwaysTyped, SpecBehaves, PTL

\* A scan that published and whose reclaim went through leaves nothing the
\* freshness gate would call dirty, and no row that nothing presents.
THEOREM SuccessIsClean ==
    ASSUME "drop" \notin Faults
    PROVE  Spec => []SuccessLeavesNothing
<1>1. ASSUME TypeOK, Referenced, PublishedOnlyActive, Emptied,
             OnePerOccurrence, Mending, NEW s \in Scans, pc[s] = "release",
             run[s].phase = "after"
      PROVE  /\ Unreclaimed = {}
             /\ run[s].result = "complete" => derived = member[active]
  <2>1. Unreclaimed = {} /\ active # 0
    BY <1>1, CleanIsClean DEF Mending, Repaired, Based
  <2>2. run[s].result = "complete" => Orphans(member) = {}
    BY <1>1 DEF Mending, Based
  <2>3. QED
    BY <1>1, <2>1, <2>2, OnlyActivePresents DEF Presented
<1>2. TypeOK /\ Referenced /\ PublishedOnlyActive /\ Emptied
        /\ OnePerOccurrence /\ Mending => SuccessLeavesNothing
  BY <1>1 DEF SuccessLeavesNothing
<1>3. QED
  BY <1>2, AlwaysOwned, AlwaysEmptied, AlwaysOneRow, AlwaysMending,
     AlwaysTyped, SpecBehaves, PTL

\* A scan that failed its candidate and whose reclaim went through leaves the
\* catalog as it found it: the same generation answers and nothing else is kept.
THEOREM FailureIsClean ==
    ASSUME "drop" \notin Faults
    PROVE  Spec => []FailureLeavesNothing
<1>1. ASSUME TypeOK, Referenced, PublishedOnlyActive, Emptied,
             OnePerOccurrence, Mending, NEW s \in Scans, pc[s] = "release",
             run[s].phase = "abandon"
      PROVE  /\ active = run[s].base /\ Unreclaimed = {}
             /\ derived = Presented(active)
  <2>1. Clean /\ Orphans(member) = {} /\ active = run[s].base
    BY <1>1 DEF Mending, Repaired, Based, Clean
  <2>2. QED
    BY <1>1, <2>1, CleanIsClean, OnlyActivePresents
<1>2. TypeOK /\ Referenced /\ PublishedOnlyActive /\ Emptied
        /\ OnePerOccurrence /\ Mending => FailureLeavesNothing
  BY <1>1 DEF FailureLeavesNothing
<1>3. QED
  BY <1>2, AlwaysOwned, AlwaysEmptied, AlwaysOneRow, AlwaysMending,
     AlwaysTyped, SpecBehaves, PTL

-----------------------------------------------------------------------------

\* What is listed is still to do, presented at the listed token, or recorded as
\* a failure; and only what is listed is presented.
Fills(s) ==
    /\ pc[s] \in Building =>
        /\ \A o \in Occs : run[s].listing[o] # 0 =>
              \/ o \in run[s].work
              \/ \E d \in member[cand[s]] : /\ d.rev.occ = o
                                            /\ d.rev.tok = run[s].listing[o]
              \/ [kind |-> "source", harness |-> HarnessOf[o]]
                     \in run[s].failures
        /\ \A d \in member[cand[s]] : /\ run[s].listing[d.rev.occ] # 0
                                      /\ d.key = run[s].key
    /\ pc[s] \in {"count", "index", "publish"} => run[s].work = {}
    /\ pc[s] = "confirm" => Session(s) \in member[cand[s]]
    /\ pc[s] \in {"retain", "write", "present", "confirm"} =>
           run[s].rev.tok = run[s].listing[run[s].rev.occ]
AllFill == \A s \in Scans : Fills(s)

\* The members of a candidate that is being filled only grow.
LEMMA CandidateGrows ==
    ASSUME TypeOK, InProgress, NEW s \in Scans, Moves(s), pc[s] \in Building
    PROVE  member'[cand[s]] = IF AddGenerationMember(s) /\ s \notin stale
                              THEN member[cand[s]] \cup {Session(s)}
                              ELSE member[cand[s]]
<1>1. ~\E g \in Gens : Cleanup(s, g)
  BY DEF Cleanup, Building, Filling
<1>2. cand[s] \in Gens
  BY DEF InProgress, Sound, HasCandidate, Building, Filling
<1>3. CASE AddGenerationMember(s)
  BY <1>2, <1>3 DEF AddGenerationMember, TypeOK
<1>4. CASE ~AddGenerationMember(s)
  BY <1>1, <1>4, RowsKept
<1>5. QED
  BY <1>3, <1>4

LEMMA FillsStep ==
    ASSUME TypeOK, InProgress, Checkpointed, OnePerOccurrence,
           NEW s \in Scans, Fills(s), Moves(s)
    PROVE  Fills(s)'
<1>0. /\ run[s] \in Locals /\ Sound(s) /\ Apiece(s)
      /\ \A o \in Occs : ver[o] # 0
      /\ 0 \notin Toks
  BY LocalsFields, CatalogAssumption
     DEF InProgress, OnePerOccurrence, TypeOK
<1>1. ASSUME ObserveSources(s), pc'[s] \in Building PROVE Fills(s)'
  <2>1. pc'[s] = "look" /\ pc[s] = "observe"
    BY <1>1, FillFlow DEF Flows, Building, Filling
  <2>2. run'[s] = [run[s] EXCEPT
              !.listing = [o \in Occs |-> IF Listed(o) THEN ver[o] ELSE 0],
              !.work = {o \in Occs : Listed(o)},
              !.failures = {[kind |-> "harness", harness |-> h] :
                                h \in unlisted}]
    BY <1>1, <2>1, Moved DEF ObserveSources, Advance
  <2>3. /\ run'[s].listing = [o \in Occs |-> IF Listed(o) THEN ver[o] ELSE 0]
        /\ run'[s].work = {o \in Occs : Listed(o)}
    BY <1>0, <2>2 DEF Locals
  <2>4. member'[cand'[s]] = {}
    BY <1>0, <1>1, <2>1 DEF ObserveSources, store, Apiece
  <2>5. QED
    BY <2>1, <2>3, <2>4 DEF Fills
<1>2. ASSUME ~ObserveSources(s), pc'[s] \in Building
      PROVE  /\ \A o \in Occs : run'[s].listing[o] # 0 =>
                   \/ o \in run'[s].work
                   \/ \E d \in member'[cand'[s]] :
                          /\ d.rev.occ = o
                          /\ d.rev.tok = run'[s].listing[o]
                   \/ [kind |-> "source", harness |-> HarnessOf[o]]
                          \in run'[s].failures
             /\ \A d \in member'[cand'[s]] : /\ run'[s].listing[d.rev.occ] # 0
                                             /\ d.key = run'[s].key
  <2>1. /\ pc[s] \in Building /\ cand'[s] = cand[s]
        /\ run'[s].listing = run[s].listing /\ run'[s].key = run[s].key
        /\ run[s].failures \subseteq run'[s].failures
    BY <1>2, FillKept
  <2>2. /\ member[cand[s]] \subseteq member'[cand'[s]]
        /\ \A d \in member'[cand'[s]] :
               \/ d \in member[cand[s]]
               \/ AddGenerationMember(s) /\ d = Session(s)
    BY <2>1, CandidateGrows
  <2>3. ASSUME NEW o \in run[s].work, o \notin run'[s].work
        PROVE  \/ \E d \in member[cand[s]] : /\ d.rev.occ = o
                                             /\ d.rev.tok = run[s].listing[o]
               \/ [kind |-> "source", harness |-> HarnessOf[o]]
                      \in run'[s].failures
    <3>1. /\ o = run[s].rev.occ
          /\ PutCheckpoint(s) \/ AbsorbFailure(s)
      BY <1>2, <2>3, FillKept
    <3>2. CASE AbsorbFailure(s)
      BY <1>2, <3>1, <3>2, FillKept
    <3>3. CASE PutCheckpoint(s)
      <4>1. pc[s] = "confirm"
        BY <3>3 DEF PutCheckpoint
      <4>2. /\ Session(s) \in member[cand[s]]
            /\ Session(s).rev.occ = o /\ Session(s).rev.tok = run[s].listing[o]
        BY <3>1, <4>1 DEF Fills, Session
      <4>3. QED
        BY <4>2
    <3>4. QED
      BY <3>1, <3>2, <3>3
  <2>4. AddGenerationMember(s) => /\ run[s].listing[Session(s).rev.occ] # 0
                                  /\ Session(s).key = run[s].key
    BY <1>0 DEF AddGenerationMember, Apiece, Filling, Sound, Session
  <2>5. QED
    BY <2>1, <2>2, <2>3, <2>4 DEF Fills
<1>3. ASSUME pc'[s] \in {"count", "index", "publish"}
      PROVE  run'[s].work = {}
  <2>1. CASE TombstoneUnseen(s)
    BY <2>1 DEF TombstoneUnseen
  <2>2. CASE CountCandidate(s) \/ MaintainIndexes(s)
    BY <2>2 DEF CountCandidate, MaintainIndexes, Fills
  <2>3. QED
    BY <1>3, <2>1, <2>2, CameFrom
<1>4. ASSUME pc'[s] = "confirm" PROVE Session(s)' \in member'[cand'[s]]
  <2>1. AddGenerationMember(s)
    BY <1>4, CameFrom
  <2>2. s \notin stale /\ run' = run /\ cand' = cand /\ pc[s] = "present"
    BY <1>4, <2>1, Moved DEF AddGenerationMember, Advance
  <2>3. QED
    BY <2>1, <2>2, CandidateGrows DEF Building, Filling, Session
<1>5. ASSUME pc'[s] \in {"retain", "write", "present", "confirm"}
      PROVE  run'[s].rev.tok = run'[s].listing[run'[s].rev.occ]
  <2>1. CASE ReadTranscript(s)
    <3>1. pc'[s] = "retain" /\ pc[s] = "read"
      BY <1>5, <2>1, FillFlow DEF Flows, ReadTranscript
    <3>2. run'[s] = [run[s] EXCEPT
              !.rev = [occ |-> run[s].rev.occ,
                       tok |-> run[s].listing[run[s].rev.occ],
                       body |-> ver[run[s].rev.occ]]]
      BY <2>1, <3>1, Moved DEF ReadTranscript, Advance
    <3>3. QED
      BY <1>0, <3>2 DEF Locals
  <2>2. CASE \/ RetainRevision(s) \/ WriteSession(s) \/ AddGenerationMember(s)
    BY <2>2 DEF RetainRevision, WriteSession, AddGenerationMember, Fills
  <2>3. CASE \E o \in Occs : LookAt(s, o)
    <3>1. PICK o \in Occs : LookAt(s, o)
      BY <2>3
    <3>2. pc'[s] = "present"
      BY <1>5, <3>1, FillFlow DEF Flows
    <3>3. /\ run'[s] = [run[s] EXCEPT !.seen = @ \cup {o},
                                      !.rev = checkpoint[o]]
          /\ checkpoint[o] # NoRevision
          /\ checkpoint[o].tok = run[s].listing[o]
      BY <3>1, <3>2, Moved DEF LookAt, Advance
    <3>4. checkpoint[o].occ = o
      BY <3>3 DEF Checkpointed
    <3>5. QED
      BY <1>0, <3>3, <3>4 DEF Locals
  <2>4. QED
    BY <1>5, <2>1, <2>2, <2>3, CameFrom
<1>6. QED
  BY <1>1, <1>2, <1>3, <1>4, <1>5 DEF Fills

LEMMA AllFillStep ==
    ASSUME TypeOK, InProgress, Alone, Checkpointed, OnePerOccurrence, AllFill,
           [AnyStep]_vars
    PROVE  AllFill'
<1>1. ASSUME NEW s \in Scans, Moves(s) PROVE AllFill'
  <2>1. \A t \in Scans \ {s} : Fills(t)'
    BY <1>1, Solo DEF Fills, Building, Filling
  <2>2. QED
    BY <1>1, <2>1, FillsStep DEF AllFill
<1>2. CASE UNCHANGED Program
  BY <1>2 DEF Program, store, AllFill, Fills, Session
<1>3. QED
  BY <1>1, <1>2, OneMoves

LEMMA AlwaysFills ==
    ASSUME "drop" \notin Faults
    PROVE  Behaviour => []AllFill
<1>1. Init => AllFill
  BY DEF Init, AllFill, Fills, Building, Filling
<1>2. TypeOK /\ InProgress /\ Alone /\ Checkpointed /\ OnePerOccurrence
        /\ AllFill /\ [AnyStep]_vars => AllFill'
  BY AllFillStep
<1>3. QED
  BY <1>1, <1>2, AlwaysAlone, AlwaysSeen, AlwaysOneRow, AlwaysTyped, PTL
     DEF Behaviour

\* A candidate that is about to be published presents every listed transcript
\* once, at the listed token, unless the failure of its source is recorded:
\* for any number of transcripts, errors, kills and lost acknowledgements.  The
\* hypothesis is needed: the sweep of a scan that starts beside one without
\* its lease drops the rows of the other's candidate.
THEOREM NothingIsMissing ==
    ASSUME "drop" \notin Faults
    PROVE  Spec => []NothingMissingSilently
<1>1. TypeOK /\ InProgress /\ OnePerOccurrence /\ AllFill
          => NothingMissingSilently
  BY DEF NothingMissingSilently, AllFill, Fills, Building, OnePerOccurrence,
     InProgress, Sound, HasCandidate
<1>2. QED
  BY <1>1, AlwaysFills, AlwaysOneRow, AlwaysTyped, SpecBehaves, PTL

\* A generation that was failed or published never opens again.
Closed(g) == gen[g].state \notin {"none", "building"}

LEMMA ClosedStay ==
    ASSUME TypeOK, NEW s \in Scans, Moves(s)
    PROVE  \A g \in Gens : Closed(g) => Closed(g)'
<1>1. CASE SweepAbandonedCandidates(s)
  BY <1>1 DEF SweepAbandonedCandidates, Abandoned, TypeOK, Generation, Closed
<1>2. CASE \E g \in Gens : BeginCandidate(s, g)
  BY <1>2 DEF BeginCandidate, TypeOK, Closed
<1>3. CASE MaintainIndexes(s) \/ MarkFailed(s)
  <2>1. \/ gen' = gen
        \/ gen' = [gen EXCEPT ![cand[s]].state = "failed"]
    BY <1>3 DEF MaintainIndexes, MarkFailed
  <2>2. QED
    BY <2>1 DEF TypeOK, Generation, Closed
<1>4. CASE Publish(s)
  BY <1>4 DEF Publish, PublishState, TypeOK, Generation, Closed
<1>5. QED
  BY <1>1, <1>2, <1>3, <1>4, StatesKept DEF Moves, Closed

\* Whatever leases are lost, a candidate that is still open is filled by the
\* scan that began it alone, and cleaned up by nobody.
OpenFills ==
    \A s \in Scans : pc[s] \in Building /\ gen[cand[s]].state = "building" =>
        Fills(s)

LEMMA OpenFillsStep ==
    ASSUME TypeOK, InProgress, Owned, Checkpointed, OnePerOccurrence, OpenFills,
           [AnyStep]_vars
    PROVE  OpenFills'
<1>0. \A s \in Scans : pc[s] \in Building =>
          HasCandidate(s) /\ cand[s] \in Gens /\ gen[cand[s]].state # "none"
  BY DEF InProgress, Sound, Owned, HasCandidate, Building, Filling
<1>1. ASSUME NEW s \in Scans, Moves(s), pc'[s] \in Building,
             gen'[cand'[s]].state = "building"
      PROVE  Fills(s)'
  <2>1. CASE ObserveSources(s)
    BY <1>1, <2>1, FillsStep DEF ObserveSources, Fills, Building, Filling
  <2>2. CASE ~ObserveSources(s)
    <3>1. pc[s] \in Building /\ cand'[s] = cand[s]
      BY <1>1, <2>2, FillKept
    <3>2. gen[cand[s]].state = "building"
      BY <1>0, <1>1, <3>1, ClosedStay DEF Closed
    <3>3. QED
      BY <1>1, <3>1, <3>2, FillsStep DEF OpenFills
  <2>3. QED
    BY <2>1, <2>2
<1>2. ASSUME NEW s \in Scans, NEW t \in Scans \ {s}, Moves(t),
             pc'[s] \in Building, gen'[cand'[s]].state = "building"
      PROVE  Fills(s)'
  <2>1. /\ pc'[s] = pc[s] /\ cand'[s] = cand[s] /\ run'[s] = run[s]
        /\ Session(s)' = Session(s)
    BY <1>2, OthersRest
  <2>2. gen[cand[s]].state = "building" /\ Fills(s)
    BY <1>0, <1>2, <2>1, ClosedStay DEF Closed, OpenFills
  <2>3. member'[cand[s]] = member[cand[s]]
    <3>1. CASE AddGenerationMember(t)
      <4>1. HasCandidate(t) /\ cand[t] # cand[s]
        BY <1>0, <1>2, <2>1, <3>1 DEF AddGenerationMember, HasCandidate, Owned
      <4>2. QED
        BY <1>0, <1>2, <2>1, <3>1, <4>1 DEF AddGenerationMember, TypeOK
    <3>2. CASE \E g \in Gens : Cleanup(t, g)
      <4>1. PICK g \in Gens : Cleanup(t, g)
        BY <3>2
      <4>2. g # cand[s]
        BY <2>2, <4>1 DEF Cleanup, Refused, Discarded
      <4>3. QED
        BY <1>0, <1>2, <2>1, <4>1, <4>2 DEF Cleanup, TypeOK
    <3>3. QED
      BY <1>2, <3>1, <3>2, RowsKept
  <2>4. QED
    BY <2>1, <2>2, <2>3 DEF Fills
<1>3. CASE UNCHANGED Program
  BY <1>3 DEF Program, store, OpenFills, Fills, Session
<1>4. QED
  BY <1>1, <1>2, <1>3, OneMoves DEF OpenFills

LEMMA AlwaysOpenFills == Behaviour => []OpenFills
<1>1. Init => OpenFills
  BY DEF Init, OpenFills, Building, Filling
<1>2. TypeOK /\ InProgress /\ Owned /\ Checkpointed /\ OnePerOccurrence
        /\ OpenFills /\ [AnyStep]_vars => OpenFills'
  BY OpenFillsStep
<1>3. QED
  BY <1>1, <1>2, AlwaysOwned, AlwaysSeen, AlwaysOneRow, AlwaysTyped, PTL
     DEF Behaviour

\* What the generation that becomes the answer presents: each transcript of the
\* listing of its scan, at the listed token, unless it declares the failure of
\* its source, and nothing else.
PresentsListing(s) ==
    /\ \A o \in Occs : run[s].listing[o] # 0 =>
          \/ \E d \in member'[active'] : /\ d.rev.occ = o
                                        /\ d.rev.tok = run[s].listing[o]
          \/ [kind |-> "source", harness |-> HarnessOf[o]]
                 \in gen'[active'].declared
    /\ \A d \in member'[active'] : run[s].listing[d.rev.occ] # 0

\* What is published misses nothing silently, whatever faults come together,
\* lost leases and lost acknowledgements included.  A candidate that another
\* scan has emptied was failed by that scan before, and Publish refuses it.
THEOREM PublishedIsFilled ==
    Spec => [][\A s \in Scans : Publish(s) => PresentsListing(s)]_vars
<1>1. ASSUME TypeOK, InProgress, OpenFills, NEW s \in Scans, Publish(s)
      PROVE  PresentsListing(s)
  <2>1. /\ active' = cand[s] /\ member' = member /\ cand[s] \in Gens
        /\ pc[s] = "publish" /\ gen[cand[s]].state = "building"
    BY <1>1 DEF Publish, InProgress, Sound, HasCandidate
  <2>2. gen'[cand[s]].declared = FailedSources(run[s].failures)
    BY <1>1, <2>1 DEF Publish, TypeOK, Generation
  <2>3. Fills(s)
    BY <1>1, <2>1 DEF OpenFills, Building
  <2>4. QED
    BY <2>1, <2>2, <2>3 DEF Fills, Building, FailedSources, PresentsListing
<1>2. TypeOK /\ InProgress /\ OpenFills
          => [\A s \in Scans : Publish(s) => PresentsListing(s)]_vars
  BY <1>1
<1>3. QED
  BY <1>2, AlwaysOpenFills, AlwaysTyped, SpecBehaves, PTL

-----------------------------------------------------------------------------
(* The counts.                                                             *)

\* The incremental counts are the counts.
LEMMA CountByDifference ==
    ASSUME NEW A, NEW B, IsFiniteSet(A), IsFiniteSet(B)
    PROVE  Cardinality(B) = Cardinality(A) + Cardinality(B \ A)
                                           - Cardinality(A \ B)
<1>1. B \cap A = A \cap B
  OBVIOUS
<1>2. /\ Cardinality(B \ A) = Cardinality(B) - Cardinality(A \cap B)
      /\ Cardinality(A \ B) = Cardinality(A) - Cardinality(A \cap B)
  BY <1>1, FS_Difference
<1>3. IsFiniteSet(A \cap B)
  BY FS_Intersection
<1>4. /\ Cardinality(A) \in Nat /\ Cardinality(B) \in Nat
      /\ Cardinality(A \cap B) \in Nat
  BY <1>3, FS_CardinalityType
<1>5. QED
  BY <1>2, <1>4

\* Recorded counts that are those of the members of g.
CountsOf(g) ==
    /\ gen[g].counts.sessions = Cardinality(member[g])
    /\ gen[g].counts.known => gen[g].counts.over = member[g]
Counted == \A s \in Scans : pc[s] \in {"index", "publish"} => CountsOf(cand[s])

LEMMA CountsStep ==
    ASSUME TypeOK, InProgress, Owned, Referenced, Alone, Mending, Counted,
           CountsTrue, [AnyStep]_vars
    PROVE  Counted' /\ CountsTrue'
<1>1. ASSUME NEW g \in Gens, gen'[g].counts = gen[g].counts,
             member'[g] = member[g], CountsOf(g)
      PROVE  CountsOf(g)'
  BY <1>1 DEF CountsOf
<1>2. ASSUME NEW s \in Scans, CountCandidate(s) PROVE CountsOf(cand[s])'
  <2>1. /\ HasCandidate(s) /\ cand[s] \in Gens /\ run[s].base = active
        /\ member' = member /\ cand' = cand /\ active \in Gens \cup {0}
    BY <1>2 DEF CountCandidate, HasCandidate, InProgress, Sound, Mending,
       Based, TypeOK
  <2>2. PICK counts :
            /\ gen' = [gen EXCEPT ![cand[s]].counts = counts]
            /\ counts = IF active # 0 /\ gen[active].counts # NoCounts
                        THEN IncrementalCounts(member[cand[s]], member[active],
                                               gen[active].counts)
                        ELSE FullCounts(member[cand[s]])
    BY <1>2, <2>1 DEF CountCandidate
  <2>3. gen'[cand[s]].counts = counts
    BY <2>1, <2>2 DEF TypeOK, Generation
  <2>4. /\ counts.sessions = Cardinality(member[cand[s]])
        /\ counts.known => counts.over = member[cand[s]]
    <3>1. CASE active # 0 /\ gen[active].counts # NoCounts
      <4>1. CountsOf(active)
        BY <3>1 DEF CountsTrue, CountsOf
      <4>2. IsFiniteSet(member[active]) /\ IsFiniteSet(member[cand[s]])
        BY <2>1, <3>1, FS_Subset, FiniteAssumption DEF TypeOK
      <4>3. counts.sessions = gen[active].counts.sessions
                + Cardinality(member[cand[s]] \ member[active])
                - Cardinality(member[active] \ member[cand[s]])
        BY <2>2, <3>1 DEF IncrementalCounts
      <4>4. counts.sessions = Cardinality(member[cand[s]])
        BY <4>1, <4>2, <4>3, CountByDifference DEF CountsOf
      <4>5. ASSUME counts.known PROVE counts.over = member[cand[s]]
        <5>1. /\ member[cand[s]] \ member[active] = {}
              /\ member[active] \ member[cand[s]] = {}
              /\ gen[active].counts.known
              /\ counts.over = gen[active].counts.over
          BY <2>2, <3>1, <4>5 DEF IncrementalCounts
        <5>2. QED
          BY <4>1, <5>1 DEF CountsOf
      <4>6. QED
        BY <4>4, <4>5
    <3>2. CASE ~(active # 0 /\ gen[active].counts # NoCounts)
      BY <2>2, <3>2 DEF FullCounts
    <3>3. QED
      BY <3>1, <3>2
  <2>5. QED
    BY <2>1, <2>3, <2>4 DEF CountsOf
<1>3. ASSUME NEW s \in Scans, Moves(s), pc'[s] \in {"index", "publish"}
      PROVE  CountsOf(cand[s])' /\ cand'[s] = cand[s]
  <2>1. CASE CountCandidate(s)
    BY <1>2, <2>1 DEF CountCandidate
  <2>2. CASE MaintainIndexes(s)
    <3>1. pc'[s] = "publish" /\ gen' = gen /\ member' = member
            /\ cand' = cand /\ pc[s] = "index"
      BY <1>3, <2>2, Moved DEF MaintainIndexes, Advance
    <3>2. QED
      BY <3>1 DEF Counted, CountsOf
  <2>3. QED
    BY <1>3, <2>1, <2>2, CameFrom
<1>4. ASSUME NEW s \in Scans, Moves(s) PROVE Counted'
  BY <1>3, <1>4, Solo DEF Counted, CountsOf
<1>5. ASSUME active' # 0 PROVE CountsOf(active)'
  <2>1. CASE active' = active
    <3>1. /\ active \in Gens /\ CountsOf(active)
          /\ member'[active] = member[active]
          /\ gen'[active].counts = gen[active].counts
      BY <1>5, <2>1, ActiveUntouched DEF CountsTrue, CountsOf, TypeOK
    <3>2. QED
      BY <2>1, <3>1 DEF CountsOf
  <2>2. CASE active' # active
    <3>1. PICK s \in Scans : Publish(s) /\ active' = cand[s]
      BY <2>2, OneMoves, PointerKept DEF Program, store
    <3>2. /\ cand[s] \in Gens /\ CountsOf(cand[s]) /\ member' = member
      BY <3>1 DEF Publish, InProgress, Sound, HasCandidate, Counted
    <3>3. gen'[cand[s]].counts = gen[cand[s]].counts
      BY <3>1, <3>2 DEF Publish, TypeOK, Generation
    <3>4. QED
      BY <3>1, <3>2, <3>3 DEF CountsOf
  <2>3. QED
    BY <2>1, <2>2
<1>6. CASE UNCHANGED Program
  BY <1>5, <1>6 DEF Program, store, Counted, CountsTrue, CountsOf
<1>7. QED
  BY <1>4, <1>5, <1>6, OneMoves DEF CountsTrue, CountsOf

\* The counts of the answering generation are the counts of what it presents,
\* over chains of refreshes of any length, each of which only adds and
\* subtracts what it changed; and the resolution of relations it reports was
\* computed over exactly those sessions.
THEOREM CountsAreTrue ==
    ASSUME "drop" \notin Faults
    PROVE  Spec => []CountsTrue
<1>1. Init => Counted /\ CountsTrue
  BY DEF Init, Counted, CountsTrue
<1>2. TypeOK /\ InProgress /\ Owned /\ Referenced /\ Alone /\ Mending /\ Counted
        /\ CountsTrue /\ [AnyStep]_vars => Counted' /\ CountsTrue'
  BY CountsStep
<1>3. QED
  BY <1>1, <1>2, AlwaysOwned, AlwaysAlone, AlwaysMending, AlwaysTyped, SpecBehaves,
     PTL DEF Behaviour

=============================================================================
