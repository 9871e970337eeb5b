------------------------- MODULE CatalogScan_proofs -------------------------
(* Theorems about CatalogScan for every value of its constants.            *)
EXTENDS CatalogScan, FiniteSetTheorems, TLAPS

\* The steps of one scan, whatever it tolerates: a scan that was asked for
\* tolerates nothing or everything, one that catches up for a search what the
\* active generation declares.
Moves(s) ==
    \/ Work(s) \/ Kill(s)
    \/ \E tol \in Tolerance, key \in Keys : Start(s, tol, key)

\* What the proofs are about: the scans of Spec, and those a search starts.
AnyStep == (\E s \in Scans : Moves(s)) \/ DropLease \/ Edit
Behaviour == Init /\ [][AnyStep]_vars

LEMMA TolerancesType == Strict \in Tolerance /\ Partial \in Tolerance
BY DEF Strict, Partial, Tolerance

LEMMA SpecBehaves == Spec => Behaviour
<1>1. [Next]_vars => [AnyStep]_vars
  BY TolerancesType DEF Next, AnyStep, Moves
<1>2. QED
  BY <1>1, PTL DEF Spec, Behaviour

\* The counts a scan records are counts, whatever it presents.
LEMMA CountsType ==
    ASSUME NEW mine \in SUBSET Rows, NEW theirs \in SUBSET Rows,
           NEW inherited \in Counts
    PROVE  /\ IncrementalCounts(mine, theirs, inherited) \in Counts
           /\ FullCounts(mine) \in Counts
<1>1. IsFiniteSet(mine) /\ IsFiniteSet(mine \ theirs)
        /\ IsFiniteSet(theirs \ mine)
  <2>1. mine \in SUBSET Rows /\ (mine \ theirs) \in SUBSET Rows
          /\ (theirs \ mine) \in SUBSET Rows
    OBVIOUS
  <2>2. QED
    BY <2>1, FiniteAssumption, FS_Subset
<1>2. /\ Cardinality(mine) \in Nat
      /\ Cardinality(mine \ theirs) \in Nat
      /\ Cardinality(theirs \ mine) \in Nat
  BY <1>1, FS_CardinalityType
<1>3. QED
  BY <1>2 DEF IncrementalCounts, FullCounts, Counts

\* A generation that recorded nothing has the counts the code stores as NULL.
LEMMA NoCountsType == NoCounts \in Counts
BY DEF NoCounts, Counts

\* Every scan starts and ends with well-typed locals.
LEMMA IdleType == Idle \in Locals
<1>1. (CHOOSE k \in Keys : TRUE) \in Keys
  BY CatalogAssumption
<1>2. QED
  BY <1>1 DEF Idle, Locals, Tolerance, Strict, NoRevision

LEMMA TypeInit == Init => TypeOK
<1> SUFFICES ASSUME Init PROVE TypeOK
  OBVIOUS
<1>1. GenerationRow("none", 0) \in Generation
  BY DEF GenerationRow, Generation, States, NoCounts, Counts
<1>2. QED
  BY <1>1, IdleType, CatalogAssumption DEF Init, TypeOK, Steps

-----------------------------------------------------------------------------
(* Type correctness.                                                       *)

\* Reading the fields of a type-correct scan's locals.
LEMMA LocalsFields ==
    ASSUME TypeOK, NEW s \in Scans
    PROVE  /\ run[s] \in Locals
           /\ cand[s] \in Gens \cup {0}
           /\ pc[s] \in Steps
           /\ OnError(s) \in Steps
           /\ AfterReclaim(s) \in Steps
           /\ Idle \in Locals
BY IdleType DEF TypeOK, OnError, AfterReclaim, Steps

\* A statement moves one scan to a step and counts at most one fault.
LEMMA StatementType ==
    ASSUME TypeOK, NEW s \in Scans, NEW step \in Steps,
           \/ Advance(s, step) \/ Commit(s, step)
           \/ \E kind \in {"error", "lost", "kill", "drop"} :
                  Fault(kind) /\ Goto(s, step)
    PROVE  pc' \in [Scans -> Steps] /\ faults' \in Nat
BY LocalsFields DEF TypeOK, Advance, Commit, Fault, Goto

\* The actions of the repair: typed, whatever was left behind.
LEMMA RepairType ==
    ASSUME TypeOK, NEW s \in Scans,
           \/ SweepAbandonedCandidates(s) \/ ListReclaimable(s)
           \/ \E g \in Gens : Cleanup(s, g) \/ CleanupRefused(s, g)
           \/ Settle(s) \/ ActiveGeneration(s)
           \/ \E g \in Gens : BeginCandidate(s, g)
    PROVE  TypeOK'
<1>0. /\ run[s] \in Locals /\ AfterReclaim(s) \in Steps
      /\ OnError(s) \in Steps
  BY LocalsFields
<1>1. CASE SweepAbandonedCandidates(s)
  <2>1. pc' \in [Scans -> Steps] /\ faults' \in Nat
    BY <1>1, StatementType DEF SweepAbandonedCandidates, Steps
  <2>2. gen' \in [Gens -> Generation]
    BY <1>1 DEF SweepAbandonedCandidates, TypeOK, Generation, States
  <2>3. QED
    BY <1>1, <2>1, <2>2 DEF SweepAbandonedCandidates, TypeOK, disk
<1>2. CASE ListReclaimable(s)
  <2>1. pc' \in [Scans -> Steps] /\ faults' \in Nat
    BY <1>0, <1>2, StatementType DEF ListReclaimable, Steps
  <2>2. run' \in [Scans -> Locals]
    BY <1>0, <1>2 DEF ListReclaimable, Update, TypeOK, Locals, Reclaimable
  <2>3. QED
    BY <1>2, <2>1, <2>2 DEF ListReclaimable, TypeOK, store, disk
<1>3. ASSUME NEW g \in Gens, Cleanup(s, g) PROVE TypeOK'
  <2>1. pc' \in [Scans -> Steps] /\ faults' \in Nat
    BY <1>0, <1>3 DEF Cleanup, Advance, Goto, Fault, TypeOK, Steps
  <2>2. run' \in [Scans -> Locals]
    <3>1. [run[s] EXCEPT !.todo = @ \ {g}] \in Locals
      BY <1>0 DEF Locals
    <3>2. [run[s] EXCEPT !.phase = "stuck"] \in Locals
      BY <1>0 DEF Locals
    <3>3. QED
      BY <1>3, <3>1, <3>2 DEF Cleanup, Update, TypeOK
  <2>3. gen' \in [Gens -> Generation]
    BY <1>0, <1>3 DEF Cleanup, TypeOK, Generation
  <2>4. member' \in [Gens -> SUBSET Rows] /\ derived' \subseteq Rows
          /\ stale' \subseteq Scans
    BY <1>0, <1>3 DEF Cleanup, TypeOK
  <2>5. QED
    BY <1>3, <2>1, <2>2, <2>3, <2>4 DEF Cleanup, TypeOK, disk
<1>4. ASSUME NEW g \in Gens, CleanupRefused(s, g) PROVE TypeOK'
  <2>1. pc' \in [Scans -> Steps] /\ faults' \in Nat
    BY <1>4, StatementType DEF CleanupRefused, Steps
  <2>2. run' \in [Scans -> Locals]
    BY <1>0, <1>4 DEF CleanupRefused, Update, TypeOK, Locals
  <2>3. QED
    BY <1>4, <2>1, <2>2 DEF CleanupRefused, TypeOK, store, disk
<1>5. CASE Settle(s)
  <2>1. pc' \in [Scans -> Steps] /\ faults' \in Nat
    BY <1>0, <1>5, StatementType DEF Settle
  <2>2. QED
    BY <1>5, <2>1 DEF Settle, TypeOK, store, disk
<1>6. CASE ActiveGeneration(s)
  <2>1. pc' \in [Scans -> Steps] /\ faults' \in Nat
    BY <1>6, StatementType DEF ActiveGeneration, Steps
  <2>2. run' \in [Scans -> Locals]
    BY <1>0, <1>6 DEF ActiveGeneration, Update, TypeOK, Locals
  <2>3. QED
    BY <1>6, <2>1, <2>2 DEF ActiveGeneration, TypeOK, store, disk
<1>7. ASSUME NEW g \in Gens, BeginCandidate(s, g) PROVE TypeOK'
  <2>1. pc' \in [Scans -> Steps] /\ faults' \in Nat
    BY <1>7 DEF BeginCandidate, Advance, Goto, Fault, TypeOK, Steps
  <2>2. GenerationRow("building", run[s].base) \in Generation
    BY <1>0 DEF GenerationRow, Generation, States, NoCounts, Counts, Locals
  <2>3. gen' \in [Gens -> Generation] /\ cand' \in [Scans -> Gens \cup {0}]
    BY <1>7, <2>2 DEF BeginCandidate, TypeOK
  <2>4. QED
    BY <1>7, <2>1, <2>3 DEF BeginCandidate, TypeOK, disk
<1>8. QED
  BY <1>1, <1>2, <1>3, <1>4, <1>5, <1>6, <1>7

LEMMA NoRevisionType ==
    NoRevision \in [occ : Occs \cup {0}, tok : Toks \cup {0},
                    body : Toks \cup {0}]
BY DEF NoRevision

\* The actions that fill a candidate: typed, because a session in progress
\* holds what the listing and the read gave it.
LEMMA FillType ==
    ASSUME TypeOK, InProgress, NEW s \in Scans,
           \/ ObserveSources(s) \/ ReadTranscript(s) \/ RetainRevision(s)
           \/ WriteSession(s) \/ AddGenerationMember(s) \/ PutCheckpoint(s)
           \/ AbsorbFailure(s) \/ TombstoneUnseen(s)
           \/ \E o \in Occs : LookAt(s, o) \/ LookFails(s, o)
    PROVE  TypeOK'
<1>0. run[s] \in Locals /\ OnError(s) \in Steps
  BY LocalsFields
<1>1. CASE ObserveSources(s)
  <2>1. pc' \in [Scans -> Steps] /\ faults' \in Nat
    BY <1>1, StatementType DEF ObserveSources, Steps
  <2>2. run' \in [Scans -> Locals]
    <3> DEFINE listed == [run[s] EXCEPT
                  !.listing = [o \in Occs |-> IF Listed(o) THEN ver[o] ELSE 0],
                  !.work = {o \in Occs : Listed(o)},
                  !.failures = {[kind |-> "harness", harness |-> h] :
                                    h \in unlisted}]
    <3>1. /\ [o \in Occs |-> IF Listed(o) THEN ver[o] ELSE 0]
                \in [Occs -> Toks \cup {0}]
          /\ {o \in Occs : Listed(o)} \subseteq Occs
          /\ {[kind |-> "harness", harness |-> h] : h \in unlisted}
                \subseteq Failures
      BY DEF TypeOK, Failures
    <3>2. listed \in Locals
      BY <1>0, <3>1 DEF Locals
    <3>3. run' = [run EXCEPT ![s] = listed] \/ run' = run
      BY <1>1 DEF ObserveSources, Update
    <3>4. QED
      BY <3>2, <3>3 DEF TypeOK
  <2>3. QED
    BY <1>1, <2>1, <2>2 DEF ObserveSources, TypeOK, store, disk
<1>2. CASE ReadTranscript(s)
  <2>1. pc' \in [Scans -> Steps] /\ faults' \in Nat
    BY <1>2, StatementType DEF ReadTranscript, Steps
  <2>2. run' \in [Scans -> Locals]
    <3> DEFINE held == [occ |-> run[s].rev.occ,
                        tok |-> run[s].listing[run[s].rev.occ],
                        body |-> ver[run[s].rev.occ]]
    <3>1. run[s].rev.occ \in Occs
      BY <1>0, <1>2 DEF ReadTranscript, InProgress, Sound, Locals
    <3>2. held \in [occ : Occs \cup {0}, tok : Toks \cup {0},
                    body : Toks \cup {0}]
      BY <1>0, <3>1 DEF Locals, TypeOK
    <3>3. [run[s] EXCEPT !.rev = held] \in Locals
      BY <1>0, <3>2 DEF Locals
    <3>4. run' = [run EXCEPT ![s] = [run[s] EXCEPT !.rev = held]]
            \/ run' = run
      BY <1>2 DEF ReadTranscript, Update
    <3>5. QED
      BY <3>3, <3>4 DEF TypeOK
  <2>3. QED
    BY <1>2, <2>1, <2>2 DEF ReadTranscript, TypeOK, store, disk
<1>3. CASE RetainRevision(s)
  <2>1. pc' \in [Scans -> Steps] /\ faults' \in Nat
    BY <1>3, StatementType DEF RetainRevision, Steps
  <2>2. run[s].rev \in Revisions
    BY <1>3 DEF RetainRevision, InProgress, Sound
  <2>3. QED
    BY <1>3, <2>1, <2>2 DEF RetainRevision, TypeOK, disk
<1>4. CASE WriteSession(s)
  <2>1. pc' \in [Scans -> Steps] /\ faults' \in Nat
    BY <1>4, StatementType DEF WriteSession, Steps
  <2>2. Session(s) \in Rows
    BY <1>0, <1>4 DEF WriteSession, InProgress, Sound, Session, Rows, Locals
  <2>3. QED
    BY <1>4, <2>1, <2>2 DEF WriteSession, TypeOK, disk
<1>5. CASE AddGenerationMember(s)
  <2>1. pc' \in [Scans -> Steps] /\ faults' \in Nat
    BY <1>5, StatementType DEF AddGenerationMember, Steps
  <2>2. Session(s) \in Rows
    BY <1>0, <1>5 DEF AddGenerationMember, InProgress, Sound, Session, Rows,
       Locals
  <2>3. member' \in [Gens -> SUBSET Rows]
    BY <1>5, <2>2 DEF AddGenerationMember, TypeOK
  <2>4. QED
    BY <1>5, <2>1, <2>3 DEF AddGenerationMember, TypeOK, disk
<1>6. CASE PutCheckpoint(s)
  <2>1. pc' \in [Scans -> Steps] /\ faults' \in Nat
    BY <1>6 DEF PutCheckpoint, Advance, Goto, Fault, TypeOK, Steps
  <2>2. run[s].rev \in Revisions
    BY <1>6 DEF PutCheckpoint, InProgress, Sound
  <2>3. checkpoint' \in [Occs -> Revisions \cup {NoRevision}]
    BY <1>6, <2>2 DEF PutCheckpoint, TypeOK
  <2>4. run' \in [Scans -> Locals]
    <3>1. [run[s] EXCEPT !.work = @ \ {run[s].rev.occ}, !.rev = NoRevision]
            \in Locals
      BY <1>0, NoRevisionType DEF Locals
    <3>2. QED
      BY <1>6, <3>1 DEF PutCheckpoint, Finish, Update, TypeOK
  <2>5. QED
    BY <1>6, <2>1, <2>3, <2>4 DEF PutCheckpoint, TypeOK, disk
<1>7. CASE AbsorbFailure(s)
  <2>1. pc' \in [Scans -> Steps] /\ faults' \in Nat
    BY <1>7, StatementType DEF AbsorbFailure, Steps
  <2>2. HarnessOf[run[s].rev.occ] \in Harnesses
    BY <1>7, CatalogAssumption DEF AbsorbFailure, InProgress, Sound
  <2>3. run' \in [Scans -> Locals]
    <3> DEFINE failure == [kind |-> "source",
                           harness |-> HarnessOf[run[s].rev.occ]]
    <3>1. failure \in Failures
      BY <2>2 DEF Failures
    <3>2. [run[s] EXCEPT !.work = @ \ {run[s].rev.occ}, !.rev = NoRevision,
                         !.failures = @ \cup {failure}] \in Locals
      BY <1>0, <3>1, NoRevisionType DEF Locals
    <3>3. QED
      BY <1>7, <3>2 DEF AbsorbFailure, Finish, Record, Update, TypeOK
  <2>4. QED
    BY <1>7, <2>1, <2>3 DEF AbsorbFailure, TypeOK, store, disk
<1>8. CASE TombstoneUnseen(s)
  <2>1. pc' \in [Scans -> Steps] /\ faults' \in Nat
    BY <1>8, StatementType DEF TombstoneUnseen, Steps, Fault
  <2>2. track' \in [Occs -> {"unknown", "visible", "gone"}]
    BY <1>8 DEF TombstoneUnseen, Tombstoned, TypeOK
  <2>3. QED
    BY <1>8, <2>1, <2>2 DEF TombstoneUnseen, TypeOK, disk
<1>9. ASSUME NEW o \in Occs, LookAt(s, o) PROVE TypeOK'
  <2>1. pc' \in [Scans -> Steps] /\ faults' \in Nat
    BY <1>9, StatementType DEF LookAt, Steps
  <2>2. run' \in [Scans -> Locals]
    <3>1. PICK r \in {checkpoint[o], [NoRevision EXCEPT !.occ = o]} :
            run' = [run EXCEPT ![s] =
                      [run[s] EXCEPT !.seen = @ \cup {o}, !.rev = r]]
      BY <1>9 DEF LookAt, Update
    <3>2. r \in [occ : Occs \cup {0}, tok : Toks \cup {0},
                 body : Toks \cup {0}]
      BY DEF TypeOK, Revisions, NoRevision
    <3>3. QED
      BY <1>0, <3>1, <3>2 DEF TypeOK, Locals
  <2>3. track' \in [Occs -> {"unknown", "visible", "gone"}]
    BY <1>9 DEF LookAt, TypeOK
  <2>4. QED
    BY <1>9, <2>1, <2>2, <2>3 DEF LookAt, TypeOK, disk
<1>10. ASSUME NEW o \in Occs, LookFails(s, o) PROVE TypeOK'
  <2>1. pc' \in [Scans -> Steps] /\ faults' \in Nat
    BY <1>10, StatementType DEF LookFails, Steps
  <2>2. run' \in [Scans -> Locals]
    BY <1>0, <1>10 DEF LookFails, Update, TypeOK, Locals, NoRevision
  <2>3. track' \in [Occs -> {"unknown", "visible", "gone"}]
    BY <1>10 DEF LookFails, TypeOK
  <2>4. QED
    BY <1>10, <2>1, <2>2, <2>3 DEF LookFails, TypeOK, disk
<1>11. QED
  BY <1>1, <1>2, <1>3, <1>4, <1>5, <1>6, <1>7, <1>8, <1>9, <1>10

\* The actions that end a scan, or start one.
LEMMA EndType ==
    ASSUME TypeOK, InProgress, NEW s \in Scans,
           \/ CountCandidate(s) \/ MaintainIndexes(s) \/ Publish(s)
           \/ PublishRefused(s) \/ MarkFailed(s) \/ Release(s) \/ Kill(s)
           \/ DatabaseError(s)
           \/ \E tol \in Tolerance, key \in Keys : Start(s, tol, key)
    PROVE  TypeOK'
<1>0. run[s] \in Locals /\ OnError(s) \in Steps /\ Idle \in Locals
  BY LocalsFields
<1>1. CASE CountCandidate(s)
  <2>1. pc' \in [Scans -> Steps] /\ faults' \in Nat
    BY <1>1, StatementType DEF CountCandidate, Steps
  <2>2. PICK counts : /\ gen' = [gen EXCEPT ![cand[s]].counts = counts]
                      /\ counts \in Counts
    <3>1. member[cand[s]] \in SUBSET Rows
      BY <1>1 DEF CountCandidate, InProgress, Sound, HasCandidate, TypeOK
    <3>2. FullCounts(member[cand[s]]) \in Counts
      BY <3>1, CountsType, NoCountsType
    <3>3. ASSUME run[s].base # 0
          PROVE  IncrementalCounts(member[cand[s]], member[run[s].base],
                                   gen[run[s].base].counts) \in Counts
      <4>1. run[s].base \in Gens
        BY <1>0, <3>3 DEF Locals
      <4>2. /\ member[run[s].base] \in SUBSET Rows
            /\ gen[run[s].base].counts \in Counts
        BY <4>1 DEF TypeOK, Generation
      <4>3. QED
        BY <3>1, <4>2, CountsType
    <3>4. QED
      BY <1>1, <3>2, <3>3 DEF CountCandidate
  <2>3. gen' \in [Gens -> Generation]
    BY <2>2 DEF TypeOK, Generation
  <2>4. QED
    BY <1>1, <2>1, <2>3 DEF CountCandidate, TypeOK, disk
<1>2. CASE MaintainIndexes(s)
  <2>1. pc' \in [Scans -> Steps] /\ faults' \in Nat
    BY <1>2, StatementType DEF MaintainIndexes, Steps
  <2>2. gen' \in [Gens -> Generation]
    BY <1>2 DEF MaintainIndexes, TypeOK, Generation, States
  <2>3. QED
    BY <1>2, <2>1, <2>2 DEF MaintainIndexes, TypeOK, disk
<1>3. CASE Publish(s)
  <2>1. pc' \in [Scans -> Steps] /\ faults' \in Nat
    <3>1. Advance(s, "list") \/ (Fault("lost") /\ Goto(s, "fail"))
      BY <1>3 DEF Publish
    <3>2. QED
      BY <3>1, StatementType DEF Steps
  <2>2. cand[s] \in Gens /\ cand' \in [Scans -> Gens \cup {0}]
    BY <1>3 DEF Publish, InProgress, Sound, HasCandidate, TypeOK
  <2>3. /\ PublishState(s) \in {"complete", "partial"}
        /\ FailedSources(run[s].failures) \subseteq Failures
    BY <1>0 DEF PublishState, FailedSources, Locals
  <2>4. gen' \in [Gens -> Generation]
    <3>1. ASSUME NEW g \in Gens PROVE gen'[g] \in Generation
      <4>1. gen[g] \in Generation
        BY DEF TypeOK
      <4>2. [gen[g] EXCEPT !.state = PublishState(s),
                           !.declared = FailedSources(run[s].failures)]
              \in Generation
        BY <2>3, <4>1 DEF Generation, States
      <4>3. [gen[g] EXCEPT !.state = "superseded"] \in Generation
        BY <4>1 DEF Generation, States
      <4>4. QED
        BY <1>3, <4>1, <4>2, <4>3 DEF Publish
    <3>2. gen' = [g \in Gens |-> gen'[g]]
      BY <1>3 DEF Publish
    <3>3. QED
      BY <3>1, <3>2
  <2>5. run' \in [Scans -> Locals]
    <3>1. [run[s] EXCEPT !.result = PublishState(s), !.phase = "after"]
            \in Locals
      BY <1>0, <2>3 DEF Locals
    <3>2. QED
      BY <1>3, <3>1 DEF Publish, Update, TypeOK
  <2>6. QED
    BY <1>3, <2>1, <2>2, <2>4, <2>5 DEF Publish, TypeOK, disk
<1>4. CASE PublishRefused(s)
  <2>1. pc' \in [Scans -> Steps] /\ faults' \in Nat
    BY <1>4, StatementType DEF PublishRefused, Steps
  <2>2. QED
    BY <1>4, <2>1 DEF PublishRefused, TypeOK, store, disk
<1>5. CASE MarkFailed(s)
  <2>1. pc' \in [Scans -> Steps] /\ faults' \in Nat
    BY <1>5 DEF MarkFailed, Advance, Goto, Fault, TypeOK, Steps
  <2>2. gen' \in [Gens -> Generation] /\ cand' \in [Scans -> Gens \cup {0}]
    BY <1>5 DEF MarkFailed, TypeOK, Generation, States
  <2>3. run' \in [Scans -> Locals]
    <3>1. /\ [run[s] EXCEPT !.phase = "abandon"] \in Locals
          /\ [run[s] EXCEPT !.phase = "stuck"] \in Locals
      BY <1>0 DEF Locals
    <3>2. QED
      BY <1>5, <3>1 DEF MarkFailed, Update, TypeOK
  <2>4. QED
    BY <1>5, <2>1, <2>2, <2>3 DEF MarkFailed, TypeOK, disk
<1>6. CASE Release(s) \/ Kill(s)
  <2>1. Leave(s) /\ faults' \in Nat
    BY <1>6 DEF Release, Kill, Fault, TypeOK
  <2>2. /\ lease' \in Scans \cup {0}
        /\ pc' \in [Scans -> Steps]
        /\ cand' \in [Scans -> Gens \cup {0}]
        /\ run' \in [Scans -> Locals]
        /\ stale' \subseteq Scans
    BY <1>0, <2>1 DEF Leave, LeaveLease, Goto, Update, TypeOK, Steps
  <2>3. QED
    BY <2>1, <2>2 DEF Leave, TypeOK, store, disk
<1>7. CASE DatabaseError(s)
  <2>1. pc' \in [Scans -> Steps] /\ faults' \in Nat
    BY <1>0, <1>7 DEF DatabaseError, Goto, Fault, TypeOK
  <2>2. run' \in [Scans -> Locals]
    <3>1. [run[s] EXCEPT !.phase = "stuck"] \in Locals
      BY <1>0 DEF Locals
    <3>2. QED
      BY <1>0, <1>7, <3>1 DEF DatabaseError, Update, TypeOK
  <2>3. QED
    BY <1>7, <2>1, <2>2 DEF DatabaseError, TypeOK, store, disk
<1>8. ASSUME NEW tol \in Tolerance, NEW key \in Keys, Start(s, tol, key)
      PROVE  TypeOK'
  <2>1. pc' \in [Scans -> Steps]
    BY <1>8 DEF Start, Goto, TypeOK, Steps
  <2>2. run' \in [Scans -> Locals]
    <3>1. [Idle EXCEPT !.tol = tol, !.key = key] \in Locals
      BY <1>0, <1>8 DEF Locals
    <3>2. QED
      BY <1>8, <3>1 DEF Start, Update, TypeOK
  <2>3. QED
    BY <1>8, <2>1, <2>2 DEF Start, TypeOK, store, disk
<1>9. QED
  BY <1>1, <1>2, <1>3, <1>4, <1>5, <1>6, <1>7, <1>8

\* The lease connection and the files: nothing a scan holds changes.
LEMMA EnvironmentType ==
    ASSUME TypeOK, DropLease \/ Edit
    PROVE  TypeOK'
<1>1. CASE DropLease
  BY <1>1 DEF DropLease, Fault, TypeOK, store, disk
<1>2. CASE Edit
  <2>1. /\ ver' \in [Occs -> Toks]
        /\ here' \subseteq Occs
        /\ broken' \subseteq Occs
        /\ unlisted' \subseteq Harnesses
        /\ edits' \in Nat
    BY <1>2 DEF Edit, TypeOK
  <2>2. QED
    BY <1>2, <2>1 DEF Edit, TypeOK, store
<1>3. QED
  BY <1>1, <1>2

-----------------------------------------------------------------------------
(* What a scan holds at each of its steps.                                 *)

\* A scan that did not move still holds what it held.
LEMMA SoundKept ==
    ASSUME NEW t \in Scans, Sound(t),
           pc'[t] = pc[t], cand'[t] = cand[t], run'[t] = run[t]
    PROVE  Sound(t)'
BY DEF Sound, HasCandidate

\* A scan without a session and without a candidate has little to hold.
LEMMA SoundOutside ==
    ASSUME NEW s \in Scans, Sound(s),
           pc'[s] \in {"idle", "sweep", "list", "clean", "settle", "active",
                      "begin", "release"},
           run'[s].work = run[s].work, run'[s].listing = run[s].listing
    PROVE  Sound(s)'
BY DEF Sound, HasCandidate

\* The new step and the new locals of the scan that moves.
LEMMA Moved ==
    ASSUME TypeOK, NEW s \in Scans
    PROVE  /\ \A step : Goto(s, step) => pc'[s] = step
           /\ \A locals : Update(s, locals) => run'[s] = locals
BY DEF TypeOK, Goto, Update

\* The steps of one scan keep what it holds sound.
LEMMA SoundStep ==
    ASSUME TypeOK, NEW s \in Scans, Sound(s),
           \/ Work(s) \/ Kill(s)
           \/ \E tol \in Tolerance, key \in Keys : Start(s, tol, key)
    PROVE  Sound(s)'
<1>0. run[s] \in Locals /\ cand[s] \in Gens \cup {0}
  BY LocalsFields
<1>1. CASE SweepAbandonedCandidates(s) \/ Settle(s)
  BY <1>0, <1>1 DEF SweepAbandonedCandidates, Settle, AfterReclaim, Commit,
     Advance, Goto, OnError, Sound, HasCandidate, TypeOK
<1>2. CASE ListReclaimable(s) \/ ActiveGeneration(s)
  <2>1. pc'[s] \in {"active", "begin", "release", "clean"}
    BY <1>2, Moved DEF ListReclaimable, ActiveGeneration, AfterReclaim, Advance
  <2>2. run'[s].work = run[s].work /\ run'[s].listing = run[s].listing
    BY <1>0, <1>2, Moved DEF ListReclaimable, ActiveGeneration, Locals
  <2>3. QED
    BY <2>1, <2>2, SoundOutside
<1>3. ASSUME NEW g \in Gens, Cleanup(s, g) \/ CleanupRefused(s, g)
      PROVE  Sound(s)'
  <2>1. pc'[s] \in {"settle", "clean", "release"}
    BY <1>3, Moved DEF Cleanup, CleanupRefused, Advance
  <2>2. run'[s].work = run[s].work /\ run'[s].listing = run[s].listing
    BY <1>0, <1>3, Moved DEF Cleanup, CleanupRefused, Locals
  <2>3. QED
    BY <2>1, <2>2, SoundOutside
<1>4. ASSUME NEW g \in Gens, BeginCandidate(s, g) PROVE Sound(s)'
  BY <1>0, <1>4 DEF BeginCandidate, Advance, Goto, Sound, HasCandidate, TypeOK
<1>5. CASE ObserveSources(s)
  <2>1. cand' = cand /\ HasCandidate(s) /\ pc'[s] \in {"look", "fail"}
    BY <1>5, Moved DEF ObserveSources, Advance, HasCandidate
  <2>2. CASE run' = run
    BY <2>1, <2>2 DEF Sound, HasCandidate
  <2>3. CASE run' # run
    <3>1. /\ run'[s].listing = [o \in Occs |-> IF Listed(o) THEN ver[o] ELSE 0]
          /\ run'[s].work = {o \in Occs : Listed(o)}
      <4>1. run'[s] = [run[s] EXCEPT
                  !.listing = [o \in Occs |-> IF Listed(o) THEN ver[o] ELSE 0],
                  !.work = {o \in Occs : Listed(o)},
                  !.failures = {[kind |-> "harness", harness |-> h] :
                                    h \in unlisted}]
        BY <1>5, <2>3, Moved DEF ObserveSources
      <4>2. QED
        BY <1>0, <4>1 DEF Locals
    <3>2. \A o \in run'[s].work : run'[s].listing[o] \in Toks
      BY <3>1 DEF TypeOK
    <3>3. QED
      BY <2>1, <3>2 DEF Sound, HasCandidate
  <2>4. QED
    BY <2>2, <2>3
<1>6. ASSUME NEW o \in Occs, LookAt(s, o) PROVE Sound(s)'
  <2>1. checkpoint[o] # NoRevision => checkpoint[o] \in Revisions
    BY DEF TypeOK
  <2>2. QED
    BY <1>0, <1>6, <2>1 DEF LookAt, Advance, Goto, Update, Sound,
       HasCandidate, TypeOK, Locals, NoRevision
<1>7. ASSUME NEW o \in Occs, LookFails(s, o) PROVE Sound(s)'
  BY <1>0, <1>7 DEF LookFails, Goto, Update, Sound, HasCandidate, TypeOK,
     Locals, NoRevision
<1>8. CASE ReadTranscript(s)
  <2>1. /\ run[s].rev.occ \in Occs
        /\ run[s].listing[run[s].rev.occ] \in Toks
        /\ ver[run[s].rev.occ] \in Toks
    BY <1>0, <1>8 DEF ReadTranscript, Sound, Locals, TypeOK
  <2>2. QED
    <3>1. cand' = cand /\ HasCandidate(s)
      BY <1>8 DEF ReadTranscript, HasCandidate
    <3>2. CASE pc'[s] = "absorb" /\ run' = run
      BY <2>1, <3>1, <3>2 DEF Sound, HasCandidate
    <3>3. CASE /\ pc'[s] = "retain"
               /\ run'[s] = [run[s] EXCEPT
                    !.rev = [occ |-> run[s].rev.occ,
                             tok |-> run[s].listing[run[s].rev.occ],
                             body |-> ver[run[s].rev.occ]]]
      <4>1. run'[s].rev \in Revisions
        BY <1>0, <2>1, <3>3 DEF Locals, Revisions
      <4>2. run'[s].work = run[s].work /\ run'[s].listing = run[s].listing
        BY <1>0, <3>3 DEF Locals
      <4>3. QED
        BY <3>1, <3>3, <4>1, <4>2 DEF Sound, HasCandidate
    <3>4. QED
      BY <1>8, <3>2, <3>3, Moved DEF ReadTranscript, Advance
<1>9. CASE RetainRevision(s) \/ WriteSession(s) \/ AddGenerationMember(s)
  <2>1. run[s].rev \in Revisions /\ run[s].rev.occ \in Occs
    BY <1>9 DEF RetainRevision, WriteSession, AddGenerationMember, Sound,
       Revisions
  <2>2. run' = run /\ cand' = cand
    BY <1>9 DEF RetainRevision, WriteSession, AddGenerationMember
  <2>3. pc'[s] \in {"write", "present", "confirm", "absorb"}
    BY <1>9 DEF RetainRevision, WriteSession, AddGenerationMember, Commit,
       Advance, Goto, OnError, TypeOK
  <2>4. HasCandidate(s)
    BY <1>9 DEF RetainRevision, WriteSession, AddGenerationMember,
       HasCandidate
  <2>5. QED
    BY <2>1, <2>2, <2>3, <2>4 DEF Sound, HasCandidate
<1>10. CASE PutCheckpoint(s)
  <2>1. run[s].rev.occ \in Occs
    BY <1>10 DEF PutCheckpoint, Sound, Revisions
  <2>2. QED
    <3>1. cand' = cand /\ HasCandidate(s)
      BY <1>10 DEF PutCheckpoint, HasCandidate
    <3>2. CASE pc'[s] = "absorb" /\ run' = run
      BY <2>1, <3>1, <3>2 DEF Sound, HasCandidate
    <3>3. CASE pc'[s] = "look" /\ run' # run
      <4>1. /\ run'[s].work \subseteq run[s].work
            /\ run'[s].listing = run[s].listing
        <5>1. run'[s] = [run[s] EXCEPT !.work = @ \ {run[s].rev.occ},
                                       !.rev = NoRevision]
          BY <1>10, <3>3, Moved DEF PutCheckpoint, Finish
        <5>2. QED
          BY <1>0, <5>1 DEF Locals
      <4>2. QED
        BY <3>1, <3>3, <4>1 DEF Sound, HasCandidate
    <3>4. CASE pc'[s] = "look" /\ run' = run
      BY <3>1, <3>4 DEF Sound, HasCandidate
    <3>5. QED
      BY <1>10, <3>2, <3>3, <3>4, Moved DEF PutCheckpoint, Advance
<1>11. CASE AbsorbFailure(s)
  <2>1. cand' = cand /\ HasCandidate(s) /\ pc'[s] \in {"look", "fail"}
    BY <1>11, Moved DEF AbsorbFailure, Advance, HasCandidate
  <2>2. CASE run' = run
    BY <2>1, <2>2 DEF Sound, HasCandidate
  <2>3. CASE run' # run
    <3>1. /\ run'[s].work \subseteq run[s].work
          /\ run'[s].listing = run[s].listing
      <4>1. run'[s] = [run[s] EXCEPT
                  !.work = @ \ {run[s].rev.occ}, !.rev = NoRevision,
                  !.failures = @ \cup
                    {[kind |-> "source", harness |-> HarnessOf[run[s].rev.occ]]}]
        BY <1>11, <2>3, Moved DEF AbsorbFailure, Finish, Record
      <4>2. QED
        BY <1>0, <4>1 DEF Locals
    <3>2. QED
      BY <2>1, <3>1 DEF Sound, HasCandidate
  <2>4. QED
    BY <2>2, <2>3
<1>12. CASE TombstoneUnseen(s) \/ CountCandidate(s) \/ MaintainIndexes(s)
              \/ PublishRefused(s)
  <2>1. run' = run /\ cand' = cand
    BY <1>12 DEF TombstoneUnseen, CountCandidate, MaintainIndexes,
       PublishRefused
  <2>2. pc'[s] \in {"count", "index", "publish", "fail"}
    BY <1>12 DEF TombstoneUnseen, CountCandidate, MaintainIndexes,
       PublishRefused, Commit, Advance, Goto, OnError, TypeOK
  <2>3. HasCandidate(s)
    BY <1>12 DEF TombstoneUnseen, CountCandidate, MaintainIndexes,
       PublishRefused, HasCandidate
  <2>4. QED
    BY <2>1, <2>2, <2>3 DEF Sound, HasCandidate
<1>13. CASE Publish(s) \/ MarkFailed(s)
  <2>1. HasCandidate(s)
    BY <1>13 DEF Publish, MarkFailed, HasCandidate
  <2>2. CASE pc'[s] = "fail" /\ run' = run /\ cand' = cand
    BY <2>1, <2>2 DEF Sound, HasCandidate
  <2>3. CASE pc'[s] \in {"list", "release"}
    <3>1. run'[s].work = run[s].work /\ run'[s].listing = run[s].listing
      <4>1. \/ run'[s] = [run[s] EXCEPT !.result = PublishState(s),
                                        !.phase = "after"]
            \/ run'[s] = [run[s] EXCEPT !.phase = "abandon"]
            \/ run'[s] = [run[s] EXCEPT !.phase = "stuck"]
        <5>1. CASE Publish(s)
          BY <5>1, <2>3, Moved DEF Publish, Advance
        <5>2. CASE MarkFailed(s)
          BY <5>2, Moved DEF MarkFailed
        <5>3. QED
          BY <1>13, <5>1, <5>2
      <4>2. QED
        BY <1>0, <4>1 DEF Locals
    <3>2. QED
      BY <2>3, <3>1, SoundOutside
  <2>4. QED
    BY <1>13, <2>2, <2>3, Moved DEF Publish, MarkFailed, Advance
<1>14. CASE DatabaseError(s)
  <2>1. pc[s] \in {"retain", "write", "present", "confirm"} =>
            run[s].rev.occ \in Occs
    BY DEF Sound, Revisions
  <2>2. /\ cand' = cand
        /\ run'[s].work = run[s].work
        /\ run'[s].listing = run[s].listing
        /\ run'[s].rev = run[s].rev
    BY <1>0, <1>14 DEF DatabaseError, Update, TypeOK, Locals
  <2>3. pc'[s] = OnError(s)
    BY <1>14 DEF DatabaseError, Goto, TypeOK
  <2>4. pc[s] \in {"sweep", "list", "clean", "settle", "active", "begin",
                  "observe", "retain", "write", "present", "confirm", "count",
                  "publish", "fail"}
    BY <1>14 DEF DatabaseError
  <2>5. QED
    BY <2>1, <2>2, <2>3, <2>4 DEF Sound, HasCandidate, OnError
<1>15. CASE Release(s) \/ Kill(s)
  BY <1>15 DEF Release, Kill, Leave, Goto, Update, Idle, Sound, HasCandidate,
     TypeOK
<1>16. ASSUME NEW tol \in Tolerance, NEW key \in Keys, Start(s, tol, key)
       PROVE  Sound(s)'
  BY <1>16 DEF Start, Goto, Update, Idle, Sound, HasCandidate, TypeOK
<1>17. QED
  BY <1>1, <1>2, <1>3, <1>4, <1>5, <1>6, <1>7, <1>8, <1>9, <1>10, <1>11,
     <1>12, <1>13, <1>14, <1>15, <1>16 DEF Work

\* One statement moves one scan.
LEMMA OthersStay ==
    ASSUME TypeOK, NEW s \in Scans, NEW t \in Scans, t # s,
           \/ Work(s) \/ Kill(s)
           \/ \E tol \in Tolerance, key \in Keys : Start(s, tol, key)
    PROVE  pc'[t] = pc[t] /\ cand'[t] = cand[t] /\ run'[t] = run[t]
<1>1. /\ \A step : Goto(s, step) => pc'[t] = pc[t]
      /\ \A locals : Update(s, locals) => run'[t] = run[t]
  BY DEF TypeOK, Goto, Update
<1>2. /\ \A step : Advance(s, step) => pc'[t] = pc[t]
      /\ \A step : Commit(s, step) => pc'[t] = pc[t]
  BY <1>1 DEF Advance, Commit
<1>3. CASE \/ SweepAbandonedCandidates(s) \/ ListReclaimable(s)
           \/ \E g \in Gens : Cleanup(s, g) \/ CleanupRefused(s, g)
           \/ Settle(s) \/ ActiveGeneration(s)
  BY <1>1, <1>2, <1>3 DEF SweepAbandonedCandidates, ListReclaimable, Cleanup,
     CleanupRefused, Settle, ActiveGeneration
<1>4. CASE \/ ObserveSources(s) \/ ReadTranscript(s) \/ RetainRevision(s)
           \/ \E o \in Occs : LookAt(s, o) \/ LookFails(s, o)
           \/ WriteSession(s) \/ AddGenerationMember(s)
  BY <1>1, <1>2, <1>4 DEF ObserveSources, ReadTranscript, RetainRevision,
     LookAt, LookFails, WriteSession, AddGenerationMember
<1>5. CASE \/ PutCheckpoint(s) \/ AbsorbFailure(s) \/ TombstoneUnseen(s)
           \/ CountCandidate(s) \/ MaintainIndexes(s) \/ PublishRefused(s)
           \/ DatabaseError(s)
  BY <1>1, <1>2, <1>5 DEF PutCheckpoint, AbsorbFailure, TombstoneUnseen,
     CountCandidate, MaintainIndexes, PublishRefused, DatabaseError
<1>6. ASSUME NEW g \in Gens, BeginCandidate(s, g)
      PROVE  pc'[t] = pc[t] /\ cand'[t] = cand[t] /\ run'[t] = run[t]
  BY <1>1, <1>2, <1>6 DEF BeginCandidate, TypeOK
<1>7. CASE Publish(s) \/ MarkFailed(s)
  <2>1. \A c : cand' = [cand EXCEPT ![s] = c] => cand'[t] = cand[t]
    BY DEF TypeOK
  <2>2. QED
    BY <1>1, <1>2, <1>7, <2>1 DEF Publish, MarkFailed
<1>8. CASE Release(s) \/ Kill(s)
  BY <1>1, <1>8 DEF Release, Kill, Leave, TypeOK
<1>9. CASE \E tol \in Tolerance, key \in Keys : Start(s, tol, key)
  BY <1>1, <1>9 DEF Start
<1>10. QED
  BY <1>3, <1>4, <1>5, <1>6, <1>7, <1>8, <1>9 DEF Work

\* Only BeginCandidate gives a scan a candidate; until the scan lets go of it
\* the candidate is the same.
LEMMA KeepsCandidate ==
    ASSUME TypeOK, NEW s \in Scans,
           \/ Work(s) \/ Kill(s)
           \/ \E tol \in Tolerance, key \in Keys : Start(s, tol, key),
           ~\E g \in Gens : BeginCandidate(s, g), HasCandidate(s)'
    PROVE  HasCandidate(s) /\ cand'[s] = cand[s]
<1>1. CASE SweepAbandonedCandidates(s) \/ Settle(s)
  BY <1>1, Moved DEF SweepAbandonedCandidates, Settle, Advance, Commit,
     AfterReclaim, OnError, HasCandidate
<1>2. CASE \/ ListReclaimable(s) \/ ActiveGeneration(s)
           \/ \E g \in Gens : Cleanup(s, g) \/ CleanupRefused(s, g)
  <2>1. pc'[s] \in {"active", "begin", "release", "clean", "settle"}
    BY <1>2, Moved DEF ListReclaimable, ActiveGeneration, Cleanup,
       CleanupRefused, AfterReclaim, Advance
  <2>2. QED
    BY <2>1 DEF HasCandidate
<1>3. CASE \/ ObserveSources(s) \/ ReadTranscript(s) \/ RetainRevision(s)
           \/ \E o \in Occs : LookAt(s, o) \/ LookFails(s, o)
           \/ WriteSession(s) \/ AddGenerationMember(s)
  BY <1>3 DEF ObserveSources, ReadTranscript, RetainRevision, LookAt,
     LookFails, WriteSession, AddGenerationMember, HasCandidate
<1>4. CASE \/ PutCheckpoint(s) \/ AbsorbFailure(s) \/ TombstoneUnseen(s)
           \/ CountCandidate(s) \/ MaintainIndexes(s) \/ PublishRefused(s)
  BY <1>4 DEF PutCheckpoint, AbsorbFailure, TombstoneUnseen, CountCandidate,
     MaintainIndexes, PublishRefused, HasCandidate
<1>5. CASE Publish(s) \/ MarkFailed(s)
  <2>1. HasCandidate(s)
    BY <1>5 DEF Publish, MarkFailed, HasCandidate
  <2>2. cand' = cand \/ pc'[s] \in {"list", "release"}
    BY <1>5, Moved DEF Publish, MarkFailed, Advance
  <2>3. QED
    BY <2>1, <2>2 DEF HasCandidate
<1>6. CASE DatabaseError(s)
  BY <1>6, Moved DEF DatabaseError, OnError, HasCandidate
<1>7. CASE Release(s) \/ Kill(s)
  BY <1>7, Moved DEF Release, Kill, Leave, HasCandidate
<1>8. CASE \E tol \in Tolerance, key \in Keys : Start(s, tol, key)
  BY <1>8, Moved DEF Start, HasCandidate
<1>9. QED
  BY <1>1, <1>2, <1>3, <1>4, <1>5, <1>6, <1>7, <1>8 DEF Work

\* The statements that move no generation to another state.
LEMMA StatesKept ==
    ASSUME TypeOK, NEW s \in Scans,
           \/ Work(s) \/ Kill(s)
           \/ \E tol \in Tolerance, key \in Keys : Start(s, tol, key),
           ~SweepAbandonedCandidates(s), ~\E g \in Gens : BeginCandidate(s, g),
           ~MaintainIndexes(s), ~Publish(s), ~MarkFailed(s)
    PROVE  active' = active /\ \A g \in Gens : gen'[g].state = gen[g].state
<1>1. CASE \E g \in Gens : Cleanup(s, g)
  BY <1>1 DEF Cleanup, TypeOK, Generation
<1>2. CASE CountCandidate(s)
  BY <1>2 DEF CountCandidate, TypeOK, Generation
<1>3. CASE \/ ListReclaimable(s) \/ \E g \in Gens : CleanupRefused(s, g)
           \/ Settle(s) \/ ActiveGeneration(s) \/ ObserveSources(s)
           \/ ReadTranscript(s) \/ RetainRevision(s) \/ WriteSession(s)
           \/ AddGenerationMember(s) \/ PutCheckpoint(s) \/ AbsorbFailure(s)
           \/ \E o \in Occs : LookAt(s, o) \/ LookFails(s, o)
           \/ TombstoneUnseen(s) \/ PublishRefused(s) \/ DatabaseError(s)
           \/ Release(s) \/ Kill(s)
           \/ \E tol \in Tolerance, key \in Keys : Start(s, tol, key)
  BY <1>3 DEF ListReclaimable, CleanupRefused, Settle, ActiveGeneration,
     ObserveSources, ReadTranscript, RetainRevision, WriteSession,
     AddGenerationMember, PutCheckpoint, AbsorbFailure, LookAt, LookFails,
     TombstoneUnseen, PublishRefused, DatabaseError, Release, Kill, Leave,
     Start, store
<1>4. QED
  BY <1>1, <1>2, <1>3 DEF Work

-----------------------------------------------------------------------------
(* The theorems.                                                           *)

LEMMA TypeStep ==
    ASSUME TypeOK, InProgress, [AnyStep]_vars
    PROVE  TypeOK' /\ InProgress'
<1>1. ASSUME NEW s \in Scans,
             \/ Work(s) \/ Kill(s)
             \/ \E tol \in Tolerance, key \in Keys : Start(s, tol, key)
      PROVE  TypeOK' /\ InProgress'
  <2>1. TypeOK'
    BY <1>1, RepairType, FillType, EndType DEF Work
  <2>2. ASSUME NEW t \in Scans PROVE Sound(t)'
    <3>1. Sound(t) /\ Sound(s)
      BY DEF InProgress
    <3>2. CASE t = s
      BY <1>1, <3>1, <3>2, SoundStep
    <3>3. CASE t # s
      BY <1>1, <3>1, <3>3, OthersStay, SoundKept
    <3>4. QED
      BY <3>2, <3>3
  <2>3. QED
    BY <2>1, <2>2 DEF InProgress
<1>2. CASE DropLease \/ Edit
  <2>1. pc' = pc /\ cand' = cand /\ run' = run
    BY <1>2 DEF DropLease, Edit
  <2>2. InProgress'
    BY <2>1 DEF InProgress, Sound, HasCandidate
  <2>3. QED
    BY <1>2, <2>2, EnvironmentType
<1>3. CASE UNCHANGED vars
  BY <1>3 DEF vars, store, disk, TypeOK, InProgress, Sound, HasCandidate
<1>4. QED
  BY <1>1, <1>2, <1>3 DEF AnyStep, Moves

LEMMA AlwaysTyped == Behaviour => []TypeOK /\ []InProgress
<1>1. Init => TypeOK /\ InProgress
  BY TypeInit DEF Init, InProgress, Sound, HasCandidate, Idle
<1>2. TypeOK /\ InProgress /\ [AnyStep]_vars => TypeOK' /\ InProgress'
  BY TypeStep
<1>3. QED
  BY <1>1, <1>2, PTL DEF Behaviour

\* Every reachable state of every instance is well typed, and a scan always
\* holds what its next statement needs: runScan and fill never use a revision
\* they have not read nor a candidate they have not begun.
THEOREM TypeCorrect == Spec => []TypeOK /\ []InProgress
BY AlwaysTyped, SpecBehaves, PTL

\* As long as no acknowledgement is lost, a candidate is building until its
\* own scan publishes it or someone fails it, and no two scans share one.
Apart ==
    /\ \A s \in Scans : HasCandidate(s) =>
           gen[cand[s]].state \in {"building", "failed"}
    /\ \A s, t \in Scans : HasCandidate(s) /\ HasCandidate(t) /\ s # t =>
           cand[s] # cand[t]

LEMMA ApartStep ==
    ASSUME TypeOK, InProgress, Apart, PublishedIsActive, "lost" \notin Faults,
           [AnyStep]_vars
    PROVE  Apart' /\ PublishedIsActive'
<1>1. ASSUME active' = active, \A g \in Gens : gen'[g].state = gen[g].state,
             \A t \in Scans : HasCandidate(t)' =>
                 HasCandidate(t) /\ cand'[t] = cand[t]
      PROVE  Apart' /\ PublishedIsActive'
  <2>1. \A t \in Scans : HasCandidate(t) => cand[t] \in Gens
    BY DEF InProgress, Sound
  <2>2. PublishedIsActive'
    BY <1>1 DEF PublishedIsActive
  <2>3. Apart'
    BY <1>1, <2>1 DEF Apart
  <2>4. QED
    BY <2>2, <2>3
<1>2. ASSUME NEW s \in Scans,
             \/ Work(s) \/ Kill(s)
             \/ \E tol \in Tolerance, key \in Keys : Start(s, tol, key)
      PROVE  Apart' /\ PublishedIsActive'
  <2>0. /\ \A t \in Scans \ {s} :
               (HasCandidate(t)' <=> HasCandidate(t)) /\ cand'[t] = cand[t]
        /\ \A t \in Scans : HasCandidate(t) => cand[t] \in Gens
    BY <1>2, OthersStay DEF HasCandidate, InProgress, Sound
  <2>1. CASE SweepAbandonedCandidates(s)
    <3>1. /\ active' = active
          /\ \A g \in Gens : \/ gen'[g].state = gen[g].state
                             \/ /\ gen[g].state = "building"
                                /\ gen'[g].state = "failed"
      BY <2>1 DEF SweepAbandonedCandidates, Abandoned, TypeOK, Generation
    <3>2. \A t \in Scans : HasCandidate(t)' =>
              HasCandidate(t) /\ cand'[t] = cand[t]
      <4>1. ~HasCandidate(s)'
        BY <2>1, Moved DEF SweepAbandonedCandidates, Commit, Advance, Fault,
           HasCandidate
      <4>2. QED
        BY <2>0, <4>1
    <3>3. PublishedIsActive'
      BY <3>1 DEF PublishedIsActive, Published
    <3>4. Apart'
      <4>1. \A t \in Scans : HasCandidate(t)' =>
                gen'[cand'[t]].state \in {"building", "failed"}
        BY <2>0, <3>1, <3>2 DEF Apart
      <4>2. QED
        BY <3>2, <4>1 DEF Apart
    <3>5. QED
      BY <3>3, <3>4
  <2>2. ASSUME NEW g \in Gens, BeginCandidate(s, g)
        PROVE  Apart' /\ PublishedIsActive'
    <3>1. /\ active' = active
          /\ gen[g].state = "none" /\ gen'[g].state = "building"
          /\ \A h \in Gens \ {g} : gen'[h] = gen[h]
      BY <2>2 DEF BeginCandidate, TypeOK, GenerationRow
    <3>2. cand'[s] = g /\ HasCandidate(s)'
      BY <2>2, Moved DEF BeginCandidate, Advance, Fault, HasCandidate, TypeOK
    <3>3. \A t \in Scans : HasCandidate(t) => cand[t] # g
      BY <3>1 DEF Apart
    <3>4. PublishedIsActive'
      BY <3>1 DEF PublishedIsActive, Published
    <3>5. QED
      BY <2>0, <3>1, <3>2, <3>3, <3>4 DEF Apart
  <2>3. CASE MaintainIndexes(s) \/ MarkFailed(s)
    <3>1. HasCandidate(s)
      BY <2>3 DEF MaintainIndexes, MarkFailed, HasCandidate
    <3>2. /\ active' = active
          /\ \A g \in Gens : \/ gen'[g].state = gen[g].state
                             \/ g = cand[s] /\ gen'[g].state = "failed"
      <4>1. \/ gen' = gen
            \/ gen' = [gen EXCEPT ![cand[s]].state = "failed"]
        BY <2>3 DEF MaintainIndexes, MarkFailed
      <4>2. active' = active
        BY <2>3 DEF MaintainIndexes, MarkFailed
      <4>3. ASSUME gen' = [gen EXCEPT ![cand[s]].state = "failed"]
            PROVE  /\ gen'[cand[s]].state = "failed"
                   /\ \A g \in Gens \ {cand[s]} : gen'[g] = gen[g]
        <5>1. cand[s] \in Gens
          BY <2>0, <3>1
        <5>2. QED
          BY <4>3, <5>1 DEF TypeOK, Generation
      <4>4. QED
        BY <4>1, <4>2, <4>3
    <3>3. HasCandidate(s)' => cand'[s] = cand[s]
      BY <1>2, <2>3, KeepsCandidate DEF MaintainIndexes, MarkFailed,
         BeginCandidate
    <3>4. PublishedIsActive'
      BY <2>0, <3>1, <3>2 DEF PublishedIsActive, Apart, Published
    <3>5. Apart'
      BY <2>0, <3>1, <3>2, <3>3 DEF Apart
    <3>6. QED
      BY <3>4, <3>5
  <2>4. CASE Publish(s)
    <3>1. /\ HasCandidate(s) /\ cand[s] \in Gens
          /\ gen[cand[s]].state = "building"
      BY <2>0, <2>4 DEF Publish, HasCandidate
    <3>2. ~HasCandidate(s)'
      BY <2>4, Moved DEF Publish, Advance, Fault, HasCandidate
    <3>3. cand[s] # active
      BY <3>1 DEF PublishedIsActive, Published
    <3>4. /\ active' = cand[s]
          /\ gen'[cand[s]].state \in Published
          /\ active \in Gens => gen'[active].state = "superseded"
          /\ \A g \in Gens \ {cand[s], active} : gen'[g] = gen[g]
      <4>1. PublishState(s) \in Published
        BY DEF PublishState, Published
      <4>2. QED
        BY <2>4, <3>1, <3>3, <4>1 DEF Publish, Superseded, TypeOK, Generation
    <3>5. PublishedIsActive'
      BY <3>1, <3>4 DEF PublishedIsActive, Published
    <3>6. \A t \in Scans \ {s} : HasCandidate(t) =>
              cand[t] # cand[s] /\ cand[t] # active
      BY <2>0, <3>1 DEF Apart, PublishedIsActive, Published
    <3>7. QED
      BY <2>0, <3>2, <3>4, <3>5, <3>6 DEF Apart
  <2>5. CASE /\ ~SweepAbandonedCandidates(s)
             /\ ~\E g \in Gens : BeginCandidate(s, g)
             /\ ~MaintainIndexes(s) /\ ~Publish(s) /\ ~MarkFailed(s)
    BY <1>1, <1>2, <2>0, <2>5, StatesKept, KeepsCandidate
  <2>6. QED
    BY <2>1, <2>2, <2>3, <2>4, <2>5
<1>3. CASE DropLease \/ Edit \/ UNCHANGED vars
  <2>1. /\ gen' = gen /\ active' = active /\ pc' = pc /\ cand' = cand
    BY <1>3 DEF DropLease, Edit, vars, store, disk
  <2>2. QED
    BY <1>1, <2>1 DEF HasCandidate
<1>4. QED
  BY <1>2, <1>3 DEF AnyStep, Moves

\* Both facts hold of every reachable state.
LEMMA AlwaysApart ==
    ASSUME "lost" \notin Faults
    PROVE  Behaviour => []Apart /\ []PublishedIsActive
<1>1. Init => Apart /\ PublishedIsActive
  BY DEF Init, Apart, PublishedIsActive, Published, HasCandidate, GenerationRow,
     Gens
<1>2. TypeOK /\ InProgress /\ Apart /\ PublishedIsActive /\ [AnyStep]_vars
          => Apart' /\ PublishedIsActive'
  BY ApartStep
<1>3. QED
  BY <1>1, <1>2, AlwaysTyped, PTL DEF Behaviour

\* The transaction of publish and the reclaims around it keep the pointer and
\* the state column in agreement for any number of scans, killed, failing or
\* running without their lease.  The hypothesis is needed: when the
\* acknowledgement of a publication is lost, runScan fails the generation it
\* has just published.
THEOREM PublishedAlwaysActive ==
    ASSUME "lost" \notin Faults
    PROVE  Spec => []PublishedIsActive
BY AlwaysApart, SpecBehaves, PTL

\* As long as the lease is not lost under a running scan, the scan that runs
\* holds it, and once it has swept nobody's candidate is open but its own.
Alone ==
    /\ \A s \in Scans : pc[s] # "idle" => lease = s
    /\ \A s \in Scans :
           pc[s] \in {"list", "clean", "settle", "active", "begin"} =>
               \A g \in Gens : gen[g].state # "building"
    /\ \A s \in Scans : HasCandidate(s) =>
           \A g \in Gens : gen[g].state = "building" => g = cand[s]

LEMMA AloneStep ==
    ASSUME TypeOK, InProgress, Alone, OneCandidate, "drop" \notin Faults,
           [AnyStep]_vars
    PROVE  Alone' /\ OneCandidate'
<1>1. ASSUME NEW s \in Scans,
             \/ Work(s) \/ Kill(s)
             \/ \E tol \in Tolerance, key \in Keys : Start(s, tol, key)
      PROVE  Alone' /\ OneCandidate'
  <2>1. \A t \in Scans \ {s} : pc[t] = "idle" /\ pc'[t] = "idle"
    <3>1. pc[s] # "idle" \/ lease = 0
      BY <1>1 DEF Work, Start, LeaseFree, Kill, SweepAbandonedCandidates,
         ListReclaimable, Cleanup, CleanupRefused, Settle, ActiveGeneration, BeginCandidate,
         ObserveSources, LookAt, LookFails, ReadTranscript, RetainRevision,
         WriteSession, AddGenerationMember, PutCheckpoint, AbsorbFailure,
         TombstoneUnseen, CountCandidate, MaintainIndexes, Publish,
         PublishRefused, MarkFailed, Release, DatabaseError
    <3>2. \A t \in Scans \ {s} : pc[t] = "idle"
      BY <3>1, NoneAssumption DEF Alone
    <3>3. QED
      BY <1>1, <3>2, OthersStay
  <2>2. pc'[s] # "idle" => lease' = s
    <3>1. CASE Release(s) \/ Kill(s)
      BY <3>1, Moved DEF Release, Kill, Leave
    <3>2. CASE \E tol \in Tolerance, key \in Keys : Start(s, tol, key)
      BY <3>2 DEF Start
    <3>3. CASE ~Release(s) /\ Work(s)
      <4>1. pc[s] # "idle" /\ lease' = lease
        BY <3>3 DEF Work, SweepAbandonedCandidates, ListReclaimable,
           Cleanup, CleanupRefused, Settle, ActiveGeneration, BeginCandidate,
           ObserveSources, LookAt, LookFails, ReadTranscript, RetainRevision,
           WriteSession, AddGenerationMember, PutCheckpoint, AbsorbFailure,
           TombstoneUnseen, CountCandidate, MaintainIndexes, Publish,
           PublishRefused, MarkFailed, DatabaseError
      <4>2. QED
        BY <4>1 DEF Alone
    <3>4. QED
      BY <1>1, <3>1, <3>2, <3>3
  <2>3. ASSUME /\ pc'[s] \in {"list", "clean", "settle", "active", "begin"} =>
                     \A g \in Gens : gen'[g].state # "building"
               /\ HasCandidate(s)' =>
                     \A g \in Gens : gen'[g].state = "building" => g = cand'[s],
               OneCandidate'
        PROVE  Alone' /\ OneCandidate'
    BY <2>1, <2>2, <2>3 DEF Alone, HasCandidate
  <2>4. CASE SweepAbandonedCandidates(s)
    <3>1. /\ \A g \in Gens : gen'[g].state # "building"
          /\ ~HasCandidate(s)'
      BY <2>4, Moved DEF SweepAbandonedCandidates, Abandoned, Commit, Advance,
         OnError, HasCandidate, TypeOK, Generation
    <3>2. QED
      BY <2>3, <3>1 DEF OneCandidate
  <2>5. ASSUME NEW g \in Gens, BeginCandidate(s, g)
        PROVE  Alone' /\ OneCandidate'
    <3>1. \A h \in Gens \ {g} : gen'[h].state # "building"
      BY <2>5 DEF BeginCandidate, TypeOK, Alone
    <3>2. HasCandidate(s)' => cand'[s] = g
      BY <2>5, Moved DEF BeginCandidate, Advance, HasCandidate, TypeOK
    <3>3. pc'[s] \in {"observe", "release"}
      BY <2>5, Moved DEF BeginCandidate, Advance
    <3>4. QED
      BY <2>3, <3>1, <3>2, <3>3 DEF OneCandidate
  <2>6. CASE MaintainIndexes(s) \/ MarkFailed(s)
    <3>1. HasCandidate(s) /\ cand[s] \in Gens
      BY <2>6 DEF MaintainIndexes, MarkFailed, HasCandidate, InProgress, Sound
    <3>2. \A g \in Gens : gen'[g].state = "building" =>
              gen[g].state = "building" /\ g = cand[s]
      <4>1. \/ gen' = gen
            \/ gen' = [gen EXCEPT ![cand[s]].state = "failed"]
        BY <2>6 DEF MaintainIndexes, MarkFailed
      <4>2. gen' = [gen EXCEPT ![cand[s]].state = "failed"] =>
                \A g \in Gens : \/ gen'[g] = gen[g]
                                \/ gen'[g].state = "failed"
        BY <3>1 DEF TypeOK, Generation
      <4>3. QED
        BY <3>1, <4>1, <4>2 DEF Alone
    <3>3. CASE MarkFailed(s)
      <4>1. gen'[cand[s]].state = "failed"
        BY <3>1, <3>3 DEF MarkFailed, TypeOK, Generation
      <4>2. QED
        BY <2>3, <3>2, <4>1 DEF OneCandidate
    <3>4. CASE MaintainIndexes(s)
      <4>1. cand'[s] = cand[s] /\ pc'[s] \in {"publish", "fail"}
        BY <3>4, Moved DEF MaintainIndexes, Advance
      <4>2. QED
        BY <2>3, <3>2, <4>1 DEF OneCandidate
    <3>5. QED
      BY <2>6, <3>3, <3>4
  <2>7. CASE Publish(s)
    <3>1. HasCandidate(s) /\ cand[s] \in Gens
      BY <2>7 DEF Publish, HasCandidate, InProgress, Sound
    <3>2. \A g \in Gens : gen'[g].state # "building"
      <4>1. ASSUME NEW g \in Gens PROVE gen'[g].state # "building"
        <5>1. gen[g].state = "building" => g = cand[s]
          BY <3>1 DEF Alone
        <5>2. g = cand[s] => gen'[g].state = PublishState(s)
          BY <2>7 DEF Publish, TypeOK, Generation
        <5>3. g # cand[s] => \/ gen'[g] = gen[g]
                             \/ gen'[g].state = "superseded"
          BY <2>7 DEF Publish, TypeOK, Generation
        <5>4. PublishState(s) # "building"
          BY DEF PublishState
        <5>5. QED
          BY <5>1, <5>2, <5>3, <5>4
      <4>2. QED
        BY <4>1
    <3>3. QED
      BY <2>3, <3>2 DEF OneCandidate
  <2>8. CASE /\ ~SweepAbandonedCandidates(s)
             /\ ~\E g \in Gens : BeginCandidate(s, g)
             /\ ~MaintainIndexes(s) /\ ~Publish(s) /\ ~MarkFailed(s)
    <3>1. \A g \in Gens : gen'[g].state = gen[g].state
      BY <1>1, <2>8, StatesKept
    <3>2. OneCandidate'
      BY <3>1 DEF OneCandidate
    <3>3. HasCandidate(s)' =>
              \A g \in Gens : gen'[g].state = "building" => g = cand'[s]
      BY <1>1, <2>8, <3>1, KeepsCandidate DEF Alone
    <3>4. pc'[s] \in {"list", "clean", "settle", "active", "begin"} =>
              pc[s] \in {"list", "clean", "settle", "active", "begin"}
      <4>1. CASE \/ ListReclaimable(s) \/ Settle(s) \/ ActiveGeneration(s)
                 \/ \E g \in Gens : Cleanup(s, g) \/ CleanupRefused(s, g)
        BY <4>1 DEF ListReclaimable, Settle, ActiveGeneration, Cleanup,
           CleanupRefused
      <4>2. CASE \/ ObserveSources(s) \/ ReadTranscript(s)
                 \/ RetainRevision(s) \/ WriteSession(s)
                 \/ \E o \in Occs : LookAt(s, o) \/ LookFails(s, o)
                 \/ AddGenerationMember(s) \/ PutCheckpoint(s)
                 \/ AbsorbFailure(s) \/ TombstoneUnseen(s)
                 \/ CountCandidate(s) \/ PublishRefused(s)
        BY <4>2, Moved DEF ObserveSources, ReadTranscript, RetainRevision,
           WriteSession, LookAt, LookFails, AddGenerationMember, PutCheckpoint,
           AbsorbFailure, TombstoneUnseen, CountCandidate, PublishRefused,
           Advance, Commit, OnError
      <4>3. CASE DatabaseError(s) \/ Release(s) \/ Kill(s)
        BY <4>3, Moved DEF DatabaseError, Release, Kill, Leave, OnError
      <4>4. CASE \E tol \in Tolerance, key \in Keys :
                     Start(s, tol, key)
        BY <4>4, Moved DEF Start
      <4>5. QED
        BY <1>1, <2>8, <4>1, <4>2, <4>3, <4>4 DEF Work
    <3>5. QED
      BY <2>3, <3>1, <3>2, <3>3, <3>4 DEF Alone
  <2>9. QED
    BY <2>4, <2>5, <2>6, <2>7, <2>8
<1>2. CASE DropLease
  BY <1>2 DEF DropLease, Fault
<1>3. CASE Edit \/ UNCHANGED vars
  <2>1. /\ gen' = gen /\ pc' = pc /\ cand' = cand /\ lease' = lease
    BY <1>3 DEF Edit, vars, store, disk
  <2>2. QED
    BY <2>1 DEF Alone, OneCandidate, HasCandidate
<1>4. QED
  BY <1>1, <1>2, <1>3 DEF AnyStep, Moves

\* Both facts hold of every reachable state.
LEMMA AlwaysAlone ==
    ASSUME "drop" \notin Faults
    PROVE  Behaviour => []Alone /\ []OneCandidate
<1>1. Init => Alone /\ OneCandidate
  BY DEF Init, Alone, OneCandidate, HasCandidate, GenerationRow
<1>2. TypeOK /\ InProgress /\ Alone /\ OneCandidate /\ [AnyStep]_vars
          => Alone' /\ OneCandidate'
  BY AloneStep
<1>3. QED
  BY <1>1, <1>2, AlwaysTyped, PTL DEF Behaviour

\* The lease and the sweep under it let one candidate be open at a time, for
\* any number of scans that fail, are killed or lose acknowledgements.  The
\* hypothesis is needed: a scan whose lease connection died goes on, and
\* another one may begin beside it.
THEOREM AlwaysOneCandidate ==
    ASSUME "drop" \notin Faults
    PROVE  Spec => []OneCandidate
BY AlwaysAlone, SpecBehaves, PTL

=============================================================================
