------------------------ MODULE CatalogServed_proofs ------------------------
(***************************************************************************)
(* What a search reads: theorems about CatalogScan on the rows of a served *)
(* generation and on tombstones, and the lemmas on who touches which row;  *)
(* and that the scan lifecycle implements CatalogAnswer.                   *)
(***************************************************************************)
EXTENDS CatalogScan_proofs

\* Everything that is not the lease or a file.
Program == <<store, pc, cand, run, stale>>

\* A step is that of one scan, or changes nothing of the program.
LEMMA OneMoves ==
    ASSUME [AnyStep]_vars
    PROVE  (\E s \in Scans : Moves(s)) \/ UNCHANGED Program
BY DEF AnyStep, Moves, DropLease, Edit, vars, Program, store

\* The locals of the scans that do not move.
LEMMA OthersRest ==
    ASSUME TypeOK, NEW s \in Scans, Moves(s), NEW t \in Scans \ {s}
    PROVE  /\ pc'[t] = pc[t] /\ cand'[t] = cand[t] /\ run'[t] = run[t]
           /\ HasCandidate(t)' <=> HasCandidate(t)
           /\ Session(t)' = Session(t)
BY OthersStay DEF Moves, HasCandidate, Session

\* The control flow of a scan: where each statement is made and where it leads,
\* answered or failed.
Flows(s, from, to) == pc[s] \in from /\ pc'[s] \in to

LEMMA RepairFlow ==
    ASSUME TypeOK, NEW s \in Scans
    PROVE  /\ SweepAbandonedCandidates(s) =>
                  Flows(s, {"sweep"}, {"list", "release"})
           /\ ListReclaimable(s) =>
                  Flows(s, {"list"}, {"active", "clean", "release"})
           /\ \A g \in Gens : Cleanup(s, g) =>
                  Flows(s, {"clean"}, {"clean", "settle", "release"})
           /\ \A g \in Gens : CleanupRefused(s, g) =>
                  Flows(s, {"clean"}, {"release"})
           /\ Settle(s) => Flows(s, {"settle"}, {"active", "release"})
           /\ ActiveGeneration(s) => Flows(s, {"active"}, {"begin"})
           /\ \A g \in Gens : BeginCandidate(s, g) =>
                  Flows(s, {"begin"}, {"observe", "release"})
           /\ \A tol, key : Start(s, tol, key) =>
                  Flows(s, {"idle"}, {"sweep"})
           /\ Release(s) => Flows(s, {"release"}, {"idle"})
           /\ Kill(s) => Flows(s, Steps \ {"idle"}, {"idle"})
<1> USE Moved DEF Flows, Advance, Commit
<1>1. /\ SweepAbandonedCandidates(s) =>
            Flows(s, {"sweep"}, {"list", "release"})
      /\ ListReclaimable(s) =>
            Flows(s, {"list"}, {"active", "clean", "release"})
  BY DEF SweepAbandonedCandidates, ListReclaimable, OnError, AfterReclaim
<1>2. ASSUME NEW g \in Gens
      PROVE  /\ Cleanup(s, g) =>
                   Flows(s, {"clean"}, {"clean", "settle", "release"})
             /\ CleanupRefused(s, g) => Flows(s, {"clean"}, {"release"})
             /\ BeginCandidate(s, g) =>
                   Flows(s, {"begin"}, {"observe", "release"})
  BY DEF Cleanup, CleanupRefused, BeginCandidate
<1>3. /\ Settle(s) => Flows(s, {"settle"}, {"active", "release"})
      /\ ActiveGeneration(s) => Flows(s, {"active"}, {"begin"})
  BY DEF Settle, ActiveGeneration, AfterReclaim
<1>4. /\ \A tol, key : Start(s, tol, key) => Flows(s, {"idle"}, {"sweep"})
      /\ Release(s) => Flows(s, {"release"}, {"idle"})
      /\ Kill(s) => Flows(s, Steps \ {"idle"}, {"idle"})
  BY DEF Start, Release, Kill, Leave, TypeOK
<1>5. QED
  BY <1>1, <1>2, <1>3, <1>4

LEMMA FillFlow ==
    ASSUME TypeOK, NEW s \in Scans
    PROVE  /\ ObserveSources(s) => Flows(s, {"observe"}, {"look", "fail"})
           /\ \A o \in Occs : LookAt(s, o) =>
                  Flows(s, {"look"}, {"present", "read"})
           /\ \A o \in Occs : LookFails(s, o) =>
                  Flows(s, {"look"}, {"absorb"})
           /\ ReadTranscript(s) => Flows(s, {"read"}, {"retain", "absorb"})
           /\ RetainRevision(s) =>
                  Flows(s, {"retain"}, {"present", "write", "absorb"})
           /\ WriteSession(s) => Flows(s, {"write"}, {"present", "absorb"})
           /\ AddGenerationMember(s) =>
                  Flows(s, {"present"}, {"confirm", "absorb"})
           /\ PutCheckpoint(s) => Flows(s, {"confirm"}, {"look", "absorb"})
           /\ AbsorbFailure(s) => Flows(s, {"absorb"}, {"look", "fail"})
           /\ TombstoneUnseen(s) => Flows(s, {"look"}, {"count", "fail"})
           /\ CountCandidate(s) => Flows(s, {"count"}, {"index", "fail"})
           /\ MaintainIndexes(s) => Flows(s, {"index"}, {"publish", "fail"})
           /\ Publish(s) => Flows(s, {"publish"}, {"list", "fail"})
           /\ PublishRefused(s) => Flows(s, {"publish"}, {"fail"})
           /\ MarkFailed(s) => Flows(s, {"fail"}, {"list", "release"})
           /\ DatabaseError(s) =>
                  \/ Flows(s, {"retain", "write", "present", "confirm"},
                            {"absorb"})
                  \/ Flows(s, {"observe", "count", "publish"}, {"fail"})
                  \/ Flows(s, {"sweep", "list", "clean", "settle", "active",
                               "begin", "fail"}, {"release"})
<1> USE Moved DEF Flows, Advance, Commit, OnError
<1>1. /\ ObserveSources(s) => Flows(s, {"observe"}, {"look", "fail"})
      /\ ReadTranscript(s) => Flows(s, {"read"}, {"retain", "absorb"})
      /\ RetainRevision(s) =>
            Flows(s, {"retain"}, {"present", "write", "absorb"})
      /\ WriteSession(s) => Flows(s, {"write"}, {"present", "absorb"})
      /\ AddGenerationMember(s) =>
            Flows(s, {"present"}, {"confirm", "absorb"})
  BY DEF ObserveSources, ReadTranscript, RetainRevision, WriteSession,
     AddGenerationMember
<1>2. ASSUME NEW o \in Occs
      PROVE  /\ LookAt(s, o) => Flows(s, {"look"}, {"present", "read"})
             /\ LookFails(s, o) => Flows(s, {"look"}, {"absorb"})
  BY DEF LookAt, LookFails
<1>3. /\ PutCheckpoint(s) => Flows(s, {"confirm"}, {"look", "absorb"})
      /\ AbsorbFailure(s) => Flows(s, {"absorb"}, {"look", "fail"})
      /\ TombstoneUnseen(s) => Flows(s, {"look"}, {"count", "fail"})
      /\ CountCandidate(s) => Flows(s, {"count"}, {"index", "fail"})
      /\ MaintainIndexes(s) => Flows(s, {"index"}, {"publish", "fail"})
  BY DEF PutCheckpoint, AbsorbFailure, TombstoneUnseen, CountCandidate,
     MaintainIndexes
<1>4. /\ Publish(s) => Flows(s, {"publish"}, {"list", "fail"})
      /\ PublishRefused(s) => Flows(s, {"publish"}, {"fail"})
      /\ MarkFailed(s) => Flows(s, {"fail"}, {"list", "release"})
  BY DEF Publish, PublishRefused, MarkFailed
<1>5. DatabaseError(s) =>
          \/ Flows(s, {"retain", "write", "present", "confirm"}, {"absorb"})
          \/ Flows(s, {"observe", "count", "publish"}, {"fail"})
          \/ Flows(s, {"sweep", "list", "clean", "settle", "active", "begin",
                       "fail"}, {"release"})
  BY DEF DatabaseError
<1>6. QED
  BY <1>1, <1>2, <1>3, <1>4, <1>5

\* Which statement leads to a step.
LEMMA CameFrom ==
    ASSUME TypeOK, NEW s \in Scans, Moves(s)
    PROVE  /\ pc'[s] = "list" => \/ SweepAbandonedCandidates(s)
                                 \/ Publish(s) \/ MarkFailed(s)
           /\ pc'[s] = "clean" => \/ ListReclaimable(s)
                                  \/ \E g \in Gens : Cleanup(s, g)
           /\ pc'[s] = "settle" => \E g \in Gens : Cleanup(s, g)
           /\ pc'[s] = "active" => ListReclaimable(s) \/ Settle(s)
           /\ pc'[s] = "begin" => ActiveGeneration(s)
           /\ pc'[s] = "observe" => \E g \in Gens : BeginCandidate(s, g)
           /\ pc'[s] = "look" => \/ ObserveSources(s) \/ PutCheckpoint(s)
                                 \/ AbsorbFailure(s)
           /\ pc'[s] = "read" => \E o \in Occs : LookAt(s, o)
           /\ pc'[s] = "retain" => ReadTranscript(s)
           /\ pc'[s] = "write" => RetainRevision(s)
           /\ pc'[s] = "present" => \/ \E o \in Occs : LookAt(s, o)
                                    \/ RetainRevision(s) \/ WriteSession(s)
           /\ pc'[s] = "confirm" => AddGenerationMember(s)
           /\ pc'[s] = "count" => TombstoneUnseen(s)
           /\ pc'[s] = "index" => CountCandidate(s)
           /\ pc'[s] = "publish" => MaintainIndexes(s)
<1>1. CASE \E g \in Gens : \/ Cleanup(s, g) \/ CleanupRefused(s, g)
                          \/ BeginCandidate(s, g)
  BY <1>1, RepairFlow DEF Flows
<1>2. CASE \E o \in Occs : LookAt(s, o) \/ LookFails(s, o)
  BY <1>2, FillFlow DEF Flows
<1>3. CASE \/ SweepAbandonedCandidates(s) \/ ListReclaimable(s) \/ Settle(s)
           \/ ActiveGeneration(s) \/ Release(s) \/ Kill(s)
           \/ \E tol \in Tolerance, key \in Keys : Start(s, tol, key)
  BY <1>3, RepairFlow DEF Flows
<1>4. CASE ~\E g \in Gens : \/ Cleanup(s, g) \/ CleanupRefused(s, g)
                           \/ BeginCandidate(s, g)
  BY <1>2, <1>3, <1>4, FillFlow DEF Flows, Moves, Work
<1>5. QED
  BY <1>1, <1>4

-----------------------------------------------------------------------------
(* Whose generation is whose.                                              *)

LEMMA NoGeneration == 0 \notin Gens
BY CatalogAssumption DEF Gens

\* A scan's candidate was begun and is no other scan's; the active generation
\* is nobody's candidate, except of a scan that published it without learning
\* so and is about to fail it.
Owned ==
    /\ active # 0 => gen[active].state # "none"
    /\ \A s \in Scans : HasCandidate(s) => /\ gen[cand[s]].state # "none"
                                           /\ cand[s] = active => pc[s] = "fail"
    /\ \A s, t \in Scans : HasCandidate(s) /\ HasCandidate(t) /\ s # t =>
           cand[s] # cand[t]

\* A generation that was begun stays begun.
LEMMA BornStay ==
    ASSUME TypeOK, NEW s \in Scans, Moves(s)
    PROVE  \A g \in Gens : gen[g].state # "none" => gen'[g].state # "none"
<1>1. CASE SweepAbandonedCandidates(s)
  BY <1>1 DEF SweepAbandonedCandidates, TypeOK, Generation
<1>2. CASE \E g \in Gens : BeginCandidate(s, g)
  BY <1>2 DEF BeginCandidate, GenerationRow, TypeOK
<1>3. CASE MaintainIndexes(s) \/ MarkFailed(s)
  <2>1. \/ gen' = gen
        \/ gen' = [gen EXCEPT ![cand[s]].state = "failed"]
    BY <1>3 DEF MaintainIndexes, MarkFailed
  <2>2. QED
    BY <2>1 DEF TypeOK, Generation
<1>4. CASE Publish(s)
  BY <1>4 DEF Publish, PublishState, TypeOK, Generation
<1>5. QED
  BY <1>1, <1>2, <1>3, <1>4, StatesKept DEF Moves

\* Only a publication moves the pointer.
LEMMA PointerKept ==
    ASSUME TypeOK, NEW s \in Scans, Moves(s)
    PROVE  \/ active' = active
           \/ Publish(s) /\ active' = cand[s]
<1>1. CASE Publish(s)
  BY <1>1 DEF Publish
<1>2. CASE SweepAbandonedCandidates(s) \/ MaintainIndexes(s) \/ MarkFailed(s)
           \/ \E g \in Gens : BeginCandidate(s, g)
  BY <1>2 DEF SweepAbandonedCandidates, MaintainIndexes, MarkFailed,
     BeginCandidate
<1>3. QED
  BY <1>1, <1>2, StatesKept DEF Moves

\* A scan that is failing its candidate does nothing else with it.
LEMMA FailingEnds ==
    ASSUME TypeOK, NEW s \in Scans, Moves(s), pc[s] = "fail"
    PROVE  ~HasCandidate(s)'
<1>1. CASE \E g \in Gens : \/ Cleanup(s, g) \/ CleanupRefused(s, g)
                          \/ BeginCandidate(s, g)
  BY <1>1, RepairFlow DEF Flows
<1>2. CASE \E o \in Occs : LookAt(s, o) \/ LookFails(s, o)
  BY <1>2, FillFlow DEF Flows
<1>3. QED
  BY <1>1, <1>2, FillFlow, RepairFlow DEF Moves, Work, Flows, HasCandidate

LEMMA OwnedStep ==
    ASSUME TypeOK, InProgress, Owned, [AnyStep]_vars
    PROVE  Owned'
<1>1. ASSUME NEW s \in Scans, Moves(s) PROVE Owned'
  <2>1. /\ \A t \in Scans \ {s} : /\ HasCandidate(t)' <=> HasCandidate(t)
                                  /\ cand'[t] = cand[t] /\ pc'[t] = pc[t]
        /\ \A t \in Scans : HasCandidate(t) => cand[t] \in Gens
        /\ active \in Gens \cup {0}
    BY <1>1, OthersRest DEF InProgress, Sound, TypeOK
  <2>2. CASE \E g \in Gens : BeginCandidate(s, g)
    <3>1. PICK g \in Gens : BeginCandidate(s, g)
      BY <2>2
    <3>2. /\ gen[g].state = "none" /\ gen'[g].state # "none"
          /\ active' = active
          /\ \A h \in Gens \ {g} : gen'[h] = gen[h]
          /\ HasCandidate(s)' => cand'[s] = g
      BY <3>1, Moved DEF BeginCandidate, GenerationRow, TypeOK, Advance,
         HasCandidate
    <3>3. g # active /\ \A t \in Scans : HasCandidate(t) => cand[t] # g
      BY <3>2, NoGeneration DEF Owned
    <3>4. QED
      BY <2>1, <3>2, <3>3 DEF Owned
  <2>3. CASE Publish(s)
    <3>1. /\ HasCandidate(s) /\ active' = cand[s]
          /\ HasCandidate(s)' => pc'[s] = "fail" /\ cand'[s] = cand[s]
      BY <2>3, Moved DEF Publish, Advance, HasCandidate
    <3>2. QED
      BY <1>1, <2>1, <3>1, BornStay DEF Owned
  <2>4. CASE ~Publish(s) /\ ~\E g \in Gens : BeginCandidate(s, g)
    <3>1. active' = active
      BY <1>1, <2>4, PointerKept
    <3>2. HasCandidate(s)' => /\ HasCandidate(s) /\ cand'[s] = cand[s]
                              /\ pc[s] # "fail"
      BY <1>1, <2>4, KeepsCandidate, FailingEnds DEF Moves
    <3>3. QED
      BY <1>1, <2>1, <3>1, <3>2, BornStay DEF Owned
  <2>5. QED
    BY <2>2, <2>3, <2>4
<1>2. CASE UNCHANGED Program
  BY <1>2 DEF Program, store, Owned, HasCandidate
<1>3. QED
  BY <1>1, <1>2, OneMoves

-----------------------------------------------------------------------------
(* Which statements touch the rows.                                        *)

\* Members come with AddGenerationMember and go with Cleanup; derived rows come
\* with WriteSession and go with Cleanup.
LEMMA RowsKept ==
    ASSUME NEW s \in Scans, Moves(s)
    PROVE  /\ \/ member' = member
              \/ AddGenerationMember(s)
              \/ \E g \in Gens : Cleanup(s, g)
           /\ \/ derived' = derived
              \/ WriteSession(s)
              \/ \E g \in Gens : Cleanup(s, g)
           /\ \/ stale' = stale \/ stale' = stale \ {s}
              \/ \E g \in Gens : Cleanup(s, g)
<1>1. CASE \E g \in Gens : BeginCandidate(s, g) \/ CleanupRefused(s, g)
  BY <1>1 DEF BeginCandidate, CleanupRefused, store
<1>2. CASE \E o \in Occs : LookAt(s, o) \/ LookFails(s, o)
  BY <1>2 DEF LookAt, LookFails
<1>3. QED
  BY <1>1, <1>2 DEF Moves, Work, Kill, Start, SweepAbandonedCandidates,
     ListReclaimable, Settle, ActiveGeneration, ObserveSources,
     ReadTranscript, RetainRevision, WriteSession, AddGenerationMember,
     PutCheckpoint, AbsorbFailure, TombstoneUnseen, CountCandidate,
     MaintainIndexes, Publish, PublishRefused, MarkFailed, Release,
     DatabaseError, Leave, store

\* The foreign key of generation_member: every row a generation presents
\* exists, and a scan that is about to present one holds it, or the id of one
\* that was deleted.
Referenced ==
    /\ \A g \in Gens : member[g] \subseteq derived
    /\ \A s \in Scans : pc[s] = "present" /\ s \notin stale =>
           Session(s) \in derived

\* Orphans are what no generation presents.
LEMMA CleanupSpares ==
    ASSUME TypeOK, Referenced, NEW s \in Scans, NEW g \in Gens, Cleanup(s, g)
    PROVE  /\ member' = [member EXCEPT ![g] = {}]
           /\ \A h \in Gens : member'[h] \subseteq derived'
           /\ derived' \subseteq derived
<1>1. member' = [member EXCEPT ![g] = {}]
        /\ derived' = derived \ Orphans(member')
  BY DEF Cleanup
<1>2. \A h \in Gens : member'[h] \subseteq member[h]
  BY <1>1 DEF TypeOK
<1>3. QED
  BY <1>1, <1>2 DEF Referenced, Orphans

LEMMA ReferencedStep ==
    ASSUME TypeOK, InProgress, Referenced, [AnyStep]_vars
    PROVE  Referenced'
<1>1. ASSUME NEW s \in Scans, Moves(s) PROVE Referenced'
  <2>1. \A t \in Scans \ {s} : pc'[t] = pc[t] /\ Session(t)' = Session(t)
    BY <1>1, OthersRest
  <2>2. ASSUME NEW g \in Gens, Cleanup(s, g) PROVE Referenced'
    <3>1. pc'[s] # "present"
      BY <2>2, Moved DEF Cleanup, Advance
    <3>2. ASSUME NEW t \in Scans, pc'[t] = "present", t \notin stale'
          PROVE  Session(t)' \in derived'
      <4>1. t # s /\ pc[t] = "present" /\ Session(t)' = Session(t)
        BY <2>1, <3>1, <3>2
      <4>2. t \notin stale /\ Session(t) \notin Orphans([member EXCEPT ![g] = {}])
        BY <2>2, <3>2, <4>1 DEF Cleanup
      <4>3. QED
        BY <2>2, <4>1, <4>2 DEF Cleanup, Referenced
    <3>3. QED
      BY <2>2, <3>2, CleanupSpares DEF Referenced
  <2>3. CASE WriteSession(s)
    <3>1. member' = member /\ derived \subseteq derived'
            /\ stale' = stale \ {s} /\ run' = run
      BY <2>3 DEF WriteSession
    <3>2. pc'[s] = "present" => Session(s) \in derived'
      BY <2>3, Moved DEF WriteSession, Commit, Advance, OnError
    <3>3. Session(s)' = Session(s)
      BY <3>1 DEF Session
    <3>4. QED
      BY <2>1, <3>1, <3>2, <3>3 DEF Referenced
  <2>4. CASE AddGenerationMember(s)
    <3>1. derived' = derived /\ stale' = stale
      BY <2>4 DEF AddGenerationMember
    <3>2. \A g \in Gens : member'[g] \subseteq derived
      BY <2>4 DEF AddGenerationMember, TypeOK, Referenced
    <3>3. pc'[s] # "present"
      BY <2>4, Moved DEF AddGenerationMember, Commit, Advance, OnError
    <3>4. QED
      BY <2>1, <3>1, <3>2, <3>3 DEF Referenced
  <2>5. CASE /\ ~WriteSession(s) /\ ~AddGenerationMember(s)
             /\ ~\E g \in Gens : Cleanup(s, g)
    <3>1. /\ member' = member /\ derived' = derived
          /\ stale' = stale \/ stale' = stale \ {s}
      BY <1>1, <2>5, RowsKept
    <3>2. pc'[s] = "present" => Session(s)' \in derived
      <4>1. CASE \E o \in Occs : LookAt(s, o)
        <5>1. PICK o \in Occs : LookAt(s, o)
          BY <4>1
        <5>2. pc'[s] = "present" =>
                  /\ run'[s] = [run[s] EXCEPT !.seen = @ \cup {o},
                                              !.rev = checkpoint[o]]
                  /\ [rev |-> checkpoint[o], key |-> run[s].key] \in derived
          BY <5>1, Moved DEF LookAt, Advance
        <5>3. run[s] \in Locals
          BY LocalsFields
        <5>4. QED
          BY <5>2, <5>3 DEF Session, Locals
      <4>2. CASE RetainRevision(s)
        BY <4>2, Moved DEF RetainRevision, Commit, Advance, OnError, Session
      <4>3. CASE ~RetainRevision(s) /\ ~\E o \in Occs : LookAt(s, o)
        <5>1. pc'[s] # "present"
          BY <1>1, <2>5, <4>3, CameFrom
        <5>2. QED
          BY <5>1
      <4>4. QED
        BY <4>1, <4>2, <4>3
    <3>3. QED
      BY <2>1, <3>1, <3>2 DEF Referenced
  <2>6. QED
    BY <2>2, <2>3, <2>4, <2>5
<1>2. CASE UNCHANGED Program
  BY <1>2 DEF Program, store, Referenced, Session
<1>3. QED
  BY <1>1, <1>2, OneMoves

-----------------------------------------------------------------------------
(* What a search reads does not change under it.                           *)

LEMMA OwnedInit == Init => Owned /\ Referenced
BY NoGeneration DEF Init, Owned, Referenced, HasCandidate

\* Every begun candidate is a scan's own and every presented row exists, in
\* every reachable state, whatever faults there are.
LEMMA AlwaysOwned == Behaviour => []Owned /\ []Referenced
<1>1. TypeOK /\ InProgress /\ Owned /\ [AnyStep]_vars => Owned'
  BY OwnedStep
<1>2. TypeOK /\ InProgress /\ Referenced /\ [AnyStep]_vars => Referenced'
  BY ReferencedStep
<1>3. QED
  BY <1>1, <1>2, OwnedInit, AlwaysTyped, PTL DEF Behaviour

\* The statements that touch the generation table.
LEMMA TableKept ==
    ASSUME NEW s \in Scans, Moves(s)
    PROVE  \/ gen' = gen
           \/ SweepAbandonedCandidates(s) \/ CountCandidate(s)
           \/ MaintainIndexes(s) \/ Publish(s) \/ MarkFailed(s)
           \/ \E g \in Gens : Cleanup(s, g) \/ BeginCandidate(s, g)
<1>1. CASE \E g \in Gens : CleanupRefused(s, g)
  BY <1>1 DEF CleanupRefused, store
<1>2. CASE \E o \in Occs : LookAt(s, o) \/ LookFails(s, o)
  BY <1>2 DEF LookAt, LookFails
<1>3. QED
  BY <1>1, <1>2 DEF Moves, Work, Kill, Start, ListReclaimable, Settle,
     ActiveGeneration, ObserveSources, ReadTranscript, RetainRevision,
     WriteSession, AddGenerationMember, PutCheckpoint, AbsorbFailure,
     TombstoneUnseen, PublishRefused, Release, DatabaseError, Leave, store

\* While the pointer stays, no statement touches the members, the counts or
\* the declared failures of the generation it names.
LEMMA ActiveUntouched ==
    ASSUME TypeOK, InProgress, Owned, Referenced, [AnyStep]_vars,
           active # 0, active' = active
    PROVE  /\ member'[active] = member[active]
           /\ member[active] \subseteq derived'
           /\ gen'[active].counts = gen[active].counts
           /\ \/ gen'[active] = gen[active]
              \/ gen[active].state = "building"
              \/ \E s \in Scans : MarkFailed(s) /\ cand[s] = active
<1>0. active \in Gens
  BY DEF TypeOK
<1>1. member'[active] = member[active]
  <2>1. ASSUME NEW s \in Scans, AddGenerationMember(s)
        PROVE  member'[active] = member[active]
    <3>1. cand[s] # active
      BY <2>1 DEF AddGenerationMember, Owned, HasCandidate
    <3>2. QED
      BY <1>0, <2>1, <3>1 DEF AddGenerationMember, TypeOK
  <2>2. ASSUME NEW s \in Scans, NEW g \in Gens, Cleanup(s, g)
        PROVE  member'[active] = member[active]
    BY <1>0, <2>2 DEF Cleanup, Refused, TypeOK
  <2>3. CASE UNCHANGED Program
    BY <2>3 DEF Program, store
  <2>4. QED
    BY <2>1, <2>2, <2>3, OneMoves, RowsKept
<1>2. member[active] \subseteq derived'
  BY <1>0, <1>1, ReferencedStep DEF Referenced
<1>3. ASSUME NEW s \in Scans, Moves(s)
      PROVE  /\ gen'[active].counts = gen[active].counts
             /\ \/ gen'[active] = gen[active]
                \/ gen[active].state = "building"
                \/ MarkFailed(s) /\ cand[s] = active
  <2>1. CASE SweepAbandonedCandidates(s)
    BY <1>0, <2>1 DEF SweepAbandonedCandidates, Abandoned, TypeOK, Generation
  <2>2. CASE CountCandidate(s) \/ MaintainIndexes(s) \/ Publish(s)
    <3>1. cand[s] # active
      BY <2>2 DEF CountCandidate, MaintainIndexes, Publish, Owned, HasCandidate
    <3>2. ~Publish(s)
      BY <3>1 DEF Publish
    <3>3. QED
      BY <1>0, <2>2, <3>1, <3>2 DEF CountCandidate, MaintainIndexes, TypeOK
  <2>3. CASE MarkFailed(s)
    BY <1>0, <2>3 DEF MarkFailed, TypeOK, Generation
  <2>4. CASE \E g \in Gens : Cleanup(s, g)
    BY <1>0, <2>4 DEF Cleanup, Refused, TypeOK
  <2>5. CASE \E g \in Gens : BeginCandidate(s, g)
    BY <1>0, <2>5 DEF BeginCandidate, Owned, TypeOK
  <2>6. QED
    BY <1>3, <2>1, <2>2, <2>3, <2>4, <2>5, TableKept
<1>4. CASE UNCHANGED Program
  BY <1>1, <1>2, <1>4 DEF Program, store
<1>5. CASE \E s \in Scans : Moves(s)
  <2>1. PICK s \in Scans : Moves(s)
    BY <1>5
  <2>2. QED
    BY <1>1, <1>2, <1>3, <2>1
<1>6. QED
  BY <1>4, <1>5, OneMoves

\* The rows and counts a search reads from the active generation stay as long
\* as the pointer does, for any number of scans and all the faults: errors,
\* kills, lost acknowledgements and lost leases.
THEOREM ServedRowsStay == Spec => ServedRows
<1>1. TypeOK /\ InProgress /\ Owned /\ Referenced /\ [AnyStep]_vars =>
          [active # 0 /\ active' = active =>
              /\ member'[active] = member[active]
              /\ gen'[active].counts = gen[active].counts
              /\ member[active] \subseteq derived']_vars
  BY ActiveUntouched
<1>2. QED
  BY <1>1, AlwaysOwned, AlwaysTyped, SpecBehaves, PTL
     DEF Behaviour, ServedRows

\* As long as no acknowledgement is lost, the whole generation stays.
LEMMA ActiveUnchanged ==
    ASSUME TypeOK, InProgress, Owned, Referenced, Apart, PublishedIsActive,
           [AnyStep]_vars, active # 0, active' = active
    PROVE  gen'[active] = gen[active]
<1>1. gen[active].state \in Published
  BY DEF PublishedIsActive, TypeOK
<1>2. gen[active].state # "building"
  BY <1>1 DEF Published
<1>3. ASSUME NEW s \in Scans, MarkFailed(s) PROVE cand[s] # active
  BY <1>1, <1>3 DEF MarkFailed, HasCandidate, Apart, Published
<1>4. QED
  BY <1>2, <1>3, ActiveUntouched

\* The hypothesis is needed: a scan that does not learn that it published
\* fails its generation.
THEOREM ServedUnchangedHolds ==
    ASSUME "lost" \notin Faults
    PROVE  Spec => ServedUnchanged
<1>1. TypeOK /\ InProgress /\ Owned /\ Referenced /\ Apart
        /\ PublishedIsActive /\ [AnyStep]_vars =>
          [active # 0 /\ active' = active =>
              /\ gen'[active] = gen[active]
              /\ member'[active] = member[active]
              /\ member[active] \subseteq derived']_vars
  BY ActiveUntouched, ActiveUnchanged
<1>2. QED
  BY <1>1, AlwaysOwned, AlwaysApart, AlwaysTyped, SpecBehaves, PTL
     DEF Behaviour, ServedUnchanged

-----------------------------------------------------------------------------
(* Tombstones.                                                             *)

Filling == {"look", "read", "retain", "write", "present", "confirm", "absorb"}
ListedBy(s) == {o \in Occs : run[s].listing[o] # 0}

\* The checkpoint of an occurrence confirms a revision of that occurrence.
Checkpointed ==
    \A o \in Occs : checkpoint[o] # NoRevision => checkpoint[o].occ = o

LEMMA CheckpointedStep ==
    ASSUME TypeOK, InProgress, Checkpointed, [AnyStep]_vars
    PROVE  Checkpointed'
<1>1. ASSUME NEW s \in Scans, Moves(s) PROVE Checkpointed'
  <2>1. CASE PutCheckpoint(s)
    BY <2>1 DEF PutCheckpoint, Checkpointed, TypeOK
  <2>2. CASE \E g \in Gens : \/ BeginCandidate(s, g)
                            \/ Cleanup(s, g) \/ CleanupRefused(s, g)
    BY <2>2 DEF BeginCandidate, Cleanup, CleanupRefused, Checkpointed, store
  <2>3. CASE \E o \in Occs : LookAt(s, o) \/ LookFails(s, o)
    BY <2>3 DEF LookAt, LookFails, Checkpointed
  <2>4. CASE ~PutCheckpoint(s)
    <3>1. \/ checkpoint' = checkpoint
          \/ \E g \in Gens : \/ BeginCandidate(s, g)
                            \/ Cleanup(s, g) \/ CleanupRefused(s, g)
          \/ \E o \in Occs : LookAt(s, o) \/ LookFails(s, o)
      BY <1>1, <2>4 DEF Moves, Work, Kill, Start, SweepAbandonedCandidates,
         ListReclaimable, Settle, ActiveGeneration, ObserveSources,
         ReadTranscript, RetainRevision, WriteSession, AddGenerationMember,
         AbsorbFailure, TombstoneUnseen, CountCandidate, MaintainIndexes,
         Publish, PublishRefused, MarkFailed, Release, DatabaseError, Leave,
         store
    <3>2. QED
      BY <2>2, <2>3, <3>1 DEF Checkpointed
  <2>5. QED
    BY <2>1, <2>4
<1>2. CASE UNCHANGED Program
  BY <1>2 DEF Program, store, Checkpointed
<1>3. QED
  BY <1>1, <1>2, OneMoves

\* What a scan has seen it has listed, and what it has listed it has seen or
\* still to look at, unless it has recorded a failure.
Repairing(s) ==
    \/ pc[s] \in {"sweep", "active", "begin"}
    \/ pc[s] \in {"list", "clean", "settle"} /\ run[s].phase = "before"
Seen(s) ==
    /\ Repairing(s) \/ pc[s] = "observe" => run[s].seen = {}
    /\ pc[s] \in Filling =>
           /\ run[s].seen \subseteq ListedBy(s)
           /\ run[s].failures = {} =>
                  ListedBy(s) \subseteq run[s].seen \cup run[s].work
    /\ pc[s] \in {"read", "retain", "write", "present", "confirm"} =>
           run[s].rev.occ \in run[s].seen
AllSeen == \A s \in Scans : Seen(s)

LEMMA SeenStep ==
    ASSUME TypeOK, InProgress, Checkpointed, NEW s \in Scans, Seen(s), Moves(s)
    PROVE  Seen(s)'
<1>0. /\ run[s] \in Locals /\ Sound(s)
      /\ \A o \in Occs : ver[o] # 0
      /\ 0 \notin Toks
  BY LocalsFields, CatalogAssumption DEF InProgress, TypeOK
<1> USE DEF Seen, Repairing, Filling, ListedBy
<1>1. CASE \/ SweepAbandonedCandidates(s) \/ Settle(s)
           \/ \E g \in Gens : BeginCandidate(s, g)
  BY <1>1, Moved DEF SweepAbandonedCandidates, Settle, BeginCandidate,
     AfterReclaim, Commit, Advance, OnError
<1>2. CASE \/ ListReclaimable(s) \/ ActiveGeneration(s)
           \/ \E g \in Gens : Cleanup(s, g) \/ CleanupRefused(s, g)
  <2>1. /\ run'[s].seen = run[s].seen
        /\ run'[s].phase \in {run[s].phase, "stuck"}
    <3>1. \/ run'[s] = run[s]
          \/ \E todo : run'[s] = [run[s] EXCEPT !.todo = todo]
          \/ run'[s] = [run[s] EXCEPT !.phase = "stuck"]
          \/ run'[s] = [run[s] EXCEPT !.base = active]
      <4>1. CASE ListReclaimable(s) \/ ActiveGeneration(s)
        BY <4>1, Moved DEF ListReclaimable, ActiveGeneration
      <4>2. CASE \E g \in Gens : Cleanup(s, g) \/ CleanupRefused(s, g)
        BY <4>2, Moved DEF Cleanup, CleanupRefused
      <4>3. QED
        BY <1>2, <4>1, <4>2
    <3>2. QED
      BY <1>0, <3>1 DEF Locals
  <2>2. \/ pc'[s] \in {"clean", "settle"} /\ pc[s] \in {"list", "clean"}
        \/ pc'[s] = AfterReclaim(s) /\ pc[s] = "list"
        \/ pc'[s] = "begin" /\ pc[s] = "active"
        \/ pc'[s] = "release"
    BY <1>2, Moved DEF ListReclaimable, ActiveGeneration, Cleanup,
       CleanupRefused, Advance
  <2>3. QED
    BY <2>1, <2>2 DEF AfterReclaim
<1>3. CASE ObserveSources(s)
  <2>1. CASE pc'[s] = "look"
    <3>1. run'[s] = [run[s] EXCEPT
                !.listing = [o \in Occs |-> IF Listed(o) THEN ver[o] ELSE 0],
                !.work = {o \in Occs : Listed(o)},
                !.failures = {[kind |-> "harness", harness |-> h] :
                                  h \in unlisted}]
      BY <1>3, <2>1, Moved DEF ObserveSources, Advance
    <3>2. /\ run'[s].listing =
                [o \in Occs |-> IF Listed(o) THEN ver[o] ELSE 0]
          /\ run'[s].work = {o \in Occs : Listed(o)}
          /\ run'[s].seen = {}
      BY <1>0, <1>3, <3>1 DEF ObserveSources, Locals
    <3>3. QED
      BY <2>1, <3>2
  <2>2. QED
    BY <1>3, <2>1, Moved DEF ObserveSources, Advance
<1>4. ASSUME NEW o \in Occs, LookAt(s, o) PROVE Seen(s)'
  <2>1. pc'[s] \in {"read", "present"} /\ pc[s] = "look" /\ o \in run[s].work
    BY <1>4, Moved DEF LookAt, Advance
  <2>2. /\ run'[s].seen = run[s].seen \cup {o}
        /\ run'[s].rev.occ = o
        /\ run'[s].listing = run[s].listing /\ run'[s].work = run[s].work
        /\ run'[s].failures = run[s].failures
    <3>1. PICK rev : /\ run'[s] = [run[s] EXCEPT !.seen = @ \cup {o},
                                                 !.rev = rev]
                     /\ \/ rev = checkpoint[o] /\ checkpoint[o] # NoRevision
                        \/ rev = [NoRevision EXCEPT !.occ = o]
      BY <1>4, Moved DEF LookAt
    <3>2. rev.occ = o
      BY <3>1 DEF NoRevision, Checkpointed
    <3>3. QED
      BY <1>0, <3>1, <3>2 DEF Locals
  <2>3. QED
    BY <1>0, <2>1, <2>2 DEF Sound
<1>5. ASSUME NEW o \in Occs, LookFails(s, o) PROVE Seen(s)'
  BY <1>0, <1>5, Moved DEF LookFails, Locals
<1>6. CASE \/ ReadTranscript(s) \/ RetainRevision(s) \/ WriteSession(s)
           \/ AddGenerationMember(s)
  <2>1. /\ run'[s].seen = run[s].seen /\ run'[s].rev.occ = run[s].rev.occ
        /\ run'[s].listing = run[s].listing /\ run'[s].work = run[s].work
        /\ run'[s].failures = run[s].failures
    BY <1>0, <1>6, Moved DEF ReadTranscript, RetainRevision, WriteSession,
       AddGenerationMember, Locals
  <2>2. pc[s] \in {"read", "retain", "write", "present"}
        /\ pc'[s] \in {"retain", "write", "present", "confirm", "absorb"}
    BY <1>6, Moved DEF ReadTranscript, RetainRevision, WriteSession,
       AddGenerationMember, Advance, Commit, OnError
  <2>3. QED
    BY <2>1, <2>2
<1>7. CASE PutCheckpoint(s)
  <2>1. /\ run'[s].seen = run[s].seen
        /\ run'[s].work \in {run[s].work, run[s].work \ {run[s].rev.occ}}
        /\ run'[s].listing = run[s].listing
        /\ run'[s].failures = run[s].failures
    <3>1. \/ run'[s] = run[s]
          \/ run'[s] = [run[s] EXCEPT !.work = @ \ {run[s].rev.occ},
                                      !.rev = NoRevision]
      BY <1>7, Moved DEF PutCheckpoint, Finish
    <3>2. QED
      BY <1>0, <3>1 DEF Locals
  <2>2. pc[s] = "confirm" /\ pc'[s] \in {"look", "absorb"}
    BY <1>7, Moved DEF PutCheckpoint, Advance
  <2>3. QED
    BY <2>1, <2>2
<1>8. CASE AbsorbFailure(s)
  <2>1. CASE pc'[s] = "look"
    <3>1. run'[s] = [run[s] EXCEPT
              !.work = @ \ {run[s].rev.occ}, !.rev = NoRevision,
              !.failures = @ \cup
                {[kind |-> "source", harness |-> HarnessOf[run[s].rev.occ]]}]
      BY <1>8, <2>1, Moved DEF AbsorbFailure, Advance, Finish, Record
    <3>2. /\ run'[s].seen = run[s].seen /\ run'[s].listing = run[s].listing
          /\ run'[s].failures # {}
      BY <1>0, <3>1 DEF Locals
    <3>3. QED
      BY <1>8, <2>1, <3>2 DEF AbsorbFailure
  <2>2. QED
    BY <1>8, <2>1, Moved DEF AbsorbFailure, Advance
<1>9. CASE \/ TombstoneUnseen(s) \/ CountCandidate(s) \/ MaintainIndexes(s)
           \/ PublishRefused(s)
  BY <1>9, Moved DEF TombstoneUnseen, CountCandidate, MaintainIndexes,
     PublishRefused, Advance, Commit, OnError
<1>10. CASE Publish(s) \/ MarkFailed(s)
  <2>1. \/ pc'[s] = "list" /\ run'[s].phase \in {"after", "abandon"}
        \/ pc'[s] \in {"fail", "release"}
    <3>1. CASE Publish(s)
      BY <1>0, <3>1, Moved DEF Publish, Advance, Locals
    <3>2. CASE MarkFailed(s)
      BY <1>0, <3>2, Moved DEF MarkFailed, Advance, Locals
    <3>3. QED
      BY <1>10, <3>1, <3>2
  <2>2. QED
    BY <2>1
<1>11. CASE DatabaseError(s)
  <2>1. /\ run'[s].seen = run[s].seen /\ run'[s].listing = run[s].listing
        /\ run'[s].work = run[s].work /\ run'[s].failures = run[s].failures
    BY <1>0, <1>11, Moved DEF DatabaseError, Locals
  <2>2. \/ /\ pc[s] \in {"retain", "write", "present", "confirm"}
           /\ pc'[s] = "absorb"
        \/ pc'[s] \in {"fail", "release"}
    BY <1>11, Moved DEF DatabaseError, OnError
  <2>3. QED
    BY <2>1, <2>2
<1>12. CASE \/ Release(s) \/ Kill(s)
            \/ \E tol \in Tolerance, key \in Keys : Start(s, tol, key)
  <2>1. \/ pc'[s] = "idle"
        \/ pc'[s] = "sweep" /\ run'[s].seen = {}
    BY <1>12, Moved DEF Release, Kill, Leave, Start, Idle
  <2>2. QED
    BY <2>1
<1>13. QED
  BY <1>1, <1>2, <1>3, <1>4, <1>5, <1>6, <1>7, <1>8, <1>9, <1>10, <1>11,
     <1>12 DEF Moves, Work

LEMMA AllSeenStep ==
    ASSUME TypeOK, InProgress, Checkpointed, AllSeen, [AnyStep]_vars
    PROVE  AllSeen'
<1>1. ASSUME NEW s \in Scans, Moves(s), NEW t \in Scans PROVE Seen(t)'
  <2>1. CASE t = s
    BY <1>1, <2>1, SeenStep DEF AllSeen
  <2>2. CASE t # s
    <3>1. pc'[t] = pc[t] /\ run'[t] = run[t]
      BY <1>1, <2>2, OthersRest
    <3>2. QED
      BY <3>1 DEF AllSeen, Seen, Repairing, ListedBy
  <2>3. QED
    BY <2>1, <2>2
<1>2. CASE UNCHANGED Program
  BY <1>2 DEF Program, AllSeen, Seen, Repairing, ListedBy
<1>3. QED
  BY <1>1, <1>2, OneMoves DEF AllSeen

LEMMA AlwaysSeen == Behaviour => []Checkpointed /\ []AllSeen
<1>1. Init => Checkpointed /\ AllSeen
  BY DEF Init, Checkpointed, AllSeen, Seen, Repairing, Filling, Idle
<1>2. TypeOK /\ InProgress /\ Checkpointed /\ AllSeen /\ [AnyStep]_vars
          => Checkpointed' /\ AllSeen'
  BY CheckpointedStep, AllSeenStep
<1>3. QED
  BY <1>1, <1>2, AlwaysTyped, PTL DEF Behaviour

\* Only the tombstone statement of a scan that failed nowhere makes tombstones.
LEMMA TombstoneStep ==
    ASSUME TypeOK, AllSeen, [AnyStep]_vars, NEW o \in Occs,
           track[o] = "visible", track'[o] = "gone"
    PROVE  \E s \in Scans : /\ pc[s] = "look"
                            /\ run[s].listing[o] = 0
                            /\ run[s].failures = {}
                            /\ run[s].seen =
                                   {p \in Occs : run[s].listing[p] # 0}
<1>1. PICK s \in Scans : Moves(s)
  BY OneMoves DEF Program, store
<1>2. ~\E p \in Occs : LookAt(s, p) \/ LookFails(s, p)
  BY DEF LookAt, LookFails, TypeOK
<1>3. ~\E g \in Gens : \/ BeginCandidate(s, g)
                      \/ Cleanup(s, g) \/ CleanupRefused(s, g)
  BY DEF BeginCandidate, Cleanup, CleanupRefused, store
<1>4. TombstoneUnseen(s)
  BY <1>1, <1>2, <1>3 DEF Moves, Work, Kill, Start, SweepAbandonedCandidates,
     ListReclaimable, Settle, ActiveGeneration, ObserveSources,
     ReadTranscript, RetainRevision, WriteSession, AddGenerationMember,
     PutCheckpoint, AbsorbFailure, CountCandidate, MaintainIndexes,
     Publish, PublishRefused, MarkFailed, Release, DatabaseError, Leave,
     store
<1>5. /\ pc[s] = "look" /\ run[s].work = {} /\ run[s].failures = {}
      /\ o \notin run[s].seen
  BY <1>4 DEF TombstoneUnseen, NothingFailed, Tombstoned, TypeOK
<1>6. run[s].seen = ListedBy(s)
  <2>1. run[s].seen \subseteq ListedBy(s) /\ ListedBy(s) \subseteq run[s].seen
    BY <1>5 DEF AllSeen, Seen, Filling
  <2>2. QED
    BY <2>1
<1>7. QED
  BY <1>5, <1>6 DEF ListedBy

\* An occurrence gains a tombstone only from a scan that listed every harness
\* and all of whose sessions it saw, whatever faults there are and however the
\* files change under it.
THEOREM TombstonesAreTruthful == Spec => TombstonesTruthful
<1>1. TypeOK /\ AllSeen /\ [AnyStep]_vars =>
        [\A o \in Occs : track[o] = "visible" /\ track'[o] = "gone" =>
           \E s \in Scans : /\ pc[s] = "look"
                            /\ run[s].listing[o] = 0
                            /\ run[s].failures = {}
                            /\ run[s].seen =
                                   {p \in Occs : run[s].listing[p] # 0}]_vars
  BY TombstoneStep
<1>2. QED
  BY <1>1, AlwaysSeen, AlwaysTyped, SpecBehaves, PTL
     DEF Behaviour, TombstonesTruthful

-----------------------------------------------------------------------------
(* The scan lifecycle implements what CatalogAnswer promises to a search:   *)
(* the rows of a candidate, their evidence and the order of generations.    *)

\* The steps at which a scan's candidate has its listing.
Building == Filling \cup {"count", "index", "publish"}

\* While a candidate is filled, what the scan has listed, the builder it uses
\* and the generation it started from stay; failures add up; a session leaves
\* the work only when it is confirmed or its failure is absorbed.
LEMMA FillKept ==
    ASSUME TypeOK, NEW s \in Scans, Moves(s), pc'[s] \in Building,
           ~ObserveSources(s)
    PROVE  /\ pc[s] \in Building /\ cand'[s] = cand[s]
           /\ run'[s].listing = run[s].listing
           /\ run'[s].key = run[s].key /\ run'[s].base = run[s].base
           /\ run'[s].phase = run[s].phase
           /\ run'[s].result = run[s].result
           /\ run[s].failures \subseteq run'[s].failures
           /\ IF (PutCheckpoint(s) /\ pc'[s] = "look") \/ AbsorbFailure(s)
              THEN run'[s].work = run[s].work \ {run[s].rev.occ}
              ELSE run'[s].work = run[s].work
           /\ AbsorbFailure(s) =>
                  [kind |-> "source", harness |-> HarnessOf[run[s].rev.occ]]
                      \in run'[s].failures
<1>0. run[s] \in Locals
  BY LocalsFields
<1> USE DEF Building, Filling
<1>1. \/ \E o \in Occs : LookAt(s, o) \/ LookFails(s, o)
      \/ ReadTranscript(s) \/ RetainRevision(s) \/ WriteSession(s)
      \/ AddGenerationMember(s) \/ PutCheckpoint(s) \/ AbsorbFailure(s)
      \/ TombstoneUnseen(s) \/ CountCandidate(s) \/ MaintainIndexes(s)
      \/ DatabaseError(s)
  <2>1. ~\E g \in Gens : \/ Cleanup(s, g) \/ CleanupRefused(s, g)
                        \/ BeginCandidate(s, g)
    BY RepairFlow DEF Flows
  <2>2. ~\E tol \in Tolerance, key \in Keys : Start(s, tol, key)
    BY RepairFlow DEF Flows
  <2>3. ~\/ SweepAbandonedCandidates(s) \/ ListReclaimable(s) \/ Settle(s)
         \/ ActiveGeneration(s) \/ Release(s) \/ Kill(s) \/ Publish(s)
         \/ PublishRefused(s) \/ MarkFailed(s)
    BY RepairFlow, FillFlow DEF Flows
  <2>4. QED
    BY <2>1, <2>2, <2>3 DEF Moves, Work
<1>2. CASE \E o \in Occs : LookAt(s, o) \/ LookFails(s, o)
  <2>1. \/ \E seen, rev :
              run'[s] = [run[s] EXCEPT !.seen = seen, !.rev = rev]
        \/ \E rev : run'[s] = [run[s] EXCEPT !.rev = rev]
    <3>1. ASSUME NEW o \in Occs, LookAt(s, o)
          PROVE  \E seen, rev :
                     run'[s] = [run[s] EXCEPT !.seen = seen, !.rev = rev]
      BY <3>1, Moved DEF LookAt
    <3>2. ASSUME NEW o \in Occs, LookFails(s, o)
          PROVE  \E rev : run'[s] = [run[s] EXCEPT !.rev = rev]
      BY <3>2, Moved DEF LookFails
    <3>3. QED
      BY <1>2, <3>1, <3>2
  <2>2. pc[s] = "look" /\ cand' = cand
    BY <1>2 DEF LookAt, LookFails
  <2>3. QED
    BY <1>0, <2>1, <2>2 DEF Locals, PutCheckpoint, AbsorbFailure
<1>3. CASE AbsorbFailure(s)
  <2>1. pc'[s] = "look"
    BY <1>3, FillFlow DEF Flows
  <2>2. run'[s] = [run[s] EXCEPT
            !.work = @ \ {run[s].rev.occ}, !.rev = NoRevision,
            !.failures = @ \cup
                {[kind |-> "source", harness |-> HarnessOf[run[s].rev.occ]]}]
    BY <1>3, <2>1, Moved DEF AbsorbFailure, Advance, Finish, Record
  <2>3. pc[s] = "absorb" /\ cand' = cand
    BY <1>3 DEF AbsorbFailure
  <2>4. QED
    BY <1>0, <1>3, <2>2, <2>3 DEF Locals
<1>4. CASE PutCheckpoint(s)
  <2>1. \/ /\ pc'[s] = "look"
           /\ run'[s] = [run[s] EXCEPT !.work = @ \ {run[s].rev.occ},
                                       !.rev = NoRevision]
        \/ pc'[s] = "absorb" /\ run'[s] = run[s]
    BY <1>4, Moved DEF PutCheckpoint, Finish, Advance
  <2>2. pc[s] = "confirm" /\ cand' = cand
    BY <1>4 DEF PutCheckpoint
  <2>3. ~AbsorbFailure(s)
    BY <2>2 DEF AbsorbFailure
  <2>4. QED
    BY <1>0, <1>4, <2>1, <2>2, <2>3 DEF Locals
<1>5. CASE \/ ReadTranscript(s) \/ RetainRevision(s) \/ WriteSession(s)
           \/ AddGenerationMember(s) \/ TombstoneUnseen(s)
           \/ CountCandidate(s) \/ MaintainIndexes(s) \/ DatabaseError(s)
  <2>1. \E rev : run'[s] = [run[s] EXCEPT !.rev = rev]
    <3>1. CASE ReadTranscript(s)
      <4>1. \/ run'[s] = run[s]
            \/ \E rev : run'[s] = [run[s] EXCEPT !.rev = rev]
        BY <3>1, Moved DEF ReadTranscript
      <4>2. run[s] = [run[s] EXCEPT !.rev = run[s].rev]
        BY <1>0 DEF Locals
      <4>3. QED
        BY <4>1, <4>2
    <3>2. CASE ~ReadTranscript(s)
      <4>1. run'[s] = run[s]
        BY <1>5, <3>2, Moved, FillFlow DEF RetainRevision, WriteSession,
           AddGenerationMember, TombstoneUnseen, CountCandidate,
           MaintainIndexes, DatabaseError, Flows
      <4>2. run[s] = [run[s] EXCEPT !.rev = run[s].rev]
        BY <1>0 DEF Locals
      <4>3. QED
        BY <4>1, <4>2
    <3>3. QED
      BY <3>1, <3>2
  <2>2. ~AbsorbFailure(s) /\ pc[s] \in Building
    <3>1. CASE DatabaseError(s)
      BY <3>1, FillFlow DEF Flows, DatabaseError, AbsorbFailure
    <3>2. CASE ~DatabaseError(s)
      BY <1>5, <3>2 DEF ReadTranscript, RetainRevision, WriteSession,
         AddGenerationMember, TombstoneUnseen, CountCandidate,
         MaintainIndexes, AbsorbFailure
    <3>3. QED
      BY <3>1, <3>2
  <2>3. cand' = cand
    BY <1>5 DEF ReadTranscript, RetainRevision, WriteSession,
       AddGenerationMember, TombstoneUnseen, CountCandidate,
       MaintainIndexes, DatabaseError
  <2>4. ~(PutCheckpoint(s) /\ pc'[s] = "look")
    BY <1>5, FillFlow DEF Flows, ReadTranscript, RetainRevision, WriteSession,
       AddGenerationMember, TombstoneUnseen, CountCandidate,
       MaintainIndexes, DatabaseError, PutCheckpoint
  <2>5. QED
    BY <1>0, <2>1, <2>2, <2>3, <2>4 DEF Locals
<1>6. QED
  BY <1>1, <1>2, <1>3, <1>4, <1>5

\* Sessions come before the counts.
LEMMA FilledInOrder ==
    ASSUME TypeOK, NEW s \in Scans, Moves(s), pc'[s] \in Filling
    PROVE  pc[s] \in Filling \cup {"observe"}
<1> USE RepairFlow, FillFlow DEF Flows, Filling
<1>1. ~\E g \in Gens : \/ Cleanup(s, g) \/ CleanupRefused(s, g)
                      \/ BeginCandidate(s, g)
  OBVIOUS
<1>2. ~\E tol \in Tolerance, key \in Keys : Start(s, tol, key)
  OBVIOUS
<1>3. ~\/ SweepAbandonedCandidates(s) \/ ListReclaimable(s) \/ Settle(s)
       \/ ActiveGeneration(s) \/ Release(s) \/ Kill(s) \/ TombstoneUnseen(s)
       \/ CountCandidate(s) \/ MaintainIndexes(s) \/ Publish(s)
       \/ PublishRefused(s) \/ MarkFailed(s)
  OBVIOUS
<1>4. CASE \E o \in Occs : LookAt(s, o) \/ LookFails(s, o)
  BY <1>4
<1>5. CASE \/ ObserveSources(s) \/ ReadTranscript(s) \/ RetainRevision(s)
           \/ WriteSession(s) \/ AddGenerationMember(s) \/ PutCheckpoint(s)
           \/ AbsorbFailure(s) \/ DatabaseError(s)
  BY <1>5
<1>6. QED
  BY <1>1, <1>2, <1>3, <1>4, <1>5 DEF Moves, Work

\* A session keeps its occurrence from the look to the end, and stays to do.
LEMMA SessionKept ==
    ASSUME TypeOK, InProgress, Checkpointed, NEW s \in Scans, Moves(s),
           pc'[s] \in Filling \ {"look"}
    PROVE  \/ /\ pc[s] = "look"
              /\ run'[s].rev.occ \in run[s].work
           \/ /\ pc[s] \in Filling \ {"look", "absorb"}
              /\ run'[s].rev.occ = run[s].rev.occ
<1>0. run[s] \in Locals
  BY LocalsFields
<1>1. CASE \E o \in Occs : LookAt(s, o)
  <2>1. PICK o \in Occs : LookAt(s, o)
    BY <1>1
  <2>2. PICK seen, rev :
            /\ run'[s] = [run[s] EXCEPT !.seen = seen, !.rev = rev]
            /\ \/ rev = checkpoint[o] /\ checkpoint[o] # NoRevision
               \/ rev = [NoRevision EXCEPT !.occ = o]
    BY <2>1, Moved DEF LookAt
  <2>3. rev.occ = o
    BY <2>2 DEF NoRevision, Checkpointed
  <2>4. run'[s].rev.occ = o
    BY <1>0, <2>2, <2>3 DEF Locals
  <2>5. QED
    BY <2>1, <2>4 DEF LookAt
<1>2. CASE \E o \in Occs : LookFails(s, o)
  <2>1. PICK o \in Occs : LookFails(s, o)
    BY <1>2
  <2>2. run'[s] = [run[s] EXCEPT !.rev = [NoRevision EXCEPT !.occ = o]]
    BY <2>1, Moved DEF LookFails
  <2>3. run'[s].rev.occ = o
    BY <1>0, <2>2 DEF Locals, NoRevision
  <2>4. QED
    BY <2>1, <2>3 DEF LookFails
<1>3. CASE ReadTranscript(s)
  <2>1. run'[s].rev.occ = run[s].rev.occ
    <3>1. \/ run'[s] = run[s]
          \/ run'[s] = [run[s] EXCEPT
                 !.rev = [occ |-> run[s].rev.occ,
                          tok |-> run[s].listing[run[s].rev.occ],
                          body |-> ver[run[s].rev.occ]]]
      BY <1>3, Moved DEF ReadTranscript
    <3>2. QED
      BY <1>0, <3>1 DEF Locals
  <2>2. QED
    BY <1>3, <2>1 DEF ReadTranscript, Filling
<1>4. CASE \/ RetainRevision(s) \/ WriteSession(s) \/ AddGenerationMember(s)
           \/ DatabaseError(s) \/ PutCheckpoint(s)
  <2>1. pc[s] \in Filling \ {"look", "absorb"}
    BY <1>4, FillFlow DEF Flows, Filling
  <2>2. run'[s] = run[s]
    <3>1. CASE DatabaseError(s)
      BY <2>1, <3>1, Moved DEF DatabaseError, Filling
    <3>2. CASE PutCheckpoint(s)
      BY <3>2, Moved DEF PutCheckpoint, Advance
    <3>3. QED
      BY <1>4, <3>1, <3>2 DEF RetainRevision, WriteSession,
         AddGenerationMember
  <2>3. QED
    BY <2>1, <2>2
<1>5. ~\/ SweepAbandonedCandidates(s) \/ ListReclaimable(s) \/ Settle(s)
       \/ ActiveGeneration(s) \/ Release(s) \/ Kill(s)
       \/ ObserveSources(s) \/ AbsorbFailure(s) \/ TombstoneUnseen(s)
       \/ CountCandidate(s) \/ MaintainIndexes(s) \/ Publish(s)
       \/ PublishRefused(s) \/ MarkFailed(s)
  BY RepairFlow, FillFlow DEF Flows, Filling
<1>6. ~\E g \in Gens : \/ Cleanup(s, g) \/ CleanupRefused(s, g)
                      \/ BeginCandidate(s, g)
  BY RepairFlow DEF Flows, Filling
<1>7. ~\E tol \in Tolerance, key \in Keys : Start(s, tol, key)
  BY RepairFlow DEF Flows, Filling
<1>8. QED
  BY <1>1, <1>2, <1>3, <1>4, <1>5, <1>6, <1>7 DEF Moves, Work

-----------------------------------------------------------------------------
(* Evidence.                                                               *)

\* Only RetainRevision retains evidence, and none is ever dropped.
LEMMA RevisionKept ==
    ASSUME NEW s \in Scans, Moves(s)
    PROVE  \/ revision' = revision
           \/ RetainRevision(s) /\ revision' = revision \cup {run[s].rev}
<1>1. CASE \E g \in Gens : \/ BeginCandidate(s, g)
                          \/ Cleanup(s, g) \/ CleanupRefused(s, g)
  BY <1>1 DEF BeginCandidate, Cleanup, CleanupRefused, store
<1>2. CASE \E o \in Occs : LookAt(s, o) \/ LookFails(s, o)
  BY <1>2 DEF LookAt, LookFails
<1>3. CASE RetainRevision(s)
  BY <1>3 DEF RetainRevision
<1>4. QED
  BY <1>1, <1>2, <1>3 DEF Moves, Work, Kill, Start, SweepAbandonedCandidates,
     ListReclaimable, Settle, ActiveGeneration, ObserveSources,
     ReadTranscript, WriteSession, AddGenerationMember, PutCheckpoint,
     AbsorbFailure, TombstoneUnseen, CountCandidate, MaintainIndexes,
     Publish, PublishRefused, MarkFailed, Release, DatabaseError, Leave,
     store

\* The revision behind every derived session is retained, and a scan retains a
\* revision before it writes a session derived from it.
Evidence ==
    /\ \A d \in derived : d.rev \in revision
    /\ \A s \in Scans : pc[s] = "write" => run[s].rev \in revision

LEMMA EvidenceStep ==
    ASSUME TypeOK, InProgress, Referenced, Evidence, [AnyStep]_vars
    PROVE  Evidence'
<1>1. ASSUME NEW s \in Scans, Moves(s) PROVE Evidence'
  <2>1. revision \subseteq revision'
    BY <1>1, RevisionKept
  <2>2. \A t \in Scans \ {s} : pc'[t] = pc[t] /\ run'[t] = run[t]
    BY <1>1, OthersRest
  <2>3. pc'[s] = "write" => run'[s].rev \in revision'
    <3>1. pc'[s] = "write" => RetainRevision(s)
      BY <1>1, CameFrom
    <3>2. RetainRevision(s) => run' = run /\ run[s].rev \in revision'
      BY DEF RetainRevision
    <3>3. QED
      BY <3>1, <3>2
  <2>4. \A d \in derived' : d.rev \in revision'
    <3>1. CASE WriteSession(s)
      <4>1. derived' \subseteq derived \cup {Session(s)} /\ pc[s] = "write"
        BY <3>1 DEF WriteSession
      <4>2. Session(s).rev = run[s].rev
        BY DEF Session
      <4>3. QED
        BY <2>1, <4>1, <4>2 DEF Evidence
    <3>2. CASE ~WriteSession(s)
      <4>1. derived' \subseteq derived
        BY <1>1, <3>2, RowsKept, CleanupSpares
      <4>2. QED
        BY <2>1, <4>1 DEF Evidence
    <3>3. QED
      BY <3>1, <3>2
  <2>5. QED
    BY <2>1, <2>2, <2>3, <2>4 DEF Evidence
<1>2. CASE UNCHANGED Program
  BY <1>2 DEF Program, store, Evidence
<1>3. QED
  BY <1>1, <1>2, OneMoves

LEMMA AlwaysEvidence == Behaviour => []Evidence
<1>1. Init => Evidence
  BY DEF Init, Evidence
<1>2. TypeOK /\ InProgress /\ Referenced /\ Evidence /\ [AnyStep]_vars => Evidence'
  BY EvidenceStep
<1>3. QED
  BY <1>1, <1>2, AlwaysOwned, AlwaysTyped, PTL DEF Behaviour

\* Nothing searchable rests on evidence that was not retained, whatever faults
\* there are: PutSessionRevision is acknowledged before WriteSession runs.
THEOREM EvidenceRetained == Spec => []Evidence
BY AlwaysEvidence, SpecBehaves, PTL

-----------------------------------------------------------------------------
(* One row for each transcript.                                            *)

\* Members are added to a scan's own candidate alone.
LEMMA MembersOnlyLeave ==
    ASSUME TypeOK, InProgress, Owned, NEW s \in Scans, Moves(s)
    PROVE  /\ \A g \in Gens : \/ member'[g] \subseteq member[g]
                              \/ AddGenerationMember(s) /\ g = cand[s]
           /\ \A t \in Scans \ {s} : HasCandidate(t) =>
                  member'[cand[t]] \subseteq member[cand[t]]
<1>1. ASSUME NEW g \in Gens
      PROVE  \/ member'[g] \subseteq member[g]
             \/ AddGenerationMember(s) /\ g = cand[s]
  <2>1. CASE AddGenerationMember(s)
    BY <2>1 DEF AddGenerationMember, TypeOK
  <2>2. CASE \E h \in Gens : Cleanup(s, h)
    BY <2>2 DEF Cleanup, TypeOK
  <2>3. QED
    BY <2>1, <2>2, RowsKept
<1>2. ASSUME NEW t \in Scans \ {s}, HasCandidate(t)
      PROVE  cand[t] \in Gens
             /\ (AddGenerationMember(s) => cand[t] # cand[s])
  BY <1>2 DEF InProgress, Sound, Owned, AddGenerationMember, HasCandidate
<1>3. QED
  BY <1>1, <1>2

\* A candidate has at most one row for each occurrence, because a session that
\* is still to do has none: only the one being confirmed or absorbed may.
Apiece(s) ==
    /\ pc[s] = "observe" => member[cand[s]] = {}
    /\ pc[s] \in Filling \ {"look"} => run[s].rev.occ \in run[s].work
    /\ pc[s] \in Filling => \A d \in member[cand[s]] :
           \/ d.rev.occ \notin run[s].work
           \/ pc[s] \in {"confirm", "absorb"} /\ d.rev.occ = run[s].rev.occ
OnePerOccurrence ==
    /\ \A g \in Gens : gen[g].state = "none" => member[g] = {}
    /\ \A g \in Gens : \A d, e \in member[g] : d.rev.occ = e.rev.occ => d = e
    /\ \A s \in Scans : Apiece(s)

LEMMA ApieceStep ==
    ASSUME TypeOK, InProgress, Owned, Checkpointed, OnePerOccurrence,
           NEW s \in Scans, Moves(s)
    PROVE  Apiece(s)'
<1>1. Apiece(s) /\ Sound(s) /\ run[s] \in Locals
  BY LocalsFields DEF OnePerOccurrence, InProgress
<1>2. ASSUME pc'[s] = "observe" PROVE member'[cand'[s]] = {}
  <2>1. PICK g \in Gens : BeginCandidate(s, g)
    BY <1>2, CameFrom
  <2>2. member' = member /\ member[g] = {}
    BY <2>1 DEF BeginCandidate, OnePerOccurrence
  <2>3. cand'[s] = g
    BY <1>2, <2>1, Moved DEF BeginCandidate, TypeOK, Advance
  <2>4. QED
    BY <2>2, <2>3
<1>3. ASSUME pc'[s] \in Filling \ {"look"}
      PROVE  /\ run'[s].work = run[s].work
             /\ run'[s].rev.occ \in run'[s].work
  <2>1. ~ObserveSources(s) /\ ~AbsorbFailure(s)
    BY <1>3, FillFlow DEF Flows, Filling
  <2>2. run'[s].work = run[s].work
    BY <1>3, <2>1, FillKept DEF Building
  <2>3. QED
    BY <1>1, <1>3, <2>2, SessionKept DEF Apiece
<1>4. ASSUME pc'[s] \in Filling, NEW d \in member'[cand'[s]]
      PROVE  \/ d.rev.occ \notin run'[s].work
             \/ pc'[s] \in {"confirm", "absorb"}
                /\ d.rev.occ = run'[s].rev.occ
  <2>1. CASE ObserveSources(s)
    BY <1>1, <1>4, <2>1 DEF ObserveSources, Apiece, store
  <2>2. CASE AddGenerationMember(s)
    <3>1. pc'[s] \in {"confirm", "absorb"} /\ pc[s] = "present" /\ run' = run
          /\ cand' = cand
      BY <2>2, FillFlow DEF Flows, AddGenerationMember
    <3>2. d \in member[cand[s]] \/ d = Session(s)
      BY <1>4, <2>2, <3>1 DEF AddGenerationMember, TypeOK
    <3>3. QED
      BY <1>1, <3>1, <3>2 DEF Apiece, Filling, Session
  <2>3. CASE ~ObserveSources(s) /\ ~AddGenerationMember(s)
    <3>1. pc[s] \in Filling /\ cand'[s] = cand[s]
      <4>1. pc'[s] \in Building
        BY <1>4 DEF Building
      <4>2. pc[s] \in Building /\ cand'[s] = cand[s]
        BY <2>3, <4>1, FillKept
      <4>3. pc[s] \notin {"count", "index", "publish"}
        BY <1>4, FilledInOrder DEF Filling
      <4>4. QED
        BY <4>2, <4>3 DEF Building
    <3>2. d \in member[cand[s]]
      <4>1. cand[s] \in Gens
        BY <1>1, <3>1 DEF Sound, HasCandidate, Filling
      <4>2. QED
        BY <1>4, <2>3, <3>1, <4>1, MembersOnlyLeave
    <3>3. CASE pc'[s] = "look"
      <4>1. PutCheckpoint(s) \/ AbsorbFailure(s)
        BY <2>3, <3>3, CameFrom
      <4>2. run'[s].work = run[s].work \ {run[s].rev.occ}
        BY <2>3, <3>3, <4>1, FillKept DEF Building, Filling
      <4>3. QED
        BY <1>1, <3>1, <3>2, <4>2 DEF Apiece
    <3>4. CASE pc'[s] # "look"
      <4>1. run'[s].work = run[s].work
        BY <1>3, <1>4, <3>4
      <4>2. CASE pc[s] \in {"confirm", "absorb"} /\ d.rev.occ = run[s].rev.occ
        <5>1. pc'[s] \in {"absorb"} /\ run'[s].rev.occ = run[s].rev.occ
          <6>1. run'[s].rev.occ = run[s].rev.occ /\ pc[s] = "confirm"
            BY <1>4, <3>4, <4>2, SessionKept
          <6>2. pc'[s] \notin {"look", "read", "retain", "write", "present",
                               "confirm"}
            BY <3>4, <6>1, CameFrom, FillFlow, RepairFlow DEF Flows
          <6>3. QED
            BY <1>4, <6>1, <6>2 DEF Filling
        <5>2. QED
          BY <4>2, <5>1
      <4>3. QED
        BY <1>1, <3>1, <3>2, <4>1, <4>2 DEF Apiece
    <3>5. QED
      BY <3>3, <3>4
  <2>4. QED
    BY <2>1, <2>2, <2>3
<1>5. QED
  BY <1>2, <1>3, <1>4 DEF Apiece

LEMMA OnePerOccurrenceStep ==
    ASSUME TypeOK, InProgress, Owned, Checkpointed, OnePerOccurrence,
           [AnyStep]_vars
    PROVE  OnePerOccurrence'
<1>1. ASSUME NEW s \in Scans, Moves(s) PROVE OnePerOccurrence'
  <2>1. ASSUME NEW g \in Gens, gen'[g].state = "none" PROVE member'[g] = {}
    <3>1. gen[g].state = "none"
      BY <1>1, <2>1, BornStay
    <3>2. AddGenerationMember(s) => g # cand[s]
      BY <3>1 DEF AddGenerationMember, Owned, HasCandidate
    <3>3. member'[g] \subseteq member[g]
      BY <1>1, <3>2, MembersOnlyLeave
    <3>4. QED
      BY <3>1, <3>3 DEF OnePerOccurrence
  <2>2. ASSUME NEW g \in Gens, NEW d \in member'[g], NEW e \in member'[g],
               d.rev.occ = e.rev.occ
        PROVE  d = e
    <3>1. CASE member'[g] \subseteq member[g]
      BY <2>2, <3>1 DEF OnePerOccurrence
    <3>2. CASE AddGenerationMember(s) /\ g = cand[s]
      <4>1. /\ pc[s] = "present"
            /\ member'[g] \subseteq member[g] \cup {Session(s)}
        BY <3>2 DEF AddGenerationMember, TypeOK
      <4>2. \A c \in member[g] : c.rev.occ # Session(s).rev.occ
        BY <3>2, <4>1 DEF OnePerOccurrence, Apiece, Filling, Session
      <4>3. QED
        BY <2>2, <4>1, <4>2 DEF OnePerOccurrence
    <3>3. QED
      BY <1>1, <3>1, <3>2, MembersOnlyLeave
  <2>3. ASSUME NEW t \in Scans \ {s} PROVE Apiece(t)'
    <3>1. pc'[t] = pc[t] /\ cand'[t] = cand[t] /\ run'[t] = run[t]
      BY <1>1, OthersRest
    <3>2. HasCandidate(t) => member'[cand[t]] \subseteq member[cand[t]]
      BY <1>1, MembersOnlyLeave
    <3>3. Apiece(t)
      BY DEF OnePerOccurrence
    <3>4. QED
      BY <3>1, <3>2, <3>3 DEF Apiece, HasCandidate, Filling
  <2>4. Apiece(s)'
    BY <1>1, ApieceStep
  <2>5. QED
    BY <2>1, <2>2, <2>3, <2>4 DEF OnePerOccurrence
<1>2. CASE UNCHANGED Program
  BY <1>2 DEF Program, store, OnePerOccurrence, Apiece
<1>3. QED
  BY <1>1, <1>2, OneMoves

LEMMA AlwaysOneRow == Behaviour => []OnePerOccurrence
<1>1. Init => OnePerOccurrence
  BY DEF Init, OnePerOccurrence, Apiece, Filling
<1>2. TypeOK /\ InProgress /\ Owned /\ Checkpointed /\ OnePerOccurrence
        /\ [AnyStep]_vars => OnePerOccurrence'
  BY OnePerOccurrenceStep
<1>3. QED
  BY <1>1, <1>2, AlwaysOwned, AlwaysSeen, AlwaysTyped, PTL DEF Behaviour

\* No generation ever presents two versions of one transcript, whatever faults
\* there are and however often a session is retried by a later scan.
THEOREM OneRowPerTranscript == Spec => []OnePerOccurrence
BY AlwaysOneRow, SpecBehaves, PTL

-----------------------------------------------------------------------------
(* The order of generations.                                               *)

\* Generations are begun in order and, as long as no lease is lost under a
\* running scan, published in that order.
Newest ==
    /\ \A g, h \in Gens : h < g /\ gen[g].state # "none" =>
           gen[h].state # "none"
    /\ \A s \in Scans : HasCandidate(s) /\ pc[s] # "fail" => cand[s] > active

\* Of the statements only BeginCandidate begins a generation.
LEMMA BornAlone ==
    ASSUME TypeOK, InProgress, Owned, NEW s \in Scans, Moves(s),
           ~\E g \in Gens : BeginCandidate(s, g)
    PROVE  \A g \in Gens : gen'[g].state # "none" => gen[g].state # "none"
<1>1. CASE SweepAbandonedCandidates(s)
  BY <1>1 DEF SweepAbandonedCandidates, Abandoned, TypeOK, Generation
<1>2. CASE MaintainIndexes(s) \/ MarkFailed(s)
  <2>1. \/ gen' = gen
        \/ gen' = [gen EXCEPT ![cand[s]].state = "failed"]
    BY <1>2 DEF MaintainIndexes, MarkFailed
  <2>2. gen[cand[s]].state # "none"
    BY <1>2 DEF MaintainIndexes, MarkFailed, Owned, HasCandidate
  <2>3. QED
    BY <2>1, <2>2 DEF TypeOK
<1>3. CASE Publish(s)
  <2>1. \A g \in Gens : \/ gen'[g] = gen[g] \/ g = cand[s] \/ g = active
    BY <1>3 DEF Publish, Superseded
  <2>2. /\ gen[cand[s]].state # "none"
        /\ active # 0 => gen[active].state # "none"
    BY <1>3 DEF Publish, Owned
  <2>3. QED
    BY <2>1, <2>2, NoGeneration
<1>4. QED
  BY <1>1, <1>2, <1>3, StatesKept DEF Moves

LEMMA NewestStep ==
    ASSUME TypeOK, InProgress, Owned, Alone, Newest, "drop" \notin Faults,
           [AnyStep]_vars
    PROVE  Newest'
<1>0. Gens \subseteq Nat /\ active \in Nat
  BY CatalogAssumption DEF Gens, TypeOK
<1>1. ASSUME NEW s \in Scans, Moves(s) PROVE Newest'
  <2>1. /\ \A t \in Scans \ {s} : /\ HasCandidate(t)' <=> HasCandidate(t)
                                  /\ cand'[t] = cand[t] /\ pc'[t] = pc[t]
        /\ \A t \in Scans : HasCandidate(t) => cand[t] \in Gens
    BY <1>1, OthersRest DEF InProgress, Sound
  <2>2. CASE \E g \in Gens : BeginCandidate(s, g)
    <3>1. PICK g \in Gens : BeginCandidate(s, g)
      BY <2>2
    <3>2. /\ gen[g].state = "none" /\ gen'[g].state = "building"
          /\ \A h \in Gens : h < g => gen[h].state # "none"
          /\ active' = active
          /\ \A h \in Gens \ {g} : gen'[h] = gen[h]
          /\ HasCandidate(s)' => cand'[s] = g
      BY <1>0, <3>1, Moved, CatalogAssumption DEF BeginCandidate,
         GenerationRow, TypeOK, Advance, HasCandidate, Gens
    <3>3. g > active
      <4>1. active # 0 => active \in Gens /\ gen[active].state # "none"
        BY DEF Owned, TypeOK
      <4>2. active # g /\ ~(g < active)
        BY <3>2, <4>1, NoGeneration, <1>0 DEF Newest, Gens
      <4>3. QED
        BY <1>0, <4>2
    <3>4. ASSUME NEW h \in Gens, NEW k \in Gens, k < h,
                 gen'[h].state # "none"
          PROVE  gen'[k].state # "none"
      <4>1. CASE h = g
        BY <1>0, <3>2, <3>4, <4>1
      <4>2. CASE h # g
        BY <3>2, <3>4, <4>2 DEF Newest
      <4>3. QED
        BY <4>1, <4>2
    <3>5. QED
      BY <2>1, <3>2, <3>3, <3>4 DEF Newest
  <2>3. CASE ~\E g \in Gens : BeginCandidate(s, g)
    <3>1. \A g \in Gens : gen'[g].state # "none" <=> gen[g].state # "none"
      BY <1>1, <2>3, BornStay, BornAlone
    <3>2. HasCandidate(s)' => HasCandidate(s) /\ cand'[s] = cand[s]
      BY <1>1, <2>3, KeepsCandidate DEF Moves
    <3>3. CASE Publish(s)
      <4>1. \A t \in Scans \ {s} : ~HasCandidate(t)
        <5>1. pc[s] # "idle"
          BY <3>3 DEF Publish
        <5>2. \A t \in Scans \ {s} : pc[t] = "idle"
          BY <5>1 DEF Alone
        <5>3. QED
          BY <5>2 DEF HasCandidate
      <4>2. pc'[s] \in {"list", "fail"}
        BY <3>3, FillFlow DEF Flows
      <4>3. QED
        BY <2>1, <3>1, <4>1, <4>2 DEF Newest, HasCandidate
    <3>4. CASE ~Publish(s)
      <4>1. active' = active
        BY <1>1, <3>4, PointerKept
      <4>2. HasCandidate(s)' => pc[s] # "fail"
        BY <1>1, FailingEnds
      <4>3. QED
        BY <2>1, <3>1, <3>2, <4>1, <4>2 DEF Newest
    <3>5. QED
      BY <3>3, <3>4
  <2>4. QED
    BY <2>2, <2>3
<1>2. CASE UNCHANGED Program
  BY <1>2 DEF Program, store, Newest, HasCandidate
<1>3. QED
  BY <1>1, <1>2, OneMoves

LEMMA AlwaysNewest ==
    ASSUME "drop" \notin Faults
    PROVE  Behaviour => []Newest
<1>1. Init => Newest
  BY DEF Init, Newest, HasCandidate, GenerationRow
<1>2. TypeOK /\ InProgress /\ Owned /\ Alone /\ Newest /\ [AnyStep]_vars
          => Newest'
  BY NewestStep
<1>3. QED
  BY <1>1, <1>2, AlwaysOwned, AlwaysAlone, AlwaysTyped, PTL DEF Behaviour

-----------------------------------------------------------------------------
(* The refinement.                                                         *)

LEMMA AnswerInit == Init => Answer!Init
BY DEF Init, Answer!Init, Presented

\* A publication replaces the answer by a newer one; every other step keeps it.
LEMMA AnswerStep ==
    ASSUME TypeOK, InProgress, Owned, Referenced, Apart, PublishedIsActive,
           Evidence, OnePerOccurrence, Newest, [AnyStep]_vars,
           TypeOK', Referenced', OnePerOccurrence'
    PROVE  [Answer!Retain \/ Answer!Replace]_<<Answer!answer, revision>>
<1>1. ASSUME NEW s \in Scans, Moves(s)
      PROVE  Answer!Retain \/ Answer!Replace
  <2>1. CASE Publish(s)
    <3>1. active' = cand[s] /\ active' > active
      BY <2>1 DEF Publish, Newest, HasCandidate
    <3>2. revision' = revision /\ member' = member /\ derived' = derived
      BY <2>1 DEF Publish
    <3>3. active' \in Gens /\ active' # 0
      BY <2>1, <3>1, NoGeneration DEF Publish, InProgress, Sound, HasCandidate
    <3>4. Presented(active)' = member[cand[s]]
      BY <3>1, <3>2, <3>3 DEF Presented
    <3>5. Answer!Presentable(Presented(active)')
      BY <3>1, <3>3, <3>4 DEF Answer!Presentable, OnePerOccurrence, TypeOK
    <3>6. \A d \in Presented(active)' : d.rev \in revision
      BY <3>1, <3>3, <3>4 DEF Referenced, Evidence
    <3>7. (active # 0 /\ gen[active].state = "complete")' \in BOOLEAN
      OBVIOUS
    <3>8. QED
      BY <3>1, <3>2, <3>5, <3>6, <3>7 DEF Answer!Replace
  <2>2. CASE ~Publish(s)
    <3>1. active' = active
      BY <1>1, <2>2, PointerKept
    <3>2. active # 0 => gen'[active] = gen[active]
                        /\ member'[active] = member[active]
      BY <3>1, ActiveUnchanged, ActiveUntouched
    <3>3. UNCHANGED Answer!answer
      BY <3>1, <3>2 DEF Answer!answer, Presented
    <3>4. revision \subseteq revision'
      BY <1>1, RevisionKept
    <3>5. QED
      BY <3>3, <3>4 DEF Answer!Retain
  <2>3. QED
    BY <2>1, <2>2
<1>2. CASE UNCHANGED Program
  BY <1>2 DEF Program, store, Answer!answer, Presented
<1>3. QED
  BY <1>1, <1>2, OneMoves

\* To a search the whole scan lifecycle, with its failures, kills and repairs,
\* is one step that replaces the answer by a newer one, whole, with at most one
\* row for each transcript and every row backed by retained evidence.  The
\* hypotheses are needed: a lost acknowledgement of publish lets the scan fail
\* the generation that answers, and a scan that lost its lease may publish an
\* older generation over a newer one.
THEOREM CatalogImplementsAnswer ==
    ASSUME "lost" \notin Faults, "drop" \notin Faults
    PROVE  Spec => AnswersWhole
<1>1. TypeOK /\ InProgress /\ Owned /\ Referenced /\ Apart /\ PublishedIsActive
        /\ Evidence /\ OnePerOccurrence /\ Newest /\ [AnyStep]_vars
        /\ TypeOK' /\ Referenced' /\ OnePerOccurrence'
          => [Answer!Retain \/ Answer!Replace]_<<Answer!answer, revision>>
  BY AnswerStep
<1>2. QED
  BY <1>1, AnswerInit, AlwaysTyped, AlwaysOwned, AlwaysApart, AlwaysNewest,
     AlwaysEvidence, AlwaysOneRow, SpecBehaves, PTL
     DEF Behaviour, AnswersWhole, Answer!Spec

=============================================================================
