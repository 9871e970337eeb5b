-------------------------- MODULE SearchGate_proofs --------------------------
(***************************************************************************)
(* What a search may rely on: the generation it answers from is current    *)
(* unless a file changed meanwhile, a catalog that is current is not       *)
(* scanned again, and the scan it starts tolerates nothing new.  The scans *)
(* of SearchSpec are behaviours of the scans of CatalogScan, so that every *)
(* invariant proved of those holds here.                                   *)
(***************************************************************************)
EXTENDS SearchGate, CatalogRepair_proofs

\* The statements of a search that only read the catalog.
Gate(q) ==
    \/ AskSearch(q) \/ GateActive(q) \/ GateQuiescent(q) \/ GateDeclared(q)
    \/ GateDirty(q) \/ GatePresented(q) \/ GateList(q) \/ RefreshRefused(q)
    \/ AnswerSearch(q)

\* Changes of the files are bounded, and a search that reads of a generation
\* has one.
Grounded ==
    /\ edits <= MaxEdits
    /\ \A q \in Searches :
           ask[q].step \in {"declared", "dirty", "presented", "list", "refresh",
                           "scan"} => ask[q].base # 0

LEMMA DeclaredType ==
    ASSUME NEW declared \in SUBSET Failures
    PROVE  TolerateDeclared(declared) \in Tolerance
BY DEF TolerateDeclared, Tolerance, Failures

\* No statement of a scan changes the files.
LEMMA FilesKept ==
    ASSUME NEW s \in Scans, Moves(s)
    PROVE  UNCHANGED disk
<1>1. CASE \E g \in Gens : Cleanup(s, g) \/ CleanupRefused(s, g)
                               \/ BeginCandidate(s, g)
  BY <1>1 DEF Cleanup, CleanupRefused, BeginCandidate
<1>2. CASE \E o \in Occs : LookAt(s, o) \/ LookFails(s, o)
  BY <1>2 DEF LookAt, LookFails
<1>3. QED
  BY <1>1, <1>2 DEF Moves, Work, Kill, Start, SweepAbandonedCandidates,
     ListReclaimable, Settle, ActiveGeneration, ObserveSources,
     ReadTranscript, RetainRevision, WriteSession, AddGenerationMember,
     PutCheckpoint, AbsorbFailure, TombstoneUnseen, CountCandidate,
     MaintainIndexes, Publish, PublishRefused, MarkFailed, Release,
     DatabaseError, Leave

LEMMA FilesStay ==
    ASSUME [AnyStep]_vars, ~Edit
    PROVE  UNCHANGED disk
<1>1. CASE DropLease
  BY <1>1 DEF DropLease
<1>2. CASE UNCHANGED vars
  BY <1>2 DEF vars
<1>3. QED
  BY <1>1, <1>2, FilesKept DEF AnyStep

\* What a step of the searches does to the catalog: nothing, one statement of
\* one scan, whose listing is noted, or what happens around them.
LEMMA Sides ==
    ASSUME SearchTypeOK, [SearchNext]_searchVars
    PROVE  \/ UNCHANGED <<vars, listedAt>>
           \/ \E s \in Scans : Moves(s) /\ Listing(s)
           \/ (DropLease \/ Edit) /\ UNCHANGED listedAt
<1>0. TypeOK /\ Searches \subseteq Scans
  BY SearchAssumption DEF SearchTypeOK
<1>1. CASE \E q \in Searches : Gate(q)
  BY <1>1 DEF Gate, AskSearch, GateActive, GateQuiescent, GateDeclared,
     GateDirty, GatePresented, GateList, RefreshRefused, AnswerSearch, Reading
<1>2. ASSUME NEW q \in Searches, Refresh(q) PROVE Moves(q) /\ Listing(q)
  <2>1. ask[q].declared \in SUBSET Failures
    BY DEF SearchTypeOK, Questions
  <2>2. PICK key \in Keys : Start(q, TolerateDeclared(ask[q].declared), key)
    BY <1>2 DEF Refresh, CatchUpTolerance
  <2>3. Moves(q)
    BY <2>1, <2>2, DeclaredType DEF Moves
  <2>4. pc[q] = "idle" /\ listedAt' = listedAt
    BY <1>2, <2>2 DEF Refresh, Start
  <2>5. QED
    BY <2>3, <2>4 DEF Listing
<1>3. ASSUME NEW q \in Searches, CatchUp(q) PROVE Moves(q) /\ Listing(q)
  BY <1>3 DEF CatchUp, Moves
<1>4. ASSUME NEW q \in Searches, KillSearch(q) PROVE Moves(q) /\ Listing(q)
  <2>1. pc'[q] = "idle"
    BY <1>0, <1>4, Moved DEF KillSearch, Kill, Leave
  <2>2. QED
    BY <1>4, <2>1 DEF KillSearch, Moves, Listing
<1>5. ASSUME NEW s \in Scans \ Searches, Explicit(s)
      PROVE  Moves(s) /\ Listing(s)
  BY <1>5, TolerancesType DEF Explicit, Moves
<1>6. CASE UNCHANGED searchVars
  BY <1>6 DEF searchVars
<1>7. QED
  BY <1>0, <1>1, <1>2, <1>3, <1>4, <1>5, <1>6 DEF SearchNext, Search, Gate

LEMMA SearchesScan ==
    ASSUME SearchTypeOK, [SearchNext]_searchVars
    PROVE  [AnyStep]_vars
BY Sides DEF AnyStep

\* Only a search moves itself.
LEMMA OwnQuestion ==
    ASSUME SearchTypeOK, [SearchNext]_searchVars, NEW q \in Searches
    PROVE  Search(q) \/ ask'[q] = ask[q]
<1>1. ASSUME NEW p \in Searches, p # q, NEW question, Set(p, question)
      PROVE  ask'[q] = ask[q]
  BY <1>1 DEF Set, SearchTypeOK
<1>2. ASSUME NEW p \in Searches, p # q, Gate(p) PROVE ask'[q] = ask[q]
  BY <1>1, <1>2 DEF Gate, AskSearch, GateActive, GateQuiescent, GateDeclared,
     GateDirty, GatePresented, GateList, RefreshRefused, AnswerSearch, Step,
     End
<1>3. ASSUME NEW p \in Searches, p # q, Refresh(p) \/ CatchUp(p) \/ KillSearch(p)
      PROVE  ask'[q] = ask[q]
  BY <1>1, <1>3 DEF Refresh, CatchUp, KillSearch, Step, End
<1>4. ASSUME NEW s \in Scans, Explicit(s) PROVE ask'[q] = ask[q]
  BY <1>4 DEF Explicit
<1>5. QED
  BY <1>2, <1>3, <1>4 DEF SearchNext, Search, Gate, searchVars

\* Only a search moves the scan it has started.
LEMMA OthersMove ==
    ASSUME SearchTypeOK, [SearchNext]_searchVars, NEW q \in Searches, ~Search(q)
    PROVE  pc'[q] = pc[q] /\ run'[q] = run[q] /\ cand'[q] = cand[q]
<1>0. TypeOK /\ q \in Scans /\ Searches \subseteq Scans
  BY SearchAssumption DEF SearchTypeOK
<1>1. ASSUME NEW s \in Scans \ {q}, Moves(s)
      PROVE  pc'[q] = pc[q] /\ run'[q] = run[q] /\ cand'[q] = cand[q]
  BY <1>0, <1>1, OthersRest
<1>2. ASSUME NEW p \in Searches, Search(p)
      PROVE  pc'[q] = pc[q] /\ run'[q] = run[q] /\ cand'[q] = cand[q]
  <2>1. CASE Gate(p)
    BY <2>1 DEF Gate, AskSearch, GateActive, GateQuiescent, GateDeclared,
       GateDirty, GatePresented, GateList, RefreshRefused, AnswerSearch,
       Reading, vars
  <2>2. CASE Refresh(p)
    <3>1. PICK key \in Keys : Start(p, TolerateDeclared(ask[p].declared), key)
      BY <2>2 DEF Refresh, CatchUpTolerance
    <3>2. ask[p].declared \in SUBSET Failures /\ p \in Scans \ {q}
      BY <1>0, <1>2 DEF SearchTypeOK, Questions
    <3>3. Moves(p)
      BY <3>1, <3>2, DeclaredType DEF Moves
    <3>4. QED
      BY <1>1, <3>2, <3>3
  <2>3. CASE CatchUp(p) \/ KillSearch(p)
    BY <1>0, <1>1, <1>2, <2>3 DEF CatchUp, KillSearch, Moves
  <2>4. QED
    BY <1>2, <2>1, <2>2, <2>3 DEF Search, Gate
<1>3. ASSUME NEW s \in Scans \ Searches, Explicit(s)
      PROVE  pc'[q] = pc[q] /\ run'[q] = run[q] /\ cand'[q] = cand[q]
  <2>1. s \in Scans \ {q}
    OBVIOUS
  <2>2. Moves(s)
    BY <1>3, TolerancesType DEF Explicit, Moves
  <2>3. QED
    BY <1>1, <2>1, <2>2
<1>4. CASE DropLease \/ Edit \/ UNCHANGED searchVars
  BY <1>4 DEF DropLease, Edit, searchVars, vars
<1>5. QED
  BY <1>2, <1>3, <1>4 DEF SearchNext

-----------------------------------------------------------------------------
(* Types.                                                                  *)

\* What a search makes of its question.
LEMMA QuestionSet ==
    ASSUME SearchTypeOK, NEW q \in Searches, NEW question, Set(q, question)
    PROVE  ask'[q] = question
BY DEF Set, SearchTypeOK

LEMMA NoQuestionType == NoQuestion \in Questions
BY CatalogAssumption DEF NoQuestion, Questions, SearchSteps, Outcomes

LEMMA QuestionType ==
    ASSUME SearchTypeOK, Grounded, NEW q \in Searches, Search(q)
    PROVE  ask' \in [Searches -> Questions]
<1>0. /\ ask[q] \in Questions /\ ask \in [Searches -> Questions] /\ TypeOK
      /\ edits \in 0 .. MaxEdits /\ NoQuestion \in Questions
  BY NoQuestionType, CatalogAssumption DEF SearchTypeOK, TypeOK, Grounded
<1>1. ASSUME NEW question \in Questions, Set(q, question)
      PROVE  ask' \in [Searches -> Questions]
  BY <1>0, <1>1 DEF Set
<1>2. ASSUME NEW step \in SearchSteps, Step(q, step)
      PROVE  ask' \in [Searches -> Questions]
  <2>1. [ask[q] EXCEPT !.step = step] \in Questions
    BY <1>0 DEF Questions
  <2>2. QED
    BY <1>1, <1>2, <2>1 DEF Step
<1>3. ASSUME NEW outcome \in Outcomes, End(q, outcome)
      PROVE  ask' \in [Searches -> Questions]
  <2>1. [NoQuestion EXCEPT !.outcome = outcome] \in Questions
    BY <1>0 DEF Questions
  <2>2. QED
    BY <1>1, <1>3, <2>1 DEF End
<1>4. CASE AskSearch(q)
  <2>1. [NoQuestion EXCEPT !.step = "active", !.began = edits] \in Questions
    BY <1>0 DEF Questions, SearchSteps
  <2>2. QED
    BY <1>1, <1>4, <2>1 DEF AskSearch
<1>5. CASE GateActive(q)
  <2>1. [ask[q] EXCEPT !.step = "quiescent", !.base = active] \in Questions
    BY <1>0 DEF Questions, SearchSteps, TypeOK
  <2>2. QED
    BY <1>1, <1>5, <2>1 DEF GateActive
<1>6. CASE GateQuiescent(q)
  <2>1. [ask[q] EXCEPT
           !.step = IF ask[q].base = 0 THEN "answer" ELSE "declared",
           !.settled = ask[q].base = active] \in Questions
    BY <1>0 DEF Questions, SearchSteps
  <2>2. "scan_in_progress" \in Outcomes
    BY DEF Outcomes
  <2>3. QED
    BY <1>1, <1>3, <1>6, <2>1, <2>2 DEF GateQuiescent
<1>7. CASE GateDirty(q) \/ GateList(q) \/ Refresh(q)
  BY <1>2, <1>3, <1>7
     DEF GateDirty, GateList, Refresh, SearchSteps, Outcomes
<1>8. CASE RefreshRefused(q) \/ AnswerSearch(q) \/ KillSearch(q)
  BY <1>0, <1>1, <1>3, <1>8
     DEF RefreshRefused, AnswerSearch, KillSearch, Outcomes
<1>9. CASE CatchUp(q)
  BY <1>0, <1>2, <1>3, <1>9 DEF CatchUp, SearchSteps, Outcomes
<1>10. CASE GateDeclared(q)
  <2>1. gen[ask[q].base].declared \in SUBSET Failures
    BY <1>0, <1>10 DEF GateDeclared, At, Grounded, Questions, TypeOK, Generation
  <2>2. [ask[q] EXCEPT !.step = "dirty", !.declared = gen[ask[q].base].declared]
            \in Questions
    BY <1>0, <2>1 DEF Questions, SearchSteps
  <2>3. QED
    BY <1>1, <1>10, <2>2 DEF GateDeclared
<1>11. CASE GatePresented(q)
  <2>1. {<<d.rev.occ, d.rev.tok>> : d \in member[ask[q].base]}
            \in SUBSET (Occs \X Toks)
    BY <1>0, <1>11 DEF GatePresented, At, Grounded, Questions, TypeOK, Rows,
       Revisions
  <2>2. [ask[q] EXCEPT !.step = "list",
           !.presented = {<<d.rev.occ, d.rev.tok>> :
                              d \in member[ask[q].base]}] \in Questions
    BY <1>0, <2>1 DEF Questions, SearchSteps
  <2>3. QED
    BY <1>1, <1>11, <2>2 DEF GatePresented
<1>12. QED
  BY <1>4, <1>5, <1>6, <1>7, <1>8, <1>9, <1>10, <1>11 DEF Search

\* A search goes on from a generation it has found.
LEMMA GroundedStep ==
    ASSUME SearchTypeOK, Grounded, [SearchNext]_searchVars
    PROVE  Grounded'
<1>1. edits' <= MaxEdits
  <2>1. Edit => edits' = edits + 1 /\ edits < MaxEdits
    BY DEF Edit
  <2>2. ~Edit => edits' = edits
    BY SearchesScan, FilesStay DEF disk
  <2>3. QED
    BY <2>1, <2>2, CatalogAssumption DEF Grounded, SearchTypeOK, TypeOK
<1>2. ASSUME NEW q \in Searches,
             ask'[q].step \in {"declared", "dirty", "presented", "list",
                              "refresh", "scan"}
      PROVE  ask'[q].base # 0
  <2>0. ask[q] \in Questions
    BY DEF SearchTypeOK
  <2>1. ASSUME NEW step, Step(q, step), ask[q].base # 0 PROVE ask'[q].base # 0
    BY <2>0, <2>1, QuestionSet DEF Step, Questions
  <2>2. ASSUME NEW outcome, End(q, outcome) PROVE ask'[q].step = "idle"
    <3>1. ask'[q] = [NoQuestion EXCEPT !.outcome = outcome]
      BY <2>2, QuestionSet DEF End
    <3>2. QED
      BY <3>1 DEF NoQuestion
  <2>3. CASE AskSearch(q) \/ GateActive(q) \/ KillSearch(q)
    <3>1. \/ ask'[q] = [NoQuestion EXCEPT !.step = "active", !.began = edits]
          \/ ask'[q] = [ask[q] EXCEPT !.step = "quiescent", !.base = active]
          \/ ask'[q] = NoQuestion
      BY <2>3, QuestionSet DEF AskSearch, GateActive, KillSearch
    <3>2. /\ NoQuestion.step = "idle"
          /\ [NoQuestion EXCEPT !.step = "active", !.began = edits].step
                 = "active"
      BY DEF NoQuestion
    <3>3. [ask[q] EXCEPT !.step = "quiescent", !.base = active].step
              = "quiescent"
      BY <2>0 DEF Questions
    <3>4. ask'[q].step \in {"active", "quiescent", "idle"}
      BY <3>1, <3>2, <3>3
    <3>5. QED
      BY <1>2, <3>4
  <2>4. CASE GateQuiescent(q)
    <3>1. CASE lease # 0
      BY <1>2, <2>2, <2>4, <3>1 DEF GateQuiescent
    <3>2. CASE lease = 0
      <4>1. ask'[q] = [ask[q] EXCEPT
               !.step = IF ask[q].base = 0 THEN "answer" ELSE "declared",
               !.settled = ask[q].base = active]
        BY <2>4, <3>2, QuestionSet DEF GateQuiescent
      <4>2. QED
        BY <1>2, <2>0, <4>1 DEF Questions
    <3>3. QED
      BY <3>1, <3>2
  <2>5. CASE GateDeclared(q) \/ GatePresented(q)
    <3>1. ask[q].base # 0
      BY <2>5 DEF GateDeclared, GatePresented, At, Grounded
    <3>2. ask'[q].base = ask[q].base
      BY <2>0, <2>5, QuestionSet DEF GateDeclared, GatePresented, Questions
    <3>3. QED
      BY <3>1, <3>2
  <2>6. CASE GateDirty(q) \/ GateList(q) \/ Refresh(q) \/ RefreshRefused(q)
                 \/ CatchUp(q) \/ AnswerSearch(q)
    BY <1>2, <2>1, <2>2, <2>6 DEF GateDirty, GateList, Refresh,
       RefreshRefused, CatchUp, AnswerSearch, At, Grounded
  <2>7. CASE ask'[q] = ask[q]
    BY <1>2, <2>7 DEF Grounded
  <2>8. QED
    BY <2>3, <2>4, <2>5, <2>6, <2>7, OwnQuestion DEF Search
<1>3. QED
  BY <1>1, <1>2 DEF Grounded

LEMMA SearchTypeStep ==
    ASSUME SearchTypeOK, InProgress, Grounded, [SearchNext]_searchVars
    PROVE  SearchTypeOK' /\ InProgress'
<1>1. TypeOK' /\ InProgress'
  BY SearchesScan, TypeStep DEF SearchTypeOK
<1>2. ask' \in [Searches -> Questions]
  <2>1. CASE \E q \in Searches : Search(q)
    BY <2>1, QuestionType
  <2>2. CASE ask' = ask
    BY <2>2 DEF SearchTypeOK
  <2>3. QED
    BY <2>1, <2>2 DEF SearchNext, Explicit, searchVars
<1>3. listedAt' \in [Gens -> 0 .. MaxEdits]
  <2>1. edits \in 0 .. MaxEdits
    BY CatalogAssumption DEF Grounded, SearchTypeOK, TypeOK
  <2>2. CASE listedAt' = listedAt
    BY <2>2 DEF SearchTypeOK
  <2>3. CASE \E s \in Scans : Listing(s)
    BY <2>1, <2>3 DEF Listing, SearchTypeOK
  <2>4. QED
    BY <2>2, <2>3, Sides
<1>4. QED
  BY <1>1, <1>2, <1>3 DEF SearchTypeOK

\* The state of the searches has its types: a search reads of a generation only
\* when it found one, whatever scans and changes of the files come between.
THEOREM SearchTypeCorrect == SearchSpec => []SearchTypeOK
<1>1. SearchInit => SearchTypeOK /\ InProgress /\ Grounded
  <2>1. Init => InProgress
    BY DEF Init, InProgress, Sound, HasCandidate, Idle
  <2>2. SearchInit => SearchTypeOK
    BY TypeInit, NoQuestionType, CatalogAssumption DEF SearchInit, SearchTypeOK
  <2>3. SearchInit => Grounded
    BY CatalogAssumption DEF SearchInit, Init, Grounded, NoQuestion
  <2>4. QED
    BY <2>1, <2>2, <2>3 DEF SearchInit
<1>2. SearchTypeOK /\ InProgress /\ Grounded /\ [SearchNext]_searchVars
          => SearchTypeOK' /\ InProgress' /\ Grounded'
  BY SearchTypeStep, GroundedStep
<1>3. QED
  BY <1>1, <1>2, PTL DEF SearchSpec

\* The scans beside and inside searches are scans.
LEMMA SearchBehaves == SearchSpec => Behaviour
<1>1. SearchInit => Init
  BY DEF SearchInit
<1>2. SearchTypeOK /\ [SearchNext]_searchVars => [AnyStep]_vars
  BY SearchesScan
<1>3. QED
  BY <1>1, <1>2, SearchTypeCorrect, PTL DEF SearchSpec, Behaviour

-----------------------------------------------------------------------------
(* What a catch-up tolerates.                                              *)

\* A generation is the candidate of one scan at most, also of one that has
\* given it up and only returns its lease.
Claimed ==
    /\ \A s \in Scans : cand[s] # 0 => gen[cand[s]].state # "none"
    /\ \A s, t \in Scans : s # t /\ cand[s] # 0 => cand[s] # cand[t]

LEMMA CandidateTaken ==
    ASSUME TypeOK, NEW s \in Scans, Moves(s)
    PROVE  \/ cand'[s] \in {cand[s], 0}
           \/ \E g \in Gens : /\ gen[g].state = "none"
                              /\ gen'[g].state # "none"
                              /\ cand'[s] = g
<1>1. ASSUME NEW g \in Gens, BeginCandidate(s, g)
      PROVE  \/ cand'[s] = cand[s]
             \/ /\ gen[g].state = "none" /\ gen'[g].state # "none"
                /\ cand'[s] = g
  <2>1. gen'[g] = GenerationRow("building", run[s].base)
    BY <1>1 DEF BeginCandidate, TypeOK
  <2>2. QED
    BY <1>1, <2>1 DEF BeginCandidate, GenerationRow, TypeOK
<1>2. CASE \E g \in Gens : Cleanup(s, g) \/ CleanupRefused(s, g)
  BY <1>2 DEF Cleanup, CleanupRefused
<1>3. CASE \E o \in Occs : LookAt(s, o) \/ LookFails(s, o)
  BY <1>3 DEF LookAt, LookFails
<1>4. CASE Publish(s) \/ MarkFailed(s) \/ Release(s) \/ Kill(s)
  BY <1>4 DEF Publish, MarkFailed, Release, Kill, Leave, TypeOK
<1>5. QED
  BY <1>1, <1>2, <1>3, <1>4 DEF Moves, Work, Start, SweepAbandonedCandidates,
     ListReclaimable, Settle, ActiveGeneration, ObserveSources,
     ReadTranscript, RetainRevision, WriteSession, AddGenerationMember,
     PutCheckpoint, AbsorbFailure, TombstoneUnseen, CountCandidate,
     MaintainIndexes, PublishRefused, DatabaseError

LEMMA ClaimedStep ==
    ASSUME TypeOK, Claimed, [AnyStep]_vars
    PROVE  Claimed'
<1>1. ASSUME NEW s \in Scans, Moves(s) PROVE Claimed'
  <2>1. \A g \in Gens : gen[g].state # "none" => gen'[g].state # "none"
    BY <1>1, BornStay
  <2>2. \A t \in Scans \ {s} : cand'[t] = cand[t]
    BY <1>1, OthersRest
  <2>3. \A t \in Scans : cand[t] \in Gens \cup {0}
    BY DEF TypeOK
  <2>4. /\ cand'[s] # 0 => gen'[cand'[s]].state # "none"
        /\ \A t \in Scans \ {s} :
               cand'[s] # 0 \/ cand[t] # 0 => cand'[s] # cand[t]
    <3>1. CASE cand'[s] \in {cand[s], 0}
      BY <2>1, <2>3, <3>1 DEF Claimed
    <3>2. CASE \E g \in Gens : /\ gen[g].state = "none"
                               /\ gen'[g].state # "none"
                               /\ cand'[s] = g
      BY <2>3, <3>2, NoGeneration DEF Claimed
    <3>3. QED
      BY <1>1, <3>1, <3>2, CandidateTaken
  <2>5. \A t \in Scans \ {s} : cand'[t] # 0 => gen'[cand'[t]].state # "none"
    BY <2>1, <2>2, <2>3 DEF Claimed
  <2>6. QED
    BY <2>2, <2>4, <2>5 DEF Claimed
<1>2. CASE UNCHANGED Program
  BY <1>2 DEF Program, store, Claimed
<1>3. QED
  BY <1>1, <1>2, OneMoves

LEMMA AlwaysClaimed == Behaviour => []Claimed
<1>1. Init => Claimed
  BY DEF Init, Claimed
<1>2. TypeOK /\ Claimed /\ [AnyStep]_vars => Claimed'
  BY ClaimedStep
<1>3. QED
  BY <1>1, <1>2, AlwaysTyped, PTL DEF Behaviour

\* A catch-up holds the tolerance it was started with, and has recorded no
\* failure the generation it refreshes does not declare.
Within(q) ==
    At(q, "scan") =>
        /\ pc[q] # "idle"
        /\ run[q].tol = TolerateDeclared(ask[q].declared)
        /\ run[q].failures \subseteq ask[q].declared
AllWithin == \A q \in Searches : Within(q)

\* What a declared failure allows is a failure of the same kind.
LEMMA ToleratedIsDeclared ==
    ASSUME NEW declared \in SUBSET Failures, NEW h \in Harnesses
    PROVE  /\ ToleratesHarness(TolerateDeclared(declared), h) =>
                  [kind |-> "harness", harness |-> h] \in declared
           /\ ToleratesSource(TolerateDeclared(declared), h) =>
                  [kind |-> "source", harness |-> h] \in declared
<1>1. ASSUME NEW f \in declared
      PROVE  f = [kind |-> f.kind, harness |-> f.harness]
  BY DEF Failures
<1>2. QED
  BY <1>1 DEF ToleratesHarness, ToleratesSource, TolerateDeclared

LEMMA WithinFailures ==
    ASSUME SearchTypeOK, InProgress, NEW q \in Searches, Within(q),
           At(q, "scan"), Moves(q), pc'[q] # "idle"
    PROVE  /\ run'[q].tol = TolerateDeclared(ask[q].declared)
           /\ run'[q].failures \subseteq ask[q].declared
<1>0. /\ TypeOK /\ q \in Scans /\ run[q] \in Locals /\ pc[q] # "idle"
      /\ ask[q].declared \in SUBSET Failures
      /\ run[q].tol = TolerateDeclared(ask[q].declared)
      /\ run[q].failures \subseteq ask[q].declared
  BY SearchAssumption, LocalsFields DEF SearchTypeOK, Questions, Within
<1>1. run'[q].tol = run[q].tol
  BY <1>0, PlanKept
<1>2. CASE run'[q].failures = run[q].failures
  BY <1>0, <1>1, <1>2
<1>3. CASE ObserveSources(q)
  <2>1. \/ run'[q] = run[q]
        \/ /\ \A h \in unlisted : ToleratesHarness(run[q].tol, h)
           /\ run'[q] = [run[q] EXCEPT
               !.listing = [o \in Occs |-> IF Listed(o) THEN ver[o] ELSE 0],
               !.work = {o \in Occs : Listed(o)},
               !.failures = {[kind |-> "harness", harness |-> h] :
                                 h \in unlisted}]
    BY <1>0, <1>3, Moved DEF ObserveSources
  <2>2. CASE run'[q] = run[q]
    BY <1>0, <2>2
  <2>3. CASE run'[q] # run[q]
    <3>1. run'[q].failures = {[kind |-> "harness", harness |-> h] :
                                  h \in unlisted}
      BY <1>0, <2>1, <2>3 DEF Locals
    <3>2. \A h \in unlisted :
              [kind |-> "harness", harness |-> h] \in ask[q].declared
      <4>1. \A h \in unlisted :
                /\ h \in Harnesses
                /\ ToleratesHarness(TolerateDeclared(ask[q].declared), h)
        BY <1>0, <2>1, <2>3 DEF TypeOK
      <4>2. QED
        BY <1>0, <4>1, ToleratedIsDeclared
    <3>3. QED
      BY <1>0, <1>1, <3>1, <3>2
  <2>4. QED
    BY <2>2, <2>3
<1>4. CASE AbsorbFailure(q)
  <2>1. \/ run'[q] = run[q]
        \/ /\ ToleratesSource(run[q].tol, HarnessOf[run[q].rev.occ])
           /\ run'[q] = [run[q] EXCEPT
               !.work = @ \ {run[q].rev.occ}, !.rev = NoRevision,
               !.failures = @ \cup {[kind |-> "source",
                                     harness |-> HarnessOf[run[q].rev.occ]]}]
    BY <1>0, <1>4, Moved DEF AbsorbFailure, Finish, Record
  <2>2. CASE run'[q] = run[q]
    BY <1>0, <2>2
  <2>3. CASE run'[q] # run[q]
    <3>1. run'[q].failures = run[q].failures \cup
              {[kind |-> "source", harness |-> HarnessOf[run[q].rev.occ]]}
      BY <1>0, <2>1, <2>3 DEF Locals
    <3>2. HarnessOf[run[q].rev.occ] \in Harnesses
      BY <1>0, <1>4, CatalogAssumption DEF AbsorbFailure, InProgress, Sound
    <3>3. [kind |-> "source", harness |-> HarnessOf[run[q].rev.occ]]
              \in ask[q].declared
      BY <1>0, <2>1, <2>3, <3>2, ToleratedIsDeclared
    <3>4. QED
      BY <1>0, <1>1, <3>1, <3>3
  <2>4. QED
    BY <2>2, <2>3
<1>5. QED
  BY <1>0, <1>2, <1>3, <1>4, PlanKept

LEMMA WithinStep ==
    ASSUME SearchTypeOK, InProgress, AllWithin, [SearchNext]_searchVars
    PROVE  AllWithin'
<1> SUFFICES ASSUME NEW q \in Searches, ask'[q].step = "scan"
             PROVE  /\ pc'[q] # "idle"
                    /\ run'[q].tol = TolerateDeclared(ask'[q].declared)
                    /\ run'[q].failures \subseteq ask'[q].declared
  BY DEF AllWithin, Within, At
<1>0. TypeOK /\ q \in Scans /\ ask[q] \in Questions
  BY SearchAssumption DEF SearchTypeOK
<1>1. ASSUME NEW step, Step(q, step)
      PROVE  /\ ask'[q].step = step
             /\ ask'[q].declared = ask[q].declared
  <2>1. ask'[q] = [ask[q] EXCEPT !.step = step]
    BY <1>1, QuestionSet DEF Step
  <2>2. QED
    BY <1>0, <2>1 DEF Questions
<1>2. ASSUME NEW outcome, End(q, outcome) PROVE FALSE
  <2>1. ask'[q] = [NoQuestion EXCEPT !.outcome = outcome]
    BY <1>2, QuestionSet DEF End
  <2>2. QED
    BY <2>1 DEF NoQuestion
<1>3. CASE Gate(q)
  <2>1. CASE AskSearch(q)
    <3>1. ask'[q] = [NoQuestion EXCEPT !.step = "active", !.began = edits]
      BY <2>1, QuestionSet DEF AskSearch
    <3>2. QED
      BY <3>1 DEF NoQuestion
  <2>2. CASE GateActive(q) \/ GateDeclared(q) \/ GatePresented(q)
    <3>1. \/ ask'[q] = [ask[q] EXCEPT !.step = "quiescent", !.base = active]
          \/ ask'[q] = [ask[q] EXCEPT !.step = "dirty",
                             !.declared = gen[ask[q].base].declared]
          \/ ask'[q] = [ask[q] EXCEPT !.step = "list",
                 !.presented = {<<d.rev.occ, d.rev.tok>> :
                                    d \in member[ask[q].base]}]
      BY <2>2, QuestionSet DEF GateActive, GateDeclared, GatePresented
    <3>2. QED
      BY <1>0, <3>1 DEF Questions
  <2>3. CASE GateQuiescent(q)
    <3>1. ask'[q] = [ask[q] EXCEPT
             !.step = IF ask[q].base = 0 THEN "answer" ELSE "declared",
             !.settled = ask[q].base = active]
      BY <1>2, <2>3, QuestionSet DEF GateQuiescent
    <3>2. QED
      BY <1>0, <3>1 DEF Questions
  <2>4. CASE GateDirty(q) \/ GateList(q) \/ RefreshRefused(q) \/ AnswerSearch(q)
    BY <1>1, <1>2, <2>4 DEF GateDirty, GateList, RefreshRefused, AnswerSearch
  <2>5. QED
    BY <1>3, <2>1, <2>2, <2>3, <2>4 DEF Gate
<1>4. CASE Refresh(q)
  <2>1. PICK key \in Keys : Start(q, TolerateDeclared(ask[q].declared), key)
    BY <1>4 DEF Refresh, CatchUpTolerance
  <2>2. /\ pc'[q] = "sweep"
        /\ run'[q] = [Idle EXCEPT !.tol = TolerateDeclared(ask[q].declared),
                                  !.key = key]
    BY <1>0, <2>1, Moved DEF Start
  <2>3. /\ run'[q].tol = TolerateDeclared(ask[q].declared)
        /\ run'[q].failures = {}
    BY <1>0, <2>2 DEF Idle
  <2>4. ask'[q].declared = ask[q].declared
    BY <1>1, <1>4 DEF Refresh
  <2>5. QED
    BY <2>2, <2>3, <2>4
<1>5. CASE CatchUp(q)
  <2>1. pc[q] # "release" /\ ask'[q] = ask[q] /\ At(q, "scan") /\ Work(q)
    BY <1>1, <1>2, <1>5 DEF CatchUp
  <2>2. pc'[q] # "idle"
    <3> USE RepairFlow, FillFlow DEF Flows
    <3>1. ~Release(q)
      BY <2>1 DEF Release
    <3>2. QED
      BY <1>0, <2>1, <3>1 DEF Work
  <2>3. QED
    BY <1>0, <2>1, <2>2, WithinFailures DEF AllWithin, Moves
<1>6. CASE KillSearch(q)
  BY <1>6, QuestionSet DEF KillSearch, NoQuestion
<1>7. CASE ~Search(q)
  <2>1. ask'[q] = ask[q]
    BY <1>7, OwnQuestion
  <2>2. pc'[q] = pc[q] /\ run'[q] = run[q]
    BY <1>0, <1>7, OthersMove
  <2>3. QED
    BY <2>1, <2>2 DEF AllWithin, Within, At
<1>8. QED
  BY <1>3, <1>4, <1>5, <1>6, <1>7 DEF Search, Gate

LEMMA AlwaysWithin == SearchSpec => []InProgress /\ []AllWithin
<1>1. SearchInit => AllWithin
  BY DEF SearchInit, AllWithin, Within, At, NoQuestion
<1>2. SearchTypeOK /\ InProgress /\ AllWithin /\ [SearchNext]_searchVars
          => AllWithin'
  BY WithinStep
<1>3. QED
  BY <1>1, <1>2, SearchTypeCorrect, SearchBehaves, AlwaysTyped, PTL
     DEF SearchSpec

\* A search never widens what a --partial scan was allowed to leave out: what
\* its catch-up publishes declares only failures that the generation it looked
\* at declares, whatever listing and reading find, whichever other scans run
\* and however they fail.  It rests on Claimed: a generation published while
\* the catch-up holds it as its candidate was published by the catch-up.
THEOREM CatchUpStaysWithin == SearchSpec => CatchUpWithin
<1>1. ASSUME SearchTypeOK, InProgress, Claimed, AllWithin,
             [SearchNext]_searchVars,
             NEW q \in Searches, At(q, "scan"), active' # active,
             active' = cand[q]
      PROVE  gen'[active'].declared \subseteq ask[q].declared
  <2>0. TypeOK /\ q \in Scans /\ [AnyStep]_vars
    BY <1>1, SearchAssumption, SearchesScan DEF SearchTypeOK
  <2>1. PICK s \in Scans : Publish(s) /\ active' = cand[s]
    BY <1>1, <2>0, OneMoves, PointerKept DEF Program, store
  <2>2. cand[s] \in Gens /\ cand[s] # 0
    BY <1>1, <2>1, NoGeneration DEF Publish, InProgress, Sound, HasCandidate
  <2>3. s = q
    BY <1>1, <2>0, <2>1, <2>2 DEF Claimed
  <2>4. gen'[cand[q]].declared = FailedSources(run[q].failures)
    BY <2>0, <2>1, <2>2, <2>3 DEF Publish, TypeOK, Generation
  <2>5. run[q].failures \subseteq ask[q].declared
    BY <1>1 DEF AllWithin, Within
  <2>6. QED
    BY <1>1, <2>4, <2>5 DEF FailedSources
<1>2. SearchTypeOK /\ InProgress /\ Claimed /\ AllWithin
        /\ [SearchNext]_searchVars
          => [\A q \in Searches :
                At(q,"scan") /\ active' # active /\ active' = cand[q] =>
                    gen'[active'].declared \subseteq ask[q].declared]_searchVars
  BY <1>1
<1>3. QED
  BY <1>2, SearchTypeCorrect, AlwaysWithin, SearchBehaves, AlwaysClaimed, PTL
     DEF SearchSpec, CatchUpWithin

-----------------------------------------------------------------------------
(* What a generation presents of the files it was built from.              *)

ListingNow == [o \in Occs |-> IF Listed(o) THEN ver[o] ELSE 0]

\* Generation g presents what is listed now, or declares the source failed, and
\* presents nothing else.
Faithful(g) ==
    /\ \A o \in Occs : Listed(o) =>
           \/ \E d \in member[g] : d.rev.occ = o /\ d.rev.tok = ver[o]
           \/ [kind |-> "source", harness |-> HarnessOf[o]] \in gen[g].declared
    /\ \A d \in member[g] : Listed(d.rev.occ)

\* Until a file changes, a candidate is filled from the listing of now, and the
\* generation that answers presents it.
UpToDate ==
    /\ \A g \in Gens : listedAt[g] <= edits
    /\ \A s \in Scans : pc[s] \in Building /\ listedAt[cand[s]] = edits =>
           run[s].listing = ListingNow
    /\ active # 0 /\ listedAt[active] = edits => Faithful(active)

\* While the pointer stays, so do the failures the active generation declares.
LEMMA DeclaredKept ==
    ASSUME TypeOK, InProgress, Owned, NEW s \in Scans, Moves(s),
           active # 0, active' = active
    PROVE  gen'[active].declared = gen[active].declared
<1>0. active \in Gens
  BY DEF TypeOK
<1>1. CASE SweepAbandonedCandidates(s)
  BY <1>0, <1>1 DEF SweepAbandonedCandidates, TypeOK, Generation
<1>2. CASE CountCandidate(s) \/ MaintainIndexes(s) \/ MarkFailed(s)
  BY <1>0, <1>2 DEF CountCandidate, MaintainIndexes, MarkFailed, TypeOK,
     Generation
<1>3. CASE \E g \in Gens : Cleanup(s, g) \/ BeginCandidate(s, g)
  <2>1. PICK g \in Gens : Cleanup(s, g) \/ BeginCandidate(s, g)
    BY <1>3
  <2>2. CASE Cleanup(s, g)
    BY <1>0, <2>2 DEF Cleanup, TypeOK, Generation
  <2>3. CASE BeginCandidate(s, g)
    BY <1>0, <2>3 DEF BeginCandidate, Owned, TypeOK
  <2>4. QED
    BY <2>1, <2>2, <2>3
<1>4. ~Publish(s)
  BY DEF Publish, Owned, HasCandidate
<1>5. QED
  BY <1>1, <1>2, <1>3, <1>4, TableKept

LEMMA DeclaredStays ==
    ASSUME TypeOK, InProgress, Owned, [AnyStep]_vars, active # 0,
           active' = active
    PROVE  gen'[active].declared = gen[active].declared
BY DeclaredKept, OneMoves DEF Program, store

\* A listing is noted for the candidate it fills.
LEMMA ListingNoted ==
    ASSUME SearchTypeOK, InProgress, NEW s \in Scans, Moves(s), Listing(s)
    PROVE  /\ \A g \in Gens : listedAt'[g] \in {listedAt[g], edits}
           /\ \A g \in Gens : listedAt'[g] # listedAt[g] =>
                  g = cand[s] /\ ObserveSources(s) /\ pc'[s] = "look"
           /\ ObserveSources(s) /\ pc'[s] = "look" =>
                  listedAt'[cand[s]] = edits
<1>0. TypeOK
  BY DEF SearchTypeOK
<1>1. pc[s] = "observe" /\ pc'[s] = "look" <=>
          ObserveSources(s) /\ pc'[s] = "look"
  BY <1>0, CameFrom DEF ObserveSources, PutCheckpoint, AbsorbFailure
<1>2. pc[s] = "observe" => cand[s] \in Gens
  BY DEF InProgress, Sound, HasCandidate
<1>3. QED
  BY <1>1, <1>2 DEF Listing, SearchTypeOK

LEMMA UpToDateStep ==
    ASSUME SearchTypeOK, InProgress, Owned, Referenced, OpenFills, UpToDate,
           [SearchNext]_searchVars
    PROVE  UpToDate'
<1>0. TypeOK /\ [AnyStep]_vars /\ edits \in Nat /\ 0 \notin Toks
        /\ \A o \in Occs : ver[o] \in Toks
  BY SearchesScan, CatalogAssumption DEF SearchTypeOK, TypeOK
<1>1. ASSUME NEW s \in Scans, Moves(s), Listing(s) PROVE UpToDate'
  <2>0. /\ UNCHANGED disk
        /\ \A g \in Gens : listedAt'[g] \in {listedAt[g], edits}
        /\ \A g \in Gens : listedAt'[g] # listedAt[g] =>
               g = cand[s] /\ ObserveSources(s) /\ pc'[s] = "look"
    BY <1>1, FilesKept, ListingNoted
  <2>1. \A g \in Gens : listedAt'[g] <= edits'
    BY <1>0, <2>0 DEF disk, UpToDate, SearchTypeOK
  <2>2. ListingNow' = ListingNow
    BY <2>0 DEF disk, ListingNow, Listed
  <2>3. ASSUME NEW t \in Scans, pc'[t] \in Building,
               listedAt'[cand'[t]] = edits'
        PROVE  run'[t].listing = ListingNow
    <3>1. CASE t # s
      <4>1. /\ pc'[t] = pc[t] /\ cand'[t] = cand[t] /\ run'[t] = run[t]
            /\ cand[t] \in Gens /\ HasCandidate(t)
        BY <1>0, <1>1, <2>3, <3>1, OthersRest
           DEF InProgress, Sound, HasCandidate, Building, Filling
      <4>2. listedAt'[cand[t]] = listedAt[cand[t]]
        <5>1. ObserveSources(s) => HasCandidate(s) /\ cand[s] # cand[t]
          BY <3>1, <4>1 DEF ObserveSources, HasCandidate, Owned
        <5>2. QED
          BY <2>0, <4>1, <5>1
      <4>3. QED
        BY <2>0, <2>3, <4>1, <4>2 DEF UpToDate, disk
    <3>2. CASE t = s /\ ObserveSources(s)
      <4>1. pc'[s] = "look"
        BY <1>0, <2>3, <3>2, FillFlow DEF Flows, Building, Filling
      <4>2. run'[s] = [run[s] EXCEPT
              !.listing = [o \in Occs |-> IF Listed(o) THEN ver[o] ELSE 0],
              !.work = {o \in Occs : Listed(o)},
              !.failures = {[kind |-> "harness", harness |-> h] :
                                h \in unlisted}]
        BY <1>0, <3>2, <4>1, Moved DEF ObserveSources, Advance
      <4>3. QED
        BY <1>0, <3>2, <4>2, LocalsFields DEF Locals, ListingNow
    <3>3. CASE t = s /\ ~ObserveSources(s)
      <4>1. /\ pc[s] \in Building /\ cand'[s] = cand[s]
            /\ run'[s].listing = run[s].listing
        BY <1>0, <1>1, <2>3, <3>3, FillKept
      <4>2. cand[s] \in Gens
        BY <4>1 DEF InProgress, Sound, HasCandidate, Building, Filling
      <4>3. QED
        BY <2>0, <2>3, <3>3, <4>1, <4>2 DEF UpToDate, disk
    <3>4. QED
      BY <3>1, <3>2, <3>3
  <2>4. ASSUME active' # 0, listedAt'[active'] = edits' PROVE Faithful(active)'
    <3>1. CASE active' = active
      <4>1. active \in Gens /\ active # 0
        BY <1>0, <2>4, <3>1 DEF TypeOK
      <4>2. /\ member'[active] = member[active]
            /\ gen'[active].declared = gen[active].declared
        BY <1>0, <1>1, <3>1, <4>1, ActiveUntouched, DeclaredKept
      <4>3. listedAt'[active] = listedAt[active]
        BY <2>0, <4>1 DEF ObserveSources, Owned, HasCandidate
      <4>4. Faithful(active)
        BY <2>0, <2>4, <3>1, <4>1, <4>3 DEF UpToDate, disk
      <4>5. QED
        BY <2>0, <3>1, <4>2, <4>4 DEF Faithful, Listed, disk
    <3>2. CASE active' # active
      <4>1. Publish(s) /\ active' = cand[s]
        BY <1>0, <1>1, <3>2, PointerKept
      <4>2. /\ cand[s] \in Gens /\ pc[s] = "publish" /\ member' = member
            /\ listedAt'[cand[s]] = listedAt[cand[s]] /\ Fills(s)
        BY <2>0, <4>1 DEF Publish, ObserveSources, InProgress, Sound,
           HasCandidate, OpenFills, Building
      <4>3. run[s].listing = ListingNow
        BY <2>0, <2>4, <4>1, <4>2 DEF UpToDate, Building, disk
      <4>4. gen'[cand[s]].declared = FailedSources(run[s].failures)
        BY <1>0, <4>1, <4>2 DEF Publish, TypeOK, Generation
      <4>5. \A o \in Occs : Listed(o) =>
               \/ \E d \in member[cand[s]] : d.rev.occ = o /\ d.rev.tok = ver[o]
               \/ [kind |-> "source", harness |-> HarnessOf[o]]
                      \in run[s].failures
        BY <1>0, <4>2, <4>3 DEF Fills, Building, ListingNow
      <4>6. \A d \in member[cand[s]] : Listed(d.rev.occ)
        <5>1. \A d \in member[cand[s]] : run[s].listing[d.rev.occ] # 0
          BY <4>2 DEF Fills, Building
        <5>2. \A d \in member[cand[s]] : d.rev.occ \in Occs
          BY <1>0, <4>2 DEF TypeOK, Rows, Revisions
        <5>3. QED
          BY <4>3, <5>1, <5>2 DEF ListingNow
      <4>7. QED
        BY <2>0, <4>1, <4>2, <4>4, <4>5, <4>6
           DEF Faithful, Listed, FailedSources, disk
    <3>3. QED
      BY <3>1, <3>2
  <2>5. QED
    BY <2>1, <2>2, <2>3, <2>4 DEF UpToDate
<1>2. CASE Edit /\ UNCHANGED listedAt
  <2>1. edits' = edits + 1 /\ active' = active /\ pc' = pc /\ cand' = cand
    BY <1>2 DEF Edit, store
  <2>2. \A g \in Gens : listedAt'[g] < edits'
    BY <1>0, <1>2, <2>1 DEF UpToDate, SearchTypeOK
  <2>3. \A s \in Scans : pc[s] \in Building => cand[s] \in Gens
    BY DEF InProgress, Sound, HasCandidate, Building, Filling
  <2>4. active \in Gens \cup {0}
    BY <1>0 DEF TypeOK
  <2>5. \A g \in Gens : listedAt'[g] # edits'
    BY <1>0, <1>2, <2>1, <2>2 DEF SearchTypeOK
  <2>6. \A g \in Gens : listedAt'[g] <= edits'
    BY <1>0, <1>2, <2>1, <2>2 DEF SearchTypeOK
  <2>7. QED
    BY <2>1, <2>3, <2>4, <2>5, <2>6 DEF UpToDate
<1>3. CASE DropLease /\ UNCHANGED listedAt
  BY <1>3 DEF DropLease, store, disk, UpToDate, Faithful, ListingNow, Listed
<1>4. CASE UNCHANGED <<vars, listedAt>>
  BY <1>4 DEF vars, store, disk, UpToDate, Faithful, ListingNow, Listed
<1>5. QED
  BY <1>1, <1>2, <1>3, <1>4, Sides

LEMMA AlwaysUpToDate == SearchSpec => []UpToDate
<1>1. SearchInit => UpToDate
  BY CatalogAssumption
     DEF SearchInit, Init, UpToDate, Building, Filling
<1>2. SearchTypeOK /\ InProgress /\ Owned /\ Referenced /\ OpenFills
        /\ UpToDate /\ [SearchNext]_searchVars => UpToDate'
  BY UpToDateStep
<1>3. QED
  BY <1>1, <1>2, SearchTypeCorrect, AlwaysWithin, SearchBehaves, AlwaysOwned,
     AlwaysOpenFills, PTL DEF SearchSpec

-----------------------------------------------------------------------------
(* What a search has read.                                                 *)

LEMMA StepKeeps ==
    ASSUME SearchTypeOK, NEW q \in Searches, NEW step, Step(q, step)
    PROVE  /\ ask'[q].step = step
           /\ ask'[q].base = ask[q].base
           /\ ask'[q].declared = ask[q].declared
           /\ ask'[q].presented = ask[q].presented
           /\ ask'[q].outcome = ask[q].outcome
           /\ ask'[q].began = ask[q].began
           /\ ask'[q].settled = ask[q].settled
<1>1. ask'[q] = [ask[q] EXCEPT !.step = step]
  BY QuestionSet DEF Step
<1>2. ask[q] \in Questions
  BY DEF SearchTypeOK
<1>3. QED
  BY <1>1, <1>2 DEF Questions

LEMMA EndClears ==
    ASSUME SearchTypeOK, NEW q \in Searches,
           KillSearch(q) \/ \E outcome : End(q, outcome)
    PROVE  /\ ask'[q].step = "idle"
           /\ ask'[q].base = 0
           /\ ask'[q].began = 0
           /\ ask'[q].settled = FALSE
<1>1. CASE KillSearch(q)
  <2>1. ask'[q] = NoQuestion
    BY <1>1, QuestionSet DEF KillSearch
  <2>2. QED
    BY <2>1 DEF NoQuestion
<1>2. ASSUME NEW outcome, End(q, outcome)
      PROVE  /\ ask'[q].step = "idle" /\ ask'[q].base = 0
             /\ ask'[q].began = 0 /\ ask'[q].settled = FALSE
  <2>1. ask'[q] = [NoQuestion EXCEPT !.outcome = outcome]
    BY <1>2, QuestionSet DEF End
  <2>2. QED
    BY <2>1 DEF NoQuestion
<1>3. QED
  BY <1>1, <1>2

\* The pointer only moves to newer generations.
LEMMA PointerGrows ==
    ASSUME TypeOK, InProgress, Newest, [AnyStep]_vars
    PROVE  active' = active \/ active' > active
<1>1. ASSUME NEW s \in Scans, Moves(s), active' # active
      PROVE  active' > active
  <2>1. Publish(s) /\ active' = cand[s]
    BY <1>1, PointerKept
  <2>2. QED
    BY <2>1 DEF Publish, Newest, HasCandidate
<1>2. QED
  BY <1>1, OneMoves DEF Program, store

\* The pointer never returns to a generation it has left: what it names, and
\* what it named when a search read it, is closed, and only what is open is
\* published.
ActiveClosed == active # 0 => Closed(active)

LEMMA PointerMoves ==
    ASSUME TypeOK, InProgress, ActiveClosed, [AnyStep]_vars
    PROVE  /\ ActiveClosed'
           /\ \A g \in Gens : Closed(g) => Closed(g)'
           /\ active' # active => active' # 0 /\ ~Closed(active')
<1>0. active \in Gens \cup {0}
  BY DEF TypeOK
<1>1. ASSUME NEW s \in Scans, Moves(s)
      PROVE  /\ ActiveClosed'
             /\ \A g \in Gens : Closed(g) => Closed(g)'
             /\ active' # active => active' # 0 /\ ~Closed(active')
  <2>1. \A g \in Gens : Closed(g) => Closed(g)'
    BY <1>1, ClosedStay
  <2>2. CASE active' = active
    BY <1>0, <2>1, <2>2 DEF ActiveClosed, Closed
  <2>3. CASE active' # active
    <3>1. Publish(s) /\ active' = cand[s] /\ cand[s] \in Gens
      BY <1>1, <2>3, PointerKept DEF Publish, InProgress, Sound, HasCandidate
    <3>2. ~Closed(cand[s]) /\ gen'[cand[s]].state = PublishState(s)
      BY <3>1 DEF Publish, Closed, TypeOK, Generation
    <3>3. QED
      BY <2>1, <3>1, <3>2, NoGeneration DEF ActiveClosed, Closed, PublishState
  <2>4. QED
    BY <2>2, <2>3
<1>2. CASE UNCHANGED Program
  BY <1>2 DEF Program, store, ActiveClosed, Closed
<1>3. QED
  BY <1>1, <1>2, OneMoves

LEMMA AlwaysActiveClosed == Behaviour => []ActiveClosed
<1>1. Init => ActiveClosed
  BY DEF Init, ActiveClosed
<1>2. TypeOK /\ InProgress /\ ActiveClosed /\ [AnyStep]_vars => ActiveClosed'
  BY PointerMoves
<1>3. QED
  BY <1>1, <1>2, AlwaysTyped, PTL DEF Behaviour

\* While the generation a search has read is the active one, what the search
\* knows of it is so.
Informed(q) ==
    /\ ask[q].base # 0 => Closed(ask[q].base)
    /\ ask[q].base = active
         /\ ask[q].step \in {"dirty", "presented", "list"} =>
           ask[q].declared = gen[active].declared
    /\ ask[q].base = active /\ At(q, "list") =>
           ask[q].presented = {<<d.rev.occ, d.rev.tok>> : d \in member[active]}
AllInformed == \A q \in Searches : Informed(q)

LEMMA InformedStep ==
    ASSUME SearchTypeOK, InProgress, Owned, Referenced, ActiveClosed,
           Grounded, AllInformed, [SearchNext]_searchVars
    PROVE  AllInformed'
<1> SUFFICES ASSUME NEW q \in Searches PROVE Informed(q)'
  BY DEF AllInformed
<1>0. /\ TypeOK /\ [AnyStep]_vars /\ ask[q] \in Questions /\ Informed(q)
      /\ ask[q].base \in Gens \cup {0}
      /\ \A g \in Gens : Closed(g) => Closed(g)'
      /\ active' # active => active' # 0 /\ ~Closed(active')
  BY SearchesScan, PointerMoves DEF SearchTypeOK, Questions, AllInformed
<1>1. CASE Gate(q)
  <2>1. UNCHANGED vars
    BY <1>1 DEF Gate, AskSearch, GateActive, GateQuiescent, GateDeclared,
       GateDirty, GatePresented, GateList, RefreshRefused, AnswerSearch,
       Reading
  <2>2. active' = active /\ gen' = gen /\ member' = member
    BY <2>1 DEF vars, store
  <2>3. CASE \E outcome : End(q, outcome)
    <3>1. ask'[q].step = "idle" /\ ask'[q].base = 0
      BY <2>3, EndClears
    <3>2. QED
      BY <1>0, <2>2, <3>1 DEF Informed, Closed, At
  <2>4. CASE AskSearch(q)
    <3>1. ask'[q] = [NoQuestion EXCEPT !.step = "active", !.began = edits]
      BY <2>4, QuestionSet DEF AskSearch
    <3>2. ask'[q].step = "active" /\ ask'[q].base = 0
      BY <3>1 DEF NoQuestion
    <3>3. QED
      BY <1>0, <2>2, <3>2 DEF Informed, Closed, At
  <2>5. CASE GateActive(q)
    <3>1. ask'[q] = [ask[q] EXCEPT !.step = "quiescent", !.base = active]
      BY <2>5, QuestionSet DEF GateActive
    <3>2. ask'[q].step = "quiescent" /\ ask'[q].base = active
      BY <1>0, <3>1 DEF Questions
    <3>3. QED
      BY <1>0, <2>2, <3>2 DEF Informed, ActiveClosed, Closed, At
  <2>6. CASE GateQuiescent(q) /\ ~\E outcome : End(q, outcome)
    <3>1. ask'[q] = [ask[q] EXCEPT
             !.step = IF ask[q].base = 0 THEN "answer" ELSE "declared",
             !.settled = ask[q].base = active]
      BY <2>6, QuestionSet DEF GateQuiescent
    <3>2. /\ ask'[q].step \in {"answer", "declared"}
          /\ ask'[q].base = ask[q].base
      BY <1>0, <3>1 DEF Questions
    <3>3. QED
      BY <1>0, <2>2, <3>2 DEF Informed, Closed, At
  <2>7. CASE GateDeclared(q)
    <3>1. ask'[q] = [ask[q] EXCEPT !.step = "dirty",
                             !.declared = gen[ask[q].base].declared]
      BY <2>7, QuestionSet DEF GateDeclared
    <3>2. /\ ask'[q].step = "dirty" /\ ask'[q].base = ask[q].base
          /\ ask'[q].declared = gen[ask[q].base].declared
      BY <1>0, <3>1 DEF Questions
    <3>3. QED
      BY <1>0, <2>2, <3>2 DEF Informed, Closed, At
  <2>8. CASE GatePresented(q)
    <3>1. ask'[q] = [ask[q] EXCEPT !.step = "list",
              !.presented = {<<d.rev.occ, d.rev.tok>> :
                                 d \in member[ask[q].base]}]
      BY <2>8, QuestionSet DEF GatePresented
    <3>2. /\ ask'[q].step = "list" /\ ask'[q].base = ask[q].base
          /\ ask'[q].declared = ask[q].declared
          /\ ask'[q].presented = {<<d.rev.occ, d.rev.tok>> :
                                      d \in member[ask[q].base]}
      BY <1>0, <3>1 DEF Questions
    <3>3. At(q, "presented")
      BY <2>8 DEF GatePresented
    <3>4. QED
      BY <1>0, <2>2, <3>2, <3>3 DEF Informed, Closed, At
  <2>9. CASE \/ GateDirty(q)
             \/ GateList(q) /\ ~\E outcome : End(q, outcome)
    <3>1. /\ GateDirty(q) => At(q, "dirty")
          /\ \E step \in {"refresh", "presented", "answer"} :
                /\ Step(q, step)
                /\ step = "presented" => GateDirty(q)
      BY <2>9 DEF GateDirty, GateList
    <3>2. QED
      BY <1>0, <2>2, <3>1, StepKeeps DEF Informed, Closed, At
  <2>10. QED
    BY <1>1, <2>3, <2>4, <2>5, <2>6, <2>7, <2>8, <2>9
       DEF Gate, RefreshRefused, AnswerSearch
<1>2. CASE ask'[q] = ask[q]
  <2>1. CASE active' = active
    <3>1. active # 0 => /\ member'[active] = member[active]
                        /\ gen'[active].declared = gen[active].declared
      BY <1>0, <2>1, ActiveUntouched, DeclaredStays
    <3>2. ask[q].step \in {"dirty", "presented", "list"} => ask[q].base # 0
      BY DEF Grounded
    <3>3. QED
      BY <1>0, <1>2, <2>1, <3>1, <3>2 DEF Informed, Closed, At
  <2>2. CASE active' # active
    BY <1>0, <1>2, <2>2 DEF Informed, Grounded, Closed, At
  <2>3. QED
    BY <2>1, <2>2
<1>3. CASE (Refresh(q) \/ CatchUp(q) \/ KillSearch(q)) /\ ask'[q] # ask[q]
  <2>1. CASE \E step \in {"scan", "answer"} : Step(q, step)
    <3>1. /\ ask'[q].step \in {"scan", "answer"}
          /\ ask'[q].base = ask[q].base
      BY <2>1, StepKeeps
    <3>2. QED
      BY <1>0, <3>1 DEF Informed, Closed, At
  <2>2. CASE KillSearch(q) \/ \E outcome : End(q, outcome)
    <3>1. ask'[q].step = "idle" /\ ask'[q].base = 0
      BY <2>2, EndClears
    <3>2. QED
      BY <1>0, <3>1 DEF Informed, Closed, At
  <2>3. QED
    BY <1>3, <2>1, <2>2 DEF Refresh, CatchUp
<1>4. QED
  BY <1>1, <1>2, <1>3, OwnQuestion DEF Search, Gate

LEMMA AlwaysInformed == SearchSpec => []Grounded /\ []AllInformed
<1>1. SearchInit => Grounded /\ AllInformed
  BY CatalogAssumption
     DEF SearchInit, Init, Grounded, AllInformed, Informed, NoQuestion, At
<1>2. SearchTypeOK /\ Grounded /\ [SearchNext]_searchVars => Grounded'
  BY GroundedStep
<1>3. SearchTypeOK /\ InProgress /\ Owned /\ Referenced /\ ActiveClosed
        /\ Grounded /\ AllInformed /\ [SearchNext]_searchVars => AllInformed'
  BY InformedStep
<1>4. QED
  BY <1>1, <1>2, <1>3, SearchTypeCorrect, AlwaysWithin, SearchBehaves,
     AlwaysOwned, AlwaysActiveClosed, PTL DEF SearchSpec

-----------------------------------------------------------------------------
(* The age of an answer.                                                   *)

\* The active generation is still the one a search has read, or was listed
\* after the search began, as every candidate that may replace it was.
Fresh(base, began) ==
    /\ active = base \/ listedAt[active] >= began
    /\ \A s \in Scans : pc[s] \in Building => listedAt[cand[s]] >= began

LEMMA FreshStays ==
    ASSUME SearchTypeOK, InProgress, [SearchNext]_searchVars,
           NEW base \in Nat, NEW began \in Nat, base <= active, began <= edits,
           Fresh(base, began)
    PROVE  /\ active' = base \/ listedAt'[active'] >= began
           /\ \A s \in Scans : pc'[s] \in Building =>
                  listedAt'[cand'[s]] >= began
<1>0. TypeOK /\ edits \in Nat /\ active \in Gens \cup {0}
  BY DEF SearchTypeOK, TypeOK
<1>1. ASSUME NEW s \in Scans, pc[s] \in Building
      PROVE  cand[s] \in Gens
  BY <1>1 DEF InProgress, Sound, HasCandidate, Building, Filling
<1>2. ASSUME NEW s \in Scans, Moves(s), Listing(s)
      PROVE  /\ active' = base \/ listedAt'[active'] >= began
             /\ \A t \in Scans : pc'[t] \in Building =>
                    listedAt'[cand'[t]] >= began
  <2>1. \A g \in Gens : listedAt'[g] \in {listedAt[g], edits}
    BY <1>2, ListingNoted
  <2>2. active' = base \/ listedAt'[active'] >= began
    <3>1. CASE active' = active
      <4>1. active = base \/ active \in Gens
        BY <1>0, CatalogAssumption DEF Gens
      <4>2. QED
        BY <1>0, <2>1, <3>1, <4>1 DEF Fresh
    <3>2. CASE active' # active
      <4>1. Publish(s) /\ active' = cand[s]
        BY <1>0, <1>2, <3>2, PointerKept
      <4>2. pc[s] \in Building
        BY <4>1 DEF Publish, Building
      <4>3. QED
        BY <1>1, <2>1, <4>1, <4>2 DEF Fresh
    <3>3. QED
      BY <3>1, <3>2
  <2>3. ASSUME NEW t \in Scans, pc'[t] \in Building
        PROVE  listedAt'[cand'[t]] >= began
    <3>1. CASE t # s
      <4>1. pc[t] \in Building /\ cand'[t] = cand[t]
        BY <1>0, <1>2, <2>3, <3>1, OthersRest
      <4>2. QED
        BY <1>1, <2>1, <4>1 DEF Fresh
    <3>2. CASE t = s /\ ObserveSources(s)
      <4>1. pc'[s] = "look" /\ cand' = cand
        BY <1>0, <2>3, <3>2, FillFlow
           DEF Flows, Building, Filling, ObserveSources
      <4>2. QED
        BY <1>2, <3>2, <4>1, ListingNoted
    <3>3. CASE t = s /\ ~ObserveSources(s)
      <4>1. pc[s] \in Building /\ cand'[s] = cand[s]
        BY <1>0, <1>2, <2>3, <3>3, FillKept
      <4>2. QED
        BY <1>1, <2>1, <3>3, <4>1 DEF Fresh
    <3>4. QED
      BY <3>1, <3>2, <3>3
  <2>4. QED
    BY <2>2, <2>3
<1>3. CASE UNCHANGED <<active, pc, cand, listedAt>>
  BY <1>3 DEF Fresh
<1>4. CASE (DropLease \/ Edit) /\ UNCHANGED listedAt
  BY <1>4, <1>3 DEF DropLease, Edit, store
<1>5. CASE UNCHANGED <<vars, listedAt>>
  BY <1>5, <1>3 DEF vars, store
<1>6. QED
  BY <1>2, <1>4, <1>5, Sides

\* A search that found no writer while its generation was the active one knows
\* how old an answer can be.
Passed(q) ==
    /\ ask[q].base <= active
    /\ ask[q].began <= edits
    /\ ask[q].settled => Fresh(ask[q].base, ask[q].began)
    /\ At(q, "scan") /\ run[q].phase = "after" => active > ask[q].base
    /\ At(q, "answer") /\ ask[q].base = active /\ active # 0
         /\ ask[q].began = edits => Current(active)
    /\ ~At(q, "idle") => ask[q].outcome = "none"
AllPassed == \A q \in Searches : Passed(q)

\* The gate lets a search through when nothing is behind.
LEMMA NothingBehind ==
    ASSUME SearchTypeOK, NEW q \in Searches, Informed(q), At(q, "list"),
           ask[q].base = active, Behind(q) = {},
           \A h \in unlisted : FailedHarness(q, h), active # 0
    PROVE  Current(active)
<1>0. TypeOK /\ active \in Gens
  BY DEF SearchTypeOK, TypeOK
<1>1. ask[q].presented = {<<d.rev.occ, d.rev.tok>> : d \in member[active]}
        /\ ask[q].declared = gen[active].declared
  BY DEF Informed, At
<1>2. ASSUME NEW o \in Occs, Listed(o)
      PROVE  \/ \E d \in member[active] : d.rev.occ = o /\ d.rev.tok = ver[o]
             \/ \E f \in gen[active].declared : f.harness = HarnessOf[o]
  <2>1. FailedSource(q, HarnessOf[o]) \/ <<o, ver[o]>> \in ask[q].presented
    BY <1>2 DEF Behind
  <2>2. CASE FailedSource(q, HarnessOf[o])
    <3>1. [kind |-> "source", harness |-> HarnessOf[o]]
              \in gen[active].declared
      BY <1>1, <2>2 DEF FailedSource
    <3>2. QED
      BY <3>1
  <2>3. CASE <<o, ver[o]>> \in ask[q].presented
    BY <1>1, <2>3
  <2>4. QED
    BY <2>1, <2>2, <2>3
<1>3. ASSUME NEW d \in member[active]
      PROVE  \/ Listed(d.rev.occ)
             \/ \E f \in gen[active].declared : f.harness = HarnessOf[d.rev.occ]
  <2>1. /\ d.rev.occ \in Occs /\ d.rev.tok \in Toks
        /\ <<d.rev.occ, d.rev.tok>> \in ask[q].presented
    BY <1>0, <1>1, <1>3 DEF TypeOK, Rows, Revisions
  <2>2. d.rev.occ \in here \/ HarnessOf[d.rev.occ] \in unlisted
    BY <2>1 DEF Behind
  <2>3. CASE HarnessOf[d.rev.occ] \in unlisted
    BY <1>1, <2>3 DEF FailedHarness
  <2>4. QED
    BY <2>2, <2>3 DEF Listed
<1>4. QED
  BY <1>2, <1>3 DEF Current

LEMMA CurrentStays ==
    ASSUME TypeOK, InProgress, Owned, Referenced, [AnyStep]_vars, active # 0,
           active' = active, edits' = edits, Current(active)
    PROVE  Current(active)'
<1>1. UNCHANGED disk
  <2>1. ~Edit
    BY DEF Edit, TypeOK
  <2>2. QED
    BY <2>1, FilesStay
<1>2. /\ member'[active] = member[active]
      /\ gen'[active].declared = gen[active].declared
  BY ActiveUntouched, DeclaredStays
<1>3. QED
  BY <1>1, <1>2 DEF Current, Listed, disk

\* The answers to one question of a search.
LEMMA PassedGate ==
    ASSUME SearchTypeOK, Alone, NEW q \in Searches, Informed(q), Passed(q),
           Gate(q)
    PROVE  Passed(q)'
<1>0. /\ TypeOK /\ ask[q] \in Questions /\ edits \in Nat
      /\ active' = active /\ gen' = gen /\ member' = member /\ edits' = edits
      /\ listedAt' = listedAt /\ pc' = pc /\ cand' = cand /\ run' = run
      /\ ver' = ver /\ here' = here /\ unlisted' = unlisted
      /\ active \in Nat
  <2>1. UNCHANGED <<vars, listedAt>>
    BY DEF Gate, AskSearch, GateActive, GateQuiescent, GateDeclared,
       GateDirty, GatePresented, GateList, RefreshRefused, AnswerSearch,
       Reading
  <2>2. QED
    BY <2>1, CatalogAssumption DEF vars, store, disk, SearchTypeOK, TypeOK, Gens
<1>1. CASE \E outcome : End(q, outcome)
  <2>1. /\ ask'[q].step = "idle" /\ ask'[q].base = 0 /\ ask'[q].began = 0
        /\ ask'[q].settled = FALSE
    BY <1>1, EndClears
  <2>2. QED
    BY <1>0, <2>1 DEF Passed, At
<1>2. CASE AskSearch(q)
  <2>1. ask'[q] = [NoQuestion EXCEPT !.step = "active", !.began = edits]
    BY <1>2, QuestionSet DEF AskSearch
  <2>2. /\ ask'[q].step = "active" /\ ask'[q].began = edits
        /\ ask'[q].settled = FALSE /\ ask'[q].outcome = "none"
        /\ ask'[q].base = 0
    BY <2>1 DEF NoQuestion
  <2>3. QED
    BY <1>0, <2>2 DEF Passed, At
<1>3. CASE GateActive(q)
  <2>1. ask'[q] = [ask[q] EXCEPT !.step = "quiescent", !.base = active]
    BY <1>3, QuestionSet DEF GateActive
  <2>2. /\ ask'[q].step = "quiescent" /\ ask'[q].base = active
        /\ ask'[q].began = ask[q].began /\ ask'[q].settled = ask[q].settled
        /\ ask'[q].outcome = ask[q].outcome
    BY <1>0, <2>1 DEF Questions
  <2>3. QED
    BY <1>0, <1>3, <2>2 DEF GateActive, Passed, Fresh, At
<1>4. CASE GateQuiescent(q) /\ ~\E outcome : End(q, outcome)
  <2>1. lease = 0
    BY <1>4 DEF GateQuiescent
  <2>2. ask'[q] = [ask[q] EXCEPT
           !.step = IF ask[q].base = 0 THEN "answer" ELSE "declared",
           !.settled = ask[q].base = active]
    BY <1>4, QuestionSet DEF GateQuiescent
  <2>3. /\ ask'[q].step \in {"answer", "declared"}
        /\ ask'[q].step = "answer" => ask[q].base = 0
        /\ ask'[q].base = ask[q].base
        /\ ask'[q].settled <=> ask[q].base = active
        /\ ask'[q].began = ask[q].began
        /\ ask'[q].outcome = ask[q].outcome
    BY <1>0, <2>2 DEF Questions
  <2>4. \A s \in Scans : pc[s] = "idle"
    BY <2>1, NoneAssumption DEF Alone
  <2>5. ask'[q].settled => Fresh(ask[q].base, ask[q].began)
    BY <2>3, <2>4 DEF Fresh, Building, Filling
  <2>6. ask[q].outcome = "none"
    BY <1>4 DEF GateQuiescent, Passed, At
  <2>7. QED
    BY <1>0, <2>3, <2>5, <2>6 DEF Passed, Fresh, At
<1>5. CASE GateDeclared(q) \/ GatePresented(q)
  <2>1. \/ ask'[q] = [ask[q] EXCEPT !.step = "dirty",
                             !.declared = gen[ask[q].base].declared]
        \/ ask'[q] = [ask[q] EXCEPT !.step = "list",
                 !.presented = {<<d.rev.occ, d.rev.tok>> :
                                    d \in member[ask[q].base]}]
    BY <1>5, QuestionSet DEF GateDeclared, GatePresented
  <2>2. /\ ask'[q].step \in {"dirty", "list"} /\ ask'[q].base = ask[q].base
        /\ ask'[q].began = ask[q].began /\ ask'[q].settled = ask[q].settled
        /\ ask'[q].outcome = ask[q].outcome
    BY <1>0, <2>1 DEF Questions
  <2>3. ask[q].outcome = "none"
    BY <1>5 DEF GateDeclared, GatePresented, Passed, At
  <2>4. QED
    BY <1>0, <2>2, <2>3 DEF Passed, Fresh, At
<1>6. CASE \/ GateDirty(q)
           \/ GateList(q) /\ ~\E outcome : End(q, outcome)
  <2>1. PICK step \in {"refresh", "presented", "answer"} :
            /\ Step(q, step)
            /\ step = "answer" =>
                   /\ At(q, "list") /\ Behind(q) = {}
                   /\ \A h \in unlisted : FailedHarness(q, h)
    BY <1>6 DEF GateDirty, GateList
  <2>2. /\ ask'[q].step = step /\ ask'[q].base = ask[q].base
        /\ ask'[q].began = ask[q].began /\ ask'[q].settled = ask[q].settled
        /\ ask'[q].outcome = ask[q].outcome
    BY <2>1, StepKeeps
  <2>3. step = "answer" /\ ask[q].base = active /\ active # 0
            => Current(active)
    BY <2>1, NothingBehind
  <2>4. ask[q].outcome = "none"
    BY <1>6 DEF GateDirty, GateList, Passed, At
  <2>5. Current(active) => Current(active)'
    BY <1>0 DEF Current, Listed
  <2>6. QED
    BY <1>0, <2>1, <2>2, <2>3, <2>4, <2>5 DEF Passed, Fresh, At
<1>7. QED
  BY <1>1, <1>2, <1>3, <1>4, <1>5, <1>6
     DEF Gate, RefreshRefused, AnswerSearch

\* While a search does not ask, its question only ages.
LEMMA PassedWaits ==
    ASSUME SearchTypeOK, InProgress, Owned, Referenced, Newest,
           [SearchNext]_searchVars, NEW q \in Searches, Passed(q),
           /\ ask'[q].base = ask[q].base
           /\ ask'[q].began = ask[q].began
           /\ ask'[q].settled = ask[q].settled
    PROVE  /\ ask'[q].base <= active' /\ ask'[q].began <= edits'
           /\ ask'[q].settled => Fresh(ask[q].base, ask[q].began)'
           /\ active > ask[q].base => active' > ask'[q].base
           /\ At(q, "answer") /\ ask'[q].base = active' /\ active' # 0
                /\ ask'[q].began = edits' => Current(active)'
<1>0. /\ TypeOK /\ [AnyStep]_vars /\ ask[q].began \in Nat
      /\ edits \in Nat /\ active \in Nat /\ active' \in Nat
      /\ ask[q].base \in Nat /\ ask[q].base <= active
      /\ ask[q].began <= edits
      /\ active' = active \/ active' > active
      /\ edits' = edits \/ edits' = edits + 1
  <2>1. /\ TypeOK /\ TypeOK' /\ [AnyStep]_vars /\ ask[q] \in Questions
    BY SearchesScan, TypeStep DEF SearchTypeOK
  <2>2. Edit => edits' = edits + 1
    BY DEF Edit
  <2>3. ~Edit => edits' = edits
    BY <2>1, FilesStay DEF disk
  <2>4. /\ active \in Nat /\ active' \in Nat /\ edits \in Nat
        /\ ask[q].base \in Nat /\ ask[q].began \in Nat
    BY <2>1, CatalogAssumption DEF TypeOK, Questions, Gens
  <2>5. ask[q].base <= active /\ ask[q].began <= edits
    BY DEF Passed
  <2>6. active' = active \/ active' > active
    BY <2>1, PointerGrows
  <2>7. QED
    BY <2>1, <2>2, <2>3, <2>4, <2>5, <2>6
<1>1. ask'[q].base <= active' /\ ask'[q].began <= edits'
  BY <1>0
<1>2. ask'[q].settled => Fresh(ask[q].base, ask[q].began)'
  BY <1>0, FreshStays DEF Passed, Fresh
<1>3. active > ask[q].base => active' > ask'[q].base
  BY <1>0
<1>4. ASSUME At(q, "answer"), ask'[q].base = active', active' # 0,
             ask'[q].began = edits'
      PROVE  Current(active)'
  <2>1. active' = active /\ edits' = edits
    BY <1>0, <1>4
  <2>2. Current(active)
    BY <1>4, <2>1 DEF Passed
  <2>3. QED
    BY <1>0, <1>4, <2>1, <2>2, CurrentStays
<1>5. QED
  BY <1>1, <1>2, <1>3, <1>4

LEMMA PassedStep ==
    ASSUME SearchTypeOK, InProgress, Owned, Referenced, Alone, Newest,
           Grounded, AllWithin, AllInformed, AllPassed, [SearchNext]_searchVars
    PROVE  AllPassed'
<1> SUFFICES ASSUME NEW q \in Searches PROVE Passed(q)'
  BY DEF AllPassed
<1>0. /\ TypeOK /\ q \in Scans /\ Informed(q) /\ Passed(q) /\ Within(q)
      /\ run[q] \in Locals
  BY SearchAssumption, LocalsFields
     DEF SearchTypeOK, AllInformed, AllPassed, AllWithin
<1>1. CASE Gate(q)
  BY <1>0, <1>1, PassedGate
<1>2. CASE KillSearch(q) \/ \E outcome : End(q, outcome)
  <2>1. /\ ask'[q].step = "idle" /\ ask'[q].base = 0 /\ ask'[q].began = 0
        /\ ask'[q].settled = FALSE
    BY <1>2, EndClears
  <2>2. edits' \in Nat /\ active' \in Nat
    <3>1. TypeOK'
      BY SearchesScan, TypeStep DEF SearchTypeOK
    <3>2. QED
      BY <3>1, CatalogAssumption DEF TypeOK, Gens
  <2>3. QED
    BY <2>1, <2>2 DEF Passed, At
<1>3. CASE Refresh(q)
  <2>1. PICK key \in Keys : Start(q, TolerateDeclared(ask[q].declared), key)
    BY <1>3 DEF Refresh, CatchUpTolerance
  <2>2. run'[q] = [Idle EXCEPT !.tol = TolerateDeclared(ask[q].declared),
                               !.key = key]
    BY <1>0, <2>1, Moved DEF Start
  <2>3. run'[q].phase = "before"
    BY <2>2 DEF Idle
  <2>4. /\ ask'[q].step = "scan" /\ ask'[q].base = ask[q].base
        /\ ask'[q].began = ask[q].began /\ ask'[q].settled = ask[q].settled
        /\ ask'[q].outcome = "none"
    BY <1>0, <1>3, StepKeeps DEF Refresh, Passed, At
  <2>5. QED
    BY <1>0, <2>3, <2>4, PassedWaits DEF Passed, Fresh, At
<1>4. CASE CatchUp(q) /\ ask'[q] = ask[q] /\ pc[q] # "release"
  <2>1. Moves(q) /\ pc[q] # "idle" /\ At(q, "scan")
    BY <1>0, <1>4 DEF CatchUp, Moves, Within
  <2>2. ASSUME run'[q].phase = "after" PROVE active' > ask[q].base
    <3>1. pc'[q] # "idle"
      <4>1. ~Release(q) /\ Work(q)
        BY <1>4 DEF CatchUp, Release
      <4> USE RepairFlow, FillFlow DEF Flows
      <4>2. QED
        BY <1>0, <2>1, <4>1 DEF Work
    <3>2. CASE Publish(q) /\ pc'[q] = "list"
      <4>1. active' = cand[q] /\ cand[q] > active
        BY <1>0, <3>2 DEF Publish, Newest, HasCandidate
      <4>2. active \in Nat /\ active' \in Nat /\ ask[q].base \in Nat
              /\ ask[q].base <= active
        BY <1>0, <4>1, CatalogAssumption
           DEF SearchTypeOK, TypeOK, Questions, Gens, Passed
      <4>3. QED
        BY <4>1, <4>2
    <3>3. CASE MarkFailed(q) /\ pc'[q] = "list"
      <4>1. run'[q] = [run[q] EXCEPT !.phase = "abandon"]
        BY <1>0, <3>3, Moved DEF MarkFailed
      <4>2. QED
        BY <1>0, <2>2, <4>1 DEF Locals
    <3>4. CASE run'[q].phase = run[q].phase
      BY <1>0, <1>4, <2>1, <2>2, <3>4, PassedWaits DEF Passed
    <3>5. QED
      BY <1>0, <2>1, <2>2, <3>1, <3>2, <3>3, <3>4, PlanKept
  <2>3. QED
    BY <1>0, <1>4, <2>1, <2>2, PassedWaits DEF Passed, Fresh, At
<1>5. CASE CatchUp(q) /\ CaughtUp(q) /\ Step(q, "answer")
  <2>1. /\ ask'[q].step = "answer" /\ ask'[q].base = ask[q].base
        /\ ask'[q].began = ask[q].began /\ ask'[q].settled = ask[q].settled
        /\ ask'[q].outcome = "none"
    BY <1>0, <1>5, StepKeeps DEF CatchUp, Passed, At
  <2>2. active > ask[q].base
    BY <1>0, <1>5 DEF CatchUp, CaughtUp, Passed
  <2>3. active' > ask'[q].base
    BY <1>0, <2>1, <2>2, PassedWaits
  <2>4. active' \in Nat /\ ask'[q].base \in Nat
    <3>1. TypeOK'
      BY SearchesScan, TypeStep DEF SearchTypeOK
    <3>2. active' \in Nat
      BY <3>1, CatalogAssumption DEF TypeOK, Gens
    <3>3. ask[q].base \in Nat
      BY CatalogAssumption DEF SearchTypeOK, Questions, Gens
    <3>4. QED
      BY <2>1, <3>2, <3>3
  <2>5. QED
    BY <1>0, <2>1, <2>3, <2>4, PassedWaits DEF Passed, Fresh, At
<1>6. CASE ~Search(q)
  <2>1. ask'[q] = ask[q]
    BY <1>6, OwnQuestion
  <2>2. run'[q] = run[q]
    BY <1>6, OthersMove
  <2>3. QED
    BY <1>0, <2>1, <2>2, PassedWaits DEF Passed, Fresh, At
<1>7. QED
  BY <1>1, <1>2, <1>3, <1>4, <1>5, <1>6 DEF Search, Gate, CatchUp

LEMMA AlwaysPassed ==
    ASSUME "drop" \notin Faults
    PROVE  SearchSpec => []AllPassed
<1>1. SearchInit => AllPassed
  BY DEF SearchInit, Init, AllPassed, Passed, NoQuestion, At
<1>2. SearchTypeOK /\ InProgress /\ Owned /\ Referenced /\ Alone /\ Newest
        /\ Grounded /\ AllWithin /\ AllInformed /\ AllPassed
        /\ [SearchNext]_searchVars => AllPassed'
  BY PassedStep
<1>3. QED
  BY <1>1, <1>2, SearchTypeCorrect, AlwaysWithin, AlwaysInformed,
     SearchBehaves, AlwaysOwned, AlwaysAlone, AlwaysNewest, PTL DEF SearchSpec

-----------------------------------------------------------------------------
(* The promises of the gate.                                               *)

LEMMA FaithfulIsCurrent ==
    ASSUME TypeOK, NEW g \in Gens, Faithful(g)
    PROVE  Current(g)
<1>1. ASSUME NEW o \in Occs,
             [kind |-> "source", harness |-> HarnessOf[o]] \in gen[g].declared
      PROVE  \E f \in gen[g].declared : f.harness = HarnessOf[o]
  BY <1>1
<1>2. QED
  BY <1>1 DEF Faithful, Current

\* A search answers from the corpus as it is.  Whatever scans run, fail and
\* publish between what the gate read and the answer, and however many files,
\* searches and scans there are: when no file changed since the search began,
\* and the generation the gate had read was the active one when the gate found
\* no writer, the answer comes from a generation that presents every listed
\* session at its revision and nothing that is gone, except for what it
\* declares it could not read.  The hypothesis is needed: a scan that lost its
\* lease publishes what it listed long ago.
THEOREM AnswersAreFresh ==
    ASSUME "drop" \notin Faults
    PROVE  SearchSpec => FreshAnswer
<1>1. ASSUME SearchTypeOK, UpToDate, AllInformed, AllPassed,
             [SearchNext]_searchVars,
             NEW q \in Searches, ask[q].settled, At(q, "answer"),
             ask'[q].outcome = "answered", ask[q].began = edits
      PROVE  Current(active)
  <2>0. /\ TypeOK /\ Passed(q) /\ Informed(q) /\ edits \in Nat
        /\ active \in Gens \cup {0}
    BY <1>1 DEF AllPassed, AllInformed, SearchTypeOK, TypeOK
  <2>1. active # 0
    <3>1. Search(q)
      BY <1>1, <2>0, OwnQuestion DEF Passed, At
    <3>2. AnswerSearch(q)
      BY <1>1, <3>1 DEF Search, AskSearch, GateActive, GateQuiescent,
         GateDeclared, GateDirty, GatePresented, GateList, Refresh,
         RefreshRefused, CatchUp, KillSearch, At
    <3>3. ASSUME active = 0 PROVE FALSE
      <4>1. ask'[q] = [NoQuestion EXCEPT
                         !.outcome = "catalog_generation_incomplete"]
        BY <1>1, <3>2, <3>3, QuestionSet DEF AnswerSearch, End
      <4>2. QED
        BY <1>1, <4>1 DEF NoQuestion
    <3>4. QED
      BY <3>3
  <2>2. CASE active = ask[q].base
    BY <1>1, <2>0, <2>1, <2>2 DEF Passed
  <2>3. CASE listedAt[active] >= ask[q].began
    <3>1. listedAt[active] = edits
      BY <1>1, <2>0, <2>1, <2>3 DEF UpToDate, SearchTypeOK
    <3>2. QED
      BY <1>1, <2>0, <2>1, <3>1, FaithfulIsCurrent DEF UpToDate
  <2>4. QED
    BY <1>1, <2>0, <2>2, <2>3 DEF Passed, Fresh
<1>2. SearchTypeOK /\ UpToDate /\ AllInformed /\ AllPassed
        /\ [SearchNext]_searchVars
          => [\A q \in Searches : ask[q].settled => AnswersCurrent(q)]_searchVars
  BY <1>1 DEF AnswersCurrent
<1>3. QED
  BY <1>2, SearchTypeCorrect, AlwaysUpToDate, AlwaysInformed, AlwaysPassed, PTL
     DEF SearchSpec, FreshAnswer

\* A catalog that is current is not scanned again: a search goes from its look
\* at the active generation to a catch-up only when a file changed after the
\* listing that generation was built from, and not because of what the
\* generation declares it left out.  This holds under every fault: a lost lease
\* can make a scan publish late, but never something else than it listed.
THEOREM RefreshesAreNeeded == SearchSpec => RefreshOnlyWhenBehind
<1>1. ASSUME SearchTypeOK, UpToDate, Grounded, AllInformed,
             [SearchNext]_searchVars,
             NEW q \in Searches, At(q, "list"), ask'[q].step = "refresh",
             ask[q].base = active, edits = listedAt[active]
      PROVE  FALSE
  <2>0. TypeOK /\ Informed(q) /\ active \in Gens \cup {0}
    BY <1>1 DEF AllInformed, SearchTypeOK, TypeOK
  <2>1. active # 0
    BY <1>1 DEF Grounded, At
  <2>2. Faithful(active)
    BY <1>1, <2>1 DEF UpToDate
  <2>3. Behind(q) # {}
    <3>1. Search(q)
      BY <1>1, OwnQuestion DEF At
    <3>2. GateList(q)
      BY <1>1, <3>1 DEF Search, AskSearch, GateActive, GateQuiescent,
         GateDeclared, GateDirty, GatePresented, Refresh, RefreshRefused,
         CatchUp, AnswerSearch, KillSearch, At
    <3>3. ASSUME NEW outcome, End(q, outcome) PROVE FALSE
      BY <1>1, <3>3, EndClears
    <3>4. ASSUME Step(q, "answer") PROVE FALSE
      BY <1>1, <3>4, StepKeeps
    <3>5. QED
      BY <3>2, <3>3, <3>4 DEF GateList
  <2>4. /\ ask[q].presented = {<<d.rev.occ, d.rev.tok>> : d \in member[active]}
        /\ ask[q].declared = gen[active].declared
    BY <1>1, <2>0 DEF Informed, At
  <2>5. ASSUME NEW o \in Occs, Listed(o), ~FailedSource(q, HarnessOf[o])
        PROVE  <<o, ver[o]>> \in ask[q].presented
    BY <2>2, <2>4, <2>5 DEF Faithful, FailedSource
  <2>6. ASSUME NEW o \in Occs, o \notin here, NEW t \in Toks,
               <<o, t>> \in ask[q].presented
        PROVE  FALSE
    BY <2>2, <2>4, <2>6 DEF Faithful, Listed
  <2>7. QED
    BY <2>3, <2>5, <2>6 DEF Behind
<1>2. SearchTypeOK /\ UpToDate /\ Grounded /\ AllInformed
        /\ [SearchNext]_searchVars
          => [\A q \in Searches :
                At(q, "list") /\ ask'[q].step = "refresh"
                  /\ ask[q].base = active => edits # listedAt[active]]_searchVars
  BY <1>1
<1>3. QED
  BY <1>2, SearchTypeCorrect, AlwaysUpToDate, AlwaysInformed, PTL
     DEF SearchSpec, RefreshOnlyWhenBehind
=============================================================================
