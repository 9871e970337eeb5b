----------------------------- MODULE SearchGate -----------------------------
(***************************************************************************)
(* The freshness gate in front of search (internal/cli/freshness.go), the  *)
(* catch-up scan it may run and the answer that follows, composed with the *)
(* scans of CatalogScan.  A search is a process that asks the catalog      *)
(* statement by statement whether it is quiescent, clean and current,      *)
(* becomes a scan when it is not, and finally answers from the generation  *)
(* that is active by then.  Other scans, and changes of the files, happen  *)
(* between any two of these statements.                                    *)
(***************************************************************************)
EXTENDS CatalogScan

CONSTANT Searches  \* the processes that search; the others only scan

ASSUME SearchAssumption == Searches \subseteq Scans

VARIABLES
    ask,       \* where each search is and what it has read; "began" and
               \* "settled" are history: the changes of the files when it began,
               \* and whether the generation it had read was still the active
               \* one when it found no writer
    listedAt   \* history: the changes of the files a generation's listing saw

searchVars == <<vars, ask, listedAt>>

-----------------------------------------------------------------------------
SearchSteps == {"idle", "active", "quiescent", "declared", "dirty",
                "presented", "list", "refresh", "scan", "answer"}
Outcomes == {"none", "answered", "scan_in_progress",
             "catalog_generation_incomplete", "unlistable", "scan_failed"}

NoQuestion == [step |-> "idle", base |-> 0, declared |-> {}, presented |-> {},
               outcome |-> "none", began |-> 0, settled |-> FALSE]
Questions == [step : SearchSteps, base : Gens \cup {0},
              declared : SUBSET Failures, presented : SUBSET (Occs \X Toks),
              outcome : Outcomes, began : 0 .. MaxEdits, settled : BOOLEAN]

SearchTypeOK ==
    /\ TypeOK
    /\ ask \in [Searches -> Questions]
    /\ listedAt \in [Gens -> 0 .. MaxEdits]

SearchInit ==
    /\ Init
    /\ ask = [q \in Searches |-> NoQuestion]
    /\ listedAt = [g \in Gens |-> 0]

At(q, step) == ask[q].step = step
Set(q, question) == ask' = [ask EXCEPT ![q] = question]
Step(q, step) == Set(q, [ask[q] EXCEPT !.step = step])
End(q, outcome) == Set(q, [NoQuestion EXCEPT !.outcome = outcome])
Reading == UNCHANGED <<vars, listedAt>>

-----------------------------------------------------------------------------
(* The gate.                                                               *)

AskSearch(q) ==
    /\ At(q, "idle")
    /\ Set(q, [NoQuestion EXCEPT !.step = "active", !.began = edits])
    /\ Reading

GateActive(q) ==
    /\ At(q, "active")
    /\ Set(q, [ask[q] EXCEPT !.step = "quiescent", !.base = active])
    /\ Reading

\* RequireQuiescentWriter, before a missing generation is reported.
GateQuiescent(q) ==
    /\ At(q, "quiescent")
    /\ IF lease # 0 THEN End(q, "scan_in_progress")
       ELSE Set(q, [ask[q] EXCEPT
                      !.step = IF ask[q].base = 0 THEN "answer" ELSE "declared",
                      !.settled = ask[q].base = active])
    /\ Reading

GateDeclared(q) ==
    /\ At(q, "declared")
    /\ Set(q, [ask[q] EXCEPT !.step = "dirty",
                             !.declared = gen[ask[q].base].declared])
    /\ Reading

\* catalogRefresh: dirty beats stale, and needs no listing.
GateDirty(q) ==
    /\ At(q, "dirty")
    /\ Step(q, IF Unreclaimed # {} THEN "refresh" ELSE "presented")
    /\ Reading

\* PresentedRevisions of the generation read first, superseded or not.
GatePresented(q) ==
    /\ At(q, "presented")
    /\ Set(q, [ask[q] EXCEPT !.step = "list",
                 !.presented = {<<d.rev.occ, d.rev.tok>> :
                                   d \in member[ask[q].base]}])
    /\ Reading

\* failedIdentities: what the generation declares, by source and by harness; a
\* failed source fails its harness too.
FailedNoSource(q, h) == FALSE
FailedSource(q, h) == [kind |-> "source", harness |-> h] \in ask[q].declared
FailedHarness(q, h) == \E f \in ask[q].declared : f.harness = h

\* sessionsBehind: sessions listed at another revision, and sessions presented
\* that their listable harness no longer lists.
BehindWithoutRemoved(q) ==
    {o \in Occs : /\ Listed(o)
                  /\ ~FailedSource(q, HarnessOf[o])
                  /\ <<o, ver[o]>> \notin ask[q].presented}
Behind(q) ==
    {o \in Occs : \/ /\ Listed(o)
                     /\ ~FailedSource(q, HarnessOf[o])
                     /\ <<o, ver[o]>> \notin ask[q].presented
                  \/ /\ o \notin here
                     /\ HarnessOf[o] \notin unlisted
                     /\ \E t \in Toks : <<o, t>> \in ask[q].presented}

\* listForGate: a harness the generation does not declare failed must list.
GateList(q) ==
    /\ At(q, "list")
    /\ IF \A h \in unlisted : FailedHarness(q, h)
       THEN Step(q, IF Behind(q) = {} THEN "answer" ELSE "refresh")
       ELSE End(q, "unlistable")
    /\ Reading

-----------------------------------------------------------------------------
(* The catch-up scan and the answer.                                       *)

\* A catch-up continues the authorization of the --partial that published the
\* generation.
ToleranceAll(q) == Partial
CatchUpTolerance(q) == TolerateDeclared(ask[q].declared)

Refresh(q) ==
    /\ At(q, "refresh")
    /\ \E key \in Keys : Start(q, CatchUpTolerance(q), key)
    /\ Step(q, "scan")
    /\ UNCHANGED listedAt

RefreshRefused(q) ==
    /\ At(q, "refresh")
    /\ lease # 0
    /\ End(q, "scan_in_progress")
    /\ Reading

\* The listing a generation is built from, for the history variable.
Listing(s) == listedAt' = IF pc[s] = "observe" /\ pc'[s] = "look"
                          THEN [listedAt EXCEPT ![cand[s]] = edits]
                          ELSE listedAt

\* runScan succeeds for the gate when it published, reclaimed everything and
\* could give the lease back; a partial publication is a success here.
CaughtUp(q) ==
    run[q].result # "none" /\ run[q].phase = "after" /\ lease = q

CatchUp(q) ==
    /\ At(q, "scan")
    /\ Work(q)
    /\ Listing(q)
    /\ IF pc[q] # "release" THEN UNCHANGED ask
       ELSE IF CaughtUp(q) THEN Step(q, "answer")
       ELSE End(q, "scan_failed")

\* Search: one read-only snapshot of the generation active now.
AnswerSearch(q) ==
    /\ At(q, "answer")
    /\ End(q, IF active = 0 THEN "catalog_generation_incomplete"
              ELSE "answered")
    /\ Reading

KillSearch(q) ==
    /\ At(q, "scan")
    /\ Kill(q)
    /\ Set(q, NoQuestion)
    /\ UNCHANGED listedAt

-----------------------------------------------------------------------------
Search(q) ==
    \/ AskSearch(q) \/ GateActive(q) \/ GateQuiescent(q) \/ GateDeclared(q)
    \/ GateDirty(q) \/ GatePresented(q) \/ GateList(q) \/ Refresh(q)
    \/ RefreshRefused(q) \/ CatchUp(q) \/ AnswerSearch(q) \/ KillSearch(q)

Explicit(s) ==
    /\ \/ \E tol \in {Strict, Partial}, key \in Keys : Start(s, tol, key)
       \/ Work(s)
       \/ Kill(s)
    /\ Listing(s)
    /\ UNCHANGED ask

SearchNext ==
    \/ \E q \in Searches : Search(q)
    \/ \E s \in Scans \ Searches : Explicit(s)
    \/ (DropLease \/ Edit) /\ UNCHANGED <<ask, listedAt>>

SearchSpec == SearchInit /\ [][SearchNext]_searchVars

-----------------------------------------------------------------------------
(* Properties.                                                             *)

\* Generation g presents the corpus as it is now, except for what it declares
\* it could not read: every listed session at its revision, and nothing that
\* is gone.
Current(g) ==
    /\ \A o \in Occs : Listed(o) =>
           \/ \E d \in member[g] : d.rev.occ = o /\ d.rev.tok = ver[o]
           \/ \E f \in gen[g].declared : f.harness = HarnessOf[o]
    /\ \A d \in member[g] : \/ Listed(d.rev.occ)
                            \/ \E f \in gen[g].declared :
                                   f.harness = HarnessOf[d.rev.occ]

\* A search answers from the corpus as it is: unless a file changed since the
\* search began, the generation it answers from is current, although other
\* scans may run and publish between what the gate read and the answer.  It
\* rests on the generation the gate read being the active one when the gate
\* found no writer.
AnswersCurrent(q) ==
    At(q, "answer") /\ ask'[q].outcome = "answered" /\ ask[q].began = edits
        => Current(active)
FreshAnswer ==
    [][\A q \in Searches : ask[q].settled => AnswersCurrent(q)]_searchVars

\* An automatic catch-up absorbs no failure the generation the gate looked at
\* did not declare, of the same kind.
CatchUpWithin ==
    [][\A q \in Searches :
         At(q, "scan") /\ active' # active /\ active' = cand[q] =>
             gen'[active'].declared \subseteq ask[q].declared]_searchVars

\* A catalog that is already current is not scanned again: the gate finds an
\* active generation behind only when a file changed after its listing.
RefreshOnlyWhenBehind ==
    [][\A q \in Searches :
         At(q, "list") /\ ask'[q].step = "refresh" /\ ask[q].base = active =>
             edits # listedAt[active]]_searchVars

\* A generation published with --partial stays searchable (README): no search
\* over it fails to list what its own scan could not list.
PartialStaysSearchable ==
    [][\A q \in Searches :
         At(q, "list") /\ ask'[q].outcome = "unlistable"
           /\ ask[q].base = active =>
             edits # listedAt[active]]_searchVars

\* A partial generation reports itself incomplete until its sources recover
\* (README): an answer is incomplete only while something it declares fails.
StillFailing(f) ==
    IF f.kind = "harness" THEN f.harness \in unlisted
    ELSE f.harness \in unlisted \cup {HarnessOf[o] : o \in here \cap broken}
IncompleteWhileFailing ==
    [][\A q \in Searches :
         At(q, "answer") /\ ask'[q].outcome = "answered" /\ ask[q].began = edits
             => \/ gen[active].state # "partial"
                \/ \E f \in gen[active].declared : StillFailing(f)]_searchVars

\* Search answers only from a fresh catalog (README), also when a scan
\* publishes between the gate's reading of the active generation and its look
\* at the writer.
OnlyFreshAnswers == [][\A q \in Searches : AnswersCurrent(q)]_searchVars

=============================================================================
