--------------------------- MODULE Commands_proofs ---------------------------
(***************************************************************************)
(* Proofs about Commands: of each part by itself, whose invariant every    *)
(* step of the part keeps, and no step of another part concerns.           *)
(***************************************************************************)
EXTENDS Commands, FiniteSets, FiniteSetTheorems, WellFoundedInduction, TLAPS

-----------------------------------------------------------------------------
(* catalog init and doctor (CatalogInit).                                  *)

Statements == {"probe", "extensions", "create extensions", "probe again", "lock",
               "schema", "tables", "commit", "done"}
InitOutcomes == {"none", "created", "present", "mismatch", "capability missing",
                 "extensions collided", "collided", "dropped", "failed"}
InitStates == [at : Statements, makes : SUBSET {"schema", "tables"},
               outcome : InitOutcomes]

\* What an init is at while the server, the catalog and the lock are as given:
\* its transaction has the lock, and makes what nobody else has made.
Agrees(p, at, makes, outcome, server, catalog, lock) ==
    /\ at \in {"schema", "tables", "commit"} => lock = p
    /\ at \in {"tables", "commit"} /\ "schema" \in makes => catalog = "absent"
    /\ at = "commit" /\ "schema" \notin makes => catalog = "bare"
    /\ outcome # "collided"
    /\ outcome = "extensions collided" => server = "ready"

InitInv ==
    /\ c \in [Processes -> InitStates]
    /\ d \in Processes \cup {"free"}
    /\ \A p \in Processes : Agrees(p, c[p].at, c[p].makes, c[p].outcome, a, b, d)

LEMMA InitFields ==
    ASSUME InitInv, NEW p \in Processes
    PROVE  /\ c[p] \in InitStates
           /\ c[p].at \in Statements
           /\ c[p].makes \subseteq {"schema", "tables"}
           /\ c[p].outcome \in InitOutcomes
           /\ c[p] = [at |-> c[p].at, makes |-> c[p].makes, outcome |-> c[p].outcome]
           /\ Agrees(p, c[p].at, c[p].makes, c[p].outcome, a, b, d)
  <1>1. c[p] \in InitStates
    BY DEF InitInv
  <1>2. QED
    BY <1>1 DEF InitInv, InitStates

\* An init goes on.
InitGoes(p, at, makes, outcome) ==
    c' = [c EXCEPT ![p] = [at |-> at, makes |-> makes, outcome |-> outcome]]

LEMMA InitGoto ==
    ASSUME InitInv, NEW p \in Processes, NEW at, Maintenance!Goto(p, at)
    PROVE  InitGoes(p, at, c[p].makes, c[p].outcome)
  <1>1. c' = [c EXCEPT ![p] = [c[p] EXCEPT !.at = at]]
    BY DEF Maintenance!Goto, InitInv
  <1>2. [c[p] EXCEPT !.at = at] =
           [at |-> at, makes |-> c[p].makes, outcome |-> c[p].outcome]
    <2>1. c[p] \in InitStates
      BY InitFields
    <2>2. QED
      BY <2>1 DEF InitStates
  <1>3. QED
    BY <1>1, <1>2 DEF InitGoes

LEMMA InitEnds ==
    ASSUME InitInv, NEW p \in Processes, NEW outcome, Maintenance!Ends(p, outcome)
    PROVE  /\ InitGoes(p, "done", c[p].makes, outcome)
           /\ d' = IF d = p THEN "free" ELSE d
  <1>1. c' = [c EXCEPT ![p] = [c[p] EXCEPT !.at = "done", !.outcome = outcome]]
    BY DEF Maintenance!Ends, InitInv
  <1>2. [c[p] EXCEPT !.at = "done", !.outcome = outcome] =
           [at |-> "done", makes |-> c[p].makes, outcome |-> outcome]
    <2>1. c[p] \in InitStates
      BY InitFields
    <2>2. PICK r : r = [at |-> "done", makes |-> c[p].makes, outcome |-> c[p].outcome]
      OBVIOUS
    <2>3. [c[p] EXCEPT !.at = "done"] = r
      BY <2>1, <2>2 DEF InitStates
    <2>4. r \in InitStates
      BY <2>1, <2>2 DEF InitStates, Statements
    <2>5. [r EXCEPT !.outcome = outcome] =
             [at |-> r.at, makes |-> r.makes, outcome |-> outcome]
      BY <2>4 DEF InitStates
    <2>6. QED
      BY <2>2, <2>3, <2>5
  <1>3. QED
    BY <1>1, <1>2 DEF InitGoes, Maintenance!Ends

LEMMA InitMakes ==
    ASSUME InitInv, NEW p \in Processes, NEW at \in Statements,
           NEW makes \in SUBSET {"schema", "tables"},
           c' = [c EXCEPT ![p] = [c[p] EXCEPT !.at = at, !.makes = makes]]
    PROVE  InitGoes(p, at, makes, c[p].outcome)
  <1>1. c[p] \in InitStates
    BY InitFields
  <1>2. PICK r : r = [at |-> at, makes |-> c[p].makes, outcome |-> c[p].outcome]
    OBVIOUS
  <1>3. [c[p] EXCEPT !.at = at] = r /\ r \in InitStates
    BY <1>1, <1>2 DEF InitStates
  <1>4. [r EXCEPT !.makes = makes] =
           [at |-> r.at, makes |-> makes, outcome |-> r.outcome]
    BY <1>3 DEF InitStates
  <1>5. QED
    BY <1>2, <1>3, <1>4 DEF InitGoes

\* It keeps the invariant, if it agrees, and the others do.
LEMMA InitGoesOn ==
    ASSUME InitInv, NEW p \in Processes, NEW at \in Statements,
           NEW makes \in SUBSET {"schema", "tables"}, NEW outcome \in InitOutcomes,
           InitGoes(p, at, makes, outcome),
           d' \in Processes \cup {"free"},
           Agrees(p, at, makes, outcome, a', b', d'),
           \A q \in Processes \ {p} :
               Agrees(q, c[q].at, c[q].makes, c[q].outcome, a', b', d')
    PROVE  InitInv'
  <1> DEFINE new == [at |-> at, makes |-> makes, outcome |-> outcome]
  <1>1. new \in InitStates
    BY DEF InitStates
  <1>2. /\ c' \in [Processes -> InitStates]
        /\ c'[p] = new
        /\ \A q \in Processes \ {p} : c'[q] = c[q]
    BY <1>1 DEF InitGoes, InitInv
  <1>3. ASSUME NEW q \in Processes
        PROVE  Agrees(q, c'[q].at, c'[q].makes, c'[q].outcome, a', b', d')
    <2>1. CASE q = p
      <3>1. c'[q].at = at /\ c'[q].makes = makes /\ c'[q].outcome = outcome
        BY <1>2, <2>1
      <3>2. QED
        BY <2>1, <3>1
    <2>2. CASE q # p
      BY <1>2, <2>2
    <2>3. QED
      BY <2>1, <2>2
  <1>4. QED
    BY <1>2, <1>3 DEF InitInv

\* One that ends reports what holds, and gives the lock back.
LEMMA InitEnded ==
    ASSUME InitInv, NEW p \in Processes, NEW outcome \in InitOutcomes,
           Maintenance!Ends(p, outcome),
           outcome # "collided",
           outcome = "extensions collided" => a' = "ready",
           a = "ready" => a' = "ready",
           \A q \in Processes \ {p} : c[q].at \in {"tables", "commit"} => b' = b
    PROVE  InitInv'
  <1>1. /\ InitGoes(p, "done", c[p].makes, outcome)
        /\ d' = IF d = p THEN "free" ELSE d
    BY InitEnds
  <1>2. d' \in Processes \cup {"free"}
    BY <1>1 DEF InitInv
  <1>3. Agrees(p, "done", c[p].makes, outcome, a', b', d')
    BY DEF Agrees
  <1>4. ASSUME NEW q \in Processes \ {p}
        PROVE  Agrees(q, c[q].at, c[q].makes, c[q].outcome, a', b', d')
    <2>1. Agrees(q, c[q].at, c[q].makes, c[q].outcome, a, b, d)
      BY InitFields
    <2>2. c[q].at \in {"schema", "tables", "commit"} => d' = q
      BY <1>1, <2>1 DEF Agrees
    <2>3. QED
      BY <2>1, <2>2 DEF Agrees
  <1>5. c[p].makes \in SUBSET {"schema", "tables"} /\ "done" \in Statements
    BY InitFields DEF Statements
  <1>6. QED
    BY <1>1, <1>2, <1>3, <1>4, <1>5, InitGoesOn

\* One that goes to its next statement, with the lock as it was.
LEMMA InitGone ==
    ASSUME InitInv, NEW p \in Processes,
           NEW at \in Statements, Maintenance!Goto(p, at),
           Agrees(p, at, c[p].makes, c[p].outcome, a', b, d),
           a = "ready" => a' = "ready",
           UNCHANGED <<b, d>>
    PROVE  InitInv'
  <1>1. InitGoes(p, at, c[p].makes, c[p].outcome)
    BY InitGoto
  <1>2. d' \in Processes \cup {"free"}
    BY DEF InitInv
  <1>3. ASSUME NEW q \in Processes \ {p}
        PROVE  Agrees(q, c[q].at, c[q].makes, c[q].outcome, a', b', d')
    <2>1. Agrees(q, c[q].at, c[q].makes, c[q].outcome, a, b, d)
      BY InitFields
    <2>2. QED
      BY <2>1 DEF Agrees
  <1>4. c[p].makes \in SUBSET {"schema", "tables"} /\ c[p].outcome \in InitOutcomes
    BY InitFields
  <1>5. QED
    BY <1>1, <1>2, <1>3, <1>4, InitGoesOn

\* Every step of an init, of the doctor or of the user keeps it.
LEMMA InitStep ==
    ASSUME InitInv, Maintenance!Next
    PROVE  InitInv'
  <1>1. ASSUME NEW p \in Processes, Maintenance!Probe(p)
        PROVE  InitInv'
    <2>1. UNCHANGED <<a, b>> /\ c[p].at = "probe"
      BY <1>1 DEF Maintenance!Probe
    <2>2. Agrees(p, "extensions", c[p].makes, c[p].outcome, a, b, d)
          /\ Agrees(p, "lock", c[p].makes, c[p].outcome, a, b, d)
      BY InitFields DEF Agrees
    <2>3. CASE Maintenance!Ends(p, "capability missing")
      BY <2>1, <2>3, InitEnded DEF InitOutcomes
    <2>4. CASE Maintenance!Goto(p, "extensions") /\ UNCHANGED d
      BY <2>1, <2>2, <2>4, InitGone DEF Statements
    <2>5. CASE Maintenance!Goto(p, "lock") /\ UNCHANGED d
      BY <2>1, <2>2, <2>5, InitGone DEF Statements
    <2>6. QED
      BY <1>1, <2>3, <2>4, <2>5 DEF Maintenance!Probe
  <1>2. ASSUME NEW p \in Processes, Maintenance!EnsureCapabilities(p)
        PROVE  InitInv'
    <2> DEFINE at == IF a = "ready" THEN "probe again" ELSE "create extensions"
    <2>1. UNCHANGED <<a, b, d>> /\ Maintenance!Goto(p, at)
      BY <1>2 DEF Maintenance!EnsureCapabilities
    <2>2. Agrees(p, at, c[p].makes, c[p].outcome, a, b, d) /\ at \in Statements
      BY InitFields DEF Agrees, Statements
    <2>3. QED
      BY <2>1, <2>2, InitGone
  <1>3. ASSUME NEW p \in Processes, Maintenance!CreateExtensions(p)
        PROVE  InitInv'
    <2>1. a' = "ready" /\ UNCHANGED b
      BY <1>3 DEF Maintenance!CreateExtensions
    <2>2. CASE Maintenance!Ends(p, "extensions collided")
      BY <2>1, <2>2, InitEnded DEF InitOutcomes
    <2>3. CASE Maintenance!Goto(p, "probe again") /\ UNCHANGED d
      <3>1. Agrees(p, "probe again", c[p].makes, c[p].outcome, a', b, d)
        BY <2>1, InitFields DEF Agrees
      <3>2. QED
        BY <2>1, <2>3, <3>1, InitGone DEF Statements
    <2>4. QED
      BY <1>3, <2>2, <2>3 DEF Maintenance!CreateExtensions
  <1>4. ASSUME NEW p \in Processes, Maintenance!ProbeAgain(p)
        PROVE  InitInv'
    <2>1. UNCHANGED <<a, b>>
      BY <1>4 DEF Maintenance!ProbeAgain
    <2>2. CASE Maintenance!Ends(p, "capability missing")
      BY <2>1, <2>2, InitEnded DEF InitOutcomes
    <2>3. CASE Maintenance!Goto(p, "lock") /\ UNCHANGED d
      <3>1. Agrees(p, "lock", c[p].makes, c[p].outcome, a, b, d)
        BY InitFields DEF Agrees
      <3>2. QED
        BY <2>1, <2>3, <3>1, InitGone DEF Statements
    <2>4. QED
      BY <1>4, <2>2, <2>3 DEF Maintenance!ProbeAgain
  <1>5. ASSUME NEW p \in Processes, Maintenance!LockMaintenance(p)
        PROVE  InitInv'
    <2>1. UNCHANGED <<a, b>> /\ d = "free" /\ d' = p /\ Maintenance!Goto(p, "schema")
      BY <1>5 DEF Maintenance!LockMaintenance, Maintenance!TakesLock
    <2>2. InitGoes(p, "schema", c[p].makes, c[p].outcome)
      BY <2>1, InitGoto
    <2>3. Agrees(p, "schema", c[p].makes, c[p].outcome, a', b', d')
      BY <2>1, InitFields DEF Agrees
    <2>4. ASSUME NEW q \in Processes \ {p}
          PROVE  Agrees(q, c[q].at, c[q].makes, c[q].outcome, a', b', d')
      <3>1. Agrees(q, c[q].at, c[q].makes, c[q].outcome, a, b, d) /\ q # "free"
        BY InitFields, CommandsAssumption DEF Maintenance!ConstantsOK
      <3>2. QED
        BY <2>1, <3>1 DEF Agrees
    <2>5. QED
      BY <2>1, <2>2, <2>3, <2>4, InitFields, InitGoesOn DEF Statements
  <1>6. ASSUME NEW p \in Processes, Maintenance!CreateSchema(p)
        PROVE  InitInv'
    <2> DEFINE makes == IF b = "absent" THEN {"schema"} ELSE {}
    <2>1. UNCHANGED <<a, b, d>> /\ c[p].at = "schema"
          /\ c' = [c EXCEPT ![p] = [c[p] EXCEPT !.at = "tables", !.makes = makes]]
      BY <1>6 DEF Maintenance!CreateSchema, InitInv
    <2>2. InitGoes(p, "tables", makes, c[p].outcome)
      BY <2>1, InitMakes DEF Statements
    <2>3. Agrees(p, "tables", makes, c[p].outcome, a', b', d')
      BY <2>1, InitFields DEF Agrees
    <2>4. ASSUME NEW q \in Processes \ {p}
          PROVE  Agrees(q, c[q].at, c[q].makes, c[q].outcome, a', b', d')
      BY <2>1, InitFields
    <2>5. d' \in Processes \cup {"free"}
      BY <2>1 DEF InitInv
    <2>6. QED
      BY <2>2, <2>3, <2>4, <2>5, InitFields, InitGoesOn DEF Statements
  <1>7. ASSUME NEW p \in Processes, Maintenance!EnsureSubstrate(p)
        PROVE  InitInv'
    <2>1. UNCHANGED <<a, b>> /\ c[p].at = "tables"
      BY <1>7 DEF Maintenance!EnsureSubstrate
    <2>2. CASE \E outcome \in {"present", "mismatch", "dropped"} :
                  Maintenance!Ends(p, outcome)
      BY <2>1, <2>2, InitEnded DEF InitOutcomes
    <2>3. CASE /\ b \in {"absent", "bare"}
               /\ b = "absent" => "schema" \in c[p].makes
               /\ c' = [c EXCEPT ![p] = [c[p] EXCEPT !.at = "commit",
                                        !.makes = @ \cup {"tables"}]]
               /\ UNCHANGED d
      <3> DEFINE makes == c[p].makes \cup {"tables"}
      <3>1. InitGoes(p, "commit", makes, c[p].outcome)
        <4>1. makes \in SUBSET {"schema", "tables"}
          BY InitFields
        <4>2. c' = [c EXCEPT ![p] = [c[p] EXCEPT !.at = "commit", !.makes = makes]]
          BY <2>3
        <4>3. QED
          BY <4>1, <4>2, InitMakes DEF Statements
      <3>2. Agrees(p, "commit", makes, c[p].outcome, a', b', d')
        BY <2>1, <2>3, InitFields DEF Agrees
      <3>3. ASSUME NEW q \in Processes \ {p}
            PROVE  Agrees(q, c[q].at, c[q].makes, c[q].outcome, a', b', d')
        BY <2>1, <2>3, InitFields
      <3>4. d' \in Processes \cup {"free"} /\ makes \in SUBSET {"schema", "tables"}
        BY <2>3, InitFields DEF InitInv
      <3>5. QED
        BY <3>1, <3>2, <3>3, <3>4, InitFields, InitGoesOn DEF Statements
    <2>4. QED
      <3>1. \/ \E outcome \in {"present", "mismatch", "dropped"} :
                  Maintenance!Ends(p, outcome)
            \/ /\ b \in {"absent", "bare"}
               /\ b = "absent" => "schema" \in c[p].makes
               /\ c' = [c EXCEPT ![p].at = "commit", ![p].makes = @ \cup {"tables"}]
               /\ UNCHANGED d
        BY <1>7 DEF Maintenance!EnsureSubstrate
      <3>2. QED
        BY <2>2, <2>3, <3>1 DEF InitInv
  <1>8. ASSUME NEW p \in Processes, Maintenance!CommitSchema(p)
        PROVE  InitInv'
    <2>1. c[p].at = "commit" /\ UNCHANGED a
      BY <1>8 DEF Maintenance!CommitSchema
    <2>2. b = (IF "schema" \in c[p].makes THEN "absent" ELSE "bare") /\ d = p
      BY <2>1, InitFields DEF Agrees
    <2>3. Maintenance!Ends(p, "created")
      BY <1>8, <2>2 DEF Maintenance!CommitSchema
    <2>4. \A q \in Processes \ {p} : c[q].at \notin {"tables", "commit"}
      BY <2>2, InitFields DEF Agrees
    <2>5. QED
      BY <2>1, <2>3, <2>4, InitEnded DEF InitOutcomes
  <1>9. ASSUME NEW p \in Processes, Maintenance!InitFails(p)
        PROVE  InitInv'
    BY <1>9, InitEnded DEF Maintenance!InitFails, InitOutcomes
  <1>10. CASE Maintenance!Doctor
    BY <1>10 DEF InitInv, Maintenance!Doctor, Maintenance!StartDoctor,
         Maintenance!DoctorProbe, Maintenance!DoctorStatus, Maintenance!DoctorRevision
  <1>11. CASE Maintenance!DropSchema
    <2>1. /\ b' = "absent" /\ UNCHANGED <<a, c, d>>
          /\ \A p \in Processes : c[p].at # "commit"
      BY <1>11 DEF Maintenance!DropSchema
    <2>2. ASSUME NEW p \in Processes
          PROVE  Agrees(p, c[p].at, c[p].makes, c[p].outcome, a, b', d)
      BY <2>1, InitFields DEF Agrees
    <2>3. QED
      BY <2>1, <2>2 DEF InitInv
  <1>12. QED
    BY <1>1, <1>2, <1>3, <1>4, <1>5, <1>6, <1>7, <1>8, <1>9, <1>10, <1>11
       DEF Maintenance!Next

LEMMA InitBegins == Maintenance!Init => InitInv
  <1> SUFFICES ASSUME Maintenance!Init
               PROVE  InitInv
    OBVIOUS
  <1>1. c = [p \in Processes |-> [at |-> "probe", makes |-> {}, outcome |-> "none"]]
        /\ d = "free"
    BY DEF Maintenance!Init
  <1>2. c \in [Processes -> InitStates]
    BY <1>1 DEF InitStates, Statements, InitOutcomes
  <1>3. \A p \in Processes : Agrees(p, c[p].at, c[p].makes, c[p].outcome, a, b, d)
    BY <1>1 DEF Agrees
  <1>4. QED
    BY <1>1, <1>2, <1>3 DEF InitInv

\* Two catalog inits at a time do not fail of each other in the schema
\* (internal/catalog/catalog.go, initializeSchema): the one at a statement of
\* the transaction has the lock, and nobody has made what it is to make.
THEOREM ConcurrentInitsAgree == Spec => []InitsAgree
  <1> DEFINE Inv == part = "init" => InitInv
  <1>1. Init => Inv
    BY InitBegins DEF Init
  <1>2. Inv /\ [Next]_vars => Inv'
    <2> SUFFICES ASSUME Inv, [Next]_vars, part' = "init"
                 PROVE  InitInv'
      OBVIOUS
    <2>1. CASE UNCHANGED vars
      BY <2>1 DEF vars, InitInv
    <2>2. CASE Next
      <3>1. part = "init"
        BY <2>2 DEF Next
      <3>2. Maintenance!Next
        BY <2>2, <3>1 DEF Next, RunState, RunInit, RunList, RunScan, RunRead,
             RunShow, RunCompletion, RunCurrent
      <3>3. QED
        BY <3>1, <3>2, InitStep
    <2>3. QED
      BY <2>1, <2>2
  <1>3. Inv => InitsAgree
    <2>1. InitInv => Maintenance!InitsAgree
      BY DEF InitInv, Agrees, Maintenance!InitsAgree
    <2>2. QED
      BY <2>1 DEF InitsAgree
  <1>4. QED
    BY <1>1, <1>2, <1>3, PTL DEF Spec

-----------------------------------------------------------------------------
(* One session from its listing to its checkpoint (SessionReading): a is   *)
(* the harness, b the transcript, c what is beside it, d the scan, e the   *)
(* checkpoint, f the past, g the number of changes.                        *)

Harnesses == {"claude", "codex", "omp"}
TranscriptStates == [inode : Nat, stat : Nat, length : Nat]
SnapshotStates == [transcript : TranscriptStates, beside : Nat]
ScanStates == [step : Nat, listed : SnapshotStates, dated : Int, got : SnapshotStates]
CheckpointStates == [state : {"none", "put", "reused"}, revision : SnapshotStates,
                     got : SnapshotStates, dated : Int, size : Nat]

\* Where the steps are in the order of an adapter.
Place(harness, claude, codex, omp) ==
    IF harness = "claude" THEN claude ELSE IF harness = "codex" THEN codex ELSE omp
ListBesideAt(harness) == Place(harness, 1, 0, 2)
ListAt(harness) == Place(harness, 2, 1, 3)
StatAt(harness) == Place(harness, 3, 2, 1)
ChooseAt(harness) == Place(harness, 4, 3, 4)
ReadBesideAt(harness) == Place(harness, 5, 0, 6)
ReadAt(harness) == Place(harness, 6, 4, 5)
EmitAt(harness) == Place(harness, 7, 0, 7)
StateAt(harness) == Place(harness, 8, 5, 8)

ReadingTyped ==
    /\ a \in Harnesses /\ b \in TranscriptStates /\ c \in Nat /\ g \in Nat
    /\ d \in ScanStates /\ d.step <= StateAt(a)
    /\ e \in CheckpointStates
    /\ f \subseteq SnapshotStates

LEMMA AddedAt ==
    ASSUME NEW S, NEW s \in Seq(S), NEW x \in S
    PROVE  /\ s \o <<x>> \in Seq(S)
           /\ Len(s \o <<x>>) = Len(s) + 1
           /\ \A n \in 1 .. Len(s) : (s \o <<x>>)[n] = s[n]
           /\ (s \o <<x>>)[Len(s) + 1] = x
  OBVIOUS

LEMMA StepsOfClaude ==
    ASSUME a = "claude"
    PROVE  /\ Reading!Steps[1] = "list beside"
           /\ Reading!Steps[2] = "list transcript"
           /\ Reading!Steps[3] = "stat"
           /\ Reading!Steps[4] = "choose"
           /\ Reading!Steps[5] = "read beside"
           /\ Reading!Steps[6] = "read transcript"
           /\ Reading!Steps[7] = "emit beside"
           /\ Reading!Steps[8] = "source state"
  <1> DEFINE x1 == "list beside"
             x2 == "list transcript"
             x3 == "stat"
             x4 == "choose"
             x5 == "read beside"
             x6 == "read transcript"
             x7 == "emit beside"
             x8 == "source state"
  <1>1. Reading!Steps = <<x1, x2, x3>> \o <<x4>> \o <<x5, x6, x7>> \o <<x8>>
    BY DEF Reading!Steps, Reading!Listing, Reading!Reading
  <1>2. /\ Reading!Steps[1] = x1 /\ Reading!Steps[2] = x2 /\ Reading!Steps[3] = x3
        /\ Reading!Steps[4] = x4 /\ Reading!Steps[5] = x5 /\ Reading!Steps[6] = x6
        /\ Reading!Steps[7] = x7 /\ Reading!Steps[8] = x8
    <2> HIDE DEF x1, x2, x3, x4, x5, x6, x7, x8
    <2>1. QED
      BY <1>1
  <1>3. QED
    BY <1>2

LEMMA StepsOfCodex ==
    ASSUME a = "codex"
    PROVE  /\ Reading!Steps[1] = "list transcript"
           /\ Reading!Steps[2] = "stat"
           /\ Reading!Steps[3] = "choose"
           /\ Reading!Steps[4] = "read transcript"
           /\ Reading!Steps[5] = "source state"
  <1> DEFINE x1 == "list transcript"
             x2 == "stat"
             x3 == "choose"
             x4 == "read transcript"
             x5 == "source state"
  <1>1. Reading!Steps = <<x1, x2>> \o <<x3>> \o <<x4>> \o <<x5>>
    BY DEF Reading!Steps, Reading!Listing, Reading!Reading
  <1>2. /\ Reading!Steps[1] = x1 /\ Reading!Steps[2] = x2 /\ Reading!Steps[3] = x3
        /\ Reading!Steps[4] = x4 /\ Reading!Steps[5] = x5
    <2> HIDE DEF x1, x2, x3, x4, x5
    <2> DEFINE S == {x1, x2, x3, x4, x5}
    <2>1. PICK begin : begin = <<x1, x2>> \o <<x3>>
      OBVIOUS
    <2>2. /\ begin \in Seq(S) /\ Len(begin) = 3
          /\ begin[1] = x1 /\ begin[2] = x2 /\ begin[3] = x3
      BY <2>1
    <2>3. PICK middle : middle = begin \o <<x4>>
      OBVIOUS
    <2>4. x4 \in S /\ x5 \in S
      OBVIOUS
    <2> HIDE DEF S
    <2>5. /\ middle \in Seq(S) /\ Len(middle) = 4
          /\ middle[1] = x1 /\ middle[2] = x2 /\ middle[3] = x3 /\ middle[4] = x4
      <3>1. /\ middle \in Seq(S) /\ Len(middle) = 3 + 1
            /\ \A n \in 1 .. 3 : middle[n] = begin[n]
            /\ middle[3 + 1] = x4
        <4>1. /\ begin \o <<x4>> \in Seq(S)
              /\ Len(begin \o <<x4>>) = Len(begin) + 1
              /\ \A n \in 1 .. Len(begin) : (begin \o <<x4>>)[n] = begin[n]
              /\ (begin \o <<x4>>)[Len(begin) + 1] = x4
          BY <2>2, <2>4, AddedAt
        <4>2. QED
          BY <2>2, <2>3, <4>1
      <3>2. QED
        BY <2>2, <3>1
    <2>6. Reading!Steps = middle \o <<x5>>
      BY <1>1, <2>1, <2>3
    <2>7. /\ \A n \in 1 .. 4 : Reading!Steps[n] = middle[n]
          /\ Reading!Steps[4 + 1] = x5
      <3>1. /\ middle \o <<x5>> \in Seq(S)
            /\ Len(middle \o <<x5>>) = Len(middle) + 1
            /\ \A n \in 1 .. Len(middle) : (middle \o <<x5>>)[n] = middle[n]
            /\ (middle \o <<x5>>)[Len(middle) + 1] = x5
        BY <2>4, <2>5, AddedAt
      <3>2. QED
        BY <2>5, <2>6, <3>1
    <2>8. QED
      BY <2>5, <2>7
  <1>3. QED
    BY <1>2

LEMMA StepsOfOmp ==
    ASSUME a = "omp"
    PROVE  /\ Reading!Steps[1] = "stat"
           /\ Reading!Steps[2] = "list beside"
           /\ Reading!Steps[3] = "list transcript"
           /\ Reading!Steps[4] = "choose"
           /\ Reading!Steps[5] = "read transcript"
           /\ Reading!Steps[6] = "read beside"
           /\ Reading!Steps[7] = "emit beside"
           /\ Reading!Steps[8] = "source state"
  <1> DEFINE x1 == "stat"
             x2 == "list beside"
             x3 == "list transcript"
             x4 == "choose"
             x5 == "read transcript"
             x6 == "read beside"
             x7 == "emit beside"
             x8 == "source state"
  <1>1. Reading!Steps = <<x1, x2, x3>> \o <<x4>> \o <<x5, x6, x7>> \o <<x8>>
    BY DEF Reading!Steps, Reading!Listing, Reading!Reading
  <1>2. /\ Reading!Steps[1] = x1 /\ Reading!Steps[2] = x2 /\ Reading!Steps[3] = x3
        /\ Reading!Steps[4] = x4 /\ Reading!Steps[5] = x5 /\ Reading!Steps[6] = x6
        /\ Reading!Steps[7] = x7 /\ Reading!Steps[8] = x8
    <2> HIDE DEF x1, x2, x3, x4, x5, x6, x7, x8
    <2>1. QED
      BY <1>1
  <1>3. QED
    BY <1>2

LEMMA StepPlaces ==
    ASSUME ReadingTyped, NEW name, Reading!Running(name)
    PROVE  /\ name = "list beside" => d.step = ListBesideAt(a) /\ a # "codex"
           /\ name = "list transcript" => d.step = ListAt(a)
           /\ name = "stat" => d.step = StatAt(a)
           /\ name = "choose" => d.step = ChooseAt(a)
           /\ name = "read beside" => d.step = ReadBesideAt(a) /\ a # "codex"
           /\ name = "read transcript" => d.step = ReadAt(a)
           /\ name = "emit beside" => d.step = EmitAt(a) /\ a # "codex"
           /\ name = "source state" => d.step = StateAt(a)
  <1> USE DEF ListBesideAt, ListAt, StatAt, ChooseAt, ReadBesideAt, ReadAt, EmitAt,
              StateAt, Place
  <1>1. d.step \in Nat /\ d.step > 0 /\ d.step <= StateAt(a)
        /\ Reading!Steps[d.step] = name
    BY DEF Reading!Running, ReadingTyped, ScanStates
  <1>2. CASE a = "claude"
    <2>1. d.step \in {1, 2, 3, 4, 5, 6, 7, 8}
      BY <1>1, <1>2
    <2>2. QED
      BY <1>1, <1>2, <2>1, StepsOfClaude
  <1>3. CASE a = "codex"
    <2>1. d.step \in {1, 2, 3, 4, 5}
      BY <1>1, <1>3
    <2>2. QED
      BY <1>1, <1>3, <2>1, StepsOfCodex
  <1>4. CASE a = "omp"
    <2>1. d.step \in {1, 2, 3, 4, 5, 6, 7, 8}
      BY <1>1, <1>4
    <2>2. QED
      BY <1>1, <1>4, <2>1, StepsOfOmp
  <1>5. QED
    BY <1>2, <1>3, <1>4 DEF ReadingTyped, Harnesses

\* What is there is of the past.
World ==
    /\ b.stat <= g /\ b.inode <= g /\ c <= g + 1
    /\ [transcript |-> b, beside |-> c] \in f

\* A transcript somebody read, and what became of it.
OfThePast(was, now, changed) ==
    /\ was.stat <= changed /\ was.inode <= now.inode
    /\ was.inode = now.inode => was.length <= now.length
\* What somebody retains was there together, or its transcript was replaced.
Together(got, past) ==
    \E was \in past : /\ was.beside = got.beside
                      /\ was.transcript.inode = got.transcript.inode
                      /\ was.transcript.length >= Reading!Complete(got.transcript)
Replaced(got, past) == \E was \in past : was.transcript.inode > got.transcript.inode

\* A listing, as far as it has gone: the dates are those of what was listed, as
\* long as that is what is there.
Listed ==
    /\ d.listed.beside <= g + 1
    /\ d.step > StatAt(a) => d.listed.transcript.stat <= g
    /\ a = "codex" =>
          /\ d.listed.beside = 0
          /\ d.step = StatAt(a) => /\ d.got.transcript.stat <= g
                                   /\ d.dated = Reading!Complete(d.got.transcript)
          /\ d.step > StatAt(a) => d.dated = Reading!Complete(d.listed.transcript)
    /\ a = "omp" /\ d.step > ListAt(a) /\ b = d.listed.transcript =>
          d.dated = Reading!Complete(d.listed.transcript)

\* The reading after it, as far as it has gone: what was read is what was
\* listed, as long as that is what is there.
Acquired ==
    /\ d.step > ReadAt(a) =>
          /\ OfThePast(d.got.transcript, b, g)
          /\ b = d.listed.transcript => d.got.transcript = d.listed.transcript
    /\ d.step > ReadBesideAt(a) /\ d.listed.beside # 0 /\ c = d.listed.beside =>
          d.got.beside = d.listed.beside
    /\ d.got.beside <= g + 1
    /\ d.got.beside # 0 =>
          /\ a # "codex" /\ d.step > ReadBesideAt(a)
          /\ a = "claude" /\ d.step > ReadAt(a) =>
                Together(d.got, f) \/ (c # d.got.beside /\ d.step <= EmitAt(a))
          /\ a = "omp" => Together(d.got, f) \/ Replaced(d.got, f)

\* The checkpoint holds what it is under, as long as that is what is there; what
\* a scan has listed since may only be that if it still was there.
Holds(transcript) ==
    transcript = e.revision.transcript =>
        /\ e.got.transcript = transcript
        /\ e.size = transcript.length
        /\ a # "claude" => e.dated = Reading!Complete(transcript)
HoldsBeside(beside) ==
    beside # 0 /\ beside = e.revision.beside => e.got.beside = beside
Checkpointed ==
    e.state # "none" =>
        /\ e.revision.transcript.stat <= g /\ e.revision.beside <= g + 1
        /\ Holds(b) /\ HoldsBeside(c)
        /\ d.step > StatAt(a) => Holds(d.listed.transcript)
        /\ a = "codex" /\ d.step = StatAt(a) => Holds(d.got.transcript)
        /\ HoldsBeside(d.listed.beside)
        /\ e.got.beside # 0 =>
              Together(e.got, f) \/ (a = "omp" /\ Replaced(e.got, f))
        /\ e.state = "reused" =>
              Holds(e.revision.transcript) /\ HoldsBeside(e.revision.beside)

ReadingInv == ReadingTyped /\ World /\ Listed /\ Acquired /\ Checkpointed

LEMMA CompleteIs ==
    ASSUME NEW t \in TranscriptStates
    PROVE  Reading!Complete(t) \in Int /\ Reading!Complete(t) <= t.length
  BY DEF Reading!Complete, TranscriptStates

LEMMA ReadingBegins == Reading!Init => ReadingInv
  <1> SUFFICES ASSUME Reading!Init
               PROVE  ReadingInv
    OBVIOUS
  <1> DEFINE now == [transcript |-> b, beside |-> c]
  <1>1. /\ a \in Harnesses /\ b = [inode |-> 0, stat |-> 0, length |-> 2]
        /\ c \in {0, 1} /\ g = 0 /\ f = {now}
    BY DEF Reading!Init, Harnesses
  <1>2. /\ d = [step |-> 0, listed |-> Reading!Nothing, dated |-> 0,
                got |-> Reading!Nothing]
        /\ e = [state |-> "none", revision |-> Reading!Nothing,
                got |-> Reading!Nothing, dated |-> 0, size |-> 0]
    BY DEF Reading!Init, Reading!Idle
  <1>3. Reading!Nothing \in SnapshotStates /\ Reading!Nothing.beside = 0
    BY DEF Reading!Nothing, Reading!NoTranscript, SnapshotStates, TranscriptStates
  <1>4. d \in ScanStates /\ e \in CheckpointStates
    BY <1>2, <1>3 DEF ScanStates, CheckpointStates
  <1>5. b \in TranscriptStates /\ f \subseteq SnapshotStates
    BY <1>1 DEF TranscriptStates, SnapshotStates
  <1>6. ReadingTyped
    BY <1>1, <1>2, <1>4, <1>5 DEF ReadingTyped, StateAt, Place
  <1>7. World
    BY <1>1 DEF World
  <1>8. d.step = 0 /\ d.listed.beside = 0 /\ d.got.beside = 0 /\ e.state = "none"
    BY <1>2, <1>3
  <1>9. Listed /\ Acquired /\ Checkpointed
    BY <1>1, <1>8 DEF Listed, Acquired, Checkpointed, StatAt, ListAt, ReadAt,
       ReadBesideAt, Place
  <1>10. QED
    BY <1>6, <1>7, <1>9 DEF ReadingInv

\* A step of a scan: it takes what it has so far to its next step.
LEMMA StepTakes ==
    ASSUME ReadingTyped, NEW name, NEW new \in ScanStates, Reading!Step(name, new)
    PROVE  /\ d' = [step |-> new.step + 1, listed |-> new.listed,
                    dated |-> new.dated, got |-> new.got]
           /\ d' \in ScanStates
           /\ Reading!Running(name)
           /\ UNCHANGED <<a, b, c, e, f, g>>
  <1>1. d' = [new EXCEPT !.step = new.step + 1]
    BY DEF Reading!Step, ScanStates
  <1>2. d' = [step |-> new.step + 1, listed |-> new.listed,
              dated |-> new.dated, got |-> new.got]
    BY <1>1 DEF ScanStates
  <1>3. d' \in ScanStates
    BY <1>2 DEF ScanStates
  <1>4. QED
    BY <1>2, <1>3 DEF Reading!Step, Reading!Rest

LEMMA ScanUpdates ==
    ASSUME d \in ScanStates, NEW t \in TranscriptStates, NEW x \in Nat, NEW m \in Int
    PROVE  /\ [d EXCEPT !.listed.beside = x] =
                 [step |-> d.step, dated |-> d.dated, got |-> d.got,
                  listed |-> [transcript |-> d.listed.transcript, beside |-> x]]
           /\ [d EXCEPT !.listed.transcript = t] =
                 [step |-> d.step, dated |-> d.dated, got |-> d.got,
                  listed |-> [transcript |-> t, beside |-> d.listed.beside]]
           /\ [d EXCEPT !.got.beside = x] =
                 [step |-> d.step, dated |-> d.dated, listed |-> d.listed,
                  got |-> [transcript |-> d.got.transcript, beside |-> x]]
           /\ [d EXCEPT !.got.transcript = t] =
                 [step |-> d.step, dated |-> d.dated, listed |-> d.listed,
                  got |-> [transcript |-> t, beside |-> d.got.beside]]
           /\ [d EXCEPT !.dated = m] =
                 [step |-> d.step, dated |-> m, listed |-> d.listed, got |-> d.got]
  BY DEF ScanStates, SnapshotStates

\* A scan that only goes on, and one that ends.
LEMMA ReadingStays ==
    ASSUME ReadingInv, UNCHANGED <<a, b, c, e, f, g>>, d' = Reading!Idle
    PROVE  ReadingInv'
  <1> USE DEF StatAt, ListAt, ReadAt, ReadBesideAt, EmitAt, StateAt, ChooseAt, Place
  <1>1. d' = [step |-> 0, listed |-> Reading!Nothing, dated |-> 0,
              got |-> Reading!Nothing]
    BY DEF Reading!Idle
  <1>2. Reading!Nothing \in SnapshotStates /\ Reading!Nothing.beside = 0
    BY DEF Reading!Nothing, Reading!NoTranscript, SnapshotStates, TranscriptStates
  <1>3. d' \in ScanStates
    BY <1>1, <1>2 DEF ScanStates
  <1>4. d'.step = 0 /\ d'.listed.beside = 0 /\ d'.got.beside = 0
    BY <1>1, <1>2
  <1>5. ReadingTyped'
    BY <1>3, <1>4 DEF ReadingTyped, ReadingInv
  <1>6. World'
    BY DEF World, ReadingInv
  <1>7. Listed' /\ Acquired'
    BY <1>4 DEF Listed, Acquired, ReadingInv, ReadingTyped
  <1>8. Checkpointed'
    BY <1>4 DEF Checkpointed, Holds, HoldsBeside, ReadingInv
  <1>9. QED
    BY <1>5, <1>6, <1>7, <1>8 DEF ReadingInv

\* The steps of a listing.
LEMMA ReadingLists ==
    ASSUME ReadingInv,
           Reading!StartScan \/ Reading!ListBeside \/ Reading!ListTranscript
              \/ Reading!StatTranscript
    PROVE  ReadingInv'
  <1> USE DEF StatAt, ListAt, ReadAt, ReadBesideAt, EmitAt, StateAt, ListBesideAt,
              Place
  <1>1. ReadingTyped /\ World /\ Listed /\ Acquired /\ Checkpointed
    BY DEF ReadingInv
  <1>2. a \in Harnesses /\ d \in ScanStates /\ b \in TranscriptStates /\ c \in Nat
        /\ g \in Nat /\ d.step \in Nat /\ d.dated \in Int
        /\ d.got \in SnapshotStates /\ d.listed \in SnapshotStates
        /\ d.got.transcript \in TranscriptStates
    BY <1>1 DEF ReadingTyped, ScanStates, SnapshotStates
  <1>3. CASE Reading!StartScan
    <2>1. UNCHANGED <<a, b, c, e, f, g>>
      BY <1>3 DEF Reading!StartScan, Reading!Rest
    <2>2. d' = [step |-> 1, listed |-> Reading!Nothing, dated |-> 0,
                got |-> Reading!Nothing]
      BY <1>3 DEF Reading!StartScan, Reading!Idle
    <2>3. Reading!Nothing \in SnapshotStates /\ Reading!Nothing.beside = 0
          /\ Reading!Nothing.transcript.stat = 0
      BY DEF Reading!Nothing, Reading!NoTranscript, SnapshotStates, TranscriptStates
    <2>4. d' \in ScanStates
      BY <2>2, <2>3 DEF ScanStates
    <2>5. d'.step = 1 /\ d'.listed.beside = 0 /\ d'.got.beside = 0
      BY <2>2, <2>3
    <2>6. ReadingTyped'
      BY <1>1, <2>1, <2>4, <2>5 DEF ReadingTyped
    <2>7. World'
      BY <1>1, <2>1 DEF World
    <2>8. Listed' /\ Acquired'
      BY <1>1, <1>2, <2>1, <2>5 DEF Listed, Acquired, Harnesses
    <2>9. Checkpointed'
      BY <1>1, <2>1, <2>5 DEF Checkpointed, Holds, HoldsBeside
    <2>10. QED
      BY <2>6, <2>7, <2>8, <2>9 DEF ReadingInv
  <1>4. CASE Reading!ListBeside
    <2> DEFINE listed == [transcript |-> d.listed.transcript, beside |-> c]
    <2>1. PICK new : new = [step |-> d.step, dated |-> d.dated, got |-> d.got,
                            listed |-> listed]
      OBVIOUS
    <2>2. listed \in SnapshotStates
      BY <1>2 DEF SnapshotStates
    <2>3. new \in ScanStates
      BY <1>2, <2>1, <2>2 DEF ScanStates
    <2>4. Reading!Step("list beside", new)
      BY <1>2, <1>4, <2>1, ScanUpdates DEF Reading!ListBeside
    <2>5. /\ d.step = ListBesideAt(a) /\ a # "codex"
          /\ d' = [step |-> d.step + 1, listed |-> listed, dated |-> d.dated,
                   got |-> d.got]
          /\ d' \in ScanStates
          /\ UNCHANGED <<a, b, c, e, f, g>>
      BY <1>1, <2>1, <2>3, <2>4, StepTakes, StepPlaces
    <2>6. /\ d'.step = d.step + 1 /\ d'.dated = d.dated /\ d'.got = d.got
          /\ d'.listed.transcript = d.listed.transcript /\ d'.listed.beside = c
      BY <2>5
    <2>7. ReadingTyped'
      BY <1>1, <1>2, <2>5, <2>6 DEF ReadingTyped, Harnesses
    <2>8. World'
      BY <1>1, <2>5 DEF World
    <2>9. Listed' /\ Acquired'
      BY <1>1, <1>2, <2>5, <2>6 DEF Listed, Acquired, Harnesses, World
    <2>10. Checkpointed'
      BY <1>1, <1>2, <2>5, <2>6 DEF Checkpointed, Holds, HoldsBeside, Harnesses
    <2>11. QED
      BY <2>7, <2>8, <2>9, <2>10 DEF ReadingInv
  <1>5. CASE Reading!ListTranscript
    <2> DEFINE got == [transcript |-> b, beside |-> d.got.beside]
               dated == Reading!Complete(b)
    <2>1. PICK new : new = [step |-> d.step, dated |-> dated, got |-> got,
                            listed |-> d.listed]
      OBVIOUS
    <2>2. got \in SnapshotStates /\ dated \in Int
      BY <1>2, CompleteIs DEF SnapshotStates
    <2>3. new \in ScanStates
      BY <1>2, <2>1, <2>2 DEF ScanStates
    <2>4. Reading!Step("list transcript", new)
      <3>1. [d EXCEPT !.dated = dated, !.got.transcript = b] = new
        <4> HIDE DEF dated
        <4>1. PICK dates : dates = [step |-> d.step, dated |-> dated,
                                    listed |-> d.listed, got |-> d.got]
          OBVIOUS
        <4>2. [d EXCEPT !.dated = dated] = dates
          BY <1>2, <2>2, <4>1, ScanUpdates
        <4>3. dates \in ScanStates
          BY <1>2, <2>2, <4>1 DEF ScanStates
        <4>4. [dates EXCEPT !.got.transcript = b] =
                 [step |-> dates.step, dated |-> dates.dated,
                  listed |-> dates.listed,
                  got |-> [transcript |-> b, beside |-> dates.got.beside]]
          BY <1>2, <4>3 DEF ScanStates, SnapshotStates
        <4>5. QED
          BY <2>1, <4>1, <4>2, <4>4
      <3>2. QED
        BY <1>5, <3>1 DEF Reading!ListTranscript
    <2>5. /\ d.step = ListAt(a)
          /\ d' = [step |-> d.step + 1, listed |-> d.listed, dated |-> dated,
                   got |-> got]
          /\ d' \in ScanStates
          /\ UNCHANGED <<a, b, c, e, f, g>>
      BY <1>1, <2>1, <2>3, <2>4, StepTakes, StepPlaces
    <2>6. /\ d'.step = d.step + 1 /\ d'.dated = dated /\ d'.listed = d.listed
          /\ d'.got.transcript = b /\ d'.got.beside = d.got.beside
      BY <2>5
    <2>7. ReadingTyped'
      BY <1>1, <1>2, <2>5, <2>6 DEF ReadingTyped, Harnesses
    <2>8. World'
      BY <1>1, <2>5 DEF World
    <2>9. Listed' /\ Acquired'
      BY <1>1, <1>2, <2>5, <2>6 DEF Listed, Acquired, Harnesses, World
    <2>10. Checkpointed'
      BY <1>1, <1>2, <2>5, <2>6 DEF Checkpointed, Holds, HoldsBeside, Harnesses
    <2>11. QED
      BY <2>7, <2>8, <2>9, <2>10 DEF ReadingInv
  <1>6. CASE Reading!StatTranscript
    <2> DEFINE t == Reading!Metadata
               listed == [transcript |-> t, beside |-> d.listed.beside]
    <2>1. PICK new : new = [step |-> d.step, dated |-> d.dated, got |-> d.got,
                            listed |-> listed]
      OBVIOUS
    <2>2. t = IF a = "codex" THEN d.got.transcript ELSE b
      BY DEF Reading!Metadata
    <2>3. listed \in SnapshotStates /\ t \in TranscriptStates
      BY <1>2, <2>2 DEF SnapshotStates
    <2> HIDE DEF t
    <2>4. new \in ScanStates
      BY <1>2, <2>1, <2>3 DEF ScanStates
    <2>5. Reading!Step("stat", new)
      BY <1>2, <1>6, <2>1, <2>3, ScanUpdates DEF Reading!StatTranscript, t
    <2>6. /\ d.step = StatAt(a)
          /\ d' = [step |-> d.step + 1, listed |-> listed, dated |-> d.dated,
                   got |-> d.got]
          /\ d' \in ScanStates
          /\ UNCHANGED <<a, b, c, e, f, g>>
      BY <1>1, <2>1, <2>4, <2>5, StepTakes, StepPlaces
    <2>7. /\ d'.step = d.step + 1 /\ d'.dated = d.dated /\ d'.got = d.got
          /\ d'.listed.transcript = t /\ d'.listed.beside = d.listed.beside
      BY <2>6
    <2>8. ReadingTyped'
      BY <1>1, <1>2, <2>6, <2>7 DEF ReadingTyped, Harnesses
    <2>9. World'
      BY <1>1, <2>6 DEF World
    <2>10. Listed' /\ Acquired'
      BY <1>1, <1>2, <2>2, <2>6, <2>7 DEF Listed, Acquired, Harnesses, World
    <2>11. Checkpointed'
      BY <1>1, <1>2, <2>2, <2>6, <2>7 DEF Checkpointed, Holds, HoldsBeside, Harnesses
    <2>12. QED
      BY <2>8, <2>9, <2>10, <2>11 DEF ReadingInv
  <1>7. QED
    BY <1>3, <1>4, <1>5, <1>6

\* The steps of the reading, each of which takes the scan on.
LEMMA ReadingReads ==
    ASSUME ReadingInv,
           Reading!ReadTranscript \/ Reading!ReadBeside \/ Reading!EmitBeside
    PROVE  ReadingInv'
  <1> USE DEF StatAt, ListAt, ReadAt, ReadBesideAt, EmitAt, StateAt, ListBesideAt,
              Place
  <1>1. ReadingTyped /\ World /\ Listed /\ Acquired /\ Checkpointed
    BY DEF ReadingInv
  <1>2. a \in Harnesses /\ d \in ScanStates /\ b \in TranscriptStates /\ c \in Nat
        /\ g \in Nat /\ d.step \in Nat /\ d.dated \in Int
        /\ d.got \in SnapshotStates /\ d.listed \in SnapshotStates
        /\ d.got.transcript \in TranscriptStates
        /\ d.listed.transcript \in TranscriptStates
    BY <1>1 DEF ReadingTyped, ScanStates, SnapshotStates
  <1> DEFINE now == [transcript |-> b, beside |-> c]
  <1>3. now \in f /\ now.transcript = b /\ now.beside = c
    BY <1>1 DEF World
  <1> HIDE DEF now
  <1>4. CASE Reading!ReadTranscript
    <2> DEFINE got == [transcript |-> b, beside |-> d.got.beside]
    <2>1. PICK new : new = [step |-> d.step, dated |-> d.dated, got |-> got,
                            listed |-> d.listed]
      OBVIOUS
    <2>2. got \in SnapshotStates
      BY <1>2 DEF SnapshotStates
    <2>3. new \in ScanStates
      BY <1>2, <2>1, <2>2 DEF ScanStates
    <2>4. Reading!Step("read transcript", new)
      BY <1>2, <1>4, <2>1, ScanUpdates DEF Reading!ReadTranscript
    <2>5. /\ d.step = ReadAt(a)
          /\ d' = [step |-> d.step + 1, listed |-> d.listed, dated |-> d.dated,
                   got |-> got]
          /\ d' \in ScanStates
          /\ UNCHANGED <<a, b, c, e, f, g>>
      BY <1>1, <2>1, <2>3, <2>4, StepTakes, StepPlaces
    <2>6. /\ d'.step = d.step + 1 /\ d'.dated = d.dated /\ d'.listed = d.listed
          /\ d'.got.transcript = b /\ d'.got.beside = d.got.beside
      BY <2>5
    <2>7. ReadingTyped'
      BY <1>1, <1>2, <2>5, <2>6 DEF ReadingTyped, Harnesses
    <2>8. World'
      BY <1>1, <2>5 DEF World
    <2>9. Listed'
      BY <1>1, <1>2, <2>5, <2>6 DEF Listed, Harnesses
    <2>10. c = d.got.beside => Together(d'.got, f)
      BY <1>2, <1>3, <2>6, CompleteIs DEF Together
    <2>11. d.got.beside = 0 \/ a = "claude"
      BY <1>1, <1>2, <2>5 DEF Acquired, Harnesses
    <2>12. OfThePast(b, b, g)
      BY <1>1, <1>2 DEF OfThePast, World, TranscriptStates
    <2>13. Acquired'
      BY <1>1, <1>2, <2>5, <2>6, <2>10, <2>11, <2>12 DEF Acquired, Harnesses
    <2>14. Checkpointed'
      BY <1>1, <1>2, <2>5, <2>6 DEF Checkpointed, Holds, HoldsBeside, Harnesses
    <2>15. QED
      BY <2>7, <2>8, <2>9, <2>13, <2>14 DEF ReadingInv
  <1>5. CASE Reading!ReadBeside
    <2> DEFINE got == [transcript |-> d.got.transcript, beside |-> c]
    <2>1. PICK new : new = [step |-> d.step, dated |-> d.dated, got |-> got,
                            listed |-> d.listed]
      OBVIOUS
    <2>2. got \in SnapshotStates
      BY <1>2 DEF SnapshotStates
    <2>3. new \in ScanStates
      BY <1>2, <2>1, <2>2 DEF ScanStates
    <2>4. Reading!Step("read beside", new)
      BY <1>2, <1>5, <2>1, ScanUpdates DEF Reading!ReadBeside
    <2>5. /\ d.step = ReadBesideAt(a) /\ a # "codex"
          /\ d' = [step |-> d.step + 1, listed |-> d.listed, dated |-> d.dated,
                   got |-> got]
          /\ d' \in ScanStates
          /\ UNCHANGED <<a, b, c, e, f, g>>
      BY <1>1, <2>1, <2>3, <2>4, StepTakes, StepPlaces
    <2>6. /\ d'.step = d.step + 1 /\ d'.dated = d.dated /\ d'.listed = d.listed
          /\ d'.got.transcript = d.got.transcript /\ d'.got.beside = c
      BY <2>5
    <2>7. ReadingTyped'
      BY <1>1, <1>2, <2>5, <2>6 DEF ReadingTyped, Harnesses
    <2>8. World'
      BY <1>1, <2>5 DEF World
    <2>9. Listed'
      BY <1>1, <1>2, <2>5, <2>6 DEF Listed, Harnesses
    <2>10. a = "omp" => Together(d'.got, f) \/ Replaced(d'.got, f)
      <3>1. a = "omp" => OfThePast(d.got.transcript, b, g)
        BY <1>1, <1>2, <2>5 DEF Acquired
      <3>2. Reading!Complete(d.got.transcript) \in Int
            /\ Reading!Complete(d.got.transcript) <= d.got.transcript.length
        BY <1>2, CompleteIs
      <3>3. CASE b.inode > d.got.transcript.inode
        BY <1>3, <2>6, <3>3 DEF Replaced
      <3>4. CASE ~(b.inode > d.got.transcript.inode) /\ a = "omp"
        <4>1. b.inode = d.got.transcript.inode
              /\ d.got.transcript.length <= b.length
          BY <1>2, <3>1, <3>4 DEF OfThePast, TranscriptStates
        <4>2. b.length >= Reading!Complete(d.got.transcript)
          BY <1>2, <3>2, <4>1 DEF TranscriptStates
        <4>3. QED
          BY <1>3, <2>6, <4>1, <4>2 DEF Together
      <3>5. QED
        BY <3>3, <3>4
    <2>11. Acquired'
      BY <1>1, <1>2, <2>5, <2>6, <2>10 DEF Acquired, Harnesses, World
    <2>12. Checkpointed'
      BY <1>1, <1>2, <2>5, <2>6 DEF Checkpointed, Holds, HoldsBeside, Harnesses
    <2>13. QED
      BY <2>7, <2>8, <2>9, <2>11, <2>12 DEF ReadingInv
  <1>6. CASE Reading!EmitBeside
    <2>1. Reading!Step("emit beside", d) /\ d.got.beside \in {0, c}
      BY <1>6 DEF Reading!EmitBeside, Reading!Emits
    <2>2. /\ d.step = EmitAt(a) /\ a # "codex"
          /\ d' = [step |-> d.step + 1, listed |-> d.listed, dated |-> d.dated,
                   got |-> d.got]
          /\ d' \in ScanStates
          /\ UNCHANGED <<a, b, c, e, f, g>>
      BY <1>1, <1>2, <2>1, StepTakes, StepPlaces
    <2>3. /\ d'.step = d.step + 1 /\ d'.dated = d.dated /\ d'.listed = d.listed
          /\ d'.got = d.got
      BY <2>2
    <2>4. ReadingTyped'
      BY <1>1, <1>2, <2>2, <2>3 DEF ReadingTyped, Harnesses
    <2>5. World'
      BY <1>1, <2>2 DEF World
    <2>6. Listed' /\ Acquired'
      <3>1. Listed'
        BY <1>1, <1>2, <2>2, <2>3 DEF Listed, Harnesses
      <3>2. ASSUME d.got.beside # 0, a = "claude"
            PROVE  Together(d.got, f)
        <4>1. c = d.got.beside
          BY <2>1, <3>2
        <4>2. d.step > ReadAt(a)
          BY <1>2, <2>2, <3>2
        <4>3. QED
          BY <1>1, <3>2, <4>1, <4>2 DEF Acquired
      <3>3. Acquired'
        BY <1>1, <1>2, <2>2, <2>3, <3>2 DEF Acquired, Harnesses
      <3>4. QED
        BY <3>1, <3>3
    <2>7. Checkpointed'
      BY <1>1, <1>2, <2>2, <2>3 DEF Checkpointed, Holds, HoldsBeside, Harnesses
    <2>8. QED
      BY <2>4, <2>5, <2>6, <2>7 DEF ReadingInv
  <1>7. QED
    BY <1>4, <1>5, <1>6

\* retainSession: a checkpoint is reused, or there will be another.
LEMMA ReadingChooses ==
    ASSUME ReadingInv, Reading!Choose
    PROVE  ReadingInv'
  <1> USE DEF StatAt, ListAt, ReadAt, ReadBesideAt, EmitAt, StateAt, ChooseAt, Place
  <1>1. ReadingTyped /\ World /\ Listed /\ Acquired /\ Checkpointed
    BY DEF ReadingInv
  <1>2. a \in Harnesses /\ d \in ScanStates /\ e \in CheckpointStates
        /\ d.step \in Nat /\ d.dated \in Int
        /\ d.got \in SnapshotStates /\ d.listed \in SnapshotStates
    BY <1>1 DEF ReadingTyped, ScanStates
  <1>3. Reading!Running("choose") /\ UNCHANGED <<a, b, c, f, g>>
    BY DEF Reading!Choose, Reading!Rest
  <1>4. d.step = ChooseAt(a)
    BY <1>1, <1>3, StepPlaces
  <1>5. d.got.beside = 0
    BY <1>1, <1>2, <1>4 DEF Acquired, Harnesses
  <1>6. CASE /\ e.state # "none" /\ e.revision = d.listed
             /\ e' = [e EXCEPT !.state = "reused"]
             /\ d' = [d EXCEPT !.step = 0]
    <2>1. e' = [state |-> "reused", revision |-> e.revision, got |-> e.got,
                dated |-> e.dated, size |-> e.size]
      BY <1>2, <1>6 DEF CheckpointStates
    <2>2. d' = [step |-> 0, listed |-> d.listed, dated |-> d.dated, got |-> d.got]
      BY <1>2, <1>6 DEF ScanStates
    <2>3. /\ e'.state = "reused" /\ e'.revision = e.revision /\ e'.got = e.got
          /\ e'.dated = e.dated /\ e'.size = e.size /\ e' \in CheckpointStates
      BY <1>2, <2>1 DEF CheckpointStates
    <2>4. /\ d'.step = 0 /\ d'.listed = d.listed /\ d'.dated = d.dated
          /\ d'.got = d.got /\ d' \in ScanStates
      BY <1>2, <2>2 DEF ScanStates
    <2>5. Holds(e.revision.transcript) /\ HoldsBeside(e.revision.beside)
      <3>1. Holds(d.listed.transcript) /\ HoldsBeside(d.listed.beside)
        BY <1>1, <1>2, <1>4, <1>6 DEF Checkpointed, Harnesses
      <3>2. QED
        BY <1>6, <3>1
    <2>6. ReadingTyped'
      BY <1>1, <1>2, <1>3, <2>3, <2>4 DEF ReadingTyped, Harnesses
    <2>7. World'
      BY <1>1, <1>3 DEF World
    <2>8. Listed' /\ Acquired'
      BY <1>1, <1>2, <1>3, <1>4, <1>5, <2>4 DEF Listed, Acquired, Harnesses
    <2>9. Checkpointed'
      BY <1>1, <1>2, <1>3, <1>6, <2>3, <2>4, <2>5
         DEF Checkpointed, Holds, HoldsBeside, Harnesses
    <2>10. QED
      BY <2>6, <2>7, <2>8, <2>9 DEF ReadingInv
  <1>7. CASE /\ d' = [d EXCEPT !.step = d.step + 1]
             /\ e' = [e EXCEPT !.state = IF e.state = "none" THEN e.state ELSE "put"]
    <2> DEFINE state == IF e.state = "none" THEN e.state ELSE "put"
    <2>1. e' = [state |-> state, revision |-> e.revision, got |-> e.got,
                dated |-> e.dated, size |-> e.size]
      BY <1>2, <1>7 DEF CheckpointStates
    <2>2. d' = [step |-> d.step + 1, listed |-> d.listed, dated |-> d.dated,
                got |-> d.got]
      BY <1>2, <1>7 DEF ScanStates
    <2>3. /\ e'.state = state /\ e'.revision = e.revision /\ e'.got = e.got
          /\ e'.dated = e.dated /\ e'.size = e.size /\ e' \in CheckpointStates
      BY <1>2, <2>1 DEF CheckpointStates
    <2>4. /\ d'.step = d.step + 1 /\ d'.listed = d.listed /\ d'.dated = d.dated
          /\ d'.got = d.got /\ d' \in ScanStates
      BY <1>2, <2>2 DEF ScanStates
    <2>5. ReadingTyped'
      BY <1>1, <1>2, <1>3, <1>4, <2>3, <2>4 DEF ReadingTyped, Harnesses
    <2>6. World'
      BY <1>1, <1>3 DEF World
    <2>7. Listed' /\ Acquired'
      BY <1>1, <1>2, <1>3, <1>4, <1>5, <2>4 DEF Listed, Acquired, Harnesses
    <2>8. Checkpointed'
      BY <1>1, <1>2, <1>3, <1>4, <2>3, <2>4
         DEF Checkpointed, Holds, HoldsBeside, Harnesses
    <2>9. QED
      BY <2>5, <2>6, <2>7, <2>8 DEF ReadingInv
  <1>8. QED
    BY <1>6, <1>7 DEF Reading!Choose

\* sourceState: the checkpoint is of what was read, under what was listed.
LEMMA ReadingPuts ==
    ASSUME ReadingInv, Reading!PutCheckpoint
    PROVE  ReadingInv'
  <1> USE DEF StatAt, ListAt, ReadAt, ReadBesideAt, EmitAt, StateAt, ChooseAt, Place
  <1>1. ReadingTyped /\ World /\ Listed /\ Acquired /\ Checkpointed
    BY DEF ReadingInv
  <1>2. a \in Harnesses /\ d \in ScanStates /\ e \in CheckpointStates
        /\ b \in TranscriptStates /\ b.length \in Nat /\ c \in Nat /\ g \in Nat
        /\ d.step \in Nat /\ d.dated \in Int
        /\ d.got \in SnapshotStates /\ d.listed \in SnapshotStates
    BY <1>1 DEF ReadingTyped, ScanStates, TranscriptStates
  <1>3. /\ Reading!Running("source state") /\ UNCHANGED <<a, b, c, f, g>>
        /\ d' = Reading!Idle
        /\ e' = [state |-> "put", revision |-> d.listed, got |-> d.got,
                 dated |-> d.dated, size |-> b.length]
    BY DEF Reading!PutCheckpoint, Reading!Rest, Reading!CheckpointRevision
  <1>4. d.step = StateAt(a)
    BY <1>1, <1>3, StepPlaces
  <1>5. d' = [step |-> 0, listed |-> Reading!Nothing, dated |-> 0,
              got |-> Reading!Nothing]
    BY <1>3 DEF Reading!Idle
  <1>6. Reading!Nothing \in SnapshotStates /\ Reading!Nothing.beside = 0
    BY DEF Reading!Nothing, Reading!NoTranscript, SnapshotStates, TranscriptStates
  <1>7. d' \in ScanStates
    BY <1>5, <1>6 DEF ScanStates
  <1>8. d'.step = 0 /\ d'.listed.beside = 0 /\ d'.got.beside = 0
    BY <1>5, <1>6
  <1>9. /\ e'.state = "put" /\ e'.revision = d.listed /\ e'.got = d.got
        /\ e'.dated = d.dated /\ e'.size = b.length /\ e' \in CheckpointStates
    BY <1>2, <1>3 DEF CheckpointStates
  <1>10. UNCHANGED <<a, b, c, f, g>>
    BY <1>3
  <1>11. ReadingTyped'
    BY <1>1, <1>2, <1>7, <1>8, <1>9, <1>10 DEF ReadingTyped, Harnesses
  <1>12. World'
    BY <1>1, <1>10 DEF World
  <1>13. Listed' /\ Acquired'
    BY <1>2, <1>8, <1>10 DEF Listed, Acquired, Harnesses
  <1>14. Checkpointed'
    <2>1. b = d.listed.transcript =>
             /\ d.got.transcript = b
             /\ a # "claude" => d.dated = Reading!Complete(b)
      BY <1>1, <1>2, <1>4 DEF Listed, Acquired, Harnesses
    <2>2. c # 0 /\ c = d.listed.beside => d.got.beside = c
      BY <1>1, <1>2, <1>4 DEF Listed, Acquired, Harnesses
    <2>3. d.listed.transcript.stat <= g /\ d.listed.beside <= g + 1
      BY <1>1, <1>2, <1>4 DEF Listed, Harnesses
    <2>4. d.got.beside # 0 =>
             Together(d.got, f) \/ (a = "omp" /\ Replaced(d.got, f))
      BY <1>1, <1>2, <1>4 DEF Acquired, Harnesses
    <2>5. Holds(b)' /\ HoldsBeside(c)'
      BY <1>9, <1>10, <2>1, <2>2 DEF Holds, HoldsBeside
    <2>6. QED
      BY <1>2, <1>8, <1>9, <1>10, <2>3, <2>4, <2>5
         DEF Checkpointed, HoldsBeside, Harnesses
  <1>15. QED
    BY <1>11, <1>12, <1>13, <1>14 DEF ReadingInv

\* What the harness changes was not there before, and what was there has been.
LEMMA ReadingChanges ==
    ASSUME ReadingInv,
           Reading!AppendRecords \/ Reading!Replace \/ Reading!ChangeBeside
    PROVE  ReadingInv'
  <1> USE DEF StatAt, ListAt, ReadAt, ReadBesideAt, EmitAt, StateAt, ChooseAt, Place
  <1>1. ReadingTyped /\ World /\ Listed /\ Acquired /\ Checkpointed
    BY DEF ReadingInv
  <1>2. a \in Harnesses /\ d \in ScanStates /\ e \in CheckpointStates
        /\ b \in TranscriptStates /\ c \in Nat /\ g \in Nat
        /\ b.length \in Nat /\ b.stat \in Nat /\ b.inode \in Nat
        /\ d.step \in Nat /\ d.dated \in Int
        /\ d.got \in SnapshotStates /\ d.listed \in SnapshotStates
        /\ d.got.transcript \in TranscriptStates
        /\ d.listed.transcript \in TranscriptStates
        /\ d.got.beside \in Nat /\ d.listed.beside \in Nat
    BY <1>1 DEF ReadingTyped, ScanStates, SnapshotStates, TranscriptStates
  <1>3. /\ g' = g + 1 /\ UNCHANGED <<a, d, e>>
        /\ f' = f \cup {[transcript |-> b', beside |-> c']}
    BY DEF Reading!AppendRecords, Reading!Replace, Reading!ChangeBeside,
           Reading!Change
  <1>4. \/ /\ b' = b
           /\ c' \in {0, g + 2} /\ a # "codex"
        \/ /\ c' = c
           /\ b' \in TranscriptStates /\ b'.stat = g + 1
           /\ \/ b'.inode = g + 1
              \/ b'.inode = b.inode /\ b'.length >= b.length
    <2>1. CASE Reading!AppendRecords
      <3>1. PICK n \in 1 .. 2 :
               c' = c /\ b' = [b EXCEPT !.length = b.length + n, !.stat = g + 1]
        BY <2>1 DEF Reading!AppendRecords, Reading!Change
      <3>2. [b EXCEPT !.length = b.length + n] =
               [inode |-> b.inode, stat |-> b.stat, length |-> b.length + n]
        BY <1>2 DEF TranscriptStates
      <3>3. PICK t : t = [inode |-> b.inode, stat |-> b.stat, length |-> b.length + n]
        OBVIOUS
      <3>4. t \in TranscriptStates
        BY <1>2, <3>3 DEF TranscriptStates
      <3>5. [t EXCEPT !.stat = g + 1] =
               [inode |-> t.inode, stat |-> g + 1, length |-> t.length]
        BY <3>4 DEF TranscriptStates
      <3>6. b' = [inode |-> b.inode, stat |-> g + 1, length |-> b.length + n]
        BY <3>1, <3>2, <3>3, <3>5
      <3>7. QED
        BY <1>2, <3>1, <3>6 DEF TranscriptStates
    <2>2. CASE Reading!Replace
      <3>1. PICK n \in {2, b.length} :
               c' = c /\ b' = [inode |-> g + 1, stat |-> g + 1, length |-> n]
        BY <2>2 DEF Reading!Replace, Reading!Change
      <3>2. QED
        BY <1>2, <3>1 DEF TranscriptStates
    <2>3. CASE Reading!ChangeBeside
      BY <2>3 DEF Reading!ChangeBeside, Reading!Change
    <2>4. QED
      BY <2>1, <2>2, <2>3
  <1>5. b' \in TranscriptStates /\ c' \in Nat /\ g' \in Nat
    BY <1>2, <1>3, <1>4
  <1>6. ReadingTyped'
    <2>1. [transcript |-> b', beside |-> c'] \in SnapshotStates
      BY <1>5 DEF SnapshotStates
    <2>2. QED
      BY <1>1, <1>3, <1>5, <2>1 DEF ReadingTyped
  <1>7. World'
    BY <1>1, <1>2, <1>3, <1>4 DEF World
  <1>8. ASSUME NEW t \in TranscriptStates, t.stat <= g, b' = t
        PROVE  b = t
    BY <1>2, <1>4, <1>8 DEF TranscriptStates
  <1>9. ASSUME NEW n \in Nat, n <= g + 1, n # 0, c' = n
        PROVE  c = n
    BY <1>2, <1>4, <1>9
  <1>10. ASSUME NEW t \in TranscriptStates, OfThePast(t, b, g)
         PROVE  OfThePast(t, b, g)'
    BY <1>1, <1>2, <1>3, <1>4, <1>5, <1>10 DEF OfThePast, TranscriptStates, World
  <1>11. ASSUME NEW got, Together(got, f)
         PROVE  Together(got, f')
    BY <1>3, <1>11 DEF Together
  <1>12. ASSUME NEW got, Replaced(got, f)
         PROVE  Replaced(got, f')
    BY <1>3, <1>12 DEF Replaced
  <1>13. Listed'
    <2>1. a = "omp" /\ d.step > ListAt(a) => d.listed.transcript.stat <= g
      BY <1>1, <1>2 DEF Listed
    <2>2. a = "omp" /\ d.step > ListAt(a) /\ b' = d.listed.transcript =>
             d.dated = Reading!Complete(d.listed.transcript)
      BY <1>1, <1>2, <1>8, <2>1 DEF Listed
    <2>3. QED
      BY <1>1, <1>2, <1>3, <2>2 DEF Listed, TranscriptStates
  <1>14. Acquired'
    <2>1. d.step > ReadAt(a) => d.listed.transcript.stat <= g
      BY <1>1, <1>2 DEF Listed
    <2>2. d.step > ReadAt(a) =>
             /\ OfThePast(d.got.transcript, b', g')
             /\ b' = d.listed.transcript => d.got.transcript = d.listed.transcript
      <3>1. ASSUME d.step > ReadAt(a)
            PROVE  OfThePast(d.got.transcript, b', g')
        BY <1>1, <1>2, <1>10, <3>1 DEF Acquired
      <3>2. ASSUME d.step > ReadAt(a), b' = d.listed.transcript
            PROVE  d.got.transcript = d.listed.transcript
        BY <1>1, <1>2, <1>8, <2>1, <3>2 DEF Acquired
      <3>3. QED
        BY <3>1, <3>2
    <2>3. d.step > ReadBesideAt(a) /\ d.listed.beside # 0 /\ c' = d.listed.beside =>
             d.got.beside = d.listed.beside
      BY <1>1, <1>2, <1>9 DEF Acquired, Listed
    <2>4. d.got.beside # 0 /\ c' = d.got.beside => c = d.got.beside
      BY <1>1, <1>2, <1>9 DEF Acquired
    <2>5. d.got.beside # 0 =>
             /\ a # "codex" /\ d.step > ReadBesideAt(a)
             /\ a = "claude" /\ d.step > ReadAt(a) =>
                   Together(d.got, f') \/ (c' # d.got.beside /\ d.step <= EmitAt(a))
             /\ a = "omp" => Together(d.got, f') \/ Replaced(d.got, f')
      BY <1>1, <1>11, <1>12, <2>4 DEF Acquired
    <2>6. d.got.beside <= g' + 1
      BY <1>1, <1>2, <1>3 DEF Acquired
    <2>7. QED
      BY <1>3, <2>2, <2>3, <2>5, <2>6 DEF Acquired
  <1>15. Checkpointed'
    <2> SUFFICES ASSUME e.state # "none"
                 PROVE  Checkpointed'
      BY <1>3 DEF Checkpointed
    <2>1. e.revision.transcript \in TranscriptStates /\ e.revision.beside \in Nat
          /\ e.revision.transcript.stat <= g /\ e.revision.beside <= g + 1
          /\ Holds(b) /\ HoldsBeside(c)
      BY <1>1, <1>2 DEF Checkpointed, CheckpointStates, SnapshotStates
    <2>2. Holds(b')
      BY <1>8, <2>1 DEF Holds
    <2>3. HoldsBeside(c')
      BY <1>9, <2>1 DEF HoldsBeside
    <2>4. /\ e.revision.transcript.stat <= g + 1
          /\ e.revision.beside <= (g + 1) + 1
      BY <1>2, <2>1 DEF TranscriptStates
    <2>5. QED
      BY <1>1, <1>3, <1>11, <1>12, <2>2, <2>3, <2>4
         DEF Checkpointed, Holds, HoldsBeside
  <1>16. QED
    BY <1>6, <1>7, <1>13, <1>14, <1>15 DEF ReadingInv

LEMMA ReadingStep ==
    ASSUME ReadingInv, Reading!Next
    PROVE  ReadingInv'
  <1>1. CASE Reading!EmissionFails \/ Reading!ScanFails
    <2>1. d' = Reading!Idle /\ UNCHANGED <<a, b, c, e, f, g>>
      BY <1>1 DEF Reading!EmissionFails, Reading!ScanFails, Reading!Rest
    <2>2. QED
      BY <2>1, ReadingStays
  <1>2. QED
    BY <1>1, ReadingLists, ReadingChooses, ReadingReads, ReadingPuts, ReadingChanges
       DEF Reading!Next

\* What a part of Commands keeps, the program keeps.
LEMMA ReadingAlways == Spec => [](part = "scan" => ReadingInv)
  <1> DEFINE Inv == part = "scan" => ReadingInv
  <1>1. Init => Inv
    BY ReadingBegins DEF Init
  <1>2. Inv /\ [Next]_vars => Inv'
    <2> SUFFICES ASSUME Inv, [Next]_vars, part' = "scan"
                 PROVE  ReadingInv'
      OBVIOUS
    <2>1. CASE UNCHANGED vars
      BY <2>1 DEF vars, ReadingInv, ReadingTyped, World, Listed, Acquired,
         Checkpointed, Holds, HoldsBeside
    <2>2. CASE Next
      <3>1. part = "scan"
        BY <2>2 DEF Next
      <3>2. Reading!Next
        BY <2>2, <3>1 DEF Next, RunState, RunInit, RunList, RunScan, RunRead,
           RunShow, RunCompletion, RunCurrent
      <3>3. QED
        BY <3>1, <3>2, ReadingStep
    <2>3. QED
      BY <2>1, <2>2
  <1>3. QED
    BY <1>1, <1>2, PTL DEF Spec

\* A session is reused only while its retained records, and its tail, are those
\* of the containers that were listed (internal/cli/scan.go, retainSession):
\* every container changes to what it was not before, so one that still is what
\* was listed is what was read in between.
THEOREM ReusedSessionsAreCurrent == Spec => []ReusedIsCurrent
  <1>1. ReadingInv => Reading!ReusedIsCurrent
    BY DEF ReadingInv, Checkpointed, Holds, HoldsBeside, Reading!ReusedIsCurrent
  <1>2. (part = "scan" => ReadingInv) => ReusedIsCurrent
    BY <1>1 DEF ReusedIsCurrent
  <1>3. QED
    BY <1>2, ReadingAlways, PTL

\* So are its title and its dates, with Codex and OMP, whose adapters take the
\* stat before they read (adapters/codex, adapters/omp).
THEOREM ReusedDatesAreCurrent == Spec => []DatesCurrent
  <1>1. ReadingInv => Reading!DatesCurrent
    BY DEF ReadingInv, Checkpointed, Holds, Reading!DatesCurrent
  <1>2. (part = "scan" => ReadingInv) => DatesCurrent
    BY <1>1 DEF DatesCurrent
  <1>3. QED
    BY <1>2, ReadingAlways, PTL

\* The retained records and what is retained from beside them were there
\* together: what was beside a Claude transcript is emitted only if it still is
\* there, and an OMP transcript that is not replaced only grows.
THEOREM RetainedWereTogether == Spec => []RetainedTogether
  <1>1. ReadingInv => Reading!RetainedTogether
    BY DEF ReadingInv, Checkpointed, Together, Replaced, Reading!RetainedTogether,
           Reading!ReplacedSince
  <1>2. (part = "scan" => ReadingInv) => RetainedTogether
    BY <1>1 DEF RetainedTogether
  <1>3. QED
    BY <1>2, ReadingAlways, PTL

-----------------------------------------------------------------------------
(* The listing cache (ListingCache): a is the harness, b the containers, c *)
(* the cache file, d the processes, e the number of listings, f the newest *)
(* versions.                                                               *)

Maps(S) == UNION {[D -> S] : D \in SUBSET Occurrences}
ContainerStates == [transcript : Nat, beside : Nat]
RefStates == [read : ContainerStates, parent : Nat]
EntryStates == [stamp : ContainerStates, ref : RefStates]
ListingFields == {"at", "todo", "stamp", "got", "refs", "began", "loaded", "dirty",
                  "entries", "touched", "flushed", "alone"}

\* Not older in either part; and of a container, unless it is gone.
NotOlder(x, y) == x.transcript >= y.transcript /\ x.beside >= y.beside
Since(x, y) == NotOlder(x, y) \/ (x.transcript = 0 /\ x.beside >= y.beside)

\* What is cached was not read before it was stamped.
Kept(entry) ==
    /\ NotOlder(entry.ref.read, entry.stamp)
    /\ entry.ref.parent = 0
    /\ a # "claude" => entry.stamp.transcript # 0
Caches(map) == map \in Maps(EntryStates) /\ \A o \in DOMAIN map : Kept(map[o])

Containers ==
    /\ a \in Harnesses /\ b \in [Occurrences -> ContainerStates]
    /\ f \in ContainerStates
    /\ \A o \in Occurrences : NotOlder(f, b[o]) /\ (a = "codex" => b[o].beside = 0)
    /\ c = Listing!Corrupt \/ Caches(c)

Lists(it) ==
    /\ DOMAIN it = ListingFields
    /\ it.todo \subseteq Occurrences
    /\ it.stamp \in ContainerStates /\ it.got \in ContainerStates
    /\ it.at = "next" => it.stamp = Listing!NoContainer
    /\ it.began \in [Occurrences -> ContainerStates]
    /\ it.refs \in Maps(RefStates)

\* What a listing shows is not older than it was when it began.
Shown(it, o) ==
    \/ NotOlder(it.refs[o].read, it.began[o])
    \/ a = "claude" /\ o \in DOMAIN it.entries /\ it.entries[o].stamp.transcript = 0
Shows(it) ==
    /\ \A o \in DOMAIN it.refs : Shown(it, o)
    /\ it.at # "flush" => \A o \in DOMAIN it.refs : it.refs[o].parent = 0
    /\ it.at = "flush" /\ a = "omp" =>
          it.refs = Listing!Resolve([o \in DOMAIN it.refs |->
                                        [it.refs[o] EXCEPT !.parent = 0]])

\* The containers since it began, and the one at hand since it was stamped.
Least(todo) == CHOOSE o \in todo : \A q \in todo : o <= q
Begun(it, containers, newest) ==
    /\ NotOlder(newest, it.stamp)
    /\ \A o \in Occurrences :
          /\ NotOlder(newest, it.began[o])
          /\ it.at # "idle" => Since(containers[o], it.began[o])
AtHand(it, container, began) ==
    it.at \in {"beside", "read beside", "read transcript"} =>
        /\ it.todo # {}
        /\ Since(container, it.stamp)
        /\ it.stamp.transcript = 0 \/ it.stamp.transcript >= began.transcript
        /\ a = "omp" => it.stamp.transcript # 0
        /\ it.at # "beside" =>
              /\ it.stamp.beside >= began.beside
              /\ it.loaded \/ (a = "codex" /\ it.stamp.transcript = 0)
        /\ it.at = "read transcript" =>
              it.got.beside >= began.beside /\ it.got.beside >= it.stamp.beside

\* The cache of a process, and the file.
CacheOf(it, file) ==
    /\ Caches(it.entries)
    /\ it.touched \subseteq DOMAIN it.entries
    /\ ~it.loaded /\ it.at # "idle" => DOMAIN it.entries = {}
    /\ it.flushed => it.at = "idle" /\ file = it.entries
    /\ it.at # "idle" /\ it.loaded /\ it.alone /\ ~it.dirty => it.entries = file

Keeps(it, containers, file, newest) ==
    /\ Lists(it) /\ Shows(it) /\ Begun(it, containers, newest)
    /\ AtHand(it, containers[Least(it.todo)], it.began[Least(it.todo)])
    /\ CacheOf(it, file)

ListingInv ==
    /\ Containers
    /\ DOMAIN d = Processes
    /\ \A p \in Processes : Keeps(d[p], b, c, f)

LEMMA LeastOf ==
    ASSUME NEW S \in SUBSET Nat, S # {}
    PROVE  Least(S) \in S /\ \A q \in S : Least(S) <= q
  <1> DEFINE R == {ss \in Nat \X Nat : ss[1] < ss[2]}
  <1>1. IsWellFoundedOn(R, Nat)
    BY NatLessThanWellFounded DEF OpToRel
  <1> HIDE DEF R
  <1>2. PICK least \in S : \A k \in S : ~(<<k, least>> \in R)
    BY <1>1, WFMin
  <1>3. \A k \in S : ~(k < least)
    BY <1>2 DEF R
  <1>4. \E m \in S : \A k \in S : m <= k
    BY <1>3
  <1>5. QED
    BY <1>4, Zenon DEF Least

\* A map, and the map with one more.
LEMMA MapIs ==
    ASSUME NEW S, NEW map \in Maps(S)
    PROVE  /\ DOMAIN map \subseteq Occurrences
           /\ \A o \in DOMAIN map : map[o] \in S
           /\ map = [o \in DOMAIN map |-> map[o]]
  <1>1. PICK D \in SUBSET Occurrences : map \in [D -> S]
    BY DEF Maps
  <1>2. QED
    BY <1>1

LEMMA MapOf ==
    ASSUME NEW S, NEW D \in SUBSET Occurrences, NEW map \in [D -> S]
    PROVE  map \in Maps(S)
  BY DEF Maps

LEMMA SetMap ==
    ASSUME NEW S, NEW map \in Maps(S), NEW o \in Occurrences, NEW y \in S
    PROVE  Listing!Set(map, o, y) \in Maps(S)
  <1> DEFINE D == DOMAIN map \cup {o}
             new == [z \in D |-> IF z = o THEN y ELSE map[z]]
  <1>1. D \in SUBSET Occurrences /\ \A q \in DOMAIN map : map[q] \in S
    BY MapIs
  <1>2. new \in [D -> S]
    BY <1>1
  <1>3. new \in Maps(S)
    BY <1>1, <1>2, MapOf
  <1>4. QED
    BY <1>3 DEF Listing!Set

\* An empty map.
LEMMA NothingMaps ==
    ASSUME NEW S
    PROVE  Listing!Nothing \in Maps(S) /\ DOMAIN Listing!Nothing = {}
  <1>1. Listing!Nothing \in [{} -> S] /\ DOMAIN Listing!Nothing = {}
    BY DEF Listing!Nothing
  <1>2. QED
    BY <1>1, MapOf

LEMMA IdleIs ==
    /\ DOMAIN Listing!Idle = ListingFields
    /\ Listing!Idle.at = "idle" /\ Listing!Idle.todo = {}
    /\ Listing!Idle.stamp = Listing!NoContainer
    /\ Listing!Idle.got = Listing!NoContainer
    /\ Listing!Idle.refs = Listing!Nothing
    /\ Listing!Idle.began = [o \in Occurrences |-> Listing!NoContainer]
    /\ Listing!Idle.loaded = FALSE /\ Listing!Idle.dirty = FALSE
    /\ Listing!Idle.entries = Listing!Nothing /\ Listing!Idle.touched = {}
    /\ Listing!Idle.flushed = FALSE /\ Listing!Idle.alone = TRUE
  BY DEF Listing!Idle, ListingFields

LEMMA NoContainerIs ==
    /\ Listing!NoContainer \in ContainerStates
    /\ Listing!NoContainer.transcript = 0 /\ Listing!NoContainer.beside = 0
    /\ \A x \in ContainerStates : NotOlder(x, Listing!NoContainer)
  BY DEF Listing!NoContainer, ContainerStates, NotOlder

LEMMA IdleKeeps ==
    ASSUME Containers
    PROVE  Keeps(Listing!Idle, b, c, f)
  <1>1. Lists(Listing!Idle)
    BY IdleIs, NoContainerIs, NothingMaps DEF Lists
  <1>2. Shows(Listing!Idle)
    BY IdleIs, NothingMaps DEF Shows
  <1>3. Begun(Listing!Idle, b, f)
    BY IdleIs, NoContainerIs DEF Begun, Containers
  <1>4. AtHand(Listing!Idle, b[Least(Listing!Idle.todo)],
               Listing!Idle.began[Least(Listing!Idle.todo)])
    BY IdleIs DEF AtHand
  <1>5. CacheOf(Listing!Idle, c)
    BY IdleIs, NothingMaps DEF CacheOf, Caches
  <1>6. QED
    BY <1>1, <1>2, <1>3, <1>4, <1>5 DEF Keeps

\* One process goes on, and nothing else.
LEMMA ListingGoes ==
    ASSUME ListingInv, NEW p \in Processes, NEW new, Keeps(new, b, c, f),
           d' = [d EXCEPT ![p] = new], UNCHANGED <<a, b, c, f>>
    PROVE  ListingInv'
  <1>1. DOMAIN d' = Processes /\ d'[p] = new /\ \A q \in Processes \ {p} : d'[q] = d[q]
    BY DEF ListingInv
  <1>2. Containers'
    BY DEF ListingInv, Containers, Caches, Kept
  <1>3. ASSUME NEW q \in Processes
        PROVE  Keeps(d[q], b, c, f)' 
    <2>1. Keeps(d'[q], b, c, f)
      BY <1>1 DEF ListingInv
    <2>2. QED
      BY <2>1 DEF Keeps, Lists, Shows, Shown, Begun, AtHand, CacheOf, Caches, Kept
  <1>4. QED
    BY <1>1, <1>2, <1>3 DEF ListingInv

LEMMA ListingStops ==
    ASSUME ListingInv, NEW p \in Processes, Listing!Put(p, Listing!Idle), Listing!Rest
    PROVE  ListingInv'
  <1>1. Keeps(Listing!Idle, b, c, f)
    BY IdleKeeps DEF ListingInv
  <1>2. QED
    BY <1>1, ListingGoes DEF Listing!Put, Listing!Rest

\* What the listing of a process is at, one fact at a time.
LEMMA ListingOf ==
    ASSUME ListingInv, NEW p \in Processes
    PROVE  /\ Containers /\ Keeps(d[p], b, c, f) /\ Lists(d[p]) /\ Shows(d[p])
           /\ Begun(d[p], b, f) /\ CacheOf(d[p], c)
           /\ AtHand(d[p], b[Least(d[p].todo)], d[p].began[Least(d[p].todo)])
  BY DEF ListingInv, Keeps

\* The occurrence at hand is the least that is left.
LEMMA CurrentIs ==
    ASSUME Listing!ConstantsOK, ListingInv, NEW p \in Processes, d[p].todo # {}
    PROVE  /\ Listing!Current(p) = Least(d[p].todo)
           /\ Least(d[p].todo) \in d[p].todo
           /\ Least(d[p].todo) \in Occurrences
           /\ b[Least(d[p].todo)] \in ContainerStates
           /\ d[p].began[Least(d[p].todo)] \in ContainerStates
  <1>1. d[p].todo \in SUBSET Nat /\ d[p].todo \subseteq Occurrences
    BY ListingOf DEF Listing!ConstantsOK, Lists
  <1>2. Least(d[p].todo) \in d[p].todo
    BY <1>1, LeastOf
  <1>3. Listing!Current(p) = Least(d[p].todo)
    BY DEF Listing!Current, Least
  <1>4. Least(d[p].todo) \in Occurrences
    BY <1>1, <1>2
  <1>5. QED
    BY <1>2, <1>3, <1>4, ListingOf DEF Containers, Lists

\* What is taken of an occurrence is listed, and the next one is at hand.
LEMMA TakeFields ==
    ASSUME NEW p, NEW it, DOMAIN it = ListingFields, NEW ref
    PROVE  /\ DOMAIN Listing!Take(p, it, ref) = ListingFields
           /\ Listing!Take(p, it, ref).at = "next"
           /\ Listing!Take(p, it, ref).todo = it.todo \ {Listing!Current(p)}
           /\ Listing!Take(p, it, ref).stamp = Listing!NoContainer
           /\ Listing!Take(p, it, ref).got = Listing!NoContainer
           /\ Listing!Take(p, it, ref).refs =
                 Listing!Set(it.refs, Listing!Current(p), ref)
           /\ Listing!Take(p, it, ref).began = it.began
           /\ Listing!Take(p, it, ref).loaded = it.loaded
           /\ Listing!Take(p, it, ref).dirty = it.dirty
           /\ Listing!Take(p, it, ref).entries = it.entries
           /\ Listing!Take(p, it, ref).touched = it.touched
           /\ Listing!Take(p, it, ref).flushed = it.flushed
           /\ Listing!Take(p, it, ref).alone = it.alone
  BY DEF Listing!Take, ListingFields

\* A listing goes on with an occurrence taken, and its cache.
LEMMA TakeKeeps ==
    ASSUME Containers, NEW it, NEW new, NEW o \in Occurrences, NEW ref \in RefStates,
           Lists(it), Shows(it), Begun(it, b, f), it.at \notin {"idle", "flush"},
           DOMAIN new = ListingFields, new.at = "next", new.todo \subseteq it.todo,
           new.stamp = Listing!NoContainer, new.got = Listing!NoContainer,
           new.refs = Listing!Set(it.refs, o, ref), new.began = it.began,
           ref.parent = 0, 
           Shown(new, o), CacheOf(new, c),
           \A q \in DOMAIN it.entries \ {o} :
              q \in DOMAIN new.entries /\ new.entries[q] = it.entries[q]
    PROVE  Keeps(new, b, c, f)
  <1>1. /\ new.refs \in Maps(RefStates) /\ DOMAIN new.refs = DOMAIN it.refs \cup {o}
        /\ new.refs[o] = ref
        /\ \A q \in DOMAIN it.refs \ {o} : new.refs[q] = it.refs[q]
    <2>1. it.refs \in Maps(RefStates)
      BY DEF Lists
    <2>2. Listing!Set(it.refs, o, ref) \in Maps(RefStates)
      BY <2>1, SetMap
    <2>3. QED
      BY <2>2 DEF Listing!Set
  <1>2. Lists(new)
    BY <1>1, NoContainerIs DEF Lists
  <1>3. Shows(new)
    <2>1. ASSUME NEW q \in DOMAIN new.refs
          PROVE  Shown(new, q) /\ new.refs[q].parent = 0
      <3>1. CASE q = o
        BY <3>1, <1>1
      <3>2. CASE q # o
        <4>1. q \in DOMAIN it.refs /\ new.refs[q] = it.refs[q]
          BY <1>1, <3>2
        <4>2. Shown(it, q) /\ it.refs[q].parent = 0
          BY <4>1 DEF Shows
        <4>3. QED
          BY <4>1, <4>2, <3>2 DEF Shown
      <3>3. QED
        BY <3>1, <3>2
    <2>2. QED
      BY <2>1 DEF Shows
  <1>4. Begun(new, b, f)
    BY NoContainerIs DEF Begun, Containers
  <1>5. AtHand(new, b[Least(new.todo)], new.began[Least(new.todo)])
    BY DEF AtHand
  <1>6. QED
    BY <1>2, <1>3, <1>4, <1>5 DEF Keeps

\* The cache is loaded at the first use, with what the file holds.
LEMMA LoadKeeps ==
    ASSUME Containers, NEW it, Keeps(it, b, c, f), it.at # "idle"
    PROVE  /\ Keeps(Listing!Load(it), b, c, f)
           /\ Listing!Load(it).at = it.at /\ Listing!Load(it).todo = it.todo
           /\ Listing!Load(it).stamp = it.stamp /\ Listing!Load(it).got = it.got
           /\ Listing!Load(it).began = it.began /\ Listing!Load(it).refs = it.refs
           /\ Listing!Load(it).loaded /\ Listing!Load(it).flushed = it.flushed
  <1> DEFINE new == [it EXCEPT !.loaded = TRUE, !.alone = TRUE,
                               !.dirty = (c = Listing!Corrupt),
                               !.entries = IF c = Listing!Corrupt
                                           THEN Listing!Nothing ELSE c]
  <1>1. CASE it.loaded
    BY <1>1 DEF Listing!Load
  <1>2. CASE ~it.loaded
    <2>1. Listing!Load(it) = new
      BY <1>2 DEF Listing!Load
    <2>2. DOMAIN it = ListingFields
      BY DEF Keeps, Lists
    <2>3. /\ DOMAIN new = ListingFields
          /\ new.at = it.at /\ new.todo = it.todo /\ new.stamp = it.stamp
          /\ new.got = it.got /\ new.began = it.began /\ new.refs = it.refs
          /\ new.touched = it.touched /\ new.flushed = it.flushed
      BY <2>2 DEF ListingFields
    <2>4. /\ new.loaded /\ new.alone /\ (~new.dirty => new.entries = c)
          /\ new.entries = (IF c = Listing!Corrupt THEN Listing!Nothing ELSE c)
      BY <2>2 DEF ListingFields
    <2> HIDE DEF new
    <2>5. Lists(new)
      BY <2>3 DEF Keeps, Lists
    <2>6. it.touched = {} /\ DOMAIN it.entries = {} /\ ~it.flushed
      BY <1>2 DEF Keeps, CacheOf
    <2>7. Shows(new)
      BY <2>3, <2>6 DEF Keeps, Shows, Shown
    <2>8. Begun(new, b, f)
      BY <2>3 DEF Keeps, Begun
    <2>9. AtHand(new, b[Least(new.todo)], new.began[Least(new.todo)])
      BY <2>3, <2>4 DEF Keeps, AtHand
    <2>10. Caches(new.entries)
      BY <2>4, NothingMaps DEF Containers, Caches
    <2>11. CacheOf(new, c)
      BY <2>3, <2>4, <2>6, <2>10 DEF CacheOf
    <2>12. QED
      BY <2>1, <2>3, <2>4, <2>5, <2>7, <2>8, <2>9, <2>11 DEF Keeps
  <1>3. QED
    BY <1>1, <1>2

LEMMA StartListingKeeps ==
    ASSUME ListingInv, NEW p \in Processes, Listing!StartListing(p)
    PROVE  ListingInv'
  <1> DEFINE todo == {o \in Occurrences : b[o].transcript # 0}
             new == [Listing!Idle EXCEPT !.at = "next", !.began = b, !.todo = todo]
  <1>1. /\ DOMAIN new = ListingFields
        /\ new.at = "next" /\ new.began = b /\ new.todo = todo
        /\ new.stamp = Listing!NoContainer /\ new.got = Listing!NoContainer
        /\ new.refs = Listing!Nothing /\ ~new.loaded /\ ~new.flushed
        /\ new.entries = Listing!Nothing /\ new.touched = {}
    BY IdleIs DEF ListingFields
  <1>2. d' = [d EXCEPT ![p] = new] /\ UNCHANGED <<a, b, c, f>>
    BY DEF Listing!StartListing, Listing!Put
  <1> HIDE DEF new
  <1>3. Containers
    BY ListingOf
  <1>4. Lists(new)
    BY <1>1, <1>3, NoContainerIs, NothingMaps DEF Lists, Containers
  <1>5. Shows(new)
    BY <1>1, NothingMaps DEF Shows
  <1>6. Begun(new, b, f)
    <2>1. \A o \in Occurrences : Since(b[o], b[o])
      BY <1>3 DEF Containers, Since, NotOlder, ContainerStates
    <2>2. QED
      BY <1>1, <1>3, <2>1, NoContainerIs DEF Begun, Containers
  <1>7. AtHand(new, b[Least(new.todo)], new.began[Least(new.todo)])
    BY <1>1 DEF AtHand
  <1>8. CacheOf(new, c)
    BY <1>1, NothingMaps DEF CacheOf, Caches
  <1>9. Keeps(new, b, c, f)
    BY <1>4, <1>5, <1>6, <1>7, <1>8 DEF Keeps
  <1>10. QED
    BY <1>2, <1>9, ListingGoes

LEMMA StampTranscriptKeeps ==
    ASSUME Listing!ConstantsOK, ListingInv, NEW p \in Processes,
           Listing!StampTranscript(p)
    PROVE  ListingInv'
  <1> DEFINE o == Least(d[p].todo)
             now == b[o].transcript
             new == [d[p] EXCEPT !.at = "beside", !.stamp.transcript = now]
  <1>1. d[p].at = "next" /\ d[p].todo # {}
    BY DEF Listing!StampTranscript
  <1>2. /\ Listing!Current(p) = o /\ o \in Occurrences
        /\ b[o] \in ContainerStates /\ d[p].began[o] \in ContainerStates
    BY <1>1, CurrentIs
  <1>3. CASE now = 0 /\ a = "omp"
    BY <1>2, <1>3, ListingStops DEF Listing!StampTranscript
  <1>4. CASE ~(now = 0 /\ a = "omp")
    <2>1. Listing!Put(p, new) /\ Listing!Rest
      BY <1>2, <1>4 DEF Listing!StampTranscript
    <2>2. /\ Lists(d[p]) /\ Shows(d[p]) /\ Begun(d[p], b, f) /\ CacheOf(d[p], c)
          /\ Containers
      BY ListingOf
    <2>3. DOMAIN d[p] = ListingFields /\ d[p].stamp \in ContainerStates
      BY <2>2 DEF Lists
    <2>4. /\ DOMAIN new = ListingFields /\ new.at = "beside"
          /\ new.stamp = [d[p].stamp EXCEPT !.transcript = now]
          /\ new.todo = d[p].todo /\ new.got = d[p].got /\ new.refs = d[p].refs
          /\ new.began = d[p].began /\ new.loaded = d[p].loaded
          /\ new.dirty = d[p].dirty /\ new.entries = d[p].entries
          /\ new.touched = d[p].touched /\ new.flushed = d[p].flushed
          /\ new.alone = d[p].alone
      BY <2>3 DEF ListingFields
    <2>5. /\ new.stamp \in ContainerStates
          /\ new.stamp.transcript = now /\ new.stamp.beside = 0
      BY <1>1, <1>2, <2>2, <2>4, NoContainerIs DEF ContainerStates, Lists
    <2> HIDE DEF new
    <2>6. Lists(new)
      BY <2>2, <2>4, <2>5 DEF Lists
    <2>7. Shows(new)
      BY <1>1, <2>2, <2>4 DEF Shows, Shown
    <2>8. Begun(new, b, f)
      BY <1>1, <1>2, <2>2, <2>4, <2>5 DEF Begun, NotOlder, Containers
    <2>9. CacheOf(new, c)
      BY <1>1, <2>2, <2>4 DEF CacheOf
    <2>10. AtHand(new, b[o], new.began[o])
      <3>1. Since(b[o], d[p].began[o]) /\ NotOlder(f, d[p].stamp)
        BY <1>1, <1>2, <2>2 DEF Begun
      <3>2. Since(b[o], new.stamp)
        BY <1>2, <2>5 DEF Since, NotOlder, ContainerStates
      <3>3. QED
        BY <1>1, <1>2, <1>4, <2>4, <2>5, <3>1, <3>2 DEF AtHand, Since, NotOlder
    <2>11. Keeps(new, b, c, f)
      BY <2>4, <2>6, <2>7, <2>8, <2>9, <2>10 DEF Keeps
    <2>12. QED
      BY <2>1, <2>11, ListingGoes DEF Listing!Put, Listing!Rest
  <1>5. QED
    BY <1>3, <1>4

\* What an occurrence shows is not older than the listing, if it is not older
\* than what was stamped: or it was stamped as absent.
LEMMA FoundShows ==
    ASSUME NEW entry \in EntryStates, NEW stamp, NEW began, Kept(entry), entry.stamp = stamp,
           stamp \in ContainerStates, began \in ContainerStates,
           stamp.transcript = 0 \/ stamp.transcript >= began.transcript,
           stamp.beside >= began.beside
    PROVE  \/ NotOlder(entry.ref.read, began)
           \/ a = "claude" /\ entry.stamp.transcript = 0
  BY DEF Kept, NotOlder, EntryStates, RefStates, ContainerStates

LEMMA StampBesideKeeps ==
    ASSUME Listing!ConstantsOK, ListingInv, NEW p \in Processes,
           Listing!StampBeside(p)
    PROVE  ListingInv'
  <1> DEFINE o == Least(d[p].todo)
             stamp == [d[p].stamp EXCEPT !.beside = b[o].beside]
             it == IF a = "codex" /\ stamp.transcript = 0 THEN d[p]
                   ELSE Listing!Load(d[p])
             hit == o \in DOMAIN it.entries /\ it.entries[o].stamp = stamp
             got == IF a = "omp"
                    THEN [Listing!NoContainer EXCEPT !.transcript = b[o].transcript]
                    ELSE Listing!NoContainer
             found == [Listing!Take(p, it, it.entries[o].ref)
                          EXCEPT !.touched = @ \cup {o}]
             missed == [it EXCEPT !.at = IF a = "codex" THEN "read transcript"
                                         ELSE "read beside",
                                  !.stamp = stamp, !.got = got]
  <1>1. d[p].at = "beside"
    BY DEF Listing!StampBeside
  <1>2. /\ Containers /\ Keeps(d[p], b, c, f) /\ Lists(d[p]) /\ Begun(d[p], b, f)
        /\ AtHand(d[p], b[o], d[p].began[o])
    BY ListingOf
  <1>3. d[p].todo # {}
    BY <1>1, <1>2 DEF AtHand
  <1>4. /\ Listing!Current(p) = o /\ o \in Occurrences
        /\ b[o] \in ContainerStates /\ d[p].began[o] \in ContainerStates
    BY <1>3, CurrentIs
  <1>5. /\ Since(b[o], d[p].began[o]) /\ Since(b[o], d[p].stamp)
        /\ d[p].stamp.transcript = 0 \/ d[p].stamp.transcript >= d[p].began[o].transcript
        /\ a = "omp" => d[p].stamp.transcript # 0
    BY <1>1, <1>2, <1>4 DEF AtHand, Begun
  <1>6. /\ stamp \in ContainerStates
        /\ stamp.transcript = d[p].stamp.transcript /\ stamp.beside = b[o].beside
    BY <1>2, <1>4 DEF Lists, ContainerStates
  <1>7. /\ IF hit THEN Listing!Put(p, found) ELSE Listing!Put(p, missed)
        /\ Listing!Rest
    BY <1>4 DEF Listing!StampBeside
  <1>8. /\ Keeps(it, b, c, f)
        /\ it.at = "beside" /\ it.todo = d[p].todo /\ it.stamp = d[p].stamp
        /\ it.began = d[p].began /\ it.refs = d[p].refs /\ it.flushed = d[p].flushed
        /\ it.loaded \/ (a = "codex" /\ stamp.transcript = 0)
    <2>1. CASE a = "codex" /\ stamp.transcript = 0
      <3>1. it = d[p]
        BY <2>1
      <3>2. QED
        BY <1>1, <1>2, <2>1, <3>1
    <2>2. CASE ~(a = "codex" /\ stamp.transcript = 0)
      <3>1. it = Listing!Load(d[p])
        BY <2>2
      <3>2. d[p].at # "idle"
        BY <1>1
      <3> HIDE DEF it
      <3>3. /\ Keeps(Listing!Load(d[p]), b, c, f)
            /\ Listing!Load(d[p]).at = d[p].at
            /\ Listing!Load(d[p]).todo = d[p].todo
            /\ Listing!Load(d[p]).stamp = d[p].stamp
            /\ Listing!Load(d[p]).began = d[p].began
            /\ Listing!Load(d[p]).refs = d[p].refs
            /\ Listing!Load(d[p]).flushed = d[p].flushed
            /\ Listing!Load(d[p]).loaded
        BY <1>2, <3>2, LoadKeeps
      <3>4. QED
        BY <1>1, <3>1, <3>3
    <2>3. QED
      BY <2>1, <2>2
  <1> HIDE DEF stamp, it
  <1>9. /\ Lists(it) /\ Shows(it) /\ Begun(it, b, f) /\ CacheOf(it, c)
        /\ DOMAIN it = ListingFields
    BY <1>8 DEF Keeps, Lists
  <1>10. stamp.beside >= d[p].began[o].beside /\ Since(b[o], stamp) /\ NotOlder(f, stamp)
    BY <1>2, <1>4, <1>5, <1>6 DEF Since, NotOlder, Begun, Containers, ContainerStates
  <1>11. CASE hit
    <2> DEFINE ref == it.entries[o].ref
    <2>1. it.entries[o] \in EntryStates /\ Kept(it.entries[o]) /\ it.entries[o].stamp = stamp
      BY <1>9, <1>11, MapIs DEF CacheOf, Caches
    <2>2. ref \in RefStates /\ ref.parent = 0
      BY <2>1 DEF EntryStates, Kept
    <2>3. /\ DOMAIN found = ListingFields /\ found.at = "next"
          /\ found.todo = it.todo \ {o}
          /\ found.stamp = Listing!NoContainer /\ found.got = Listing!NoContainer
          /\ found.refs = Listing!Set(it.refs, o, ref)
          /\ found.began = it.began /\ found.loaded = it.loaded
          /\ found.dirty = it.dirty /\ found.entries = it.entries
          /\ found.touched = it.touched \cup {o}
          /\ found.flushed = it.flushed /\ found.alone = it.alone
      BY <1>4, <1>9, TakeFields DEF ListingFields
    <2>4. Listing!Put(p, found)
      BY <1>7, <1>11
    <2> HIDE DEF found
    <2>5. CacheOf(found, c)
      BY <1>8, <1>9, <1>11, <2>3, <1>1 DEF CacheOf
    <2>6. found.refs[o] = ref
      BY <2>3 DEF Listing!Set
    <2>7. Shown(found, o)
      BY <1>4, <1>5, <1>6, <1>8, <1>10, <1>11, <2>1, <2>3, <2>6, FoundShows DEF Shown
    <2>8. Keeps(found, b, c, f)
      BY <1>2, <1>4, <1>8, <1>9, <2>2, <2>3, <2>5, <2>7, TakeKeeps
    <2>9. QED
      BY <1>7, <2>4, <2>8, ListingGoes DEF Listing!Put, Listing!Rest
  <1>12. CASE ~hit
    <2>1. Listing!Put(p, missed)
      BY <1>7, <1>12
    <2>2. /\ DOMAIN missed = ListingFields
          /\ missed.at = IF a = "codex" THEN "read transcript" ELSE "read beside"
          /\ missed.stamp = stamp /\ missed.got = got
          /\ missed.todo = it.todo /\ missed.refs = it.refs
          /\ missed.began = it.began /\ missed.loaded = it.loaded
          /\ missed.dirty = it.dirty /\ missed.entries = it.entries
          /\ missed.touched = it.touched /\ missed.flushed = it.flushed
          /\ missed.alone = it.alone
      BY <1>9 DEF ListingFields
    <2>3. got \in ContainerStates /\ got.beside = 0
      BY <1>4, NoContainerIs DEF ContainerStates
    <2> HIDE DEF missed, got
    <2>4. /\ missed.at \in {"read beside", "read transcript"}
          /\ missed.at = "read transcript" => a = "codex"
      BY <2>2
    <2>5. Lists(missed)
      BY <1>6, <1>9, <2>2, <2>3, <2>4 DEF Lists
    <2>6. Shows(missed)
      BY <1>8, <1>9, <2>2, <2>4 DEF Shows, Shown
    <2>7. Begun(missed, b, f)
      BY <1>8, <1>9, <1>10, <2>2 DEF Begun
    <2>8. CacheOf(missed, c)
      BY <1>8, <1>9, <2>2, <2>4 DEF CacheOf
    <2>9. AtHand(missed, b[o], missed.began[o])
      <3>1. a = "codex" => b[o].beside = 0
        BY <1>2, <1>4 DEF Containers
      <3>2. a = "codex" => d[p].began[o].beside = 0 /\ stamp.beside = 0
        BY <1>4, <1>6, <1>10, <3>1 DEF ContainerStates
      <3>3. QED
        BY <1>3, <1>4, <1>5, <1>6, <1>8, <1>10, <2>2, <2>3, <2>4, <3>2 DEF AtHand
    <2>10. Keeps(missed, b, c, f)
      BY <1>8, <2>2, <2>5, <2>6, <2>7, <2>8, <2>9 DEF Keeps
    <2>11. QED
      BY <1>7, <2>1, <2>10, ListingGoes DEF Listing!Put, Listing!Rest
  <1>13. QED
    BY <1>11, <1>12

LEMMA ReadBesideKeeps ==
    ASSUME Listing!ConstantsOK, ListingInv, NEW p \in Processes,
           Listing!ReadBeside(p)
    PROVE  ListingInv'
  <1> DEFINE o == Least(d[p].todo)
             got == [d[p].got EXCEPT !.beside = b[o].beside]
             new == [d[p] EXCEPT !.at = "read transcript", !.got.beside = b[o].beside]
  <1>1. d[p].at = "read beside"
    BY DEF Listing!ReadBeside
  <1>2. /\ Containers /\ Lists(d[p]) /\ Shows(d[p]) /\ Begun(d[p], b, f)
        /\ CacheOf(d[p], c) /\ AtHand(d[p], b[o], d[p].began[o])
    BY ListingOf
  <1>3. d[p].todo # {}
    BY <1>1, <1>2 DEF AtHand
  <1>4. /\ Listing!Current(p) = o /\ o \in Occurrences
        /\ b[o] \in ContainerStates /\ d[p].began[o] \in ContainerStates
    BY <1>3, CurrentIs
  <1>5. Listing!Put(p, new) /\ Listing!Rest
    BY <1>4 DEF Listing!ReadBeside
  <1>6. got \in ContainerStates /\ got.beside = b[o].beside
    BY <1>2, <1>4 DEF Lists, ContainerStates
  <1>7. /\ DOMAIN new = ListingFields /\ new.at = "read transcript" /\ new.got = got
        /\ new.stamp = d[p].stamp /\ new.todo = d[p].todo /\ new.refs = d[p].refs
        /\ new.began = d[p].began /\ new.loaded = d[p].loaded
        /\ new.dirty = d[p].dirty /\ new.entries = d[p].entries
        /\ new.touched = d[p].touched /\ new.flushed = d[p].flushed
        /\ new.alone = d[p].alone
    BY <1>2 DEF Lists, ListingFields
  <1> HIDE DEF new, got
  <1>8. Lists(new)
    BY <1>2, <1>6, <1>7 DEF Lists
  <1>9. Shows(new)
    BY <1>1, <1>2, <1>7 DEF Shows, Shown
  <1>10. Begun(new, b, f)
    BY <1>1, <1>2, <1>7 DEF Begun
  <1>11. CacheOf(new, c)
    BY <1>1, <1>2, <1>7 DEF CacheOf
  <1>12. AtHand(new, b[o], new.began[o])
    <2>1. Since(b[o], d[p].began[o]) /\ Since(b[o], d[p].stamp)
      BY <1>1, <1>2, <1>4 DEF Begun, AtHand
    <2>2. got.beside >= d[p].began[o].beside /\ got.beside >= d[p].stamp.beside
      BY <1>6, <2>1 DEF Since, NotOlder
    <2>3. QED
      BY <1>1, <1>2, <1>7, <2>2 DEF AtHand
  <1>13. Keeps(new, b, c, f)
    BY <1>7, <1>8, <1>9, <1>10, <1>11, <1>12 DEF Keeps
  <1>14. QED
    BY <1>5, <1>13, ListingGoes DEF Listing!Put, Listing!Rest

\* What is read is kept under the stamp taken before.
LEMMA RetainedFields ==
    ASSUME NEW it, DOMAIN it = ListingFields, NEW o, NEW ref
    PROVE  /\ DOMAIN Listing!Retained(it, o, ref) = ListingFields
           /\ Listing!Retained(it, o, ref).entries =
                 Listing!Set(it.entries, o, [stamp |-> it.stamp, ref |-> ref])
           /\ Listing!Retained(it, o, ref).touched = it.touched \cup {o}
           /\ Listing!Retained(it, o, ref).dirty
           /\ Listing!Retained(it, o, ref).refs = it.refs
           /\ Listing!Retained(it, o, ref).at = it.at
           /\ Listing!Retained(it, o, ref).todo = it.todo
           /\ Listing!Retained(it, o, ref).began = it.began
           /\ Listing!Retained(it, o, ref).loaded = it.loaded
           /\ Listing!Retained(it, o, ref).flushed = it.flushed
           /\ Listing!Retained(it, o, ref).alone = it.alone
  BY DEF Listing!Retained, ListingFields

LEMMA SetCaches ==
    ASSUME NEW map, Caches(map), NEW o \in Occurrences, NEW entry \in EntryStates,
           Kept(entry)
    PROVE  /\ Caches(Listing!Set(map, o, entry))
           /\ DOMAIN Listing!Set(map, o, entry) = DOMAIN map \cup {o}
           /\ \A q \in DOMAIN map \ {o} : Listing!Set(map, o, entry)[q] = map[q]
  <1>1. map \in Maps(EntryStates)
    BY DEF Caches
  <1>2. Listing!Set(map, o, entry) \in Maps(EntryStates)
    BY <1>1, SetMap
  <1>3. QED
    BY <1>2 DEF Caches, Listing!Set

LEMMA ReadTranscriptKeeps ==
    ASSUME Listing!ConstantsOK, ListingInv, NEW p \in Processes,
           Listing!ReadTranscript(p)
    PROVE  ListingInv'
  <1> DEFINE o == Least(d[p].todo)
             now == b[o].transcript
             read == [transcript |-> now, beside |-> d[p].got.beside]
             ref == [read |-> read, parent |-> 0]
             keeps == CASE a = "omp" -> d[p].got = d[p].stamp
                        [] a = "codex" -> d[p].stamp.transcript # 0
                        [] OTHER -> TRUE
             it == IF keeps THEN Listing!Retained(d[p], o, ref) ELSE d[p]
             new == Listing!Take(p, it, ref)
  <1>1. d[p].at = "read transcript"
    BY DEF Listing!ReadTranscript
  <1>2. /\ Containers /\ Lists(d[p]) /\ Shows(d[p]) /\ Begun(d[p], b, f)
        /\ CacheOf(d[p], c) /\ AtHand(d[p], b[o], d[p].began[o])
        /\ DOMAIN d[p] = ListingFields
    BY ListingOf DEF Lists
  <1>3. d[p].todo # {}
    BY <1>1, <1>2 DEF AtHand
  <1>4. /\ Listing!Current(p) = o /\ o \in Occurrences
        /\ b[o] \in ContainerStates /\ d[p].began[o] \in ContainerStates
    BY <1>3, CurrentIs
  <1>5. Listing!Put(p, IF now = 0 THEN Listing!Idle ELSE new) /\ Listing!Rest
    BY <1>4 DEF Listing!ReadTranscript
  <1>6. CASE now = 0
    <2>1. Listing!Put(p, Listing!Idle)
      BY <1>5, <1>6
    <2>2. QED
      BY <1>5, <2>1, ListingStops
  <1>7. CASE now # 0
    <2>1. d[p].got \in ContainerStates /\ d[p].stamp \in ContainerStates
      BY <1>2 DEF Lists
    <2>2. read \in ContainerStates /\ ref \in RefStates /\ ref.parent = 0 /\ ref.read = read
      BY <1>4, <2>1 DEF ContainerStates, RefStates
    <2>3. NotOlder(b[o], d[p].began[o]) /\ NotOlder(b[o], d[p].stamp)
      BY <1>1, <1>2, <1>4, <1>7 DEF Begun, AtHand, Since
    <2>4. NotOlder(read, d[p].began[o]) /\ NotOlder(read, d[p].stamp)
      BY <1>1, <1>2, <2>3 DEF NotOlder, AtHand
    <2> HIDE DEF ref, read
    <2>5. /\ DOMAIN it = ListingFields
          /\ it.todo = d[p].todo /\ it.began = d[p].began /\ it.refs = d[p].refs
          /\ it.loaded = d[p].loaded /\ it.flushed = d[p].flushed
          /\ it.alone = d[p].alone /\ it.at = d[p].at
      <3>1. CASE ~keeps
        BY <1>2, <3>1
      <3>2. CASE keeps
        <4>1. it = Listing!Retained(d[p], o, ref)
          BY <3>2
        <4> HIDE DEF it
        <4> DEFINE new1 == Listing!Retained(d[p], o, ref)
        <4>2. /\ DOMAIN new1 = ListingFields
              /\ new1.todo = d[p].todo /\ new1.began = d[p].began
              /\ new1.refs = d[p].refs /\ new1.loaded = d[p].loaded
              /\ new1.flushed = d[p].flushed /\ new1.alone = d[p].alone
              /\ new1.at = d[p].at
          BY <1>2 DEF Listing!Retained, ListingFields
        <4>3. QED
          BY <4>1, <4>2
      <3>3. QED
        BY <3>1, <3>2
    <2>6. /\ CacheOf(it, c)
          /\ \A q \in DOMAIN d[p].entries \ {o} :
                q \in DOMAIN it.entries /\ it.entries[q] = d[p].entries[q]
      <3>1. CASE ~keeps
        BY <1>2, <3>1
      <3>2. CASE keeps
        <4> DEFINE entry == [stamp |-> d[p].stamp, ref |-> ref]
        <4>1. it = Listing!Retained(d[p], o, ref)
          BY <3>2
        <4>2. a # "claude" => d[p].stamp.transcript # 0
          BY <1>1, <1>2, <3>2 DEF AtHand, Containers, Harnesses
        <4>3. entry \in EntryStates /\ Kept(entry)
          BY <2>1, <2>2, <2>4, <4>2 DEF EntryStates, Kept
        <4> DEFINE new1 == Listing!Retained(d[p], o, ref)
        <4>10. /\ new1.entries = Listing!Set(d[p].entries, o, entry)
               /\ new1.touched = d[p].touched \cup {o} /\ new1.dirty
          BY <1>2, RetainedFields
        <4> HIDE DEF entry, it, new1
        <4>4. /\ it.entries = Listing!Set(d[p].entries, o, entry)
              /\ it.touched = d[p].touched \cup {o} /\ it.dirty
          <5>1. it = new1
            BY <4>1 DEF new1
          <5>2. QED
            BY <5>1, <4>10
        <4>5. Caches(d[p].entries)
          BY <1>2 DEF CacheOf
        <4>6. /\ Caches(Listing!Set(d[p].entries, o, entry))
              /\ DOMAIN Listing!Set(d[p].entries, o, entry) =
                    DOMAIN d[p].entries \cup {o}
              /\ \A q \in DOMAIN d[p].entries \ {o} :
                    Listing!Set(d[p].entries, o, entry)[q] = d[p].entries[q]
          BY <1>4, <4>3, <4>5, SetCaches
        <4>7. d[p].loaded
          BY <1>1, <1>2, <3>2 DEF AtHand
        <4>8. CacheOf(it, c)
          BY <1>1, <1>2, <2>5, <4>4, <4>6, <4>7 DEF CacheOf
        <4>9. QED
          BY <4>4, <4>6, <4>8
      <3>3. QED
        BY <3>1, <3>2
    <2> HIDE DEF it
    <2>7. /\ DOMAIN new = ListingFields /\ new.at = "next"
          /\ new.todo = d[p].todo \ {o}
          /\ new.stamp = Listing!NoContainer /\ new.got = Listing!NoContainer
          /\ new.refs = Listing!Set(d[p].refs, o, ref)
          /\ new.began = d[p].began /\ new.loaded = it.loaded
          /\ new.dirty = it.dirty /\ new.entries = it.entries
          /\ new.touched = it.touched
          /\ new.flushed = it.flushed /\ new.alone = it.alone
      BY <1>4, <2>5, TakeFields
    <2>8. Listing!Put(p, new)
      BY <1>5, <1>7
    <2> HIDE DEF new
    <2>9. CacheOf(new, c)
      BY <1>1, <1>2, <2>5, <2>6, <2>7 DEF CacheOf
    <2>10. new.refs[o] = ref
      BY <2>7 DEF Listing!Set
    <2>11. Shown(new, o)
      BY <2>2, <2>4, <2>7, <2>10 DEF Shown
    <2>12. Keeps(new, b, c, f)
      <3>1. d[p].at \notin {"idle", "flush"} /\ new.todo \subseteq d[p].todo
        BY <1>1, <2>7
      <3>2. \A q \in DOMAIN d[p].entries \ {o} :
               q \in DOMAIN new.entries /\ new.entries[q] = d[p].entries[q]
        BY <2>6, <2>7
      <3>3. QED
        BY <1>2, <1>4, <2>2, <2>7, <2>9, <2>11, <3>1, <3>2, TakeKeeps
    <2>13. QED
      BY <1>5, <2>8, <2>12, ListingGoes DEF Listing!Put, Listing!Rest
  <1>8. QED
    BY <1>6, <1>7

\* Relationships are resolved in the records that are listed, and only there.
LEMMA ResolveIs ==
    ASSUME Listing!ConstantsOK, NEW map \in Maps(RefStates),
           \A o \in DOMAIN map : map[o].parent = 0
    PROVE  /\ Listing!Resolve(map) \in Maps(RefStates)
           /\ DOMAIN Listing!Resolve(map) = DOMAIN map
           /\ \A o \in DOMAIN map : Listing!Resolve(map)[o].read = map[o].read
           /\ [o \in DOMAIN Listing!Resolve(map) |->
                  [Listing!Resolve(map)[o] EXCEPT !.parent = 0]] = map
  <1> DEFINE linked(o) == [map[o] EXCEPT !.parent = map[ParentOf[o]].read.transcript]
             value(o) == IF map[o].parent = 0 /\ ParentOf[o] \in DOMAIN map /\ ParentOf[o] # o
                         THEN linked(o) ELSE map[o]
             new == [o \in DOMAIN map |-> value(o)]
  <1>1. /\ DOMAIN map \in SUBSET Occurrences
        /\ \A o \in DOMAIN map : map[o] \in RefStates
        /\ map = [o \in DOMAIN map |-> map[o]]
    BY MapIs
  <1>2. Listing!Resolve(map) = new
    BY DEF Listing!Resolve
  <1>3. ASSUME NEW o \in DOMAIN map
        PROVE  /\ value(o) \in RefStates /\ value(o).read = map[o].read
               /\ [value(o) EXCEPT !.parent = 0] = map[o]
    <2>1. map[o] \in RefStates /\ map[o].parent = 0
      BY <1>1
    <2>2. CASE ParentOf[o] \in DOMAIN map /\ ParentOf[o] # o
      <3>1. map[ParentOf[o]] \in RefStates
        BY <1>1, <2>2
      <3>2. map[ParentOf[o]].read.transcript \in Nat
        BY <3>1 DEF RefStates, ContainerStates
      <3>3. value(o) = linked(o)
        BY <2>1, <2>2
      <3>4. linked(o) \in RefStates /\ linked(o).read = map[o].read
            /\ [linked(o) EXCEPT !.parent = 0] = map[o]
        BY <2>1, <3>2 DEF RefStates
      <3>5. QED
        BY <3>3, <3>4
    <2>3. CASE ~(ParentOf[o] \in DOMAIN map /\ ParentOf[o] # o)
      <3>1. value(o) = map[o]
        BY <2>3
      <3>2. [map[o] EXCEPT !.parent = 0] = map[o]
        BY <2>1 DEF RefStates
      <3>3. QED
        BY <2>1, <3>1, <3>2
    <2>4. QED
      BY <2>2, <2>3
  <1> HIDE DEF value
  <1>4. new \in [DOMAIN map -> RefStates]
    BY <1>3
  <1>5. new \in Maps(RefStates)
    BY <1>1, <1>4, MapOf
  <1>6. [o \in DOMAIN new |-> [new[o] EXCEPT !.parent = 0]] = [o \in DOMAIN map |-> map[o]]
    BY <1>3
  <1>7. QED
    BY <1>1, <1>2, <1>3, <1>5, <1>6

LEMMA EndListingKeeps ==
    ASSUME Listing!ConstantsOK, ListingInv, NEW p \in Processes,
           Listing!EndListing(p)
    PROVE  ListingInv'
  <1> DEFINE old == d[p].refs
             refs == IF a = "omp" THEN Listing!Resolve(old) ELSE old
             new == [d[p] EXCEPT !.at = "flush", !.refs = refs,
                                 !.entries = Listing!Cloned(@, refs)]
  <1>1. d[p].at = "next" /\ Listing!Put(p, new) /\ Listing!Rest
    BY DEF Listing!EndListing
  <1>2. /\ Containers /\ Lists(d[p]) /\ Shows(d[p]) /\ Begun(d[p], b, f)
        /\ CacheOf(d[p], c) /\ DOMAIN d[p] = ListingFields
    BY ListingOf DEF Lists
  <1>3. old \in Maps(RefStates) /\ \A o \in DOMAIN old : old[o].parent = 0
    BY <1>1, <1>2 DEF Lists, Shows
  <1>4. /\ Listing!Resolve(old) \in Maps(RefStates)
        /\ DOMAIN Listing!Resolve(old) = DOMAIN old
        /\ \A o \in DOMAIN old : Listing!Resolve(old)[o].read = old[o].read
        /\ [o \in DOMAIN Listing!Resolve(old) |->
               [Listing!Resolve(old)[o] EXCEPT !.parent = 0]] = old
    BY <1>3, ResolveIs
  <1>5. /\ refs \in Maps(RefStates) /\ DOMAIN refs = DOMAIN old
        /\ \A o \in DOMAIN old : refs[o].read = old[o].read
    BY <1>3, <1>4
  <1>6. a = "omp" => refs = Listing!Resolve([o \in DOMAIN refs |->
                                                [refs[o] EXCEPT !.parent = 0]])
    BY <1>4
  <1> HIDE DEF refs
  <1>7. /\ DOMAIN new = ListingFields /\ new.at = "flush" /\ new.refs = refs
        /\ new.entries = d[p].entries /\ new.todo = d[p].todo
        /\ new.stamp = d[p].stamp /\ new.got = d[p].got
        /\ new.began = d[p].began /\ new.loaded = d[p].loaded
        /\ new.dirty = d[p].dirty /\ new.touched = d[p].touched
        /\ new.flushed = d[p].flushed /\ new.alone = d[p].alone
    BY <1>2 DEF ListingFields, Listing!Cloned
  <1> HIDE DEF new
  <1>8. Lists(new)
    BY <1>2, <1>5, <1>7 DEF Lists
  <1>9. Shows(new)
    <2>1. ASSUME NEW o \in DOMAIN new.refs PROVE Shown(new, o)
      <3>1. Shown(d[p], o) /\ new.refs[o].read = old[o].read
        BY <1>2, <1>5, <1>7 DEF Shows
      <3>2. QED
        BY <1>7, <3>1 DEF Shown
    <2>2. QED
      BY <1>6, <1>7, <2>1 DEF Shows
  <1>10. Begun(new, b, f)
    BY <1>1, <1>2, <1>7 DEF Begun
  <1>11. AtHand(new, b[Least(new.todo)], new.began[Least(new.todo)])
    BY <1>7 DEF AtHand
  <1>12. CacheOf(new, c)
    BY <1>1, <1>2, <1>7 DEF CacheOf
  <1>13. Keeps(new, b, c, f)
    BY <1>8, <1>9, <1>10, <1>11, <1>12 DEF Keeps
  <1>14. QED
    BY <1>1, <1>13, ListingGoes DEF Listing!Put, Listing!Rest

\* A harness that changes or removes a container makes nothing newer that was
\* stamped or listed.
LEMMA HarnessKeeps ==
    ASSUME ListingInv, UNCHANGED <<a, c, d>>, Containers', Listing!ConstantsOK,
           NotOlder(f', f),
           \A o \in Occurrences : \A x \in ContainerStates :
              NotOlder(f, x) /\ Since(b[o], x) => Since(b'[o], x)
    PROVE  ListingInv'
  <1>1. ASSUME NEW p \in Processes
        PROVE  Keeps(d[p], b, c, f)'
    <2>1. /\ Containers /\ Lists(d[p]) /\ Shows(d[p]) /\ Begun(d[p], b, f)
          /\ CacheOf(d[p], c)
          /\ AtHand(d[p], b[Least(d[p].todo)], d[p].began[Least(d[p].todo)])
      BY ListingOf
    <2>2. /\ d[p].stamp \in ContainerStates /\ f \in ContainerStates
          /\ f' \in ContainerStates
          /\ \A o \in Occurrences : d[p].began[o] \in ContainerStates
      BY <2>1 DEF Lists, Containers
    <2>3. \A x \in ContainerStates : NotOlder(f, x) => NotOlder(f', x)
      BY <2>2 DEF NotOlder, ContainerStates
    <2>4. Begun(d[p], b', f')
      BY <2>1, <2>2, <2>3 DEF Begun
    <2>5. AtHand(d[p], b'[Least(d[p].todo)], d[p].began[Least(d[p].todo)])
      <3>1. CASE d[p].todo = {}
        BY <2>1, <3>1 DEF AtHand
      <3>2. CASE d[p].todo # {}
        <4>1. Least(d[p].todo) \in Occurrences
          BY <3>2, CurrentIs
        <4>2. QED
          BY <2>1, <2>2, <4>1 DEF AtHand, Begun
      <3>3. QED
        BY <3>1, <3>2
    <2>6. QED
      BY <2>1, <2>4, <2>5 DEF Keeps, Lists, Shows, Shown, Begun, AtHand, CacheOf,
         Caches, Kept
  <1>2. QED
    BY <1>1 DEF ListingInv

LEMMA ChangeContainerKeeps ==
    ASSUME Listing!ConstantsOK, ListingInv, NEW o \in Occurrences,
           Listing!ChangeContainer(o)
    PROVE  ListingInv'
  <1>1. /\ Containers /\ UNCHANGED <<a, c, d>>
        /\ f \in ContainerStates /\ b \in [Occurrences -> ContainerStates]
        /\ \A q \in Occurrences : NotOlder(f, b[q]) /\ (a = "codex" => b[q].beside = 0)
    BY DEF ListingInv, Containers, Listing!ChangeContainer
  <1>2. /\ b[o] \in ContainerStates /\ b[o].transcript \in Nat /\ b[o].beside \in Nat
        /\ f.transcript \in Nat /\ f.beside \in Nat
    BY <1>1 DEF ContainerStates
  <1>3. PICK k \in (IF a = "codex" THEN {"transcript"} ELSE {"transcript", "beside"}) :
           /\ f' = [f EXCEPT ![k] = @ + 1]
           /\ b' = [b EXCEPT ![o][k] = f[k] + 1]
    BY DEF Listing!ChangeContainer
  <1>4. CASE k = "transcript"
    <2>1. f' = [f EXCEPT !.transcript = f.transcript + 1]
      BY <1>3, <1>4
    <2>2. b' = [b EXCEPT ![o] = [b[o] EXCEPT !.transcript = f.transcript + 1]]
      BY <1>3, <1>4
    <2>3. /\ f' \in ContainerStates /\ f'.transcript = f.transcript + 1
          /\ f'.beside = f.beside
      BY <1>1, <1>2, <2>1 DEF ContainerStates
    <2>4. /\ b' \in [Occurrences -> ContainerStates]
          /\ b'[o].transcript = f.transcript + 1 /\ b'[o].beside = b[o].beside
          /\ \A q \in Occurrences \ {o} : b'[q] = b[q]
      BY <1>1, <1>2, <2>2 DEF ContainerStates
    <2>5. Containers'
      BY <1>1, <1>2, <2>3, <2>4 DEF Containers, NotOlder, ContainerStates, Caches, Kept
    <2>6. \A q \in Occurrences : \A x \in ContainerStates :
             NotOlder(f, x) /\ Since(b[q], x) => Since(b'[q], x)
      BY <1>2, <2>4 DEF NotOlder, Since, ContainerStates
    <2>7. NotOlder(f', f)
      BY <1>2, <2>3 DEF NotOlder
    <2>8. QED
      BY <1>1, <2>5, <2>6, <2>7, HarnessKeeps
  <1>5. CASE k = "beside"
    <2>1. f' = [f EXCEPT !.beside = f.beside + 1] /\ a # "codex"
      BY <1>3, <1>5
    <2>2. b' = [b EXCEPT ![o] = [b[o] EXCEPT !.beside = f.beside + 1]]
      BY <1>3, <1>5
    <2>3. /\ f' \in ContainerStates /\ f'.transcript = f.transcript
          /\ f'.beside = f.beside + 1
      BY <1>1, <1>2, <2>1 DEF ContainerStates
    <2>4. /\ b' \in [Occurrences -> ContainerStates]
          /\ b'[o].transcript = b[o].transcript /\ b'[o].beside = f.beside + 1
          /\ \A q \in Occurrences \ {o} : b'[q] = b[q]
      BY <1>1, <1>2, <2>2 DEF ContainerStates
    <2>5. Containers'
      BY <1>1, <1>2, <2>1, <2>3, <2>4 DEF Containers, NotOlder, ContainerStates,
         Caches, Kept
    <2>6. \A q \in Occurrences : \A x \in ContainerStates :
             NotOlder(f, x) /\ Since(b[q], x) => Since(b'[q], x)
      BY <1>2, <2>4 DEF NotOlder, Since, ContainerStates
    <2>7. NotOlder(f', f)
      BY <1>2, <2>3 DEF NotOlder
    <2>8. QED
      BY <1>1, <2>5, <2>6, <2>7, HarnessKeeps
  <1>6. QED
    BY <1>3, <1>4, <1>5

LEMMA RemoveTranscriptKeeps ==
    ASSUME Listing!ConstantsOK, ListingInv, NEW o \in Occurrences,
           Listing!RemoveTranscript(o)
    PROVE  ListingInv'
  <1>1. /\ Containers /\ UNCHANGED <<a, c, d, f>>
        /\ f \in ContainerStates /\ b \in [Occurrences -> ContainerStates]
        /\ \A q \in Occurrences : NotOlder(f, b[q]) /\ (a = "codex" => b[q].beside = 0)
    BY DEF ListingInv, Containers, Listing!RemoveTranscript
  <1>2. /\ b[o] \in ContainerStates /\ b[o].transcript \in Nat /\ b[o].beside \in Nat
        /\ f.transcript \in Nat /\ f.beside \in Nat
    BY <1>1 DEF ContainerStates
  <1>3. b' = [b EXCEPT ![o] = [b[o] EXCEPT !.transcript = 0]]
    BY DEF Listing!RemoveTranscript
  <1>4. /\ b' \in [Occurrences -> ContainerStates]
        /\ b'[o].transcript = 0 /\ b'[o].beside = b[o].beside
        /\ \A q \in Occurrences \ {o} : b'[q] = b[q]
    BY <1>1, <1>2, <1>3 DEF ContainerStates
  <1>5. Containers'
    BY <1>1, <1>2, <1>4 DEF Containers, NotOlder, ContainerStates, Caches, Kept
  <1>6. \A q \in Occurrences : \A x \in ContainerStates :
           NotOlder(f, x) /\ Since(b[q], x) => Since(b'[q], x)
    BY <1>2, <1>4 DEF NotOlder, Since, ContainerStates
  <1>7. NotOlder(f', f)
    BY <1>1, <1>2 DEF NotOlder
  <1>8. QED
    BY <1>1, <1>5, <1>6, <1>7, HarnessKeeps

\* What is written is what was listed.
LEMMA FlushedKeeps ==
    ASSUME Containers, NEW it, NEW new, NEW file, Caches(new),
           it.touched = DOMAIN new, new = file
    PROVE  Keeps(Listing!Flushed(it, new), b, file, f)
  <1> DEFINE done == [Listing!Idle EXCEPT !.flushed = TRUE, !.entries = new,
                                          !.touched = it.touched]
  <1>1. /\ DOMAIN done = ListingFields /\ done.at = "idle" /\ done.todo = {}
        /\ done.stamp = Listing!NoContainer /\ done.got = Listing!NoContainer
        /\ done.refs = Listing!Nothing
        /\ done.began = [o \in Occurrences |-> Listing!NoContainer]
        /\ done.entries = new /\ done.touched = it.touched
    BY IdleIs DEF ListingFields
  <1> HIDE DEF done
  <1>2. Lists(done)
    BY <1>1, NoContainerIs, NothingMaps DEF Lists
  <1>3. Shows(done)
    BY <1>1, NothingMaps DEF Shows
  <1>4. Begun(done, b, f)
    BY <1>1, NoContainerIs DEF Begun, Containers
  <1>5. AtHand(done, b[Least(done.todo)], done.began[Least(done.todo)])
    BY <1>1 DEF AtHand
  <1>6. CacheOf(done, file)
    BY <1>1 DEF CacheOf
  <1>7. Keeps(done, b, file, f)
    BY <1>2, <1>3, <1>4, <1>5, <1>6 DEF Keeps
  <1>8. Keeps(Listing!Idle, b, file, f)
    <2>1. Keeps(Listing!Idle, b, c, f)
      BY IdleKeeps
    <2>2. CacheOf(Listing!Idle, file)
      BY IdleIs, NothingMaps DEF CacheOf, Caches
    <2>3. QED
      BY <2>1, <2>2 DEF Keeps
  <1>9. QED
    BY <1>7, <1>8 DEF Listing!Flushed, done

\* What is kept depends on the harness, besides what it is told.
LEMMA SamePart ==
    ASSUME UNCHANGED a, NEW p \in Processes, Keeps(d'[p], b', c', f')
    PROVE  Keeps(d[p], b, c, f)'
  <1>1. (\A map : Caches(map)' <=> Caches(map))
    BY DEF Caches, Kept
  <1>2. QED
    BY <1>1 DEF Keeps, Lists, Shows, Shown, Begun, AtHand, CacheOf

\* The file of a process that has read it is another one's now.
LEMMA OverwrittenKeeps ==
    ASSUME Containers, NEW it, NEW file, Keeps(it, b, c, f)
    PROVE  Keeps(Listing!Overwritten(it), b, file, f)
  <1>1. CASE it.at = "idle"
    <2>1. Keeps(Listing!Idle, b, c, f)
      BY IdleKeeps
    <2>2. CacheOf(Listing!Idle, file)
      BY IdleIs, NothingMaps DEF CacheOf, Caches
    <2>3. QED
      BY <1>1, <2>1, <2>2 DEF Keeps, Listing!Overwritten
  <1>2. CASE it.at # "idle"
    <2> DEFINE new == [it EXCEPT !.alone = FALSE]
    <2>1. Listing!Overwritten(it) = new
      BY <1>2 DEF Listing!Overwritten
    <2>2. /\ Lists(it) /\ Shows(it) /\ Begun(it, b, f) /\ CacheOf(it, c)
          /\ AtHand(it, b[Least(it.todo)], it.began[Least(it.todo)])
          /\ DOMAIN it = ListingFields
      BY DEF Keeps, Lists
    <2>3. /\ DOMAIN new = ListingFields /\ new.at = it.at /\ new.todo = it.todo
          /\ new.stamp = it.stamp /\ new.got = it.got /\ new.refs = it.refs
          /\ new.began = it.began /\ new.loaded = it.loaded
          /\ new.dirty = it.dirty /\ new.entries = it.entries
          /\ new.touched = it.touched /\ new.flushed = it.flushed /\ ~new.alone
      BY <2>2 DEF ListingFields
    <2> HIDE DEF new
    <2>4. Lists(new)
      BY <2>2, <2>3 DEF Lists
    <2>5. Shows(new)
      BY <2>2, <2>3 DEF Shows, Shown
    <2>6. Begun(new, b, f)
      BY <2>2, <2>3 DEF Begun
    <2>7. AtHand(new, b[Least(new.todo)], new.began[Least(new.todo)])
      BY <2>2, <2>3 DEF AtHand
    <2>8. CacheOf(new, file)
      BY <1>2, <2>2, <2>3 DEF CacheOf
    <2>9. QED
      BY <2>1, <2>4, <2>5, <2>6, <2>7, <2>8 DEF Keeps
  <1>3. QED
    BY <1>1, <1>2

\* A part of what is cached.
LEMMA PartCaches ==
    ASSUME NEW map, Caches(map), NEW D \in SUBSET DOMAIN map
    PROVE  /\ Caches([o \in D |-> map[o]])
           /\ DOMAIN [o \in D |-> map[o]] = D
  <1> DEFINE new == [o \in D |-> map[o]]
  <1>1. map \in Maps(EntryStates)
    BY DEF Caches
  <1>2. D \in SUBSET Occurrences /\ \A o \in D : map[o] \in EntryStates
    BY <1>1, MapIs
  <1>3. new \in [D -> EntryStates]
    BY <1>2
  <1>4. new \in Maps(EntryStates)
    BY <1>2, <1>3, MapOf
  <1>5. QED
    BY <1>4 DEF Caches

\* The module of the part has these definitions from FiniteSets, too.
LEMMA SameFinite == \A S : Listing!IsFiniteSet(S) <=> IsFiniteSet(S)
  BY DEF Listing!IsFiniteSet, IsFiniteSet

LEMMA SameCardinality == \A S : Listing!Cardinality(S) = Cardinality(S)
  BY DEF Listing!Cardinality, Cardinality

LEMMA FlushKeeps ==
    ASSUME Listing!ConstantsOK, ListingInv, NEW p \in Processes, Listing!Flush(p)
    PROVE  ListingInv'
  <1> DEFINE new == [o \in d[p].touched |-> d[p].entries[o]]
             written == [d[p] EXCEPT !.alone = TRUE]
  <1>1. d[p].at = "flush" /\ UNCHANGED <<a, b, f>>
    BY DEF Listing!Flush
  <1>2. Containers /\ Lists(d[p]) /\ CacheOf(d[p], c)
    BY ListingOf
  <1>3. /\ d[p].touched \in SUBSET DOMAIN d[p].entries
        /\ Caches(d[p].entries)
    BY <1>2 DEF CacheOf
  <1>4. Caches(new) /\ DOMAIN new = d[p].touched
    BY <1>3, PartCaches
  <1> HIDE DEF new
  <1>5. CASE ~d[p].loaded
    <2>1. Listing!Put(p, Listing!Idle) /\ UNCHANGED c
      BY <1>5 DEF Listing!Flush
    <2>2. QED
      BY <1>1, <1>2, <2>1, IdleKeeps, ListingGoes DEF Listing!Put
  <1>6. CASE d[p].loaded /\ Listing!Unchanged(d[p])
    <2>1. Listing!Put(p, Listing!Flushed(d[p], new)) /\ UNCHANGED c
      BY <1>6 DEF Listing!Flush, new
    <2>2. Keeps(Listing!Flushed(d[p], new), b, c, f)
      <3>1. CASE d[p].alone
        <4>1. d[p].entries = c
          BY <1>1, <1>2, <1>6, <3>1 DEF CacheOf, Listing!Unchanged
        <4>2. d[p].entries \in Maps(EntryStates)
          BY <1>3 DEF Caches
        <4>3. DOMAIN d[p].entries \subseteq Occurrences /\ IsFiniteSet(Occurrences)
          BY <4>2, MapIs, SameFinite DEF Listing!ConstantsOK
        <4>4. IsFiniteSet(DOMAIN d[p].entries)
          BY <4>3, FS_Subset
        <4>5. Cardinality(DOMAIN d[p].entries) = Cardinality(d[p].touched)
          BY <1>6, SameCardinality DEF Listing!Unchanged
        <4>6. d[p].touched = DOMAIN d[p].entries
          BY <1>3, <4>4, <4>5, FS_Subset
        <4>7. d[p].entries = [o \in DOMAIN d[p].entries |-> d[p].entries[o]]
          BY <4>2, MapIs
        <4>8. new = c
          BY <4>1, <4>6, <4>7 DEF new
        <4>9. QED
          BY <1>2, <1>4, <4>8, FlushedKeeps
      <3>2. CASE ~d[p].alone
        <4>1. Listing!Flushed(d[p], new) = Listing!Idle
          BY <3>2 DEF Listing!Flushed
        <4>2. QED
          BY <1>2, <4>1, IdleKeeps
      <3>3. QED
        BY <3>1, <3>2
    <2>3. QED
      BY <1>1, <2>1, <2>2, ListingGoes DEF Listing!Put
  <1>7. CASE d[p].loaded /\ ~Listing!Unchanged(d[p])
    <2>1. /\ c' = new
          /\ d' = [q \in Processes |->
                      IF q = p THEN Listing!Flushed(written, new)
                      ELSE Listing!Overwritten(d[q])]
      BY <1>7 DEF Listing!Flush, new
    <2>2. written.touched = DOMAIN new
      BY <1>2, <1>4 DEF Lists, ListingFields
    <2>3. Keeps(Listing!Flushed(written, new), b, new, f)
      BY <1>2, <1>4, <2>2, FlushedKeeps
    <2> HIDE DEF written
    <2>4. ASSUME NEW q \in Processes
          PROVE  Keeps(d'[q], b, new, f)
      <3>1. CASE q = p
        BY <2>1, <2>3, <3>1
      <3>2. CASE q # p
        <4>1. d'[q] = Listing!Overwritten(d[q])
          BY <2>1, <3>2
        <4>2. Keeps(d[q], b, c, f)
          BY ListingOf
        <4>3. QED
          BY <1>2, <4>1, <4>2, OverwrittenKeeps
      <3>3. QED
        BY <3>1, <3>2
    <2>5. Containers'
      BY <1>1, <1>2, <1>4, <2>1 DEF Containers, Caches, Kept
    <2>6. ASSUME NEW q \in Processes
          PROVE  Keeps(d[q], b, c, f)'
      <3>1. Keeps(d'[q], b', c', f')
        BY <1>1, <2>1, <2>4
      <3>2. QED
        BY <1>1, <3>1, SamePart
    <2>7. DOMAIN d' = Processes
      BY <2>1
    <2>8. QED
      BY <2>5, <2>6, <2>7 DEF ListingInv
  <1>8. QED
    BY <1>5, <1>6, <1>7

LEMMA ListingBegins == Listing!Init => ListingInv
  <1> SUFFICES ASSUME Listing!Init
               PROVE  ListingInv
    OBVIOUS
  <1> DEFINE first == [transcript |-> 1, beside |-> IF a = "codex" THEN 0 ELSE 1]
  <1>1. /\ a \in Harnesses /\ b = [o \in Occurrences |-> first]
        /\ f = [transcript |-> 1, beside |-> 1]
        /\ c = Listing!Nothing \/ c = Listing!Corrupt
        /\ d = [p \in Processes |-> Listing!Idle]
    BY DEF Listing!Init, Harnesses
  <1>2. /\ first \in ContainerStates /\ f \in ContainerStates
        /\ NotOlder(f, first) /\ (a = "codex" => first.beside = 0)
    BY <1>1 DEF ContainerStates, NotOlder
  <1> HIDE DEF first
  <1>3. Caches(Listing!Nothing)
    BY NothingMaps DEF Caches
  <1>4. Containers
    BY <1>1, <1>2, <1>3 DEF Containers
  <1>5. Keeps(Listing!Idle, b, c, f)
    BY <1>4, IdleKeeps
  <1>6. QED
    BY <1>1, <1>4, <1>5 DEF ListingInv

LEMMA ListingStep == ListingInv /\ Listing!Next => ListingInv'
  <1> SUFFICES ASSUME ListingInv, Listing!Next
               PROVE  ListingInv'
    OBVIOUS
  <1>1. Listing!ConstantsOK
    BY CommandsAssumption
  <1>2. ASSUME NEW p \in Processes, Listing!List(p)
        PROVE  ListingInv'
    <2>1. ASSUME Listing!ListingFails(p)
          PROVE  ListingInv'
      BY <2>1, ListingStops DEF Listing!ListingFails
    <2>2. QED
      BY <1>1, <1>2, <2>1, StartListingKeeps, StampTranscriptKeeps, StampBesideKeeps,
         ReadBesideKeeps, ReadTranscriptKeeps, EndListingKeeps, FlushKeeps
         DEF Listing!List
  <1>3. ASSUME NEW o \in Occurrences,
               Listing!ChangeContainer(o) \/ Listing!RemoveTranscript(o)
        PROVE  ListingInv'
    BY <1>1, <1>3, ChangeContainerKeeps, RemoveTranscriptKeeps
  <1>4. QED
    BY <1>2, <1>3 DEF Listing!Next

\* What the part keeps, the program keeps.
LEMMA ListingAlways == Spec => [](part = "list" => ListingInv)
  <1> DEFINE Inv == part = "list" => ListingInv
  <1>1. Init => Inv
    BY ListingBegins DEF Init
  <1>2. Inv /\ [Next]_vars => Inv'
    <2> SUFFICES ASSUME Inv, [Next]_vars, part' = "list"
                 PROVE  ListingInv'
      OBVIOUS
    <2>1. CASE UNCHANGED vars
      <3>1. ListingInv /\ UNCHANGED <<a, b, c, d, f>>
        BY <2>1 DEF vars
      <3>2. Containers'
        BY <3>1 DEF ListingInv, Containers, Caches, Kept
      <3>3. ASSUME NEW p \in Processes
            PROVE  Keeps(d[p], b, c, f)'
        BY <3>1, SamePart DEF ListingInv
      <3>4. QED
        BY <3>1, <3>2, <3>3 DEF ListingInv
    <2>2. CASE Next
      <3>1. part = "list"
        BY <2>2 DEF Next
      <3>2. Listing!Next
        BY <2>2, <3>1 DEF Next, RunState, RunInit, RunList, RunScan, RunRead,
           RunShow, RunCompletion, RunCurrent
      <3>3. QED
        BY <3>1, <3>2, ListingStep
    <2>3. QED
      BY <2>1, <2>2
  <1>3. QED
    BY <1>1, <1>2, PTL DEF Spec

\* A listing shows no session older than it was when the listing began, whoever
\* filled the cache (Sessions of the adapters, internal/readercache): what is
\* cached was read after it was stamped, a stamp that is found is the one of
\* now, and no container becomes again what it was.
THEOREM ListingsAreNotOlder == Spec => []ListingNotOlder
  <1>1. ListingInv => Listing!ListingNotOlder
    BY DEF ListingInv, Keeps, Shows, Shown, NotOlder, Listing!ListingNotOlder,
           Listing!FoundAbsent
  <1>2. (part = "list" => ListingInv) => ListingNotOlder
    BY <1>1 DEF ListingNotOlder
  <1>3. QED
    BY <1>2, ListingAlways, PTL

\* A parent hint that the OMP adapter resolved names the transcript of the same
\* listing (resolveRelationships): what the cache holds has no resolved hint.
THEOREM HintsNameTheListed == Spec => []HintsNameListed
  <1>1. ListingInv => Listing!HintsNameListed
    BY DEF ListingInv, Keeps, Shows, Listing!HintsNameListed
  <1>2. (part = "list" => ListingInv) => HintsNameListed
    BY <1>1 DEF HintsNameListed
  <1>3. QED
    BY <1>2, ListingAlways, PTL

\* After a flush the cache file has exactly what was listed, unless another
\* process wrote it since it was read (readercache.flush): a flush that leaves
\* the file alone had as many entries as it touched, and touched only those.
THEOREM FlushedFilesHoldTheListed == Spec => []FlushedHoldsListed
  <1>1. ListingInv => Listing!FlushedHoldsListed
    BY DEF ListingInv, Keeps, CacheOf, Listing!FlushedHoldsListed
  <1>2. (part = "list" => ListingInv) => FlushedHoldsListed
    BY <1>1 DEF FlushedHoldsListed
  <1>3. QED
    BY <1>2, ListingAlways, PTL

-----------------------------------------------------------------------------
(* completion install (Install): a is the number of profiles, b the        *)
(* profiles, c the script, d the installs, e what killed ones had moved     *)
(* aside, f the lines that must be kept, g a hole that was read, h a        *)
(* profile that was lost, i the number of edits.                            *)

Places == 1 .. 2
InstallSteps == {"idle", "truncate", "generate", "read", "rename", "set aside",
                 "rename again", "roll back", "clean up"}
Profile == [there : BOOLEAN, lines : Nat,
            block : {"none", "old", "ours", "malformed"}]
InstallStates == [at : InstallSteps, of : Places, new : Profile, old : Profile]

InstallTyped ==
    /\ a \in {0, 1, 2} /\ i \in Nat
    /\ b \in [Places -> Profile] /\ d \in [Processes -> InstallStates]
    /\ e \in [Places -> SUBSET Profile] /\ f \in [Places -> Nat]

\* What is connected has a script: it was written before, and is not removed.
Scripted ==
    /\ \A k \in Places : b[k].block = "ours" => c # "absent"
    /\ \A p \in Processes : d[p].at \notin {"idle", "truncate"} => c # "absent"

\* The next edit has lines nobody has seen.
LinesWithin ==
    /\ \A k \in Places : f[k] <= i + 1 /\ b[k].lines <= i + 1
    /\ \A p \in Processes : d[p].new.lines <= i + 1 /\ d[p].old.lines <= i + 1

\* The lines of the user are beside the profile for good, or they are in what
\* an install writes, in what it has moved aside, and in the profile, unless an
\* install has moved that aside.
Left(k) == \E content \in e[k] : content.lines >= f[k]
Held(k) ==
    \/ b[k].lines >= f[k] \/ Left(k)
    \/ ~b[k].there /\ \E p \in Processes :
                         d[p].of = k /\ d[p].at \in {"rename again", "roll back"}
Carried(it) ==
    /\ it.at \in {"rename", "set aside", "rename again"} =>
          it.new.lines >= f[it.of] \/ Left(it.of)
    /\ it.at \in {"rename again", "roll back"} =>
          it.old.lines >= f[it.of] \/ Left(it.of)

InstallInv ==
    /\ InstallTyped /\ Scripted /\ LinesWithin
    /\ ~g /\ ~h => /\ \A k \in Places : Held(k)
                   /\ \A p \in Processes : Carried(d[p])

LEMMA InstallOf ==
    ASSUME InstallInv, NEW p \in Processes
    PROVE  /\ d[p] \in InstallStates /\ d[p].at \in InstallSteps
           /\ d[p].of \in Places /\ d[p].new \in Profile /\ d[p].old \in Profile
           /\ b[d[p].of] \in Profile
  <1>1. d[p] \in InstallStates
    BY DEF InstallInv, InstallTyped
  <1>2. QED
    BY <1>1 DEF InstallStates, InstallInv, InstallTyped

LEMMA NoProfile ==
    /\ Completion!NoFile \in Profile /\ ~Completion!NoFile.there
    /\ Completion!NoFile.lines = 0 /\ Completion!NoFile.block = "none"
    /\ Completion!Idle \in InstallStates /\ Completion!Idle.at = "idle"
    /\ Completion!Idle.of = 1
    /\ Completion!Idle.new.lines = 0 /\ Completion!Idle.old.lines = 0
  BY DEF Completion!NoFile, Completion!Idle, Profile, InstallStates, InstallSteps,
         Places

\* An install goes on: what is left beside the profiles stays there.
LEMMA InstallGoes ==
    ASSUME InstallInv, NEW p \in Processes, NEW new \in InstallStates,
           d' = [d EXCEPT ![p] = new], UNCHANGED <<a, f, i>>,
           b' \in [Places -> Profile], e' \in [Places -> SUBSET Profile],
           c # "absent" => c' # "absent",
           \A k \in Places : b'[k].block = "ours" => c' # "absent",
           new.at \notin {"idle", "truncate"} => c' # "absent",
           \A k \in Places : b'[k].lines <= i + 1,
           new.new.lines <= i + 1, new.old.lines <= i + 1,
           \A k \in Places : e[k] \subseteq e'[k],
           ~g' /\ ~h' => ~g /\ ~h,
           ~g' /\ ~h' => Carried(new)' /\ \A k \in Places : Held(k)'
    PROVE  InstallInv'
  <1>1. d'[p] = new /\ \A q \in Processes \ {p} : d'[q] = d[q]
    BY DEF InstallInv, InstallTyped
  <1>2. InstallTyped'
    BY DEF InstallInv, InstallTyped
  <1>3. Scripted'
    BY <1>1 DEF InstallInv, Scripted
  <1>4. LinesWithin'
    BY <1>1 DEF InstallInv, LinesWithin
  <1>5. ASSUME ~g', ~h', NEW q \in Processes
        PROVE  Carried(d[q])'
    <2>1. CASE q = p
      BY <1>1, <1>5, <2>1 DEF Carried, Left
    <2>2. CASE q # p
      <3>1. d'[q] = d[q] /\ d[q].of \in Places /\ Carried(d[q])
        BY <1>1, <1>5, <2>2, InstallOf DEF InstallInv
      <3>2. Left(d[q].of) => Left(d[q].of)'
        BY <3>1, <1>1, <2>2 DEF Left
      <3>3. QED
        BY <3>1, <3>2 DEF Carried, Left
    <2>3. QED
      BY <2>1, <2>2
  <1>6. QED
    BY <1>2, <1>3, <1>4, <1>5 DEF InstallInv

\* An install that writes no profile, and moves none aside or back.
LEMMA InstallGoesOn ==
    ASSUME InstallInv, NEW p \in Processes, NEW new \in InstallStates,
           d' = [d EXCEPT ![p] = new], UNCHANGED <<a, b, f, i, h>>,
           c # "absent" => c' # "absent",
           new.at \notin {"idle", "truncate"} => c' # "absent",
           new.new.lines <= i + 1, new.old.lines <= i + 1,
           e' \in [Places -> SUBSET Profile],
           \A k \in Places : e[k] \subseteq e'[k],
           ~g' => ~g,
           ~g' /\ ~h' => Carried(new)',
           d[p].at \in {"rename again", "roll back"} /\ ~g' /\ ~h' =>
              \/ new.at \in {"rename again", "roll back"} /\ new.of = d[p].of
              \/ \A k \in Places : k = d[p].of => Left(k)'
    PROVE  InstallInv'
  <1>1. d'[p] = new /\ \A q \in Processes \ {p} : d'[q] = d[q]
    BY DEF InstallInv, InstallTyped
  <1>2. ASSUME ~g', ~h', NEW k \in Places
        PROVE  Held(k)'
    <2>1. Held(k) /\ (Left(k) => Left(k)')
      BY <1>2 DEF InstallInv, Left
    <2>2. CASE ~b[k].there /\ \E q \in Processes :
                  d[q].of = k /\ d[q].at \in {"rename again", "roll back"}
      <3>1. PICK q \in Processes :
               d[q].of = k /\ d[q].at \in {"rename again", "roll back"}
        BY <2>2
      <3>2. CASE q = p
        <4>1. \/ new.at \in {"rename again", "roll back"} /\ new.of = k
              \/ Left(k)'
          BY <1>2, <3>1, <3>2
        <4>2. CASE new.at \in {"rename again", "roll back"} /\ new.of = k
          BY <1>1, <2>2, <4>2 DEF Held
        <4>3. QED
          BY <4>1, <4>2 DEF Held
      <3>3. CASE q # p
        BY <1>1, <2>2, <3>1, <3>3 DEF Held
      <3>4. QED
        BY <3>2, <3>3
    <2>3. QED
      BY <2>1, <2>2 DEF Held
  <1>3. /\ b' \in [Places -> Profile]
        /\ \A k \in Places : b'[k].block = "ours" => c' # "absent"
        /\ \A k \in Places : b'[k].lines <= i + 1
    BY DEF InstallInv, InstallTyped, Scripted, LinesWithin
  <1>4. QED
    BY <1>2, <1>3, InstallGoes

\* The steps an install goes on with.
LEMMA GotoIs ==
    ASSUME InstallInv, NEW p \in Processes, NEW at \in InstallSteps,
           Completion!Goto(p, at)
    PROVE  \E new \in InstallStates :
              /\ d' = [d EXCEPT ![p] = new]
              /\ new.at = at /\ new.of = d[p].of
              /\ new.new = d[p].new /\ new.old = d[p].old
  <1> DEFINE new == [d[p] EXCEPT !.at = at]
  <1>1. d[p] \in InstallStates
    BY InstallOf
  <1>2. new \in InstallStates /\ new.at = at /\ new.of = d[p].of
        /\ new.new = d[p].new /\ new.old = d[p].old
    BY <1>1 DEF InstallStates
  <1>3. d' = [d EXCEPT ![p] = new]
    BY DEF Completion!Goto
  <1>4. QED
    BY <1>2, <1>3

LEMMA NextProfileIs ==
    ASSUME InstallInv, NEW p \in Processes, Completion!NextProfile(p)
    PROVE  \E new \in InstallStates :
              /\ d' = [d EXCEPT ![p] = new]
              /\ new.at \in {"idle", "read"}
              /\ new.new.lines = 0 /\ new.old.lines = 0
  <1> DEFINE next == [Completion!Idle EXCEPT !.at = "read", !.of = d[p].of + 1]
             new == IF Completion!More(d[p].of) THEN next ELSE Completion!Idle
  <1>1. d' = [d EXCEPT ![p] = new]
    BY DEF Completion!NextProfile
  <1>2. CASE Completion!More(d[p].of)
    <2>1. d[p].of \in Places /\ a \in {0, 1, 2} /\ d[p].of < a
      BY <1>2, InstallOf DEF Completion!More, InstallInv, InstallTyped
    <2>2. d[p].of + 1 \in Places
      BY <2>1 DEF Places
    <2>3. /\ next \in InstallStates /\ next.at = "read"
          /\ next.new.lines = 0 /\ next.old.lines = 0
      BY <2>2, NoProfile DEF InstallStates, InstallSteps
    <2>4. QED
      BY <1>1, <1>2, <2>3
  <1>3. CASE ~Completion!More(d[p].of)
    BY <1>1, <1>3, NoProfile
  <1>4. QED
    BY <1>2, <1>3

LEMMA LinesAre ==
    ASSUME InstallInv
    PROVE  /\ i \in Nat /\ 0 <= i + 1
           /\ \A p \in Processes : d[p].new.lines <= i + 1 /\ d[p].old.lines <= i + 1
           /\ \A k \in Places : e[k] \subseteq e[k]
           /\ e \in [Places -> SUBSET Profile]
  BY DEF InstallInv, InstallTyped, LinesWithin

LEMMA StartInstallKeeps ==
    ASSUME InstallInv, NEW p \in Processes, Completion!StartInstall(p)
    PROVE  InstallInv'
  <1>1. /\ d[p].at = "idle" /\ UNCHANGED <<a, b, c, e, g, h, i>>
        /\ Completion!Goto(p, "truncate")
    BY DEF Completion!StartInstall, Completion!Rest
  <1>2. PICK new \in InstallStates :
           /\ d' = [d EXCEPT ![p] = new]
           /\ new.at = "truncate" /\ new.of = d[p].of
           /\ new.new = d[p].new /\ new.old = d[p].old
    BY <1>1, GotoIs DEF InstallSteps
  <1>3. CASE \A q \in Processes : d[q].at = "idle"
    <2>1. f' = [k \in Places |-> IF b[k].lines > f[k] THEN b[k].lines ELSE f[k]]
      BY <1>3 DEF Completion!StartInstall, Completion!AllProfiles, Places
    <2>2. \A k \in Places : b[k].lines \in Nat /\ f[k] \in Nat /\ i \in Nat
      BY DEF InstallInv, InstallTyped, Profile
    <2>3. \A k \in Places : /\ f'[k] = b[k].lines \/ f'[k] = f[k]
                            /\ f'[k] \in Nat /\ f'[k] <= i + 1
      <3>1. \A k \in Places : f'[k] = b[k].lines \/ f'[k] = f[k]
        BY <2>1
      <3>2. QED
        BY <2>2, <3>1 DEF InstallInv, LinesWithin
    <2>4. f' \in [Places -> Nat]
      BY <2>1, <2>2
    <2>5. InstallTyped'
      BY <1>1, <1>2, <2>4 DEF InstallInv, InstallTyped
    <2>6. d'[p] = new /\ \A q \in Processes \ {p} : d'[q] = d[q]
      BY <1>2 DEF InstallInv, InstallTyped
    <2>7. Scripted'
      BY <1>1, <1>2, <2>6 DEF InstallInv, Scripted
    <2>8. LinesWithin'
      BY <1>1, <1>2, <2>3, <2>6 DEF InstallInv, LinesWithin
    <2>9. \A q \in Processes : d'[q].at \in {"idle", "truncate"}
      BY <1>2, <1>3, <2>6
    <2>10. \A q \in Processes : Carried(d[q])'
      BY <2>9 DEF Carried
    <2>11. ASSUME ~g', ~h', NEW k \in Places
           PROVE  Held(k)'
      <3>1. b[k].lines >= f[k] \/ Left(k)
        BY <1>1, <1>3, <2>11 DEF InstallInv, Held
      <3>2. CASE f'[k] = b[k].lines
        <4>1. b'[k].lines = f'[k] /\ f'[k] \in Nat
          BY <1>1, <2>3, <3>2
        <4>2. b'[k].lines >= f'[k]
          BY <4>1
        <4>3. QED
          BY <4>2 DEF Held
      <3>3. CASE f'[k] = f[k]
        BY <1>1, <3>1, <3>3 DEF Held, Left
      <3>4. QED
        BY <2>3, <3>2, <3>3
    <2>12. QED
      BY <1>1, <2>5, <2>7, <2>8, <2>10, <2>11 DEF InstallInv
  <1>4. CASE ~(\A q \in Processes : d[q].at = "idle")
    <2>1. f' = f
      BY <1>4 DEF Completion!StartInstall
    <2>2. Carried(new)'
      BY <1>2 DEF Carried
    <2>3. QED
      BY <1>1, <1>2, <2>1, <2>2, LinesAre, InstallGoesOn
  <1>5. QED
    BY <1>3, <1>4

LEMMA TruncateKeeps ==
    ASSUME InstallInv, NEW p \in Processes, Completion!Truncate(p)
    PROVE  InstallInv'
  <1>1. /\ d[p].at = "truncate" /\ UNCHANGED <<a, b, e, f, g, h, i>>
        /\ c' = "partial" /\ Completion!Goto(p, "generate")
    BY DEF Completion!Truncate, Completion!Rest
  <1>2. PICK new \in InstallStates :
           /\ d' = [d EXCEPT ![p] = new]
           /\ new.at = "generate" /\ new.of = d[p].of
           /\ new.new = d[p].new /\ new.old = d[p].old
    BY <1>1, GotoIs DEF InstallSteps
  <1>3. Carried(new)'
    BY <1>2 DEF Carried
  <1>4. QED
    BY <1>1, <1>2, <1>3, LinesAre, InstallGoesOn

LEMMA GenerateKeeps ==
    ASSUME InstallInv, NEW p \in Processes, Completion!Generate(p)
    PROVE  InstallInv'
  <1>1. /\ d[p].at = "generate" /\ UNCHANGED <<a, b, e, f, g, h, i>>
        /\ c' = "whole"
        /\ Completion!Ends(p) \/ Completion!Goto(p, "read")
    BY DEF Completion!Generate, Completion!Rest
  <1>2. CASE Completion!Ends(p)
    <2>1. Carried(Completion!Idle)'
      BY NoProfile DEF Carried
    <2>2. d' = [d EXCEPT ![p] = Completion!Idle]
      BY <1>2 DEF Completion!Ends
    <2>3. QED
      BY <1>1, <2>1, <2>2, NoProfile, LinesAre, InstallGoesOn
  <1>3. CASE Completion!Goto(p, "read")
    <2>1. PICK new \in InstallStates :
             /\ d' = [d EXCEPT ![p] = new]
             /\ new.at = "read" /\ new.of = d[p].of
             /\ new.new = d[p].new /\ new.old = d[p].old
      BY <1>3, GotoIs DEF InstallSteps
    <2>2. Carried(new)'
      BY <2>1 DEF Carried
    <2>3. QED
      BY <1>1, <2>1, <2>2, LinesAre, InstallGoesOn
  <1>4. QED
    BY <1>1, <1>2, <1>3

LEMMA EnsureManagedBlockKeeps ==
    ASSUME InstallInv, NEW p \in Processes, Completion!EnsureManagedBlock(p)
    PROVE  InstallInv'
  <1> DEFINE k == d[p].of
             block == [there |-> TRUE, lines |-> b[k].lines, block |-> "ours"]
  <1>1. /\ d[p].at = "read" /\ UNCHANGED <<a, b, c, e, f, h, i>>
        /\ g' = (g \/ \E q \in Processes \ {p} :
                        d[q].of = k /\ d[q].at \in {"rename again", "roll back"})
    BY DEF Completion!EnsureManagedBlock, Completion!Rest
  <1>2. \/ Completion!Ends(p) \/ Completion!NextProfile(p)
        \/ d' = [d EXCEPT ![p].at = "rename", ![p].new = block]
    BY DEF Completion!EnsureManagedBlock
  <1>3. c # "absent"
    BY <1>1 DEF InstallInv, Scripted
  <1>4. CASE Completion!Ends(p)
    <2>1. Carried(Completion!Idle)'
      BY NoProfile DEF Carried
    <2>2. d' = [d EXCEPT ![p] = Completion!Idle]
      BY <1>4 DEF Completion!Ends
    <2>3. QED
      BY <1>1, <1>3, <2>1, <2>2, NoProfile, LinesAre, InstallGoesOn
  <1>5. CASE Completion!NextProfile(p)
    <2>1. PICK new \in InstallStates :
             /\ d' = [d EXCEPT ![p] = new]
             /\ new.at \in {"idle", "read"}
             /\ new.new.lines = 0 /\ new.old.lines = 0
      BY <1>5, NextProfileIs
    <2>2. Carried(new)'
      BY <2>1 DEF Carried
    <2>3. QED
      BY <1>1, <1>3, <2>1, <2>2, LinesAre, InstallGoesOn
  <1>6. CASE d' = [d EXCEPT ![p].at = "rename", ![p].new = block]
    <2>1. PICK new : new = [d[p] EXCEPT !.at = "rename", !.new = block]
      OBVIOUS
    <2>2. d[p] \in InstallStates /\ k \in Places /\ b[k] \in Profile
      BY InstallOf
    <2>3. block \in Profile /\ block.lines = b[k].lines
      BY <2>2 DEF Profile
    <2>4. /\ new \in InstallStates /\ new.at = "rename" /\ new.of = k
          /\ new.new = block /\ new.old = d[p].old
      BY <2>1, <2>2, <2>3 DEF InstallStates, InstallSteps
    <2>5. new.new.lines <= i + 1
      BY <2>2, <2>3, <2>4 DEF InstallInv, LinesWithin
    <2>6. ASSUME ~g', ~h'
          PROVE  Carried(new)'
      <3>1. Held(k)
        BY <1>1, <2>2, <2>6 DEF InstallInv
      <3>2. ~\E q \in Processes \ {p} :
                d[q].of = k /\ d[q].at \in {"rename again", "roll back"}
        BY <1>1, <2>6
      <3>3. b[k].lines >= f[k] \/ Left(k)
        BY <1>1, <3>1, <3>2 DEF Held
      <3>4. PICK m \in Places : m = k
        BY <2>2
      <3>5. new.new.lines >= f[m] \/ Left(m)
        BY <2>3, <2>4, <3>3, <3>4
      <3>6. QED
        BY <1>1, <2>4, <3>4, <3>5 DEF Carried, Left
    <2>7. d' = [d EXCEPT ![p] = new]
      BY <1>6, <2>1
    <2>8. QED
      BY <1>1, <1>3, <2>4, <2>5, <2>6, <2>7, LinesAre, InstallGoesOn
  <1>7. QED
    BY <1>2, <1>4, <1>5, <1>6

\* What a profile is replaced by has the lines, or they are left beside it.
LEMMA InstallReplaces ==
    ASSUME InstallInv, NEW p \in Processes, NEW new \in InstallStates,
           NEW k \in Places, k = d[p].of, NEW content \in Profile,
           d' = [d EXCEPT ![p] = new], UNCHANGED <<a, c, e, f, g, i>>,
           b' = [b EXCEPT ![k] = content],
           d[p].at \notin {"idle", "truncate"},
           content.lines <= i + 1, new.new.lines <= i + 1, new.old.lines <= i + 1,
           ~h' => ~h,
           ~g' /\ ~h' => content.lines >= f[k] \/ Left(k),
           ~g' /\ ~h' => Carried(new)'
    PROVE  InstallInv'
  <1>1. d'[p] = new /\ \A q \in Processes \ {p} : d'[q] = d[q]
    BY DEF InstallInv, InstallTyped
  <1>2. /\ b' \in [Places -> Profile] /\ b'[k] = content
        /\ \A m \in Places \ {k} : b'[m] = b[m]
    BY DEF InstallInv, InstallTyped
  <1>3. c # "absent"
    BY DEF InstallInv, Scripted
  <1>4. \A m \in Places : b'[m].lines <= i + 1
    BY <1>2 DEF InstallInv, LinesWithin
  <1>5. ASSUME ~g', ~h', NEW m \in Places
        PROVE  Held(m)'
    <2>1. Left(m) => Left(m)'
      BY DEF Left
    <2>2. CASE m = k
      <3>1. b'[m].lines >= f'[m] \/ Left(m)'
        BY <1>2, <1>5, <2>1, <2>2
      <3>2. QED
        BY <3>1 DEF Held
    <2>3. CASE m # k
      <3>1. Held(m) /\ b'[m] = b[m]
        BY <1>2, <1>5, <2>3 DEF InstallInv
      <3>2. CASE b[m].lines >= f[m] \/ Left(m)
        BY <2>1, <3>1, <3>2 DEF Held
      <3>3. CASE ~(b[m].lines >= f[m] \/ Left(m))
        <4>1. PICK q \in Processes :
                 d[q].of = m /\ d[q].at \in {"rename again", "roll back"}
          BY <3>1, <3>3 DEF Held
        <4>2. d'[q] = d[q] /\ ~b'[m].there
          BY <1>1, <2>3, <3>1, <3>3, <4>1 DEF Held
        <4>3. QED
          BY <4>1, <4>2 DEF Held
      <3>4. QED
        BY <3>2, <3>3
    <2>4. QED
      BY <2>2, <2>3
  <1>6. QED
    BY <1>2, <1>3, <1>4, <1>5, LinesAre, InstallGoes

LEMMA CarriedOf ==
    ASSUME InstallInv, ~g, ~h, NEW p \in Processes, NEW k \in Places, k = d[p].of
    PROVE  /\ d[p].at \in {"rename", "set aside", "rename again"} =>
                 d[p].new.lines >= f[k] \/ Left(k)
           /\ d[p].at \in {"rename again", "roll back"} =>
                 d[p].old.lines >= f[k] \/ Left(k)
  BY DEF InstallInv, Carried

LEMMA RenameKeeps ==
    ASSUME InstallInv, NEW p \in Processes, Completion!Rename(p)
    PROVE  InstallInv'
  <1>1. /\ d[p].at = "rename" /\ UNCHANGED <<a, c, e, f, g, h, i>>
        /\ \/ b' = [b EXCEPT ![d[p].of] = d[p].new] /\ Completion!NextProfile(p)
           \/ Completion!Goto(p, "set aside") /\ UNCHANGED b
    BY DEF Completion!Rename, Completion!Replace, Completion!Rest
  <1>2. /\ d[p] \in InstallStates /\ d[p].of \in Places /\ d[p].new \in Profile
        /\ d[p].new.lines <= i + 1
    BY InstallOf, LinesAre
  <1>3. PICK k \in Places : k = d[p].of
    BY <1>2
  <1>4. PICK content \in Profile : content = d[p].new
    BY <1>2
  <1>5. ~g' /\ ~h' => content.lines >= f[k] \/ Left(k)
    BY <1>1, <1>3, <1>4, CarriedOf
  <1>6. CASE b' = [b EXCEPT ![d[p].of] = d[p].new] /\ Completion!NextProfile(p)
    <2>1. PICK new \in InstallStates :
             /\ d' = [d EXCEPT ![p] = new]
             /\ new.at \in {"idle", "read"}
             /\ new.new.lines = 0 /\ new.old.lines = 0
      BY <1>6, NextProfileIs
    <2>2. Carried(new)'
      BY <2>1 DEF Carried
    <2>3. b' = [b EXCEPT ![k] = content] /\ content.lines <= i + 1
      BY <1>2, <1>3, <1>4, <1>6
    <2>4. new.new.lines <= i + 1 /\ new.old.lines <= i + 1
      BY <2>1, LinesAre
    <2>5. d[p].at \notin {"idle", "truncate"}
      BY <1>1
    <2>6. QED
      BY <1>1, <1>3, <1>5, <2>1, <2>2, <2>3, <2>4, <2>5, InstallReplaces
  <1>7. CASE Completion!Goto(p, "set aside") /\ UNCHANGED b
    <2>1. PICK new \in InstallStates :
             /\ d' = [d EXCEPT ![p] = new]
             /\ new.at = "set aside" /\ new.of = d[p].of
             /\ new.new = d[p].new /\ new.old = d[p].old
      BY <1>7, GotoIs DEF InstallSteps
    <2>2. ~g' /\ ~h' => Carried(new)'
      BY <1>1, <1>3, <1>4, <1>5, <2>1 DEF Carried, Left
    <2>3. c # "absent"
      BY <1>1 DEF InstallInv, Scripted
    <2>4. QED
      BY <1>1, <1>7, <2>1, <2>2, <2>3, LinesAre, InstallGoesOn
  <1>8. QED
    BY <1>1, <1>6, <1>7

LEMMA SetAsideKeeps ==
    ASSUME InstallInv, NEW p \in Processes, Completion!SetAside(p)
    PROVE  InstallInv'
  <1>1. d[p].at = "set aside" /\ UNCHANGED <<a, c, e, f, g, h, i>>
    BY DEF Completion!SetAside, Completion!Rest
  <1>2. /\ d[p] \in InstallStates /\ d[p].of \in Places /\ b[d[p].of] \in Profile
        /\ d[p].new.lines <= i + 1
    BY InstallOf, LinesAre
  <1>3. PICK k \in Places : k = d[p].of
    BY <1>2
  <1>4. c # "absent"
    BY <1>1 DEF InstallInv, Scripted
  <1>5. CASE ~b[k].there
    <2>1. d' = [d EXCEPT ![p] = Completion!Idle] /\ UNCHANGED b
      BY <1>3, <1>5 DEF Completion!SetAside, Completion!Ends
    <2>2. Carried(Completion!Idle)'
      BY NoProfile DEF Carried
    <2>3. QED
      BY <1>1, <1>4, <2>1, <2>2, NoProfile, LinesAre, InstallGoesOn
  <1>6. CASE b[k].there
    <2>1. /\ d' = [d EXCEPT ![p].at = "rename again", ![p].old = b[k]]
          /\ b' = [b EXCEPT ![k] = Completion!NoFile]
      BY <1>3, <1>6 DEF Completion!SetAside
    <2>2. PICK new : new = [d[p] EXCEPT !.at = "rename again", !.old = b[k]]
      OBVIOUS
    <2>3. /\ new \in InstallStates /\ new.at = "rename again" /\ new.of = k
          /\ new.new = d[p].new /\ new.old = b[k]
      BY <1>2, <1>3, <2>2 DEF InstallStates, InstallSteps
    <2>4. d' = [d EXCEPT ![p] = new]
      BY <2>1, <2>2
    <2>5. b[k].lines <= i + 1 /\ b[k] \in Profile
      BY <1>2, <1>3 DEF InstallInv, LinesWithin
    <2>6. ASSUME ~g', ~h'
          PROVE  Carried(new)' /\ \A m \in Places : Held(m)'
      <3>1. d[p].new.lines >= f[k] \/ Left(k)
        BY <1>1, <1>3, <2>6, CarriedOf
      <3>2. b[k].lines >= f[k] \/ Left(k)
        BY <1>1, <1>6, <2>6 DEF InstallInv, Held
      <3>3. Carried(new)'
        BY <1>1, <2>3, <3>1, <3>2 DEF Carried, Left
      <3>4. d'[p] = new /\ \A q \in Processes \ {p} : d'[q] = d[q]
        BY <2>4 DEF InstallInv, InstallTyped
      <3>5. b'[k] = Completion!NoFile /\ \A m \in Places \ {k} : b'[m] = b[m]
        BY <2>1 DEF InstallInv, InstallTyped
      <3>6. Held(k)'
        BY <2>3, <3>4, <3>5, NoProfile DEF Held
      <3>7. ASSUME NEW m \in Places, m # k
            PROVE  Held(m)'
        <4>1. Held(m) /\ b'[m] = b[m] /\ (Left(m) => Left(m)')
          BY <1>1, <2>6, <3>5, <3>7 DEF InstallInv, Left
        <4>2. CASE \E q \in Processes :
                      d[q].of = m /\ d[q].at \in {"rename again", "roll back"}
          <5>1. PICK q \in Processes :
                   d[q].of = m /\ d[q].at \in {"rename again", "roll back"}
            BY <4>2
          <5>2. d'[q] = d[q]
            BY <1>3, <3>4, <3>7, <5>1
          <5>3. QED
            BY <1>1, <4>1, <5>1, <5>2 DEF Held
        <4>3. QED
          BY <1>1, <4>1, <4>2 DEF Held
      <3>8. QED
        BY <3>3, <3>6, <3>7
    <2>7. /\ b' \in [Places -> Profile]
          /\ \A m \in Places : b'[m].block = "ours" => c' # "absent"
          /\ \A m \in Places : b'[m].lines <= i + 1
      BY <1>1, <1>4, <2>1, NoProfile, LinesAre DEF InstallInv, InstallTyped, LinesWithin
    <2>8. QED
      BY <1>1, <1>2, <1>4, <2>3, <2>4, <2>5, <2>6, <2>7, LinesAre, InstallGoes
  <1>7. QED
    BY <1>5, <1>6

LEMMA RenameAgainKeeps ==
    ASSUME InstallInv, NEW p \in Processes, Completion!RenameAgain(p)
    PROVE  InstallInv'
  <1>1. /\ d[p].at = "rename again" /\ UNCHANGED <<a, c, e, f, g, h, i>>
        /\ \/ b' = [b EXCEPT ![d[p].of] = d[p].new] /\ Completion!Goto(p, "clean up")
           \/ Completion!Goto(p, "roll back") /\ UNCHANGED b
    BY DEF Completion!RenameAgain, Completion!Replace, Completion!Rest
  <1>2. /\ d[p] \in InstallStates /\ d[p].of \in Places /\ d[p].new \in Profile
        /\ d[p].new.lines <= i + 1 /\ d[p].old.lines <= i + 1
    BY InstallOf, LinesAre
  <1>3. PICK k \in Places : k = d[p].of
    BY <1>2
  <1>4. PICK content \in Profile : content = d[p].new
    BY <1>2
  <1>5. ~g' /\ ~h' => /\ content.lines >= f[k] \/ Left(k)
                      /\ d[p].old.lines >= f[k] \/ Left(k)
    BY <1>1, <1>3, <1>4, CarriedOf
  <1>6. d[p].at \notin {"idle", "truncate"} /\ c # "absent"
    BY <1>1 DEF InstallInv, Scripted
  <1>7. CASE b' = [b EXCEPT ![d[p].of] = d[p].new] /\ Completion!Goto(p, "clean up")
    <2>1. PICK new \in InstallStates :
             /\ d' = [d EXCEPT ![p] = new]
             /\ new.at = "clean up" /\ new.of = d[p].of
             /\ new.new = d[p].new /\ new.old = d[p].old
      BY <1>7, GotoIs DEF InstallSteps
    <2>2. Carried(new)'
      BY <2>1 DEF Carried
    <2>3. b' = [b EXCEPT ![k] = content] /\ content.lines <= i + 1
      BY <1>2, <1>3, <1>4, <1>7
    <2>4. new.new.lines <= i + 1 /\ new.old.lines <= i + 1
      BY <1>2, <2>1
    <2>5. QED
      BY <1>1, <1>3, <1>5, <1>6, <2>1, <2>2, <2>3, <2>4, InstallReplaces
  <1>8. CASE Completion!Goto(p, "roll back") /\ UNCHANGED b
    <2>1. PICK new \in InstallStates :
             /\ d' = [d EXCEPT ![p] = new]
             /\ new.at = "roll back" /\ new.of = d[p].of
             /\ new.new = d[p].new /\ new.old = d[p].old
      BY <1>8, GotoIs DEF InstallSteps
    <2>2. ~g' /\ ~h' => Carried(new)'
      BY <1>1, <1>3, <1>5, <2>1 DEF Carried, Left
    <2>3. QED
      BY <1>1, <1>2, <1>6, <1>8, <2>1, <2>2, LinesAre, InstallGoesOn
  <1>9. QED
    BY <1>1, <1>7, <1>8

LEMMA RollBackKeeps ==
    ASSUME InstallInv, NEW p \in Processes, Completion!RollBack(p)
    PROVE  InstallInv'
  <1>1. /\ d[p].at = "roll back" /\ UNCHANGED <<a, c, e, f, g, i>>
        /\ d' = [d EXCEPT ![p] = Completion!Idle]
        /\ \/ b' = [b EXCEPT ![d[p].of] = d[p].old] /\ UNCHANGED h
           \/ h' = TRUE /\ UNCHANGED b
    BY DEF Completion!RollBack, Completion!RolledBack, Completion!Ends, Completion!Rest
  <1>2. /\ d[p].of \in Places /\ d[p].old \in Profile /\ d[p].old.lines <= i + 1
    BY InstallOf, LinesAre
  <1>3. PICK k \in Places : k = d[p].of
    BY <1>2
  <1>4. PICK content \in Profile : content = d[p].old
    BY <1>2
  <1>5. d[p].at \notin {"idle", "truncate"} /\ c # "absent"
    BY <1>1 DEF InstallInv, Scripted
  <1>6. Carried(Completion!Idle)'
    BY NoProfile DEF Carried
  <1>7. CASE b' = [b EXCEPT ![d[p].of] = d[p].old] /\ UNCHANGED h
    <2>1. ~g' /\ ~h' => content.lines >= f[k] \/ Left(k)
      BY <1>1, <1>3, <1>4, <1>7, CarriedOf
    <2>2. b' = [b EXCEPT ![k] = content] /\ content.lines <= i + 1
      BY <1>2, <1>3, <1>4, <1>7
    <2>3. /\ Completion!Idle \in InstallStates
          /\ Completion!Idle.new.lines <= i + 1 /\ Completion!Idle.old.lines <= i + 1
      BY NoProfile, LinesAre
    <2>4. ~h' => ~h
      BY <1>7
    <2>5. QED
      BY <1>1, <1>3, <1>5, <1>6, <2>1, <2>2, <2>3, <2>4, InstallReplaces
  <1>8. CASE h' = TRUE /\ UNCHANGED b
    <2>1. /\ b' \in [Places -> Profile]
          /\ \A m \in Places : b'[m].block = "ours" => c' # "absent"
          /\ \A m \in Places : b'[m].lines <= i + 1
      BY <1>1, <1>8 DEF InstallInv, InstallTyped, Scripted, LinesWithin
    <2>2. QED
      BY <1>1, <1>5, <1>8, <2>1, NoProfile, LinesAre, InstallGoes
  <1>9. QED
    BY <1>1, <1>7, <1>8

LEMMA CleanUpKeeps ==
    ASSUME InstallInv, NEW p \in Processes, Completion!CleanUp(p)
    PROVE  InstallInv'
  <1>1. /\ d[p].at = "clean up" /\ UNCHANGED <<a, b, c, e, f, g, h, i>>
        /\ Completion!NextProfile(p)
    BY DEF Completion!CleanUp, Completion!Rest
  <1>2. PICK new \in InstallStates :
           /\ d' = [d EXCEPT ![p] = new]
           /\ new.at \in {"idle", "read"}
           /\ new.new.lines = 0 /\ new.old.lines = 0
    BY <1>1, NextProfileIs
  <1>3. Carried(new)' /\ c # "absent"
    BY <1>1, <1>2 DEF Carried, InstallInv, Scripted
  <1>4. QED
    BY <1>1, <1>2, <1>3, LinesAre, InstallGoesOn

LEMMA KilledKeeps ==
    ASSUME InstallInv, NEW p \in Processes, Completion!Killed(p)
    PROVE  InstallInv'
  <1>1. /\ d' = [d EXCEPT ![p] = Completion!Idle]
        /\ UNCHANGED <<a, b, c, f, g, h, i>>
        /\ e' = IF d[p].at \in Completion!Aside
                THEN [e EXCEPT ![d[p].of] = @ \cup {d[p].old}] ELSE e
    BY DEF Completion!Killed, Completion!Ends, Completion!Rest
  <1>2. d[p].of \in Places /\ d[p].old \in Profile
    BY InstallOf
  <1>3. /\ e' \in [Places -> SUBSET Profile]
        /\ \A k \in Places : e[k] \subseteq e'[k]
        /\ d[p].at \in {"rename again", "roll back"} =>
              \A k \in Places : k = d[p].of => d[p].old \in e'[k]
    BY <1>1, <1>2 DEF InstallInv, InstallTyped, Completion!Aside
  <1>4. ASSUME ~g', ~h', d[p].at \in {"rename again", "roll back"},
               NEW k \in Places, k = d[p].of
        PROVE  Left(k)'
    <2>1. d[p].old.lines >= f[k] \/ Left(k)
      BY <1>1, <1>4, CarriedOf
    <2>2. QED
      BY <1>1, <1>3, <1>4, <2>1 DEF Left
  <1>5. Carried(Completion!Idle)'
    BY NoProfile DEF Carried
  <1>6. QED
    BY <1>1, <1>3, <1>4, <1>5, NoProfile, LinesAre, InstallGoesOn

LEMMA EditProfileKeeps ==
    ASSUME InstallInv, NEW k \in Places, Completion!EditProfile(k)
    PROVE  InstallInv'
  <1>1. i' = i + 1 /\ UNCHANGED <<a, c, d, e, f, g, h>>
    BY DEF Completion!EditProfile
  <1>2. PICK block \in {b[k].block, "none"} :
           b' = [b EXCEPT ![k] = [there |-> TRUE, lines |-> i + 2, block |-> block]]
    BY DEF Completion!EditProfile
  <1>3. PICK content : content = [there |-> TRUE, lines |-> i + 2, block |-> block]
    OBVIOUS
  <1>4. /\ i \in Nat /\ b \in [Places -> Profile] /\ f[k] \in Nat /\ f[k] <= i + 1
        /\ b[k].block \in {"none", "old", "ours", "malformed"}
    BY DEF InstallInv, InstallTyped, LinesWithin, Profile
  <1>5. /\ content \in Profile /\ content.lines = i + 2
        /\ content.block = "ours" => c # "absent"
    BY <1>2, <1>3, <1>4 DEF Profile, InstallInv, Scripted
  <1>6. b'[k] = content /\ \A m \in Places \ {k} : b'[m] = b[m]
    BY <1>2, <1>3, <1>4
  <1>7. InstallTyped'
    BY <1>1, <1>2, <1>3, <1>4, <1>5 DEF InstallInv, InstallTyped
  <1>8. Scripted'
    BY <1>1, <1>5, <1>6 DEF InstallInv, Scripted
  <1>9. LinesWithin'
    <2>1. \A m \in Places : f[m] \in Nat /\ b[m].lines \in Nat
      BY DEF InstallInv, InstallTyped, Profile
    <2>2. \A p \in Processes : d[p].new.lines \in Nat /\ d[p].old.lines \in Nat
      BY InstallOf DEF Profile
    <2>3. QED
      BY <1>1, <1>4, <1>5, <1>6, <2>1, <2>2 DEF InstallInv, LinesWithin
  <1>10. ASSUME ~g', ~h', NEW m \in Places
         PROVE  Held(m)'
    <2>1. CASE m = k
      <3>1. b'[m].lines >= f'[m]
        BY <1>1, <1>4, <1>5, <1>6, <2>1
      <3>2. QED
        BY <3>1 DEF Held
    <2>2. CASE m # k
      <3>1. Held(m) /\ b'[m] = b[m]
        BY <1>1, <1>6, <1>10, <2>2 DEF InstallInv
      <3>2. QED
        BY <1>1, <3>1 DEF Held, Left
    <2>3. QED
      BY <2>1, <2>2
  <1>11. ASSUME ~g', ~h', NEW p \in Processes
         PROVE  Carried(d[p])'
    BY <1>1, <1>11 DEF InstallInv, Carried, Left
  <1>12. QED
    BY <1>7, <1>8, <1>9, <1>10, <1>11 DEF InstallInv

LEMMA InstallBegins == Completion!Init => InstallInv
  <1> SUFFICES ASSUME Completion!Init
               PROVE  InstallInv
    OBVIOUS
  <1>1. /\ a \in {0, 1, 2} /\ i = 0 /\ d = [p \in Processes |-> Completion!Idle]
        /\ e = [k \in Places |-> {}] /\ f = [k \in Places |-> b[k].lines]
        /\ b \in [Places -> {Completion!NoFile} \cup
                     [there : {TRUE}, lines : {1}, block : {"none", "old", "malformed"}]]
    BY DEF Completion!Init, Completion!AllProfiles, Places
  <1>2. \A k \in Places : /\ b[k] \in Profile /\ b[k].lines \in {0, 1}
                          /\ b[k].block # "ours"
    <2>1. ASSUME NEW k \in Places
          PROVE  /\ b[k] \in Profile /\ b[k].lines \in {0, 1}
                 /\ b[k].block # "ours"
      <3>1. CASE b[k] = Completion!NoFile
        BY <3>1, NoProfile
      <3>2. CASE b[k] \in [there : {TRUE}, lines : {1},
                           block : {"none", "old", "malformed"}]
        <4>1. PICK block \in {"none", "old", "malformed"} :
                 b[k] = [there |-> TRUE, lines |-> 1, block |-> block]
          BY <3>2
        <4>2. QED
          BY <4>1 DEF Profile
      <3>3. QED
        BY <1>1, <3>1, <3>2
    <2>2. QED
      BY <2>1
  <1>3. InstallTyped
    BY <1>1, <1>2, NoProfile DEF InstallTyped, Profile
  <1>4. Scripted
    BY <1>1, <1>2, NoProfile DEF Scripted
  <1>5. LinesWithin
    BY <1>1, <1>2, NoProfile DEF LinesWithin
  <1>6. \A k \in Places : Held(k)
    <2>1. \A k \in Places : b[k].lines >= f[k]
      BY <1>1, <1>2
    <2>2. QED
      BY <2>1 DEF Held
  <1>7. \A p \in Processes : Carried(d[p])
    BY <1>1, NoProfile DEF Carried
  <1>8. QED
    BY <1>3, <1>4, <1>5, <1>6, <1>7 DEF InstallInv

LEMMA InstallStep == InstallInv /\ Completion!Next => InstallInv'
  <1> SUFFICES ASSUME InstallInv, Completion!Next
               PROVE  InstallInv'
    OBVIOUS
  <1>1. ASSUME NEW p \in Processes, Completion!Run(p)
        PROVE  InstallInv'
    BY <1>1, StartInstallKeeps, TruncateKeeps, GenerateKeeps, EnsureManagedBlockKeeps,
       RenameKeeps, SetAsideKeeps, RenameAgainKeeps, RollBackKeeps, CleanUpKeeps,
       KilledKeeps DEF Completion!Run
  <1>2. ASSUME NEW k \in Completion!Profiles, Completion!EditProfile(k)
        PROVE  InstallInv'
    <2>1. k \in Places
      BY DEF Completion!Profiles, Places, InstallInv, InstallTyped
    <2>2. QED
      BY <1>2, <2>1, EditProfileKeeps
  <1>3. QED
    BY <1>1, <1>2 DEF Completion!Next

LEMMA InstallAlways == Spec => [](part = "completion" => InstallInv)
  <1> DEFINE Inv == part = "completion" => InstallInv
  <1>1. Init => Inv
    BY InstallBegins DEF Init
  <1>2. Inv /\ [Next]_vars => Inv'
    <2> SUFFICES ASSUME Inv, [Next]_vars, part' = "completion"
                 PROVE  InstallInv'
      OBVIOUS
    <2>1. CASE UNCHANGED vars
      BY <2>1 DEF vars, InstallInv, InstallTyped, Scripted, LinesWithin, Held, Left,
         Carried
    <2>2. CASE Next
      <3>1. part = "completion"
        BY <2>2 DEF Next
      <3>2. Completion!Next
        BY <2>2, <3>1 DEF Next, RunState, RunInit, RunList, RunScan, RunRead,
           RunShow, RunCompletion, RunCurrent
      <3>3. QED
        BY <3>1, <3>2, InstallStep
    <2>3. QED
      BY <2>1, <2>2
  <1>3. QED
    BY <1>1, <1>2, PTL DEF Spec

\* The lines a user wrote while no install ran are in the profile or beside it,
\* whatever failed or was killed (writeProfile and replaceFile of
\* internal/completion/install.go), unless a roll back failed or another install
\* read the profile while it was aside; and what is connected has a script.
THEOREM ProfilesAreKept == Spec => []ProfileKept
  <1>1. InstallInv => Completion!ProfileKept
    <2> SUFFICES ASSUME InstallInv
                 PROVE  Completion!ProfileKept
      OBVIOUS
    <2>1. \A k \in Completion!Profiles : k \in Places
      BY DEF Completion!Profiles, Places, InstallInv, InstallTyped
    <2>2. ASSUME ~g, ~h, NEW k \in Completion!Profiles
          PROVE  \E content \in {b[k]} \cup Completion!Beside(k) :
                    content.lines >= f[k]
      <3>1. k \in Places /\ Held(k)
        BY <2>1, <2>2 DEF InstallInv
      <3>2. CASE b[k].lines >= f[k]
        BY <3>2
      <3>3. CASE Left(k)
        BY <3>3 DEF Left, Completion!Beside
      <3>4. CASE \E p \in Processes :
                    d[p].of = k /\ d[p].at \in {"rename again", "roll back"}
        <4>1. PICK p \in Processes :
                 d[p].of = k /\ d[p].at \in {"rename again", "roll back"}
          BY <3>4
        <4>2. d[p].old.lines >= f[k] \/ Left(k)
          BY <2>2, <3>1, <4>1, CarriedOf
        <4>3. d[p].old \in Completion!Beside(k)
          BY <4>1 DEF Completion!Beside, Completion!Aside
        <4>4. QED
          BY <3>3, <4>2, <4>3
      <3>5. QED
        BY <3>1, <3>2, <3>3, <3>4 DEF Held
    <2>3. \A k \in Completion!Profiles : b[k].block = "ours" => c # "absent"
      BY <2>1 DEF InstallInv, Scripted
    <2>4. QED
      BY <2>2, <2>3 DEF Completion!ProfileKept
  <1>2. (part = "completion" => InstallInv) => ProfileKept
    BY <1>1 DEF ProfileKept
  <1>3. QED
    BY <1>2, InstallAlways, PTL

-----------------------------------------------------------------------------
(* catalog state export and import (StateTransfer): a is the schema, b the  *)
(* retained tables, c the scan, d the export, e the import, f the files, g  *)
(* what was reported, h the tables that were put in a stream.               *)

IsMap(map) == map = [x \in DOMAIN map |-> map[x]]
Shaped(t) ==
    /\ t = [source |-> t.source, occurrence |-> t.occurrence, blob |-> t.blob,
            revision |-> t.revision, checkpoint |-> t.checkpoint]
    /\ IsMap(t.source) /\ IsMap(t.occurrence) /\ IsMap(t.checkpoint)
AllIntact(t) == \A x \in t.blob : x.intact

\* What an undisturbed export has read is what the tables hold.
ReadSoFar(at, got, t) ==
    /\ at >= 3 => got.source = t.source
    /\ at >= 4 => got.occurrence = t.occurrence
    /\ at >= 5 => got.blob = t.blob
    /\ at >= 6 => got.revision = t.revision
    /\ at >= 7 => got.checkpoint = t.checkpoint

\* And the tables that an undisturbed import has looked at are empty.
EmptySoFar(at, t) ==
    /\ at >= 4 => t.source = State!None
    /\ at >= 5 => t.occurrence = State!None
    /\ at >= 6 => t.blob = {}
    /\ at >= 7 => t.revision = {}
    /\ at >= 8 => t.checkpoint = State!None

Exporting(it, t, reports) ==
    /\ DOMAIN it = {"at", "path", "got", "quiet"}
    /\ it.at \in 0 .. 7 /\ Shaped(it.got)
    /\ it.at # 0 => it.path \in Paths /\ ~reports[it.path].reported
    /\ it.at # 0 /\ it.quiet => ReadSoFar(it.at, it.got, t)

Importing(it, t, written) ==
    /\ DOMAIN it = {"at", "stream", "alone", "outcome"}
    /\ it.at \in 0 .. 8
    /\ it.at # 0 => it.outcome = "none"
    /\ it.at >= 3 => it.stream \in written /\ State!Valid(it.stream)
    /\ it.at >= 3 /\ it.alone => EmptySoFar(it.at, t)
    /\ it.outcome = "restored" =>
          it.stream \in written /\ (it.alone => t = it.stream)
    /\ it.outcome = "constraint" => ~it.alone

\* A manifest has the checksum of a stream that was written as one, and what was
\* reported at a path is there.
Stored(there, report, written) ==
    /\ DOMAIN there = {"manifest", "body", "exists"} /\ Shaped(there.body)
    /\ DOMAIN report = {"reported", "quiet", "stream"}
    /\ there.manifest.revision = "ours" => there.manifest.checksum \in written
    /\ report.reported => /\ there = State!At(State!Whole(report.stream))
                          /\ report.quiet => State!Valid(report.stream)

TransferInv ==
    /\ Shaped(b) /\ State!Valid(b)
    /\ Exporting(d, b, g) /\ Importing(e, b, h)
    /\ DOMAIN f = Paths /\ DOMAIN g = Paths
    /\ \A p \in Paths : Stored(f[p], g[p], h)
    /\ \A s \in h : Shaped(s)

LEMMA EmptyIs ==
    /\ Shaped(State!Empty) /\ State!Valid(State!Empty)
    /\ State!Empty.source = State!None /\ State!Empty.occurrence = State!None
    /\ State!Empty.blob = {} /\ State!Empty.revision = {}
    /\ State!Empty.checkpoint = State!None
    /\ DOMAIN State!None = {} /\ IsMap(State!None)
  <1>1. /\ State!Empty.source = State!None /\ State!Empty.occurrence = State!None
        /\ State!Empty.blob = {} /\ State!Empty.revision = {}
        /\ State!Empty.checkpoint = State!None
        /\ State!Empty = [source |-> State!None, occurrence |-> State!None, blob |-> {},
                          revision |-> {}, checkpoint |-> State!None]
    BY DEF State!Empty
  <1>2. DOMAIN State!None = {} /\ IsMap(State!None)
    BY DEF State!None, IsMap
  <1>3. Shaped(State!Empty)
    BY <1>1, <1>2 DEF Shaped
  <1>4. State!Valid(State!Empty)
    BY <1>1, <1>2 DEF State!Valid, State!References
  <1>5. QED
    BY <1>1, <1>2, <1>3, <1>4

\* What nobody can take for undisturbed any more may be anything.
LEMMA ExportDisturbed ==
    ASSUME TransferInv, State!DisturbExport, NEW t
    PROVE  Exporting(d', t, g)
  <1>1. /\ Exporting(d, b, g)
        /\ d' = [d EXCEPT !.quiet = d.quiet /\ d.at = 0]
    BY DEF TransferInv, State!DisturbExport
  <1>2. /\ DOMAIN d' = {"at", "path", "got", "quiet"} /\ d'.at = d.at
        /\ d'.path = d.path /\ d'.got = d.got /\ (d'.quiet <=> d.quiet /\ d.at = 0)
    BY <1>1 DEF Exporting
  <1>3. QED
    BY <1>1, <1>2 DEF Exporting

LEMMA ImportDisturbed ==
    ASSUME TransferInv, State!DisturbImport, NEW t
    PROVE  Importing(e', t, h)
  <1>1. /\ Importing(e, b, h)
        /\ e' = [e EXCEPT !.alone = e.alone /\ e.at = 0 /\ e.outcome # "restored"]
    BY DEF TransferInv, State!DisturbImport
  <1>2. /\ DOMAIN e' = {"at", "stream", "alone", "outcome"} /\ e'.at = e.at
        /\ e'.stream = e.stream /\ e'.outcome = e.outcome
        /\ e'.alone <=> e.alone /\ e.at = 0 /\ e.outcome # "restored"
    BY <1>1 DEF Importing
  <1>3. QED
    BY <1>1, <1>2 DEF Importing

\* A statement of a scan: what violates a reference is not retained.
LEMMA StatementKeeps ==
    ASSUME TransferInv, NEW from, NEW new, NEW then, State!Statement(from, new, then),
           Shaped(new), AllIntact(new)
    PROVE  TransferInv'
  <1>1. UNCHANGED <<f, g, h>>
    BY DEF State!Statement
  <1>2. CASE a = "ours" /\ State!References(new)
    <2>1. b' = new /\ State!DisturbExport /\ State!DisturbImport
      BY <1>2 DEF State!Statement
    <2>2. State!Valid(new)
      BY <1>2 DEF State!Valid, AllIntact
    <2>3. Exporting(d', new, g) /\ Importing(e', new, h)
      BY <2>1, ExportDisturbed, ImportDisturbed
    <2>4. QED
      BY <1>1, <2>1, <2>2, <2>3 DEF TransferInv
  <1>3. CASE ~(a = "ours" /\ State!References(new))
    BY <1>1, <1>3 DEF State!Statement, TransferInv
  <1>4. QED
    BY <1>2, <1>3

\* One table of a shape.
LEMMA ShapedIs ==
    ASSUME NEW t, Shaped(t)
    PROVE  /\ DOMAIN t = {"source", "occurrence", "blob", "revision", "checkpoint"}
           /\ IsMap(t.source) /\ IsMap(t.occurrence) /\ IsMap(t.checkpoint)
  <1>1. PICK x1, x2, x3, x4, x5 :
           t = [source |-> x1, occurrence |-> x2, blob |-> x3, revision |-> x4,
                checkpoint |-> x5]
    BY DEF Shaped
  <1>2. QED
    BY <1>1 DEF Shaped

LEMMA WithSource ==
    ASSUME NEW t, Shaped(t), NEW x, IsMap(x)
    PROVE  /\ Shaped([t EXCEPT !.source = x])
           /\ [t EXCEPT !.source = x].blob = t.blob
  BY ShapedIs DEF Shaped

LEMMA WithOccurrence ==
    ASSUME NEW t, Shaped(t), NEW x, IsMap(x)
    PROVE  /\ Shaped([t EXCEPT !.occurrence = x])
           /\ [t EXCEPT !.occurrence = x].blob = t.blob
  BY ShapedIs DEF Shaped

LEMMA WithBlob ==
    ASSUME NEW t, Shaped(t), NEW x
    PROVE  /\ Shaped([t EXCEPT !.blob = x])
           /\ [t EXCEPT !.blob = x].blob = x
  BY ShapedIs DEF Shaped

LEMMA WithRevision ==
    ASSUME NEW t, Shaped(t), NEW x
    PROVE  /\ Shaped([t EXCEPT !.revision = x])
           /\ [t EXCEPT !.revision = x].blob = t.blob
  BY ShapedIs DEF Shaped

LEMMA WithCheckpoint ==
    ASSUME NEW t, Shaped(t), NEW x, IsMap(x)
    PROVE  /\ Shaped([t EXCEPT !.checkpoint = x])
           /\ [t EXCEPT !.checkpoint = x].blob = t.blob
  BY ShapedIs DEF Shaped

LEMMA SetIsMap == \A map, x, y : IsMap(State!Set(map, x, y))
  BY DEF State!Set, IsMap

LEMMA GoneIsMap == \A map, seen : IsMap(State!Gone(map, seen))
  BY DEF State!Gone, IsMap

LEMMA CatalogIs ==
    ASSUME TransferInv
    PROVE  Shaped(b) /\ AllIntact(b)
  BY DEF TransferInv, State!Valid, AllIntact

LEMMA ScanKeeps ==
    ASSUME TransferInv, State!Scan
    PROVE  TransferInv'
  <1>1. CASE State!ObserveSource
    <2> DEFINE seen == State!SourcesOf(c.listed)
               x == [s \in DOMAIN b.source \cup seen |->
                        IF s \in seen THEN "visible" ELSE b.source[s]]
               new == [b EXCEPT !.source = x]
    <2>1. State!Statement("sources", new, [c EXCEPT !.at = "session"])
      BY <1>1 DEF State!ObserveSource
    <2>2. IsMap(x)
      BY DEF IsMap
    <2> HIDE DEF x
    <2>3. Shaped(new) /\ AllIntact(new)
      BY <2>2, CatalogIs, WithSource DEF AllIntact
    <2>4. QED
      BY <2>1, <2>3, StatementKeeps
  <1>2. CASE State!ObserveOccurrence
    <2>1. PICK r, then :
             State!Statement("session",
                             [b EXCEPT !.occurrence = State!Set(@, r.occurrence, "visible")],
                             then)
      BY <1>2 DEF State!ObserveOccurrence
    <2> DEFINE x == State!Set(b.occurrence, r.occurrence, "visible")
               new == [b EXCEPT !.occurrence = x]
    <2>2. State!Statement("session", new, then)
      BY <2>1
    <2>3. Shaped(new) /\ AllIntact(new)
      BY CatalogIs, SetIsMap, WithOccurrence DEF AllIntact
    <2>4. QED
      BY <2>2, <2>3, StatementKeeps
  <1>3. CASE State!PutExternal
    <2> DEFINE x == b.blob \cup {State!Intact(c.rev.external)}
               new == [b EXCEPT !.blob = x]
    <2>1. State!Statement("external", new, [c EXCEPT !.at = "snapshot"])
      BY <1>3 DEF State!PutExternal
    <2>2. Shaped(new) /\ new.blob = x
      BY CatalogIs, WithBlob
    <2>3. AllIntact(new)
      BY <2>2, CatalogIs DEF AllIntact, State!Intact
    <2>4. QED
      BY <2>1, <2>2, <2>3, StatementKeeps
  <1>4. CASE State!PutSnapshot
    <2> DEFINE x == b.blob \cup {State!Intact(c.rev.snapshot)}
               new == [b EXCEPT !.blob = x]
    <2>1. State!Statement("snapshot", new, [c EXCEPT !.at = "revision"])
      BY <1>4 DEF State!PutSnapshot
    <2>2. Shaped(new) /\ new.blob = x
      BY CatalogIs, WithBlob
    <2>3. AllIntact(new)
      BY <2>2, CatalogIs DEF AllIntact, State!Intact
    <2>4. QED
      BY <2>1, <2>2, <2>3, StatementKeeps
  <1>5. CASE State!PutSessionRevision
    <2> DEFINE x == b.revision \cup {c.rev}
               new == [b EXCEPT !.revision = x]
    <2>1. State!Statement("revision", new, [c EXCEPT !.at = "checkpoint"])
      BY <1>5 DEF State!PutSessionRevision
    <2>2. Shaped(new) /\ AllIntact(new)
      BY CatalogIs, WithRevision DEF AllIntact
    <2>3. QED
      BY <2>1, <2>2, StatementKeeps
  <1>6. CASE State!PutCheckpoint
    <2> DEFINE x == State!Set(b.checkpoint, c.rev.occurrence, c.rev)
               new == [b EXCEPT !.checkpoint = x]
    <2>1. State!Statement("checkpoint", new, [c EXCEPT !.at = "session"])
      BY <1>6 DEF State!PutCheckpoint
    <2>2. Shaped(new) /\ AllIntact(new)
      BY CatalogIs, SetIsMap, WithCheckpoint DEF AllIntact
    <2>3. QED
      BY <2>1, <2>2, StatementKeeps
  <1>7. CASE State!TombstoneOccurrences
    <2> DEFINE x == State!Gone(b.occurrence, c.listed)
               new == [b EXCEPT !.occurrence = x]
    <2>1. State!Statement("occurrences gone", new, [c EXCEPT !.at = "sources gone"])
      BY <1>7 DEF State!TombstoneOccurrences
    <2>2. Shaped(new) /\ AllIntact(new)
      BY CatalogIs, GoneIsMap, WithOccurrence DEF AllIntact
    <2>3. QED
      BY <2>1, <2>2, StatementKeeps
  <1>8. CASE State!TombstoneSources
    <2> DEFINE x == State!Gone(b.source, State!SourcesOf(c.listed))
               new == [b EXCEPT !.source = x]
    <2>1. State!Statement("sources gone", new, State!IdleScan)
      BY <1>8 DEF State!TombstoneSources
    <2>2. Shaped(new) /\ AllIntact(new)
      BY CatalogIs, GoneIsMap, WithSource DEF AllIntact
    <2>3. QED
      BY <2>1, <2>2, StatementKeeps
  <1>9. CASE State!StartScan \/ State!EndOfListing \/ State!ScanFails
    <2>1. UNCHANGED <<b, d, e, f, g, h>>
      BY <1>9 DEF State!StartScan, State!EndOfListing, State!ScanFails
    <2>2. QED
      BY <2>1 DEF TransferInv
  <1>10. QED
    BY <1>1, <1>2, <1>3, <1>4, <1>5, <1>6, <1>7, <1>8, <1>9 DEF State!Scan

LEMMA ExportIs ==
    ASSUME TransferInv
    PROVE  /\ DOMAIN d = {"at", "path", "got", "quiet"} /\ d.at \in 0 .. 7
           /\ Shaped(d.got)
           /\ d.at # 0 => d.path \in Paths /\ ~g[d.path].reported
           /\ d.at # 0 /\ d.quiet => ReadSoFar(d.at, d.got, b)
  BY DEF TransferInv, Exporting

LEMMA IdleExportIs == \A t, reports : Exporting(State!IdleExport, t, reports)
  BY EmptyIs DEF State!IdleExport, Exporting

\* An export goes on, and nothing is written.
LEMMA ExportGoes ==
    ASSUME TransferInv, Exporting(d', b, g), UNCHANGED <<b, e, f, g, h>>
    PROVE  TransferInv'
  BY DEF TransferInv

\* A file is written, as no export did before.
LEMMA FileWritten ==
    ASSUME TransferInv, NEW path \in Paths, NEW there, NEW report,
           f' = [f EXCEPT ![path] = there], g'[path] = report,
           DOMAIN g' = Paths, \A p \in Paths \ {path} : g'[p] = g[p],
           h \subseteq h', \A s \in h' : Shaped(s),
           Stored(there, report, h'),
           UNCHANGED <<b, e>>, Exporting(d', b, g')
    PROVE  TransferInv'
  <1>1. /\ DOMAIN f' = Paths /\ DOMAIN g' = Paths
        /\ f'[path] = there /\ g'[path] = report
        /\ \A p \in Paths \ {path} : f'[p] = f[p] /\ g'[p] = g[p]
    BY DEF TransferInv
  <1>2. ASSUME NEW p \in Paths
        PROVE  Stored(f'[p], g'[p], h')
    <2>1. CASE p = path
      BY <1>1, <2>1
    <2>2. CASE p # path
      BY <1>1, <2>2 DEF TransferInv, Stored
    <2>3. QED
      BY <2>1, <2>2
  <1>3. Importing(e', b', h')
    BY DEF TransferInv, Importing
  <1>4. QED
    BY <1>1, <1>2, <1>3 DEF TransferInv

LEMMA WholeIs ==
    ASSUME NEW t
    PROVE  /\ State!At(State!Whole(t)).body = t
           /\ State!At(State!Whole(t)).manifest = State!Manifest(t)
           /\ State!Manifest(t).checksum = t /\ State!Manifest(t).revision = "ours"
           /\ State!Manifest(t).counts = State!CountsOf(t)
           /\ State!At(State!Whole(t)).exists
           /\ DOMAIN State!At(State!Whole(t)) = {"manifest", "body", "exists"}
  BY DEF State!At, State!Whole, State!Manifest

LEMMA BlankIs ==
    /\ State!At(State!Blank).body = State!Empty
    /\ State!At(State!Blank).manifest.revision = "none"
    /\ DOMAIN State!At(State!Blank) = {"manifest", "body", "exists"}
  BY DEF State!At, State!Blank, State!NoManifest

LEMMA CreateStreamKeeps ==
    ASSUME TransferInv, NEW path \in Paths, State!CreateStream(path)
    PROVE  TransferInv'
  <1>1. /\ ~f[path].exists
        /\ f' = [f EXCEPT ![path] = State!At(State!Blank)]
        /\ d' = [at |-> 1, path |-> path, got |-> State!Empty, quiet |-> TRUE]
        /\ UNCHANGED <<b, e, g, h>>
    BY DEF State!CreateStream, State!Creates, State!ExportRest
  <1>2. ~g[path].reported
    <2>1. Stored(f[path], g[path], h)
      BY DEF TransferInv
    <2>2. QED
      BY <1>1, <2>1, WholeIs DEF Stored
  <1>3. PICK report : report = g[path]
    OBVIOUS
  <1>4. /\ g'[path] = report /\ DOMAIN g' = Paths
        /\ \A p \in Paths \ {path} : g'[p] = g[p]
    BY <1>1, <1>3 DEF TransferInv
  <1>5. Stored(State!At(State!Blank), report, h')
    BY <1>2, <1>3, BlankIs, EmptyIs DEF Stored, TransferInv
  <1>6. Exporting(d', b, g')
    BY <1>1, <1>2, EmptyIs DEF Exporting, ReadSoFar
  <1>7. QED
    BY <1>1, <1>4, <1>5, <1>6, FileWritten DEF TransferInv

LEMMA ExportStatusKeeps ==
    ASSUME TransferInv, State!ExportStatus
    PROVE  TransferInv'
  <1>1. /\ d.at = 1 /\ d' = [d EXCEPT !.at = 2, !.quiet = TRUE]
        /\ UNCHANGED <<b, e, f, g, h>>
    BY DEF State!ExportStatus, State!ExportRest
  <1>2. /\ DOMAIN d' = {"at", "path", "got", "quiet"} /\ d'.at = 2
        /\ d'.got = d.got /\ d'.path = d.path
    BY <1>1, ExportIs
  <1>3. Exporting(d', b, g)
    BY <1>1, <1>2, ExportIs DEF Exporting, ReadSoFar
  <1>4. QED
    BY <1>1, <1>3, ExportGoes

LEMMA ReadStateKeeps ==
    ASSUME TransferInv, State!ReadState
    PROVE  TransferInv'
  <1> DEFINE table == State!TableOrder[d.at - 1]
  <1>1. /\ d.at \in 2 .. 6
        /\ d' = [d EXCEPT !.at = @ + 1, !.got[table] = b[table]]
        /\ UNCHANGED <<b, e, f, g, h>>
    BY DEF State!ReadState, State!ExportRest, State!ReadRows
  <1>2. /\ d.at = 2 => table = "source"
        /\ d.at = 3 => table = "occurrence"
        /\ d.at = 4 => table = "blob"
        /\ d.at = 5 => table = "revision"
        /\ d.at = 6 => table = "checkpoint"
    BY DEF State!TableOrder
  <1>3. table \in {"source", "occurrence", "blob", "revision", "checkpoint"}
    BY <1>1, <1>2
  <1> HIDE DEF table
  <1>4. /\ DOMAIN d' = {"at", "path", "got", "quiet"} /\ d'.at = d.at + 1
        /\ d'.got = [d.got EXCEPT ![table] = b[table]] /\ d'.path = d.path
        /\ d'.quiet = d.quiet
    BY <1>1, ExportIs
  <1>5. /\ Shaped(d'.got) /\ d'.got[table] = b[table]
        /\ \A other \in {"source", "occurrence", "blob", "revision",
                         "checkpoint"} \ {table} : d'.got[other] = d.got[other]
    <2>1. Shaped(d.got) /\ Shaped(b)
      BY ExportIs, CatalogIs
    <2>2. PICK t, s, m : t = d.got /\ s = b /\ m = table
      OBVIOUS
    <2>3. /\ Shaped(t) /\ Shaped(s)
          /\ m \in {"source", "occurrence", "blob", "revision", "checkpoint"}
      BY <1>3, <2>1, <2>2
    <2>4. /\ Shaped([t EXCEPT ![m] = s[m]]) /\ [t EXCEPT ![m] = s[m]][m] = s[m]
          /\ \A other \in {"source", "occurrence", "blob", "revision",
                           "checkpoint"} \ {m} :
                [t EXCEPT ![m] = s[m]][other] = t[other]
      <3>1. /\ DOMAIN t = {"source", "occurrence", "blob", "revision", "checkpoint"}
            /\ IsMap(s.source) /\ IsMap(s.occurrence) /\ IsMap(s.checkpoint)
        BY <2>3, ShapedIs
      <3>2. CASE m = "source"
        BY <2>3, <3>1, <3>2, WithSource
      <3>3. CASE m = "occurrence"
        BY <2>3, <3>1, <3>3, WithOccurrence
      <3>4. CASE m = "blob"
        BY <2>3, <3>1, <3>4, WithBlob
      <3>5. CASE m = "revision"
        BY <2>3, <3>1, <3>5, WithRevision
      <3>6. CASE m = "checkpoint"
        BY <2>3, <3>1, <3>6, WithCheckpoint
      <3>7. QED
        BY <2>3, <3>2, <3>3, <3>4, <3>5, <3>6
    <2>5. d'.got = [t EXCEPT ![m] = s[m]]
      BY <1>4, <2>2
    <2>6. QED
      BY <2>2, <2>4, <2>5
  <1>6. ASSUME d.quiet
        PROVE  ReadSoFar(d'.at, d'.got, b)
    <2>1. ReadSoFar(d.at, d.got, b)
      BY <1>1, <1>6, ExportIs
    <2>2. CASE d.at = 2
      BY <1>2, <1>4, <1>5, <2>1, <2>2 DEF ReadSoFar
    <2>3. CASE d.at = 3
      BY <1>2, <1>4, <1>5, <2>1, <2>3 DEF ReadSoFar
    <2>4. CASE d.at = 4
      BY <1>2, <1>4, <1>5, <2>1, <2>4 DEF ReadSoFar
    <2>5. CASE d.at = 5
      BY <1>2, <1>4, <1>5, <2>1, <2>5 DEF ReadSoFar
    <2>6. CASE d.at = 6
      BY <1>2, <1>4, <1>5, <2>1, <2>6 DEF ReadSoFar
    <2>7. QED
      BY <1>1, <2>2, <2>3, <2>4, <2>5, <2>6
  <1>7. Exporting(d', b, g)
    BY <1>1, <1>4, <1>5, <1>6, ExportIs DEF Exporting
  <1>8. QED
    BY <1>1, <1>7, ExportGoes

LEMMA CutIs ==
    ASSUME NEW t, Shaped(t), NEW n
    PROVE  Shaped(State!Cut(t, n))
  <1> DEFINE first(table) == \E k \in 1 .. n : State!TableOrder[k] = table
             new == State!Cut(t, n)
  <1>1. /\ DOMAIN t = {"source", "occurrence", "blob", "revision", "checkpoint"}
        /\ IsMap(t.source) /\ IsMap(t.occurrence) /\ IsMap(t.checkpoint)
    BY ShapedIs
  <1>2. new = [table \in DOMAIN t |-> IF first(table) THEN t[table]
                                      ELSE State!Empty[table]]
    BY DEF State!Cut
  <1> HIDE DEF first, new
  <1>3. /\ new = [source |-> new.source, occurrence |-> new.occurrence,
                  blob |-> new.blob, revision |-> new.revision,
                  checkpoint |-> new.checkpoint]
        /\ new.source = IF first("source") THEN t.source ELSE State!Empty.source
        /\ new.occurrence =
              IF first("occurrence") THEN t.occurrence ELSE State!Empty.occurrence
        /\ new.checkpoint =
              IF first("checkpoint") THEN t.checkpoint ELSE State!Empty.checkpoint
    BY <1>1, <1>2
  <1>4. QED
    BY <1>1, <1>3, EmptyIs DEF Shaped, new

LEMMA WritePartKeeps ==
    ASSUME TransferInv, State!WritePart
    PROVE  TransferInv'
  <1>1. /\ d.at = 7 /\ h' = h \cup {d.got} /\ UNCHANGED <<b, d, e, g>>
    BY DEF State!WritePart, State!ExportRest
  <1>2. PICK n \in {0, 3} :
           f' = [f EXCEPT ![d.path] = State!At([manifest |-> State!Manifest(d.got),
                                                body |-> State!Cut(d.got, n)])]
    BY DEF State!WritePart
  <1>3. PICK there : there = State!At([manifest |-> State!Manifest(d.got),
                                       body |-> State!Cut(d.got, n)])
    OBVIOUS
  <1>4. /\ there.body = State!Cut(d.got, n) /\ there.manifest = State!Manifest(d.got)
        /\ DOMAIN there = {"manifest", "body", "exists"}
    BY <1>3 DEF State!At
  <1>5. d.path \in Paths /\ ~g[d.path].reported /\ Shaped(d.got)
    BY <1>1, ExportIs
  <1>6. PICK path, report : path = d.path /\ path \in Paths /\ report = g[path]
    BY <1>5
  <1>7. Stored(there, report, h')
    BY <1>1, <1>4, <1>5, <1>6, CutIs, WholeIs DEF Stored, TransferInv
  <1>8. /\ f' = [f EXCEPT ![path] = there] /\ g'[path] = report
        /\ DOMAIN g' = Paths /\ \A p \in Paths \ {path} : g'[p] = g[p]
    BY <1>1, <1>2, <1>3, <1>6 DEF TransferInv
  <1>9. \A s \in h' : Shaped(s)
    BY <1>1, <1>5 DEF TransferInv
  <1>10. Exporting(d', b, g')
    BY <1>1 DEF TransferInv
  <1>11. QED
    BY <1>1, <1>6, <1>7, <1>8, <1>9, <1>10, FileWritten

\* Two tables of the same shape that agree are the same.
LEMMA ReadIsSame ==
    ASSUME NEW s, NEW t, Shaped(s), Shaped(t), ReadSoFar(7, s, t)
    PROVE  s = t
  BY DEF Shaped, ReadSoFar

LEMMA WriteRestKeeps ==
    ASSUME TransferInv, State!WriteRest
    PROVE  TransferInv'
  <1>1. /\ d.at = 7 /\ h' = h \cup {d.got} /\ UNCHANGED <<b, e>>
        /\ d' = State!IdleExport
        /\ f' = [f EXCEPT ![d.path] = State!At(State!Whole(d.got))]
        /\ g' = [g EXCEPT ![d.path] = [reported |-> TRUE, quiet |-> d.quiet,
                                       stream |-> d.got]]
    BY DEF State!WriteRest, State!ExportRest
  <1>2. d.path \in Paths /\ Shaped(d.got) /\ (d.quiet => ReadSoFar(7, d.got, b))
    BY <1>1, ExportIs
  <1>3. d.quiet => State!Valid(d.got)
    BY <1>2, ReadIsSame DEF TransferInv
  <1>4. PICK path, there, report :
           /\ path = d.path /\ path \in Paths /\ there = State!At(State!Whole(d.got))
           /\ report = [reported |-> TRUE, quiet |-> d.quiet, stream |-> d.got]
    BY <1>2
  <1>5. /\ report.reported /\ report.quiet = d.quiet /\ report.stream = d.got
        /\ DOMAIN report = {"reported", "quiet", "stream"}
    BY <1>4
  <1>6. Stored(there, report, h')
    BY <1>1, <1>2, <1>3, <1>4, <1>5, WholeIs DEF Stored
  <1>7. /\ f' = [f EXCEPT ![path] = there] /\ g'[path] = report
        /\ DOMAIN g' = Paths /\ \A p \in Paths \ {path} : g'[p] = g[p]
    BY <1>1, <1>4 DEF TransferInv
  <1>8. \A s \in h' : Shaped(s)
    BY <1>1, <1>2 DEF TransferInv
  <1>9. Exporting(d', b, g')
    BY <1>1, IdleExportIs
  <1>10. path \in Paths
    BY <1>4
  <1>11. QED
    BY <1>1, <1>6, <1>7, <1>8, <1>9, <1>10, FileWritten

LEMMA ExportKeeps ==
    ASSUME TransferInv, State!Export
    PROVE  TransferInv'
  <1>1. CASE State!ExportFails
    <2>1. d' = State!IdleExport /\ UNCHANGED <<b, e, f, g, h>>
      BY <1>1 DEF State!ExportFails, State!ExportRest
    <2>2. QED
      BY <2>1, IdleExportIs, ExportGoes
  <1>2. QED
    BY <1>1, CreateStreamKeeps, ExportStatusKeeps, ReadStateKeeps, WritePartKeeps,
       WriteRestKeeps DEF State!Export

LEMMA ImportIs ==
    ASSUME TransferInv
    PROVE  /\ DOMAIN e = {"at", "stream", "alone", "outcome"}
           /\ e.at \in 0 .. 8
           /\ e.at # 0 => e.outcome = "none"
           /\ e.at >= 3 => e.stream \in h /\ State!Valid(e.stream)
           /\ e.at >= 3 /\ e.alone => EmptySoFar(e.at, b)
  BY DEF TransferInv, Importing

\* An import goes on, and writes nothing yet.
LEMMA ImportGoes ==
    ASSUME TransferInv, Importing(e', b, h), UNCHANGED <<b, d, f, g, h>>
    PROVE  TransferInv'
  BY DEF TransferInv

LEMMA ImportEnded ==
    ASSUME TransferInv, NEW outcome \in {"refused", "constraint"},
           State!ImportEnds(outcome), outcome = "constraint" => ~e.alone,
           UNCHANGED <<f, g, h>>
    PROVE  TransferInv'
  <1>1. /\ e' = [State!IdleImport EXCEPT !.alone = e.alone, !.outcome = outcome]
        /\ UNCHANGED <<b, d>>
    BY DEF State!ImportEnds
  <1>2. /\ DOMAIN e' = {"at", "stream", "alone", "outcome"} /\ e'.at = 0
        /\ e'.outcome = outcome /\ e'.alone = e.alone
    BY <1>1 DEF State!IdleImport
  <1>3. Importing(e', b, h)
    BY <1>2 DEF Importing
  <1>4. QED
    BY <1>1, <1>3, ImportGoes

LEMMA StartImportKeeps ==
    ASSUME TransferInv, State!StartImport
    PROVE  TransferInv'
  <1>1. /\ e' = [State!IdleImport EXCEPT !.at = 1] /\ UNCHANGED <<b, d, f, g, h>>
    BY DEF State!StartImport, State!ImportRest
  <1>2. /\ DOMAIN e' = {"at", "stream", "alone", "outcome"} /\ e'.at = 1
        /\ e'.outcome = "none"
    BY <1>1 DEF State!IdleImport
  <1>3. Importing(e', b, h)
    BY <1>2 DEF Importing
  <1>4. QED
    BY <1>1, <1>3, ImportGoes

LEMMA ImportStatusKeeps ==
    ASSUME TransferInv, State!ImportStatus
    PROVE  TransferInv'
  <1>1. e.at = 1 /\ UNCHANGED <<f, g, h>>
    BY DEF State!ImportStatus, State!ImportRest
  <1>2. CASE a = "ours"
    <2>1. e' = [e EXCEPT !.at = 2] /\ UNCHANGED <<b, d>>
      BY <1>2 DEF State!ImportStatus
    <2>2. /\ DOMAIN e' = {"at", "stream", "alone", "outcome"} /\ e'.at = 2
          /\ e'.outcome = "none"
      BY <1>1, <2>1, ImportIs
    <2>3. Importing(e', b, h)
      BY <2>2 DEF Importing
    <2>4. QED
      BY <1>1, <2>1, <2>3, ImportGoes
  <1>3. CASE a # "ours"
    <2>1. State!ImportEnds("refused")
      BY <1>3 DEF State!ImportStatus
    <2>2. QED
      BY <1>1, <2>1, ImportEnded
  <1>4. QED
    BY <1>2, <1>3

\* The lines of an accepted stream are those its checksum was taken of.
LEMMA DecodeStateKeeps ==
    ASSUME TransferInv, NEW path \in Paths, State!DecodeState(path)
    PROVE  TransferInv'
  <1>1. e.at = 2 /\ UNCHANGED <<f, g, h>>
    BY DEF State!DecodeState, State!ImportRest
  <1>2. CASE State!Accepts(f[path])
    <2>1. /\ e' = [e EXCEPT !.at = 3, !.stream = f[path].body, !.alone = TRUE]
          /\ UNCHANGED <<b, d>>
      BY <1>2 DEF State!DecodeState
    <2>2. /\ DOMAIN e' = {"at", "stream", "alone", "outcome"} /\ e'.at = 3
          /\ e'.outcome = "none" /\ e'.stream = f[path].body
      BY <1>1, <2>1, ImportIs
    <2>3. /\ f[path].manifest.revision = "ours"
          /\ f[path].manifest.checksum = f[path].body
          /\ State!Valid(f[path].body)
      BY <1>2 DEF State!Accepts, State!SameLines
    <2>4. Stored(f[path], g[path], h)
      BY DEF TransferInv
    <2>5. f[path].body \in h
      BY <2>3, <2>4 DEF Stored
    <2>6. Importing(e', b, h)
      BY <2>2, <2>3, <2>5 DEF Importing, EmptySoFar
    <2>7. QED
      BY <1>1, <2>1, <2>6, ImportGoes
  <1>3. CASE ~State!Accepts(f[path])
    <2>1. State!ImportEnds("refused")
      BY <1>3 DEF State!DecodeState
    <2>2. QED
      BY <1>1, <2>1, ImportEnded
  <1>4. QED
    BY <1>2, <1>3

LEMMA RequireEmptyKeeps ==
    ASSUME TransferInv, State!RequireEmpty
    PROVE  TransferInv'
  <1> DEFINE table == State!TableOrder[e.at - 2]
  <1>1. e.at \in 3 .. 7 /\ UNCHANGED <<f, g, h>>
    BY DEF State!RequireEmpty, State!ImportRest
  <1>2. /\ e.at = 3 => table = "source"
        /\ e.at = 4 => table = "occurrence"
        /\ e.at = 5 => table = "blob"
        /\ e.at = 6 => table = "revision"
        /\ e.at = 7 => table = "checkpoint"
    BY DEF State!TableOrder
  <1>3. CASE State!ImportEnds("refused")
    BY <1>1, <1>3, ImportEnded
  <1>4. CASE ~State!ImportEnds("refused")
    <2>1. /\ b[table] = State!Empty[table]
          /\ e' = [e EXCEPT !.at = e.at + 1] /\ UNCHANGED <<b, d>>
      BY <1>4 DEF State!RequireEmpty
    <2>2. /\ DOMAIN e' = {"at", "stream", "alone", "outcome"} /\ e'.at = e.at + 1
          /\ e'.outcome = e.outcome /\ e'.stream = e.stream /\ e'.alone = e.alone
      BY <1>1, <2>1, ImportIs
    <2> HIDE DEF table
    <2>3. ASSUME e.alone
          PROVE  EmptySoFar(e.at + 1, b)
      <3>1. EmptySoFar(e.at, b)
        BY <1>1, <2>3, ImportIs
      <3>2. CASE e.at = 3
        BY <1>2, <2>1, <3>1, <3>2, EmptyIs DEF EmptySoFar
      <3>3. CASE e.at = 4
        BY <1>2, <2>1, <3>1, <3>3, EmptyIs DEF EmptySoFar
      <3>4. CASE e.at = 5
        BY <1>2, <2>1, <3>1, <3>4, EmptyIs DEF EmptySoFar
      <3>5. CASE e.at = 6
        BY <1>2, <2>1, <3>1, <3>5, EmptyIs DEF EmptySoFar
      <3>6. CASE e.at = 7
        BY <1>2, <2>1, <3>1, <3>6, EmptyIs DEF EmptySoFar
      <3>7. QED
        BY <1>1, <3>2, <3>3, <3>4, <3>5, <3>6
    <2>4. Importing(e', b, h)
      BY <1>1, <2>2, <2>3, ImportIs DEF Importing
    <2>5. QED
      BY <1>1, <2>1, <2>4, ImportGoes
  <1>5. QED
    BY <1>3, <1>4

\* In an empty catalog a stream collides with nothing, and is all it then holds.
LEMMA MergedAlone ==
    ASSUME NEW t, Shaped(t), EmptySoFar(8, b)
    PROVE  State!Merged(t) = t /\ ~State!Conflicts(t)
  <1>1. /\ b.source = State!None /\ b.occurrence = State!None
        /\ b.blob = {} /\ b.revision = {} /\ b.checkpoint = State!None
    BY DEF EmptySoFar
  <1>2. \A map : IsMap(map) => State!Join(map, State!None) = map
    <2>1. ASSUME NEW map, IsMap(map)
          PROVE  State!Join(map, State!None) = map
      <3>1. DOMAIN map \cup DOMAIN State!None = DOMAIN map
        BY EmptyIs
      <3>2. State!Join(map, State!None) = [x \in DOMAIN map |-> map[x]]
        BY <3>1 DEF State!Join
      <3>3. QED
        BY <2>1, <3>2 DEF IsMap
    <2>2. QED
      BY <2>1
  <1>3. /\ State!Join(t.source, b.source) = t.source
        /\ State!Join(t.occurrence, b.occurrence) = t.occurrence
        /\ State!Join(t.checkpoint, b.checkpoint) = t.checkpoint
    BY <1>1, <1>2 DEF Shaped
  <1>4. State!Merged(t) = [source |-> t.source, occurrence |-> t.occurrence,
                           blob |-> t.blob, revision |-> t.revision,
                           checkpoint |-> t.checkpoint]
    BY <1>1, <1>3 DEF State!Merged
  <1>5. ASSUME NEW k \in 1 .. 5
        PROVE  State!Keys(b)[k] = {}
    <2>1. State!Keys(b) = <<DOMAIN b.source, DOMAIN b.occurrence,
                            State!Retained(b.blob), b.revision,
                            DOMAIN b.checkpoint>>
      BY DEF State!Keys
    <2>2. State!Retained(b.blob) = {}
      BY <1>1 DEF State!Retained
    <2>3. QED
      BY <1>1, <2>1, <2>2, EmptyIs
  <1>6. QED
    BY <1>4, <1>5 DEF State!Conflicts, Shaped

LEMMA JoinIsMap == \A x, y : IsMap(State!Join(x, y))
  BY DEF State!Join, IsMap

LEMMA MergedIs ==
    ASSUME NEW t
    PROVE  Shaped(State!Merged(t)) /\ State!Merged(t).blob = t.blob \cup b.blob
  <1>1. PICK x, y, z : /\ x = State!Join(t.source, b.source)
                       /\ y = State!Join(t.occurrence, b.occurrence)
                       /\ z = State!Join(t.checkpoint, b.checkpoint)
    OBVIOUS
  <1>2. IsMap(x) /\ IsMap(y) /\ IsMap(z)
    BY <1>1, JoinIsMap
  <1>3. State!Merged(t) = [source |-> x, occurrence |-> y,
                           blob |-> t.blob \cup b.blob,
                           revision |-> t.revision \cup b.revision,
                           checkpoint |-> z]
    BY <1>1 DEF State!Merged
  <1>4. QED
    BY <1>2, <1>3 DEF Shaped

LEMMA WriteStateKeeps ==
    ASSUME TransferInv, State!WriteState
    PROVE  TransferInv'
  <1>1. e.at = 8 /\ UNCHANGED <<f, g, h>>
    BY DEF State!WriteState, State!ImportRest
  <1>2. PICK t : t = e.stream
    OBVIOUS
  <1>3. t \in h /\ State!Valid(t) /\ Shaped(t) /\ (e.alone => EmptySoFar(8, b))
    BY <1>1, <1>2, ImportIs DEF TransferInv
  <1>4. e.alone => /\ State!Merged(t) = t /\ ~State!Conflicts(t)
                   /\ State!References(State!Merged(t))
    BY <1>3, MergedAlone DEF State!Valid
  <1>5. CASE a # "ours"
    <2>1. State!ImportEnds("refused")
      BY <1>5 DEF State!WriteState
    <2>2. QED
      BY <1>1, <2>1, ImportEnded
  <1>6. CASE /\ a = "ours"
             /\ State!Conflicts(t) \/ ~State!References(State!Merged(t))
    <2>1. State!ImportEnds("constraint")
      BY <1>2, <1>6 DEF State!WriteState
    <2>2. QED
      BY <1>1, <1>4, <1>6, <2>1, ImportEnded
  <1>7. CASE /\ a = "ours" /\ ~State!Conflicts(t)
             /\ State!References(State!Merged(t))
    <2>1. /\ b' = State!Merged(t)
          /\ e' = [e EXCEPT !.at = 0, !.outcome = "restored"]
          /\ State!DisturbExport
      BY <1>2, <1>7 DEF State!WriteState
    <2>2. PICK new : new = State!Merged(t)
      OBVIOUS
    <2>3. Shaped(new) /\ new.blob = t.blob \cup b.blob
      BY <2>2, MergedIs
    <2>4. State!Valid(new)
      BY <1>3, <1>7, <2>2, <2>3, CatalogIs DEF State!Valid, AllIntact
    <2>5. Exporting(d', new, g)
      BY <2>1, ExportDisturbed
    <2>6. /\ DOMAIN e' = {"at", "stream", "alone", "outcome"} /\ e'.at = 0
          /\ e'.outcome = "restored" /\ e'.stream = t /\ e'.alone = e.alone
      BY <1>2, <2>1, ImportIs
    <2>7. Importing(e', new, h)
      BY <1>3, <1>4, <2>2, <2>6 DEF Importing
    <2>8. QED
      BY <1>1, <2>1, <2>2, <2>3, <2>4, <2>5, <2>7 DEF TransferInv
  <1>8. QED
    BY <1>5, <1>6, <1>7

LEMMA ImportKeeps ==
    ASSUME TransferInv, State!Import
    PROVE  TransferInv'
  <1>1. CASE State!ImportFails
    <2>1. State!ImportEnds("refused") /\ UNCHANGED <<f, g, h>>
      BY <1>1 DEF State!ImportFails, State!ImportRest
    <2>2. QED
      BY <2>1, ImportEnded
  <1>2. QED
    BY <1>1, StartImportKeeps, ImportStatusKeeps, DecodeStateKeeps,
       RequireEmptyKeeps, WriteStateKeeps DEF State!Import

LEMMA ResetKeeps ==
    ASSUME TransferInv, State!ResetCatalog
    PROVE  TransferInv'
  <1>1. /\ b' = State!Empty /\ State!DisturbExport /\ State!DisturbImport
        /\ UNCHANGED <<f, g, h>>
    BY DEF State!ResetCatalog
  <1>2. Exporting(d', State!Empty, g) /\ Importing(e', State!Empty, h)
    BY <1>1, ExportDisturbed, ImportDisturbed
  <1>3. QED
    BY <1>1, <1>2, EmptyIs DEF TransferInv

LEMMA EditedIs ==
    ASSUME NEW t, Shaped(t), NEW body \in State!Edits(t)
    PROVE  Shaped(body)
  <1>0. IsMap(t.source) /\ IsMap(t.occurrence)
    BY DEF Shaped
  <1>1. CASE \E s \in DOMAIN t.source :
                body = [t EXCEPT !.source = State!Without(t.source, s)]
    <2>1. PICK s : body = [t EXCEPT !.source = State!Without(t.source, s)]
      BY <1>1
    <2>2. IsMap(State!Without(t.source, s))
      BY DEF State!Without, IsMap
    <2>3. QED
      BY <2>1, <2>2, WithSource
  <1>2. CASE \E o \in DOMAIN t.occurrence : body = [t EXCEPT !.occurrence[o] = "gone"]
    <2>1. PICK o : body = [t EXCEPT !.occurrence[o] = "gone"]
      BY <1>2
    <2>2. PICK x : x = [t.occurrence EXCEPT ![o] = "gone"]
      OBVIOUS
    <2>3. IsMap(x)
      BY <2>2 DEF IsMap
    <2>4. body = [t EXCEPT !.occurrence = x]
      BY <2>1, <2>2
    <2>5. QED
      BY <2>3, <2>4, WithOccurrence
  <1>3. CASE \E x : body = [t EXCEPT !.blob = x]
    BY <1>3, WithBlob
  <1>4. CASE \E x : body = [t EXCEPT !.revision = x]
    BY <1>4, WithRevision
  <1>5. QED
    <2>1. CASE body \in {[t EXCEPT !.source = State!Without(@, s)] : s \in DOMAIN t.source}
      BY <1>1, <2>1
    <2>2. CASE body \in {[t EXCEPT !.occurrence[o] = "gone"] : o \in DOMAIN t.occurrence}
      BY <1>2, <2>2
    <2>3. CASE body \in {[t EXCEPT !.blob = @ \ {x}] : x \in t.blob}
      BY <1>3, <2>3
    <2>4. CASE body \in {[t EXCEPT !.blob = (@ \ {x}) \cup {[x EXCEPT !.intact = FALSE]}] :
                            x \in t.blob}
      BY <1>3, <2>4
    <2>5. CASE body \in {[t EXCEPT !.revision = @ \ {r}] : r \in t.revision}
      BY <1>4, <2>5
    <2>6. QED
      BY <2>1, <2>2, <2>3, <2>4, <2>5 DEF State!Edits

LEMMA EditStreamKeeps ==
    ASSUME TransferInv, NEW path \in Paths, State!EditStream(path)
    PROVE  TransferInv'
  <1>1. /\ g' = [g EXCEPT ![path].reported = FALSE] /\ UNCHANGED <<b, d, e>>
    BY DEF State!EditStream
  <1>2. PICK body \in State!Edits(f[path].body) :
           \/ f' = [f EXCEPT ![path].body = body] /\ UNCHANGED h
           \/ /\ f' = [f EXCEPT ![path] = State!At(State!Whole(body))]
              /\ h' = h \cup {body}
    BY DEF State!EditStream
  <1>3. Stored(f[path], g[path], h) /\ DOMAIN g = Paths /\ DOMAIN f = Paths
    BY DEF TransferInv
  <1>4. Shaped(body)
    BY <1>3, EditedIs DEF Stored
  <1>5. PICK report : report = [g[path] EXCEPT !.reported = FALSE]
    OBVIOUS
  <1>6. ~report.reported /\ DOMAIN report = {"reported", "quiet", "stream"}
    BY <1>3, <1>5 DEF Stored
  <1>7. /\ g'[path] = report /\ DOMAIN g' = Paths
        /\ \A p \in Paths \ {path} : g'[p] = g[p]
    BY <1>1, <1>3, <1>5
  <1>8. Exporting(d', b, g')
    <2>1. Exporting(d, b, g)
      BY DEF TransferInv
    <2>2. \A p \in Paths : ~g[p].reported => ~g'[p].reported
      BY <1>6, <1>7
    <2>3. QED
      BY <1>1, <2>1, <2>2 DEF Exporting
  <1>9. CASE f' = [f EXCEPT ![path].body = body] /\ UNCHANGED h
    <2>1. PICK there : there = [f[path] EXCEPT !.body = body]
      OBVIOUS
    <2>2. f' = [f EXCEPT ![path] = there]
      BY <1>9, <2>1
    <2>3. Stored(there, report, h')
      BY <1>3, <1>4, <1>6, <1>9, <2>1 DEF Stored
    <2>4. \A s \in h' : Shaped(s)
      BY <1>9 DEF TransferInv
    <2>5. QED
      BY <1>1, <1>7, <1>8, <1>9, <2>2, <2>3, <2>4, FileWritten
  <1>10. CASE /\ f' = [f EXCEPT ![path] = State!At(State!Whole(body))]
              /\ h' = h \cup {body}
    <2>1. PICK there : there = State!At(State!Whole(body))
      OBVIOUS
    <2>2. f' = [f EXCEPT ![path] = there]
      BY <1>10, <2>1
    <2>3. Stored(there, report, h')
      BY <1>4, <1>6, <1>10, <2>1, WholeIs DEF Stored
    <2>4. \A s \in h' : Shaped(s)
      BY <1>4, <1>10 DEF TransferInv
    <2>5. QED
      BY <1>1, <1>7, <1>8, <1>10, <2>2, <2>3, <2>4, FileWritten
  <1>11. QED
    BY <1>2, <1>9, <1>10

LEMMA TransferBegins ==
    ASSUME State!Init
    PROVE  TransferInv
  <1>1. /\ b = State!Empty /\ d = State!IdleExport /\ e = State!IdleImport
        /\ f = [p \in Paths |-> State!Absent]
        /\ g = [p \in Paths |-> [reported |-> FALSE, quiet |-> FALSE,
                                 stream |-> State!Empty]]
        /\ h = {}
    BY DEF State!Init
  <1>2. Importing(State!IdleImport, State!Empty, {})
    BY DEF State!IdleImport, Importing
  <1>3. PICK there, report :
           /\ there = State!Absent
           /\ report = [reported |-> FALSE, quiet |-> FALSE, stream |-> State!Empty]
    OBVIOUS
  <1>4. /\ DOMAIN there = {"manifest", "body", "exists"}
        /\ there.body = State!Empty /\ there.manifest.revision = "none"
    BY <1>3 DEF State!Absent, State!NoManifest
  <1>5. ~report.reported /\ DOMAIN report = {"reported", "quiet", "stream"}
    BY <1>3
  <1>6. Stored(there, report, h)
    BY <1>4, <1>5, EmptyIs DEF Stored
  <1>7. /\ DOMAIN f = Paths /\ DOMAIN g = Paths
        /\ \A p \in Paths : f[p] = there /\ g[p] = report
    BY <1>1, <1>3
  <1>8. QED
    BY <1>1, <1>2, <1>6, <1>7, EmptyIs, IdleExportIs DEF TransferInv

LEMMA TransferStep ==
    ASSUME TransferInv, State!Next
    PROVE  TransferInv'
  BY ScanKeeps, ExportKeeps, ImportKeeps, ResetKeeps, EditStreamKeeps
     DEF State!Next, State!User

LEMMA TransferAlways == Spec => [](part = "state" => TransferInv)
  <1> DEFINE Inv == part = "state" => TransferInv
  <1>1. Init => Inv
    BY TransferBegins DEF Init
  <1>2. Inv /\ [Next]_vars => Inv'
    <2> SUFFICES ASSUME Inv, [Next]_vars, part' = "state"
                 PROVE  TransferInv'
      OBVIOUS
    <2>1. CASE UNCHANGED vars
      BY <2>1 DEF vars, TransferInv
    <2>2. CASE Next
      <3>1. part = "state"
        BY <2>2 DEF Next
      <3>2. State!Next
        BY <2>2, <3>1 DEF Next, RunState, RunInit, RunList, RunScan, RunRead,
           RunShow, RunCompletion, RunCurrent
      <3>3. QED
        BY <3>1, <3>2, TransferStep
    <2>3. QED
      BY <2>1, <2>2
  <1>3. QED
    BY <1>1, <1>2, PTL DEF Spec

\* A stream that was reported is what is found at its path: the file is created
\* exclusively (writeStateFile of internal/cli/catalogstate.go), so that no other
\* export, running or failing, touches it.
THEOREM StreamsAreKept == Spec => []ReportedStreamsKept
  <1>1. TransferInv => State!ReportedStreamsKept
    BY DEF TransferInv, Stored, State!ReportedStreamsKept
  <1>2. (part = "state" => TransferInv) => ReportedStreamsKept
    BY <1>1 DEF ReportedStreamsKept
  <1>3. QED
    BY <1>2, TransferAlways, PTL

\* An export during which nothing was retained can be imported: what readState
\* reads is what validateState demands, because the tables have foreign keys, and
\* whatever the scans that were killed left behind.
THEOREM QuietExportsCanBeImported == Spec => []QuietExportsImport
  <1>1. ASSUME TransferInv
        PROVE  State!QuietExportsImport
    <2>1. ASSUME NEW p \in Paths, g[p].reported, g[p].quiet
          PROVE  State!Accepts(f[p])
      <3>1. PICK s : s = g[p].stream
        OBVIOUS
      <3>2. Stored(f[p], g[p], h)
        BY <1>1 DEF TransferInv
      <3>3. f[p] = State!At(State!Whole(s)) /\ State!Valid(s)
        BY <2>1, <3>1, <3>2 DEF Stored
      <3>4. /\ f[p].body = s /\ f[p].manifest.revision = "ours"
            /\ f[p].manifest.checksum = s
            /\ f[p].manifest.counts = State!CountsOf(s)
        BY <3>3, WholeIs
      <3>5. QED
        BY <3>3, <3>4 DEF State!Accepts, State!SameLines
    <2>2. QED
      BY <2>1 DEF State!QuietExportsImport
  <1>2. (part = "state" => TransferInv) => QuietExportsImport
    BY <1>1 DEF QuietExportsImport
  <1>3. QED
    BY <1>2, TransferAlways, PTL

\* What an import restores was written as one stream, never in part, and alone it
\* is what the catalog then holds: decodeState compares the checksum before
\* writeState begins.
THEOREM ImportsRestoreOneStream == Spec => []RestoresOneStream
  <1>1. TransferInv => State!RestoresOneStream
    BY DEF TransferInv, Importing, State!RestoresOneStream
  <1>2. (part = "state" => TransferInv) => RestoresOneStream
    BY <1>1 DEF RestoresOneStream
  <1>3. QED
    BY <1>2, TransferAlways, PTL

\* An import nobody interferes with never fails in its transaction: what
\* validateState lets through satisfies every constraint of the tables, and
\* requireEmptyState leaves no row to collide with.
THEOREM ImportsAreValidated == Spec => []ValidatedImports
  <1>1. TransferInv => State!ValidatedImports
    BY DEF TransferInv, Importing, State!ValidatedImports
  <1>2. (part = "state" => TransferInv) => ValidatedImports
    BY <1>1 DEF ValidatedImports
  <1>3. QED
    BY <1>2, TransferAlways, PTL

\* One sequence after another.
LEMMA JoinedAt ==
    ASSUME NEW S, NEW s \in Seq(S), NEW t \in Seq(S)
    PROVE  /\ s \o t \in Seq(S)
           /\ Len(s \o t) = Len(s) + Len(t)
           /\ \A n \in 1 .. Len(s) : (s \o t)[n] = s[n]
           /\ \A n \in 1 .. Len(t) : (s \o t)[Len(s) + n] = t[n]
  OBVIOUS

-----------------------------------------------------------------------------
(* list --current (Presence): a is the provider, b the time, c the process, *)
(* d the registry, e what is listed, f the probe, g who held which session. *)

\* A start somebody has seen: the processes that have a PID start one after the
\* other, thus none that comes later started before it.
Began(start) == start \in Nat /\ start <= b /\ (c.alive => start <= c.start)
SomebodyHeld(start, s) == [by |-> start, session |-> s] \in g

Processing ==
    /\ a \in {"codex", "claude"}
    /\ b \in Nat
    /\ DOMAIN c = {"alive", "start", "name", "open"}
    /\ c.alive \in BOOLEAN
    /\ c.alive => Began(c.start) /\ c.start > 0
    /\ ~c.alive => c.open = {}
    /\ \A s \in c.open : SomebodyHeld(c.start, s)

ProbeFields == {"step", "second", "seen", "kept", "owned", "user", "usable", "read",
                "outcome", "claims"}
LastLook == IF a = "codex" THEN 11 ELSE 8

\* What the probe p has seen.  A look at the roster is one at a process that had
\* the token when its second was read, once a second look finds the same token;
\* so are the files looked up between two looks, and they are of the process that
\* is kept, once the last look finds its token again.
Probing(p) ==
    /\ DOMAIN p = ProbeFields
    /\ p.step \in 0 .. LastLook
    /\ p.step # 0 => p.outcome = "none"
    /\ p.step >= 3 => Began(p.seen.token)
    /\ p.step = 4 => \E start : /\ Began(start) /\ start >= p.seen.token
                                /\ p.second = Current!Second(start)
    /\ p.step >= 5 => /\ Began(p.kept.token)
                      /\ p.kept.second = Current!Second(p.kept.token)
    /\ a = "codex" =>
          /\ p.step \in 1 .. 7 => p.owned = {}
          /\ p.step >= 8 => p.owned \subseteq e
          /\ p.step \in {8, 9} =>
                \A s \in p.owned :
                   \E start : /\ Began(start) /\ start >= p.seen.token
                              /\ SomebodyHeld(start, s)
          /\ p.step \in {10, 11} =>
                \A s \in p.owned : /\ Began(p.user.token)
                                   /\ p.user.token >= p.kept.token
                                   /\ SomebodyHeld(p.user.token, s)
          /\ p.outcome = "claims" =>
                /\ p.claims \subseteq e
                /\ \A s \in p.claims : SomebodyHeld(p.kept.token, s)
    /\ a = "claude" /\ p.outcome = "claims" =>
          /\ Current!Second(p.read.by) = Current!Second(p.kept.token)
          /\ \A s \in p.claims : s.id = 0
    /\ p.outcome = "stale" => p.read.by # p.kept.token

CurrentInv == Processing /\ Probing(f) /\ e \subseteq Rollouts

LEMMA LooksOfCodex ==
    ASSUME a = "codex"
    PROVE  /\ Len(Current!Steps) = 11
           /\ Current!Steps[1] = <<"roster", "ps">>
           /\ Current!Steps[2] = <<"roster", "token">>
           /\ Current!Steps[3] = <<"check", "ps">>
           /\ Current!Steps[4] = <<"check", "token">>
           /\ Current!Steps[5] = <<"before", "ps">>
           /\ Current!Steps[6] = <<"before", "token">>
           /\ Current!Steps[7] = <<"files", "lsof">>
           /\ Current!Steps[8] = <<"after", "ps">>
           /\ Current!Steps[9] = <<"after", "token">>
           /\ Current!Steps[10] = <<"final", "ps">>
           /\ Current!Steps[11] = <<"final", "token">>
  <1> DEFINE x1 == <<"roster", "ps">>
             x2 == <<"roster", "token">>
             x3 == <<"check", "ps">>
             x4 == <<"check", "token">>
             x5 == <<"before", "ps">>
             x6 == <<"before", "token">>
             x7 == <<"files", "lsof">>
             x8 == <<"after", "ps">>
             x9 == <<"after", "token">>
             x10 == <<"final", "ps">>
             x11 == <<"final", "token">>
  <1>1. Current!Steps = <<x1, x2>> \o <<x3, x4>>
                            \o (<<x5, x6>> \o <<x7>> \o <<x8, x9>>) \o <<x10, x11>>
    BY DEF Current!Steps, Current!Look
  <1> HIDE DEF x1, x2, x3, x4, x5, x6, x7, x8, x9, x10, x11
  <1> DEFINE S == {x1, x2, x3, x4, x5, x6, x7, x8, x9, x10, x11}
  <1>2. PICK first, third, fourth :
           /\ first = <<x1, x2>> \o <<x3, x4>>
           /\ third = <<x5, x6>> \o <<x7>> \o <<x8, x9>>
           /\ fourth = <<x10, x11>>
    OBVIOUS
  <1>3. /\ first \in Seq(S) /\ Len(first) = 4 /\ first[1] = x1 /\ first[2] = x2
        /\ first[3] = x3 /\ first[4] = x4
    BY <1>2
  <1>4. /\ third \in Seq(S) /\ Len(third) = 5 /\ third[1] = x5 /\ third[2] = x6
        /\ third[3] = x7 /\ third[4] = x8 /\ third[5] = x9
    BY <1>2
  <1>5. /\ fourth \in Seq(S) /\ Len(fourth) = 2 /\ fourth[1] = x10 /\ fourth[2] = x11
    BY <1>2
  <1> HIDE DEF S
  <1>6. PICK most : most = first \o third
    OBVIOUS
  <1>7. /\ most \in Seq(S) /\ Len(most) = 9
        /\ \A n \in 1 .. 4 : most[n] = first[n]
        /\ \A n \in 1 .. 5 : most[4 + n] = third[n]
    <2>0. first \in Seq(S) /\ third \in Seq(S)
      BY <1>3, <1>4
    <2>1. /\ first \o third \in Seq(S)
          /\ Len(first \o third) = Len(first) + Len(third)
          /\ \A n \in 1 .. Len(first) : (first \o third)[n] = first[n]
          /\ \A n \in 1 .. Len(third) : (first \o third)[Len(first) + n] = third[n]
      BY <2>0, JoinedAt
    <2>2. QED
      BY <1>3, <1>4, <1>6, <2>1
  <1>8. Current!Steps = most \o fourth
    BY <1>1, <1>2, <1>6
  <1>9. /\ Len(Current!Steps) = 11
        /\ \A n \in 1 .. 9 : Current!Steps[n] = most[n]
        /\ \A n \in 1 .. 2 : Current!Steps[9 + n] = fourth[n]
    <2>0. most \in Seq(S) /\ fourth \in Seq(S)
      BY <1>5, <1>7
    <2>1. /\ most \o fourth \in Seq(S)
          /\ Len(most \o fourth) = Len(most) + Len(fourth)
          /\ \A n \in 1 .. Len(most) : (most \o fourth)[n] = most[n]
          /\ \A n \in 1 .. Len(fourth) : (most \o fourth)[Len(most) + n] = fourth[n]
      BY <2>0, JoinedAt
    <2>2. QED
      <3>1. Len(most) = 9 /\ Len(fourth) = 2
        BY <1>5, <1>7
      <3>2. /\ Len(Current!Steps) = 9 + 2
            /\ \A n \in 1 .. 9 : Current!Steps[n] = most[n]
            /\ \A n \in 1 .. 2 : Current!Steps[9 + n] = fourth[n]
        <4>1. Len(most \o fourth) = 9 + 2
          BY <2>1, <3>1
        <4>2. \A n \in 1 .. 9 : (most \o fourth)[n] = most[n]
          BY <2>1, <3>1
        <4>3. \A n \in 1 .. 2 : (most \o fourth)[9 + n] = fourth[n]
          BY <2>1, <3>1
        <4>4. QED
          BY <1>8, <4>1, <4>2, <4>3
      <3>3. QED
        BY <3>2
  <1>10. QED
    BY <1>3, <1>4, <1>5, <1>7, <1>9 DEF x1, x2, x3, x4, x5, x6, x7, x8, x9, x10, x11

LEMMA LooksOfClaude ==
    ASSUME a = "claude"
    PROVE  /\ Len(Current!Steps) = 8
           /\ Current!Steps[1] = <<"roster", "ps">>
           /\ Current!Steps[2] = <<"roster", "token">>
           /\ Current!Steps[3] = <<"check", "ps">>
           /\ Current!Steps[4] = <<"check", "token">>
           /\ Current!Steps[5] = <<"registry", "find">>
           /\ Current!Steps[6] = <<"registry", "read">>
           /\ Current!Steps[7] = <<"final", "ps">>
           /\ Current!Steps[8] = <<"final", "token">>
  <1> DEFINE x1 == <<"roster", "ps">>
             x2 == <<"roster", "token">>
             x3 == <<"check", "ps">>
             x4 == <<"check", "token">>
             x5 == <<"registry", "find">>
             x6 == <<"registry", "read">>
             x7 == <<"final", "ps">>
             x8 == <<"final", "token">>
  <1>1. Current!Steps = <<x1, x2>> \o <<x3, x4>> \o <<x5, x6>> \o <<x7, x8>>
    BY DEF Current!Steps, Current!Look
  <1> HIDE DEF x1, x2, x3, x4, x5, x6, x7, x8
  <1> DEFINE S == {x1, x2, x3, x4, x5, x6, x7, x8}
  <1>2. PICK first, last :
           first = <<x1, x2>> \o <<x3, x4>> \o <<x5, x6>> /\ last = <<x7, x8>>
    OBVIOUS
  <1>3. /\ first \in Seq(S) /\ Len(first) = 6 /\ first[1] = x1 /\ first[2] = x2
        /\ first[3] = x3 /\ first[4] = x4 /\ first[5] = x5 /\ first[6] = x6
    BY <1>2
  <1>4. /\ last \in Seq(S) /\ Len(last) = 2 /\ last[1] = x7 /\ last[2] = x8
    BY <1>2
  <1> HIDE DEF S
  <1>5. Current!Steps = first \o last
    BY <1>1, <1>2
  <1>6. /\ Len(Current!Steps) = 8
        /\ \A n \in 1 .. 6 : Current!Steps[n] = first[n]
        /\ \A n \in 1 .. 2 : Current!Steps[6 + n] = last[n]
    <2>0. first \in Seq(S) /\ last \in Seq(S)
      BY <1>3, <1>4
    <2>1. /\ first \o last \in Seq(S)
          /\ Len(first \o last) = Len(first) + Len(last)
          /\ \A n \in 1 .. Len(first) : (first \o last)[n] = first[n]
          /\ \A n \in 1 .. Len(last) : (first \o last)[Len(first) + n] = last[n]
      BY <2>0, JoinedAt
    <2>2. QED
      BY <1>3, <1>4, <1>5, <2>1
  <1>7. QED
    BY <1>3, <1>4, <1>6 DEF x1, x2, x3, x4, x5, x6, x7, x8

\* Which look the probe is at.
LEMMA LookIs ==
    ASSUME CurrentInv, NEW of, NEW what, Current!At(of, what)
    PROVE  /\ f.step \in 1 .. LastLook
           /\ of = "roster" /\ what = "ps" => f.step = 1
           /\ of = "roster" /\ what = "token" => f.step = 2
           /\ of = "check" /\ what = "ps" => f.step = 3
           /\ of = "check" /\ what = "token" => f.step = 4
           /\ of = "before" /\ what = "ps" => a = "codex" /\ f.step = 5
           /\ of = "before" /\ what = "token" => a = "codex" /\ f.step = 6
           /\ of = "files" => a = "codex" /\ f.step = 7
           /\ of = "after" /\ what = "ps" => a = "codex" /\ f.step = 8
           /\ of = "after" /\ what = "token" => a = "codex" /\ f.step = 9
           /\ of = "registry" /\ what = "find" => a = "claude" /\ f.step = 5
           /\ of = "registry" /\ what = "read" => a = "claude" /\ f.step = 6
           /\ of = "final" /\ what = "ps" => f.step = LastLook - 1
           /\ of = "final" /\ what = "token" => f.step = LastLook
  <1>1. /\ f.step \in 1 .. LastLook
        /\ Current!Steps[f.step] = <<of, what>>
    BY DEF CurrentInv, Probing, Current!At, LastLook
  <1>2. CASE a = "codex"
    <2>1. f.step \in {1, 2, 3, 4, 5, 6, 7, 8, 9, 10, 11}
      BY <1>1, <1>2 DEF LastLook
    <2>2. QED
      BY <1>1, <1>2, <2>1, LooksOfCodex DEF LastLook
  <1>3. CASE a = "claude"
    <2>1. f.step \in {1, 2, 3, 4, 5, 6, 7, 8}
      BY <1>1, <1>3 DEF LastLook
    <2>2. QED
      BY <1>1, <1>3, <2>1, LooksOfClaude DEF LastLook
  <1>4. QED
    BY <1>2, <1>3 DEF CurrentInv, Processing

LEMMA ProbeGoes ==
    ASSUME CurrentInv, Current!World, NEW new, f' = new, Probing(new)
    PROVE  CurrentInv'
  BY DEF CurrentInv, Processing, Probing, Began, SomebodyHeld, LastLook, Current!World

LEMMA Unstarted == Began(0) <=> 0 <= b /\ (c.alive => 0 <= c.start)
  BY DEF Began

LEMMA Nothing ==
    ASSUME CurrentInv
    PROVE  Began(0) /\ Current!NoIdentity.token = 0
  BY DEF CurrentInv, Processing, Began, Current!NoIdentity

LEMMA Alive ==
    ASSUME CurrentInv, c.alive
    PROVE  /\ Began(c.start) /\ c.start > 0
           /\ \A start : Began(start) => start <= c.start
           /\ \A start : Began(start) => start \in Nat
  BY DEF CurrentInv, Processing, Began

LEMMA IdleProbeIs ==
    ASSUME NEW outcome \in {"none", "failed"}
    PROVE  Probing([Current!IdleProbe EXCEPT !.outcome = outcome])
  <1>1. PICK p : p = [Current!IdleProbe EXCEPT !.outcome = outcome]
    OBVIOUS
  <1>2. DOMAIN p = ProbeFields /\ p.step = 0 /\ p.outcome = outcome
    BY <1>1 DEF Current!IdleProbe, ProbeFields
  <1>3. 0 \in 0 .. LastLook
    BY DEF LastLook
  <1>4. Probing(p)
    BY <1>2, <1>3 DEF Probing
  <1>5. QED
    BY <1>1, <1>4

LEMMA LeftOutKeeps ==
    ASSUME CurrentInv, Current!World, Current!LeftOut
    PROVE  CurrentInv'
  <1>1. PICK new : new = [Current!IdleProbe EXCEPT !.outcome = "none"]
    OBVIOUS
  <1>2. Probing(new)
    BY <1>1, IdleProbeIs
  <1>3. f' = new
    BY <1>1 DEF Current!LeftOut
  <1>4. QED
    BY <1>2, <1>3, ProbeGoes

LEMMA StartProbeKeeps ==
    ASSUME CurrentInv, Current!StartProbe
    PROVE  CurrentInv'
  <1>1. /\ f' = [Current!IdleProbe EXCEPT !.step = 1]
        /\ g' = {[by |-> c.start, session |-> s] : s \in c.open}
        /\ UNCHANGED <<a, b, c, d, e>>
    BY DEF Current!StartProbe
  <1>2. /\ DOMAIN f' = ProbeFields /\ f'.step = 1 /\ f'.outcome = "none"
        /\ f'.owned = {}
    BY <1>1 DEF Current!IdleProbe, ProbeFields
  <1>3. Processing'
    BY <1>1 DEF CurrentInv, Processing, Began, SomebodyHeld
  <1>4. Probing(f)'
    BY <1>1, <1>2 DEF Probing, LastLook
  <1>5. QED
    BY <1>1, <1>3, <1>4 DEF CurrentInv

\* Without a process nothing is owned.
LEMMA MissingKeeps ==
    ASSUME CurrentInv, Current!World, NEW of \in {"before", "after"},
           Current!Missing(of), a = "codex", f.step \in {5, 6, 8, 9}
    PROVE  CurrentInv'
  <1>1. PICK new :
           new = [[f EXCEPT !.seen = Current!NoIdentity, !.owned = {}]
                     EXCEPT !.step = @ + 1]
    OBVIOUS
  <1>2. f' = new
    BY <1>1 DEF Current!Missing, Current!Go
  <1>3. Probing(f) /\ DOMAIN f = ProbeFields
    BY DEF CurrentInv, Probing
  <1>4. /\ DOMAIN new = ProbeFields /\ new.step = f.step + 1
        /\ new.seen = Current!NoIdentity /\ new.owned = {}
        /\ new.kept = f.kept /\ new.outcome = f.outcome /\ new.claims = f.claims
    BY <1>1, <1>3 DEF ProbeFields
  <1>5. Began(new.seen.token)
    BY <1>4, Nothing
  <1>6. Probing(new)
    BY <1>3, <1>4, <1>5 DEF Probing, LastLook
  <1>7. QED
    BY <1>2, <1>6, ProbeGoes

LEMMA GoneKeeps ==
    ASSUME CurrentInv, Current!World,
           NEW of \in {"roster", "check", "before", "after", "final"},
           NEW what \in {"ps", "token"}, Current!At(of, what), Current!Missing(of)
    PROVE  CurrentInv'
  <1>1. CASE of \in {"before", "after"}
    <2>1. a = "codex" /\ f.step \in {5, 6, 8, 9}
      BY <1>1, LookIs
    <2>2. QED
      BY <1>1, <2>1, MissingKeeps
  <1>2. CASE of \notin {"before", "after"}
    <2>1. Current!LeftOut
      BY <1>2 DEF Current!Missing
    <2>2. QED
      BY <2>1, LeftOutKeeps
  <1>3. QED
    BY <1>1, <1>2

\* The second of a process, and what is done without one.
LEMMA PsKeeps ==
    ASSUME CurrentInv, NEW of \in {"roster", "check", "before", "after", "final"},
           Current!Ps(of)
    PROVE  CurrentInv'
  <1>1. Current!At(of, "ps") /\ Current!World
    BY DEF Current!Ps
  <1>2. Probing(f) /\ DOMAIN f = ProbeFields /\ f.step \in 1 .. LastLook
        /\ f.outcome = "none"
    BY <1>1, LookIs DEF CurrentInv, Probing
  <1>3. CASE c.alive
    <2>1. PICK new :
             new = [[f EXCEPT !.second = Current!Second(c.start)] EXCEPT !.step = @ + 1]
      OBVIOUS
    <2>2. f' = new
      BY <1>3, <2>1 DEF Current!Ps, Current!Go
    <2>3. /\ DOMAIN new = ProbeFields /\ new.step = f.step + 1
          /\ new.second = Current!Second(c.start)
          /\ new.seen = f.seen /\ new.kept = f.kept /\ new.owned = f.owned
          /\ new.user = f.user /\ new.outcome = f.outcome /\ new.read = f.read
          /\ new.claims = f.claims
      BY <1>2, <2>1 DEF ProbeFields
    <2> SUFFICES Probing(new)
      BY <1>1, <2>2, ProbeGoes
    <2>4. CASE of = "roster"
      <3>1. f.step = 1
        BY <1>1, <2>4, LookIs
      <3>2. QED
        BY <1>2, <2>3, <3>1 DEF Probing, LastLook
    <2>5. CASE of = "check"
      <3>1. f.step = 3 /\ Began(f.seen.token)
        <4>1. f.step = 3
          BY <1>1, <2>5, LookIs
        <4>2. QED
          BY <1>2, <4>1 DEF Probing
      <3>2. Began(c.start) /\ c.start >= f.seen.token
        BY <1>3, <3>1, Alive
      <3>3. QED
        BY <1>2, <2>3, <3>1, <3>2 DEF Probing, LastLook
    <2>6. CASE of = "before"
      <3>1. a = "codex" /\ f.step = 5
        BY <1>1, <2>6, LookIs
      <3>2. QED
        BY <1>2, <2>3, <3>1 DEF Probing, LastLook
    <2>7. CASE of = "after"
      <3>1. a = "codex" /\ f.step = 8
        BY <1>1, <2>7, LookIs
      <3>2. QED
        BY <1>2, <2>3, <3>1 DEF Probing, LastLook
    <2>8. CASE of = "final"
      <3>1. f.step = LastLook - 1
        BY <1>1, <2>8, LookIs
      <3>2. QED
        BY <1>2, <2>3, <3>1 DEF Probing, LastLook
    <2>9. QED
      BY <2>4, <2>5, <2>6, <2>7, <2>8
  <1>4. CASE ~c.alive
    <2>1. Current!Missing(of)
      BY <1>4 DEF Current!Ps
    <2>2. QED
      BY <1>1, <2>1, GoneKeeps
  <1>5. QED
    BY <1>3, <1>4

\* A token that is read.
Looked(new) ==
    /\ DOMAIN new = ProbeFields
    /\ new.seen = [second |-> f.second, token |-> c.start]
    /\ new.step = f.step /\ new.second = f.second /\ new.kept = f.kept
    /\ new.owned = f.owned /\ new.user = f.user /\ new.outcome = f.outcome
    /\ new.read = f.read /\ new.claims = f.claims

LEMMA LookedIs ==
    ASSUME CurrentInv
    PROVE  Looked([f EXCEPT !.seen = [second |-> f.second, token |-> c.start]])
  <1>1. DOMAIN f = ProbeFields
    BY DEF CurrentInv, Probing
  <1>2. QED
    BY <1>1 DEF Looked, ProbeFields

LEMMA RosterKeeps ==
    ASSUME CurrentInv, Current!World, c.alive, NEW new, Looked(new),
           f.step = 2, Current!Go(new)
    PROVE  CurrentInv'
  <1>1. PICK next : next = [new EXCEPT !.step = @ + 1]
    OBVIOUS
  <1>2. f' = next
    BY <1>1 DEF Current!Go
  <1>3. /\ DOMAIN next = ProbeFields /\ next.step = 3
        /\ next.seen.token = c.start /\ next.outcome = f.outcome
        /\ next.owned = f.owned
    BY <1>1 DEF Looked, ProbeFields
  <1>4. Began(c.start) /\ Probing(f)
    BY Alive DEF CurrentInv
  <1>5. Probing(next)
    BY <1>3, <1>4 DEF Probing, LastLook
  <1>6. QED
    BY <1>2, <1>5, ProbeGoes

\* Two looks that find the same token: the second in between is its own.
LEMMA CheckKeeps ==
    ASSUME CurrentInv, Current!World, c.alive, NEW new, Looked(new),
           f.step = 4, Current!Check(new)
    PROVE  CurrentInv'
  <1>1. CASE Current!LeftOut
    BY <1>1, LeftOutKeeps
  <1>2. CASE ~Current!LeftOut
    <2>1. PICK next :
             next = [[new EXCEPT !.kept = new.seen] EXCEPT !.step = @ + 1]
      OBVIOUS
    <2>2. f' = next /\ new.seen = f.seen
      BY <1>2, <2>1 DEF Current!Check, Current!Go, Current!SameIdentity
    <2>3. /\ DOMAIN next = ProbeFields /\ next.step = 5
          /\ next.seen.token = c.start /\ next.outcome = f.outcome
          /\ next.kept.second = f.second /\ next.kept.token = c.start
          /\ next.owned = f.owned /\ f.seen.token = c.start
      BY <2>1, <2>2 DEF Looked, ProbeFields
    <2>4. Began(c.start) /\ Probing(f)
      BY Alive DEF CurrentInv
    <2>5. PICK start : /\ Began(start) /\ start >= f.seen.token
                       /\ f.second = Current!Second(start)
      BY <2>4 DEF Probing
    <2>6. start = c.start
      <3>1. /\ start \in Nat /\ c.start \in Nat /\ start <= c.start
            /\ start >= c.start
        BY <2>3, <2>4, <2>5, Alive
      <3>2. QED
        BY <3>1
    <2>7. Probing(next)
      BY <2>3, <2>4, <2>5, <2>6 DEF Probing, LastLook
    <2>8. QED
      BY <2>2, <2>7, ProbeGoes
  <1>3. QED
    BY <1>1, <1>2

LEMMA BeforeKeeps ==
    ASSUME CurrentInv, Current!World, c.alive, NEW new, Looked(new),
           a = "codex", f.step = 6, Current!Go(new)
    PROVE  CurrentInv'
  <1>1. PICK next : next = [new EXCEPT !.step = @ + 1]
    OBVIOUS
  <1>2. f' = next
    BY <1>1 DEF Current!Go
  <1>3. /\ DOMAIN next = ProbeFields /\ next.step = 7
        /\ next.seen.token = c.start /\ next.outcome = f.outcome
        /\ next.owned = f.owned /\ next.kept = f.kept
    BY <1>1 DEF Looked, ProbeFields
  <1>4. Began(c.start) /\ Probing(f)
    BY Alive DEF CurrentInv
  <1>5. Probing(next)
    BY <1>3, <1>4 DEF Probing, LastLook
  <1>6. QED
    BY <1>2, <1>5, ProbeGoes

\* Files that were looked up between two looks that find the same token.
LEMMA AfterKeeps ==
    ASSUME CurrentInv, Current!World, c.alive, NEW new, Looked(new),
           a = "codex", f.step = 9, Current!FilesUsed(new)
    PROVE  CurrentInv'
  <1>1. /\ Began(c.start) /\ Probing(f) /\ DOMAIN f = ProbeFields
        /\ Began(f.kept.token) /\ f.kept.token <= c.start
    <2>1. Began(c.start) /\ Probing(f) /\ DOMAIN f = ProbeFields
      BY Alive DEF CurrentInv, Probing
    <2>2. Began(f.kept.token)
      BY <2>1 DEF Probing
    <2>3. QED
      BY <2>1, <2>2, Alive
  <1>2. CASE new.seen = f.seen
    <2>1. PICK next :
             next = [[new EXCEPT !.user = new.seen] EXCEPT !.step = @ + 1]
      OBVIOUS
    <2>2. f' = next
      BY <1>2, <2>1 DEF Current!FilesUsed, Current!Go, Current!SameIdentity
    <2>3. /\ DOMAIN next = ProbeFields /\ next.step = 10
          /\ next.seen.token = c.start /\ next.outcome = f.outcome
          /\ next.owned = f.owned /\ next.kept = f.kept
          /\ next.user.token = c.start /\ f.seen.token = c.start
      BY <1>2, <2>1 DEF Looked, ProbeFields
    <2>4. ASSUME NEW s \in f.owned
          PROVE  SomebodyHeld(c.start, s)
      <3>1. PICK start : /\ Began(start) /\ start >= f.seen.token
                         /\ SomebodyHeld(start, s)
        BY <1>1, <2>4 DEF Probing
      <3>2. /\ start \in Nat /\ c.start \in Nat /\ start <= c.start
            /\ start >= c.start
        BY <1>1, <2>3, <3>1, Alive
      <3>3. start = c.start
        BY <3>2
      <3>4. QED
        BY <3>1, <3>3
    <2>5. Probing(next)
      BY <1>1, <2>3, <2>4 DEF Probing, LastLook
    <2>6. QED
      BY <2>2, <2>5, ProbeGoes
  <1>3. CASE new.seen # f.seen
    <2>1. PICK next : next = [[new EXCEPT !.owned = {}] EXCEPT !.step = @ + 1]
      OBVIOUS
    <2>2. f' = next
      BY <1>3, <2>1 DEF Current!FilesUsed, Current!Go, Current!SameIdentity
    <2>3. /\ DOMAIN next = ProbeFields /\ next.step = 10
          /\ next.seen.token = c.start /\ next.outcome = f.outcome
          /\ next.owned = {} /\ next.kept = f.kept
      BY <2>1 DEF Looked, ProbeFields
    <2>4. Probing(next)
      BY <1>1, <2>3 DEF Probing, LastLook
    <2>5. QED
      BY <2>2, <2>4, ProbeGoes
  <1>4. QED
    BY <1>2, <1>3

\* What a probe ends with is that of a process that was there at its last look.
LEMMA ObserveCodexKeeps ==
    ASSUME CurrentInv, Current!World, c.alive, NEW new, Looked(new),
           a = "codex", f.step = 11, new.seen = f.kept, Current!ObserveCodex(new)
    PROVE  CurrentInv'
  <1>1. Probing(f) /\ f.kept.token = c.start
    BY DEF CurrentInv, Looked
  <1>2. CASE ~f.usable
    <2>1. PICK next : next = [new EXCEPT !.step = 0, !.outcome = "unavailable"]
      OBVIOUS
    <2>2. f' = next
      BY <1>2, <2>1 DEF Current!ObserveCodex, Current!Done
    <2>3. DOMAIN next = ProbeFields /\ next.step = 0 /\ next.outcome = "unavailable"
      BY <2>1 DEF Looked, ProbeFields
    <2>4. Probing(next)
      BY <2>3 DEF Probing, LastLook
    <2>5. QED
      BY <2>2, <2>4, ProbeGoes
  <1>3. CASE f.usable
    <2>1. PICK claims, outcome, next :
             /\ claims = IF Current!SameKey(f.user, f.kept) THEN f.owned ELSE {}
             /\ outcome = IF claims = {} THEN "no identity" ELSE "claims"
             /\ next = [[new EXCEPT !.claims = claims]
                           EXCEPT !.step = 0, !.outcome = outcome]
      OBVIOUS
    <2>2. f' = next
      BY <1>3, <2>1 DEF Current!ObserveCodex, Current!Done
    <2>3. /\ DOMAIN next = ProbeFields /\ next.step = 0 /\ next.outcome = outcome
          /\ next.claims = claims /\ next.kept = f.kept
      BY <2>1 DEF Looked, ProbeFields
    <2>4. claims \subseteq f.owned /\ f.owned \subseteq e
      <3>1. f.owned \subseteq e
        BY <1>1 DEF Probing
      <3>2. claims \subseteq f.owned
        BY <2>1
      <3>3. QED
        BY <3>1, <3>2
    <2>5. ASSUME NEW s \in claims
          PROVE  SomebodyHeld(f.kept.token, s)
      <3>1. /\ Began(f.user.token) /\ f.user.token >= f.kept.token
            /\ SomebodyHeld(f.user.token, s)
        BY <1>1, <2>4, <2>5 DEF Probing
      <3>2. /\ f.user.token \in Nat /\ c.start \in Nat /\ f.user.token <= c.start
            /\ f.user.token >= c.start
        BY <1>1, <3>1, Alive
      <3>3. f.user.token = c.start
        BY <3>2
      <3>4. QED
        BY <1>1, <3>1, <3>3
    <2>6. outcome # "stale"
      BY <2>1
    <2>7. Probing(next)
      BY <2>3, <2>4, <2>5, <2>6 DEF Probing, LastLook
    <2>8. QED
      BY <2>2, <2>7, ProbeGoes
  <1>4. QED
    BY <1>2, <1>3

LEMMA ObserveClaudeKeeps ==
    ASSUME CurrentInv, Current!World, c.alive, NEW new, Looked(new),
           a = "claude", f.step = 8, new.seen = f.kept, Current!ObserveClaude(new)
    PROVE  CurrentInv'
  <1>1. f.kept.second = Current!Second(f.kept.token)
    BY DEF CurrentInv, Probing
  <1>2. CASE new.seen.second # Current!Second(f.read.by)
    <2>1. PICK next : next = [new EXCEPT !.step = 0, !.outcome = "stale"]
      OBVIOUS
    <2>2. f' = next
      BY <1>2, <2>1 DEF Current!ObserveClaude, Current!Done
    <2>3. /\ DOMAIN next = ProbeFields /\ next.step = 0 /\ next.outcome = "stale"
          /\ next.read = f.read /\ next.kept = f.kept
      BY <2>1 DEF Looked, ProbeFields
    <2>4. f.read.by # f.kept.token
      BY <1>1, <1>2
    <2>5. Probing(next)
      BY <2>3, <2>4 DEF Probing, LastLook
    <2>6. QED
      BY <2>2, <2>5, ProbeGoes
  <1>3. CASE new.seen.second = Current!Second(f.read.by)
    <2>1. PICK next :
             next = [[new EXCEPT !.claims = {[id |-> 0, native |-> f.read.native]}]
                        EXCEPT !.step = 0, !.outcome = "claims"]
      OBVIOUS
    <2>2. f' = next
      BY <1>3, <2>1 DEF Current!ObserveClaude, Current!Done
    <2>3. /\ DOMAIN next = ProbeFields /\ next.step = 0 /\ next.outcome = "claims"
          /\ next.read = f.read /\ next.kept = f.kept
          /\ next.claims = {[id |-> 0, native |-> f.read.native]}
      BY <2>1 DEF Looked, ProbeFields
    <2>4. \A s \in next.claims : s.id = 0
      BY <2>3
    <2>5. Probing(next)
      BY <1>1, <1>3, <2>3, <2>4 DEF Probing, LastLook
    <2>6. QED
      BY <2>2, <2>5, ProbeGoes
  <1>4. QED
    BY <1>2, <1>3

LEMMA TokenKeeps ==
    ASSUME CurrentInv, NEW of \in {"roster", "check", "before", "after", "final"},
           Current!Token(of)
    PROVE  CurrentInv'
  <1>1. Current!At(of, "token") /\ Current!World
    BY DEF Current!Token
  <1>2. PICK new : new = [f EXCEPT !.seen = [second |-> f.second, token |-> c.start]]
    OBVIOUS
  <1>3. Looked(new)
    BY <1>2, LookedIs
  <1>4. CASE ~c.alive
    <2>1. Current!Missing(of)
      BY <1>4 DEF Current!Token
    <2>2. QED
      BY <1>1, <2>1, GoneKeeps
  <1>5. CASE c.alive
    <2>1. CASE Current!LeftOut
      BY <1>1, <2>1, LeftOutKeeps
    <2>2. CASE of = "roster" /\ ~Current!LeftOut
      <3>1. f.step = 2
        BY <1>1, <2>2, LookIs
      <3>2. Current!Go(new)
        BY <1>2, <1>5, <2>2 DEF Current!Token
      <3>3. QED
        BY <1>1, <1>3, <1>5, <3>1, <3>2, RosterKeeps
    <2>3. CASE of = "check"
      <3>1. f.step = 4
        BY <1>1, <2>3, LookIs
      <3>2. Current!Check(new)
        BY <1>2, <1>5, <2>3 DEF Current!Token
      <3>3. QED
        BY <1>1, <1>3, <1>5, <3>1, <3>2, CheckKeeps
    <2>4. CASE of = "before"
      <3>1. a = "codex" /\ f.step = 6
        BY <1>1, <2>4, LookIs
      <3>2. Current!Go(new)
        BY <1>2, <1>5, <2>4 DEF Current!Token
      <3>3. QED
        BY <1>1, <1>3, <1>5, <3>1, <3>2, BeforeKeeps
    <2>5. CASE of = "after"
      <3>1. a = "codex" /\ f.step = 9
        BY <1>1, <2>5, LookIs
      <3>2. Current!FilesUsed(new)
        BY <1>2, <1>5, <2>5 DEF Current!Token
      <3>3. QED
        BY <1>1, <1>3, <1>5, <3>1, <3>2, AfterKeeps
    <2>6. CASE of = "final" /\ ~Current!LeftOut
      <3>1. f.step = LastLook
        BY <1>1, <2>6, LookIs
      <3>2. Current!Observe(new)
        BY <1>2, <1>5, <2>6 DEF Current!Token
      <3>3. /\ new.seen = f.kept
            /\ IF a = "codex" THEN Current!ObserveCodex(new)
               ELSE Current!ObserveClaude(new)
        BY <2>6, <3>2 DEF Current!Observe, Current!SameIdentity
      <3>4. CASE a = "codex"
        <4>1. f.step = 11 /\ Current!ObserveCodex(new)
          BY <3>1, <3>3, <3>4 DEF LastLook
        <4>2. QED
          BY <1>1, <1>3, <1>5, <3>3, <3>4, <4>1, ObserveCodexKeeps
      <3>5. CASE a # "codex"
        <4>1. a = "claude" /\ f.step = 8 /\ Current!ObserveClaude(new)
          BY <3>1, <3>3, <3>5 DEF LastLook, CurrentInv, Processing
        <4>2. QED
          BY <1>1, <1>3, <1>5, <3>3, <4>1, ObserveClaudeKeeps
      <3>6. QED
        BY <3>4, <3>5
    <2>7. QED
      BY <2>1, <2>2, <2>3, <2>4, <2>5, <2>6
  <1>6. QED
    BY <1>4, <1>5

LEMMA LsofKeeps ==
    ASSUME CurrentInv, Current!Lsof
    PROVE  CurrentInv'
  <1>1. Current!At("files", "lsof") /\ Current!World
    BY DEF Current!Lsof
  <1>2. a = "codex" /\ f.step = 7
    BY <1>1, LookIs
  <1>3. /\ Probing(f) /\ DOMAIN f = ProbeFields /\ f.owned = {}
        /\ Began(f.seen.token) /\ Began(f.kept.token)
    BY <1>2 DEF CurrentInv, Probing
  <1>4. CASE Current!Go([f EXCEPT !.owned = c.open \cap e])
    <2>1. PICK next : next = [[f EXCEPT !.owned = c.open \cap e] EXCEPT !.step = @ + 1]
      OBVIOUS
    <2>2. f' = next
      BY <1>4, <2>1 DEF Current!Go
    <2>3. /\ DOMAIN next = ProbeFields /\ next.step = 8 /\ next.owned = c.open \cap e
          /\ next.seen = f.seen /\ next.kept = f.kept /\ next.outcome = f.outcome
      BY <1>2, <1>3, <2>1 DEF ProbeFields
    <2>4. ASSUME NEW s \in c.open \cap e
          PROVE  \E start : /\ Began(start) /\ start >= f.seen.token
                            /\ SomebodyHeld(start, s)
      <3>1. c.alive /\ SomebodyHeld(c.start, s)
        BY <2>4 DEF CurrentInv, Processing
      <3>2. Began(c.start) /\ f.seen.token <= c.start
        BY <1>3, <3>1, Alive
      <3>3. c.start >= f.seen.token
        BY <1>3, <3>2 DEF Began
      <3>4. QED
        BY <3>1, <3>2, <3>3
    <2>5. Probing(next)
      BY <1>2, <1>3, <2>3, <2>4 DEF Probing, LastLook
    <2>6. QED
      BY <1>1, <2>2, <2>5, ProbeGoes
  <1>5. CASE f' = [f EXCEPT !.usable = FALSE, !.step = Len(Current!Steps) - 1]
    <2>1. PICK next : next = [f EXCEPT !.usable = FALSE, !.step = 10]
      OBVIOUS
    <2>2. f' = next
      <3>1. Len(Current!Steps) = 11
        BY <1>2, LooksOfCodex
      <3>2. QED
        BY <1>5, <2>1, <3>1
    <2>3. /\ DOMAIN next = ProbeFields /\ next.step = 10 /\ next.owned = {}
          /\ next.seen = f.seen /\ next.kept = f.kept /\ next.outcome = f.outcome
      BY <1>2, <1>3, <2>1 DEF ProbeFields
    <2>4. Probing(next)
      BY <1>2, <1>3, <2>3 DEF Probing, LastLook
    <2>5. QED
      BY <1>1, <2>2, <2>4, ProbeGoes
  <1>6. QED
    BY <1>4, <1>5 DEF Current!Lsof

LEMMA FindRegistryKeeps ==
    ASSUME CurrentInv, Current!FindRegistry
    PROVE  CurrentInv'
  <1>1. Current!At("registry", "find") /\ Current!World
    BY DEF Current!FindRegistry
  <1>2. a = "claude" /\ f.step = 5
    BY <1>1, LookIs
  <1>3. Probing(f) /\ DOMAIN f = ProbeFields
    BY DEF CurrentInv, Probing
  <1>4. CASE d.there
    <2>1. PICK next : next = [[f EXCEPT !.read = d] EXCEPT !.step = @ + 1]
      OBVIOUS
    <2>2. f' = next
      BY <1>4, <2>1 DEF Current!FindRegistry, Current!Go
    <2>3. /\ DOMAIN next = ProbeFields /\ next.step = 6
          /\ next.seen = f.seen /\ next.kept = f.kept /\ next.outcome = f.outcome
      BY <1>2, <1>3, <2>1 DEF ProbeFields
    <2>4. Probing(next)
      BY <1>2, <1>3, <2>3 DEF Probing, LastLook
    <2>5. QED
      BY <1>1, <2>2, <2>4, ProbeGoes
  <1>5. CASE ~d.there
    <2>1. PICK next : next = [f EXCEPT !.step = 0, !.outcome = "no identity"]
      OBVIOUS
    <2>2. f' = next
      BY <1>5, <2>1 DEF Current!FindRegistry, Current!Done
    <2>3. DOMAIN next = ProbeFields /\ next.step = 0 /\ next.outcome = "no identity"
      BY <1>3, <2>1 DEF ProbeFields
    <2>4. DOMAIN next = ProbeFields /\ next.step = 0
      BY <2>3
    <2>5. next.outcome # "claims" /\ next.outcome # "stale"
      BY <2>3
    <2>6. Probing(next)
      BY <1>2, <2>4, <2>5 DEF Probing, LastLook
    <2>7. QED
      BY <1>1, <2>2, <2>6, ProbeGoes
  <1>6. QED
    BY <1>4, <1>5

LEMMA ReadRegistryKeeps ==
    ASSUME CurrentInv, Current!ReadRegistry
    PROVE  CurrentInv'
  <1>1. Current!At("registry", "read") /\ Current!World
    BY DEF Current!ReadRegistry
  <1>2. a = "claude" /\ f.step = 6
    BY <1>1, LookIs
  <1>3. Probing(f) /\ DOMAIN f = ProbeFields
    BY DEF CurrentInv, Probing
  <1>4. CASE d = f.read
    <2>1. PICK next : next = [f EXCEPT !.step = @ + 1]
      OBVIOUS
    <2>2. f' = next
      BY <1>4, <2>1 DEF Current!ReadRegistry, Current!Go
    <2>3. /\ DOMAIN next = ProbeFields /\ next.step = 7
          /\ next.seen = f.seen /\ next.kept = f.kept /\ next.outcome = f.outcome
      BY <1>2, <1>3, <2>1 DEF ProbeFields
    <2>4. Probing(next)
      BY <1>2, <1>3, <2>3 DEF Probing, LastLook
    <2>5. QED
      BY <1>1, <2>2, <2>4, ProbeGoes
  <1>5. CASE d # f.read
    <2>1. PICK next : next = [Current!IdleProbe EXCEPT !.outcome = "failed"]
      OBVIOUS
    <2>2. f' = next
      BY <1>5, <2>1 DEF Current!ReadRegistry
    <2>3. Probing(next)
      BY <2>1, IdleProbeIs
    <2>4. QED
      BY <1>1, <2>2, <2>3, ProbeGoes
  <1>6. QED
    BY <1>4, <1>5

\* What the processes do disturbs nothing that was seen.
LEMMA ProcessesGo ==
    ASSUME CurrentInv, Processing', UNCHANGED <<a, e, f>>, g \subseteq g',
           \A start : Began(start) => Began(start)'
    PROVE  CurrentInv'
  <1>1. \A start, s : SomebodyHeld(start, s) => SomebodyHeld(start, s)'
    BY DEF SomebodyHeld
  <1>2. Probing(f)'
    BY <1>1 DEF CurrentInv, Probing, LastLook
  <1>3. QED
    BY <1>2 DEF CurrentInv

LEMMA ProcessesKeep ==
    ASSUME CurrentInv,
           \/ Current!StartProcess \/ Current!EndProcess \/ Current!ExecProcess
           \/ Current!OpenSessions \/ Current!WriteRegistry
    PROVE  CurrentInv'
  <1>1. Processing /\ DOMAIN c = {"alive", "start", "name", "open"} /\ b \in Nat
    BY DEF CurrentInv, Processing
  <1>2. CASE Current!StartProcess
    <2>1. PICK start, name :
             /\ start \in b + 1 .. Bounds.current.time
             /\ c' = [alive |-> TRUE, start |-> start, name |-> name, open |-> {}]
             /\ b' = start /\ UNCHANGED <<a, d, e, f, g>>
      BY <1>2 DEF Current!StartProcess
    <2>2. start \in Nat /\ b < start
      BY <1>1, <2>1
    <2>3. c'.alive /\ c'.start = start /\ c'.open = {}
          /\ DOMAIN c' = {"alive", "start", "name", "open"}
      BY <2>1
    <2>4. Processing'
      BY <1>1, <2>1, <2>2, <2>3 DEF Processing, Began
    <2>5. \A seen : Began(seen) => Began(seen)'
      BY <1>1, <2>1, <2>2, <2>3 DEF Began
    <2>6. QED
      BY <2>1, <2>4, <2>5, ProcessesGo
  <1>3. CASE Current!EndProcess
    <2>1. c' = Current!Nobody /\ UNCHANGED <<a, b, e, f, g>>
      BY <1>3 DEF Current!EndProcess
    <2>2. /\ ~c'.alive /\ c'.alive \in BOOLEAN /\ c'.open = {}
          /\ DOMAIN c' = {"alive", "start", "name", "open"}
      BY <2>1 DEF Current!Nobody
    <2>3. Processing'
      BY <1>1, <2>1, <2>2 DEF Processing
    <2>4. \A seen : Began(seen) => Began(seen)'
      BY <2>1, <2>2 DEF Began
    <2>5. QED
      BY <2>1, <2>3, <2>4, ProcessesGo
  <1>4. CASE Current!ExecProcess
    <2>1. PICK name : /\ c' = [c EXCEPT !.name = name, !.open = {}]
                      /\ UNCHANGED <<a, b, e, f, g>>
      BY <1>4 DEF Current!ExecProcess
    <2>2. /\ c'.alive = c.alive /\ c'.start = c.start /\ c'.open = {}
          /\ DOMAIN c' = {"alive", "start", "name", "open"}
      BY <1>1, <2>1
    <2>3. \A seen : Began(seen) <=> Began(seen)'
      BY <2>1, <2>2 DEF Began
    <2>4. Processing'
      BY <1>1, <2>1, <2>2 DEF Processing, Began
    <2>5. QED
      BY <2>1, <2>3, <2>4, ProcessesGo
  <1>5. CASE Current!OpenSessions
    <2>1. PICK open : /\ c' = [c EXCEPT !.open = open]
                      /\ g' = g \cup {[by |-> c.start, session |-> s] : s \in open}
                      /\ c.alive /\ UNCHANGED <<a, b, e, f>>
      BY <1>5 DEF Current!OpenSessions, Current!Change
    <2>2. /\ c'.alive = c.alive /\ c'.start = c.start /\ c'.open = open
          /\ DOMAIN c' = {"alive", "start", "name", "open"}
      BY <1>1, <2>1
    <2>3. \A seen : Began(seen) <=> Began(seen)'
      BY <2>1, <2>2 DEF Began
    <2>4. \A s \in open : SomebodyHeld(c.start, s)'
      BY <2>1, <2>2 DEF SomebodyHeld
    <2>5. Processing'
      BY <1>1, <2>1, <2>2, <2>4 DEF Processing, Began, SomebodyHeld
    <2>6. QED
      BY <2>1, <2>3, <2>5, ProcessesGo
  <1>6. CASE Current!WriteRegistry
    <2>1. UNCHANGED <<a, b, c, e, f, g>>
      BY <1>6 DEF Current!WriteRegistry
    <2>2. QED
      BY <2>1 DEF CurrentInv, Processing, Probing, Began, SomebodyHeld, LastLook
  <1>7. QED
    BY <1>2, <1>3, <1>4, <1>5, <1>6

LEMMA CurrentStep ==
    ASSUME CurrentInv, Current!Next
    PROVE  CurrentInv'
  BY StartProbeKeeps, PsKeeps, TokenKeeps, LsofKeeps, FindRegistryKeeps,
     ReadRegistryKeeps, ProcessesKeep DEF Current!Next

LEMMA CurrentBegins ==
    ASSUME Current!Init
    PROVE  CurrentInv
  <1>1. /\ a \in {"codex", "claude"} /\ b = 0 /\ c = Current!Nobody
        /\ e \subseteq Rollouts /\ f = Current!IdleProbe
    BY DEF Current!Init
  <1>2. Processing
    BY <1>1 DEF Processing, Current!Nobody
  <1>3. DOMAIN f = ProbeFields /\ f.step = 0 /\ f.outcome = "none"
    BY <1>1 DEF Current!IdleProbe, ProbeFields
  <1>4. Probing(f)
    BY <1>1, <1>3 DEF Probing, LastLook
  <1>5. QED
    BY <1>1, <1>2, <1>4 DEF CurrentInv

LEMMA CurrentAlways == Spec => [](part = "list --current" => CurrentInv)
  <1> DEFINE Inv == part = "list --current" => CurrentInv
  <1>1. Init => Inv
    BY CurrentBegins DEF Init
  <1>2. Inv /\ [Next]_vars => Inv'
    <2> SUFFICES ASSUME Inv, [Next]_vars, part' = "list --current"
                 PROVE  CurrentInv'
      OBVIOUS
    <2>1. CASE UNCHANGED vars
      <3>1. CurrentInv /\ Current!World /\ f' = f
        BY <2>1 DEF vars, Current!World
      <3>2. PICK new : new = f
        OBVIOUS
      <3>3. QED
        BY <3>1, <3>2, ProbeGoes DEF CurrentInv
    <2>2. CASE Next
      <3>1. part = "list --current"
        BY <2>2 DEF Next
      <3>2. Current!Next
        BY <2>2, <3>1 DEF Next, RunState, RunInit, RunList, RunScan, RunRead,
           RunShow, RunCompletion, RunCurrent
      <3>3. QED
        BY <3>1, <3>2, CurrentStep
    <2>3. QED
      BY <2>1, <2>2
  <1>3. QED
    BY <1>1, <1>2, PTL DEF Spec

\* What is selected of a native ID, when it is not ambiguous.
LEMMA SelectedIs ==
    ASSUME NEW native
    PROVE  /\ Current!Selected(native) # 0 =>
                 \/ \E s \in f.claims : /\ s.native = native /\ s.id # 0
                                        /\ s.id = Current!Selected(native)
                 \/ /\ \A s \in f.claims : s.native = native => s.id = 0
                    /\ \A s \in Current!Candidates(native) :
                          s.id = Current!Selected(native)
  <1>1. PICK exact, ids :
           /\ exact = {s.id : s \in {x \in f.claims : x.native = native}} \ {0}
           /\ ids = IF exact # {} THEN exact
                    ELSE {s.id : s \in Current!Candidates(native)}
    OBVIOUS
  <1>2. Current!Selected(native) =
            IF \E id \in ids : ids = {id} THEN CHOOSE id \in ids : TRUE ELSE 0
    BY <1>1 DEF Current!Selected
  <1>3. SUFFICES ASSUME Current!Selected(native) # 0
                 PROVE  \/ \E s \in f.claims : /\ s.native = native /\ s.id # 0
                                               /\ s.id = Current!Selected(native)
                        \/ /\ \A s \in f.claims : s.native = native => s.id = 0
                           /\ \A s \in Current!Candidates(native) :
                                 s.id = Current!Selected(native)
    OBVIOUS
  <1>4. PICK id \in ids : ids = {id}
    BY <1>2, <1>3
  <1>5. Current!Selected(native) = id
    BY <1>2, <1>4
  <1>6. CASE exact # {}
    BY <1>1, <1>4, <1>5, <1>6
  <1>7. CASE exact = {}
    <2>1. \A s \in f.claims : s.native = native => s.id = 0
      BY <1>1, <1>7
    <2>2. \A s \in Current!Candidates(native) : s.id \in ids
      BY <1>1, <1>7
    <2>3. QED
      BY <1>4, <1>5, <2>1, <2>2
  <1>8. QED
    BY <1>6, <1>7

\* A session that is claimed of a process was its own, although PIDs are reused:
\* it had the rollout open during the probe (the file uses of the Codex provider,
\* between two looks and before the last), or it wrote the registry file, or one
\* that started in the same second did (internal/presence); and none is called
\* stale because of its own file.
THEOREM ClaimedSessionsAreOwn == Spec => []ClaimsAreOwn
  <1>1. ASSUME CurrentInv
        PROVE  Current!ClaimsAreOwn
    <2>1. Probing(f) /\ \A s \in e : s.id # 0
      BY <1>1, CommandsAssumption DEF CurrentInv, Current!ConstantsOK
    <2>2. ASSUME f.outcome = "claims", a = "codex", NEW s \in f.claims
          PROVE  /\ [by |-> f.kept.token, session |-> s] \in g
                 /\ Current!Selected(s.native) \in {0} \cup {x.id : x \in f.claims}
      <3>1. SomebodyHeld(f.kept.token, s) /\ s \in e
        BY <2>1, <2>2 DEF Probing
      <3>2. s.id # 0
        BY <2>1, <3>1
      <3>3. Current!Selected(s.native) \in {0} \cup {x.id : x \in f.claims}
        BY <2>2, <3>2, SelectedIs
      <3>4. QED
        BY <3>1, <3>3 DEF SomebodyHeld
    <2>3. ASSUME f.outcome = "claims", a = "claude"
          PROVE  /\ Current!Second(f.read.by) = Current!Second(f.kept.token)
                 /\ \A s \in f.claims : \A x \in Current!Candidates(s.native) :
                       Current!Selected(s.native) # 0 =>
                          x.id = Current!Selected(s.native)
      <3>1. /\ Current!Second(f.read.by) = Current!Second(f.kept.token)
            /\ \A s \in f.claims : s.id = 0
        BY <2>1, <2>3 DEF Probing
      <3>2. QED
        BY <3>1, SelectedIs
    <2>4. f.outcome = "stale" => f.read.by # f.kept.token
      BY <2>1 DEF Probing
    <2>5. QED
      BY <2>2, <2>3, <2>4 DEF Current!ClaimsAreOwn
  <1>2. (part = "list --current" => CurrentInv) => ClaimsAreOwn
    BY <1>1 DEF ClaimsAreOwn
  <1>3. QED
    BY <1>2, CurrentAlways, PTL
=============================================================================
