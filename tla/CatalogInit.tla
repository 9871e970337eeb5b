---------------------------- MODULE CatalogInit ----------------------------
(***************************************************************************)
(* catalog init and doctor (internal/catalog/catalog.go, doctor.go): what  *)
(* several of them, and a user who drops the schema, do to each other.     *)
(***************************************************************************)
EXTENDS Integers

CONSTANT Inits \* processes that run catalog init

ConstantsOK == "free" \notin Inits

VARIABLES
    server,  \* the extensions: ready, not installed, or not to be had
    catalog, \* what the schema is: see CatalogKinds
    init,    \* per process: the statement it is at, and what it reports
    lock,    \* who has the advisory lock of catalog maintenance
    doctor   \* the doctor command: its statement and its checks

vars == <<server, catalog, init, lock, doctor>>

\* No schema; one without tables; one with the tables of this revision, of
\* another, or with some tables missing.
CatalogKinds == {"absent", "bare", "ours", "other", "damaged"}

TypeOK ==
    /\ server \in {"ready", "installable", "blocked"}
    /\ catalog \in CatalogKinds
    /\ \A i \in Inits :
          /\ init[i].at \in {"probe", "extensions", "create extensions",
                             "probe again", "lock", "schema", "tables",
                             "commit", "done"}
          /\ init[i].makes \subseteq {"schema", "tables"}
          /\ init[i].outcome \in {"none", "created", "present", "mismatch",
                "capability missing", "extensions collided", "collided",
                "dropped", "failed"}
    /\ lock \in Inits \cup {"free"}
    /\ doctor.at \in 0 .. 5
    /\ doctor.healthy \in BOOLEAN

Init ==
    /\ server \in {"ready", "installable", "blocked"}
    /\ catalog \in CatalogKinds
    /\ init = [i \in Inits |-> [at |-> "probe", makes |-> {}, outcome |-> "none"]]
    /\ lock = "free"
    /\ doctor = [at |-> 0, healthy |-> TRUE]

Goto(i, at) == init' = [init EXCEPT ![i].at = at]
Ends(i, outcome) ==
    /\ init' = [init EXCEPT ![i].at = "done", ![i].outcome = outcome]
    /\ lock' = IF lock = i THEN "free" ELSE lock

-----------------------------------------------------------------------------
(* Init                                                                    *)

\* What blocks is reported; what is only not installed will be.
Probe(i) ==
    /\ init[i].at = "probe"
    /\ \/ server = "blocked" /\ Ends(i, "capability missing")
       \/ server = "installable" /\ Goto(i, "extensions") /\ UNCHANGED lock
       \/ server = "ready" /\ Goto(i, "lock") /\ UNCHANGED lock
    /\ UNCHANGED <<server, catalog, doctor>>

\* CREATE EXTENSION IF NOT EXISTS, before the lock: a statement that saw none
\* fails if another one has been created meanwhile.
EnsureCapabilities(i) ==
    /\ init[i].at = "extensions"
    /\ Goto(i, IF server = "ready" THEN "probe again" ELSE "create extensions")
    /\ UNCHANGED <<server, catalog, lock, doctor>>
CreateExtensions(i) ==
    /\ init[i].at = "create extensions"
    /\ IF server = "ready" THEN Ends(i, "extensions collided")
       ELSE Goto(i, "probe again") /\ UNCHANGED lock
    /\ server' = "ready"
    /\ UNCHANGED <<catalog, doctor>>
ProbeAgain(i) ==
    /\ init[i].at = "probe again"
    /\ IF server = "ready" THEN Goto(i, "lock") /\ UNCHANGED lock
       ELSE Ends(i, "capability missing")
    /\ UNCHANGED <<server, catalog, doctor>>

\* initializeSchema: one transaction, alone by the advisory lock.
TakesAny == TRUE
TakesLock == lock = "free"
LockMaintenance(i) ==
    /\ init[i].at = "lock"
    /\ TakesLock
    /\ lock' = i
    /\ Goto(i, "schema")
    /\ UNCHANGED <<server, catalog, doctor>>

\* CREATE SCHEMA IF NOT EXISTS sees what others committed.
CreateSchema(i) ==
    /\ init[i].at = "schema"
    /\ init' = [init EXCEPT ![i].at = "tables",
                            ![i].makes = IF catalog = "absent" THEN {"schema"}
                                         ELSE {}]
    /\ UNCHANGED <<server, catalog, lock, doctor>>

\* ensureSubstrate: the tables are all there, or none is.
EnsureSubstrate(i) ==
    /\ init[i].at = "tables"
    /\ \/ /\ catalog \in {"ours", "other", "damaged"}
          /\ Ends(i, IF catalog = "ours" THEN "present" ELSE "mismatch")
       \/ /\ catalog \in {"absent", "bare"}
          /\ catalog = "absent" => "schema" \in init[i].makes
          /\ init' = [init EXCEPT ![i].at = "commit",
                                  ![i].makes = @ \cup {"tables"}]
          /\ UNCHANGED lock
       \/ /\ catalog = "absent" /\ "schema" \notin init[i].makes
          /\ Ends(i, "dropped")
    /\ UNCHANGED <<server, catalog, doctor>>

\* What somebody else made since cannot be made again.
CommitSchema(i) ==
    /\ init[i].at = "commit"
    /\ IF catalog = (IF "schema" \in init[i].makes THEN "absent" ELSE "bare")
       THEN catalog' = "ours" /\ Ends(i, "created")
       ELSE Ends(i, "collided") /\ UNCHANGED catalog
    /\ UNCHANGED <<server, doctor>>

\* A kill, a lost connection or a missing privilege; the transaction is undone.
InitFails(i) ==
    /\ init[i].at # "done"
    /\ Ends(i, "failed")
    /\ UNCHANGED <<server, catalog, doctor>>

-----------------------------------------------------------------------------
(* Doctor: the probe, then the schema once more, catalog_meta, and the     *)
(* revision in it; a check that fails does not end it.                     *)

Check(ok) == doctor' = [doctor EXCEPT !.at = @ + 1, !.healthy = @ /\ ok]
StartDoctor ==
    /\ doctor.at = 0
    /\ doctor' = [at |-> 1, healthy |-> TRUE]
    /\ UNCHANGED <<server, catalog, init, lock>>
DoctorProbe ==
    /\ doctor.at = 1
    /\ Check(server = "ready" /\ catalog # "absent")
    /\ UNCHANGED <<server, catalog, init, lock>>
DoctorStatus ==
    /\ doctor.at \in {2, 3}
    /\ \/ /\ catalog \in {"ours", "other", "damaged"}
          /\ Check(TRUE)
       \/ /\ catalog = "bare" /\ doctor.at = 2
          /\ Check(TRUE)
       \/ /\ catalog = "absent" \/ (catalog = "bare" /\ doctor.at = 3)
          /\ doctor' = [doctor EXCEPT !.at = 5, !.healthy = FALSE]
    /\ UNCHANGED <<server, catalog, init, lock>>
DoctorRevision ==
    /\ doctor.at = 4
    /\ IF catalog \in {"ours", "other", "damaged"} THEN Check(catalog # "other")
       ELSE doctor' = [doctor EXCEPT !.at = 5, !.healthy = FALSE]
    /\ UNCHANGED <<server, catalog, init, lock>>
Doctor == StartDoctor \/ DoctorProbe \/ DoctorStatus \/ DoctorRevision

-----------------------------------------------------------------------------
(* The user drops the schema.  Nobody sees, or drops, what is not committed *)
(* yet, and the tables of a transaction keep its schema.                    *)

DropSchema ==
    /\ catalog # "absent"
    /\ \A i \in Inits : init[i].at # "commit"
    /\ catalog' = "absent"
    /\ UNCHANGED <<server, init, lock, doctor>>

Next == \/ \E i \in Inits :
              \/ Probe(i) \/ EnsureCapabilities(i) \/ CreateExtensions(i)
              \/ ProbeAgain(i)
              \/ LockMaintenance(i) \/ CreateSchema(i) \/ EnsureSubstrate(i)
              \/ CommitSchema(i) \/ InitFails(i)
        \/ Doctor \/ DropSchema

Spec == Init /\ [][Next]_vars

-----------------------------------------------------------------------------
\* Two inits at a time do not fail of each other in the schema: what the second
\* finds made is what the first committed.  Their extensions may collide, and
\* then they are there.
InitsAgree ==
    \A i \in Inits : /\ init[i].outcome # "collided"
                     /\ init[i].outcome = "extensions collided" => server = "ready"
=============================================================================
