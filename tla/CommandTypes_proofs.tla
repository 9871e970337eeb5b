------------------------ MODULE CommandTypes_proofs ------------------------
(***************************************************************************)
(* The types of the variables of every part of Commands.  The invariant of *)
(* a part says what its properties need; the types add the bounds of its   *)
(* counters, versions and seconds, and that every row, blob, claim and     *)
(* snapshot is one there may be, since what it was made of was.            *)
(***************************************************************************)
EXTENDS ReaderCommands_proofs

-----------------------------------------------------------------------------
(* Each part by itself.                                                    *)

\* catalog init and doctor.
InitTypes ==
    /\ InitInv
    /\ a \in {"ready", "installable", "blocked"} /\ b \in Maintenance!CatalogKinds
    /\ e \in [at : 0 .. 5, healthy : BOOLEAN]

LEMMA InitTypesBegin == Maintenance!Init => InitTypes
  BY InitBegins DEF Maintenance!Init, InitTypes

LEMMA CheckTyped ==
    ASSUME NEW x \in [at : 0 .. 5, healthy : BOOLEAN], NEW ok \in BOOLEAN,
           x.at < 5
    PROVE  [x EXCEPT !.at = @ + 1, !.healthy = @ /\ ok] \in
               [at : 0 .. 5, healthy : BOOLEAN]
  <1>1. x.at + 1 \in 0 .. 5 /\ x.healthy \in BOOLEAN
    OBVIOUS
  <1>2. (x.healthy /\ ok) \in BOOLEAN
    BY <1>1
  <1>3. QED
    BY <1>1, <1>2, Zenon

LEMMA DoctorTyped ==
    ASSUME InitTypes, Maintenance!Doctor
    PROVE  UNCHANGED <<a, b, c, d>> /\ e' \in [at : 0 .. 5, healthy : BOOLEAN]
  <1>1. PICK Doctors : Doctors = [at : 0 .. 5, healthy : BOOLEAN]
    OBVIOUS
  <1>2. e \in Doctors
    BY <1>1 DEF InitTypes
  <1>3. ASSUME NEW ok \in BOOLEAN, e.at < 5,
               e' = [e EXCEPT !.at = @ + 1, !.healthy = @ /\ ok]
        PROVE  e' \in Doctors
    BY <1>1, <1>2, <1>3, CheckTyped
  <1>4. ASSUME e' = [e EXCEPT !.at = 5, !.healthy = FALSE]
        PROVE  e' \in Doctors
    <2>1. 5 \in 0 .. 5 /\ FALSE \in BOOLEAN
      OBVIOUS
    <2>2. QED
      BY <1>1, <1>2, <1>4, <2>1, Zenon
  <1>5. CASE Maintenance!StartDoctor
    BY <1>1, <1>5 DEF Maintenance!StartDoctor
  <1>6. CASE Maintenance!DoctorProbe
    <2>1. PICK ok \in BOOLEAN : ok = (a = "ready" /\ b # "absent")
      OBVIOUS
    <2>2. e' = [e EXCEPT !.at = @ + 1, !.healthy = @ /\ ok]
      BY <1>6, <2>1 DEF Maintenance!DoctorProbe, Maintenance!Check
    <2>3. UNCHANGED <<a, b, c, d>> /\ e.at < 5
      BY <1>6 DEF Maintenance!DoctorProbe
    <2>4. e' \in Doctors
      BY <1>3, <2>2, <2>3, Zenon
    <2>5. QED
      BY <1>1, <2>3, <2>4
  <1>7. CASE Maintenance!DoctorStatus
    <2>1. /\ UNCHANGED <<a, b, c, d>> /\ e.at < 5
          /\ \/ e' = [e EXCEPT !.at = @ + 1, !.healthy = @ /\ TRUE]
             \/ e' = [e EXCEPT !.at = 5, !.healthy = FALSE]
      BY <1>7 DEF Maintenance!DoctorStatus, Maintenance!Check
    <2>2. QED
      BY <1>1, <1>3, <1>4, <2>1
  <1>8. CASE Maintenance!DoctorRevision
    <2>1. PICK ok \in BOOLEAN : ok = (b # "other")
      OBVIOUS
    <2>2. UNCHANGED <<a, b, c, d>> /\ e.at = 4
      BY <1>8 DEF Maintenance!DoctorRevision
    <2>3. \/ Maintenance!Check(b # "other")
          \/ e' = [e EXCEPT !.at = 5, !.healthy = FALSE]
      BY <1>8, Zenon DEF Maintenance!DoctorRevision
    <2>4. Maintenance!Check(b # "other") =>
             e' = [e EXCEPT !.at = @ + 1, !.healthy = @ /\ ok]
      BY <2>1, Zenon DEF Maintenance!Check
    <2>5. e.at < 5
      BY <2>2
    <2>6. e' \in Doctors
      BY <1>3, <1>4, <2>3, <2>4, <2>5, Zenon
    <2>7. QED
      BY <1>1, <2>2, <2>6
  <1>9. QED
    BY <1>1, <1>5, <1>6, <1>7, <1>8 DEF Maintenance!Doctor

LEMMA InitTypesStep == InitTypes /\ Maintenance!Next => InitTypes'
  <1> SUFFICES ASSUME InitTypes, Maintenance!Next
               PROVE  InitTypes'
    OBVIOUS
  <1>1. InitInv'
    BY InitStep DEF InitTypes
  <1>2. ASSUME NEW p \in Processes,
               \/ Maintenance!Probe(p) \/ Maintenance!EnsureCapabilities(p)
               \/ Maintenance!CreateExtensions(p) \/ Maintenance!ProbeAgain(p)
               \/ Maintenance!LockMaintenance(p) \/ Maintenance!CreateSchema(p)
               \/ Maintenance!EnsureSubstrate(p) \/ Maintenance!CommitSchema(p)
               \/ Maintenance!InitFails(p)
        PROVE  /\ a' \in {"ready", "installable", "blocked"}
               /\ b' \in Maintenance!CatalogKinds /\ UNCHANGED e
    BY <1>2 DEF InitTypes, Maintenance!Probe, Maintenance!EnsureCapabilities,
       Maintenance!CreateExtensions, Maintenance!ProbeAgain,
       Maintenance!LockMaintenance, Maintenance!CreateSchema,
       Maintenance!EnsureSubstrate, Maintenance!CommitSchema,
       Maintenance!InitFails, Maintenance!CatalogKinds
  <1>3. CASE Maintenance!Doctor
    BY <1>1, <1>3, DoctorTyped DEF InitTypes
  <1>4. CASE Maintenance!DropSchema
    BY <1>1, <1>4 DEF InitTypes, Maintenance!DropSchema, Maintenance!CatalogKinds
  <1>5. QED
    BY <1>1, <1>2, <1>3, <1>4 DEF Maintenance!Next, InitTypes

LEMMA InitIsTyped == InitTypes => Maintenance!TypeOK
  <1> SUFFICES ASSUME InitTypes
               PROVE  Maintenance!TypeOK
    OBVIOUS
  <1>1. \A p \in Processes : /\ c[p].at \in Statements
                             /\ c[p].makes \subseteq {"schema", "tables"}
                             /\ c[p].outcome \in InitOutcomes
    BY InitFields DEF InitTypes
  <1>2. e.at \in 0 .. 5 /\ e.healthy \in BOOLEAN
    BY DEF InitTypes
  <1>3. QED
    BY <1>1, <1>2 DEF InitTypes, InitInv, Maintenance!TypeOK, Statements, InitOutcomes

-----------------------------------------------------------------------------
\* completion install: no version is newer than the next edit, which has not
\* more than MaxEdits before it.
InstallTypes ==
    /\ InstallInv
    /\ i <= Bounds.completion.edits
    /\ c \in {"absent", "partial", "whole"}
    /\ g \in BOOLEAN /\ h \in BOOLEAN
    /\ \A k \in Places : \A content \in e[k] : content.lines <= i + 1

LEMMA InstallTypesBegin == Completion!Init => InstallTypes
  <1> SUFFICES ASSUME Completion!Init
               PROVE  InstallTypes
    OBVIOUS
  <1>1. 0 <= Bounds.completion.edits
    BY CommandsAssumption DEF Completion!ConstantsOK
  <1>2. \A k \in Places : e[k] = {}
    BY DEF Completion!Init, Completion!AllProfiles, Places
  <1>3. QED
    BY <1>1, <1>2, InstallBegins DEF Completion!Init, InstallTypes

\* What a run does to all but the profiles and itself.
LEMMA InstallRuns ==
    ASSUME InstallTypes, NEW p \in Processes, Completion!Run(p)
    PROVE  /\ UNCHANGED <<a, i>>
           /\ c' \in {"absent", "partial", "whole"}
           /\ g' \in BOOLEAN /\ h' \in BOOLEAN
           /\ e' = e \/ e' = [e EXCEPT ![d[p].of] = @ \cup {d[p].old}]
  <1> USE DEF InstallTypes
  <1>1. CASE Completion!StartInstall(p)
    BY <1>1 DEF Completion!StartInstall, Completion!Rest
  <1>2. CASE Completion!Truncate(p)
    BY <1>2 DEF Completion!Truncate, Completion!Rest
  <1>3. CASE Completion!Generate(p)
    BY <1>3 DEF Completion!Generate, Completion!Rest
  <1>4. CASE Completion!EnsureManagedBlock(p)
    <2>1. UNCHANGED <<a, c, e, h, i>>
      BY <1>4 DEF Completion!EnsureManagedBlock, Completion!Rest
    <2>2. g' \in BOOLEAN
      BY <1>4 DEF Completion!EnsureManagedBlock
    <2>3. QED
      BY <2>1, <2>2
  <1>5. CASE Completion!Rename(p) \/ Completion!RenameAgain(p)
    BY <1>5 DEF Completion!Rename, Completion!RenameAgain, Completion!Replace,
       Completion!Rest
  <1>6. CASE Completion!SetAside(p)
    BY <1>6 DEF Completion!SetAside, Completion!Rest
  <1>7. CASE Completion!RollBack(p)
    BY <1>7 DEF Completion!RollBack, Completion!Rest
  <1>8. CASE Completion!CleanUp(p)
    BY <1>8 DEF Completion!CleanUp, Completion!Rest
  <1>9. CASE Completion!Killed(p)
    BY <1>9 DEF Completion!Killed, Completion!Rest
  <1>10. QED
    BY <1>1, <1>2, <1>3, <1>4, <1>5, <1>6, <1>7, <1>8, <1>9 DEF Completion!Run

LEMMA InstallTypesStep == InstallTypes /\ Completion!Next => InstallTypes'
  <1> SUFFICES ASSUME InstallTypes, Completion!Next
               PROVE  InstallTypes'
    OBVIOUS
  <1>1. InstallInv'
    BY InstallStep DEF InstallTypes
  <1>2. i \in Nat /\ Bounds.completion.edits \in Nat
    BY CommandsAssumption DEF InstallTypes, InstallInv, InstallTyped,
       Completion!ConstantsOK
  <1>3. ASSUME NEW p \in Processes, Completion!Run(p)
        PROVE  InstallTypes'
    <2>1. ASSUME NEW k \in Places, NEW content \in e'[k]
          PROVE  content.lines <= i + 1
      <3>1. d[p].old.lines <= i + 1 /\ e \in [Places -> SUBSET Profile]
        BY DEF InstallTypes, InstallInv, InstallTyped, LinesWithin
      <3>2. content \in e[k] \/ content = d[p].old
        BY <1>3, <2>1, <3>1, InstallRuns
      <3>3. QED
        BY <3>1, <3>2 DEF InstallTypes
    <2>2. /\ UNCHANGED i /\ c' \in {"absent", "partial", "whole"}
          /\ g' \in BOOLEAN /\ h' \in BOOLEAN
      BY <1>3, InstallRuns
    <2>3. QED
      BY <1>1, <2>1, <2>2 DEF InstallTypes
  <1>4. ASSUME NEW k \in Completion!Profiles, Completion!EditProfile(k)
        PROVE  InstallTypes'
    <2>1. UNCHANGED <<c, e, g, h>> /\ i' = i + 1 /\ i < Bounds.completion.edits
      BY <1>4 DEF Completion!EditProfile
    <2>2. \A m \in Places : \A content \in e[m] :
             content.lines \in Nat /\ content.lines <= i + 1
      BY DEF InstallTypes, InstallInv, InstallTyped, Profile
    <2>3. \A n \in Nat : n <= i + 1 => n <= i' + 1
      BY <1>2, <2>1
    <2>4. i' <= Bounds.completion.edits
      BY <1>2, <2>1
    <2>5. \A m \in Places : \A content \in e'[m] : content.lines <= i' + 1
      BY <2>1, <2>2, <2>3
    <2>6. QED
      BY <1>1, <2>1, <2>4, <2>5 DEF InstallTypes
  <1>5. QED
    BY <1>3, <1>4 DEF Completion!Next

LEMMA InstallIsTyped == InstallTypes => Completion!TypeOK
  <1> SUFFICES ASSUME InstallTypes
               PROVE  Completion!TypeOK
    OBVIOUS
  <1>1. /\ i \in Nat /\ i <= Bounds.completion.edits
        /\ Bounds.completion.edits \in Nat
    BY CommandsAssumption DEF InstallTypes, InstallInv, InstallTyped,
       Completion!ConstantsOK
  <1>2. \A n \in Nat : n <= i + 1 => n \in Completion!Versions
    BY <1>1 DEF Completion!Versions
  <1>3. ASSUME NEW content \in Profile, content.lines <= i + 1
        PROVE  content \in Completion!Contents
    BY <1>2, <1>3 DEF Profile, Completion!Contents
  <1>4. b \in [Completion!AllProfiles -> Completion!Contents]
    BY <1>3 DEF InstallTypes, InstallInv, InstallTyped, LinesWithin, Places,
       Completion!AllProfiles
  <1>5. f \in [Completion!AllProfiles -> Completion!Versions]
    BY <1>2 DEF InstallTypes, InstallInv, InstallTyped, LinesWithin, Places,
       Completion!AllProfiles
  <1>6. \A k \in Completion!AllProfiles : e[k] \subseteq Completion!Contents
    BY <1>3 DEF InstallTypes, InstallInv, InstallTyped, Places,
       Completion!AllProfiles
  <1>7. ASSUME NEW p \in Processes
        PROVE  /\ d[p].at \in InstallSteps /\ d[p].of \in Completion!AllProfiles
               /\ d[p].new \in Completion!Contents
               /\ d[p].old \in Completion!Contents
    BY <1>3, InstallOf DEF InstallTypes, InstallInv, LinesWithin, Places,
       Completion!AllProfiles
  <1>8. QED
    BY <1>4, <1>5, <1>6, <1>7 DEF InstallTypes, InstallInv, InstallTyped,
       InstallSteps, Completion!TypeOK

-----------------------------------------------------------------------------
\* list: no version that was seen is newer than the newest there was.
ListingSteps == {"idle", "next", "beside", "read beside", "read transcript", "flush"}
Seen(map) == \A o \in DOMAIN map : NotOlder(f, map[o].ref.read)
Referred(refs) ==
    \A o \in DOMAIN refs : /\ NotOlder(f, refs[o].read)
                           /\ refs[o].parent <= f.transcript
NoNewer(it) ==
    /\ it.at \in ListingSteps
    /\ NotOlder(f, it.got) /\ Referred(it.refs) /\ Seen(it.entries)

ListingTypes ==
    /\ ListingInv
    /\ f.transcript <= Bounds.list.versions /\ f.beside <= Bounds.list.versions
    /\ c = Listing!Corrupt \/ Seen(c)
    /\ \A p \in Processes : NoNewer(d[p])

LEMMA NewestIs ==
    ASSUME ListingTypes
    PROVE  /\ Containers /\ a \in Harnesses /\ f \in ContainerStates
           /\ f.transcript \in Nat /\ f.beside \in Nat
           /\ b \in [Occurrences -> ContainerStates]
           /\ \A o \in Occurrences : b[o] \in ContainerStates /\ NotOlder(f, b[o])
  BY DEF ListingTypes, ListingInv, Containers, ContainerStates

LEMMA IdleNoNewer ==
    ASSUME ListingTypes
    PROVE  NoNewer(Listing!Idle)
  <1>1. NotOlder(f, Listing!NoContainer)
    BY NewestIs, NoContainerIs
  <1>2. DOMAIN Listing!Nothing = {}
    BY NothingMaps
  <1>3. QED
    BY <1>1, <1>2, IdleIs DEF NoNewer, Referred, Seen, ListingSteps

\* One more is listed, or cached.
LEMMA SetReferred ==
    ASSUME NEW refs, Referred(refs), NEW o, NEW ref, NotOlder(f, ref.read),
           ref.parent <= f.transcript
    PROVE  Referred(Listing!Set(refs, o, ref))
  BY DEF Referred, Listing!Set

LEMMA SetSeen ==
    ASSUME NEW map, Seen(map), NEW o, NEW stamp, NEW ref, NotOlder(f, ref.read)
    PROVE  Seen(Listing!Set(map, o, [stamp |-> stamp, ref |-> ref]))
  BY DEF Seen, Listing!Set

LEMMA StartListingTyped ==
    ASSUME ListingTypes, NEW p \in Processes, Listing!StartListing(p)
    PROVE  \E new : /\ NoNewer(new) /\ d' = [d EXCEPT ![p] = new]
                    /\ UNCHANGED <<a, b, c, f>>
  <1> DEFINE todo == {o \in Occurrences : b[o].transcript # 0}
             new == [Listing!Idle EXCEPT !.at = "next", !.began = b, !.todo = todo]
  <1>1. /\ new.at = "next" /\ new.got = Listing!Idle.got
        /\ new.refs = Listing!Idle.refs /\ new.entries = Listing!Idle.entries
    BY IdleIs DEF ListingFields
  <1>2. d' = [d EXCEPT ![p] = new] /\ UNCHANGED <<a, b, c, f>>
    BY DEF Listing!StartListing, Listing!Put
  <1> HIDE DEF new
  <1>3. NoNewer(new)
    BY <1>1, IdleNoNewer DEF NoNewer, ListingSteps
  <1>4. QED
    BY <1>2, <1>3

LEMMA StampTranscriptTyped ==
    ASSUME ListingTypes, NEW p \in Processes, Listing!StampTranscript(p)
    PROVE  \E new : /\ NoNewer(new) /\ d' = [d EXCEPT ![p] = new]
                    /\ UNCHANGED <<a, b, c, f>>
  <1> DEFINE now == b[Listing!Current(p)].transcript
             new == [d[p] EXCEPT !.at = "beside", !.stamp.transcript = now]
  <1>1. DOMAIN d[p] = ListingFields /\ NoNewer(d[p])
    BY ListingOf DEF ListingTypes, Lists
  <1>2. /\ d' = [d EXCEPT ![p] = Listing!Idle] \/ d' = [d EXCEPT ![p] = new]
        /\ UNCHANGED <<a, b, c, f>>
    BY DEF Listing!StampTranscript, Listing!Put, Listing!Rest
  <1>3. /\ new.at = "beside" /\ new.got = d[p].got
        /\ new.refs = d[p].refs /\ new.entries = d[p].entries
    BY <1>1 DEF ListingFields
  <1> HIDE DEF new
  <1>4. NoNewer(new)
    BY <1>1, <1>3 DEF NoNewer, ListingSteps
  <1>5. QED
    BY <1>2, <1>4, IdleNoNewer

\* The cache that is loaded holds what the file does.
LEMMA LoadNoNewer ==
    ASSUME ListingTypes, NEW it, NoNewer(it), DOMAIN it = ListingFields
    PROVE  /\ NoNewer(Listing!Load(it))
           /\ DOMAIN Listing!Load(it) = ListingFields
  <1> DEFINE entries == IF c = Listing!Corrupt THEN Listing!Nothing ELSE c
             new == [it EXCEPT !.loaded = TRUE, !.alone = TRUE,
                               !.dirty = (c = Listing!Corrupt), !.entries = entries]
  <1>1. CASE it.loaded
    BY <1>1 DEF Listing!Load
  <1>2. CASE ~it.loaded
    <2>1. Listing!Load(it) = new
      BY <1>2 DEF Listing!Load
    <2>2. /\ DOMAIN new = ListingFields /\ new.at = it.at /\ new.got = it.got
          /\ new.refs = it.refs /\ new.entries = entries
      BY DEF ListingFields
    <2>3. Seen(entries)
      BY NothingMaps DEF ListingTypes, Seen
    <2> HIDE DEF new, entries
    <2>4. QED
      BY <2>1, <2>2, <2>3 DEF NoNewer
  <1>3. QED
    BY <1>1, <1>2

LEMMA StampBesideTyped ==
    ASSUME ListingTypes, NEW p \in Processes, Listing!StampBeside(p)
    PROVE  \E new : /\ NoNewer(new) /\ d' = [d EXCEPT ![p] = new]
                    /\ UNCHANGED <<a, b, c, f>>
  <1> DEFINE o == Listing!Current(p)
             stamp == [d[p].stamp EXCEPT !.beside = b[o].beside]
             it == IF a = "codex" /\ stamp.transcript = 0 THEN d[p]
                   ELSE Listing!Load(d[p])
             hit == o \in DOMAIN it.entries /\ it.entries[o].stamp = stamp
             got == IF a = "omp"
                    THEN [Listing!NoContainer EXCEPT !.transcript = b[o].transcript]
                    ELSE Listing!NoContainer
             found == [Listing!Take(p, it, it.entries[o].ref)
                          EXCEPT !.touched = @ \cup {o}]
             missed == [it EXCEPT !.at = IF a = "codex" THEN "read transcript"
                                         ELSE "read beside",
                                  !.stamp = stamp, !.got = got]
  <1>1. /\ d[p].at = "beside" /\ UNCHANGED <<a, b, c, f>>
        /\ IF hit THEN d' = [d EXCEPT ![p] = found] ELSE d' = [d EXCEPT ![p] = missed]
    BY DEF Listing!StampBeside, Listing!Put, Listing!Rest
  <1>2. DOMAIN d[p] = ListingFields /\ NoNewer(d[p]) /\ Keeps(d[p], b, c, f)
    BY ListingOf DEF ListingTypes, Lists
  <1>3. /\ NoNewer(it) /\ DOMAIN it = ListingFields /\ Caches(it.entries)
    <2>1. /\ NoNewer(Listing!Load(d[p])) /\ DOMAIN Listing!Load(d[p]) = ListingFields
      BY <1>2, LoadNoNewer
    <2>2. Keeps(Listing!Load(d[p]), b, c, f)
      BY <1>1, <1>2, NewestIs, LoadKeeps
    <2>3. it = d[p] \/ it = Listing!Load(d[p])
      OBVIOUS
    <2> HIDE DEF it
    <2>4. QED
      BY <1>2, <2>1, <2>2, <2>3 DEF Keeps, CacheOf
  <1>4. o \in Occurrences
    <2>1. d[p].todo # {} 
      BY <1>1, <1>2 DEF Keeps, AtHand
    <2>2. QED
      BY <2>1, CurrentIs, CommandsAssumption DEF ListingTypes
  <1> HIDE DEF it
  <1>5. CASE hit
    <2> DEFINE ref == it.entries[o].ref
    <2>1. NotOlder(f, ref.read) /\ ref.parent = 0
      BY <1>3, <1>5 DEF NoNewer, Seen, Caches, Kept
    <2>2. /\ found.at = "next" /\ found.got = Listing!NoContainer
          /\ found.refs = Listing!Set(it.refs, o, ref)
          /\ found.entries = it.entries
      BY <1>3, TakeFields DEF ListingFields
    <2>3. 0 <= f.transcript
      BY NewestIs
    <2> HIDE DEF ref, found, hit, o
    <2>4. Referred(Listing!Set(it.refs, o, ref))
      BY <1>3, <2>1, <2>3, SetReferred DEF NoNewer
    <2>5. NotOlder(f, Listing!NoContainer)
      BY NewestIs, NoContainerIs
    <2>6. NoNewer(found)
      BY <1>3, <2>2, <2>4, <2>5 DEF NoNewer, ListingSteps
    <2>7. QED
      BY <1>1, <1>5, <2>6
  <1>6. CASE ~hit
    <2>1. /\ missed.at \in {"read transcript", "read beside"}
          /\ missed.got = got /\ missed.refs = it.refs
          /\ missed.entries = it.entries
      BY <1>3 DEF ListingFields
    <2>2. NotOlder(f, got)
      BY <1>4, NewestIs, NoContainerIs DEF NotOlder, ContainerStates, Listing!NoContainer
    <2> HIDE DEF missed, hit, got
    <2>3. NoNewer(missed)
      BY <1>3, <2>1, <2>2 DEF NoNewer, ListingSteps
    <2>4. QED
      BY <1>1, <1>6, <2>3
  <1>7. QED
    BY <1>5, <1>6

LEMMA ReadBesideTyped ==
    ASSUME ListingTypes, NEW p \in Processes, Listing!ReadBeside(p)
    PROVE  \E new : /\ NoNewer(new) /\ d' = [d EXCEPT ![p] = new]
                    /\ UNCHANGED <<a, b, c, f>>
  <1> DEFINE o == Listing!Current(p)
             got == [d[p].got EXCEPT !.beside = b[o].beside]
             new == [d[p] EXCEPT !.at = "read transcript", !.got.beside = b[o].beside]
  <1>1. /\ d[p].at = "read beside" /\ UNCHANGED <<a, b, c, f>>
        /\ d' = [d EXCEPT ![p] = new]
    BY DEF Listing!ReadBeside, Listing!Put, Listing!Rest
  <1>2. /\ DOMAIN d[p] = ListingFields /\ NoNewer(d[p])
        /\ AtHand(d[p], b[Least(d[p].todo)], d[p].began[Least(d[p].todo)])
        /\ d[p].got \in ContainerStates
    BY ListingOf DEF ListingTypes, Lists
  <1>3. o \in Occurrences
    <2>1. d[p].todo # {}
      BY <1>1, <1>2 DEF AtHand
    <2>2. QED
      BY <2>1, CurrentIs, CommandsAssumption DEF ListingTypes
  <1>4. NotOlder(f, got)
    BY <1>2, <1>3, NewestIs DEF NoNewer, NotOlder, ContainerStates
  <1>5. /\ new.at = "read transcript" /\ new.got = got
        /\ new.refs = d[p].refs /\ new.entries = d[p].entries
    BY <1>2 DEF ListingFields
  <1> HIDE DEF new, got
  <1>6. NoNewer(new)
    BY <1>2, <1>4, <1>5 DEF NoNewer, ListingSteps
  <1>7. QED
    BY <1>1, <1>6

LEMMA ReadTranscriptTyped ==
    ASSUME ListingTypes, NEW p \in Processes, Listing!ReadTranscript(p)
    PROVE  \E new : /\ NoNewer(new) /\ d' = [d EXCEPT ![p] = new]
                    /\ UNCHANGED <<a, b, c, f>>
  <1> DEFINE o == Listing!Current(p)
             now == b[o].transcript
             read == [transcript |-> now, beside |-> d[p].got.beside]
             ref == [read |-> read, parent |-> 0]
             keeps == CASE a = "omp" -> d[p].got = d[p].stamp
                        [] a = "codex" -> d[p].stamp.transcript # 0
                        [] OTHER -> TRUE
             it == IF keeps THEN Listing!Retained(d[p], o, ref) ELSE d[p]
             new == Listing!Take(p, it, ref)
  <1>1. /\ d[p].at = "read transcript" /\ UNCHANGED <<a, b, c, f>>
        /\ d' = [d EXCEPT ![p] = IF now = 0 THEN Listing!Idle ELSE new]
    BY DEF Listing!ReadTranscript, Listing!Put, Listing!Rest
  <1>2. /\ DOMAIN d[p] = ListingFields /\ NoNewer(d[p])
        /\ AtHand(d[p], b[Least(d[p].todo)], d[p].began[Least(d[p].todo)])
    BY ListingOf DEF ListingTypes, Lists
  <1>3. o \in Occurrences
    <2>1. d[p].todo # {}
      BY <1>1, <1>2 DEF AtHand
    <2>2. QED
      BY <2>1, CurrentIs, CommandsAssumption DEF ListingTypes
  <1>4. NotOlder(f, read) /\ 0 <= f.transcript
    BY <1>2, <1>3, NewestIs DEF NoNewer, NotOlder, ContainerStates
  <1>5. ref.read = read /\ ref.parent = 0
    OBVIOUS
  <1> HIDE DEF ref, read
  <1>6. /\ DOMAIN it = ListingFields /\ it.refs = d[p].refs /\ Seen(it.entries)
    <2>1. /\ DOMAIN Listing!Retained(d[p], o, ref) = ListingFields
          /\ Listing!Retained(d[p], o, ref).refs = d[p].refs
          /\ Listing!Retained(d[p], o, ref).entries =
                Listing!Set(d[p].entries, o, [stamp |-> d[p].stamp, ref |-> ref])
      BY <1>2, RetainedFields
    <2>2. Seen(Listing!Set(d[p].entries, o, [stamp |-> d[p].stamp, ref |-> ref]))
      BY <1>2, <1>4, <1>5, SetSeen DEF NoNewer
    <2>3. it = d[p] \/ it = Listing!Retained(d[p], o, ref)
      OBVIOUS
    <2> HIDE DEF it
    <2>4. QED
      BY <1>2, <2>1, <2>2, <2>3 DEF NoNewer
  <1> HIDE DEF it
  <1>7. /\ new.at = "next" /\ new.got = Listing!NoContainer
        /\ new.refs = Listing!Set(d[p].refs, o, ref) /\ new.entries = it.entries
    BY <1>6, TakeFields
  <1>8. Referred(Listing!Set(d[p].refs, o, ref))
    BY <1>2, <1>4, <1>5, SetReferred DEF NoNewer
  <1>9. NotOlder(f, Listing!NoContainer)
    BY NewestIs, NoContainerIs
  <1> HIDE DEF new
  <1>10. NoNewer(new)
    BY <1>6, <1>7, <1>8, <1>9 DEF NoNewer, ListingSteps
  <1>11. QED
    BY <1>1, <1>10, IdleNoNewer

\* The parent of a resolved hint is what was read of it.
LEMMA ResolveReferred ==
    ASSUME NEW refs, Referred(refs)
    PROVE  Referred(Listing!Resolve(refs))
  <1> DEFINE new == Listing!Resolve(refs)
  <1>1. ASSUME NEW o \in DOMAIN refs
        PROVE  NotOlder(f, new[o].read) /\ new[o].parent <= f.transcript
    <2>1. CASE /\ refs[o].parent = 0 /\ ParentOf[o] \in DOMAIN refs
               /\ ParentOf[o] # o
      <3>1. new[o] = [refs[o] EXCEPT !.parent = refs[ParentOf[o]].read.transcript]
        BY <2>1 DEF Listing!Resolve
      <3>2. NotOlder(f, refs[o].read) /\ refs[ParentOf[o]].read.transcript <= f.transcript
        BY <2>1 DEF Referred, NotOlder
      <3>3. QED
        BY <3>1, <3>2
    <2>2. CASE ~(/\ refs[o].parent = 0 /\ ParentOf[o] \in DOMAIN refs
                 /\ ParentOf[o] # o)
      <3>1. new[o] = refs[o]
        BY <2>2 DEF Listing!Resolve
      <3>2. QED
        BY <3>1 DEF Referred
    <2>3. QED
      BY <2>1, <2>2
  <1>2. DOMAIN new = DOMAIN refs
    BY DEF Listing!Resolve
  <1> HIDE DEF new
  <1>3. Referred(new)
    BY <1>1, <1>2 DEF Referred
  <1>4. QED
    BY <1>3 DEF new

LEMMA EndListingTyped ==
    ASSUME ListingTypes, NEW p \in Processes, Listing!EndListing(p)
    PROVE  \E new : /\ NoNewer(new) /\ d' = [d EXCEPT ![p] = new]
                    /\ UNCHANGED <<a, b, c, f>>
  <1> DEFINE refs == IF a = "omp" THEN Listing!Resolve(d[p].refs) ELSE d[p].refs
             new == [d[p] EXCEPT !.at = "flush", !.refs = refs,
                                 !.entries = Listing!Cloned(@, refs)]
  <1>1. d' = [d EXCEPT ![p] = new] /\ UNCHANGED <<a, b, c, f>>
    BY DEF Listing!EndListing, Listing!Put, Listing!Rest
  <1>2. DOMAIN d[p] = ListingFields /\ NoNewer(d[p])
    BY ListingOf DEF ListingTypes, Lists
  <1>3. Referred(refs)
    BY <1>2, ResolveReferred DEF NoNewer
  <1> HIDE DEF refs
  <1>4. /\ new.at = "flush" /\ new.refs = refs /\ new.entries = d[p].entries
        /\ new.got = d[p].got
    BY <1>2 DEF ListingFields, Listing!Cloned
  <1> HIDE DEF new
  <1>5. NoNewer(new)
    BY <1>2, <1>3, <1>4 DEF NoNewer, ListingSteps
  <1>6. QED
    BY <1>1, <1>5

\* What is flushed is a part of what is cached.
LEMMA FlushTyped ==
    ASSUME ListingTypes, NEW p \in Processes, Listing!Flush(p)
    PROVE  /\ UNCHANGED <<a, b, f>>
           /\ c' = c \/ Seen(c')
           /\ \A q \in Processes : NoNewer(d'[q])
  <1> DEFINE new == [o \in d[p].touched |-> d[p].entries[o]]
             written == [d[p] EXCEPT !.alone = TRUE]
  <1>1. /\ Seen(d[p].entries) /\ d[p].touched \subseteq DOMAIN d[p].entries
        /\ DOMAIN d = Processes
    BY ListingOf DEF ListingTypes, NoNewer, CacheOf, ListingInv
  <1>2. Seen(new)
    BY <1>1 DEF Seen
  <1> HIDE DEF new
  <1>3. ASSUME NEW it
        PROVE  NoNewer(Listing!Flushed(it, new))
    <2> DEFINE done == [Listing!Idle EXCEPT !.flushed = TRUE, !.entries = new,
                                            !.touched = it.touched]
    <2>1. /\ done.at = Listing!Idle.at /\ done.got = Listing!Idle.got
          /\ done.refs = Listing!Idle.refs /\ done.entries = new
      BY IdleIs DEF ListingFields
    <2>2. Listing!Flushed(it, new) = done \/ Listing!Flushed(it, new) = Listing!Idle
      BY DEF Listing!Flushed
    <2> HIDE DEF done
    <2>3. NoNewer(done)
      BY <1>2, <2>1, IdleNoNewer DEF NoNewer
    <2>4. QED
      BY <2>2, <2>3, IdleNoNewer
  <1>4. ASSUME NEW q \in Processes
        PROVE  NoNewer(Listing!Overwritten(d[q]))
    <2> DEFINE other == [d[q] EXCEPT !.alone = FALSE]
    <2>1. DOMAIN d[q] = ListingFields /\ NoNewer(d[q])
      BY ListingOf DEF ListingTypes, Lists
    <2>2. /\ other.at = d[q].at /\ other.got = d[q].got
          /\ other.refs = d[q].refs /\ other.entries = d[q].entries
      BY <2>1 DEF ListingFields
    <2>3. Listing!Overwritten(d[q]) \in {other, Listing!Idle}
      BY DEF Listing!Overwritten
    <2> HIDE DEF other
    <2>4. NoNewer(other)
      BY <2>1, <2>2 DEF NoNewer
    <2>5. QED
      BY <2>3, <2>4, IdleNoNewer
  <1>5. /\ UNCHANGED <<a, b, f>>
        /\ \/ /\ UNCHANGED c
              /\ \/ d' = [d EXCEPT ![p] = Listing!Idle]
                 \/ d' = [d EXCEPT ![p] = Listing!Flushed(d[p], new)]
           \/ /\ c' = new
              /\ d' = [q \in Processes |->
                          IF q = p THEN Listing!Flushed(written, new)
                          ELSE Listing!Overwritten(d[q])]
    BY DEF Listing!Flush, Listing!Put, new
  <1>6. \A q \in Processes : NoNewer(d[q])
    BY DEF ListingTypes
  <1> HIDE DEF written
  <1>7. \A q \in Processes : NoNewer(d'[q])
    BY <1>1, <1>3, <1>4, <1>5, <1>6, IdleNoNewer
  <1>8. QED
    BY <1>2, <1>5, <1>7

\* The newest versions only grow, to their bound.
LEMMA HarnessTyped ==
    ASSUME ListingTypes, NEW o \in Occurrences,
           Listing!ChangeContainer(o) \/ Listing!RemoveTranscript(o)
    PROVE  /\ UNCHANGED <<a, c, d>> /\ NotOlder(f', f) /\ f' \in ContainerStates
           /\ f'.transcript <= Bounds.list.versions
           /\ f'.beside <= Bounds.list.versions
  <1> DEFINE m == Bounds.list.versions
  <1>1. /\ f \in ContainerStates /\ f.transcript \in Nat /\ f.beside \in Nat
        /\ m \in Nat /\ f.transcript <= m /\ f.beside <= m
    BY NewestIs, CommandsAssumption DEF Listing!ConstantsOK, ListingTypes
  <1>2. CASE Listing!RemoveTranscript(o)
    BY <1>1, <1>2 DEF Listing!RemoveTranscript, NotOlder
  <1>3. CASE Listing!ChangeContainer(o)
    <2>1. PICK x \in {"transcript", "beside"} :
             f[x] < m /\ f' = [f EXCEPT ![x] = @ + 1]
      BY <1>3 DEF Listing!ChangeContainer
    <2>2. UNCHANGED <<a, c, d>>
      BY <1>3 DEF Listing!ChangeContainer
    <2>3. CASE x = "transcript"
      <3>1. /\ f' \in ContainerStates /\ f'.transcript = f.transcript + 1
            /\ f'.beside = f.beside /\ f.transcript < m
        BY <1>1, <2>1, <2>3 DEF ContainerStates
      <3>2. QED
        BY <1>1, <2>2, <3>1 DEF NotOlder
    <2>4. CASE x = "beside"
      <3>1. /\ f' \in ContainerStates /\ f'.beside = f.beside + 1
            /\ f'.transcript = f.transcript /\ f.beside < m
        BY <1>1, <2>1, <2>4 DEF ContainerStates
      <3>2. QED
        BY <1>1, <2>2, <3>1 DEF NotOlder
    <2>5. QED
      BY <2>3, <2>4
  <1>4. QED
    BY <1>2, <1>3

LEMMA ListingTypesStep == ListingTypes /\ Listing!Next => ListingTypes'
  <1> SUFFICES ASSUME ListingTypes, Listing!Next
               PROVE  ListingTypes'
    OBVIOUS
  <1>1. ListingInv' /\ DOMAIN d = Processes
    BY ListingStep DEF ListingTypes, ListingInv
  <1>2. ASSUME NEW p \in Processes, NEW new, NoNewer(new), d' = [d EXCEPT ![p] = new],
               UNCHANGED <<a, b, c, f>>
        PROVE  ListingTypes'
    <2>1. \A q \in Processes : NoNewer(d'[q])
      BY <1>1, <1>2 DEF ListingTypes
    <2>2. \A q \in Processes : NoNewer(d[q])'
      BY <1>2, <2>1 DEF NoNewer, Referred, Seen, NotOlder
    <2>3. QED
      BY <1>1, <1>2, <2>2 DEF ListingTypes, Seen, NotOlder
  <1>3. ASSUME NEW p \in Processes, Listing!List(p)
        PROVE  ListingTypes'
    <2>1. CASE Listing!Flush(p)
      <3>1. /\ UNCHANGED <<a, b, f>> /\ (c' = c \/ Seen(c'))
            /\ \A q \in Processes : NoNewer(d'[q])
        BY <2>1, FlushTyped
      <3>2. \A q \in Processes : NoNewer(d[q])'
        BY <3>1 DEF NoNewer, Referred, Seen, NotOlder
      <3>3. (c = Listing!Corrupt \/ Seen(c))'
        BY <3>1 DEF ListingTypes, Seen, NotOlder, Listing!Corrupt
      <3>4. QED
        BY <1>1, <3>1, <3>2, <3>3 DEF ListingTypes
    <2>2. CASE Listing!ListingFails(p)
      <3>1. d' = [d EXCEPT ![p] = Listing!Idle] /\ UNCHANGED <<a, b, c, f>>
        BY <2>2 DEF Listing!ListingFails, Listing!Put, Listing!Rest
      <3>2. QED
        BY <1>2, <3>1, IdleNoNewer
    <2>3. CASE ~Listing!Flush(p) /\ ~Listing!ListingFails(p)
      <3>1. \E new : /\ NoNewer(new) /\ d' = [d EXCEPT ![p] = new]
                     /\ UNCHANGED <<a, b, c, f>>
        BY <1>3, <2>3, StartListingTyped, StampTranscriptTyped, StampBesideTyped,
           ReadBesideTyped, ReadTranscriptTyped, EndListingTyped DEF Listing!List
      <3>2. QED
        BY <1>2, <3>1
    <2>4. QED
      BY <2>1, <2>2, <2>3
  <1>4. ASSUME NEW o \in Occurrences,
               Listing!ChangeContainer(o) \/ Listing!RemoveTranscript(o)
        PROVE  ListingTypes'
    <2>1. /\ UNCHANGED <<a, c, d>> /\ NotOlder(f', f) /\ f' \in ContainerStates
          /\ f'.transcript <= Bounds.list.versions
          /\ f'.beside <= Bounds.list.versions
      BY <1>4, HarnessTyped
    <2>2. f \in ContainerStates
      BY NewestIs
    <2>3. \A x \in ContainerStates : NotOlder(f, x) => NotOlder(f', x)
      BY <2>1, <2>2 DEF NotOlder, ContainerStates
    <2>4. ASSUME NEW map \in Maps(EntryStates), Seen(map)
          PROVE  \A q \in DOMAIN map : NotOlder(f', map[q].ref.read)
      <3>1. \A q \in DOMAIN map : map[q] \in EntryStates /\ NotOlder(f, map[q].ref.read)
        BY <2>4, MapIs DEF Seen
      <3>2. \A entry \in EntryStates : entry.ref.read \in ContainerStates
        BY DEF EntryStates, RefStates
      <3>3. QED
        BY <2>3, <3>1, <3>2
    <2>5. ASSUME NEW p \in Processes
          PROVE  NoNewer(d[p])'
      <3>1. /\ d[p].refs \in Maps(RefStates) /\ d[p].entries \in Maps(EntryStates)
            /\ d[p].got \in ContainerStates /\ NoNewer(d[p])
        BY ListingOf DEF ListingTypes, Lists, CacheOf, Caches
      <3>2. \A q \in DOMAIN d[p].refs :
               NotOlder(f', d[p].refs[q].read) /\ d[p].refs[q].parent <= f'.transcript
        <4>1. ASSUME NEW q \in DOMAIN d[p].refs
              PROVE  NotOlder(f', d[p].refs[q].read)
                     /\ d[p].refs[q].parent <= f'.transcript
          <5>1. /\ d[p].refs[q] \in RefStates /\ NotOlder(f, d[p].refs[q].read)
                /\ d[p].refs[q].parent <= f.transcript
            BY <3>1, MapIs DEF NoNewer, Referred
          <5>2. /\ d[p].refs[q].read \in ContainerStates
                /\ d[p].refs[q].parent \in Nat
            BY <5>1 DEF RefStates
          <5>3. f.transcript \in Nat /\ f'.transcript \in Nat /\ f'.transcript >= f.transcript
            BY <2>1, <2>2 DEF NotOlder, ContainerStates
          <5>4. QED
            BY <2>3, <5>1, <5>2, <5>3
        <4>2. QED
          BY <4>1
      <3>3. \A q \in DOMAIN d[p].entries : NotOlder(f', d[p].entries[q].ref.read)
        BY <2>4, <3>1 DEF NoNewer
      <3>4. QED
        BY <2>1, <2>3, <3>1, <3>2, <3>3 DEF NoNewer, Referred, Seen
    <2>6. (c = Listing!Corrupt \/ Seen(c))'
      <3>1. c = Listing!Corrupt \/ (c \in Maps(EntryStates) /\ Seen(c))
        BY DEF ListingTypes, ListingInv, Containers, Caches
      <3>2. c = Listing!Corrupt \/ \A q \in DOMAIN c : NotOlder(f', c[q].ref.read)
        BY <2>4, <3>1
      <3>3. QED
        BY <2>1, <3>2 DEF Seen, Listing!Corrupt
    <2>7. QED
      BY <1>1, <2>1, <2>5, <2>6 DEF ListingTypes
  <1>5. QED
    BY <1>3, <1>4 DEF Listing!Next

LEMMA ListingTypesBegin == Listing!Init => ListingTypes
  <1> SUFFICES ASSUME Listing!Init
               PROVE  ListingTypes
    OBVIOUS
  <1>1. ListingInv
    BY ListingBegins
  <1>2. /\ f = [transcript |-> 1, beside |-> 1]
        /\ c \in {Listing!Nothing, Listing!Corrupt}
        /\ \A p \in Processes : d[p] = Listing!Idle
    BY DEF Listing!Init
  <1>3. 1 <= Bounds.list.versions
    BY CommandsAssumption DEF Listing!ConstantsOK
  <1>4. DOMAIN Listing!Nothing = {}
    BY NothingMaps
  <1>5. NotOlder(f, Listing!NoContainer)
    BY <1>2 DEF NotOlder, Listing!NoContainer
  <1>6. NoNewer(Listing!Idle)
    BY <1>4, <1>5, IdleIs DEF NoNewer, Referred, Seen, ListingSteps
  <1>7. c = Listing!Corrupt \/ Seen(c)
    BY <1>2, <1>4 DEF Seen
  <1>8. QED
    BY <1>1, <1>2, <1>3, <1>6, <1>7 DEF ListingTypes

LEMMA ListingIsTyped == ListingTypes => Listing!TypeOK
  <1> SUFFICES ASSUME ListingTypes
               PROVE  Listing!TypeOK
    OBVIOUS
  <1> DEFINE m == Bounds.list.versions
  <1>1. /\ f \in ContainerStates /\ f.transcript <= m /\ f.beside <= m /\ m \in Nat
    BY NewestIs, CommandsAssumption DEF ListingTypes, Listing!ConstantsOK
  <1>2. ASSUME NEW x \in ContainerStates, NotOlder(f, x)
        PROVE  x \in Listing!Containers
    <2>1. /\ x.transcript \in Nat /\ x.beside \in Nat
          /\ x = [transcript |-> x.transcript, beside |-> x.beside]
          /\ f.transcript \in Nat /\ f.beside \in Nat
      BY <1>1 DEF ContainerStates
    <2>2. x.transcript \in 0 .. m /\ x.beside \in 0 .. m
      BY <1>1, <1>2, <2>1 DEF NotOlder
    <2>3. QED
      BY <2>1, <2>2 DEF Listing!Containers, Listing!Versions
  <1>3. ASSUME NEW ref \in RefStates, NotOlder(f, ref.read),
               ref.parent <= f.transcript
        PROVE  ref \in Listing!Refs
    <2>1. /\ ref.read \in ContainerStates /\ ref.parent \in Nat
          /\ ref = [read |-> ref.read, parent |-> ref.parent]
          /\ f.transcript \in Nat
      BY <1>1 DEF RefStates, ContainerStates
    <2>2. ref.read \in Listing!Containers
      BY <1>2, <1>3, <2>1
    <2>3. ref.parent \in Listing!Versions
      BY <1>1, <1>3, <2>1 DEF Listing!Versions
    <2>4. QED
      BY <2>1, <2>2, <2>3 DEF Listing!Refs
  <1>4. ASSUME NEW entry \in EntryStates, Kept(entry), NotOlder(f, entry.ref.read)
        PROVE  entry \in Listing!Entries
    <2>1. /\ entry.stamp \in ContainerStates /\ entry.ref \in RefStates
          /\ entry = [stamp |-> entry.stamp, ref |-> entry.ref]
      BY DEF EntryStates
    <2>2. entry.ref.read \in ContainerStates
      BY <2>1 DEF RefStates
    <2>3. NotOlder(f, entry.stamp)
      BY <1>1, <1>4, <2>1, <2>2 DEF Kept, NotOlder, ContainerStates
    <2>4. entry.ref.parent <= f.transcript
      BY <1>1, <1>4 DEF Kept, ContainerStates
    <2>5. entry.stamp \in Listing!Containers /\ entry.ref \in Listing!Refs
      BY <1>2, <1>3, <1>4, <2>1, <2>3, <2>4
    <2>6. QED
      BY <2>1, <2>5 DEF Listing!Entries
  <1>5. ASSUME NEW map, Caches(map), Seen(map)
        PROVE  Listing!Maps(map, Listing!Entries)
    BY <1>4, <1>5, MapIs DEF Caches, Seen, Listing!Maps
  <1>6. b \in [Occurrences -> Listing!Containers]
    BY <1>2, NewestIs
  <1>7. f \in Listing!Containers
    BY <1>1, <1>2 DEF NotOlder, ContainerStates
  <1>8. c = Listing!Corrupt \/ Listing!Maps(c, Listing!Entries)
    BY <1>5 DEF ListingTypes, ListingInv, Containers
  <1>9. ASSUME NEW p \in Processes
        PROVE  /\ d[p].at \in ListingSteps /\ d[p].todo \subseteq Occurrences
               /\ d[p].stamp \in Listing!Containers /\ d[p].got \in Listing!Containers
               /\ Listing!Maps(d[p].entries, Listing!Entries)
               /\ Listing!Maps(d[p].refs, Listing!Refs)
               /\ d[p].touched \subseteq DOMAIN d[p].entries
    <2>1. /\ Lists(d[p]) /\ Begun(d[p], b, f) /\ CacheOf(d[p], c) /\ NoNewer(d[p])
      BY ListingOf DEF ListingTypes
    <2>2. d[p].stamp \in Listing!Containers /\ d[p].got \in Listing!Containers
      BY <1>2, <2>1 DEF Lists, Begun, NoNewer
    <2>3. Listing!Maps(d[p].entries, Listing!Entries)
      BY <1>5, <2>1 DEF CacheOf, NoNewer
    <2>4. Listing!Maps(d[p].refs, Listing!Refs)
      BY <1>3, <2>1, MapIs DEF Lists, NoNewer, Referred, Listing!Maps
    <2>5. QED
      BY <2>1, <2>2, <2>3, <2>4 DEF Lists, CacheOf, NoNewer
  <1>10. QED
    BY <1>6, <1>7, <1>8, <1>9, NewestIs DEF Listing!TypeOK, ListingSteps, Harnesses

-----------------------------------------------------------------------------
\* scan: lengths, inodes and stats within the bounds of the transcript.
LengthBound == 0 .. Bounds.scan.length
ScanRecords == [step : Nat, listed : Reading!Snapshots, dated : LengthBound,
                got : Reading!Snapshots]
CheckpointRecords == [state : {"none", "put", "reused"},
                      revision : Reading!Snapshots, got : Reading!Snapshots,
                      dated : LengthBound, size : LengthBound]
ReadingTypes ==
    /\ ReadingInv
    /\ g <= Bounds.scan.changes
    /\ b \in Reading!Transcripts /\ c \in Reading!Asides
    /\ d \in ScanRecords /\ e \in CheckpointRecords /\ f \subseteq Reading!Snapshots

LEMMA RoomIs ==
    /\ Bounds.scan.length \in Nat /\ 2 <= Bounds.scan.length
    /\ Bounds.scan.changes \in Nat
    /\ 0 \in LengthBound /\ 2 \in LengthBound
  BY CommandsAssumption DEF Reading!ConstantsOK, LengthBound

LEMMA TranscriptOf ==
    ASSUME NEW inode \in 0 .. Bounds.scan.changes, NEW stat \in 0 .. Bounds.scan.changes,
           NEW length \in LengthBound
    PROVE  [inode |-> inode, stat |-> stat, length |-> length] \in Reading!Transcripts
  BY DEF Reading!Transcripts, LengthBound

LEMMA NothingTyped ==
    /\ Reading!Nothing \in Reading!Snapshots
    /\ Reading!Idle \in ScanRecords /\ Reading!Idle.step = 0
  <1>1. Reading!NoTranscript \in Reading!Transcripts
    BY RoomIs, TranscriptOf DEF Reading!NoTranscript
  <1>2. Reading!Nothing \in Reading!Snapshots
    BY <1>1, RoomIs DEF Reading!Nothing, Reading!Snapshots, Reading!Asides
  <1>3. QED
    BY <1>2, RoomIs DEF Reading!Idle, ScanRecords

LEMMA CompleteTyped ==
    ASSUME NEW t \in Reading!Transcripts
    PROVE  Reading!Complete(t) \in LengthBound
  <1>1. t.length \in Nat /\ t.length <= Bounds.scan.length
    BY RoomIs DEF Reading!Transcripts
  <1>2. t.length % 2 \in Nat /\ t.length % 2 <= t.length
    BY <1>1
  <1>3. QED
    BY <1>1, <1>2, RoomIs DEF Reading!Complete, LengthBound

LEMMA RecordTyped ==
    ASSUME NEW x \in ScanRecords, NEW t \in Reading!Transcripts,
           NEW y \in Reading!Asides, NEW m \in LengthBound, NEW n \in Nat
    PROVE  /\ [x EXCEPT !.listed.beside = y] \in ScanRecords
           /\ [x EXCEPT !.listed.transcript = t] \in ScanRecords
           /\ [x EXCEPT !.got.beside = y] \in ScanRecords
           /\ [x EXCEPT !.got.transcript = t] \in ScanRecords
           /\ [x EXCEPT !.dated = m] \in ScanRecords
           /\ [x EXCEPT !.step = n] \in ScanRecords
  <1>1. /\ x.listed \in Reading!Snapshots /\ x.got \in Reading!Snapshots
        /\ x.dated \in LengthBound /\ x.step \in Nat
        /\ x = [step |-> x.step, listed |-> x.listed, dated |-> x.dated,
                got |-> x.got]
    BY DEF ScanRecords
  <1>2. \A s \in Reading!Snapshots : /\ [s EXCEPT !.beside = y] \in Reading!Snapshots
                                     /\ [s EXCEPT !.transcript = t] \in Reading!Snapshots
    BY DEF Reading!Snapshots
  <1>3. \A s \in Reading!Snapshots : /\ [x EXCEPT !.listed = s] \in ScanRecords
                                     /\ [x EXCEPT !.got = s] \in ScanRecords
    BY DEF ScanRecords
  <1>4. QED
    BY <1>1, <1>2, <1>3 DEF ScanRecords

LEMMA StepTyped ==
    ASSUME NEW name, NEW new \in ScanRecords, Reading!Step(name, new)
    PROVE  UNCHANGED <<a, b, c, e, f, g>> /\ d' \in ScanRecords
  <1>1. d' = [new EXCEPT !.step = new.step + 1] /\ new.step + 1 \in Nat
    BY DEF Reading!Step, ScanRecords
  <1>2. [new EXCEPT !.step = new.step + 1] \in ScanRecords
    BY <1>1 DEF ScanRecords
  <1>3. QED
    BY <1>1, <1>2 DEF Reading!Step, Reading!Rest

LEMMA ReadingStepsTyped ==
    ASSUME ReadingTypes,
           \/ Reading!StartScan \/ Reading!ListBeside \/ Reading!ListTranscript
           \/ Reading!StatTranscript \/ Reading!ReadTranscript \/ Reading!ReadBeside
           \/ Reading!EmitBeside \/ Reading!EmissionFails \/ Reading!ScanFails
    PROVE  UNCHANGED <<a, b, c, e, f, g>> /\ d' \in ScanRecords
  <1>1. /\ b \in Reading!Transcripts /\ c \in Reading!Asides /\ d \in ScanRecords
        /\ Reading!Complete(b) \in LengthBound
    BY CompleteTyped DEF ReadingTypes
  <1>2. Reading!Metadata \in Reading!Transcripts
    BY <1>1 DEF Reading!Metadata, ScanRecords, Reading!Snapshots
  <1>3. CASE Reading!StartScan
    <2>1. UNCHANGED <<a, b, c, e, f, g>> /\ d' = [Reading!Idle EXCEPT !.step = 1]
      BY <1>3 DEF Reading!StartScan, Reading!Rest
    <2>2. QED
      BY <2>1, NothingTyped DEF ScanRecords
  <1>4. CASE Reading!ListBeside
    BY <1>1, <1>4, RecordTyped, StepTyped DEF Reading!ListBeside
  <1>5. CASE Reading!ListTranscript
    <2>1. PICK m \in LengthBound : m = Reading!Complete(b)
      BY <1>1
    <2>2. PICK dates : dates = [d EXCEPT !.dated = m]
      OBVIOUS
    <2>3. dates \in ScanRecords
      BY <1>1, <2>2, RecordTyped
    <2>4. [dates EXCEPT !.got.transcript = b] \in ScanRecords
      BY <1>1, <2>3, RecordTyped
    <2>5. Reading!Step("list transcript", [dates EXCEPT !.got.transcript = b])
      BY <1>5, <2>1, <2>2 DEF Reading!ListTranscript
    <2>6. QED
      BY <2>4, <2>5, StepTyped
  <1>6. CASE Reading!StatTranscript
    BY <1>1, <1>2, <1>6, RecordTyped, StepTyped DEF Reading!StatTranscript
  <1>7. CASE Reading!ReadTranscript
    BY <1>1, <1>7, RecordTyped, StepTyped DEF Reading!ReadTranscript
  <1>8. CASE Reading!ReadBeside
    BY <1>1, <1>8, RecordTyped, StepTyped DEF Reading!ReadBeside
  <1>9. CASE Reading!EmitBeside
    BY <1>1, <1>9, StepTyped DEF Reading!EmitBeside
  <1>10. CASE Reading!EmissionFails \/ Reading!ScanFails
    BY <1>10, NothingTyped DEF Reading!EmissionFails, Reading!ScanFails, Reading!Rest
  <1>11. QED
    BY <1>3, <1>4, <1>5, <1>6, <1>7, <1>8, <1>9, <1>10

LEMMA ChangesTyped ==
    ASSUME ReadingTypes,
           Reading!AppendRecords \/ Reading!Replace \/ Reading!ChangeBeside
    PROVE  /\ UNCHANGED <<a, d, e>> /\ g' <= Bounds.scan.changes
           /\ b' \in Reading!Transcripts /\ c' \in Reading!Asides
           /\ f' = f \cup {[transcript |-> b', beside |-> c']}
  <1> DEFINE m == Bounds.scan.changes
  <1>1. /\ b \in Reading!Transcripts /\ c \in Reading!Asides /\ g \in Nat /\ g <= m
        /\ b.inode \in 0 .. m /\ b.length \in LengthBound
        /\ b = [inode |-> b.inode, stat |-> b.stat, length |-> b.length]
    BY DEF ReadingTypes, ReadingInv, ReadingTyped, Reading!Transcripts, LengthBound
  <1>2. /\ UNCHANGED <<a, d, e>> /\ g < m /\ g' = g + 1
        /\ f' = f \cup {[transcript |-> b', beside |-> c']}
    BY DEF Reading!AppendRecords, Reading!Replace, Reading!ChangeBeside,
           Reading!Change
  <1>3. m \in Nat /\ g + 1 \in 0 .. m /\ g + 2 \in 0 .. m + 1
    BY <1>1, <1>2, RoomIs
  <1>4. CASE Reading!AppendRecords
    <2>1. PICK n \in 1 .. 2 :
             /\ b.length + n <= Bounds.scan.length /\ c' = c
             /\ b' = [b EXCEPT !.length = @ + n, !.stat = g + 1]
      BY <1>4 DEF Reading!AppendRecords, Reading!Change
    <2>2. b' = [inode |-> b.inode, stat |-> g + 1, length |-> b.length + n]
      <3>1. [b EXCEPT !.length = @ + n] =
               [inode |-> b.inode, stat |-> b.stat, length |-> b.length + n]
        BY <1>1
      <3>2. PICK t : t = [inode |-> b.inode, stat |-> b.stat, length |-> b.length + n]
        OBVIOUS
      <3>3. [t EXCEPT !.stat = g + 1] =
               [inode |-> t.inode, stat |-> g + 1, length |-> t.length]
        BY <3>2
      <3>4. QED
        BY <2>1, <3>1, <3>2, <3>3
    <2>3. b.length + n \in LengthBound
      BY <1>1, <2>1, RoomIs DEF LengthBound
    <2>4. b' \in Reading!Transcripts
      BY <1>1, <1>3, <2>2, <2>3, TranscriptOf
    <2>5. QED
      BY <1>1, <1>2, <1>3, <2>1, <2>4
  <1>5. CASE Reading!Replace
    <2>1. PICK n \in {2, b.length} :
             c' = c /\ b' = [inode |-> g + 1, stat |-> g + 1, length |-> n]
      BY <1>5 DEF Reading!Replace, Reading!Change
    <2>2. b' \in Reading!Transcripts
      BY <1>1, <1>3, <2>1, RoomIs, TranscriptOf
    <2>3. QED
      BY <1>1, <1>2, <1>3, <2>1, <2>2
  <1>6. CASE Reading!ChangeBeside
    <2>1. b' = b /\ c' \in {0, g + 2}
      BY <1>6 DEF Reading!ChangeBeside, Reading!Change
    <2>2. c' \in Reading!Asides
      BY <1>3, <2>1 DEF Reading!Asides
    <2>3. QED
      BY <1>1, <1>2, <1>3, <2>1, <2>2
  <1>7. QED
    BY <1>4, <1>5, <1>6

LEMMA ReadingTypesStep == ReadingTypes /\ Reading!Next => ReadingTypes'
  <1> SUFFICES ASSUME ReadingTypes, Reading!Next
               PROVE  ReadingTypes'
    OBVIOUS
  <1>1. ReadingInv'
    BY ReadingStep DEF ReadingTypes
  <1>2. ASSUME UNCHANGED <<a, b, c, f, g>>, d' \in ScanRecords, e' \in CheckpointRecords
        PROVE  ReadingTypes'
    BY <1>1, <1>2 DEF ReadingTypes
  <1>3. CASE Reading!Choose
    <2>1. /\ UNCHANGED <<a, b, c, f, g>>
          /\ d' \in {[d EXCEPT !.step = 0], [d EXCEPT !.step = d.step + 1]}
          /\ \E state \in {"none", "put", "reused"} : e' = [e EXCEPT !.state = state]
      BY <1>3 DEF Reading!Choose, Reading!Rest
    <2>2. d' \in ScanRecords
      BY <2>1 DEF ReadingTypes, ScanRecords
    <2>3. e' \in CheckpointRecords
      BY <2>1 DEF ReadingTypes, CheckpointRecords
    <2>4. QED
      BY <1>2, <2>1, <2>2, <2>3
  <1>4. CASE Reading!PutCheckpoint
    <2>1. /\ UNCHANGED <<a, b, c, f, g>> /\ d' = Reading!Idle
          /\ e' = [state |-> "put", revision |-> d.listed, got |-> d.got,
                   dated |-> d.dated, size |-> b.length]
      BY <1>4 DEF Reading!PutCheckpoint, Reading!Rest, Reading!CheckpointRevision
    <2>2. e' \in CheckpointRecords
      BY <2>1 DEF ReadingTypes, ScanRecords, CheckpointRecords, Reading!Transcripts,
         LengthBound
    <2>3. QED
      BY <1>2, <2>1, <2>2, NothingTyped
  <1>5. CASE Reading!AppendRecords \/ Reading!Replace \/ Reading!ChangeBeside
    <2>1. /\ UNCHANGED <<a, d, e>> /\ g' <= Bounds.scan.changes
          /\ b' \in Reading!Transcripts /\ c' \in Reading!Asides
          /\ f' = f \cup {[transcript |-> b', beside |-> c']}
      BY <1>5, ChangesTyped
    <2>2. [transcript |-> b', beside |-> c'] \in Reading!Snapshots
      BY <2>1 DEF Reading!Snapshots
    <2>3. QED
      BY <1>1, <2>1, <2>2 DEF ReadingTypes
  <1>6. CASE \/ Reading!StartScan \/ Reading!ListBeside \/ Reading!ListTranscript
             \/ Reading!StatTranscript \/ Reading!ReadTranscript
             \/ Reading!ReadBeside \/ Reading!EmitBeside
             \/ Reading!EmissionFails \/ Reading!ScanFails
    <2>1. UNCHANGED <<a, b, c, e, f, g>> /\ d' \in ScanRecords
      BY <1>6, ReadingStepsTyped
    <2>2. QED
      BY <1>2, <2>1 DEF ReadingTypes
  <1>7. QED
    BY <1>3, <1>4, <1>5, <1>6 DEF Reading!Next

LEMMA ReadingTypesBegin == Reading!Init => ReadingTypes
  <1> SUFFICES ASSUME Reading!Init
               PROVE  ReadingTypes
    OBVIOUS
  <1>1. /\ b = [inode |-> 0, stat |-> 0, length |-> 2] /\ c \in {0, 1} /\ g = 0
        /\ d = Reading!Idle /\ f = {[transcript |-> b, beside |-> c]}
        /\ e = [state |-> "none", revision |-> Reading!Nothing,
                got |-> Reading!Nothing, dated |-> 0, size |-> 0]
    BY DEF Reading!Init
  <1>2. b \in Reading!Transcripts /\ c \in Reading!Asides
    BY <1>1, RoomIs, TranscriptOf DEF Reading!Asides
  <1>3. f \subseteq Reading!Snapshots
    BY <1>1, <1>2 DEF Reading!Snapshots
  <1>4. e \in CheckpointRecords
    BY <1>1, NothingTyped, RoomIs DEF CheckpointRecords
  <1>5. QED
    BY <1>1, <1>2, <1>3, <1>4, NothingTyped, RoomIs, ReadingBegins DEF ReadingTypes

\* The last step of an adapter is the source state.
LEMMA StepsEnd ==
    ASSUME a \in Harnesses
    PROVE  Len(Reading!Steps) = StateAt(a)
  <1> DEFINE x1 == "list beside"
             x2 == "list transcript"
             x3 == "stat"
             x4 == "choose"
             x5 == "read beside"
             x6 == "read transcript"
             x7 == "emit beside"
             x8 == "source state"
  <1>1. CASE a = "claude"
    <2>1. Reading!Steps = <<x1, x2, x3>> \o <<x4>> \o <<x5, x6, x7>> \o <<x8>>
      BY <1>1 DEF Reading!Steps, Reading!Listing, Reading!Reading
    <2>2. Len(Reading!Steps) = 8
      <3> HIDE DEF x1, x2, x3, x4, x5, x6, x7, x8
      <3>1. QED
        BY <2>1
    <2>3. QED
      BY <1>1, <2>2 DEF StateAt, Place
  <1>2. CASE a = "codex"
    <2>1. Reading!Steps = <<x2, x3>> \o <<x4>> \o <<x6>> \o <<x8>>
      BY <1>2 DEF Reading!Steps, Reading!Listing, Reading!Reading
    <2>2. Len(Reading!Steps) = 5
      <3> HIDE DEF x1, x2, x3, x4, x5, x6, x7, x8
      <3>1. QED
        BY <2>1
    <2>3. QED
      BY <1>2, <2>2 DEF StateAt, Place
  <1>3. CASE a = "omp"
    <2>1. Reading!Steps = <<x3, x1, x2>> \o <<x4>> \o <<x6, x5, x7>> \o <<x8>>
      BY <1>3 DEF Reading!Steps, Reading!Listing, Reading!Reading
    <2>2. Len(Reading!Steps) = 8
      <3> HIDE DEF x1, x2, x3, x4, x5, x6, x7, x8
      <3>1. QED
        BY <2>1
    <2>3. QED
      BY <1>3, <2>2 DEF StateAt, Place
  <1>4. QED
    BY <1>1, <1>2, <1>3 DEF Harnesses

LEMMA ReadingIsTyped == ReadingTypes => Reading!TypeOK
  <1> SUFFICES ASSUME ReadingTypes
               PROVE  Reading!TypeOK
    OBVIOUS
  <1>1. a \in Harnesses /\ d.step \in Nat /\ d.step <= StateAt(a)
    BY DEF ReadingTypes, ReadingInv, ReadingTyped, ScanRecords
  <1>5. StateAt(a) \in Nat
    BY <1>1 DEF StateAt, Place, Harnesses
  <1>6. Len(Reading!Steps) = StateAt(a)
    BY <1>1, StepsEnd
  <1>2. d.step \in 0 .. Len(Reading!Steps)
    BY <1>1, <1>5, <1>6
  <1>3. /\ d.listed \in Reading!Snapshots /\ d.got \in Reading!Snapshots
        /\ d.dated \in LengthBound
        /\ e.state \in {"none", "put", "reused"}
        /\ e.revision \in Reading!Snapshots /\ e.got \in Reading!Snapshots
        /\ e.dated \in LengthBound /\ e.size \in LengthBound
    BY DEF ReadingTypes, ScanRecords, CheckpointRecords
  <1>4. QED
    BY <1>1, <1>2, <1>3 DEF ReadingTypes, Reading!TypeOK, Harnesses, LengthBound

-----------------------------------------------------------------------------
(* The types of list --current.                                            *)

Registries == [there : BOOLEAN, by : Current!Instants,
               native : Current!Natives \cup {0}]
ProcessRecords == [alive : BOOLEAN, start : Current!Instants,
                   name : {"codex", "claude", "other"}, open : SUBSET Rollouts]
Claimable == Rollouts \cup [id : {0}, native : Current!Natives]
ProbeRecords ==
    [step : Nat, second : Current!Instants, seen : Current!Identities,
     kept : Current!Identities, owned : SUBSET Rollouts, user : Current!Identities,
     usable : BOOLEAN, read : Registries,
     outcome : {"none", "claims", "no identity", "unavailable", "stale", "failed"},
     claims : SUBSET Claimable]

\* A registry file that was found is for a session.
CurrentTypes ==
    /\ CurrentInv
    /\ b \in Current!Instants /\ c \in ProcessRecords /\ d \in Registries
    /\ f \in ProbeRecords
    /\ d.there => d.native \in Current!Natives
    /\ a = "claude" /\ f.step \in {6, 7, 8} => f.read.native \in Current!Natives

LEMMA SecondsAreInstants ==
    ASSUME NEW instant \in Current!Instants
    PROVE  Current!Second(instant) \in Current!Instants
  <1>1. Bounds.current.perSecond \in Nat \ {0} /\ Bounds.current.time \in Nat
    BY CommandsAssumption DEF Current!ConstantsOK
  <1>2. \A n \in Nat, m \in Nat \ {0} : n \div m \in Nat /\ n \div m <= n
    OBVIOUS
  <1>3. instant \in Nat /\ instant <= Bounds.current.time
    BY <1>1 DEF Current!Instants
  <1>4. /\ Current!Second(instant) \in Nat /\ Current!Second(instant) <= instant
    BY <1>1, <1>2, <1>3 DEF Current!Second
  <1>5. QED
    BY <1>1, <1>3, <1>4 DEF Current!Instants

LEMMA ZeroIsInstant == 0 \in Current!Instants
  <1>1. Bounds.current.time \in Nat
    BY CommandsAssumption DEF Current!ConstantsOK
  <1>2. QED
    BY <1>1 DEF Current!Instants

LEMMA IdleProbeIsTyped ==
    Current!IdleProbe \in ProbeRecords /\ Current!IdleProbe.step = 0
  <1>1. Current!NoRegistry \in Registries
    BY ZeroIsInstant DEF Current!NoRegistry, Registries
  <1>2. Current!NoIdentity \in Current!Identities
    BY ZeroIsInstant DEF Current!NoIdentity, Current!Identities
  <1>3. QED
    BY <1>1, <1>2, ZeroIsInstant DEF Current!IdleProbe, ProbeRecords

LEMMA ProbeTyped ==
    ASSUME CurrentTypes, CurrentInv', Current!World, NEW new \in ProbeRecords,
           f' = new,
           a = "claude" /\ new.step \in {6, 7, 8} => new.read.native \in Current!Natives
    PROVE  CurrentTypes'
  <1>1. UNCHANGED <<a, b, c, d>>
    BY DEF Current!World
  <1>2. QED
    BY <1>1 DEF CurrentTypes

LEMMA ProbeGoesOnTyped ==
    ASSUME CurrentTypes, CurrentInv', Current!World, NEW new \in ProbeRecords,
           Current!Go(new), new.read = f.read, new.step = f.step,
           a = "claude" => f.step # 5
    PROVE  CurrentTypes'
  <1>1. PICK next : next = [new EXCEPT !.step = @ + 1]
    OBVIOUS
  <1>2. f' = next
    BY <1>1 DEF Current!Go
  <1>7. new.step \in Nat
    BY DEF ProbeRecords
  <1>10. f.step \in Nat
    BY DEF CurrentTypes, ProbeRecords
  <1>4. new.step \in Nat /\ new.step + 1 \in Nat /\ f.step \in Nat
    BY <1>7, <1>10
  <1>8. PICK at \in Nat : at = new.step + 1
    BY <1>4
  <1>9. next = [new EXCEPT !.step = at]
    BY <1>1, <1>8
  <1>3. next \in ProbeRecords /\ next.step = new.step + 1 /\ next.read = new.read
    BY <1>8, <1>9 DEF ProbeRecords
  <1>5. a = "claude" /\ next.step \in {6, 7, 8} => f.step \in {6, 7, 8}
    BY <1>3, <1>4
  <1>6. a = "claude" /\ next.step \in {6, 7, 8} => next.read.native \in Current!Natives
    BY <1>3, <1>5 DEF CurrentTypes
  <1>11. QED
    BY <1>2, <1>3, <1>6, ProbeTyped

LEMMA ZeroIsBefore == 0 \notin {6, 7, 8}
  OBVIOUS

LEMMA ProbeEndsTyped ==
    ASSUME CurrentTypes, CurrentInv', Current!World, NEW new \in ProbeRecords,
           NEW outcome \in {"claims", "no identity", "unavailable", "stale"},
           Current!Done(new, outcome)
    PROVE  CurrentTypes'
  <1>1. PICK next : next = [new EXCEPT !.step = 0, !.outcome = outcome]
    OBVIOUS
  <1>2. f' = next
    BY <1>1 DEF Current!Done
  <1>3. next \in ProbeRecords /\ next.step = 0
    BY <1>1 DEF ProbeRecords
  <1>4. next.step \notin {6, 7, 8}
    BY <1>3, ZeroIsBefore, Zenon
  <1>5. QED
    BY <1>2, <1>3, <1>4, ProbeTyped

LEMMA LeftOutTyped ==
    ASSUME CurrentTypes, CurrentInv', Current!World,
           \E outcome \in {"none", "failed"} :
              f' = [Current!IdleProbe EXCEPT !.outcome = outcome]
    PROVE  CurrentTypes'
  <1>1. PICK outcome \in {"none", "failed"} :
           f' = [Current!IdleProbe EXCEPT !.outcome = outcome]
    OBVIOUS
  <1>2. PICK idle : idle = Current!IdleProbe
    OBVIOUS
  <1>3. idle \in ProbeRecords /\ idle.step = 0
    BY <1>2, IdleProbeIsTyped
  <1>4. PICK new : new = [idle EXCEPT !.outcome = outcome]
    OBVIOUS
  <1>5. new \in ProbeRecords /\ new.step = 0
    BY <1>3, <1>4 DEF ProbeRecords
  <1>6. f' = new /\ new.step \notin {6, 7, 8}
    BY <1>1, <1>2, <1>4, <1>5
  <1>7. QED
    BY <1>5, <1>6, ProbeTyped

LEMMA MissingTyped ==
    ASSUME CurrentTypes, CurrentInv', Current!World,
           NEW of \in {"roster", "check", "before", "after", "final"},
           NEW what \in {"ps", "token"}, Current!At(of, what), Current!Missing(of)
    PROVE  CurrentTypes'
  <1>1. CASE of \in {"before", "after"}
    <2>1. PICK new : new = [f EXCEPT !.seen = Current!NoIdentity, !.owned = {}]
      OBVIOUS
    <2>2. Current!NoIdentity \in Current!Identities
      BY ZeroIsInstant DEF Current!NoIdentity, Current!Identities
    <2>3. new \in ProbeRecords /\ new.read = f.read /\ new.step = f.step
      BY <2>1, <2>2 DEF CurrentTypes, ProbeRecords
    <2>4. Current!Go(new)
      BY <1>1, <2>1 DEF Current!Missing
    <2>5. a = "codex"
      BY <1>1, LookIs DEF CurrentTypes
    <2>6. QED
      BY <2>3, <2>4, <2>5, ProbeGoesOnTyped
  <1>2. CASE of \notin {"before", "after"}
    BY <1>2, LeftOutTyped DEF Current!Missing, Current!LeftOut
  <1>3. QED
    BY <1>1, <1>2

LEMMA PsTyped ==
    ASSUME CurrentTypes, CurrentInv',
           NEW of \in {"roster", "check", "before", "after", "final"}, Current!Ps(of)
    PROVE  CurrentTypes'
  <1>1. Current!At(of, "ps") /\ Current!World
    BY DEF Current!Ps
  <1>2. CASE c.alive
    <2>1. PICK new : new = [f EXCEPT !.second = Current!Second(c.start)]
      OBVIOUS
    <2>2. c.start \in Current!Instants
      BY DEF CurrentTypes, ProcessRecords
    <2>3. Current!Second(c.start) \in Current!Instants
      BY <2>2, SecondsAreInstants
    <2>4. new \in ProbeRecords /\ new.read = f.read /\ new.step = f.step
      BY <2>1, <2>3 DEF CurrentTypes, ProbeRecords
    <2>5. Current!Go(new)
      BY <1>2, <2>1 DEF Current!Ps
    <2>6. a = "claude" => f.step # 5
      BY <1>1, LookIs DEF CurrentTypes, LastLook
    <2>7. QED
      BY <1>1, <2>4, <2>5, <2>6, ProbeGoesOnTyped
  <1>3. CASE ~c.alive
    BY <1>1, <1>3, MissingTyped DEF Current!Ps
  <1>4. QED
    BY <1>2, <1>3

\* A token that is read, and what the last look makes of it.
LEMMA SeenIsTyped ==
    ASSUME CurrentTypes, NEW new,
           new = [f EXCEPT !.seen = [second |-> f.second, token |-> c.start]]
    PROVE  /\ new \in ProbeRecords /\ new.read = f.read /\ new.step = f.step
           /\ new.seen \in Current!Identities
  <1>1. c.start \in Current!Instants /\ f.second \in Current!Instants
    BY DEF CurrentTypes, ProcessRecords, ProbeRecords
  <1>2. PICK seen : seen = [second |-> f.second, token |-> c.start]
    OBVIOUS
  <1>3. seen \in Current!Identities
    BY <1>1, <1>2 DEF Current!Identities
  <1>4. new = [f EXCEPT !.seen = seen] /\ f \in ProbeRecords
    BY <1>2 DEF CurrentTypes
  <1>5. QED
    BY <1>3, <1>4 DEF ProbeRecords

LEMMA ObserveTyped ==
    ASSUME CurrentTypes, CurrentInv', Current!World, NEW new \in ProbeRecords,
           f.step = LastLook, Current!Observe(new)
    PROVE  CurrentTypes'
  <1>1. CASE Current!LeftOut
    BY <1>1, LeftOutTyped DEF Current!LeftOut
  <1>2. CASE ~Current!LeftOut /\ a = "codex"
    <2>1. Current!ObserveCodex(new)
      BY <1>2 DEF Current!Observe
    <2>2. CASE ~f.usable
      <3>1. Current!Done(new, "unavailable")
        BY <2>1, <2>2 DEF Current!ObserveCodex
      <3>2. QED
        BY <3>1, ProbeEndsTyped
    <2>3. CASE f.usable
      <3>1. PICK claims, outcome, next :
               /\ claims = IF Current!SameKey(f.user, f.kept) THEN f.owned ELSE {}
               /\ outcome = IF claims = {} THEN "no identity" ELSE "claims"
               /\ next = [new EXCEPT !.claims = claims]
        OBVIOUS
      <3>2. claims \subseteq Claimable
        BY <3>1 DEF CurrentTypes, ProbeRecords, Claimable
      <3>3. next \in ProbeRecords
        BY <3>1, <3>2 DEF ProbeRecords
      <3>4. outcome \in {"claims", "no identity", "unavailable", "stale"}
        BY <3>1
      <3>5. Current!Done(next, outcome)
        BY <2>1, <2>3, <3>1 DEF Current!ObserveCodex
      <3>6. QED
        BY <3>3, <3>4, <3>5, ProbeEndsTyped
    <2>4. QED
      BY <2>2, <2>3
  <1>3. CASE ~Current!LeftOut /\ a # "codex"
    <2>1. Current!ObserveClaude(new)
      BY <1>3 DEF Current!Observe
    <2>2. CASE Current!Done(new, "stale")
      BY <2>2, ProbeEndsTyped
    <2>3. CASE ~Current!Done(new, "stale")
      <3>1. PICK claims, next :
               /\ claims = {[id |-> 0, native |-> f.read.native]}
               /\ next = [new EXCEPT !.claims = claims]
        OBVIOUS
      <3>2. Current!Done(next, "claims")
        BY <2>1, <2>3, <3>1 DEF Current!ObserveClaude
      <3>3. a = "claude" /\ f.step = 8
        BY <1>3 DEF LastLook, CurrentTypes, CurrentInv, Processing
      <3>4. f.read.native \in Current!Natives
        BY <3>3 DEF CurrentTypes
      <3>5. claims \subseteq Claimable
        BY <3>1, <3>4 DEF Claimable
      <3>6. next \in ProbeRecords
        BY <3>1, <3>5 DEF ProbeRecords
      <3>7. QED
        BY <3>2, <3>6, ProbeEndsTyped
    <2>4. QED
      BY <2>2, <2>3
  <1>4. QED
    BY <1>1, <1>2, <1>3

LEMMA TokenTyped ==
    ASSUME CurrentTypes, CurrentInv',
           NEW of \in {"roster", "check", "before", "after", "final"},
           Current!Token(of)
    PROVE  CurrentTypes'
  <1>1. Current!At(of, "token") /\ Current!World
    BY DEF Current!Token
  <1>2. PICK new : new = [f EXCEPT !.seen = [second |-> f.second, token |-> c.start]]
    OBVIOUS
  <1>3. /\ new \in ProbeRecords /\ new.read = f.read /\ new.step = f.step
        /\ new.seen \in Current!Identities
    BY <1>2, SeenIsTyped
  <1>4. of # "final" => (a = "claude" => f.step # 5)
    BY <1>1, LookIs DEF CurrentTypes, LastLook
  <1>5. CASE ~c.alive
    BY <1>1, <1>5, MissingTyped DEF Current!Token
  <1>6. CASE c.alive
    <2>1. CASE Current!LeftOut
      BY <1>1, <2>1, LeftOutTyped DEF Current!LeftOut
    <2>2. CASE of \in {"roster", "before"} /\ ~Current!LeftOut
      <3>1. Current!Go(new)
        BY <1>2, <1>6, <2>2 DEF Current!Token
      <3>2. QED
        BY <1>1, <1>3, <1>4, <2>2, <3>1, ProbeGoesOnTyped
    <2>3. CASE of = "check" /\ ~Current!LeftOut
      <3>1. PICK next : next = [new EXCEPT !.kept = new.seen]
        OBVIOUS
      <3>2. Current!Go(next)
        BY <1>2, <1>6, <2>3, <3>1 DEF Current!Token, Current!Check
      <3>3. next \in ProbeRecords /\ next.read = f.read /\ next.step = f.step
        BY <1>3, <3>1 DEF ProbeRecords
      <3>4. QED
        BY <1>1, <1>4, <2>3, <3>2, <3>3, ProbeGoesOnTyped
    <2>4. CASE of = "after"
      <3>1. PICK next : next = IF Current!SameIdentity(new.seen, f.seen)
                               THEN [new EXCEPT !.user = new.seen]
                               ELSE [new EXCEPT !.owned = {}]
        OBVIOUS
      <3>2. Current!Go(next)
        BY <1>2, <1>6, <2>4, <3>1 DEF Current!Token, Current!FilesUsed
      <3>3. next \in ProbeRecords /\ next.read = f.read /\ next.step = f.step
        BY <1>3, <3>1 DEF ProbeRecords
      <3>4. QED
        BY <1>1, <1>4, <2>4, <3>2, <3>3, ProbeGoesOnTyped
    <2>5. CASE of = "final"
      <3>1. f.step = LastLook
        BY <1>1, <2>5, LookIs DEF CurrentTypes
      <3>2. Current!Observe(new)
        BY <1>2, <1>6, <2>5 DEF Current!Token
      <3>3. QED
        BY <1>1, <1>3, <3>1, <3>2, ObserveTyped
    <2>6. QED
      BY <2>1, <2>2, <2>3, <2>4, <2>5
  <1>7. QED
    BY <1>5, <1>6

LEMMA StartProbeTyped ==
    ASSUME CurrentTypes, CurrentInv', Current!StartProbe
    PROVE  CurrentTypes'
  <1>1. PICK idle : idle = Current!IdleProbe
    OBVIOUS
  <1>2. idle \in ProbeRecords /\ f' = [idle EXCEPT !.step = 1]
    BY <1>1, IdleProbeIsTyped DEF Current!StartProbe
  <1>3. PICK new : new = [idle EXCEPT !.step = 1]
    OBVIOUS
  <1>4. new \in ProbeRecords /\ new.step = 1
    BY <1>2, <1>3 DEF ProbeRecords
  <1>5. f' = new /\ UNCHANGED <<a, b, c, d, e>>
    BY <1>2, <1>3 DEF Current!StartProbe
  <1>6. new.step \notin {6, 7, 8}
    BY <1>4
  <1>7. QED
    BY <1>4, <1>5, <1>6 DEF CurrentTypes

LEMMA LsofTyped ==
    ASSUME CurrentTypes, CurrentInv', Current!Lsof
    PROVE  CurrentTypes'
  <1>1. Current!At("files", "lsof") /\ Current!World
    BY DEF Current!Lsof
  <1>2. a = "codex" /\ f.step = 7
    BY <1>1, LookIs DEF CurrentTypes
  <1>3. CASE Current!Go([f EXCEPT !.owned = c.open \cap e])
    <2>1. PICK new : new = [f EXCEPT !.owned = c.open \cap e]
      OBVIOUS
    <2>2. c.open \subseteq Rollouts
      BY DEF CurrentTypes, ProcessRecords
    <2>3. new \in ProbeRecords /\ new.read = f.read /\ new.step = f.step
      BY <2>1, <2>2 DEF CurrentTypes, ProbeRecords
    <2>4. Current!Go(new)
      BY <1>3, <2>1
    <2>5. QED
      BY <1>1, <1>2, <2>3, <2>4, ProbeGoesOnTyped
  <1>4. CASE f' = [f EXCEPT !.usable = FALSE, !.step = Len(Current!Steps) - 1]
    <2>1. Len(Current!Steps) = 11
      BY <1>2, LooksOfCodex
    <2>2. f' = [f EXCEPT !.usable = FALSE, !.step = 10]
      BY <1>4, <2>1
    <2>3. PICK new : new = f'
      OBVIOUS
    <2>4. new \in ProbeRecords
      BY <2>2, <2>3 DEF CurrentTypes, ProbeRecords
    <2>5. QED
      BY <1>1, <1>2, <2>3, <2>4, ProbeTyped
  <1>5. QED
    BY <1>3, <1>4 DEF Current!Lsof

LEMMA FindRegistryTyped ==
    ASSUME CurrentTypes, CurrentInv', Current!FindRegistry
    PROVE  CurrentTypes'
  <1>1. Current!World
    BY DEF Current!FindRegistry
  <1>2. CASE d.there
    <2>1. PICK new : new = [[f EXCEPT !.read = d] EXCEPT !.step = @ + 1]
      OBVIOUS
    <2>2. f' = new
      BY <1>2, <2>1 DEF Current!FindRegistry, Current!Go
    <2>3. f \in ProbeRecords /\ d \in Registries /\ d.native \in Current!Natives
      BY <1>2 DEF CurrentTypes
    <2>4. f.step \in Nat
      BY <2>3 DEF ProbeRecords
    <2>5. PICK at \in Nat : at = f.step + 1
      BY <2>4
    <2>6. new = [f EXCEPT !.read = d, !.step = at]
      BY <2>1, <2>3, <2>5 DEF ProbeRecords
    <2>7. new \in ProbeRecords /\ new.read = d
      BY <2>3, <2>6 DEF ProbeRecords
    <2>8. QED
      BY <1>1, <2>2, <2>3, <2>7, ProbeTyped
  <1>3. CASE ~d.there
    <2>1. Current!Done(f, "no identity")
      BY <1>3 DEF Current!FindRegistry
    <2>2. f \in ProbeRecords
      BY DEF CurrentTypes
    <2>3. QED
      BY <1>1, <2>1, <2>2, ProbeEndsTyped
  <1>4. QED
    BY <1>2, <1>3

LEMMA ReadRegistryTyped ==
    ASSUME CurrentTypes, CurrentInv', Current!ReadRegistry
    PROVE  CurrentTypes'
  <1>1. Current!At("registry", "read") /\ Current!World
    BY DEF Current!ReadRegistry
  <1>2. a = "claude" /\ f.step = 6
    BY <1>1, LookIs DEF CurrentTypes
  <1>3. CASE d = f.read
    <2>1. Current!Go(f)
      BY <1>3 DEF Current!ReadRegistry
    <2>2. f \in ProbeRecords
      BY DEF CurrentTypes
    <2>3. QED
      BY <1>1, <1>2, <2>1, <2>2, ProbeGoesOnTyped
  <1>4. CASE d # f.read
    BY <1>1, <1>4, LeftOutTyped DEF Current!ReadRegistry
  <1>5. QED
    BY <1>3, <1>4

LEMMA ProcessesTyped ==
    ASSUME CurrentTypes, CurrentInv',
           \/ Current!StartProcess \/ Current!EndProcess \/ Current!ExecProcess
           \/ Current!OpenSessions \/ Current!WriteRegistry
    PROVE  CurrentTypes'
  <1>1. /\ b \in Current!Instants /\ c \in ProcessRecords /\ d \in Registries
        /\ d.there => d.native \in Current!Natives
        /\ a \in {"codex", "claude"}
    BY DEF CurrentTypes, CurrentInv, Processing
  <1>2. SUFFICES /\ UNCHANGED <<a, e, f>>
                 /\ b' \in Current!Instants /\ c' \in ProcessRecords
                 /\ d' \in Registries
                 /\ d'.there => d'.native \in Current!Natives
    BY DEF CurrentTypes
  <1>3. CASE Current!StartProcess
    <2>1. PICK start, name :
             /\ start \in b + 1 .. Bounds.current.time /\ name \in {a, "other"}
             /\ c' = [alive |-> TRUE, start |-> start, name |-> name, open |-> {}]
             /\ b' = start /\ UNCHANGED <<a, d, e, f>>
      BY <1>3 DEF Current!StartProcess
    <2>2. start \in Current!Instants
      <3>1. Bounds.current.time \in Nat
        BY CommandsAssumption DEF Current!ConstantsOK
      <3>2. b \in Nat
        BY <1>1, <3>1 DEF Current!Instants
      <3>3. QED
        BY <2>1, <3>1, <3>2 DEF Current!Instants
    <2>3. c' \in ProcessRecords
      BY <1>1, <2>1, <2>2 DEF ProcessRecords
    <2>4. QED
      BY <1>1, <2>1, <2>2, <2>3
  <1>4. CASE Current!EndProcess
    <2>1. c' = Current!Nobody /\ UNCHANGED <<a, b, e, f>>
          /\ (d' = d \/ d' = Current!NoRegistry)
      BY <1>4 DEF Current!EndProcess
    <2>2. Current!Nobody \in ProcessRecords
      BY ZeroIsInstant DEF Current!Nobody, ProcessRecords
    <2>3. Current!NoRegistry \in Registries /\ ~Current!NoRegistry.there
      BY ZeroIsInstant DEF Current!NoRegistry, Registries
    <2>4. QED
      BY <1>1, <2>1, <2>2, <2>3
  <1>5. CASE Current!ExecProcess
    <2>1. PICK name \in {a, "other"} : /\ c' = [c EXCEPT !.name = name, !.open = {}]
                                       /\ UNCHANGED <<a, b, d, e, f>>
      BY <1>5 DEF Current!ExecProcess
    <2>2. c' \in ProcessRecords
      BY <1>1, <2>1 DEF ProcessRecords
    <2>3. QED
      BY <1>1, <2>1, <2>2
  <1>6. CASE Current!OpenSessions
    <2>1. PICK open \in SUBSET Rollouts : /\ c' = [c EXCEPT !.open = open]
                                          /\ UNCHANGED <<a, b, d, e, f>>
      BY <1>6 DEF Current!OpenSessions
    <2>2. c' \in ProcessRecords
      BY <1>1, <2>1 DEF ProcessRecords
    <2>3. QED
      BY <1>1, <2>1, <2>2
  <1>7. CASE Current!WriteRegistry
    <2>1. PICK native \in Current!Natives :
             /\ d' = [there |-> TRUE, by |-> c.start, native |-> native]
             /\ UNCHANGED <<a, b, c, e, f>>
      BY <1>7 DEF Current!WriteRegistry
    <2>2. d' \in Registries /\ d'.native \in Current!Natives
      BY <1>1, <2>1 DEF Registries, ProcessRecords
    <2>3. QED
      BY <1>1, <2>1, <2>2
  <1>8. QED
    BY <1>3, <1>4, <1>5, <1>6, <1>7

LEMMA CurrentTypesStep ==
    ASSUME CurrentTypes, Current!Next
    PROVE  CurrentTypes'
  <1>1. CurrentInv'
    BY CurrentStep DEF CurrentTypes
  <1>2. QED
    BY <1>1, StartProbeTyped, PsTyped, TokenTyped, LsofTyped, FindRegistryTyped,
       ReadRegistryTyped, ProcessesTyped DEF Current!Next

LEMMA CurrentTypesBegin ==
    ASSUME Current!Init
    PROVE  CurrentTypes
  <1>1. /\ b = 0 /\ c = Current!Nobody /\ d = Current!NoRegistry
        /\ f = Current!IdleProbe
    BY DEF Current!Init
  <1>2. Current!Nobody \in ProcessRecords
    BY ZeroIsInstant DEF Current!Nobody, ProcessRecords
  <1>3. Current!NoRegistry \in Registries /\ ~Current!NoRegistry.there
    BY ZeroIsInstant DEF Current!NoRegistry, Registries
  <1>4. f \in ProbeRecords /\ f.step = 0
    BY <1>1, IdleProbeIsTyped
  <1>5. f.step \notin {6, 7, 8}
    BY <1>4
  <1>6. QED
    BY <1>1, <1>2, <1>3, <1>4, <1>5, CurrentBegins, ZeroIsInstant DEF CurrentTypes

LEMMA CurrentIsTyped == CurrentTypes => Current!TypeOK
  <1> SUFFICES ASSUME CurrentTypes
               PROVE  Current!TypeOK
    OBVIOUS
  <1>1. a \in {"codex", "claude"} /\ f.step \in 0 .. LastLook /\ e \subseteq Rollouts
    BY DEF CurrentTypes, CurrentInv, Processing, Probing
  <1>2. Len(Current!Steps) = LastLook /\ LastLook \in Nat
    BY <1>1, LooksOfCodex, LooksOfClaude DEF LastLook
  <1>3. f.step \in 0 .. Len(Current!Steps)
    BY <1>1, <1>2
  <1>4. /\ c.start \in Current!Instants /\ c.name \in {"codex", "claude", "other"}
        /\ c.open \subseteq Rollouts
        /\ d.by \in Current!Instants /\ d.native \in Current!Natives \cup {0}
    BY DEF CurrentTypes, ProcessRecords, Registries
  <1>5. /\ f.second \in Current!Instants
        /\ f.seen \in Current!Identities /\ f.kept \in Current!Identities
        /\ f.owned \subseteq Rollouts
        /\ f.outcome \in {"none", "claims", "no identity", "unavailable",
                          "stale", "failed"}
        /\ f.claims \subseteq Claimable
    BY DEF CurrentTypes, ProbeRecords
  <1>6. QED
    BY <1>1, <1>3, <1>4, <1>5 DEF CurrentTypes, Claimable, Current!TypeOK

-----------------------------------------------------------------------------
(* The types of catalog state export and import.                           *)

SourceRows == State!Partial(Sources, State!Sighting)
OccurrenceRows == State!Partial(Occurrences, State!Sighting)
CheckpointRows == State!Partial(Occurrences, Observable)

LEMMA PartialOf ==
    ASSUME NEW S, NEW T, NEW map, NEW D \in SUBSET S, map \in [D -> T]
    PROVE  map \in State!Partial(S, T)
  BY DEF State!Partial

LEMMA PartialIs ==
    ASSUME NEW S, NEW T, NEW map \in State!Partial(S, T)
    PROVE  DOMAIN map \subseteq S /\ map \in [DOMAIN map -> T]
  BY DEF State!Partial

LEMMA PartialSet ==
    ASSUME NEW S, NEW T, NEW map \in State!Partial(S, T), NEW x \in S, NEW y \in T
    PROVE  State!Set(map, x, y) \in State!Partial(S, T)
  <1>1. DOMAIN map \subseteq S /\ map \in [DOMAIN map -> T]
    BY PartialIs
  <1>2. PICK D : D = DOMAIN map \cup {x}
    OBVIOUS
  <1>3. PICK new : new = State!Set(map, x, y)
    OBVIOUS
  <1>4. new \in [D -> T] /\ D \in SUBSET S
    BY <1>1, <1>2, <1>3 DEF State!Set
  <1>5. QED
    BY <1>3, <1>4, PartialOf

LEMMA PartialGone ==
    ASSUME NEW S, NEW map \in State!Partial(S, State!Sighting), NEW seen
    PROVE  State!Gone(map, seen) \in State!Partial(S, State!Sighting)
  <1>1. DOMAIN map \subseteq S /\ map \in [DOMAIN map -> State!Sighting]
    BY PartialIs
  <1>2. PICK D : D = DOMAIN map
    OBVIOUS
  <1>3. PICK new : new = State!Gone(map, seen)
    OBVIOUS
  <1>4. "gone" \in State!Sighting
    BY DEF State!Sighting
  <1>5. new \in [D -> State!Sighting] /\ D \in SUBSET S
    BY <1>1, <1>2, <1>3, <1>4 DEF State!Gone
  <1>6. QED
    BY <1>3, <1>5, PartialOf

LEMMA PartialJoin ==
    ASSUME NEW S, NEW T, NEW x \in State!Partial(S, T), NEW y \in State!Partial(S, T)
    PROVE  State!Join(x, y) \in State!Partial(S, T)
  <1>1. /\ DOMAIN x \subseteq S /\ x \in [DOMAIN x -> T]
        /\ DOMAIN y \subseteq S /\ y \in [DOMAIN y -> T]
    BY PartialIs
  <1>2. PICK D : D = DOMAIN x \cup DOMAIN y
    OBVIOUS
  <1>3. PICK new : new = State!Join(x, y)
    OBVIOUS
  <1>4. new \in [D -> T] /\ D \in SUBSET S
    BY <1>1, <1>2, <1>3 DEF State!Join
  <1>5. QED
    BY <1>3, <1>4, PartialOf

LEMMA NothingIsPartial ==
    ASSUME NEW S, NEW T
    PROVE  State!None \in State!Partial(S, T)
  <1>1. State!None \in [{} -> T] /\ {} \in SUBSET S
    BY DEF State!None
  <1>2. QED
    BY <1>1, PartialOf

LEMMA TablesAre ==
    State!Tables = [source : SourceRows, occurrence : OccurrenceRows,
                    blob : SUBSET State!Blobs, revision : SUBSET Observable,
                    checkpoint : CheckpointRows]
  BY DEF State!Tables, State!Revisions, SourceRows, OccurrenceRows, CheckpointRows

LEMMA TablesWith ==
    ASSUME NEW t \in State!Tables
    PROVE  /\ t.source \in SourceRows /\ t.occurrence \in OccurrenceRows
           /\ t.blob \subseteq State!Blobs /\ t.revision \subseteq Observable
           /\ t.checkpoint \in CheckpointRows
           /\ \A x \in SourceRows : [t EXCEPT !.source = x] \in State!Tables
           /\ \A x \in OccurrenceRows : [t EXCEPT !.occurrence = x] \in State!Tables
           /\ \A x \in SUBSET State!Blobs : [t EXCEPT !.blob = x] \in State!Tables
           /\ \A x \in SUBSET Observable : [t EXCEPT !.revision = x] \in State!Tables
           /\ \A x \in CheckpointRows : [t EXCEPT !.checkpoint = x] \in State!Tables
  BY TablesAre

LEMMA EmptyIsTyped == State!Empty \in State!Tables
  <1>1. State!None \in SourceRows /\ State!None \in OccurrenceRows
        /\ State!None \in CheckpointRows
    BY NothingIsPartial DEF SourceRows, OccurrenceRows, CheckpointRows
  <1>2. QED
    BY <1>1, TablesAre DEF State!Empty

LEMMA CutIsTyped ==
    ASSUME NEW t \in State!Tables, NEW n
    PROVE  State!Cut(t, n) \in State!Tables
  <1> DEFINE first(table) == \E k \in 1 .. n : State!TableOrder[k] = table
             new == State!Cut(t, n)
  <1>1. /\ DOMAIN t = {"source", "occurrence", "blob", "revision", "checkpoint"}
        /\ DOMAIN State!Empty =
              {"source", "occurrence", "blob", "revision", "checkpoint"}
        /\ State!Empty \in State!Tables
    BY TablesAre, EmptyIsTyped DEF State!Empty
  <1>2. new = [table \in DOMAIN t |-> IF first(table) THEN t[table]
                                      ELSE State!Empty[table]]
    BY DEF State!Cut
  <1> HIDE DEF first, new
  <1>3. /\ new = [source |-> new.source, occurrence |-> new.occurrence,
                  blob |-> new.blob, revision |-> new.revision,
                  checkpoint |-> new.checkpoint]
    BY <1>1, <1>2
  <1>4. /\ new.source \in {t.source, State!Empty.source}
        /\ new.occurrence \in {t.occurrence, State!Empty.occurrence}
        /\ new.blob \in {t.blob, State!Empty.blob}
        /\ new.revision \in {t.revision, State!Empty.revision}
        /\ new.checkpoint \in {t.checkpoint, State!Empty.checkpoint}
    BY <1>1, <1>2
  <1>5. /\ new.source \in SourceRows /\ new.occurrence \in OccurrenceRows
        /\ new.blob \in SUBSET State!Blobs /\ new.revision \in SUBSET Observable
        /\ new.checkpoint \in CheckpointRows
    BY <1>1, <1>4, TablesWith
  <1>6. new \in State!Tables
    BY <1>3, <1>5, TablesAre
  <1>7. QED
    BY <1>6 DEF new

LEMMA MergedIsTyped ==
    ASSUME NEW t \in State!Tables, b \in State!Tables
    PROVE  State!Merged(t) \in State!Tables
  <1>1. PICK x1, x2, x3, x4, x5 :
           /\ x1 = State!Join(t.source, b.source)
           /\ x2 = State!Join(t.occurrence, b.occurrence)
           /\ x3 = t.blob \cup b.blob /\ x4 = t.revision \cup b.revision
           /\ x5 = State!Join(t.checkpoint, b.checkpoint)
    OBVIOUS
  <1>2. x1 \in SourceRows /\ x2 \in OccurrenceRows /\ x5 \in CheckpointRows
    BY <1>1, TablesWith, PartialJoin DEF SourceRows, OccurrenceRows, CheckpointRows
  <1>3. x3 \in SUBSET State!Blobs /\ x4 \in SUBSET Observable
    BY <1>1, TablesWith
  <1>4. State!Merged(t) = [source |-> x1, occurrence |-> x2, blob |-> x3,
                           revision |-> x4, checkpoint |-> x5]
    BY <1>1 DEF State!Merged
  <1>5. QED
    BY <1>2, <1>3, <1>4, TablesAre

LEMMA EditedIsTyped ==
    ASSUME NEW t \in State!Tables, NEW body \in State!Edits(t)
    PROVE  body \in State!Tables
  <1>1. CASE body \in {[t EXCEPT !.source = State!Without(@, s)] : s \in DOMAIN t.source}
    <2>1. PICK s \in DOMAIN t.source :
             body = [t EXCEPT !.source = State!Without(t.source, s)]
      BY <1>1
    <2>2. PICK map, D : /\ map = State!Without(t.source, s)
                        /\ D = DOMAIN t.source \ {s}
      OBVIOUS
    <2>3. /\ DOMAIN t.source \subseteq Sources
          /\ t.source \in [DOMAIN t.source -> State!Sighting]
      BY TablesWith, PartialIs DEF SourceRows
    <2>4. map \in [D -> State!Sighting] /\ D \in SUBSET Sources
      BY <2>2, <2>3 DEF State!Without
    <2>5. map \in SourceRows
      BY <2>4, PartialOf DEF SourceRows
    <2>6. QED
      BY <2>1, <2>2, <2>5, TablesWith
  <1>2. CASE body \in {[t EXCEPT !.occurrence[o] = "gone"] : o \in DOMAIN t.occurrence}
    <2>1. PICK o \in DOMAIN t.occurrence : body = [t EXCEPT !.occurrence[o] = "gone"]
      BY <1>2
    <2>2. PICK map, D : /\ map = [t.occurrence EXCEPT ![o] = "gone"]
                        /\ D = DOMAIN t.occurrence
      OBVIOUS
    <2>3. /\ DOMAIN t.occurrence \subseteq Occurrences
          /\ t.occurrence \in [DOMAIN t.occurrence -> State!Sighting]
      BY TablesWith, PartialIs DEF OccurrenceRows
    <2>4. map \in [D -> State!Sighting] /\ D \in SUBSET Occurrences
      BY <2>2, <2>3 DEF State!Sighting
    <2>5. map \in OccurrenceRows
      BY <2>4, PartialOf DEF OccurrenceRows
    <2>6. body = [t EXCEPT !.occurrence = map]
      BY <2>1, <2>2
    <2>7. QED
      BY <2>5, <2>6, TablesWith
  <1>3. CASE body \in {[t EXCEPT !.blob = @ \ {x}] : x \in t.blob}
    <2>1. PICK x, blobs : body = [t EXCEPT !.blob = blobs] /\ blobs = t.blob \ {x}
      BY <1>3
    <2>2. blobs \in SUBSET State!Blobs
      BY <2>1, TablesWith
    <2>3. QED
      BY <2>1, <2>2, TablesWith
  <1>4. CASE body \in {[t EXCEPT !.blob = (@ \ {x}) \cup {[x EXCEPT !.intact = FALSE]}] :
                          x \in t.blob}
    <2>1. PICK x \in t.blob :
             body = [t EXCEPT !.blob = (t.blob \ {x}) \cup {[x EXCEPT !.intact = FALSE]}]
      BY <1>4
    <2>2. PICK y, blobs : /\ y = [x EXCEPT !.intact = FALSE]
                          /\ blobs = (t.blob \ {x}) \cup {y}
      OBVIOUS
    <2>3. x \in State!Blobs
      BY TablesWith
    <2>4. y \in State!Blobs
      BY <2>2, <2>3 DEF State!Blobs
    <2>5. blobs \in SUBSET State!Blobs
      BY <2>2, <2>4, TablesWith
    <2>6. QED
      BY <2>1, <2>2, <2>5, TablesWith
  <1>5. CASE body \in {[t EXCEPT !.revision = @ \ {r}] : r \in t.revision}
    <2>1. PICK r, revisions : /\ body = [t EXCEPT !.revision = revisions]
                              /\ revisions = t.revision \ {r}
      BY <1>5
    <2>2. revisions \in SUBSET Observable
      BY <2>1, TablesWith
    <2>3. QED
      BY <2>1, <2>2, TablesWith
  <1>6. QED
    BY <1>1, <1>2, <1>3, <1>4, <1>5 DEF State!Edits

RetainSteps == {"external", "snapshot", "revision", "checkpoint"}
ScanSteps == {"idle", "sources", "session", "occurrences gone", "sources gone"}
                 \cup RetainSteps
TransferScans == [at : ScanSteps, listed : SUBSET Occurrences,
                  todo : SUBSET Occurrences, rev : Observable \cup {0}]
TransferExports == [at : 0 .. 7, path : Paths, got : State!Tables, quiet : BOOLEAN]
TransferImports ==
    [at : 0 .. 8, stream : State!Tables, alone : BOOLEAN,
     outcome : {"none", "refused", "constraint", "restored"}]

\* A scan that retains has what it retains.
Retaining(it) ==
    /\ it \in TransferScans
    /\ it.at \in RetainSteps => it.rev \in Observable
    /\ it.at = "external" => it.rev.external # 0

TransferTypes ==
    /\ TransferInv
    /\ a \in {"absent", "ours", "other"} /\ b \in State!Tables /\ Retaining(c)
    /\ d \in TransferExports /\ e \in TransferImports
    /\ \A p \in Paths : f[p].body \in State!Tables /\ g[p].stream \in State!Tables
    /\ h \subseteq State!Tables

LEMMA IdleScanIsTyped == Retaining(State!IdleScan)
  BY DEF State!IdleScan, Retaining, TransferScans, ScanSteps, RetainSteps

LEMMA IdleExportIsTyped == State!IdleExport \in TransferExports
  <1>1. Paths # {}
    BY CommandsAssumption DEF State!ConstantsOK
  <1>2. (CHOOSE p \in Paths : TRUE) \in Paths
    BY <1>1
  <1>3. QED
    BY <1>2, EmptyIsTyped DEF State!IdleExport, TransferExports

LEMMA DisturbedAreTyped ==
    ASSUME TransferTypes
    PROVE  /\ State!DisturbExport => d' \in TransferExports
           /\ State!DisturbImport => e' \in TransferImports
  <1>1. ASSUME State!DisturbExport
        PROVE  d' \in TransferExports
    <2>1. PICK quiet \in BOOLEAN : quiet = (d.quiet /\ d.at = 0)
      OBVIOUS
    <2>2. d' = [d EXCEPT !.quiet = quiet]
      BY <1>1, <2>1 DEF State!DisturbExport
    <2>3. QED
      BY <2>2 DEF TransferTypes, TransferExports
  <1>2. ASSUME State!DisturbImport
        PROVE  e' \in TransferImports
    <2>1. PICK alone \in BOOLEAN :
             alone = (e.alone /\ e.at = 0 /\ e.outcome # "restored")
      OBVIOUS
    <2>2. e' = [e EXCEPT !.alone = alone]
      BY <1>2, <2>1 DEF State!DisturbImport
    <2>3. QED
      BY <2>2 DEF TransferTypes, TransferImports
  <1>3. QED
    BY <1>1, <1>2

\* Only the tables, the scan and who was disturbed change in a scan.
LEMMA ScanGoesTyped ==
    ASSUME TransferTypes, TransferInv', UNCHANGED <<a, f, g, h>>,
           b' \in State!Tables, Retaining(c'), d' \in TransferExports,
           e' \in TransferImports
    PROVE  TransferTypes'
  <1>1. Retaining(c)'
    BY DEF Retaining
  <1>2. QED
    BY <1>1 DEF TransferTypes

LEMMA StatementTyped ==
    ASSUME TransferTypes, TransferInv', NEW from, NEW new \in State!Tables, NEW then,
           Retaining(then), State!Statement(from, new, then)
    PROVE  TransferTypes'
  <1>1. UNCHANGED <<a, f, g, h>>
    BY DEF State!Statement
  <1>2. CASE a = "ours" /\ State!References(new)
    <2>1. b' = new /\ c' = then /\ State!DisturbExport /\ State!DisturbImport
      BY <1>2 DEF State!Statement
    <2>2. QED
      BY <1>1, <2>1, DisturbedAreTyped, ScanGoesTyped
  <1>3. CASE ~(a = "ours" /\ State!References(new))
    <2>1. c' = State!IdleScan /\ UNCHANGED <<b, d, e>>
      BY <1>3 DEF State!Statement
    <2>2. QED
      BY <1>1, <2>1, IdleScanIsTyped, ScanGoesTyped DEF TransferTypes
  <1>4. QED
    BY <1>2, <1>3

\* A scan that goes on to another step.
LEMMA ScanAt ==
    ASSUME NEW it, Retaining(it), NEW at \in ScanSteps,
           at \in RetainSteps => it.rev \in Observable,
           at = "external" => it.rev.external # 0
    PROVE  Retaining([it EXCEPT !.at = at])
  <1>1. PICK new : new = [it EXCEPT !.at = at]
    OBVIOUS
  <1>2. new \in TransferScans /\ new.at = at /\ new.rev = it.rev
    BY <1>1 DEF Retaining, TransferScans
  <1>3. Retaining(new)
    BY <1>2 DEF Retaining
  <1>4. QED
    BY <1>1, <1>3

LEMMA SourcesAre ==
    ASSUME NEW seen \in SUBSET Occurrences
    PROVE  State!SourcesOf(seen) \subseteq Sources
  <1>1. SourceOf \in [Occurrences -> Sources]
    BY CommandsAssumption DEF State!ConstantsOK
  <1>2. QED
    BY <1>1 DEF State!SourcesOf

LEMMA ObservableIs ==
    ASSUME NEW r \in Observable
    PROVE  /\ r.occurrence \in Occurrences /\ r.snapshot \in Payloads
           /\ r.external \in Payloads \cup {0}
  <1>1. Observable \subseteq [occurrence : Occurrences, snapshot : Payloads,
                              external : Payloads \cup {0}]
    BY CommandsAssumption DEF State!ConstantsOK
  <1>2. r \in [occurrence : Occurrences, snapshot : Payloads,
               external : Payloads \cup {0}]
    BY <1>1
  <1>3. QED
    BY <1>2

LEMMA ObserveSourceTyped ==
    ASSUME TransferTypes, TransferInv', State!ObserveSource
    PROVE  TransferTypes'
  <1> DEFINE seen == State!SourcesOf(c.listed)
             x == [s \in DOMAIN b.source \cup seen |->
                      IF s \in seen THEN "visible" ELSE b.source[s]]
             new == [b EXCEPT !.source = x]
             then == [c EXCEPT !.at = "session"]
  <1>1. State!Statement("sources", new, then)
    BY DEF State!ObserveSource
  <1>2. seen \subseteq Sources
    BY SourcesAre DEF TransferTypes, Retaining, TransferScans
  <1>3. DOMAIN b.source \subseteq Sources /\ b.source \in [DOMAIN b.source -> State!Sighting]
    BY TablesWith, PartialIs DEF TransferTypes, SourceRows
  <1>4. x \in [DOMAIN b.source \cup seen -> State!Sighting]
    BY <1>3 DEF State!Sighting
  <1>5. DOMAIN b.source \cup seen \in SUBSET Sources
    BY <1>2, <1>3
  <1> HIDE DEF x, seen
  <1>6. x \in SourceRows
    BY <1>4, <1>5, PartialOf DEF SourceRows
  <1>7. new \in State!Tables
    BY <1>6, TablesWith DEF TransferTypes
  <1>8. Retaining(then)
    BY ScanAt DEF TransferTypes, ScanSteps, RetainSteps
  <1>9. QED
    BY <1>1, <1>7, <1>8, StatementTyped

LEMMA ObserveOccurrenceTyped ==
    ASSUME TransferTypes, TransferInv', State!ObserveOccurrence
    PROVE  TransferTypes'
  <1>1. PICK r \in Observable, at \in {"session", "snapshot", "external"} :
           /\ at = "external" => r.external # 0
           /\ State!Statement("session",
                 [b EXCEPT !.occurrence = State!Set(@, r.occurrence, "visible")],
                 [c EXCEPT !.at = at, !.todo = @ \ {r.occurrence}, !.rev = r])
    <2>1. PICK r \in Observable :
             State!Statement("session",
                 [b EXCEPT !.occurrence = State!Set(@, r.occurrence, "visible")],
                 [c EXCEPT
                     !.at = IF /\ r.occurrence \in DOMAIN b.checkpoint
                               /\ b.checkpoint[r.occurrence] = r
                            THEN "session"
                            ELSE IF r.external = 0 THEN "snapshot" ELSE "external",
                     !.todo = @ \ {r.occurrence}, !.rev = r])
      BY DEF State!ObserveOccurrence
    <2>2. PICK at : at = IF /\ r.occurrence \in DOMAIN b.checkpoint
                            /\ b.checkpoint[r.occurrence] = r
                         THEN "session"
                         ELSE IF r.external = 0 THEN "snapshot" ELSE "external"
      OBVIOUS
    <2>3. /\ at \in {"session", "snapshot", "external"}
          /\ at = "external" => r.external # 0
      BY <2>2
    <2>4. QED
      BY <2>1, <2>2, <2>3
  <1>2. PICK map, new, then, todo :
           /\ map = State!Set(b.occurrence, r.occurrence, "visible")
           /\ new = [b EXCEPT !.occurrence = map]
           /\ todo = c.todo \ {r.occurrence}
           /\ then = [c EXCEPT !.at = at, !.todo = todo, !.rev = r]
    OBVIOUS
  <1>3. State!Statement("session", new, then)
    BY <1>1, <1>2
  <1>4. r.occurrence \in Occurrences /\ "visible" \in State!Sighting
    BY ObservableIs DEF State!Sighting
  <1>5. b.occurrence \in State!Partial(Occurrences, State!Sighting)
    BY TablesWith DEF TransferTypes, OccurrenceRows
  <1>6. map \in OccurrenceRows
    BY <1>2, <1>4, <1>5, PartialSet DEF OccurrenceRows
  <1>7. new \in State!Tables
    BY <1>2, <1>6, TablesWith DEF TransferTypes
  <1>8. todo \subseteq Occurrences /\ c \in TransferScans
    BY <1>2 DEF TransferTypes, Retaining, TransferScans
  <1>9. at \in ScanSteps
    BY DEF ScanSteps, RetainSteps
  <1>10. then \in TransferScans /\ then.at = at /\ then.rev = r
    BY <1>2, <1>8, <1>9 DEF TransferScans
  <1>11. Retaining(then)
    BY <1>1, <1>10 DEF Retaining
  <1>12. QED
    BY <1>3, <1>7, <1>11, StatementTyped

\* The blob of a content.
LEMMA PutTyped ==
    ASSUME TransferTypes, NEW content \in Payloads
    PROVE  [b EXCEPT !.blob = @ \cup {State!Intact(content)}] \in State!Tables
  <1>1. PICK blobs : blobs = b.blob \cup {State!Intact(content)}
    OBVIOUS
  <1>5. State!Intact(content) \in State!Blobs
    BY DEF State!Intact, State!Blobs
  <1>6. b \in State!Tables
    BY DEF TransferTypes
  <1>2. blobs \in SUBSET State!Blobs
    BY <1>1, <1>5, <1>6, TablesWith
  <1>3. [b EXCEPT !.blob = blobs] \in State!Tables
    BY <1>2, <1>6, TablesWith
  <1>4. QED
    BY <1>1, <1>3

LEMMA PutsTyped ==
    ASSUME TransferTypes, TransferInv',
           \/ State!PutExternal \/ State!PutSnapshot \/ State!PutSessionRevision
           \/ State!PutCheckpoint
    PROVE  TransferTypes'
  <1>1. c.at \in RetainSteps
    BY DEF State!PutExternal, State!PutSnapshot, State!PutSessionRevision,
           State!PutCheckpoint, State!Statement, RetainSteps
  <1>2. Retaining(c) /\ c.rev \in Observable /\ b \in State!Tables
    BY <1>1 DEF TransferTypes, Retaining
  <1>3. /\ c.rev.occurrence \in Occurrences /\ c.rev.snapshot \in Payloads
        /\ c.rev.external \in Payloads \cup {0}
    BY <1>2, ObservableIs
  <1>4. \A at \in {"snapshot", "revision", "checkpoint", "session"} :
           Retaining([c EXCEPT !.at = at])
    BY <1>2, ScanAt DEF ScanSteps, RetainSteps
  <1>5. CASE State!PutExternal
    <2>1. PICK new, then :
             /\ new = [b EXCEPT !.blob = @ \cup {State!Intact(c.rev.external)}]
             /\ then = [c EXCEPT !.at = "snapshot"]
      OBVIOUS
    <2>2. State!Statement("external", new, then)
      BY <1>5, <2>1 DEF State!PutExternal
    <2>3. c.rev.external # 0
      BY <2>2 DEF State!Statement, TransferTypes, Retaining
    <2>4. new \in State!Tables
      BY <1>3, <2>1, <2>3, PutTyped
    <2>5. QED
      BY <1>4, <2>1, <2>2, <2>4, StatementTyped
  <1>6. CASE State!PutSnapshot
    <2>1. PICK new, then :
             /\ new = [b EXCEPT !.blob = @ \cup {State!Intact(c.rev.snapshot)}]
             /\ then = [c EXCEPT !.at = "revision"]
      OBVIOUS
    <2>2. State!Statement("snapshot", new, then)
      BY <1>6, <2>1 DEF State!PutSnapshot
    <2>3. new \in State!Tables
      BY <1>3, <2>1, PutTyped
    <2>4. QED
      BY <1>4, <2>1, <2>2, <2>3, StatementTyped
  <1>7. CASE State!PutSessionRevision
    <2>1. PICK revisions, new, then :
             /\ revisions = b.revision \cup {c.rev}
             /\ new = [b EXCEPT !.revision = revisions]
             /\ then = [c EXCEPT !.at = "checkpoint"]
      OBVIOUS
    <2>2. State!Statement("revision", new, then)
      BY <1>7, <2>1 DEF State!PutSessionRevision
    <2>3. revisions \in SUBSET Observable
      BY <1>2, <2>1, TablesWith
    <2>4. new \in State!Tables
      BY <1>2, <2>1, <2>3, TablesWith
    <2>5. QED
      BY <1>4, <2>1, <2>2, <2>4, StatementTyped
  <1>8. CASE State!PutCheckpoint
    <2>1. PICK map, new, then :
             /\ map = State!Set(b.checkpoint, c.rev.occurrence, c.rev)
             /\ new = [b EXCEPT !.checkpoint = map]
             /\ then = [c EXCEPT !.at = "session"]
      OBVIOUS
    <2>2. State!Statement("checkpoint", new, then)
      BY <1>8, <2>1 DEF State!PutCheckpoint
    <2>3. b.checkpoint \in State!Partial(Occurrences, Observable)
      BY <1>2, TablesWith DEF CheckpointRows
    <2>4. map \in CheckpointRows
      BY <1>2, <1>3, <2>1, <2>3, PartialSet DEF CheckpointRows
    <2>5. new \in State!Tables
      BY <1>2, <2>1, <2>4, TablesWith
    <2>6. QED
      BY <1>4, <2>1, <2>2, <2>5, StatementTyped
  <1>9. QED
    BY <1>5, <1>6, <1>7, <1>8

LEMMA TombstoneTyped ==
    ASSUME TransferTypes, TransferInv',
           State!TombstoneOccurrences \/ State!TombstoneSources
    PROVE  TransferTypes'
  <1>1. Retaining(c) /\ b \in State!Tables
    BY DEF TransferTypes
  <1>2. CASE State!TombstoneOccurrences
    <2>1. PICK map, new, then :
             /\ map = State!Gone(b.occurrence, c.listed)
             /\ new = [b EXCEPT !.occurrence = map]
             /\ then = [c EXCEPT !.at = "sources gone"]
      OBVIOUS
    <2>2. State!Statement("occurrences gone", new, then)
      BY <1>2, <2>1 DEF State!TombstoneOccurrences
    <2>3. b.occurrence \in State!Partial(Occurrences, State!Sighting)
      BY <1>1, TablesWith DEF OccurrenceRows
    <2>4. map \in OccurrenceRows
      BY <2>1, <2>3, PartialGone DEF OccurrenceRows
    <2>5. new \in State!Tables
      BY <1>1, <2>1, <2>4, TablesWith
    <2>6. Retaining(then)
      BY <1>1, <2>1, ScanAt DEF ScanSteps, RetainSteps
    <2>7. QED
      BY <2>2, <2>5, <2>6, StatementTyped
  <1>3. CASE State!TombstoneSources
    <2>1. PICK map, new :
             /\ map = State!Gone(b.source, State!SourcesOf(c.listed))
             /\ new = [b EXCEPT !.source = map]
      OBVIOUS
    <2>2. State!Statement("sources gone", new, State!IdleScan)
      BY <1>3, <2>1 DEF State!TombstoneSources
    <2>3. b.source \in State!Partial(Sources, State!Sighting)
      BY <1>1, TablesWith DEF SourceRows
    <2>4. map \in SourceRows
      BY <2>1, <2>3, PartialGone DEF SourceRows
    <2>5. new \in State!Tables
      BY <1>1, <2>1, <2>4, TablesWith
    <2>6. QED
      BY <2>2, <2>5, IdleScanIsTyped, StatementTyped
  <1>4. QED
    BY <1>2, <1>3

LEMMA ScanTyped ==
    ASSUME TransferTypes, TransferInv', State!Scan
    PROVE  TransferTypes'
  <1>1. /\ Retaining(c) /\ b \in State!Tables /\ d \in TransferExports
        /\ e \in TransferImports
    BY DEF TransferTypes
  <1>2. CASE State!StartScan
    <2>1. PICK listed \in SUBSET Occurrences :
             /\ c' = [State!IdleScan EXCEPT !.at = "sources", !.listed = listed,
                                            !.todo = listed]
             /\ UNCHANGED <<a, b, d, e, f, g, h>>
      BY <1>2 DEF State!StartScan
    <2>2. c' = [at |-> "sources", listed |-> listed, todo |-> listed, rev |-> 0]
      BY <2>1 DEF State!IdleScan
    <2>3. Retaining(c')
      BY <2>2 DEF Retaining, TransferScans, ScanSteps, RetainSteps
    <2>4. QED
      BY <1>1, <2>1, <2>3, ScanGoesTyped
  <1>3. CASE State!EndOfListing \/ State!ScanFails
    <2>1. /\ UNCHANGED <<a, b, d, e, f, g, h>>
          /\ \/ c' = State!IdleScan
             \/ \E at \in {"occurrences gone", "session"} : c' = [c EXCEPT !.at = at]
      BY <1>3 DEF State!EndOfListing, State!ScanFails
    <2>2. \A at \in {"occurrences gone", "session"} : Retaining([c EXCEPT !.at = at])
      BY <1>1, ScanAt DEF ScanSteps, RetainSteps
    <2>3. Retaining(c')
      BY <2>1, <2>2, IdleScanIsTyped
    <2>4. QED
      BY <1>1, <2>1, <2>3, ScanGoesTyped
  <1>4. QED
    BY <1>2, <1>3, ObserveSourceTyped, ObserveOccurrenceTyped, PutsTyped,
       TombstoneTyped DEF State!Scan

LEMMA ExportGoesTyped ==
    ASSUME TransferTypes, TransferInv', UNCHANGED <<a, b, c, e, f, g, h>>,
           d' \in TransferExports
    PROVE  TransferTypes'
  BY DEF TransferTypes, Retaining

\* An export that writes its file.
LEMMA WriteTyped ==
    ASSUME TransferTypes, TransferInv', NEW path \in Paths, NEW there,
           there.body \in State!Tables, f' = [f EXCEPT ![path] = there],
           h' \subseteq State!Tables, UNCHANGED <<a, b, c, e>>,
           d' \in TransferExports, \A p \in Paths : g'[p].stream \in State!Tables
    PROVE  TransferTypes'
  <1>1. DOMAIN f = Paths
    BY DEF TransferTypes, TransferInv
  <1>2. \A p \in Paths : f'[p].body \in State!Tables
    BY <1>1 DEF TransferTypes
  <1>3. QED
    BY <1>2 DEF TransferTypes, Retaining

LEMMA ReadStateTyped ==
    ASSUME TransferTypes, TransferInv', State!ReadState
    PROVE  TransferTypes'
  <1> DEFINE table == State!TableOrder[d.at - 1]
  <1>1. /\ d.at \in 2 .. 6
        /\ d' = [d EXCEPT !.at = @ + 1, !.got[table] = b[table]]
        /\ UNCHANGED <<a, b, c, e, f, g, h>>
    BY DEF State!ReadState, State!ExportRest, State!ReadRows
  <1>2. table \in {"source", "occurrence", "blob", "revision", "checkpoint"}
    BY <1>1 DEF State!TableOrder
  <1> HIDE DEF table
  <1>3. d \in TransferExports /\ d.got \in State!Tables /\ b \in State!Tables
    BY DEF TransferTypes, TransferExports
  <1>4. PICK got : got = [d.got EXCEPT ![table] = b[table]]
    OBVIOUS
  <1>5. got \in State!Tables
    <2>1. CASE table = "source"
      BY <1>3, <1>4, <2>1, TablesWith
    <2>2. CASE table = "occurrence"
      BY <1>3, <1>4, <2>2, TablesWith
    <2>3. CASE table = "blob"
      BY <1>3, <1>4, <2>3, TablesWith
    <2>4. CASE table = "revision"
      BY <1>3, <1>4, <2>4, TablesWith
    <2>5. CASE table = "checkpoint"
      BY <1>3, <1>4, <2>5, TablesWith
    <2>6. QED
      BY <1>2, <2>1, <2>2, <2>3, <2>4, <2>5
  <1>6. PICK at \in 0 .. 7 : at = d.at + 1
    BY <1>1
  <1>7. d' = [d EXCEPT !.at = at, !.got = got]
    BY <1>1, <1>3, <1>4, <1>6 DEF TransferExports
  <1>8. d' \in TransferExports
    BY <1>3, <1>5, <1>7 DEF TransferExports
  <1>9. QED
    BY <1>1, <1>8, ExportGoesTyped

LEMMA ExportTyped ==
    ASSUME TransferTypes, TransferInv', State!Export
    PROVE  TransferTypes'
  <1>1. /\ d \in TransferExports /\ d.got \in State!Tables /\ d.path \in Paths
        /\ d.quiet \in BOOLEAN /\ DOMAIN g = Paths
        /\ h \subseteq State!Tables
        /\ \A p \in Paths : g[p].stream \in State!Tables
    BY DEF TransferTypes, TransferExports, TransferInv
  <1>2. CASE \E path \in Paths : State!CreateStream(path)
    <2>1. PICK path, there :
             /\ path \in Paths /\ there = State!At(State!Blank)
             /\ f' = [f EXCEPT ![path] = there]
             /\ d' = [at |-> 1, path |-> path, got |-> State!Empty, quiet |-> TRUE]
             /\ UNCHANGED <<a, b, c, e, g, h>>
      BY <1>2 DEF State!CreateStream, State!ExportRest
    <2>2. there.body \in State!Tables
      BY <2>1, BlankIs, EmptyIsTyped
    <2>3. d' \in TransferExports
      BY <2>1, EmptyIsTyped DEF TransferExports
    <2>4. QED
      BY <1>1, <2>1, <2>2, <2>3, WriteTyped
  <1>3. CASE State!ExportStatus
    <2>1. d' = [d EXCEPT !.at = 2, !.quiet = TRUE] /\ UNCHANGED <<a, b, c, e, f, g, h>>
      BY <1>3 DEF State!ExportStatus, State!ExportRest
    <2>2. PICK at \in 0 .. 7 : at = 2
      OBVIOUS
    <2>6. PICK quiet \in BOOLEAN : quiet = TRUE
      OBVIOUS
    <2>3. d' = [d EXCEPT !.at = at, !.quiet = quiet]
      BY <2>1, <2>2, <2>6
    <2>4. d' \in TransferExports
      BY <1>1, <2>3 DEF TransferExports
    <2>7. QED
      BY <2>1, <2>4, ExportGoesTyped
  <1>4. CASE State!WritePart
    <2>1. PICK n, there :
             /\ there = State!At([manifest |-> State!Manifest(d.got),
                                  body |-> State!Cut(d.got, n)])
             /\ f' = [f EXCEPT ![d.path] = there] /\ h' = h \cup {d.got}
             /\ UNCHANGED <<a, b, c, d, e, g>>
      BY <1>4 DEF State!WritePart, State!ExportRest
    <2>2. there.body \in State!Tables
      <3>1. there.body = State!Cut(d.got, n)
        BY <2>1 DEF State!At
      <3>2. QED
        BY <1>1, <3>1, CutIsTyped
    <2>3. QED
      BY <1>1, <2>1, <2>2, WriteTyped
  <1>5. CASE State!WriteRest
    <2>1. PICK there, report :
             /\ there = State!At(State!Whole(d.got))
             /\ report = [reported |-> TRUE, quiet |-> d.quiet, stream |-> d.got]
             /\ f' = [f EXCEPT ![d.path] = there] /\ h' = h \cup {d.got}
             /\ g' = [g EXCEPT ![d.path] = report]
             /\ d' = State!IdleExport /\ UNCHANGED <<a, b, c, e>>
      BY <1>5 DEF State!WriteRest, State!ExportRest
    <2>2. there.body \in State!Tables /\ report.stream \in State!Tables
      BY <1>1, <2>1, WholeIs
    <2>3. \A p \in Paths : g'[p].stream \in State!Tables
      BY <1>1, <2>1, <2>2
    <2>4. d' \in TransferExports /\ h' \subseteq State!Tables
      BY <1>1, <2>1, IdleExportIsTyped
    <2>5. QED
      BY <1>1, <2>1, <2>2, <2>3, <2>4, WriteTyped
  <1>6. CASE State!ExportFails
    BY <1>6, IdleExportIsTyped, ExportGoesTyped DEF State!ExportFails, State!ExportRest
  <1>7. QED
    BY <1>2, <1>3, <1>4, <1>5, <1>6, ReadStateTyped DEF State!Export

LEMMA ImportGoesTyped ==
    ASSUME TransferTypes, TransferInv', UNCHANGED <<a, b, c, d, f, g, h>>,
           e' \in TransferImports
    PROVE  TransferTypes'
  BY DEF TransferTypes, Retaining

LEMMA ImportEndsTyped ==
    ASSUME TransferTypes, TransferInv', UNCHANGED <<a, c, f, g, h>>,
           NEW outcome \in {"refused", "constraint"}, State!ImportEnds(outcome)
    PROVE  TransferTypes'
  <1>1. e.alone \in BOOLEAN
    BY DEF TransferTypes, TransferImports
  <1>2. /\ e' = [at |-> 0, stream |-> State!Empty, alone |-> e.alone,
                 outcome |-> outcome]
        /\ UNCHANGED <<b, d>>
    BY DEF State!ImportEnds, State!IdleImport
  <1>3. e' \in TransferImports
    BY <1>1, <1>2, EmptyIsTyped DEF TransferImports
  <1>4. QED
    BY <1>2, <1>3, ImportGoesTyped

LEMMA ImportTyped ==
    ASSUME TransferTypes, TransferInv', State!Import
    PROVE  TransferTypes'
  <1>1. e \in TransferImports /\ e.at \in 0 .. 8 /\ e.stream \in State!Tables
    BY DEF TransferTypes, TransferImports
  <1>2. UNCHANGED <<a, c, f, g, h>>
    BY DEF State!Import, State!ImportRest, State!StartImport, State!ImportStatus,
           State!RequireEmpty, State!WriteState, State!ImportFails, State!DecodeState
  <1>3. CASE State!ImportEnds("refused") \/ State!ImportEnds("constraint")
    BY <1>2, <1>3, ImportEndsTyped
  <1>4. CASE State!StartImport
    <2>1. /\ e' = [at |-> 1, stream |-> State!Empty, alone |-> TRUE,
                   outcome |-> "none"]
          /\ UNCHANGED <<b, d>>
      BY <1>4 DEF State!StartImport, State!IdleImport
    <2>2. e' \in TransferImports
      BY <2>1, EmptyIsTyped DEF TransferImports
    <2>3. QED
      BY <1>2, <2>1, <2>2, ImportGoesTyped
  <1>5. CASE State!ImportStatus /\ ~State!ImportEnds("refused")
    <2>1. e' = [e EXCEPT !.at = 2] /\ UNCHANGED <<b, d>>
      BY <1>5 DEF State!ImportStatus
    <2>2. e' \in TransferImports
      BY <1>1, <2>1 DEF TransferImports
    <2>3. QED
      BY <1>2, <2>1, <2>2, ImportGoesTyped
  <1>6. CASE /\ \E path \in Paths : State!DecodeState(path)
             /\ ~State!ImportEnds("refused")
    <2>1. PICK path, body :
             /\ path \in Paths /\ body = f[path].body
             /\ e' = [e EXCEPT !.at = 3, !.stream = body, !.alone = TRUE]
             /\ UNCHANGED <<b, d>>
      BY <1>6 DEF State!DecodeState
    <2>2. body \in State!Tables
      BY <2>1 DEF TransferTypes
    <2>3. PICK at \in 0 .. 8 : at = 3
      OBVIOUS
    <2>7. PICK alone \in BOOLEAN : alone = TRUE
      OBVIOUS
    <2>4. e' = [e EXCEPT !.at = at, !.stream = body, !.alone = alone]
      BY <2>1, <2>3, <2>7
    <2>5. e' \in TransferImports
      BY <1>1, <2>2, <2>4 DEF TransferImports
    <2>8. QED
      BY <1>2, <2>1, <2>5, ImportGoesTyped
  <1>7. CASE State!RequireEmpty /\ ~State!ImportEnds("refused")
    <2>1. e.at \in 3 .. 7 /\ e' = [e EXCEPT !.at = e.at + 1] /\ UNCHANGED <<b, d>>
      BY <1>7 DEF State!RequireEmpty
    <2>2. PICK at \in 0 .. 8 : at = e.at + 1
      BY <2>1
    <2>3. e' = [e EXCEPT !.at = at]
      BY <2>1, <2>2
    <2>4. e' \in TransferImports
      BY <1>1, <2>3 DEF TransferImports
    <2>5. QED
      BY <1>2, <2>1, <2>4, ImportGoesTyped
  <1>8. CASE /\ State!WriteState
             /\ ~State!ImportEnds("refused") /\ ~State!ImportEnds("constraint")
    <2>1. /\ b' = State!Merged(e.stream) /\ State!DisturbExport
          /\ e' = [e EXCEPT !.at = 0, !.outcome = "restored"]
      BY <1>8 DEF State!WriteState
    <2>2. b' \in State!Tables
      BY <1>1, <2>1, MergedIsTyped DEF TransferTypes
    <2>3. d' \in TransferExports
      BY <2>1, DisturbedAreTyped
    <2>4. PICK at \in 0 .. 8 : at = 0
      OBVIOUS
    <2>5. e' = [e EXCEPT !.at = at, !.outcome = "restored"]
      BY <2>1, <2>4
    <2>6. e' \in TransferImports
      BY <1>1, <2>5 DEF TransferImports
    <2>7. Retaining(c')
      BY <1>2 DEF TransferTypes
    <2>8. QED
      BY <1>2, <2>2, <2>3, <2>6, <2>7, ScanGoesTyped
  <1>9. CASE State!ImportFails
    BY <1>3, <1>9 DEF State!ImportFails
  <1>10. QED
    BY <1>3, <1>4, <1>5, <1>6, <1>7, <1>8, <1>9 DEF State!Import

LEMMA ResetTyped ==
    ASSUME TransferTypes, TransferInv', State!ResetCatalog
    PROVE  TransferTypes'
  <1>1. /\ a' = "ours" /\ b' = State!Empty /\ UNCHANGED <<c, f, g, h>>
        /\ State!DisturbExport /\ State!DisturbImport
    BY DEF State!ResetCatalog
  <1>2. d' \in TransferExports /\ e' \in TransferImports
    BY <1>1, DisturbedAreTyped
  <1>3. QED
    BY <1>1, <1>2, EmptyIsTyped DEF TransferTypes, Retaining

LEMMA EditStreamTyped ==
    ASSUME TransferTypes, TransferInv', NEW path \in Paths, State!EditStream(path)
    PROVE  TransferTypes'
  <1>1. /\ g' = [g EXCEPT ![path].reported = FALSE] /\ UNCHANGED <<a, b, c, d, e>>
    BY DEF State!EditStream
  <1>2. PICK body \in State!Edits(f[path].body) :
           \/ f' = [f EXCEPT ![path].body = body] /\ UNCHANGED h
           \/ /\ f' = [f EXCEPT ![path] = State!At(State!Whole(body))]
              /\ h' = h \cup {body}
    BY DEF State!EditStream
  <1>3. /\ Stored(f[path], g[path], h) /\ DOMAIN g = Paths
        /\ \A p \in Paths : f[p].body \in State!Tables /\ g[p].stream \in State!Tables
    BY DEF TransferTypes, TransferInv
  <1>4. body \in State!Tables
    BY <1>3, EditedIsTyped
  <1>5. PICK report : report = [g[path] EXCEPT !.reported = FALSE]
    OBVIOUS
  <1>6. report.stream = g[path].stream
    BY <1>3, <1>5 DEF Stored
  <1>7. \A p \in Paths : g'[p].stream \in State!Tables
    BY <1>1, <1>3, <1>5, <1>6
  <1>8. h' \subseteq State!Tables /\ d' \in TransferExports
    BY <1>1, <1>2, <1>4 DEF TransferTypes
  <1>9. PICK there : /\ f' = [f EXCEPT ![path] = there]
                     /\ there.body = body
    <2>1. DOMAIN f[path] = {"manifest", "body", "exists"}
      BY <1>3 DEF Stored
    <2>2. [f[path] EXCEPT !.body = body].body = body
      BY <2>1
    <2>3. QED
      BY <1>2, <2>2, WholeIs
  <1>10. QED
    BY <1>1, <1>4, <1>7, <1>8, <1>9, WriteTyped

LEMMA TransferTypesStep ==
    ASSUME TransferTypes, State!Next
    PROVE  TransferTypes'
  <1>1. TransferInv'
    BY TransferStep DEF TransferTypes
  <1>2. QED
    BY <1>1, ScanTyped, ExportTyped, ImportTyped, ResetTyped, EditStreamTyped
       DEF State!Next, State!User

LEMMA TransferTypesBegin ==
    ASSUME State!Init
    PROVE  TransferTypes
  <1>1. /\ a \in {"absent", "ours", "other"} /\ b = State!Empty
        /\ c = State!IdleScan /\ d = State!IdleExport /\ e = State!IdleImport
        /\ f = [p \in Paths |-> State!Absent]
        /\ g = [p \in Paths |-> [reported |-> FALSE, quiet |-> FALSE,
                                 stream |-> State!Empty]]
        /\ h = {}
    BY DEF State!Init
  <1>2. e \in TransferImports
    BY <1>1, EmptyIsTyped DEF State!IdleImport, TransferImports
  <1>3. State!Absent.body = State!Empty
    BY DEF State!Absent
  <1>4. \A p \in Paths : f[p].body \in State!Tables /\ g[p].stream \in State!Tables
    BY <1>1, <1>3, EmptyIsTyped
  <1>5. QED
    BY <1>1, <1>2, <1>4, EmptyIsTyped, IdleScanIsTyped, IdleExportIsTyped,
       TransferBegins DEF TransferTypes

LEMMA TransferIsTyped == TransferTypes => State!TypeOK
  <1> SUFFICES ASSUME TransferTypes
               PROVE  State!TypeOK
    OBVIOUS
  <1>1. /\ c.at \in ScanSteps /\ c.todo \subseteq Occurrences
        /\ c.listed \subseteq Occurrences
    BY DEF TransferTypes, Retaining, TransferScans
  <1>2. /\ d.at \in 0 .. 7 /\ d.path \in Paths /\ d.quiet \in BOOLEAN
        /\ d.got \in State!Tables
    BY DEF TransferTypes, TransferExports
  <1>3. /\ e.at \in 0 .. 8 /\ e.stream \in State!Tables /\ e.alone \in BOOLEAN
        /\ e.outcome \in {"none", "refused", "constraint", "restored"}
    BY DEF TransferTypes, TransferImports
  <1>4. c.at \in {"idle", "sources", "session", "external", "snapshot",
                  "revision", "checkpoint", "occurrences gone", "sources gone"}
    BY <1>1 DEF ScanSteps, RetainSteps
  <1>5. QED
    BY <1>1, <1>2, <1>3, <1>4 DEF TransferTypes, State!TypeOK

-----------------------------------------------------------------------------
(* show and read, and all parts together.                                  *)

LEMMA ShowIsTyped == ShowInv => Selecting!TypeOK
  <1> SUFFICES ASSUME ShowInv
               PROVE  Selecting!TypeOK
    OBVIOUS
  <1>1. a \subseteq Known /\ b \in ListStates /\ d \in ShowStates
    BY DEF ShowInv
  <1>2. c.session \in Known \cup {Selecting!Nobody} /\ c.among \subseteq Known
    BY DEF ShowInv, PrintedRow, Selecting!NothingPrinted
  <1>3. /\ b.at \in {"idle", "collect"} /\ b.harnesses \subseteq Registered
        /\ b.collected \subseteq Known
    BY <1>1 DEF ListStates
  <1>4. /\ d.at \in {"idle", "collect", "done"} /\ d.seen \subseteq Known
        /\ d.outcome \in {"none", "shown", "ambiguous", "missing"}
        /\ d.session \in Known \cup {Selecting!Nobody}
    BY <1>1 DEF ShowStates
  <1>5. QED
    BY <1>1, <1>2, <1>3, <1>4 DEF Selecting!TypeOK

LEMMA RelationsAreTyped == RelationsInv => Relations!TypeOK
  <1> SUFFICES ASSUME RelationsInv
               PROVE  Relations!TypeOK
    OBVIOUS
  <1>1. /\ a \in Relations!Harnesses /\ b \in Readable /\ c \in 0 .. Len(b)
        /\ AtPlaces(d) /\ AtPlaces(e)
    BY DEF RelationsInv
  <1>2. f \in Seq(PairStates) /\ g \in Seq((1 .. Len(b)) \X (1 .. Len(b)))
    BY DEF RelationsInv, PairsOfFirst, RepliesOfFirst
  <1>3. \A n \in DOMAIN f : /\ f[n].call \in Relations!Places
                            /\ f[n].result \in Relations!Places
    <2>1. \A n \in DOMAIN f : f[n] \in PairStates
      BY <1>2
    <2>2. QED
      BY <2>1 DEF PairStates
  <1>4. DOMAIN b = 1 .. Len(b)
    BY <1>1, CommandsAssumption DEF Relations!ConstantsOK
  <1>5. \A n \in DOMAIN g : g[n] \in Relations!Positions \X Relations!Positions
    BY <1>2, <1>4 DEF Relations!Positions
  <1>6. QED
    BY <1>1, <1>3, <1>5 DEF Relations!TypeOK, AtPlaces

\* What was shown of the part that runs, and its types.
Upheld ==
    /\ part = "state" => TransferInv
    /\ part = "list" => ListingInv
    /\ part = "scan" => ReadingInv
    /\ part = "read" => RelationsInv
    /\ part = "show" => ShowInv
    /\ part = "completion" => InstallInv
    /\ part = "list --current" => CurrentInv
Typed ==
    /\ part = "state" => TransferTypes
    /\ part = "init" => InitTypes
    /\ part = "list" => ListingTypes
    /\ part = "scan" => ReadingTypes
    /\ part = "completion" => InstallTypes
    /\ part = "list --current" => CurrentTypes

LEMMA TypesStay ==
    ASSUME Typed, Upheld', UNCHANGED vars
    PROVE  Typed'
  <1>1. /\ part' = part /\ a' = a /\ b' = b /\ c' = c /\ d' = d /\ e' = e
        /\ f' = f /\ g' = g /\ h' = h /\ i' = i /\ j' = j
    BY DEF vars
  <1>2. part = "state" => TransferTypes'
    BY <1>1 DEF Typed, Upheld, TransferTypes, Retaining
  <1>3. part = "init" => InitTypes'
    BY <1>1 DEF Typed, InitTypes, InitInv
  <1>4. part = "list" => ListingTypes'
    BY <1>1 DEF Typed, Upheld, ListingTypes, Seen, NoNewer, Referred
  <1>5. part = "scan" => ReadingTypes'
    BY <1>1 DEF Typed, Upheld, ReadingTypes
  <1>6. part = "completion" => InstallTypes'
    BY <1>1 DEF Typed, Upheld, InstallTypes
  <1>7. part = "list --current" => CurrentTypes'
    BY <1>1 DEF Typed, Upheld, CurrentTypes
  <1>8. QED
    BY <1>1, <1>2, <1>3, <1>4, <1>5, <1>6, <1>7 DEF Typed

LEMMA TypesStep ==
    ASSUME Typed, Next
    PROVE  Typed'
  <1>1. part' = part
    BY DEF Next
  <1>2. /\ part = "state" => State!Next
        /\ part = "init" => Maintenance!Next
        /\ part = "list" => Listing!Next
        /\ part = "scan" => Reading!Next
        /\ part = "completion" => Completion!Next
        /\ part = "list --current" => Current!Next
    BY DEF Next, RunState, RunInit, RunList, RunScan, RunRead, RunShow,
           RunCompletion, RunCurrent
  <1>3. QED
    BY <1>1, <1>2, TransferTypesStep, InitTypesStep, ListingTypesStep,
       ReadingTypesStep, InstallTypesStep, CurrentTypesStep DEF Typed

\* The variables have the types of the part that runs, for every value of the
\* constants: every counter, length, version, second and position within its
\* bound, every table, row, snapshot, identity and claim among those there may be.
THEOREM CommandsAreTyped == Spec => []CommandsTypeOK
  <1>1. Init => Typed
    BY TransferTypesBegin, InitTypesBegin, ListingTypesBegin, ReadingTypesBegin,
       InstallTypesBegin, CurrentTypesBegin DEF Init, Typed
  <1>2. Typed /\ Upheld' /\ [Next]_vars => Typed'
    BY TypesStay, TypesStep
  <1>3. Typed /\ Upheld => CommandsTypeOK
    BY TransferIsTyped, InitIsTyped, ListingIsTyped, ReadingIsTyped,
       RelationsAreTyped, ShowIsTyped, InstallIsTyped, CurrentIsTyped
       DEF Typed, Upheld, CommandsTypeOK
  <1>4. Spec => []Upheld
    <2>1. /\ part = "state" => TransferInv
          /\ part = "list" => ListingInv
          /\ part = "scan" => ReadingInv
          /\ part = "read" => RelationsInv
          /\ part = "show" => ShowInv
          /\ part = "completion" => InstallInv
          /\ part = "list --current" => CurrentInv
          => Upheld
      BY DEF Upheld
    <2>2. QED
      BY <2>1, TransferAlways, ListingAlways, ReadingAlways, RelationsAlways,
         ShowAlways, InstallAlways, CurrentAlways, PTL
  <1>5. QED
    BY <1>1, <1>2, <1>3, <1>4, PTL DEF Spec

=============================================================================
