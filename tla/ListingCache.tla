---------------------------- MODULE ListingCache ----------------------------
(***************************************************************************)
(* The advisory cache of a listing (internal/readercache/readercache.go)   *)
(* as the Sessions of the adapters use it: processes that list the same    *)
(* source, harnesses that change its containers, one file they share.      *)
(*                                                                         *)
(* A container is its version, 0 when it is not there: every change gives  *)
(* it a size, a modification time or an inode it did not have before.      *)
(***************************************************************************)
EXTENDS Integers, FiniteSets

CONSTANTS
    Processes,   \* processes that list the sessions of the source
    Occurrences, \* transcripts, in the order they are discovered
    ParentOf,    \* the transcript an occurrence names, by path, as its parent
    MaxVersions, MaxListings \* bounds

ConstantsOK ==
    /\ Occurrences \subseteq Nat /\ IsFiniteSet(Occurrences)
    /\ ParentOf \in [Occurrences -> Occurrences]
    /\ MaxVersions \in Nat \ {0}

VARIABLES
    harness,   \* whose adapter it is: Codex has no container beside, OMP stamps twice
    container, \* per occurrence: the transcript, and what is beside it
    file,      \* the cache file
    proc,      \* per process: where it is, and its sourceCache
    listings,  \* how often a listing was started
    newest     \* history: the newest version of a transcript, and of what is beside

vars == <<harness, container, file, proc, listings, newest>>

Versions == 0 .. MaxVersions
Containers == [transcript : Versions, beside : Versions]
\* A listing record: the versions it was read from, and the native id of the
\* parent it names (the transcript's version stands for its header), or 0 for
\* a path.
Refs == [read : Containers, parent : Versions]
Entries == [stamp : Containers, ref : Refs]
Maps(f, S) == DOMAIN f \subseteq Occurrences /\ \A o \in DOMAIN f : f[o] \in S
Nothing == [o \in {} |-> 0]
Corrupt == [o \in {0} |-> "corrupt"]
NoContainer == [transcript |-> 0, beside |-> 0]

TypeOK ==
    /\ harness \in {"claude", "codex", "omp"}
    /\ container \in [Occurrences -> Containers]
    /\ file = Corrupt \/ Maps(file, Entries)
    /\ \A p \in Processes :
          /\ proc[p].at \in {"idle", "next", "beside", "read beside",
                             "read transcript", "flush"}
          /\ proc[p].todo \subseteq Occurrences
          /\ proc[p].stamp \in Containers /\ proc[p].got \in Containers
          /\ Maps(proc[p].entries, Entries)
          /\ Maps(proc[p].refs, Refs)
          /\ proc[p].touched \subseteq DOMAIN proc[p].entries
    /\ newest \in Containers

Idle == [at |-> "idle", todo |-> {}, stamp |-> NoContainer, got |-> NoContainer,
         refs |-> Nothing, began |-> [o \in Occurrences |-> NoContainer],
         loaded |-> FALSE, dirty |-> FALSE, entries |-> Nothing, touched |-> {},
         flushed |-> FALSE, alone |-> TRUE]
Init ==
    /\ harness \in {"claude", "codex", "omp"}
    /\ container = [o \in Occurrences |->
                       [transcript |-> 1,
                        beside |-> IF harness = "codex" THEN 0 ELSE 1]]
    \* What is in the file does not depend on the adapter: one meets a corrupt one.
    /\ file \in IF harness = "codex" THEN {Nothing, Corrupt} ELSE {Nothing}
    /\ proc = [p \in Processes |-> Idle]
    /\ listings = 0
    /\ newest = [transcript |-> 1, beside |-> 1]

Set(f, x, y) == [z \in DOMAIN f \cup {x} |-> IF z = x THEN y ELSE f[z]]
Put(p, new) == proc' = [proc EXCEPT ![p] = new]
Rest == UNCHANGED <<harness, container, file, listings, newest>>
Current(p) == CHOOSE o \in proc[p].todo : \A q \in proc[p].todo : o <= q
Take(p, it, ref) ==
    [it EXCEPT !.at = "next", !.todo = @ \ {Current(p)}, !.stamp = NoContainer,
               !.got = NoContainer, !.refs = Set(@, Current(p), ref)]

-----------------------------------------------------------------------------
(* Sessions: discover, then each occurrence in order.                      *)

StartListing(p) ==
    /\ proc[p].at = "idle"
    /\ listings < MaxListings
    /\ listings' = listings + 1
    /\ Put(p, [Idle EXCEPT
                  !.at = "next", !.began = container,
                  !.todo = {o \in Occurrences : container[o].transcript # 0}])
    /\ UNCHANGED <<harness, container, file, newest>>

\* listingStamp: the transcript first.  OMP cannot stamp what is gone, and fails.
StampTranscript(p) ==
    /\ proc[p].at = "next" /\ proc[p].todo # {}
    /\ LET now == container[Current(p)].transcript IN
       IF now = 0 /\ harness = "omp" THEN Put(p, Idle)
       ELSE Put(p, [proc[p] EXCEPT !.at = "beside", !.stamp.transcript = now])
    /\ Rest

\* load: once, at the first use.  What cannot be read is replaced.
Load(it) ==
    IF it.loaded THEN it
    ELSE [it EXCEPT !.loaded = TRUE, !.alone = TRUE, !.dirty = (file = Corrupt),
                    !.entries = IF file = Corrupt THEN Nothing ELSE file]

\* Lookup answers an occurrence; else it is read.  Codex does not look up what
\* it could not stamp.
StampBeside(p) ==
    /\ proc[p].at = "beside"
    /\ LET o == Current(p)
           stamp == [proc[p].stamp EXCEPT !.beside = container[o].beside]
           it == IF harness = "codex" /\ stamp.transcript = 0 THEN proc[p]
                 ELSE Load(proc[p])
           hit == o \in DOMAIN it.entries /\ it.entries[o].stamp = stamp IN
       IF hit
       THEN Put(p, [Take(p, it, it.entries[o].ref) EXCEPT !.touched = @ \cup {o}])
       ELSE Put(p, [it EXCEPT !.at = IF harness = "codex" THEN "read transcript"
                                     ELSE "read beside",
                              !.stamp = stamp,
                              !.got = IF harness = "omp"
                                      THEN [NoContainer EXCEPT !.transcript =
                                               container[o].transcript]
                                      ELSE NoContainer])
    /\ Rest

\* Claude reads the sidecar before it reads the transcript; OMP has just
\* stamped the transcript again, and stamps what is beside it.
ReadBeside(p) ==
    /\ proc[p].at = "read beside"
    /\ Put(p, [proc[p] EXCEPT !.at = "read transcript",
                              !.got.beside = container[Current(p)].beside])
    /\ Rest

\* A transcript that is gone fails the command.  Retain keeps what was read
\* under the stamp taken before; OMP only if its two stamps agree.
RetainedLate(it, o, ref) ==
    [it EXCEPT !.entries = Set(@, o, [stamp |-> container[o], ref |-> ref]),
               !.touched = @ \cup {o}, !.dirty = TRUE]
Retained(it, o, ref) ==
    [it EXCEPT !.entries = Set(@, o, [stamp |-> it.stamp, ref |-> ref]),
               !.touched = @ \cup {o}, !.dirty = TRUE]
ReadTranscript(p) ==
    /\ proc[p].at = "read transcript"
    /\ LET o == Current(p)
           now == container[o].transcript
           ref == [read |-> [transcript |-> now, beside |-> proc[p].got.beside],
                   parent |-> 0]
           keeps == CASE harness = "omp" -> proc[p].got = proc[p].stamp
                      [] harness = "codex" -> proc[p].stamp.transcript # 0
                      [] OTHER -> TRUE
           it == IF keeps THEN Retained(proc[p], o, ref) ELSE proc[p] IN
       Put(p, IF now = 0 THEN Idle ELSE Take(p, it, ref))
    /\ Rest

\* resolveRelationships (OMP): a path becomes the native id of the transcript
\* listed there.  The cache has copies: what the listing changes in a record,
\* and what a caller changes, stays out of it.
Resolve(refs) ==
    [o \in DOMAIN refs |->
        IF refs[o].parent = 0 /\ ParentOf[o] \in DOMAIN refs /\ ParentOf[o] # o
        THEN [refs[o] EXCEPT !.parent = refs[ParentOf[o]].read.transcript]
        ELSE refs[o]]
NotCloned(entries, refs) ==
    [o \in DOMAIN entries |->
        IF o \in DOMAIN refs THEN [entries[o] EXCEPT !.ref = refs[o]]
        ELSE entries[o]]
Cloned(entries, refs) == entries
EndListing(p) ==
    /\ proc[p].at = "next" /\ proc[p].todo = {}
    /\ LET refs == IF harness = "omp" THEN Resolve(proc[p].refs)
                   ELSE proc[p].refs IN
       Put(p, [proc[p] EXCEPT !.at = "flush", !.refs = refs,
                              !.entries = Cloned(@, refs)])
    /\ Rest

\* flush, after the command: the whole file, by a rename.  It holds what was
\* listed, and is left alone when that is what it held.
OnlyClean(it) == ~it.dirty
Unchanged(it) == ~it.dirty /\ Cardinality(DOMAIN it.entries) = Cardinality(it.touched)
Flushed(it, new) ==
    IF it.alone THEN [Idle EXCEPT !.flushed = TRUE, !.entries = new,
                                  !.touched = it.touched]
    ELSE Idle
Overwritten(it) == IF it.at = "idle" THEN Idle ELSE [it EXCEPT !.alone = FALSE]
Flush(p) ==
    /\ proc[p].at = "flush"
    /\ LET it == proc[p]
           new == [o \in it.touched |-> it.entries[o]] IN
       IF ~it.loaded
       THEN Put(p, Idle) /\ UNCHANGED file
       ELSE IF Unchanged(it)
       THEN Put(p, Flushed(it, new)) /\ UNCHANGED file
       ELSE /\ file' = new
            /\ proc' = [q \in Processes |->
                           IF q = p THEN Flushed([it EXCEPT !.alone = TRUE], new)
                           ELSE Overwritten(proc[q])]
    /\ UNCHANGED <<harness, container, listings, newest>>

\* A kill, a failed command, or a file that cannot be written.
ListingFails(p) ==
    /\ proc[p].at # "idle"
    /\ Put(p, Idle)
    /\ Rest

-----------------------------------------------------------------------------
\* The harness writes, replaces or removes a container.
ChangeContainer(o) ==
    /\ \E part \in IF harness = "codex" THEN {"transcript"}
                   ELSE {"transcript", "beside"} :
          /\ newest[part] < MaxVersions
          /\ newest' = [newest EXCEPT ![part] = @ + 1]
          /\ container' = [container EXCEPT ![o][part] = newest[part] + 1]
    /\ UNCHANGED <<harness, file, proc, listings>>
RemoveTranscript(o) ==
    /\ container[o].transcript # 0
    /\ newest.transcript < MaxVersions
    /\ container' = [container EXCEPT ![o].transcript = 0]
    /\ UNCHANGED <<harness, file, proc, listings, newest>>

List(p) == \/ StartListing(p) \/ StampTranscript(p) \/ StampBeside(p)
           \/ ReadBeside(p) \/ ReadTranscript(p) \/ EndListing(p) \/ Flush(p)
           \/ ListingFails(p)
Next == \/ \E p \in Processes : List(p)
        \/ \E o \in Occurrences : ChangeContainer(o) \/ RemoveTranscript(o)

Spec == Init /\ [][Next]_vars

-----------------------------------------------------------------------------
\* A listing shows no session older than it was when the command began, whether
\* it was read or came from the cache, and whoever filled the cache.  (Claude's
\* adapter stamps a transcript that is gone, too: what was read under that stamp
\* was there again, and is found in the cache when it is gone once more.)
FoundAbsent(p, o) ==
    /\ harness = "claude" /\ o \in DOMAIN proc[p].entries
    /\ proc[p].entries[o].stamp.transcript = 0
ListingNotOlder ==
    \A p \in Processes : \A o \in DOMAIN proc[p].refs : FoundAbsent(p, o) \/
        /\ proc[p].refs[o].read.transcript >= proc[p].began[o].transcript
        /\ proc[p].refs[o].read.beside >= proc[p].began[o].beside

\* A parent hint that was resolved names the transcript of this listing.
HintsNameListed ==
    \A p \in Processes : proc[p].at = "flush" /\ harness = "omp" =>
        proc[p].refs = Resolve([o \in DOMAIN proc[p].refs |->
                                   [proc[p].refs[o] EXCEPT !.parent = 0]])

\* After the flush of a process the file has exactly what it listed, unless
\* another one wrote since it had read the file.
FlushedHoldsListed ==
    \A p \in Processes : proc[p].flushed => file = proc[p].entries
=============================================================================
