--------------------------- MODULE SessionReading ---------------------------
(***************************************************************************)
(* One session from the listing to its checkpoint: what an adapter reads   *)
(* to list it, the discovery revision it derives from that, and the later  *)
(* read whose records a scan retains under that revision                   *)
(* (adapters/{claude,codex,omp}, internal/cli/scan.go), while the harness  *)
(* goes on writing.                                                        *)
(*                                                                         *)
(* A transcript counts halves of records: what is complete is even.  Every *)
(* change gives a container a stat of its own.  An opened generation has   *)
(* the bytes of one instant (JSONLGeneration is about that).               *)
(***************************************************************************)
EXTENDS Integers, Sequences

CONSTANTS
    MaxLength,            \* bound of the transcript
    MaxChanges, MaxScans  \* bounds of the changes of the harness and of the scans

\* There is room for the record a transcript has at first.
ConstantsOK == MaxLength \in Nat \ {0, 1} /\ MaxChanges \in Nat

VARIABLES
    harness,    \* whose adapter it is: Codex has nothing beside a transcript
    transcript, \* its inode, stat and length
    beside,     \* the stat of Claude's sidecar or OMP's artifacts, 0: absent
    scan,       \* where the scan is, and what it has read
    checkpoint, \* what is retained, and the discovery revision it is under
    past,       \* history: what was there at each instant
    changes, scans

vars == <<harness, transcript, beside, scan, checkpoint, past, changes, scans>>

Transcripts == [inode : 0 .. MaxChanges, stat : 0 .. MaxChanges,
                length : 0 .. MaxLength]
Asides == 0 .. MaxChanges + 1
Snapshots == [transcript : Transcripts, beside : Asides]
Complete(t) == t.length - (t.length % 2)

\* Claude indexes the transcript and then takes its stat; OMP stamps, and then
\* opens; both have what is beside in one of two places of the order.
Listing == [claude |-> <<"list beside", "list transcript", "stat">>,
            codex  |-> <<"list transcript", "stat">>,
            omp    |-> <<"stat", "list beside", "list transcript">>]
Reading == [claude |-> <<"read beside", "read transcript", "emit beside">>,
            codex  |-> <<"read transcript">>,
            omp    |-> <<"read transcript", "read beside", "emit beside">>]
Steps == Listing[harness] \o <<"choose">> \o Reading[harness] \o <<"source state">>
Running(step) == scan.step > 0 /\ Steps[scan.step] = step

TypeOK ==
    /\ harness \in {"claude", "codex", "omp"}
    /\ transcript \in Transcripts
    /\ beside \in Asides
    /\ scan.step \in 0 .. Len(Steps)
    /\ scan.listed \in Snapshots /\ scan.got \in Snapshots
    /\ scan.dated \in 0 .. MaxLength
    /\ checkpoint.state \in {"none", "put", "reused"}
    /\ checkpoint.revision \in Snapshots /\ checkpoint.got \in Snapshots
    /\ checkpoint.dated \in 0 .. MaxLength /\ checkpoint.size \in 0 .. MaxLength
    /\ past \subseteq Snapshots

NoTranscript == [inode |-> 0, stat |-> 0, length |-> 0]
Nothing == [transcript |-> NoTranscript, beside |-> 0]
Idle == [step |-> 0, listed |-> Nothing, dated |-> 0, got |-> Nothing]
Init ==
    /\ harness \in {"claude", "codex", "omp"}
    /\ transcript = [inode |-> 0, stat |-> 0, length |-> 2]
    /\ beside \in IF harness = "codex" THEN {0} ELSE {0, 1}
    /\ scan = Idle
    /\ checkpoint = [state |-> "none", revision |-> Nothing, got |-> Nothing,
                     dated |-> 0, size |-> 0]
    /\ past = {[transcript |-> transcript, beside |-> beside]}
    /\ changes = 0 /\ scans = 0

Rest == UNCHANGED <<harness, transcript, beside, past, changes>>
Step(name, new) ==
    /\ Running(name)
    /\ scan' = [new EXCEPT !.step = @ + 1]
    /\ UNCHANGED <<checkpoint, scans>>
    /\ Rest

-----------------------------------------------------------------------------
(* The listing.                                                            *)

StartScan ==
    /\ scan.step = 0
    /\ scans < MaxScans
    /\ scans' = scans + 1
    /\ scan' = [Idle EXCEPT !.step = 1]
    /\ UNCHANGED checkpoint
    /\ Rest
ListBeside == Step("list beside", [scan EXCEPT !.listed.beside = beside])
\* Titles and dates are those of the records indexed here.
ListTranscript ==
    Step("list transcript", [scan EXCEPT !.dated = Complete(transcript),
                                         !.got.transcript = transcript])
\* Codex: PhysicalMetadata, the stat of the file the generation was opened from.
PathMetadata == transcript
Metadata == IF harness = "codex" THEN scan.got.transcript ELSE transcript
StatTranscript ==
    Step("stat", [scan EXCEPT !.listed.transcript = Metadata])

-----------------------------------------------------------------------------
(* retainSession: the retained revision serves as long as the discovery    *)
(* revision is that of the checkpoint, and its derived rows are found.     *)

Choose ==
    /\ Running("choose")
    /\ \/ /\ checkpoint.state # "none" /\ checkpoint.revision = scan.listed
          /\ checkpoint' = [checkpoint EXCEPT !.state = "reused"]
          /\ scan' = [scan EXCEPT !.step = 0]
       \/ /\ scan' = [scan EXCEPT !.step = @ + 1]
          /\ checkpoint' = [checkpoint EXCEPT !.state = IF @ = "none" THEN @ ELSE "put"]
    /\ UNCHANGED scans
    /\ Rest

\* Read: the records are those of a generation opened now, whatever was listed.
ReadTranscript == Step("read transcript", [scan EXCEPT !.got.transcript = transcript])
ReadBeside == Step("read beside", [scan EXCEPT !.got.beside = beside])
\* What is beside the transcript is emitted only if it still is what was
\* acquired; what was absent is not looked for again.
AlwaysEmits == TRUE
Emits == scan.got.beside \in {0, beside}
EmitBeside == Emits /\ Step("emit beside", scan)
EmissionFails ==
    /\ Running("emit beside") /\ ~Emits
    /\ scan' = Idle
    /\ UNCHANGED <<checkpoint, scans>>
    /\ Rest

\* sourceState, and the checkpoint under the revision of the listing.  The size
\* is the size now.
LateRevision == [transcript |-> transcript, beside |-> beside]
CheckpointRevision == scan.listed
PutCheckpoint ==
    /\ Running("source state")
    /\ checkpoint' = [state |-> "put", revision |-> CheckpointRevision,
                      got |-> scan.got, dated |-> scan.dated,
                      size |-> transcript.length]
    /\ scan' = Idle
    /\ UNCHANGED scans
    /\ Rest

\* A kill, or any error: what was retained stays.
ScanFails ==
    /\ scan.step # 0
    /\ scan' = Idle
    /\ UNCHANGED <<checkpoint, scans>>
    /\ Rest

-----------------------------------------------------------------------------
(* The harness appends, replaces a transcript, or writes beside it.        *)

Change(newTranscript, newBeside) ==
    /\ changes < MaxChanges
    /\ changes' = changes + 1
    /\ transcript' = newTranscript /\ beside' = newBeside
    /\ past' = past \cup {[transcript |-> newTranscript, beside |-> newBeside]}
    /\ UNCHANGED <<harness, scan, checkpoint, scans>>
AppendRecords == \E n \in 1 .. 2 :
    /\ transcript.length + n <= MaxLength
    /\ Change([transcript EXCEPT !.length = @ + n, !.stat = changes + 1], beside)
Replace == \E n \in {2, transcript.length} :
    Change([inode |-> changes + 1, stat |-> changes + 1, length |-> n], beside)
ChangeBeside ==
    /\ harness # "codex"
    /\ \E new \in {0, changes + 2} : new # beside /\ Change(transcript, new)

Next == \/ StartScan \/ ListBeside \/ ListTranscript \/ StatTranscript \/ Choose
        \/ ReadTranscript \/ ReadBeside \/ EmitBeside \/ EmissionFails
        \/ PutCheckpoint \/ ScanFails
        \/ AppendRecords \/ Replace \/ ChangeBeside

Spec == Init /\ [][Next]_vars

-----------------------------------------------------------------------------
\* A session is reused only while its retained records, and its tail, are those
\* of the containers that were listed, although they were read after the
\* listing they are retained under.  (What was absent, came, was read and went
\* again leaves no trace in a discovery revision.)
ReusedIsCurrent ==
    checkpoint.state = "reused" =>
        /\ checkpoint.got.transcript = checkpoint.revision.transcript
        /\ checkpoint.got.beside = checkpoint.revision.beside
              \/ checkpoint.revision.beside = 0
        /\ checkpoint.size = checkpoint.revision.transcript.length

\* So are its title and its dates, with the adapters that take the stat before
\* they read.  (Claude's takes it after: see the README.)
DatesCurrent ==
    checkpoint.state = "reused" /\ harness # "claude" =>
        checkpoint.dated = Complete(checkpoint.revision.transcript)

\* The retained records and what is retained from beside them were there
\* together once: with Claude always, with OMP as long as nobody replaces the
\* transcript (it acquires after it opened, and an open file outlives its path).
ReplacedSince(t) == \E was \in past : was.transcript.inode > t.inode
RetainedTogether ==
    LET got == checkpoint.got IN
    /\ checkpoint.state # "none" /\ got.beside # 0
    /\ harness = "omp" => ~ReplacedSince(got.transcript)
    => \E was \in past :
          /\ was.beside = got.beside
          /\ was.transcript.inode = got.transcript.inode
          /\ was.transcript.length >= Complete(got.transcript)
=============================================================================
