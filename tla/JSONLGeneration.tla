-------------------------- MODULE JSONLGeneration --------------------------
(***************************************************************************)
(* Reading a JSONL transcript that other programs write meanwhile          *)
(* (internal/sourceio/generation.go).  Opening fixes the size of the file  *)
(* and indexes its records in one pass; Next reads each record again and   *)
(* compares it with the index; a consumer that comes back with the resume  *)
(* token of an earlier generation goes on behind what it has confirmed, or *)
(* starts over.                                                            *)
(*                                                                         *)
(* A byte of the model stands for any stretch of bytes a read may return;  *)
(* a digest is the bytes it is the digest of.  Lines are numbered like     *)
(* records and left out.                                                   *)
(***************************************************************************)
EXTENDS Integers, Sequences, FiniteSets

CONSTANTS
    Symbols,   \* bytes other than the newline
    Newline,
    Values,    \* the sequences of symbols that are one JSON value
    MaxBytes,  \* the record size policy
    Starts,    \* contents a file begins with or is replaced by
    Inodes,    \* file identities
    Modes,     \* tail modes in use, subset of {"growing", "final"}
    MaxSize,   \* bound: bytes of a file
    MaxWrites, \* bound: changes of the file
    MaxOpens   \* bound: openings

Bytes == Symbols \cup {Newline}

ASSUME ReaderAssumption ==
    /\ Newline \notin Symbols
    /\ Values \subseteq Seq(Symbols)
    /\ <<>> \notin Values
    /\ MaxBytes \in Nat
    /\ Starts \subseteq Seq(Bytes)
    /\ 0 \notin Inodes
    /\ Modes \subseteq {"growing", "final"}
    /\ MaxSize \in Nat /\ MaxWrites \in Nat /\ MaxOpens \in Nat

VARIABLES
    content,   \* the bytes of each file
    path,      \* the file the path names, 0 when it names none
    writes,    \* changes so far
    appended,  \* history: every change so far was an append
    phase,     \* where the reader is
    outcome,   \* what became of the last opening
    mode,      \* its tail mode
    handle,    \* the opened file, 0 when none is
    size,      \* the size it had then
    data,      \* the bytes the indexing pass has read
    records,   \* the index: start and bytes of each record
    next,      \* the record Next returns
    resume,    \* the token the opening was given
    token,     \* the token the consumer holds
    delivered, \* the records the consumer holds
    opens      \* openings so far

disk == <<content, path, writes, appended>>
generation == <<mode, handle, size, data, records, resume>>
vars == <<disk, generation, phase, outcome, next, token, delivered, opens>>

-----------------------------------------------------------------------------
\* A resume token: the generation it was taken from, by identity and revision,
\* and the confirmed cursor, by the prefix it covers and the next record.
NoToken == [identity |-> 0, revision |-> <<>>, prefix |-> <<>>, next |-> 0]
Tokens == [identity : Inodes \cup {0}, revision : Seq(Bytes),
           prefix : Seq(Bytes), next : Nat]

Records == [start : Nat, raw : Seq(Bytes)]
Phases == {"closed", "indexing", "open", "changed", "exhausted"}
Outcomes == {"none", "opened", "missing", "disappeared", "interrupted", "short",
             "malformed", "refused"}

TypeOK ==
    /\ content \in [Inodes -> Seq(Bytes)]
    /\ path \in Inodes \cup {0}
    /\ writes \in Nat
    /\ appended \in BOOLEAN
    /\ phase \in Phases
    /\ outcome \in Outcomes
    /\ mode \in {"growing", "final"}
    /\ handle \in Inodes \cup {0}
    /\ size \in Nat
    /\ data \in Seq(Bytes)
    /\ records \in Seq(Records)
    /\ next \in Nat
    /\ resume \in Tokens
    /\ token \in Tokens
    /\ delivered \in Seq(Seq(Bytes))
    /\ opens \in Nat

Init ==
    /\ path \in Inodes
    /\ \E start \in Starts :
          content = [i \in Inodes |-> IF i = path THEN start ELSE <<>>]
    /\ writes = 0
    /\ appended = TRUE
    /\ phase = "closed"
    /\ outcome = "none"
    /\ mode = "growing"
    /\ handle = 0
    /\ size = 0
    /\ data = <<>>
    /\ records = <<>>
    /\ next = 1
    /\ resume = NoToken
    /\ token = NoToken
    /\ delivered = <<>>
    /\ opens = 0

-----------------------------------------------------------------------------
(* Records and their boundaries.                                           *)

EndOf(record) == record.start + Len(record.raw)
\* The end of the first k records of an index.
EndAfter(index, k) == IF k = 0 THEN 0 ELSE EndOf(index[k])

\* What has been read behind the last record.
Candidate == SubSeq(data, EndAfter(records, Len(records)) + 1, Len(data))

\* validateJSONRecord and enforceRecordSize.
Acceptable(value) == value \in Values /\ Len(value) <= MaxBytes

Indexed(raw) == Append(records, [start |-> EndAfter(records, Len(records)),
                                 raw |-> raw])

\* The bytes the file holds now where the index has raw.
Holds(start, raw) ==
    /\ start + Len(raw) <= Len(content[handle])
    /\ SubSeq(content[handle], start + 1, start + Len(raw)) = raw

Prefix(n) == SubSeq(data, 1, n)

-----------------------------------------------------------------------------
(* Opening.                                                                *)

Fail(why) ==
    /\ phase' = "closed"
    /\ outcome' = why
    /\ handle' = 0
    /\ data' = <<>>
    /\ records' = <<>>
    /\ size' = 0
    /\ resume' = NoToken
    /\ next' = 1
    /\ UNCHANGED <<disk, mode, token, delivered, opens>>

\* OpenJSONLGeneration up to the first read.  A missing file is an error, or a
\* disappearance when the consumer resumes; a consumer may also drop its token.
Open(tailMode, given) ==
    /\ phase = "closed"
    /\ opens < MaxOpens
    /\ opens' = opens + 1
    /\ given \in {token, NoToken}
    /\ mode' = tailMode
    /\ IF path = 0
       THEN /\ outcome' = IF given = NoToken THEN "missing" ELSE "disappeared"
            /\ UNCHANGED <<phase, handle, size, resume>>
       ELSE /\ phase' = "indexing"
            /\ handle' = path
            /\ size' = Len(content[path])
            /\ resume' = given
            /\ UNCHANGED outcome
    /\ UNCHANGED <<disk, data, records, next, token, delivered>>

\* One read of the indexing pass.  A newline ends a record.
IndexFragment ==
    /\ phase = "indexing"
    /\ Len(data) < size
    /\ Len(data) < Len(content[handle])
    /\ LET byte == content[handle][Len(data) + 1] IN
       IF byte = Newline /\ ~Acceptable(Candidate)
       THEN Fail("malformed")
       ELSE /\ data' = Append(data, byte)
            /\ records' = IF byte = Newline
                          THEN Indexed(Append(Candidate, Newline))
                          ELSE records
            /\ UNCHANGED <<disk, phase, outcome, mode, handle, size, next,
                           resume, token, delivered, opens>>

\* The file was truncated while it was indexed.
IndexShort ==
    /\ phase = "indexing"
    /\ Len(data) < size
    /\ Len(data) >= Len(content[handle])
    /\ Fail("short")

\* A record known to be too large before its end has been read.
IndexOverflow ==
    /\ phase = "indexing"
    /\ Len(Candidate) > MaxBytes
    /\ Fail("malformed")

\* A cancelled context, a read error or an observer's error.
IndexInterrupted ==
    /\ phase = "indexing"
    /\ Fail("interrupted")

\* The unterminated rest is one more record of a final file, and stays pending
\* in a growing one, where only its size is checked.
TailRejected ==
    /\ Candidate # <<>>
    /\ \/ Len(Candidate) > MaxBytes
       \/ mode = "final" /\ Candidate \notin Values
RecordsWithTail == IF Candidate = <<>> THEN records ELSE Indexed(Candidate)
FinalRecords ==
    IF mode = "final" /\ Candidate # <<>> THEN Indexed(Candidate) ELSE records

\* reconcile: the cursor is safe when the bytes it covers are unchanged.  The
\* kind of change it also reports decides nothing here.
ContinuesBySize == resume # NoToken /\ Len(resume.prefix) <= Len(data)
Continues ==
    /\ resume # NoToken
    /\ Len(resume.prefix) <= Len(data)
    /\ Prefix(Len(resume.prefix)) = resume.prefix

\* findResumeIndex: the record that starts at the confirmed offset, or the end
\* of the index when the offset is the end of the file or of its records.
BoundaryRecord(index, offset, k) ==
    k \in 1 .. Len(index) /\ index[k].start = offset
ResumesAt(index, offset, k) ==
    \/ k \in 1 .. Len(index) /\ index[k].start = offset
    \/ /\ k = Len(index) + 1
       /\ \A j \in 1 .. Len(index) : index[j].start < offset
       /\ offset \in {size, EndAfter(index, Len(index))}

\* The end of the pass: the tail, the reconciliation and the cursor.
IndexEnd ==
    LET index == FinalRecords
        offset == Len(resume.prefix) IN
    /\ phase = "indexing"
    /\ Len(data) = size
    /\ IF TailRejected THEN Fail("malformed")
       ELSE IF Continues /\ ~ResumesAt(index, offset, resume.next)
       THEN Fail("refused")
       ELSE /\ records' = index
            /\ phase' = "open"
            /\ outcome' = "opened"
            /\ next' = IF Continues THEN resume.next ELSE 1
            /\ delivered' = IF Continues THEN delivered ELSE <<>>
            /\ UNCHANGED <<disk, mode, handle, size, data, resume, token, opens>>

-----------------------------------------------------------------------------
(* Reading and closing.                                                    *)

\* readRecord: the record as it is on disk now must be the indexed one.
NextRecord ==
    /\ phase = "open"
    /\ next <= Len(records)
    /\ IF Holds(records[next].start, records[next].raw)
       THEN /\ next' = next + 1
            /\ delivered' = Append(delivered, records[next].raw)
            /\ UNCHANGED phase
       ELSE /\ phase' = "changed"
            /\ UNCHANGED <<next, delivered>>
    /\ UNCHANGED <<disk, generation, outcome, token, opens>>

\* verifyTail: so must the pending tail, before the end is reported.
TailIsLast ==
    /\ Holds(EndAfter(records, Len(records)), Candidate)
    /\ Len(content[handle]) = size
TailHolds == Holds(EndAfter(records, Len(records)), Candidate)
VerifyTail ==
    /\ phase = "open"
    /\ next > Len(records)
    /\ phase' = IF TailHolds THEN "exhausted" ELSE "changed"
    /\ UNCHANGED <<disk, generation, outcome, next, token, delivered, opens>>

\* The consumer takes the resume token, which a reported change carries too,
\* and closes the generation.
ZeroBasedToken ==
    [identity |-> handle, revision |-> data,
     prefix |-> Prefix(EndAfter(records, next - 1)), next |-> next - 2]
ResumeToken ==
    [identity |-> handle, revision |-> data,
     prefix |-> Prefix(EndAfter(records, next - 1)), next |-> next]
Close ==
    /\ phase \in {"open", "changed", "exhausted"}
    /\ token' = ResumeToken
    /\ phase' = "closed"
    /\ handle' = 0
    /\ data' = <<>>
    /\ records' = <<>>
    /\ size' = 0
    /\ resume' = NoToken
    /\ next' = 1
    /\ UNCHANGED <<disk, outcome, mode, delivered, opens>>

-----------------------------------------------------------------------------
(* The programs that write the file.                                       *)

Change(contents, isAppend) ==
    /\ writes < MaxWrites
    /\ writes' = writes + 1
    /\ content' = [content EXCEPT ![path] = contents]
    /\ appended' = (appended /\ isAppend)
    /\ UNCHANGED <<path, generation, phase, outcome, next, token, delivered,
                   opens>>

AppendByte ==
    /\ path # 0
    /\ Len(content[path]) < MaxSize
    /\ \E byte \in Bytes : Change(Append(content[path], byte), TRUE)
Overwrite ==
    /\ path # 0
    /\ \E i \in 1 .. Len(content[path]), byte \in Bytes :
          /\ byte # content[path][i]
          /\ Change([content[path] EXCEPT ![i] = byte], FALSE)
Truncate ==
    /\ path # 0
    /\ \E n \in 0 .. (Len(content[path]) - 1) :
          Change(SubSeq(content[path], 1, n), FALSE)

\* Another file takes the path, or none does.  The identity of a file nobody
\* has open any more may be given to the next one.
Replace ==
    /\ writes < MaxWrites
    /\ writes' = writes + 1
    /\ appended' = FALSE
    /\ \/ /\ path # 0
          /\ path' = 0
          /\ UNCHANGED content
       \/ \E i \in Inodes \ {path, handle}, start \in Starts :
            /\ path' = i
            /\ content' = [content EXCEPT ![i] = start]
    /\ UNCHANGED <<generation, phase, outcome, next, token, delivered, opens>>

Write == AppendByte \/ Overwrite \/ Truncate \/ Replace

Read ==
    \/ \E tailMode \in Modes, given \in {token, NoToken} : Open(tailMode, given)
    \/ IndexFragment \/ IndexShort \/ IndexOverflow \/ IndexInterrupted
    \/ IndexEnd
    \/ NextRecord \/ VerifyTail \/ Close

Next == Read \/ Write

Spec == Init /\ [][Next]_vars

-----------------------------------------------------------------------------
(* Properties.                                                             *)

Reading == phase \in {"open", "changed", "exhausted"}

\* Across any number of openings and resumptions the consumer holds the first
\* records of one version, each once and in order: the generation that is
\* open now would have returned exactly these before its next one.
ReadsOneVersion ==
    Reading => /\ next \in 1 .. (Len(records) + 1)
               /\ delivered = [k \in 1 .. (next - 1) |-> records[k].raw]

\* The end is reported only after everything has been: the records are the
\* stretches between the newlines of the indexed version, with the rest when
\* the file is final, and what is pending has no newline.
LineEnds == {i \in 1 .. Len(data) : data[i] = Newline}
ReadToTheEnd ==
    phase = "exhausted" =>
        /\ next = Len(records) + 1
        /\ {EndOf(records[k]) : k \in 1 .. Len(records)} =
              LineEnds \cup IF mode = "final" THEN {Len(data)} \ {0} ELSE {}
        /\ \A k \in 1 .. Len(records) :
              records[k].raw = SubSeq(data, records[k].start + 1,
                                      EndOf(records[k]))

\* A token is refused only when its last record had been accepted without a
\* newline and the line has grown since or is now read as pending: every other
\* cursor that survives the comparison is a record boundary with its number.
RefusedOnlyAfterFinalTail ==
    [][phase = "indexing" /\ phase' = "closed" /\ outcome' = "refused" =>
         /\ resume.prefix # <<>>
         /\ resume.prefix[Len(resume.prefix)] # Newline
         /\ mode = "growing" \/ size > Len(resume.prefix)]_vars

\* A transcript that is only appended to is followed: no reader is told of a
\* change or cut short, however often it comes back while the file grows, and
\* what it has confirmed is what the file begins with.
IsPrefixOf(s, t) == Len(s) <= Len(t) /\ s = SubSeq(t, 1, Len(s))
AppendsFollowed ==
    appended =>
        /\ phase # "changed"
        /\ outcome # "short"
        /\ Reading => IsPrefixOf(Prefix(EndAfter(records, next - 1)),
                                 content[path])
=============================================================================
