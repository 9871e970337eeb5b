------------------------- MODULE DecodedGeneration -------------------------
(***************************************************************************)
(* Reading a compressed transcript (internal/sourceio/decoded.go).  It has *)
(* no byte ranges to read again, so a second pass decodes the whole file   *)
(* anew, returns the records that equal those of the first pass, and       *)
(* reports the end only when the compressed bytes were the same too.  The  *)
(* file is not held open between the passes.                               *)
(*                                                                         *)
(* The compressed file is a sequence of blocks; a block decodes to one     *)
(* record, in one of several forms, or does not decode (record 0).  It is  *)
(* read when its record is returned: a decoder that reads ahead returns    *)
(* what it would have, had the file changed later.                         *)
(***************************************************************************)
EXTENDS Integers, Sequences

CONSTANTS
    Blocks,    \* records with the fields record and form
    Archives,  \* contents a file begins with or is replaced by
    Inodes,
    MaxWrites  \* bound: changes of the file

VARIABLES
    content,   \* the blocks of each file
    path,      \* the file the path names, 0 when it names none
    writes,    \* changes so far
    phase,     \* where the reader is
    identity,  \* the identity of the file of the first pass
    handle,    \* the opened file, 0 when none is
    size,      \* the size it had in the first pass
    first,     \* the blocks the first pass has read
    second,    \* the blocks the second pass has read
    delivered  \* the records the consumer holds

disk == <<content, path, writes>>
vars == <<disk, phase, identity, handle, size, first, second, delivered>>

Phases == {"closed", "indexing", "open", "decoding", "failed", "exhausted"}

TypeOK ==
    /\ content \in [Inodes -> Seq(Blocks)]
    /\ path \in Inodes \cup {0}
    /\ writes \in Nat
    /\ phase \in Phases
    /\ identity \in Inodes \cup {0}
    /\ handle \in Inodes \cup {0}
    /\ size \in Nat
    /\ first \in Seq(Blocks)
    /\ second \in Seq(Blocks)
    /\ delivered \in Seq({b.record : b \in Blocks})

Init ==
    /\ path \in Inodes
    /\ \E start \in Archives :
          content = [i \in Inodes |-> IF i = path THEN start ELSE <<>>]
    /\ writes = 0
    /\ phase = "closed"
    /\ identity = 0
    /\ handle = 0
    /\ size = 0
    /\ first = <<>>
    /\ second = <<>>
    /\ delivered = <<>>

-----------------------------------------------------------------------------
\* A stream that ends before the size it was opened with, or a block that does
\* not decode, is an error of the decoder.
Readable(blocks) ==
    /\ Len(blocks) < Len(content[handle])
    /\ content[handle][Len(blocks) + 1].record # 0
Block(blocks) == content[handle][Len(blocks) + 1]

\* sameDecodedContainer, of an opened file and the one of the first pass.
SameContainer(file) == file = identity /\ Len(content[file]) = size

\* OpenDecodedJSONLGeneration: the first pass, which also fails on a missing
\* file, and its final look at the file.
Open ==
    /\ phase = "closed"
    /\ path # 0
    /\ phase' = "indexing"
    /\ identity' = path
    /\ handle' = path
    /\ size' = Len(content[path])
    /\ first' = <<>> /\ second' = <<>> /\ delivered' = <<>>
    /\ UNCHANGED disk

Fail(step) ==
    /\ phase' = step
    /\ handle' = 0
    /\ UNCHANGED <<disk, identity, size, first, second, delivered>>

ScanBlock ==
    /\ phase = "indexing"
    /\ Len(first) < size
    /\ IF Readable(first)
       THEN /\ first' = Append(first, Block(first))
            /\ UNCHANGED <<disk, phase, identity, handle, size, second,
                           delivered>>
       ELSE Fail("closed")

ScanEnd ==
    /\ phase = "indexing"
    /\ Len(first) = size
    /\ Fail(IF SameContainer(handle) THEN "open" ELSE "closed")

\* openSecondPass, at the first Next.
OpenSecondPass ==
    /\ phase = "open"
    /\ IF path # 0 /\ SameContainer(path)
       THEN /\ phase' = "decoding"
            /\ handle' = path
            /\ UNCHANGED <<disk, identity, size, first, second, delivered>>
       ELSE Fail("failed")

\* Next: the decoded record must be the one of the first pass.
AnyRecord(block) == TRUE
SameRecord(block) == block.record = first[Len(second) + 1].record
NextRecord ==
    /\ phase = "decoding"
    /\ Len(second) < size
    /\ IF Readable(second) /\ SameRecord(Block(second))
       THEN /\ second' = Append(second, Block(second))
            /\ delivered' = Append(delivered, Block(second).record)
            /\ UNCHANGED <<disk, phase, identity, handle, size, first>>
       ELSE Fail("failed")

\* finishSecondPass: the same file, of the same size, with the same digest.
SameFile == SameContainer(handle)
SamePasses == SameContainer(handle) /\ second = first
FinishSecondPass ==
    /\ phase = "decoding"
    /\ Len(second) = size
    /\ Fail(IF SamePasses THEN "exhausted" ELSE "failed")

\* A read error or, once a pass is under way, a cancelled context.
Interrupted ==
    \/ phase = "indexing" /\ Fail("closed")
    \/ phase \in {"open", "decoding"} /\ Fail("failed")

Close ==
    /\ phase \in {"open", "decoding", "failed", "exhausted"}
    /\ Fail("closed")

-----------------------------------------------------------------------------
Overwrite ==
    /\ path # 0
    /\ writes < MaxWrites
    /\ writes' = writes + 1
    /\ \E start \in Archives : content' = [content EXCEPT ![path] = start]
    /\ UNCHANGED <<path, phase, identity, handle, size, first, second,
                   delivered>>
Replace ==
    /\ writes < MaxWrites
    /\ writes' = writes + 1
    /\ \E i \in (Inodes \cup {0}) \ {path, handle} :
          /\ path' = i
          /\ IF i = 0 THEN UNCHANGED content
             ELSE \E start \in Archives : content' = [content EXCEPT ![i] = start]
    /\ UNCHANGED <<phase, identity, handle, size, first, second, delivered>>

Next ==
    \/ Open \/ ScanBlock \/ ScanEnd
    \/ OpenSecondPass \/ NextRecord \/ FinishSecondPass \/ Close
    \/ Interrupted \/ Overwrite \/ Replace

Spec == Init /\ [][Next]_vars

-----------------------------------------------------------------------------
\* Whatever is done to the file between and during the passes, also when its
\* identity is reused: the consumer holds the first records of the version the
\* first pass saw, whose digest is the revision it reports.
ReadsOneVersion ==
    phase \in {"open", "decoding", "failed", "exhausted"} =>
        /\ Len(delivered) <= Len(first)
        /\ delivered = [k \in 1 .. Len(delivered) |-> first[k].record]

\* The end is reported only when the compressed bytes of both passes are the
\* same, although other bytes may decode to the same records.
EndIsVerified ==
    phase = "exhausted" => second = first /\ Len(delivered) = Len(first)
=============================================================================
