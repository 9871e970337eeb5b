--------------------------- MODULE SourceReading ---------------------------
(* A transcript as an adapter opens it (openGeneration of adapters/codex): *)
(* plain ones are read as a JSONLGeneration, compressed ones as a          *)
(* DecodedGeneration.  The file is one or the other.                       *)
EXTENDS JSONLGeneration

CONSTANTS Blocks, Archives

ASSUME ArchivesAssumption == Archives \subseteq Seq(Blocks)

VARIABLES
    compressed, \* what kind of file it is
    identity, first, second

decodedOnly == <<identity, first, second>>
sourceVars == <<vars, compressed, decodedOnly>>

Decoded == INSTANCE DecodedGeneration

SourceTypeOK ==
    IF compressed THEN Decoded!TypeOK ELSE TypeOK

SourceInit ==
    /\ identity = 0 /\ first = <<>> /\ second = <<>>
    /\ \/ compressed = FALSE /\ Init
       \/ /\ compressed = TRUE
          /\ Decoded!Init
          /\ appended = FALSE /\ outcome = "none" /\ mode = "final"
          /\ data = <<>> /\ records = <<>> /\ next = 1
          /\ resume = NoToken /\ token = NoToken /\ opens = 0

Plain == ~compressed /\ Next /\ UNCHANGED <<compressed, decodedOnly>>
Compressed ==
    /\ compressed
    /\ Decoded!Next
    /\ UNCHANGED <<compressed, appended, outcome, mode, data, records, next,
                   resume, token, opens>>

SourceNext == Plain \/ Compressed
SourceSpec == SourceInit /\ [][SourceNext]_sourceVars

\* The properties of both kinds of files, each over its own.
PlainReadsOneVersion == ~compressed => ReadsOneVersion
PlainReadToTheEnd == ~compressed => ReadToTheEnd
PlainAppendsFollowed == ~compressed => AppendsFollowed
DecodedReadsOneVersion == compressed => Decoded!ReadsOneVersion
DecodedEndIsVerified == compressed => Decoded!EndIsVerified
=============================================================================
