----------------------------- MODULE MCCommands -----------------------------
(* A small instance of every part of Commands for TLC.                     *)
EXTENDS Commands, TLC

OneSource == [o \in Occurrences |-> 1]
Chain == [o \in Occurrences |-> IF o = 2 THEN 1 ELSE o]

\* One session that changes, and one that shares its snapshot.
SomeRevisions == {[occurrence |-> 1, snapshot |-> 1, external |-> 2],
                  [occurrence |-> 2, snapshot |-> 1, external |-> 0]}

\* Transcripts of three records: of one or two tool ids, and of native ids.
Call(id) == [kind |-> "call", id |-> id, counted |-> TRUE]
Result(id) == [kind |-> "result", id |-> id, counted |-> TRUE]
SomeEvents == {<<>>, <<Call(1)>>, <<Result(1)>>, <<Result(2)>>,
               <<[Call(1) EXCEPT !.counted = FALSE]>>,
               <<Call(1), Result(1)>>, <<Result(1), Call(2)>>}
SomeTranscripts ==
    {[n \in 1 .. 3 |-> [id |-> n, parent |-> 0, events |-> events[n]]] :
        events \in [1 .. 3 -> SomeEvents]} \cup
    [1 .. 3 -> [id : 0 .. 2, parent : 0 .. 2, events : {<<>>}]]

SomeIds == {[harness |-> 1, digest |-> <<0, 0, 0>>],
            [harness |-> 1, digest |-> <<0, 0, 1>>],
            [harness |-> 1, digest |-> <<1, 1, 0>>],
            [harness |-> 2, digest |-> <<0, 1, 1>>],
            [harness |-> 2, digest |-> <<1, 0, 0>>]}

TwoOccurrences == {[id |-> 1, native |-> 1], [id |-> 2, native |-> 1]}

\* Four instants, two to a second: a PID starts twice in one, and in two.
Small ==
    [state |-> [scans |-> 1, exports |-> 2, imports |-> 1, resets |-> 1,
                edits |-> 1, atOnce |-> 2],
     list |-> [versions |-> 2, listings |-> 2],
     scan |-> [length |-> 4, changes |-> 3, scans |-> 2],
     show |-> [digits |-> 1, changes |-> 3],
     completion |-> [edits |-> 1, runs |-> 2],
     current |-> [perSecond |-> 2, time |-> 3, changes |-> 2]]

AnyOrder == Permutations(Processes)
=============================================================================
