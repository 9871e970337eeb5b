-------------------------- MODULE MCSourceReading --------------------------
(* A small instance of SourceReading for TLC.                              *)
EXTENDS SourceReading

\* Two symbols, of which the first is a value, and begins a longer one.
SomeValues == {<<1>>, <<1, 2>>}
SomeStarts == {<<>>, <<1>>, <<1, 0>>, <<1, 2, 0>>}

\* Two blocks that decode to the same record, one to another, and damage.
One == [record |-> 1, form |-> 1]
OneAgain == [record |-> 1, form |-> 2]
Two == [record |-> 2, form |-> 1]
Damaged == [record |-> 0, form |-> 1]
SomeBlocks == {One, OneAgain, Two, Damaged}
SomeArchives == {<<One, Two>>, <<OneAgain, Two>>, <<Two, Two>>, <<One, Damaged>>,
                 <<One>>}
=============================================================================
