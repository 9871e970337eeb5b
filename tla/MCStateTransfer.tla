-------------------------- MODULE MCStateTransfer --------------------------
(* A small instance of StateTransfer for TLC.                              *)
EXTENDS StateTransfer

OneSource == [o \in Occurrences |-> 1]

\* One session that changes, and one that shares its snapshot.
SomeSessions == {[occurrence |-> 1, snapshot |-> 1, external |-> 2],
                 [occurrence |-> 2, snapshot |-> 1, external |-> 0]}
=============================================================================
