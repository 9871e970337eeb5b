---------------------------- MODULE MCSearchGate ----------------------------
(* Small instances of SearchGate for TLC: one search beside one scan.      *)
EXTENDS SearchGate, TLC
CONSTANTS q1, s1, o1, o2

OneHarness == [o \in Occs |-> 1]
TwoHarnesses == (o1 :> 1) @@ (o2 :> 2)
=============================================================================
