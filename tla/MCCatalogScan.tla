--------------------------- MODULE MCCatalogScan ---------------------------
(* Small instances of CatalogScan for TLC.                                 *)
EXTENDS CatalogScan, TLC
CONSTANTS s1, s2, o1, o2

OneHarness == [o \in Occs |-> 1]
TwoHarnesses == (o1 :> 1) @@ (o2 :> 2)

\* Processes are interchangeable; so are occurrences of one harness.
Symmetry == Permutations(Scans) \cup Permutations(Occs)
ScanSymmetry == Permutations(Scans)
=============================================================================
