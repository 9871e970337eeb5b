--------------------------- MODULE CatalogAnswer ---------------------------
(***************************************************************************)
(* What the catalog promises to those who search it.  A search answers     *)
(* from one generation: an immutable set of rows, at most one for each     *)
(* transcript, each derived from evidence that has been retained, which is *)
(* replaced as a whole by a newer generation and never changes otherwise.  *)
(* Nothing here says how a generation is built, nor that the scan that     *)
(* builds it may fail at any point: a failed scan does not show at all.    *)
(***************************************************************************)
EXTENDS Integers

CONSTANT Rows  \* records with a field rev, the revision a row is derived from

VARIABLES
    id,        \* the generation that answers, 0 before the first
    complete,  \* whether it covers every source
    rows,      \* the rows it presents
    evidence   \* the revisions retained so far

answer == <<id, complete, rows>>

Presentable(set) ==
    /\ set \subseteq Rows
    /\ \A d, e \in set : d.rev.occ = e.rev.occ => d = e

Init == id = 0 /\ complete = FALSE /\ rows = {} /\ evidence = {}

\* Evidence is only ever added, and changes no answer.
Retain == evidence \subseteq evidence' /\ UNCHANGED answer

\* A newer generation replaces the answer.
Replace ==
    /\ id' > id
    /\ complete' \in BOOLEAN
    /\ Presentable(rows')
    /\ \A d \in rows' : d.rev \in evidence
    /\ UNCHANGED evidence

Spec == Init /\ [][Retain \/ Replace]_<<answer, evidence>>
=============================================================================
