------------------------------ MODULE Selection ------------------------------
(***************************************************************************)
(* The session IDs list prints and show or export resolves                 *)
(* (internal/cli/table.go, reader.go): a table has abbreviated IDs, and a  *)
(* later command resolves one of them against what it lists itself, while  *)
(* the harnesses add and remove sessions.                                  *)
(*                                                                         *)
(* An ID is a kind and a digest; it is derived from the occurrence, so that *)
(* no two sessions have the same.  Its full form begins with Colon, which  *)
(* no digest has (the kind holds letters that are no hexadecimal digits).  *)
(***************************************************************************)
EXTENDS Integers, Sequences, FiniteSets, SequencesExt

CONSTANTS
    Harnesses,  \* in the order they are registered: numbers
    Ids,        \* the sessions there may be: [harness, digest]
    MinDigits,  \* minimumIDDigits
    MaxChanges  \* bound of the sessions that appear or disappear

VARIABLES
    sessions, \* the sessions there are
    list,     \* the list command: its harnesses, how far it is, what it collected
    printed,  \* a row of its table: the session, its printed ID, all it collected
    show,     \* the show command: how far it is, what it saw, its outcome
    changes

vars == <<sessions, list, printed, show, changes>>

Colon == 16
Digit == 0 .. 15

\* IDs are told apart by digests of one length (sourceio.DerivedID: SHA-256).
ConstantsOK ==
    /\ Harnesses \subseteq Nat \ {0} /\ MinDigits \in Nat
    /\ Ids \subseteq [harness : Harnesses, digest : Seq(Digit)] /\ IsFiniteSet(Ids)
    /\ \A s, t \in Ids : /\ Len(s.digest) = Len(t.digest)
                         /\ s.digest = t.digest => s = t

Full(s) == <<Colon>> \o s.digest
Nobody == [harness |-> 0, digest |-> <<>>]
NothingPrinted == [session |-> Nobody, id |-> <<>>, among |-> {}]

TypeOK ==
    /\ sessions \subseteq Ids
    /\ list.harnesses \subseteq Harnesses /\ list.at \in {"idle", "collect"}
    /\ list.collected \subseteq Ids
    /\ printed.session \in Ids \cup {Nobody} /\ printed.among \subseteq Ids
    /\ show.at \in {"idle", "collect", "done"}
    /\ show.seen \subseteq Ids
    /\ show.outcome \in {"none", "shown", "ambiguous", "missing"}
    /\ show.session \in Ids \cup {Nobody}

IdleList == [at |-> "idle", harnesses |-> {}, collected |-> {}]
IdleShow == [at |-> "idle", harnesses |-> {}, seen |-> {}, outcome |-> "none",
             session |-> Nobody]
Init ==
    /\ sessions \in SUBSET Ids
    /\ list = IdleList
    /\ printed = NothingPrinted
    /\ show = IdleShow
    /\ changes = 0

First(harnesses) == CHOOSE h \in harnesses : \A g \in harnesses : h <= g
Of(harness) == {s \in sessions : s.harness = harness}

-----------------------------------------------------------------------------
(* newIDAbbreviator                                                        *)

Lexicographic(a, b) ==
    \/ IsStrictPrefix(a, b)
    \/ \E i \in 1 .. Len(a) : /\ i <= Len(b)
                              /\ \A j \in 1 .. i - 1 : a[j] = b[j]
                              /\ a[i] < b[i]
Common(a, b) == Len(LongestCommonPrefix({a, b}))

\* The full form and the digest of every ID.  In their order the nearest key of
\* another ID on either side shares the longest prefix.
Keys(ids) == {[value |-> Full(s), owner |-> s] : s \in ids} \cup
             {[value |-> s.digest, owner |-> s] : s \in ids}
Neighbours(keys, key) ==
    LET foreign == {k \in keys : k.owner # key.owner}
        below == {k \in foreign : Lexicographic(k.value, key.value)}
        nearest(side, Before(_, _)) ==
            {k \in side : \A l \in side : ~Before(k.value, l.value)} IN
    nearest(below, Lexicographic) \cup
    nearest(foreign \ below, LAMBDA a, b : Lexicographic(b, a))
NotBeyond(shared) == shared
Beyond(shared) == shared + 1
Digits(keys, key) ==
    LET least == IF MinDigits < Len(key.value) THEN MinDigits ELSE Len(key.value)
        needed == {least} \cup {Beyond(Common(key.value, k.value)) :
                                   k \in Neighbours(keys, key)}
    IN CHOOSE d \in needed : \A e \in needed : d >= e
Abbreviate(ids, s) ==
    LET digits == Digits(Keys(ids), [value |-> s.digest, owner |-> s]) IN
    IF digits <= Len(s.digest) THEN SubSeq(s.digest, 1, digits) ELSE Full(s)

-----------------------------------------------------------------------------
(* list --harness ...: collectSessions, one harness after the other, then  *)
(* the table.  The IDs are abbreviated among all that was collected, before *)
(* a time filter, which may hide any row.                                  *)

StartList ==
    /\ list.at = "idle"
    /\ printed = NothingPrinted
    /\ \E harnesses \in SUBSET Harnesses \ {{}} :
          list' = [at |-> "collect", harnesses |-> harnesses, collected |-> {}]
    /\ UNCHANGED <<sessions, printed, show, changes>>
CollectSessions ==
    /\ list.at = "collect"
    /\ list.harnesses # {}
    /\ LET harness == First(list.harnesses) IN
       list' = [list EXCEPT !.harnesses = @ \ {harness},
                            !.collected = @ \cup Of(harness)]
    /\ UNCHANGED <<sessions, printed, show, changes>>
PrintRow ==
    /\ list.at = "collect"
    /\ list.harnesses = {}
    /\ \E s \in list.collected :
          printed' = [session |-> s, id |-> Abbreviate(list.collected, s),
                      among |-> list.collected]
    /\ list' = IdleList
    /\ UNCHANGED <<sessions, show, changes>>
\* No sessions, or none within the time filter.
PrintNothing ==
    /\ list.at = "collect"
    /\ list.harnesses = {}
    /\ list' = IdleList
    /\ UNCHANGED <<sessions, printed, show, changes>>

-----------------------------------------------------------------------------
(* show and export: findSession, over all harnesses.                       *)

StartShow ==
    /\ printed # NothingPrinted
    /\ show.at = "idle"
    /\ show' = [IdleShow EXCEPT !.at = "collect", !.harnesses = Harnesses]
    /\ UNCHANGED <<sessions, list, printed, changes>>
ListSessions ==
    /\ show.at = "collect"
    /\ show.harnesses # {}
    /\ LET harness == First(show.harnesses) IN
       show' = [show EXCEPT !.harnesses = @ \ {harness},
                            !.seen = @ \cup Of(harness)]
    /\ UNCHANGED <<sessions, list, printed, changes>>

SelectorMatches(s, selector) == IsPrefix(selector, Full(s)) \/ IsPrefix(selector, s.digest)
PreferExact(matches, selector) ==
    LET exact == {s \in matches : Full(s) = selector} IN
    IF exact = {} THEN matches ELSE exact
Matches == PreferExact({s \in show.seen : SelectorMatches(s, printed.id)}, printed.id)

FindSession ==
    /\ show.at = "collect"
    /\ show.harnesses = {}
    /\ show' = [show EXCEPT
                   !.at = "done",
                   !.outcome = CASE Matches = {} -> "missing"
                                 [] Cardinality(Matches) = 1 -> "shown"
                                 [] OTHER -> "ambiguous",
                   !.session = IF Cardinality(Matches) = 1
                               THEN CHOOSE s \in Matches : TRUE ELSE Nobody]
    /\ UNCHANGED <<sessions, list, printed, changes>>

-----------------------------------------------------------------------------
\* The harnesses, at any time.
ChangeSessions ==
    /\ changes < MaxChanges
    /\ changes' = changes + 1
    /\ \E s \in Ids : sessions' = IF s \in sessions THEN sessions \ {s}
                                  ELSE sessions \cup {s}
    /\ UNCHANGED <<list, printed, show>>

Next == \/ StartList \/ CollectSessions \/ PrintRow \/ PrintNothing
        \/ StartShow \/ ListSessions \/ FindSession \/ ChangeSessions

Spec == Init /\ [][Next]_vars

-----------------------------------------------------------------------------
\* A printed ID shows its session, if that is still there, or is reported as
\* ambiguous, and then only because of a session the table did not know: of
\* another harness, or newer.  It never shows another one that was listed.
PrintedIdsSelect ==
    show.at = "done" =>
        /\ printed.session \in show.seen =>
              \/ show.outcome = "shown" /\ show.session = printed.session
              \/ /\ show.outcome = "ambiguous"
                 /\ \E s \in show.seen \ printed.among : SelectorMatches(s, printed.id)
        /\ show.session # printed.session => show.session \notin printed.among
=============================================================================
