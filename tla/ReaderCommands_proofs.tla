------------------------ MODULE ReaderCommands_proofs ------------------------
(***************************************************************************)
(* What list prints and show finds (Selection), and the relations a read   *)
(* emits (RecordRelations), as parts of Commands.                          *)
(***************************************************************************)
EXTENDS Commands_proofs

-----------------------------------------------------------------------------
(* Least, greatest and extreme elements.                                   *)

LEMMA MostOf ==
    ASSUME NEW S \in SUBSET Nat, S # {}, NEW n \in Nat, \A x \in S : x <= n
    PROVE  \E most \in S : \A x \in S : x <= most
  <1> DEFINE T == {n - x : x \in S}
  <1>1. T \in SUBSET Nat /\ T # {}
    <2>1. \A x \in S : n - x \in Nat
      OBVIOUS
    <2>2. QED
      BY <2>1
  <1>2. PICK l \in T : \A q \in T : l <= q
    BY <1>1, LeastOf
  <1>3. PICK most \in S : l = n - most
    BY <1>2
  <1>4. ASSUME NEW x \in S
        PROVE  x <= most
    <2>1. n - x \in T
      OBVIOUS
    <2>2. n - most <= n - x
      BY <1>2, <1>3, <2>1
    <2>3. x \in Nat /\ most \in Nat
      BY <1>3
    <2>4. QED
      BY <2>2, <2>3
  <1>5. QED
    BY <1>3, <1>4

LEMMA FiniteImage ==
    ASSUME NEW S, IsFiniteSet(S), NEW of
    PROVE  IsFiniteSet({of[x] : x \in S})
  <1> DEFINE T == {of[x] : x \in S}
             image == [x \in S |-> of[x]]
  <1>1. image \in Surjection(S, T)
    BY DEF Surjection
  <1>2. QED
    BY <1>1, FS_Surjection

\* In a finite set some element is before no other, whatever strict order it is.
LEMMA Extreme ==
    ASSUME NEW K, IsFiniteSet(K), K # {}, NEW R,
           \A x \in K : <<x, x>> \notin R,
           \A x, y, z \in K : <<x, y>> \in R /\ <<y, z>> \in R => <<x, z>> \in R
    PROVE  \E k \in K : \A l \in K : <<k, l>> \notin R
  <1> DEFINE Behind(k) == {l \in K : <<k, l>> \in R}
             Sizes == {Cardinality(Behind(k)) : k \in K}
  <1>1. \A k \in K : IsFiniteSet(Behind(k)) /\ Cardinality(Behind(k)) \in Nat
    <2>1. ASSUME NEW k \in K
          PROVE  IsFiniteSet(Behind(k)) /\ Cardinality(Behind(k)) \in Nat
      <3>1. Behind(k) \in SUBSET K
        OBVIOUS
      <3>2. IsFiniteSet(Behind(k))
        BY <3>1, FS_Subset
      <3>3. QED
        BY <3>2, FS_CardinalityType
    <2>2. QED
      BY <2>1
  <1>2. Sizes \in SUBSET Nat /\ Sizes # {}
    <2> HIDE DEF Behind
    <2>1. QED
      BY <1>1
  <1>3. PICK least \in Sizes : \A q \in Sizes : least <= q
    BY <1>2, LeastOf
  <1>4. PICK k \in K : least = Cardinality(Behind(k))
    BY <1>3
  <1>5. ASSUME NEW l \in K, <<k, l>> \in R
        PROVE  FALSE
    <2>1. Behind(l) \subseteq Behind(k)
      BY <1>5
    <2>2. l \in Behind(k) /\ l \notin Behind(l)
      BY <1>5
    <2>3. Cardinality(Behind(l)) <= Cardinality(Behind(k))
      BY <1>1, <2>1, FS_Subset
    <2>4. Cardinality(Behind(l)) # Cardinality(Behind(k))
      BY <1>1, <2>1, <2>2, FS_Subset
    <2>5. Cardinality(Behind(k)) <= Cardinality(Behind(l))
      <3>1. Cardinality(Behind(l)) \in Sizes
        BY <1>5
      <3>2. QED
        BY <1>3, <1>4, <3>1
    <2>6. QED
      BY <1>1, <2>3, <2>4, <2>5
  <1>6. QED
    BY <1>5

-----------------------------------------------------------------------------
(* Prefixes, and the order of the keys.                                    *)

LEMMA SameSequence ==
    ASSUME NEW s \in Seq(Nat), NEW t \in Seq(Nat), Len(s) = Len(t),
           \A k \in 1 .. Len(s) : s[k] = t[k]
    PROVE  s = t
  OBVIOUS

LEMMA PrefixIs ==
    ASSUME NEW s \in Seq(Nat), NEW t \in Seq(Nat)
    PROVE  Selecting!IsPrefix(s, t) <=>
              Len(s) <= Len(t) /\ \A k \in 1 .. Len(s) : s[k] = t[k]
  <1>1. Len(s) \in Nat /\ Len(t) \in Nat
    OBVIOUS
  <1>2. ASSUME Len(s) <= Len(t)
        PROVE  /\ SubSeq(s, 1, Len(s)) = [k \in 1 .. Len(s) |-> s[k]]
               /\ SubSeq(t, 1, Len(s)) = [k \in 1 .. Len(s) |-> t[k]]
    BY <1>1, <1>2
  <1>3. QED
    BY <1>2 DEF Selecting!IsPrefix

\* The first n elements of two sequences are the same.
Shared(x, y, n) ==
    n <= Len(x) /\ n <= Len(y) /\ \A k \in 1 .. n : x[k] = y[k]

LEMMA CommonIs ==
    ASSUME NEW x \in Seq(Nat), NEW y \in Seq(Nat)
    PROVE  /\ Selecting!Common(x, y) \in Nat
           /\ Shared(x, y, Selecting!Common(x, y))
           /\ \A n \in Nat : Shared(x, y, n) => n <= Selecting!Common(x, y)
  <1> DEFINE P == Selecting!CommonPrefixes({x, y})
  <1>1. ASSUME NEW p \in P
        PROVE  p \in Seq(Nat) /\ Len(p) \in Nat /\ Shared(x, y, Len(p))
    <2>1. /\ Selecting!IsPrefix(p, x) /\ Selecting!IsPrefix(p, y)
          /\ \E z \in {x, y} : \E n \in 0 .. Len(z) : p = SubSeq(z, 1, n)
      BY DEF Selecting!CommonPrefixes, Selecting!Prefixes
    <2>2. p \in Seq(Nat) /\ Len(p) \in Nat
      BY <2>1
    <2>3. /\ Len(p) <= Len(x) /\ \A k \in 1 .. Len(p) : p[k] = x[k]
          /\ Len(p) <= Len(y) /\ \A k \in 1 .. Len(p) : p[k] = y[k]
      BY <2>1, <2>2, PrefixIs
    <2>4. QED
      BY <2>2, <2>3 DEF Shared
  <1>2. ASSUME NEW n \in Nat, Shared(x, y, n)
        PROVE  \E p \in P : Len(p) = n
    <2> DEFINE p == SubSeq(x, 1, n)
    <2>1. p \in Seq(Nat) /\ Len(p) = n /\ \A k \in 1 .. n : p[k] = x[k]
      BY <1>2 DEF Shared
    <2>2. Selecting!IsPrefix(p, x) /\ Selecting!IsPrefix(p, y)
      BY <1>2, <2>1, PrefixIs DEF Shared
    <2>3. p \in Selecting!Prefixes(x)
      BY <1>2 DEF Selecting!Prefixes, Shared
    <2>4. p \in P
      BY <2>2, <2>3 DEF Selecting!CommonPrefixes
    <2>5. QED
      BY <2>1, <2>4
  <1> DEFINE L == {Len(p) : p \in P}
  <1> HIDE DEF P
  <1>3. Len(x) \in Nat /\ L \in SUBSET Nat /\ \A n \in L : n <= Len(x)
    BY <1>1 DEF Shared
  <1>4. L # {}
    <2>1. Shared(x, y, 0)
      BY DEF Shared
    <2>2. QED
      BY <1>2, <2>1
  <1> HIDE DEF L
  <1>5. PICK most \in L : \A n \in L : n <= most
    BY <1>3, <1>4, MostOf
  <1>6. \E p \in P : \A q \in P : Len(q) <= Len(p)
    BY <1>5 DEF L
  <1> DEFINE longest == Selecting!LongestCommonPrefix({x, y})
  <1>7. longest \in P /\ \A q \in P : Len(q) <= Len(longest)
    BY <1>6 DEF Selecting!LongestCommonPrefix, P
  <1>8. QED
    BY <1>1, <1>2, <1>7 DEF Selecting!Common

\* One sequence is before another in the order if it is less at the first place
\* where they differ, or ends there.
LEMMA LexicographicIs ==
    ASSUME NEW x \in Seq(Nat), NEW y \in Seq(Nat)
    PROVE  Selecting!Lexicographic(x, y) <=>
              \E n \in Nat : /\ Shared(x, y, n)
                             /\ \/ n = Len(x) /\ n < Len(y)
                                \/ n < Len(x) /\ n < Len(y) /\ x[n + 1] < y[n + 1]
  <1>1. Len(x) \in Nat /\ Len(y) \in Nat
    OBVIOUS
  <1>2. Selecting!IsStrictPrefix(x, y) <=> Shared(x, y, Len(x)) /\ Len(x) < Len(y)
    <2>1. ASSUME Shared(x, y, Len(x)), Len(x) = Len(y)
          PROVE  x = y
      BY <1>1, <2>1 DEF Shared
    <2>2. QED
      BY <1>1, <2>1, PrefixIs DEF Selecting!IsStrictPrefix, Shared
  <1>3. ASSUME NEW k \in 1 .. Len(x), k <= Len(y), \A m \in 1 .. k - 1 : x[m] = y[m],
               x[k] < y[k]
        PROVE  \E n \in Nat : /\ Shared(x, y, n) /\ n < Len(x) /\ n < Len(y)
                              /\ x[n + 1] < y[n + 1]
    <2>1. k - 1 \in Nat /\ Shared(x, y, k - 1) /\ k - 1 < Len(x) /\ k - 1 < Len(y)
      BY <1>1, <1>3 DEF Shared
    <2>2. QED
      BY <1>3, <2>1
  <1>4. ASSUME NEW n \in Nat, Shared(x, y, n), n < Len(x), n < Len(y),
               x[n + 1] < y[n + 1]
        PROVE  \E k \in 1 .. Len(x) : /\ k <= Len(y)
                                      /\ \A m \in 1 .. k - 1 : x[m] = y[m]
                                      /\ x[k] < y[k]
    <2>1. n + 1 \in 1 .. Len(x) /\ n + 1 <= Len(y) /\ (n + 1) - 1 = n
      BY <1>1, <1>4
    <2>2. QED
      BY <1>4, <2>1 DEF Shared
  <1>5. QED
    BY <1>1, <1>2, <1>3, <1>4 DEF Selecting!Lexicographic

LEMMA LexicographicOrders ==
    ASSUME NEW x \in Seq(Nat), NEW y \in Seq(Nat), NEW z \in Seq(Nat)
    PROVE  /\ ~Selecting!Lexicographic(x, x)
           /\ Selecting!Lexicographic(x, y) /\ Selecting!Lexicographic(y, z) =>
                 Selecting!Lexicographic(x, z)
  <1>1. /\ Len(x) \in Nat /\ Len(y) \in Nat /\ Len(z) \in Nat
        /\ \A k \in 1 .. Len(x) : x[k] \in Nat
        /\ \A k \in 1 .. Len(y) : y[k] \in Nat
        /\ \A k \in 1 .. Len(z) : z[k] \in Nat
    OBVIOUS
  <1>2. ~Selecting!Lexicographic(x, x)
    BY <1>1 DEF Selecting!Lexicographic, Selecting!IsStrictPrefix
  <1>3. ASSUME Selecting!Lexicographic(x, y), Selecting!Lexicographic(y, z)
        PROVE  Selecting!Lexicographic(x, z)
    <2>1. PICK n \in Nat : /\ Shared(x, y, n)
                           /\ \/ n = Len(x) /\ n < Len(y)
                              \/ n < Len(x) /\ n < Len(y) /\ x[n + 1] < y[n + 1]
      BY <1>3, LexicographicIs
    <2>2. PICK m \in Nat : /\ Shared(y, z, m)
                           /\ \/ m = Len(y) /\ m < Len(z)
                              \/ m < Len(y) /\ m < Len(z) /\ y[m + 1] < z[m + 1]
      BY <1>3, LexicographicIs
    <2>3. CASE n < m
      <3>1. Shared(x, z, n) /\ n < Len(z)
        BY <1>1, <2>1, <2>2, <2>3 DEF Shared
      <3>2. n < Len(y) /\ y[n + 1] = z[n + 1]
        BY <1>1, <2>1, <2>2, <2>3 DEF Shared
      <3>3. QED
        BY <2>1, <3>1, <3>2, LexicographicIs
    <2>4. CASE m < n
      <3>1. Shared(x, z, m) /\ m < Len(x) /\ m < Len(y) /\ x[m + 1] = y[m + 1]
        BY <1>1, <2>1, <2>2, <2>4 DEF Shared
      <3>2. QED
        BY <1>1, <2>2, <2>4, <3>1, LexicographicIs
    <2>5. CASE m = n
      <3>1. Shared(x, z, n) /\ n < Len(z) /\ n < Len(y) /\ y[n + 1] < z[n + 1]
        BY <1>1, <2>1, <2>2, <2>5 DEF Shared
      <3>2. n < Len(x) => n + 1 \in 1 .. Len(x)
        BY <1>1
      <3>3. n < Len(x) => x[n + 1] < z[n + 1]
        BY <1>1, <2>1, <3>1, <3>2
      <3>4. QED
        BY <1>1, <2>1, <3>1, <3>3, LexicographicIs
    <2>6. QED
      BY <2>3, <2>4, <2>5
  <1>4. QED
    BY <1>2, <1>3

-----------------------------------------------------------------------------
(* The abbreviation of an ID (newIDAbbreviator).                           *)

\* A key of the sorted list: the full form of an ID or its digest.
KeyStates == [value : Seq(Nat), owner : Known]

LEMMA FullIs ==
    ASSUME NEW s \in Known
    PROVE  /\ s.digest \in Seq(Nat) /\ Len(s.digest) \in Nat
           /\ \A k \in 1 .. Len(s.digest) : s.digest[k] # Selecting!Colon
           /\ Selecting!Full(s) \in Seq(Nat)
           /\ Len(Selecting!Full(s)) = Len(s.digest) + 1
           /\ Selecting!Full(s)[1] = Selecting!Colon
           /\ \A k \in 1 .. Len(s.digest) : Selecting!Full(s)[k + 1] = s.digest[k]
  <1>1. s.digest \in Seq(0 .. 15)
    BY CommandsAssumption DEF Selecting!ConstantsOK, Selecting!Digit
  <1>2. s.digest \in Seq(Nat) /\ Len(s.digest) \in Nat
    BY <1>1
  <1>3. \A k \in 1 .. Len(s.digest) : s.digest[k] # Selecting!Colon
    BY <1>1 DEF Selecting!Colon
  <1>4. <<Selecting!Colon>> \in Seq(Nat) /\ Len(<<Selecting!Colon>>) = 1
    BY DEF Selecting!Colon
  <1>5. QED
    BY <1>2, <1>3, <1>4 DEF Selecting!Full

\* Nobody has the digest of another, nor a part of it, and no digest is a part
\* of a full form.
LEMMA DigestsTell ==
    ASSUME NEW s \in Known, NEW t \in Known, s # t
    PROVE  ~Shared(s.digest, t.digest, Len(s.digest))
  <1>1. Len(s.digest) = Len(t.digest) /\ s.digest # t.digest
    BY CommandsAssumption DEF Selecting!ConstantsOK
  <1>2. s.digest \in Seq(Nat) /\ t.digest \in Seq(Nat)
    BY FullIs
  <1>3. QED
    BY <1>1, <1>2, SameSequence DEF Shared

\* Instances define finite sets and cardinality anew.
LEMMA FiniteThere ==
    \A S : /\ Selecting!IsFiniteSet(S) <=> IsFiniteSet(S)
          /\ Selecting!Cardinality(S) = Cardinality(S)
  <1>1. \A S : Selecting!IsFiniteSet(S) <=> IsFiniteSet(S)
    BY DEF Selecting!IsFiniteSet, IsFiniteSet
  <1>2. \A S : Selecting!Cardinality(S) = Cardinality(S)
    BY DEF Selecting!Cardinality, Cardinality
  <1>3. QED
    BY <1>1, <1>2

LEMMA KeysAre ==
    ASSUME NEW ids \in SUBSET Known
    PROVE  /\ Selecting!Keys(ids) \in SUBSET KeyStates
           /\ IsFiniteSet(Selecting!Keys(ids))
           /\ \A k \in Selecting!Keys(ids) : k.owner \in ids
           /\ \A s \in ids : [value |-> s.digest, owner |-> s] \in Selecting!Keys(ids)
  <1>0. IsFiniteSet(Known)
    BY CommandsAssumption, FiniteThere DEF Selecting!ConstantsOK
  <1>1. IsFiniteSet(ids)
    BY <1>0, FS_Subset
  <1> DEFINE Fulls == {[value |-> Selecting!Full(s), owner |-> s] : s \in ids}
             Digests == {[value |-> s.digest, owner |-> s] : s \in ids}
  <1>2. IsFiniteSet(Fulls)
    <2> DEFINE full == [s \in ids |-> [value |-> Selecting!Full(s), owner |-> s]]
    <2>1. Fulls = {full[s] : s \in ids}
      OBVIOUS
    <2> HIDE DEF full
    <2>2. QED
      BY <1>1, <2>1, FiniteImage
  <1>3. IsFiniteSet(Digests)
    <2> DEFINE digest == [s \in ids |-> [value |-> s.digest, owner |-> s]]
    <2>1. Digests = {digest[s] : s \in ids}
      OBVIOUS
    <2> HIDE DEF digest
    <2>2. QED
      BY <1>1, <2>1, FiniteImage
  <1>4. IsFiniteSet(Fulls \cup Digests)
    BY <1>2, <1>3, FS_Union
  <1>5. Selecting!Keys(ids) = Fulls \cup Digests
    BY DEF Selecting!Keys
  <1>6. \A s \in ids : Selecting!Full(s) \in Seq(Nat) /\ s.digest \in Seq(Nat)
    BY FullIs
  <1>7. Fulls \in SUBSET KeyStates /\ Digests \in SUBSET KeyStates
    BY <1>6 DEF KeyStates
  <1>8. /\ \A k \in Fulls \cup Digests : k.owner \in ids
        /\ \A s \in ids : [value |-> s.digest, owner |-> s] \in Fulls \cup Digests
    <2>1. \A k \in Fulls : k.owner \in ids
      OBVIOUS
    <2>2. \A k \in Digests : k.owner \in ids
      OBVIOUS
    <2>3. \A s \in ids : [value |-> s.digest, owner |-> s] \in Digests
      OBVIOUS
    <2> HIDE DEF Fulls, Digests
    <2>4. QED
      BY <2>1, <2>2, <2>3
  <1> HIDE DEF Fulls, Digests
  <1>9. QED
    BY <1>4, <1>5, <1>7, <1>8

\* The nearest keys of other IDs, on each side: there is one wherever there are
\* any, and none of them is further than those of its side.
LEMMA NearestAre ==
    ASSUME NEW keys \in SUBSET KeyStates, IsFiniteSet(keys), NEW key \in KeyStates,
           NEW l \in keys, l.owner # key.owner
    PROVE  \E k \in Selecting!Neighbours(keys, key) :
              /\ k \in keys /\ k.owner # key.owner
              /\ Selecting!Lexicographic(k.value, key.value) <=>
                    Selecting!Lexicographic(l.value, key.value)
              /\ Selecting!Lexicographic(l.value, key.value) =>
                    ~Selecting!Lexicographic(k.value, l.value)
              /\ ~Selecting!Lexicographic(l.value, key.value) =>
                    ~Selecting!Lexicographic(l.value, k.value)
  <1> DEFINE foreign == {k \in keys : k.owner # key.owner}
             below == {k \in foreign : Selecting!Lexicographic(k.value, key.value)}
             Up == {p \in KeyStates \X KeyStates :
                       Selecting!Lexicographic(p[1].value, p[2].value)}
             Down == {p \in KeyStates \X KeyStates :
                         Selecting!Lexicographic(p[2].value, p[1].value)}
  <1>0. \A k \in KeyStates : k.value \in Seq(Nat)
    BY DEF KeyStates
  <1>1. /\ \A x \in KeyStates : <<x, x>> \notin Up /\ <<x, x>> \notin Down
        /\ \A x, y, z \in KeyStates :
              /\ <<x, y>> \in Up /\ <<y, z>> \in Up => <<x, z>> \in Up
              /\ <<x, y>> \in Down /\ <<y, z>> \in Down => <<x, z>> \in Down
    <2>1. \A x \in KeyStates : ~Selecting!Lexicographic(x.value, x.value)
      BY <1>0, LexicographicOrders
    <2>2. \A x, y, z \in KeyStates :
             Selecting!Lexicographic(x.value, y.value)
               /\ Selecting!Lexicographic(y.value, z.value) =>
                  Selecting!Lexicographic(x.value, z.value)
      BY <1>0, LexicographicOrders
    <2>3. QED
      BY <2>1, <2>2, Zenon
  <1>2. IsFiniteSet(below) /\ IsFiniteSet(foreign \ below)
    BY FS_Subset
  <1>3. CASE Selecting!Lexicographic(l.value, key.value)
    <2>1. l \in below
      BY <1>3
    <2>2. \A x, y, z \in below : <<x, y>> \in Up /\ <<y, z>> \in Up => <<x, z>> \in Up
      BY <1>1, Zenon
    <2>3. \A x \in below : <<x, x>> \notin Up
      BY <1>1, Zenon
    <2> HIDE DEF Up
    <2>4. PICK k \in below : \A x \in below : <<k, x>> \notin Up
      BY <1>2, <2>1, <2>2, <2>3, Extreme
    <2>5. \A x \in below : ~Selecting!Lexicographic(k.value, x.value)
      BY <2>4 DEF Up
    <2>6. k \in Selecting!Neighbours(keys, key)
      BY <2>5 DEF Selecting!Neighbours
    <2>7. QED
      BY <1>3, <2>1, <2>5, <2>6
  <1>4. CASE ~Selecting!Lexicographic(l.value, key.value)
    <2>1. l \in foreign \ below
      BY <1>4
    <2>2. \A x, y, z \in foreign \ below :
             <<x, y>> \in Down /\ <<y, z>> \in Down => <<x, z>> \in Down
      BY <1>1, Zenon
    <2>3. \A x \in foreign \ below : <<x, x>> \notin Down
      BY <1>1, Zenon
    <2> DEFINE above == foreign \ below
    <2> HIDE DEF Down
    <2>0. /\ IsFiniteSet(above) /\ above # {}
          /\ \A x \in above : <<x, x>> \notin Down
          /\ \A x, y, z \in above :
                <<x, y>> \in Down /\ <<y, z>> \in Down => <<x, z>> \in Down
      BY <1>2, <2>1, <2>2, <2>3
    <2> HIDE DEF above
    <2>4. PICK k \in above : \A x \in above : <<k, x>> \notin Down
      BY <2>0, Extreme
    <2> USE DEF above
    <2>5. \A x \in foreign \ below : ~Selecting!Lexicographic(x.value, k.value)
      BY <2>4 DEF Down
    <2>6. k \in Selecting!Neighbours(keys, key)
      BY <2>5 DEF Selecting!Neighbours
    <2>7. QED
      BY <1>4, <2>1, <2>4, <2>5, <2>6
  <1>5. QED
    BY <1>3, <1>4

\* In their order, what is between shares no less.
LEMMA BetweenShares ==
    ASSUME NEW x \in Seq(Nat), NEW y \in Seq(Nat), NEW z \in Seq(Nat), NEW n \in Nat,
           Shared(x, z, n),
           \/ /\ Selecting!Lexicographic(y, x)
              /\ ~Selecting!Lexicographic(y, z)
           \/ /\ ~Selecting!Lexicographic(y, x)
              /\ ~Selecting!Lexicographic(z, y)
    PROVE  n <= Selecting!Common(x, y)
  <1> DEFINE shared == Selecting!Common(x, y)
  <1>1. shared \in Nat /\ Shared(x, y, shared) /\ \A m \in Nat : Shared(x, y, m) => m <= shared
    BY CommonIs
  <1>2. /\ Len(x) \in Nat /\ Len(y) \in Nat /\ Len(z) \in Nat
        /\ \A k \in 1 .. Len(x) : x[k] \in Nat
        /\ \A k \in 1 .. Len(y) : y[k] \in Nat
        /\ \A k \in 1 .. Len(z) : z[k] \in Nat
    OBVIOUS
  <1> HIDE DEF shared
  <1>3. SUFFICES ASSUME shared < n
                 PROVE  FALSE
    BY <1>1 DEF shared
  <1>4. shared < Len(x) /\ shared < Len(z) /\ x[shared + 1] = z[shared + 1]
    BY <1>1, <1>2, <1>3 DEF Shared
  <1>5. shared <= Len(y) /\ Shared(y, x, shared) /\ Shared(y, z, shared) /\ Shared(z, y, shared)
    BY <1>1, <1>2, <1>3 DEF Shared
  <1>6. shared < Len(y)
    <2>1. SUFFICES ASSUME shared = Len(y)
                   PROVE  FALSE
      BY <1>1, <1>2, <1>5
    <2>2. Selecting!Lexicographic(y, x) /\ Selecting!Lexicographic(y, z)
      BY <1>1, <1>4, <1>5, <2>1, LexicographicIs
    <2>3. QED
      BY <2>2
  <1>7. x[shared + 1] # y[shared + 1]
    <2>1. SUFFICES ASSUME x[shared + 1] = y[shared + 1]
                   PROVE  FALSE
      OBVIOUS
    <2>2. Shared(x, y, shared + 1)
      <3>1. shared + 1 <= Len(x) /\ shared + 1 <= Len(y)
        BY <1>1, <1>2, <1>4, <1>6
      <3>2. \A k \in 1 .. shared + 1 : k \in 1 .. shared \/ k = shared + 1
        BY <1>1
      <3>3. QED
        BY <1>1, <2>1, <3>1, <3>2 DEF Shared
    <2>3. QED
      BY <1>1, <2>2
  <1>8. x[shared + 1] \in Nat /\ y[shared + 1] \in Nat
    <2>1. shared + 1 \in 1 .. Len(x) /\ shared + 1 \in 1 .. Len(y)
      BY <1>1, <1>2, <1>4, <1>6
    <2>2. QED
      BY <1>2, <2>1
  <1>9. CASE y[shared + 1] < x[shared + 1]
    <2>1. Selecting!Lexicographic(y, x) /\ Selecting!Lexicographic(y, z)
      BY <1>1, <1>4, <1>5, <1>6, <1>9, LexicographicIs
    <2>2. QED
      BY <2>1
  <1>10. CASE x[shared + 1] < y[shared + 1]
    <2>1. Selecting!Lexicographic(z, y)
      BY <1>1, <1>4, <1>5, <1>6, <1>10, LexicographicIs
    <2>2. Selecting!Lexicographic(x, y)
      BY <1>1, <1>4, <1>6, <1>10, LexicographicIs
    <2>3. ~Selecting!Lexicographic(y, x)
      BY <2>2, LexicographicOrders
    <2>4. QED
      BY <2>1, <2>3
  <1>11. QED
    BY <1>7, <1>8, <1>9, <1>10

LEMMA DigitsAre ==
    ASSUME NEW keys \in SUBSET KeyStates, NEW key \in KeyStates
    PROVE  /\ Selecting!Digits(keys, key) \in Nat
           /\ \A k \in Selecting!Neighbours(keys, key) :
                 Selecting!Common(key.value, k.value) + 1 <= Selecting!Digits(keys, key)
  <1> DEFINE least == IF Bounds.show.digits < Len(key.value)
                      THEN Bounds.show.digits ELSE Len(key.value)
             needed == {least} \cup {Selecting!Beyond(Selecting!Common(key.value, k.value)) :
                                        k \in Selecting!Neighbours(keys, key)}
             most == CHOOSE n \in needed : \A m \in needed : n >= m
  <1>1. key.value \in Seq(Nat) /\ Len(key.value) \in Nat
    BY DEF KeyStates
  <1>2. \A k \in Selecting!Neighbours(keys, key) : k.value \in Seq(Nat)
    BY DEF Selecting!Neighbours, KeyStates
  <1>3. least \in Nat /\ least <= Len(key.value) + 1
    BY <1>1, CommandsAssumption DEF Selecting!ConstantsOK
  <1>4. ASSUME NEW k \in Selecting!Neighbours(keys, key)
        PROVE  /\ Selecting!Common(key.value, k.value) \in Nat
               /\ Selecting!Common(key.value, k.value) <= Len(key.value)
    BY <1>1, <1>2, CommonIs DEF Shared
  <1> HIDE DEF least
  <1>5. needed \in SUBSET Nat /\ needed # {} /\ \A n \in needed : n <= Len(key.value) + 1
    BY <1>1, <1>3, <1>4 DEF Selecting!Beyond
  <1>6. \A k \in Selecting!Neighbours(keys, key) :
           Selecting!Common(key.value, k.value) + 1 \in needed
    BY DEF Selecting!Beyond
  <1> HIDE DEF needed
  <1>7. \E n \in needed : \A m \in needed : m <= n
    <2>1. Len(key.value) + 1 \in Nat
      BY <1>1
    <2>2. QED
      BY <1>5, <2>1, MostOf
  <1>8. \E n \in needed : \A m \in needed : n >= m
    BY <1>5, <1>7
  <1>9. most \in needed /\ \A m \in needed : most >= m
    BY <1>8
  <1>10. Selecting!Digits(keys, key) = most
    BY DEF Selecting!Digits, needed, least
  <1> HIDE DEF most
  <1>11. QED
    BY <1>4, <1>5, <1>6, <1>9, <1>10

\* What is printed is the beginning of the digest or the full form.
LEMMA AbbreviationIs ==
    ASSUME NEW ids \in SUBSET Known, NEW s \in ids
    PROVE  \/ Selecting!Abbreviate(ids, s) = Selecting!Full(s)
           \/ \E n \in Nat :
                 /\ n <= Len(s.digest)
                 /\ Selecting!Abbreviate(ids, s) = SubSeq(s.digest, 1, n)
                 /\ \A t \in ids \ {s} : n > 0 /\ ~Shared(s.digest, t.digest, n)
  <1> DEFINE key == [value |-> s.digest, owner |-> s]
             keys == Selecting!Keys(ids)
             n == Selecting!Digits(keys, key)
  <1>1. keys \in SUBSET KeyStates /\ key \in keys /\ key \in KeyStates
        /\ IsFiniteSet(keys)
    BY KeysAre, Zenon
  <1>2. n \in Nat /\ \A k \in Selecting!Neighbours(keys, key) :
                         Selecting!Common(key.value, k.value) + 1 <= n
    BY <1>1, DigitsAre
  <1>3. ASSUME NEW t \in ids \ {s}
        PROVE  n > 0 /\ ~Shared(s.digest, t.digest, n)
    <2> DEFINE l == [value |-> t.digest, owner |-> t]
    <2>1. l \in keys /\ l.owner # key.owner /\ l.value = t.digest
      BY KeysAre
    <2>2. PICK k \in Selecting!Neighbours(keys, key) :
             /\ k \in keys
             /\ Selecting!Lexicographic(k.value, key.value) <=>
                   Selecting!Lexicographic(l.value, key.value)
             /\ Selecting!Lexicographic(l.value, key.value) =>
                   ~Selecting!Lexicographic(k.value, l.value)
             /\ ~Selecting!Lexicographic(l.value, key.value) =>
                   ~Selecting!Lexicographic(l.value, k.value)
      <3> HIDE DEF keys, key, l
      <3>1. QED
        BY <1>1, <2>1, NearestAre
    <2>3. k.value \in Seq(Nat) /\ s.digest \in Seq(Nat) /\ t.digest \in Seq(Nat)
      BY <1>1, <2>2, FullIs DEF KeyStates
    <2>4. Selecting!Common(s.digest, k.value) \in Nat
      BY <2>3, CommonIs
    <2>5. Selecting!Common(s.digest, k.value) + 1 <= n
      BY <1>2
    <2>6. ASSUME Shared(s.digest, t.digest, n)
          PROVE  n <= Selecting!Common(s.digest, k.value)
      <3>1. \/ /\ Selecting!Lexicographic(k.value, s.digest)
               /\ ~Selecting!Lexicographic(k.value, t.digest)
            \/ /\ ~Selecting!Lexicographic(k.value, s.digest)
               /\ ~Selecting!Lexicographic(t.digest, k.value)
        BY <2>1, <2>2
      <3> HIDE DEF n
      <3>2. QED
        BY <1>2, <2>3, <2>6, <3>1, BetweenShares
    <2> HIDE DEF n
    <2>7. QED
      BY <1>2, <2>4, <2>5, <2>6
  <1>4. Selecting!Abbreviate(ids, s) = IF n <= Len(s.digest) THEN SubSeq(s.digest, 1, n)
                                       ELSE Selecting!Full(s)
    BY DEF Selecting!Abbreviate
  <1> HIDE DEF n
  <1>5. QED
    BY <1>2, <1>3, <1>4

\* The ID that a table prints matches its session and no other of the table.
LEMMA AbbreviationTells ==
    ASSUME NEW ids \in SUBSET Known, NEW s \in ids
    PROVE  /\ Selecting!SelectorMatches(s, Selecting!Abbreviate(ids, s))
           /\ \A t \in ids \ {s} :
                 ~Selecting!SelectorMatches(t, Selecting!Abbreviate(ids, s))
           /\ \A t \in Known :
                 Selecting!Full(t) = Selecting!Abbreviate(ids, s) => t = s
  <1> DEFINE id == Selecting!Abbreviate(ids, s)
  <1>0. /\ s \in Known /\ s.digest \in Seq(Nat) /\ Len(s.digest) \in Nat
        /\ Selecting!Full(s) \in Seq(Nat)
        /\ Len(Selecting!Full(s)) = Len(s.digest) + 1
    BY FullIs
  <1>1. CASE id = Selecting!Full(s)
    <2>1. Selecting!SelectorMatches(s, id)
      BY <1>0, <1>1, PrefixIs DEF Selecting!SelectorMatches
    <2>2. ASSUME NEW t \in Known, t # s
          PROVE  /\ ~Selecting!IsPrefix(Selecting!Full(s), t.digest)
                 /\ ~Selecting!IsPrefix(Selecting!Full(s), Selecting!Full(t))
      <3>1. /\ t.digest \in Seq(Nat) /\ Len(t.digest) \in Nat
            /\ Selecting!Full(t) \in Seq(Nat)
            /\ Len(Selecting!Full(t)) = Len(t.digest) + 1
        BY FullIs
      <3>2. ASSUME Selecting!IsPrefix(Selecting!Full(s), t.digest)
            PROVE  FALSE
        <4>1. Len(Selecting!Full(s)) <= Len(t.digest)
              /\ \A k \in 1 .. Len(Selecting!Full(s)) : Selecting!Full(s)[k] = t.digest[k]
          BY <1>0, <3>1, <3>2, PrefixIs
        <4>0. \A m, n, k \in Nat : k = m + 1 /\ k <= n => 1 \in 1 .. k /\ 1 \in 1 .. n
          OBVIOUS
        <4>2. 1 \in 1 .. Len(Selecting!Full(s)) /\ 1 \in 1 .. Len(t.digest)
          <5>1. Len(Selecting!Full(s)) \in Nat
            BY <1>0
          <5>2. QED
            BY <1>0, <3>1, <4>0, <4>1, <5>1, Zenon
        <4>3. QED
          BY <1>0, <4>1, <4>2, FullIs
      <3>3. ASSUME Selecting!IsPrefix(Selecting!Full(s), Selecting!Full(t))
            PROVE  FALSE
        <4>1. Len(Selecting!Full(s)) <= Len(Selecting!Full(t))
              /\ \A k \in 1 .. Len(Selecting!Full(s)) :
                    Selecting!Full(s)[k] = Selecting!Full(t)[k]
          BY <1>0, <3>1, <3>3, PrefixIs
        <4>0. \A m, n, k, l \in Nat : k = m + 1 /\ l = n + 1 /\ k <= l => m <= n
          OBVIOUS
        <4>2. Len(s.digest) <= Len(t.digest)
          <5>1. Len(Selecting!Full(s)) \in Nat /\ Len(Selecting!Full(t)) \in Nat
            BY <1>0, <3>1
          <5>2. QED
            BY <1>0, <3>1, <4>1, <4>0, <5>1, Zenon
        <4>3. ASSUME NEW k \in 1 .. Len(s.digest)
              PROVE  s.digest[k] = t.digest[k]
          <5>0. \A m, n, l \in Nat : \A q \in 1 .. m :
                   l = m + 1 /\ m <= n => q + 1 \in 1 .. l /\ q \in 1 .. n
            OBVIOUS
          <5>1. k + 1 \in 1 .. Len(Selecting!Full(s)) /\ k \in 1 .. Len(t.digest)
            <6>1. Len(Selecting!Full(s)) \in Nat
              BY <1>0
            <6>2. QED
              BY <1>0, <3>1, <4>2, <5>0, <6>1, Zenon
          <5>2. s.digest[k] = Selecting!Full(s)[k + 1]
            BY <1>0, FullIs
          <5>3. t.digest[k] = Selecting!Full(t)[k + 1]
            BY <5>1, FullIs
          <5>4. QED
            BY <4>1, <5>1, <5>2, <5>3
        <4>4. Shared(s.digest, t.digest, Len(s.digest))
          BY <1>0, <4>2, <4>3 DEF Shared
        <4>5. QED
          BY <1>0, <2>2, <4>4, DigestsTell
      <3>4. QED
        BY <3>2, <3>3
    <2>3. ASSUME NEW t \in Known, Selecting!Full(t) = Selecting!Full(s)
          PROVE  t = s
      <3>1. Selecting!IsPrefix(Selecting!Full(s), Selecting!Full(s))
        BY <1>0, PrefixIs
      <3>2. QED
        BY <2>2, <2>3, <3>1
    <2>4. QED
      BY <1>1, <2>1, <2>2, <2>3 DEF Selecting!SelectorMatches
  <1>2. ASSUME NEW n \in Nat, n <= Len(s.digest), id = SubSeq(s.digest, 1, n),
               \A t \in ids \ {s} : n > 0 /\ ~Shared(s.digest, t.digest, n)
        PROVE  /\ Selecting!SelectorMatches(s, id)
               /\ \A t \in ids \ {s} : ~Selecting!SelectorMatches(t, id)
               /\ \A t \in Known : Selecting!Full(t) # id
    <2> DEFINE p == SubSeq(s.digest, 1, n)
    <2>1. p \in Seq(Nat) /\ Len(p) = n /\ \A k \in 1 .. n : p[k] = s.digest[k]
      <3>1. \A x \in Seq(Nat) : n <= Len(x) =>
               /\ SubSeq(x, 1, n) \in Seq(Nat) /\ Len(SubSeq(x, 1, n)) = n
               /\ \A k \in 1 .. n : SubSeq(x, 1, n)[k] = x[k]
        OBVIOUS
      <3>2. s.digest \in Seq(Nat) /\ n <= Len(s.digest)
        BY <1>0, <1>2
      <3> HIDE DEF id
      <3>3. QED
        BY <3>1, <3>2
    <2> HIDE DEF p
    <2>2. Selecting!IsPrefix(p, s.digest)
      BY <1>0, <1>2, <2>1, PrefixIs
    <2>3. n > 0 => p[1] # Selecting!Colon
      <3>1. n > 0 => 1 \in 1 .. n /\ 1 \in 1 .. Len(s.digest)
        BY <1>0, <1>2
      <3>2. QED
        BY <1>0, <2>1, <3>1, FullIs
    <2>4. ASSUME NEW t \in ids \ {s}
          PROVE  ~Selecting!IsPrefix(p, t.digest) /\ ~Selecting!IsPrefix(p, Selecting!Full(t))
      <3>1. /\ t.digest \in Seq(Nat) /\ Selecting!Full(t) \in Seq(Nat)
            /\ Selecting!Full(t)[1] = Selecting!Colon
        BY FullIs
      <3>2. ASSUME Selecting!IsPrefix(p, t.digest)
            PROVE  Shared(s.digest, t.digest, n)
        BY <1>0, <1>2, <2>1, <3>1, <3>2, PrefixIs DEF Shared
      <3>3. ASSUME Selecting!IsPrefix(p, Selecting!Full(t))
            PROVE  n > 0 => p[1] = Selecting!Full(t)[1]
        <4>1. \A k \in 1 .. Len(p) : p[k] = Selecting!Full(t)[k]
          BY <2>1, <3>1, <3>3, PrefixIs
        <4>2. QED
          BY <1>2, <2>1, <4>1
      <3>4. QED
        BY <1>2, <2>3, <3>1, <3>2, <3>3
    <2>5. ASSUME NEW t \in Known, Selecting!Full(t) = p
          PROVE  FALSE
      <3>1. Len(p) = Len(t.digest) + 1 /\ Len(t.digest) \in Nat /\ p[1] = Selecting!Colon
        BY <2>5, FullIs
      <3>2. QED
        BY <2>1, <2>3, <3>1
    <2>6. id = p
      BY <1>2 DEF p
    <2>7. QED
      BY <2>2, <2>4, <2>5, <2>6 DEF Selecting!SelectorMatches
  <1>3. QED
    BY <1>1, <1>2, AbbreviationIs

-----------------------------------------------------------------------------
(* list and show: a are the sessions, b the list, c the printed row, d the *)
(* show, e the number of changes.                                          *)

\* The outcome of a show that matched these sessions.
Finds(it, matches) ==
    /\ it.outcome = CASE matches = {} -> "missing"
                      [] Selecting!Cardinality(matches) = 1 -> "shown"
                      [] OTHER -> "ambiguous"
    /\ it.session = IF Selecting!Cardinality(matches) = 1
                    THEN CHOOSE s \in matches : TRUE ELSE Selecting!Nobody
ListStates == [at : {"idle", "collect"}, harnesses : SUBSET Registered,
               collected : SUBSET Known]
ShowStates == [at : {"idle", "collect", "done"}, harnesses : SUBSET Registered,
               seen : SUBSET Known, outcome : {"none", "shown", "ambiguous", "missing"},
               session : Known \cup {Selecting!Nobody}]

\* A row is printed once, of what its list collected, and shown after that.
PrintedRow ==
    /\ c.among \in SUBSET Known /\ c.session \in c.among
    /\ c.id = Selecting!Abbreviate(c.among, c.session)
    /\ b.at = "idle"
ShowInv ==
    /\ a \in SUBSET Known /\ b \in ListStates /\ d \in ShowStates
    /\ c = Selecting!NothingPrinted \/ PrintedRow
    /\ d.at # "idle" => c # Selecting!NothingPrinted
    /\ d.at = "done" => Finds(d, Selecting!Matches)

LEMMA ShowBegins == ASSUME Selecting!Init PROVE ShowInv
  BY DEF Selecting!Init, ShowInv, ListStates, ShowStates, Selecting!IdleList,
         Selecting!IdleShow

LEMMA ShowStep ==
    ASSUME ShowInv, Selecting!Next
    PROVE  ShowInv'
  <1> USE DEF ShowInv
  <1>0. \A harness : Selecting!Of(harness) \in SUBSET Known
    BY DEF Selecting!Of
  <1>1. CASE Selecting!StartList
    BY <1>1 DEF Selecting!StartList, ListStates, PrintedRow, Finds, Selecting!Matches,
                Selecting!SelectorMatches, Selecting!PreferExact
  <1>2. CASE Selecting!CollectSessions
    <2>1. b' \in ListStates /\ b.at = "collect"
      BY <1>0, <1>2 DEF Selecting!CollectSessions, ListStates
    <2>2. QED
      BY <1>2, <2>1 DEF Selecting!CollectSessions, PrintedRow, Finds, Selecting!Matches,
                Selecting!SelectorMatches, Selecting!PreferExact
  <1>3. CASE Selecting!PrintRow
    <2>1. /\ c = Selecting!NothingPrinted /\ d.at = "idle"
          /\ b.collected \in SUBSET Known /\ b' \in ListStates /\ b'.at = "idle"
      BY <1>3 DEF Selecting!PrintRow, PrintedRow, ListStates, Selecting!IdleList
    <2>2. PICK s \in b.collected :
             c' = [session |-> s, id |-> Selecting!Abbreviate(b.collected, s),
                   among |-> b.collected]
      BY <1>3 DEF Selecting!PrintRow
    <2>3. PrintedRow'
      BY <2>1, <2>2 DEF PrintedRow
    <2>4. QED
      BY <1>3, <2>1, <2>3 DEF Selecting!PrintRow
  <1>4. CASE Selecting!PrintNothing
    BY <1>4 DEF Selecting!PrintNothing, ListStates, PrintedRow, Finds, Selecting!Matches,
                Selecting!SelectorMatches, Selecting!PreferExact, Selecting!IdleList
  <1>5. CASE Selecting!StartShow
    BY <1>5 DEF Selecting!StartShow, ShowStates, PrintedRow, Selecting!IdleShow
  <1>6. CASE Selecting!ListSessions
    <2>1. d' \in ShowStates /\ d'.at = "collect"
      BY <1>0, <1>6 DEF Selecting!ListSessions, ShowStates
    <2>2. QED
      BY <1>6, <2>1 DEF Selecting!ListSessions, PrintedRow
  <1>7. CASE Selecting!FindSession
    <2>1. Selecting!Matches \in SUBSET Known
      BY DEF Selecting!Matches, Selecting!PreferExact, ShowStates
    <2>2. IsFiniteSet(Selecting!Matches)
      <3>1. IsFiniteSet(Known)
        BY CommandsAssumption, FiniteThere DEF Selecting!ConstantsOK
      <3>2. QED
        BY <2>1, <3>1, FS_Subset
    <2>3. Selecting!Cardinality(Selecting!Matches) = 1 =>
             (CHOOSE s \in Selecting!Matches : TRUE) \in Selecting!Matches
      <3>1. Selecting!Cardinality(Selecting!Matches) = 1 => Selecting!Matches # {}
        BY FiniteThere, FS_EmptySet
      <3>2. QED
        BY <3>1
    <2> DEFINE matches == Selecting!Matches
    <2>4. Selecting!Matches' = matches
      BY <1>7 DEF Selecting!FindSession, Selecting!Matches, Selecting!SelectorMatches,
                  Selecting!PreferExact, ShowStates
    <2>5. /\ d' = [d EXCEPT !.at = "done",
                     !.outcome = CASE matches = {} -> "missing"
                                   [] Selecting!Cardinality(matches) = 1 -> "shown"
                                   [] OTHER -> "ambiguous",
                     !.session = IF Selecting!Cardinality(matches) = 1
                                 THEN CHOOSE s \in matches : TRUE ELSE Selecting!Nobody]
          /\ UNCHANGED <<a, b, c>> /\ d.at = "collect"
      BY <1>7 DEF Selecting!FindSession
    <2> HIDE DEF matches
    <2>6. d' \in ShowStates
      BY <2>1, <2>3, <2>5 DEF ShowStates, matches
    <2>7. Finds(d', matches)
      BY <2>5 DEF Finds, ShowStates
    <2>8. QED
      <3>1. d'.at = "done" => Finds(d', Selecting!Matches')
        BY <2>4, <2>7
      <3>2. (d.at = "done" => Finds(d, Selecting!Matches))'
        BY <3>1 DEF Finds
      <3>3. QED
        BY <2>5, <2>6, <3>2 DEF PrintedRow
  <1>8. CASE Selecting!ChangeSessions
    BY <1>8 DEF Selecting!ChangeSessions, PrintedRow, Finds, Selecting!Matches,
                Selecting!SelectorMatches, Selecting!PreferExact
  <1>9. QED
    BY <1>1, <1>2, <1>3, <1>4, <1>5, <1>6, <1>7, <1>8 DEF Selecting!Next

LEMMA ShowAlways == Spec => [](part = "show" => ShowInv)
  <1> DEFINE Inv == part = "show" => ShowInv
  <1>1. Init => Inv
    BY ShowBegins DEF Init
  <1>2. Inv /\ [Next]_vars => Inv'
    <2> SUFFICES ASSUME Inv, [Next]_vars, part' = "show"
                 PROVE  ShowInv'
      OBVIOUS
    <2>1. CASE UNCHANGED vars
      BY <2>1 DEF vars, ShowInv, PrintedRow, Finds, Selecting!Matches,
                  Selecting!SelectorMatches, Selecting!PreferExact
    <2>2. CASE Next
      <3>1. part = "show"
        BY <2>2 DEF Next
      <3>2. Selecting!Next
        BY <2>2, <3>1 DEF Next, RunState, RunInit, RunList, RunScan, RunRead,
           RunShow, RunCompletion, RunCurrent
      <3>3. QED
        BY <3>1, <3>2, ShowStep
    <2>3. QED
      BY <2>1, <2>2
  <1>3. QED
    BY <1>1, <1>2, PTL DEF Spec

\* What matches a printed ID: its session, if it is there, and besides only
\* sessions the table did not know.
LEMMA MatchesOfPrinted ==
    ASSUME ShowInv, PrintedRow
    PROVE  /\ Selecting!Matches \in SUBSET d.seen /\ IsFiniteSet(Selecting!Matches)
           /\ c.session \in d.seen => c.session \in Selecting!Matches
           /\ \A s \in Selecting!Matches :
                 /\ Selecting!SelectorMatches(s, c.id)
                 /\ s # c.session => s \notin c.among
  <1> DEFINE Matching == {s \in d.seen : Selecting!SelectorMatches(s, c.id)}
             Exact == {s \in Matching : Selecting!Full(s) = c.id}
  <1>1. d.seen \in SUBSET Known
    BY DEF ShowInv, ShowStates
  <1>2. /\ Selecting!SelectorMatches(c.session, c.id)
        /\ \A t \in c.among \ {c.session} : ~Selecting!SelectorMatches(t, c.id)
        /\ \A t \in Known : Selecting!Full(t) = c.id => t = c.session
    BY AbbreviationTells DEF PrintedRow
  <1>3. Selecting!Matches = IF Exact = {} THEN Matching ELSE Exact
    BY DEF Selecting!Matches, Selecting!PreferExact
  <1>4. \A s \in Exact : s = c.session
    BY <1>1, <1>2
  <1>5. Selecting!Matches \in SUBSET Matching
    BY <1>3
  <1>6. IsFiniteSet(Selecting!Matches)
    <2>1. IsFiniteSet(Known)
      BY CommandsAssumption, FiniteThere DEF Selecting!ConstantsOK
    <2>2. Selecting!Matches \in SUBSET Known
      BY <1>1, <1>5
    <2>3. QED
      BY <2>1, <2>2, FS_Subset
  <1>7. c.session \in d.seen => c.session \in Selecting!Matches
    BY <1>2, <1>3, <1>4
  <1>8. QED
    BY <1>2, <1>5, <1>6, <1>7

\* A printed session ID, used later by show or export, shows its session or is
\* reported as ambiguous, and then because of a session the table did not know:
\* what newIDAbbreviator prints shares its digits with no other session of the
\* table, the nearest keys on either side share the most (table.go), and
\* findSession prefers the session whose full ID it is (reader.go).
THEOREM PrintedIdsSelectTheirs == Spec => []PrintedIdsSelect
  <1>1. ASSUME ShowInv
        PROVE  Selecting!PrintedIdsSelect
    <2> SUFFICES ASSUME d.at = "done"
                 PROVE  /\ c.session \in d.seen =>
                              \/ d.outcome = "shown" /\ d.session = c.session
                              \/ /\ d.outcome = "ambiguous"
                                 /\ \E s \in d.seen \ c.among :
                                       Selecting!SelectorMatches(s, c.id)
                        /\ d.session # c.session => d.session \notin c.among
      BY DEF Selecting!PrintedIdsSelect
    <2> DEFINE matches == Selecting!Matches
    <2>1. PrintedRow /\ Finds(d, matches)
      BY <1>1 DEF ShowInv
    <2>2. /\ matches \in SUBSET d.seen /\ IsFiniteSet(matches)
          /\ c.session \in d.seen => c.session \in matches
          /\ \A s \in matches : /\ Selecting!SelectorMatches(s, c.id)
                                /\ s # c.session => s \notin c.among
      BY <1>1, <2>1, MatchesOfPrinted
    <2> HIDE DEF matches
    <2>3. Selecting!Cardinality(matches) = 1 <=> \E s : matches = {s}
      BY <2>2, FiniteThere, FS_Singleton
    <2>4. Selecting!Nobody \notin c.among
      <3>1. \A s \in Known : s.harness # 0
        BY CommandsAssumption DEF Selecting!ConstantsOK
      <3>2. c.among \in SUBSET Known
        BY <2>1 DEF PrintedRow
      <3>3. QED
        BY <3>1, <3>2 DEF Selecting!Nobody
    <2>5. CASE \E s : matches = {s}
      <3>1. PICK s : matches = {s}
        BY <2>5
      <3>2. d.outcome = "shown" /\ d.session = s
        BY <2>1, <2>3, <3>1 DEF Finds
      <3>3. QED
        BY <2>2, <3>1, <3>2
    <2>6. CASE ~\E s : matches = {s}
      <3>1. d.session = Selecting!Nobody /\ (matches # {} => d.outcome = "ambiguous")
        BY <2>1, <2>3, <2>6 DEF Finds
      <3>2. c.session \in d.seen => \E s \in matches : s # c.session
        BY <2>2, <2>6
      <3>3. QED
        BY <2>2, <2>4, <3>1, <3>2
    <2>7. QED
      BY <2>5, <2>6
  <1>2. (part = "show" => ShowInv) => PrintedIdsSelect
    BY <1>1 DEF PrintedIdsSelect
  <1>3. QED
    BY <1>2, ShowAlways, PTL
-----------------------------------------------------------------------------
(* A finite set, enumerated by a strict order that is total on it.         *)

Enumeration(S, R) ==
    LET rank == [x \in S |-> Cardinality({y \in S : <<y, x>> \in R})] IN
    [n \in 1 .. Cardinality(S) |-> CHOOSE x \in S : rank[x] = n - 1]

\* An element that a sequence has at one place.
Once(s, x) == \E n \in DOMAIN s : \A m \in DOMAIN s : s[m] = x <=> m = n

LEMMA EnumerationIs ==
    ASSUME NEW S, IsFiniteSet(S), NEW R,
           \A x \in S : <<x, x>> \notin R,
           \A x, y \in S : x # y => <<x, y>> \in R \/ <<y, x>> \in R,
           \A x, y, z \in S : <<x, y>> \in R /\ <<y, z>> \in R => <<x, z>> \in R
    PROVE  /\ Cardinality(S) \in Nat
           /\ Enumeration(S, R) \in [1 .. Cardinality(S) -> S]
           /\ \A x \in S : Once(Enumeration(S, R), x)
  <1> DEFINE Behind(x) == {y \in S : <<y, x>> \in R}
             rank == [x \in S |-> Cardinality(Behind(x))]
             size == Cardinality(S)
  <1>1. size \in Nat
    BY FS_CardinalityType
  <1>2. \A x \in S : IsFiniteSet(Behind(x)) /\ rank[x] \in Nat
    <2>1. ASSUME NEW x \in S
          PROVE  IsFiniteSet(Behind(x)) /\ Cardinality(Behind(x)) \in Nat
      <3>1. Behind(x) \in SUBSET S
        OBVIOUS
      <3>2. IsFiniteSet(Behind(x))
        BY <3>1, FS_Subset
      <3> HIDE DEF Behind
      <3>3. QED
        BY <3>2, FS_CardinalityType
    <2> HIDE DEF Behind
    <2>2. QED
      BY <2>1
  <1>3. ASSUME NEW x \in S, NEW y \in S, <<x, y>> \in R
        PROVE  rank[x] < rank[y]
    <2>1. Behind(x) \cup {x} \in SUBSET Behind(y) /\ x \notin Behind(x)
      BY <1>3
    <2> HIDE DEF Behind
    <2>2. IsFiniteSet(Behind(x)) /\ IsFiniteSet(Behind(y)) /\ rank[x] \in Nat /\ rank[y] \in Nat
      BY <1>2
    <2>3. Cardinality(Behind(x) \cup {x}) = rank[x] + 1
      BY <2>1, <2>2, FS_AddElement
    <2>4. Cardinality(Behind(x) \cup {x}) <= rank[y]
      BY <2>1, <2>2, FS_Subset
    <2>5. QED
      BY <2>2, <2>3, <2>4
  <1>4. ASSUME NEW x \in S
        PROVE  rank[x] \in 0 .. size - 1
    <2>1. Behind(x) \in SUBSET (S \ {x}) /\ IsFiniteSet(S \ {x})
          /\ Cardinality(S \ {x}) = size - 1
      BY FS_RemoveElement
    <2>2. rank[x] = Cardinality(Behind(x)) /\ rank[x] \in Nat
      BY <1>2
    <2> HIDE DEF Behind, rank
    <2>3. rank[x] <= size - 1
      BY <2>1, <2>2, FS_Subset
    <2>4. QED
      BY <1>1, <2>2, <2>3
  <1>5. rank \in Injection(S, 0 .. size - 1)
    <2>1. rank \in [S -> 0 .. size - 1]
      BY <1>4
    <2>2. ASSUME NEW x \in S, NEW y \in S, rank[x] = rank[y]
          PROVE  x = y
      <3>1. rank[x] \in Nat /\ rank[y] \in Nat
        BY <1>2
      <3>2. <<x, y>> \in R => rank[x] < rank[y]
        BY <1>3
      <3>3. <<y, x>> \in R => rank[y] < rank[x]
        BY <1>3
      <3> HIDE DEF rank
      <3>4. ~(rank[x] < rank[y]) /\ ~(rank[y] < rank[x])
        BY <2>2, <3>1
      <3>5. QED
        BY <3>2, <3>3, <3>4
    <2> HIDE DEF rank
    <2>3. QED
      BY <2>1, <2>2 DEF Injection, IsInjective
  <1>6. rank \in Surjection(S, 0 .. size - 1)
    <2>1. IsFiniteSet(0 .. size - 1) /\ Cardinality(0 .. size - 1) = size
      <3>1. \A k \in Nat : /\ 0 \in Int /\ k - 1 \in Int
                           /\ k = IF 0 > k - 1 THEN 0 ELSE k - 1 - 0 + 1
        OBVIOUS
      <3> HIDE DEF size
      <3>2. QED
        BY <1>1, <3>1, FS_Interval
    <2> HIDE DEF rank
    <2>2. QED
      BY <1>5, <2>1, FS_Injection
  <1>7. Enumeration(S, R) = [n \in 1 .. size |-> CHOOSE x \in S : rank[x] = n - 1]
    BY DEF Enumeration
  <1> HIDE DEF rank, size
  <1>8. ASSUME NEW n \in 1 .. size
        PROVE  Enumeration(S, R)[n] \in S /\ rank[Enumeration(S, R)[n]] = n - 1
    <2>1. n - 1 \in 0 .. size - 1
      BY <1>1
    <2>2. \E x \in S : rank[x] = n - 1
      BY <1>6, <2>1 DEF Surjection
    <2>3. QED
      BY <1>7, <2>2
  <1>9. ASSUME NEW x \in S
        PROVE  \E n \in 1 .. size : \A m \in 1 .. size : Enumeration(S, R)[m] = x <=> m = n
    <2>1. rank[x] + 1 \in 1 .. size
      BY <1>1, <1>4
    <2>2. ASSUME NEW m \in 1 .. size
          PROVE  Enumeration(S, R)[m] = x <=> m = rank[x] + 1
      <3>1. Enumeration(S, R)[m] \in S /\ rank[Enumeration(S, R)[m]] = m - 1
        BY <1>8
      <3>2. Enumeration(S, R)[m] = x => m = rank[x] + 1
        <4>1. \A k \in Int : k - 1 + 1 = k
          OBVIOUS
        <4>2. QED
          BY <1>1, <3>1, <4>1
      <3>3. m = rank[x] + 1 => rank[x] = rank[Enumeration(S, R)[m]]
        <4>1. m = rank[x] + 1 => m - 1 = rank[x]
          BY <1>4
        <4>2. QED
          BY <3>1, <4>1
      <3>4. QED
        BY <1>5, <3>1, <3>2, <3>3 DEF Injection, IsInjective
    <2>3. QED
      BY <2>1, <2>2
  <1>10. Enumeration(S, R) \in [1 .. size -> S]
    BY <1>7, <1>8
  <1>11. \A x \in S : Once(Enumeration(S, R), x)
    BY <1>9, <1>10 DEF Once
  <1>12. QED
    BY <1>1, <1>10, <1>11 DEF size

-----------------------------------------------------------------------------
(* A read (RecordRelations): a is the harness, b the transcript, c how many *)
(* records were emitted, d and e the calls and results so far, f the pairs, *)
(* g the replies.                                                          *)

Records == [id : Nat, parent : Nat, events : Seq(Relations!Events)]
PlaceStates == [record : Nat, event : Nat]

LEMMA CountThere ==
    \A S : Relations!Cardinality(S) = Cardinality(S)
  BY DEF Relations!Cardinality, Cardinality

LEMMA TranscriptIs ==
    ASSUME b \in Readable
    PROVE  /\ b \in Seq(Records) /\ Len(b) \in Nat
           /\ Relations!Positions = 1 .. Len(b)
           /\ \A r \in 1 .. Len(b) :
                 /\ b[r] \in Records
                 /\ b[r].id \in Nat /\ b[r].parent \in Nat
                 /\ b[r].events \in Seq(Relations!Events)
                 /\ Len(b[r].events) \in Nat
                 /\ DOMAIN b[r].events = 1 .. Len(b[r].events)
  <1>1. b \in Seq(Records)
    BY CommandsAssumption DEF Relations!ConstantsOK, Records
  <1>2. \A r \in 1 .. Len(b) : b[r] \in Records
    BY <1>1
  <1>3. Len(b) \in Nat /\ Relations!Positions = 1 .. Len(b)
    BY <1>1 DEF Relations!Positions
  <1>4. QED
    BY <1>1, <1>2, <1>3 DEF Records

LEMMA PlacesAre ==
    ASSUME b \in Readable
    PROVE  /\ IsFiniteSet(Relations!Places)
           /\ Relations!Places \in SUBSET PlaceStates
           /\ \A p \in Relations!Places :
                 /\ p.record \in 1 .. Len(b) /\ p.event \in 1 .. Len(b[p.record].events)
                 /\ Relations!Event(p) \in Relations!Events
           /\ \A r \in 1 .. Len(b) : \A n \in 1 .. Len(b[r].events) :
                 [record |-> r, event |-> n] \in Relations!Places
  <1> DEFINE Of(r) == {[record |-> r, event |-> n] : n \in DOMAIN b[r].events}
             All == {Of(r) : r \in 1 .. Len(b)}
  <1>1. Relations!Places = UNION All
    BY TranscriptIs DEF Relations!Places
  <1>2. ASSUME NEW r \in 1 .. Len(b)
        PROVE  IsFiniteSet(Of(r))
    <2> DEFINE of == [n \in DOMAIN b[r].events |-> [record |-> r, event |-> n]]
    <2>1. IsFiniteSet(DOMAIN b[r].events)
      <3>1. /\ DOMAIN b[r].events = 1 .. Len(b[r].events)
            /\ 1 \in Int /\ Len(b[r].events) \in Int
        BY TranscriptIs
      <3>2. QED
        BY <3>1, FS_Interval
    <2>2. IsFiniteSet({of[n] : n \in DOMAIN b[r].events})
      <3> HIDE DEF of
      <3>1. QED
        BY <2>1, FiniteImage
    <2>3. Of(r) = {of[n] : n \in DOMAIN b[r].events}
      OBVIOUS
    <2>4. QED
      BY <2>2, <2>3
  <1>3. IsFiniteSet(All)
    <2> DEFINE of == [r \in 1 .. Len(b) |-> Of(r)]
    <2>1. IsFiniteSet(1 .. Len(b))
      <3>1. 1 \in Int /\ Len(b) \in Int
        BY TranscriptIs
      <3>2. QED
        BY <3>1, FS_Interval
    <2>2. IsFiniteSet({of[r] : r \in 1 .. Len(b)})
      <3> HIDE DEF of
      <3>1. QED
        BY <2>1, FiniteImage
    <2>3. All = {of[r] : r \in 1 .. Len(b)}
      OBVIOUS
    <2>4. QED
      BY <2>2, <2>3
  <1>4. \A T \in All : IsFiniteSet(T)
    BY <1>2
  <1>5. IsFiniteSet(Relations!Places)
    <2> HIDE DEF All
    <2>1. QED
      BY <1>1, <1>3, <1>4, FS_UNION
  <1>6. ASSUME NEW r \in 1 .. Len(b), NEW n \in 1 .. Len(b[r].events)
        PROVE  [record |-> r, event |-> n] \in Relations!Places
    <2>1. n \in DOMAIN b[r].events
      BY TranscriptIs
    <2>2. QED
      BY <1>1, <2>1
  <1>7. ASSUME NEW p \in Relations!Places
        PROVE  /\ p \in PlaceStates
               /\ p.record \in 1 .. Len(b) /\ p.event \in 1 .. Len(b[p.record].events)
               /\ Relations!Event(p) \in Relations!Events
    <2>1. PICK r \in 1 .. Len(b) : p \in Of(r)
      BY <1>1
    <2>2. PICK n \in DOMAIN b[r].events : p = [record |-> r, event |-> n]
      BY <2>1
    <2>3. n \in 1 .. Len(b[r].events) /\ b[r].events \in Seq(Relations!Events)
      BY TranscriptIs
    <2>4. p.record = r /\ p.event = n
      BY <2>2
    <2>5. b[r].events[n] \in Relations!Events
      BY <2>3
    <2>6. p \in PlaceStates
      BY <2>2, <2>3 DEF PlaceStates
    <2>7. QED
      BY <2>3, <2>4, <2>5, <2>6 DEF Relations!Event
  <1>8. QED
    BY <1>5, <1>6, <1>7

NumbersIn(S) == Relations!InOrder(S, <)
PlacesIn(S) == Relations!InOrder(S, Relations!Precedes)
IdOrder == {p \in Nat \X Nat : p[1] < p[2]}
PlaceOrder == {p \in PlaceStates \X PlaceStates : Relations!Precedes(p[1], p[2])}

LEMMA NumbersInOrder ==
    ASSUME NEW S \in SUBSET Nat, IsFiniteSet(S)
    PROVE  /\ Cardinality(S) \in Nat
           /\ NumbersIn(S) \in [1 .. Cardinality(S) -> S]
           /\ \A x \in S : Once(NumbersIn(S), x)
  <1>1. \A x, y \in S : <<x, y>> \in IdOrder <=> x < y
    BY DEF IdOrder
  <1>2. /\ \A x \in S : <<x, x>> \notin IdOrder
        /\ \A x, y \in S : x # y => <<x, y>> \in IdOrder \/ <<y, x>> \in IdOrder
        /\ \A x, y, z \in S :
              <<x, y>> \in IdOrder /\ <<y, z>> \in IdOrder => <<x, z>> \in IdOrder
    BY <1>1
  <1>3. NumbersIn(S) = Enumeration(S, IdOrder)
    <2> DEFINE there == [x \in S |-> Relations!Cardinality({y \in S : y < x})]
               here == [x \in S |-> Cardinality({y \in S : <<y, x>> \in IdOrder})]
    <2>1. there = here
      <3>1. \A x \in S : {y \in S : y < x} = {y \in S : <<y, x>> \in IdOrder}
        BY <1>1
      <3>2. \A x \in S : Relations!Cardinality({y \in S : y < x}) =
                         Cardinality({y \in S : <<y, x>> \in IdOrder})
        BY <3>1, CountThere
      <3>3. QED
        BY <3>2
    <2>2. NumbersIn(S) = [n \in 1 .. Relations!Cardinality(S) |->
                          CHOOSE x \in S : there[x] = n - 1]
      BY DEF NumbersIn, Relations!InOrder
    <2>3. Enumeration(S, IdOrder) = [n \in 1 .. Cardinality(S) |->
                                      CHOOSE x \in S : here[x] = n - 1]
      BY DEF Enumeration
    <2> HIDE DEF there, here
    <2>4. QED
      BY <2>1, <2>2, <2>3, CountThere
  <1> HIDE DEF IdOrder
  <1>4. /\ Cardinality(S) \in Nat
        /\ Enumeration(S, IdOrder) \in [1 .. Cardinality(S) -> S]
    BY <1>2, EnumerationIs
  <1>5. \A x \in S : Once(Enumeration(S, IdOrder), x)
    BY <1>2, EnumerationIs
  <1>6. QED
    BY <1>3, <1>4, <1>5

LEMMA PlacesInOrder ==
    ASSUME NEW S \in SUBSET PlaceStates, IsFiniteSet(S)
    PROVE  /\ Cardinality(S) \in Nat
           /\ PlacesIn(S) \in [1 .. Cardinality(S) -> S]
  <1>1. \A x, y \in S : <<x, y>> \in PlaceOrder <=> Relations!Precedes(x, y)
    BY DEF PlaceOrder
  <1>2. \A x \in PlaceStates : x.record \in Nat /\ x.event \in Nat
                               /\ x = [record |-> x.record, event |-> x.event]
    BY DEF PlaceStates
  <1>3. /\ \A x \in S : <<x, x>> \notin PlaceOrder
        /\ \A x, y \in S : x # y => <<x, y>> \in PlaceOrder \/ <<y, x>> \in PlaceOrder
        /\ \A x, y, z \in S :
              <<x, y>> \in PlaceOrder /\ <<y, z>> \in PlaceOrder => <<x, z>> \in PlaceOrder
    BY <1>1, <1>2 DEF Relations!Precedes
  <1>4. PlacesIn(S) = Enumeration(S, PlaceOrder)
    <2> DEFINE there == [x \in S |-> Relations!Cardinality({y \in S : Relations!Precedes(y, x)})]
               here == [x \in S |-> Cardinality({y \in S : <<y, x>> \in PlaceOrder})]
    <2>1. there = here
      <3>1. \A x \in S : {y \in S : Relations!Precedes(y, x)} = {y \in S : <<y, x>> \in PlaceOrder}
        BY <1>1
      <3>2. \A x \in S : Relations!Cardinality({y \in S : Relations!Precedes(y, x)}) =
                         Cardinality({y \in S : <<y, x>> \in PlaceOrder})
        BY <3>1, CountThere
      <3>3. QED
        BY <3>2
    <2>2. PlacesIn(S) = [n \in 1 .. Relations!Cardinality(S) |->
                          CHOOSE x \in S : there[x] = n - 1]
      BY DEF PlacesIn, Relations!InOrder
    <2>3. Enumeration(S, PlaceOrder) = [n \in 1 .. Cardinality(S) |->
                                      CHOOSE x \in S : here[x] = n - 1]
      BY DEF Enumeration
    <2> HIDE DEF there, here
    <2>4. QED
      BY <2>1, <2>2, <2>3, CountThere
  <1>5. QED
    BY <1>3, <1>4, EnumerationIs
\* Of a tool id all of whose events the first pass counts: its only call is at p
\* and its only result at q; a sequence of pairs has it once, or not at all.
Pairing(id, p, q) == /\ Relations!Uses("call", id) = {p}
                     /\ Relations!Uses("result", id) = {q}
PairedOnce(s, id, p, q) ==
    \E n \in DOMAIN s : /\ s[n].call = p /\ s[n].result = q
                        /\ \A m \in DOMAIN s : s[m].id = id <=> m = n
Unpaired(s, id) == \A n \in DOMAIN s : s[n].id # id
PairStates == [id : Relations!Ids, call : Relations!Places, result : Relations!Places]

\* The pairs of the first n records, and those that the n-th adds.
PairsOfFirst(s, n) ==
    /\ s \in Seq(PairStates)
    /\ \A id \in Relations!Ids :
          Relations!EverCounted(id) =>
             /\ \A p, q : Pairing(id, p, q) =>
                   IF p.record <= n /\ q.record <= n THEN PairedOnce(s, id, p, q)
                   ELSE Unpaired(s, id)
             /\ (\A p, q : ~Pairing(id, p, q)) => Unpaired(s, id)
PairsOfRecord(s, n) ==
    /\ s \in Seq(PairStates)
    /\ \A id \in Relations!Ids :
          Relations!EverCounted(id) =>
             /\ \A p, q : Pairing(id, p, q) =>
                   IF p.record <= n /\ q.record <= n /\ (p.record = n \/ q.record = n)
                   THEN PairedOnce(s, id, p, q) ELSE Unpaired(s, id)
             /\ (\A p, q : ~Pairing(id, p, q)) => Unpaired(s, id)

LEMMA JoinedPairs ==
    ASSUME NEW s \in Seq(PairStates), NEW t \in Seq(PairStates), NEW id
    PROVE  /\ Unpaired(s, id) /\ Unpaired(t, id) => Unpaired(s \o t, id)
           /\ \A p, q : PairedOnce(s, id, p, q) /\ Unpaired(t, id) =>
                           PairedOnce(s \o t, id, p, q)
           /\ \A p, q : Unpaired(s, id) /\ PairedOnce(t, id, p, q) =>
                           PairedOnce(s \o t, id, p, q)
  <1> DEFINE u == s \o t
  <1>1. /\ Len(s) \in Nat /\ Len(t) \in Nat
        /\ DOMAIN s = 1 .. Len(s) /\ DOMAIN t = 1 .. Len(t)
        /\ DOMAIN u = 1 .. Len(s) + Len(t)
    OBVIOUS
  <1>2. /\ \A n \in 1 .. Len(s) : u[n] = s[n]
        /\ \A n \in 1 .. Len(t) : u[Len(s) + n] = t[n]
    BY JoinedAt
  <1> HIDE DEF u
  <1>3. ASSUME NEW m \in DOMAIN u
        PROVE  \/ m \in 1 .. Len(s) /\ u[m] = s[m]
               \/ /\ m - Len(s) \in 1 .. Len(t) /\ u[m] = t[m - Len(s)]
                  /\ m \notin 1 .. Len(s)
    <2>1. CASE m <= Len(s)
      <3>1. m \in 1 .. Len(s)
        BY <1>1, <2>1
      <3>2. QED
        BY <1>2, <3>1
    <2>2. CASE ~(m <= Len(s))
      <3>1. /\ m - Len(s) \in 1 .. Len(t) /\ Len(s) + (m - Len(s)) = m
            /\ m \notin 1 .. Len(s)
        BY <1>1, <2>2
      <3>2. u[Len(s) + (m - Len(s))] = t[m - Len(s)]
        BY <1>2, <3>1
      <3>3. QED
        BY <3>1, <3>2
    <2>3. QED
      BY <2>1, <2>2
  <1>4. Unpaired(s, id) /\ Unpaired(t, id) => Unpaired(u, id)
    BY <1>1, <1>3 DEF Unpaired
  <1>5. ASSUME NEW p, NEW q, PairedOnce(s, id, p, q), Unpaired(t, id)
        PROVE  PairedOnce(u, id, p, q)
    <2>1. PICK n \in 1 .. Len(s) :
             /\ s[n].call = p /\ s[n].result = q
             /\ \A m \in 1 .. Len(s) : s[m].id = id <=> m = n
      BY <1>1, <1>5 DEF PairedOnce
    <2>2. n \in DOMAIN u /\ u[n] = s[n]
      <3>1. n \in 1 .. Len(s) + Len(t)
        BY <1>1, <2>1
      <3>2. QED
        BY <1>1, <1>2, <2>1, <3>1
    <2>3. ASSUME NEW m \in DOMAIN u
          PROVE  u[m].id = id <=> m = n
      BY <1>1, <1>3, <1>5, <2>1 DEF Unpaired
    <2>4. QED
      BY <2>1, <2>2, <2>3 DEF PairedOnce
  <1>6. ASSUME NEW p, NEW q, Unpaired(s, id), PairedOnce(t, id, p, q)
        PROVE  PairedOnce(u, id, p, q)
    <2>1. PICK n \in 1 .. Len(t) :
             /\ t[n].call = p /\ t[n].result = q
             /\ \A m \in 1 .. Len(t) : t[m].id = id <=> m = n
      BY <1>1, <1>6 DEF PairedOnce
    <2>2. Len(s) + n \in DOMAIN u /\ u[Len(s) + n] = t[n]
      <3>1. Len(s) + n \in 1 .. Len(s) + Len(t)
        BY <1>1, <2>1
      <3>2. QED
        BY <1>1, <1>2, <2>1, <3>1
    <2>3. ASSUME NEW m \in DOMAIN u
          PROVE  u[m].id = id <=> m = Len(s) + n
      <3>1. CASE m \in 1 .. Len(s) /\ u[m] = s[m]
        <4>1. m # Len(s) + n
          BY <1>1, <2>1, <3>1
        <4>2. QED
          BY <1>1, <1>6, <3>1, <4>1 DEF Unpaired
      <3>2. CASE m - Len(s) \in 1 .. Len(t) /\ u[m] = t[m - Len(s)]
        <4>1. m - Len(s) = n <=> m = Len(s) + n
          <5>1. m \in Int /\ n \in Int /\ Len(s) \in Int
            BY <1>1, <2>1
          <5>2. \A x, y, z \in Int : x - y = z <=> x = y + z
            OBVIOUS
          <5>3. QED
            BY <5>1, <5>2
        <4>2. QED
          BY <2>1, <3>2, <4>1
      <3>3. QED
        BY <1>3, <3>1, <3>2
    <2>4. QED
      BY <2>1, <2>2, <2>3 DEF PairedOnce
  <1>7. QED
    BY <1>4, <1>5, <1>6 DEF u

LEMMA RecordAddsPairs ==
    ASSUME b \in Readable, NEW n \in Nat, NEW s, PairsOfFirst(s, n),
           NEW t, PairsOfRecord(t, n + 1)
    PROVE  PairsOfFirst(s \o t, n + 1)
  <1>1. s \in Seq(PairStates) /\ t \in Seq(PairStates)
    BY DEF PairsOfFirst, PairsOfRecord
  <1>2. s \o t \in Seq(PairStates)
    BY <1>1
  <1>3. ASSUME NEW id \in Relations!Ids, Relations!EverCounted(id), NEW p, NEW q,
               Pairing(id, p, q)
        PROVE  IF p.record <= n + 1 /\ q.record <= n + 1 THEN PairedOnce(s \o t, id, p, q)
               ELSE Unpaired(s \o t, id)
    <2>1. p.record \in Nat /\ q.record \in Nat
      <3>1. p \in Relations!Places /\ q \in Relations!Places
        BY <1>3 DEF Pairing, Relations!Uses
      <3>2. QED
        BY <3>1, PlacesAre DEF PlaceStates
    <2>2. IF p.record <= n /\ q.record <= n THEN PairedOnce(s, id, p, q)
          ELSE Unpaired(s, id)
      BY <1>3 DEF PairsOfFirst
    <2>3. IF p.record <= n + 1 /\ q.record <= n + 1
             /\ (p.record = n + 1 \/ q.record = n + 1)
          THEN PairedOnce(t, id, p, q) ELSE Unpaired(t, id)
      BY <1>3 DEF PairsOfRecord
    <2>4. \A k \in Nat : k <= n + 1 <=> k <= n \/ k = n + 1
      OBVIOUS
    <2>5. \A k \in Nat : k <= n => k # n + 1
      OBVIOUS
    <2>6. QED
      BY <1>1, <2>1, <2>2, <2>3, <2>4, <2>5, JoinedPairs
  <1>4. ASSUME NEW id \in Relations!Ids, Relations!EverCounted(id),
               \A p, q : ~Pairing(id, p, q)
        PROVE  Unpaired(s \o t, id)
    <2>1. Unpaired(s, id) /\ Unpaired(t, id)
      BY <1>4 DEF PairsOfFirst, PairsOfRecord
    <2>2. QED
      BY <1>1, <2>1, JoinedPairs
  <1>5. QED
    BY <1>2, <1>3, <1>4 DEF PairsOfFirst

\* All events of an id counted: it is one to pair if it has a call and a result.
LEMMA CountedIs ==
    ASSUME b \in Readable, NEW id, Relations!EverCounted(id)
    PROVE  Relations!UniqueToolPair(id) <=> \E p, q : Pairing(id, p, q)
  <1>1. ASSUME NEW kind
        PROVE  Relations!Counted(kind, id) = Cardinality(Relations!Uses(kind, id))
    <2>1. ASSUME NEW p \in Relations!Places
          PROVE  Relations!Event(p) = [kind |-> kind, id |-> id, counted |-> TRUE] <=>
                    Relations!Event(p).kind = kind /\ Relations!Event(p).id = id
      <3>1. Relations!Event(p) \in Relations!Events
        BY PlacesAre
      <3>2. Relations!Event(p).id = id => Relations!Event(p).counted = TRUE
        BY <3>1 DEF Relations!EverCounted, Relations!Events
      <3>3. QED
        BY <3>1, <3>2 DEF Relations!Events
    <2>2. {p \in Relations!Places :
              Relations!Event(p) = [kind |-> kind, id |-> id, counted |-> TRUE]} =
          Relations!Uses(kind, id)
      BY <2>1 DEF Relations!Uses
    <2>3. QED
      BY <2>2, CountThere DEF Relations!Counted
  <1>2. \A kind : IsFiniteSet(Relations!Uses(kind, id))
    <2>1. \A kind : Relations!Uses(kind, id) \in SUBSET Relations!Places
      BY DEF Relations!Uses
    <2>2. QED
      BY <2>1, PlacesAre, FS_Subset
  <1>3. \A kind : Relations!Counted(kind, id) = 1 <=>
                     \E p : Relations!Uses(kind, id) = {p}
    BY <1>1, <1>2, FS_Singleton
  <1>4. QED
    BY <1>3 DEF Relations!UniqueToolPair, Pairing
\* What was emitted of an id, up to a place: in a sequence.
LEMMA AfterIs ==
    ASSUME b \in Readable, NEW kind, NEW upTo, NEW id \in Relations!Ids, NEW s,
           s = Relations!After(kind, upTo)[id]
    PROVE  /\ s \in Seq(Relations!Places)
           /\ \A n \in DOMAIN s : s[n] \in Relations!Emitted(kind, id, upTo)
           /\ s = <<>> <=> Relations!Emitted(kind, id, upTo) = {}
           /\ Len(s) = 1 => Relations!Emitted(kind, id, upTo) = {s[1]}
           /\ \A p : Relations!Emitted(kind, id, upTo) = {p} =>
                        Len(s) = 1 /\ s[1] = p /\ Relations!Latest(s) = p
  <1> DEFINE S == Relations!Emitted(kind, id, upTo)
  <1>1. S \in SUBSET Relations!Places /\ Relations!Places \in SUBSET PlaceStates
        /\ IsFiniteSet(Relations!Places)
    BY PlacesAre DEF Relations!Emitted
  <1>2. S \in SUBSET PlaceStates /\ IsFiniteSet(S)
    BY <1>1, FS_Subset
  <1>3. s = PlacesIn(S)
    BY DEF Relations!After, PlacesIn, Relations!InOrder
  <1> HIDE DEF S
  <1>4. /\ Cardinality(S) \in Nat /\ s \in [1 .. Cardinality(S) -> S]
    BY <1>2, <1>3, PlacesInOrder
  <1>5. s \in Seq(Relations!Places) /\ Len(s) = Cardinality(S)
        /\ DOMAIN s = 1 .. Cardinality(S)
    BY <1>1, <1>4
  <1>6. s = <<>> <=> S = {}
    <2>1. s = <<>> <=> Len(s) = 0
      BY <1>5
    <2>2. Cardinality(S) = 0 <=> S = {}
      BY <1>2, FS_EmptySet
    <2>3. QED
      BY <1>5, <2>1, <2>2
  <1>7. Len(s) = 1 => S = {s[1]}
    <2>1. SUFFICES ASSUME Cardinality(S) = 1
                   PROVE  S = {s[1]}
      BY <1>5
    <2>2. s[1] \in S
      BY <1>4, <2>1
    <2>3. \E p : S = {p}
      BY <1>2, <2>1, FS_Singleton
    <2>4. QED
      BY <2>2, <2>3
  <1>8. ASSUME NEW p, S = {p}
        PROVE  Len(s) = 1 /\ s[1] = p /\ Relations!Latest(s) = p
    <2>1. Cardinality(S) = 1
      BY <1>8, FS_Singleton
    <2>2. Len(s) = 1 /\ s[1] \in S
      BY <1>4, <1>5, <2>1
    <2>3. QED
      BY <1>8, <2>2 DEF Relations!Latest
  <1>9. QED
    BY <1>4, <1>5, <1>6, <1>7, <1>8 DEF S

LEMMA AfterOne ==
    ASSUME b \in Readable, NEW kind, NEW upTo, NEW id \in Relations!Ids, NEW s,
           s = Relations!After(kind, upTo)[id], NEW p,
           Relations!Emitted(kind, id, upTo) = {p}
    PROVE  Len(s) = 1 /\ Relations!Latest(s) = p
  BY AfterIs

\* After the last event of a record everything of the records so far is emitted.
LEMMA EmittedWithRecord ==
    ASSUME b \in Readable, NEW kind, NEW id, NEW r \in 1 .. Len(b)
    PROVE  Relations!Emitted(kind, id, [record |-> r, event |-> Len(b[r].events)]) =
              {p \in Relations!Uses(kind, id) : p.record <= r}
  <1> DEFINE last == [record |-> r, event |-> Len(b[r].events)]
  <1>1. ASSUME NEW p \in Relations!Places
        PROVE  p = last \/ Relations!Precedes(p, last) <=> p.record <= r
    <2>1. /\ p.record \in Nat /\ p.event \in Nat
          /\ p = [record |-> p.record, event |-> p.event]
          /\ p.event \in 1 .. Len(b[p.record].events)
      BY PlacesAre DEF PlaceStates
    <2>2. Len(b[r].events) \in Nat /\ r \in Nat
      BY TranscriptIs
    <2>3. p.record = r => p.event <= Len(b[r].events)
      BY <2>1
    <2>4. last.record = r /\ last.event = Len(b[r].events)
      OBVIOUS
    <2>5. p = last <=> p.record = r /\ p.event = Len(b[r].events)
      BY <2>1
    <2> HIDE DEF last
    <2>6. QED
      BY <2>1, <2>2, <2>3, <2>4, <2>5 DEF Relations!Precedes
  <1> HIDE DEF last
  <1>2. Relations!Emitted(kind, id, last) = {p \in Relations!Uses(kind, id) : p.record <= r}
    BY <1>1 DEF Relations!Emitted, Relations!Uses
  <1>3. QED
    BY <1>2 DEF last

\* Up to an event, of an id with one call and one result: of each all, or none.
LEMMA EmittedWithEvent ==
    ASSUME b \in Readable, NEW kind, NEW id, NEW p, Relations!Uses(kind, id) = {p},
           NEW place
    PROVE  Relations!Emitted(kind, id, place) =
              IF p = place \/ Relations!Precedes(p, place) THEN {p} ELSE {}
  <1>1. Relations!Emitted(kind, id, place) =
           {x \in Relations!Uses(kind, id) : x = place \/ Relations!Precedes(x, place)}
    BY DEF Relations!Emitted, Relations!Uses
  <1>2. QED
    BY <1>1

LEMMA IdsAre ==
    ASSUME b \in Readable
    PROVE  /\ Relations!Ids \in SUBSET Nat /\ IsFiniteSet(Relations!Ids)
           /\ \A p \in Relations!Places : Relations!Event(p).id \in Relations!Ids
  <1> DEFINE of == [p \in Relations!Places |-> Relations!Event(p).id]
  <1>1. Relations!Ids = {of[p] : p \in Relations!Places}
    BY DEF Relations!Ids
  <1>2. IsFiniteSet(Relations!Ids)
    <2> HIDE DEF of
    <2>1. QED
      BY <1>1, PlacesAre, FiniteImage
  <1>3. \A p \in Relations!Places : of[p] \in Nat
    BY PlacesAre DEF Relations!Events
  <1>4. QED
    BY <1>1, <1>2, <1>3
\* What classifyToolCorrelation adds with a record of Claude.
LEMMA ClaudeAdds ==
    ASSUME b \in Readable, NEW r \in 1 .. Len(b), NEW last,
           last = [record |-> r, event |-> Len(b[r].events)],
           NEW newCalls, newCalls = Relations!After("call", last),
           NEW newResults, newResults = Relations!After("result", last)
    PROVE  PairsOfRecord(Relations!ClaudePairs(newCalls, newResults, r), r)
  <1> DEFINE paired == {id \in Relations!Ids :
                           /\ Relations!UniqueToolPair(id)
                           /\ Len(newCalls[id]) = 1 /\ Len(newResults[id]) = 1
                           /\ \/ newCalls[id][1].record = r
                              \/ newResults[id][1].record = r}
             order == NumbersIn(paired)
             added == [n \in DOMAIN order |->
                          [id |-> order[n], call |-> newCalls[order[n]][1],
                           result |-> newResults[order[n]][1]]]
  <1>1. Relations!ClaudePairs(newCalls, newResults, r) = added
    BY DEF Relations!ClaudePairs, NumbersIn, Relations!InOrder
  <1>2. paired \in SUBSET Relations!Ids /\ paired \in SUBSET Nat /\ IsFiniteSet(paired)
    BY IdsAre, FS_Subset
  <1>3. ASSUME NEW id \in paired
        PROVE  newCalls[id][1] \in Relations!Places /\ newResults[id][1] \in Relations!Places
    <2>1. id \in Relations!Ids /\ Len(newCalls[id]) = 1 /\ Len(newResults[id]) = 1
      OBVIOUS
    <2>2. newCalls[id] \in Seq(Relations!Places) /\ newResults[id] \in Seq(Relations!Places)
      BY <2>1, AfterIs
    <2>3. QED
      BY <2>1, <2>2
  <1>4. ASSUME NEW id \in Relations!Ids, Relations!EverCounted(id), NEW p, NEW q,
               Pairing(id, p, q)
        PROVE  /\ id \in paired <=> p.record <= r /\ q.record <= r
                                    /\ (p.record = r \/ q.record = r)
               /\ id \in paired => newCalls[id][1] = p /\ newResults[id][1] = q
    <2>1. Relations!UniqueToolPair(id)
      BY <1>4, CountedIs
    <2>2. /\ Relations!Emitted("call", id, last) = {x \in {p} : x.record <= r}
          /\ Relations!Emitted("result", id, last) = {x \in {q} : x.record <= r}
      BY <1>4, EmittedWithRecord DEF Pairing
    <2>3. /\ Len(newCalls[id]) = 1 <=> p.record <= r
          /\ Len(newCalls[id]) = 1 => newCalls[id][1] = p
      <3>1. Len(newCalls[id]) = 1 => Relations!Emitted("call", id, last) = {newCalls[id][1]}
        BY AfterIs
      <3>2. p.record <= r => Relations!Emitted("call", id, last) = {p}
        BY <2>2
      <3>3. Relations!Emitted("call", id, last) = {p} =>
               Len(newCalls[id]) = 1 /\ newCalls[id][1] = p
        BY AfterIs
      <3>4. QED
        BY <2>2, <3>1, <3>2, <3>3
    <2>4. /\ Len(newResults[id]) = 1 <=> q.record <= r
          /\ Len(newResults[id]) = 1 => newResults[id][1] = q
      <3>1. Len(newResults[id]) = 1 =>
               Relations!Emitted("result", id, last) = {newResults[id][1]}
        BY AfterIs
      <3>2. q.record <= r => Relations!Emitted("result", id, last) = {q}
        BY <2>2
      <3>3. Relations!Emitted("result", id, last) = {q} =>
               Len(newResults[id]) = 1 /\ newResults[id][1] = q
        BY AfterIs
      <3>4. QED
        BY <2>2, <3>1, <3>2, <3>3
    <2>5. QED
      BY <2>1, <2>3, <2>4
  <1>5. ASSUME NEW id \in Relations!Ids, Relations!EverCounted(id),
               \A p, q : ~Pairing(id, p, q)
        PROVE  id \notin paired
    BY <1>5, CountedIs
  <1> HIDE DEF paired
  <1>6. /\ Cardinality(paired) \in Nat /\ order \in [1 .. Cardinality(paired) -> paired]
        /\ \A id \in paired : Once(order, id)
    BY <1>2, NumbersInOrder
  <1> HIDE DEF order
  <1>7. added \in Seq(PairStates)
    <2>1. \A n \in 1 .. Cardinality(paired) : added[n] \in PairStates
      BY <1>2, <1>3, <1>6 DEF PairStates
    <2>2. DOMAIN added = 1 .. Cardinality(paired)
      BY <1>6
    <2>3. added \in [1 .. Cardinality(paired) -> PairStates]
      BY <2>1, <2>2
    <2>4. QED
      BY <1>6, <2>3
  <1>8. DOMAIN added = DOMAIN order /\ \A n \in DOMAIN order :
           /\ order[n] \in paired
           /\ added[n].id = order[n] /\ added[n].call = newCalls[order[n]][1]
           /\ added[n].result = newResults[order[n]][1]
    BY <1>6
  <1> HIDE DEF added
  <1>9. \A id : id \notin paired => Unpaired(added, id)
    BY <1>8 DEF Unpaired
  <1>10. ASSUME NEW id \in paired, NEW p, NEW q,
                newCalls[id][1] = p, newResults[id][1] = q
         PROVE  PairedOnce(added, id, p, q)
    <2>1. PICK n \in DOMAIN order : \A m \in DOMAIN order : order[m] = id <=> m = n
      BY <1>6 DEF Once
    <2>2. order[n] = id
      BY <2>1
    <2>3. added[n].call = p /\ added[n].result = q /\ n \in DOMAIN added
      BY <1>8, <1>10, <2>2
    <2>4. \A m \in DOMAIN added : added[m].id = id <=> m = n
      BY <1>8, <2>1
    <2>5. QED
      BY <2>3, <2>4 DEF PairedOnce
  <1>11. ASSUME NEW id \in Relations!Ids, Relations!EverCounted(id), NEW p, NEW q,
                Pairing(id, p, q)
         PROVE  IF p.record <= r /\ q.record <= r /\ (p.record = r \/ q.record = r)
                THEN PairedOnce(added, id, p, q) ELSE Unpaired(added, id)
    <2>1. /\ id \in paired <=> p.record <= r /\ q.record <= r
                                  /\ (p.record = r \/ q.record = r)
          /\ id \in paired => newCalls[id][1] = p /\ newResults[id][1] = q
      BY <1>4, <1>11
    <2>2. QED
      BY <1>9, <1>10, <2>1
  <1>12. PairsOfRecord(added, r)
    BY <1>5, <1>7, <1>9, <1>11 DEF PairsOfRecord
  <1>13. QED
    BY <1>1, <1>12

\* What indexTools and the pairs of Codex and OMP add with the events of a record.
LEMMA EventsAdd ==
    ASSUME b \in Readable, NEW r \in 1 .. Len(b)
    PROVE  PairsOfRecord(Relations!EventPairs(r), r)
  <1> DEFINE place(n) == [record |-> r, event |-> n]
             paired == {n \in DOMAIN b[r].events : Relations!Completes(place(n))}
             order == NumbersIn(paired)
             added == [n \in DOMAIN order |-> Relations!EventPair(place(order[n]))]
  <1>1. Relations!EventPairs(r) = added
    BY DEF Relations!EventPairs, NumbersIn, Relations!InOrder
  <1>2. paired \in SUBSET Nat /\ IsFiniteSet(paired)
    <2>1. DOMAIN b[r].events = 1 .. Len(b[r].events) /\ Len(b[r].events) \in Int
          /\ 1 \in Int
      BY TranscriptIs
    <2>2. IsFiniteSet(1 .. Len(b[r].events))
      <3>1. \A k \in Int : IsFiniteSet(1 .. k)
        BY FS_Interval
      <3>2. QED
        BY <2>1, <3>1
    <2>3. paired \in SUBSET (1 .. Len(b[r].events))
      BY <2>1
    <2> HIDE DEF paired
    <2>4. IsFiniteSet(paired)
      BY <2>2, <2>3, FS_Subset
    <2>5. QED
      BY <2>1, <2>3, <2>4
  <1>3. ASSUME NEW n \in DOMAIN b[r].events
        PROVE  /\ place(n) \in Relations!Places
               /\ Relations!Event(place(n)).id \in Relations!Ids
    BY TranscriptIs, PlacesAre, IdsAre
  <1> HIDE DEF place
  <1>4. ASSUME NEW n \in paired
        PROVE  Relations!EventPair(place(n)) \in PairStates
    <2> DEFINE id == Relations!Event(place(n)).id
               s == Relations!After("call", place(n))[id]
               t == Relations!After("result", place(n))[id]
    <2>1. id \in Relations!Ids
      BY <1>3
    <2>2. s # <<>> /\ t # <<>>
      BY DEF Relations!Completes
    <2>3. s \in Seq(Relations!Places) /\ t \in Seq(Relations!Places)
      BY <2>1, AfterIs
    <2>4. Relations!EventPair(place(n)) =
             [id |-> id, call |-> Relations!Latest(s), result |-> Relations!Latest(t)]
      BY DEF Relations!EventPair
    <2> HIDE DEF id, s, t
    <2>5. Relations!Latest(s) \in Relations!Places /\ Relations!Latest(t) \in Relations!Places
      BY <2>2, <2>3 DEF Relations!Latest
    <2>6. QED
      BY <2>1, <2>4, <2>5 DEF PairStates
  <1>5. \A n \in paired : Relations!EventPair(place(n)).id = Relations!Event(place(n)).id
    BY DEF Relations!EventPair
  <1>6. ASSUME NEW id \in Relations!Ids, Relations!EverCounted(id), NEW p, NEW q,
               Pairing(id, p, q), NEW n \in DOMAIN b[r].events,
               Relations!Event(place(n)).id = id
        PROVE  /\ place(n) = p \/ place(n) = q
               /\ n \in paired <=> /\ p = place(n) \/ Relations!Precedes(p, place(n))
                                   /\ q = place(n) \/ Relations!Precedes(q, place(n))
               /\ n \in paired => Relations!EventPair(place(n)) =
                                     [id |-> id, call |-> p, result |-> q]
    <2>0. PICK s, t : /\ s = Relations!After("call", place(n))[id]
                      /\ t = Relations!After("result", place(n))[id]
      OBVIOUS
    <2>1. place(n) = p \/ place(n) = q
      <3>1. place(n) \in Relations!Places
        BY <1>3
      <3>2. Relations!Event(place(n)).kind \in {"call", "result"}
        BY <3>1, PlacesAre DEF Relations!Events
      <3>3. place(n) \in Relations!Uses("call", id) \cup Relations!Uses("result", id)
        BY <1>6, <3>1, <3>2 DEF Relations!Uses
      <3>4. QED
        BY <1>6, <3>3 DEF Pairing
    <2>2. Relations!UniqueToolPair(id)
      BY <1>6, CountedIs
    <2>3. /\ Relations!Emitted("call", id, place(n)) =
                IF p = place(n) \/ Relations!Precedes(p, place(n)) THEN {p} ELSE {}
          /\ Relations!Emitted("result", id, place(n)) =
                IF q = place(n) \/ Relations!Precedes(q, place(n)) THEN {q} ELSE {}
      BY <1>6, EmittedWithEvent DEF Pairing
    <2>4. /\ s # <<>> <=> p = place(n) \/ Relations!Precedes(p, place(n))
          /\ s # <<>> => Len(s) = 1 /\ Relations!Latest(s) = p
      <3>1. s = <<>> <=> Relations!Emitted("call", id, place(n)) = {}
        BY <2>0, AfterIs
      <3>2. ASSUME Relations!Emitted("call", id, place(n)) = {p}
            PROVE  Len(s) = 1 /\ Relations!Latest(s) = p
        BY <2>0, <3>2, AfterOne
      <3>3. QED
        BY <2>3, <3>1, <3>2
    <2>5. /\ t # <<>> <=> q = place(n) \/ Relations!Precedes(q, place(n))
          /\ t # <<>> => Len(t) = 1 /\ Relations!Latest(t) = q
      <3>1. t = <<>> <=> Relations!Emitted("result", id, place(n)) = {}
        BY <2>0, AfterIs
      <3>2. ASSUME Relations!Emitted("result", id, place(n)) = {q}
            PROVE  Len(t) = 1 /\ Relations!Latest(t) = q
        BY <2>0, <3>2, AfterOne
      <3>3. QED
        BY <2>3, <3>1, <3>2
    <2>6. Relations!Completes(place(n)) <=> s # <<>> /\ t # <<>>
      <3>1. Relations!Completes(place(n)) <=>
               /\ Relations!UniqueToolPair(id)
               /\ s # <<>> /\ t # <<>>
               /\ a = "codex" => Len(IF Relations!Event(place(n)).kind = "call"
                                     THEN t ELSE s) = 1
        BY <1>6, <2>0 DEF Relations!Completes
      <3>2. QED
        BY <2>2, <2>4, <2>5, <3>1
    <2>7. Relations!EventPair(place(n)) =
             [id |-> id, call |-> Relations!Latest(s), result |-> Relations!Latest(t)]
      BY <1>6, <2>0 DEF Relations!EventPair
    <2>8. n \in paired <=> Relations!Completes(place(n))
      OBVIOUS
    <2> HIDE DEF paired
    <2>9. QED
      BY <2>1, <2>4, <2>5, <2>6, <2>7, <2>8
  <1>7. ASSUME NEW id \in Relations!Ids, Relations!EverCounted(id),
               \A p, q : ~Pairing(id, p, q), NEW n \in paired
        PROVE  Relations!Event(place(n)).id # id
    <2>1. ~Relations!UniqueToolPair(id)
      BY <1>7, CountedIs
    <2>2. QED
      BY <2>1 DEF Relations!Completes
  <1>8. \A n \in paired : n \in DOMAIN b[r].events
    OBVIOUS
  <1> HIDE DEF paired
  <1>9. /\ Cardinality(paired) \in Nat /\ order \in [1 .. Cardinality(paired) -> paired]
        /\ \A n \in paired : Once(order, n)
    BY <1>2, NumbersInOrder
  <1> HIDE DEF order
  <1>10. added \in Seq(PairStates)
    <2>1. \A n \in 1 .. Cardinality(paired) : added[n] \in PairStates
      BY <1>4, <1>9
    <2>2. DOMAIN added = 1 .. Cardinality(paired)
      BY <1>9
    <2>3. added \in [1 .. Cardinality(paired) -> PairStates]
      BY <2>1, <2>2
    <2>4. QED
      BY <1>9, <2>3
  <1>11. DOMAIN added = DOMAIN order /\ \A n \in DOMAIN order :
            /\ order[n] \in paired
            /\ added[n] = Relations!EventPair(place(order[n]))
    BY <1>9
  <1> HIDE DEF added
  <1>12. ASSUME NEW id, \A n \in paired : Relations!Event(place(n)).id # id
         PROVE  Unpaired(added, id)
    BY <1>5, <1>11, <1>12 DEF Unpaired
  <1>13. ASSUME NEW id \in Relations!Ids, Relations!EverCounted(id), NEW p, NEW q,
                Pairing(id, p, q)
         PROVE  IF p.record <= r /\ q.record <= r /\ (p.record = r \/ q.record = r)
                THEN PairedOnce(added, id, p, q) ELSE Unpaired(added, id)
    <2>0. /\ p \in Relations!Places /\ q \in Relations!Places
          /\ Relations!Event(p).id = id /\ Relations!Event(q).id = id
          /\ p # q
      BY <1>13 DEF Pairing, Relations!Uses
    <2>1. /\ p.record \in Nat /\ q.record \in Nat /\ p.event \in Nat /\ q.event \in Nat
          /\ p = [record |-> p.record, event |-> p.event]
          /\ q = [record |-> q.record, event |-> q.event] /\ r \in Nat
      BY <2>0, PlacesAre, TranscriptIs DEF PlaceStates
    <2>2. /\ p.record = r => p.event \in DOMAIN b[r].events /\ place(p.event) = p
          /\ q.record = r => q.event \in DOMAIN b[r].events /\ place(q.event) = q
      BY <2>0, <2>1, PlacesAre, TranscriptIs DEF place
    <2>3. \A n : place(n).record = r /\ place(n).event = n
      BY DEF place
    <2>4. ASSUME NEW n \in paired, Relations!Event(place(n)).id = id
          PROVE  /\ p.record <= r /\ q.record <= r /\ (p.record = r \/ q.record = r)
                 /\ Relations!EventPair(place(n)) = [id |-> id, call |-> p, result |-> q]
                 /\ place(n) = p => Relations!Precedes(q, p)
                 /\ place(n) = q => Relations!Precedes(p, q)
      <3>1. /\ place(n) = p \/ place(n) = q
            /\ p = place(n) \/ Relations!Precedes(p, place(n))
            /\ q = place(n) \/ Relations!Precedes(q, place(n))
            /\ Relations!EventPair(place(n)) = [id |-> id, call |-> p, result |-> q]
        BY <1>6, <1>8, <1>13, <2>4
      <3>2. p.record <= r /\ q.record <= r
        BY <2>1, <2>3, <3>1 DEF Relations!Precedes
      <3>3. QED
        BY <2>0, <2>3, <3>1, <3>2
    <2>5. CASE p.record <= r /\ q.record <= r /\ (p.record = r \/ q.record = r)
      <3>1. ~(Relations!Precedes(p, q) /\ Relations!Precedes(q, p))
        BY <2>1 DEF Relations!Precedes
      <3>2. \E n \in DOMAIN b[r].events :
               \/ place(n) = q /\ Relations!Precedes(p, q)
               \/ place(n) = p /\ Relations!Precedes(q, p)
        <4>1. CASE p.record = r /\ q.record < r
          BY <2>1, <2>2, <4>1 DEF Relations!Precedes
        <4>2. CASE p.record < r /\ q.record = r
          BY <2>1, <2>2, <4>2 DEF Relations!Precedes
        <4>3. CASE p.record = r /\ q.record = r
          <5>1. p.event # q.event
            BY <2>0, <2>1, <4>3
          <5>2. p.event < q.event \/ q.event < p.event
            BY <2>1, <5>1
          <5>3. QED
            BY <2>2, <4>3, <5>2 DEF Relations!Precedes
        <4>4. QED
          BY <2>1, <2>5, <4>1, <4>2, <4>3
      <3>3. PICK n \in DOMAIN b[r].events :
               \/ place(n) = q /\ Relations!Precedes(p, q)
               \/ place(n) = p /\ Relations!Precedes(q, p)
        BY <3>2
      <3>4. Relations!Event(place(n)).id = id /\ n \in paired
        BY <1>6, <1>13, <2>0, <3>3
      <3>5. ASSUME NEW m \in paired
            PROVE  Relations!Event(place(m)).id = id <=> m = n
        <4>1. ASSUME Relations!Event(place(m)).id = id
              PROVE  m = n
          <5>1. place(m) = p \/ place(m) = q
            BY <1>6, <1>8, <1>13, <4>1
          <5>2. /\ place(m) = p => Relations!Precedes(q, p)
                /\ place(m) = q => Relations!Precedes(p, q)
            BY <2>4, <4>1
          <5>3. place(m) = place(n)
            BY <3>1, <3>3, <5>1, <5>2
          <5>4. QED
            BY <2>3, <5>3
        <4>2. QED
          BY <3>4, <4>1
      <3>6. PICK k \in DOMAIN order : \A m \in DOMAIN order : order[m] = n <=> m = k
        BY <1>9, <3>4 DEF Once
      <3>7. order[k] = n
        BY <3>6
      <3>8. k \in DOMAIN added /\ added[k].call = p /\ added[k].result = q
        BY <1>11, <2>4, <3>4, <3>7
      <3>9. \A m \in DOMAIN added : added[m].id = id <=> m = k
        BY <1>5, <1>11, <3>5, <3>6
      <3>10. QED
        BY <2>5, <3>8, <3>9 DEF PairedOnce
    <2>6. CASE ~(p.record <= r /\ q.record <= r /\ (p.record = r \/ q.record = r))
      <3>1. \A n \in paired : Relations!Event(place(n)).id # id
        BY <2>4, <2>6
      <3>2. Unpaired(added, id)
        BY <1>12, <3>1
      <3>3. QED
        BY <2>6, <3>2
    <2>7. QED
      BY <2>5, <2>6
  <1>14. PairsOfRecord(added, r)
    BY <1>7, <1>10, <1>12, <1>13 DEF PairsOfRecord
  <1>15. QED
    BY <1>1, <1>14
\* The replies of the first n records.
RepliesOfFirst(s, n) ==
    /\ s \in Seq((1 .. Len(b)) \X (1 .. Len(b)))
    /\ \A m \in DOMAIN s : s[m][1] <= n
    /\ \A k, m \in DOMAIN s : s[k][1] = s[m][1] => k = m
    /\ a \in {"claude", "omp"} =>
          \A m \in DOMAIN s :
             {r \in 1 .. Len(b) : b[r].id = b[s[m][1]].parent} = {s[m][2]}

AtPlaces(s) == \A id \in DOMAIN s : \A n \in DOMAIN s[id] : s[id][n] \in Relations!Places

RelationsInv ==
    /\ a \in Relations!Harnesses /\ b \in Readable /\ c \in 0 .. Len(b)
    /\ AtPlaces(d) /\ AtPlaces(e)
    /\ PairsOfFirst(f, c)
    /\ RepliesOfFirst(g, c)

\* What is said of a transcript that stays.
LEMMA TranscriptStays ==
    ASSUME b' = b
    PROVE  /\ Relations!Places' = Relations!Places
           /\ PairsOfFirst(f, c)' <=> PairsOfFirst(f', c')
  <1>1. Relations!Places' = Relations!Places
    BY DEF Relations!Places, Relations!Positions
  <1>2. \A p : Relations!Event(p)' = Relations!Event(p)
    BY DEF Relations!Event
  <1>3. Relations!Ids' = Relations!Ids
    BY <1>1, <1>2 DEF Relations!Ids
  <1>4. \A id : Relations!EverCounted(id)' <=> Relations!EverCounted(id)
    BY <1>1, <1>2 DEF Relations!EverCounted
  <1>5. \A kind, id : Relations!Uses(kind, id)' = Relations!Uses(kind, id)
    BY <1>1, <1>2 DEF Relations!Uses
  <1>6. \A id, p, q : Pairing(id, p, q)' <=> Pairing(id, p, q)
    BY <1>5 DEF Pairing
  <1>7. PairStates' = PairStates
    BY <1>1, <1>3 DEF PairStates
  <1>8. PairsOfFirst(f, c)' <=> PairsOfFirst(f', c')
    BY <1>3, <1>4, <1>6, <1>7 DEF PairsOfFirst, PairedOnce, Unpaired
  <1>9. QED
    BY <1>1, <1>8

LEMMA RelationsBegin == ASSUME Relations!Init PROVE RelationsInv
  <1>1. /\ a \in Relations!Harnesses /\ b \in Readable /\ c = 0
        /\ d = [id \in Relations!Ids |-> <<>>] /\ e = [id \in Relations!Ids |-> <<>>]
        /\ f = <<>> /\ g = <<>>
    BY DEF Relations!Init
  <1>2. c \in 0 .. Len(b)
    BY <1>1, TranscriptIs
  <1>3. AtPlaces(d) /\ AtPlaces(e)
    BY <1>1 DEF AtPlaces
  <1>4. PairsOfFirst(f, c)
    <2>1. f \in Seq(PairStates) /\ \A id : Unpaired(f, id)
      BY <1>1 DEF Unpaired
    <2>2. ASSUME NEW id, NEW p, NEW q, Pairing(id, p, q)
          PROVE  ~(p.record <= 0)
      <3>1. p \in Relations!Places
        BY <2>2 DEF Pairing, Relations!Uses
      <3>2. p.record \in 1 .. Len(b)
        BY <1>1, <3>1, PlacesAre
      <3>3. QED
        BY <3>2
    <2>3. QED
      BY <1>1, <2>1, <2>2 DEF PairsOfFirst
  <1>5. RepliesOfFirst(g, c)
    BY <1>1 DEF RepliesOfFirst
  <1>6. QED
    BY <1>1, <1>2, <1>3, <1>4, <1>5 DEF RelationsInv

LEMMA ParentsAre ==
    ASSUME b \in Readable, NEW r \in 1 .. Len(b), NEW x \in Relations!Parents(r)
    PROVE  /\ x \in 1 .. Len(b)
           /\ a \in {"claude", "omp"} =>
                 {y \in 1 .. Len(b) : b[y].id = b[r].parent} = {x}
  <1> DEFINE parents == Relations!WithId(b[r].parent)
  <1>1. Relations!Positions = 1 .. Len(b)
    BY TranscriptIs
  <1>2. parents = {y \in 1 .. Len(b) : b[r].parent # 0 /\ b[y].id = b[r].parent}
    BY <1>1 DEF Relations!WithId
  <1>3. IsFiniteSet(1 .. Len(b))
    <2>1. \A k \in Int : IsFiniteSet(1 .. k)
      BY FS_Interval
    <2>2. QED
      BY <2>1, TranscriptIs
  <1>4. IsFiniteSet(parents) /\ parents \in SUBSET (1 .. Len(b))
    <2>1. parents \in SUBSET (1 .. Len(b))
      BY <1>2
    <2> HIDE DEF parents
    <2>2. QED
      BY <1>3, <2>1, FS_Subset
  <1>5. CASE a = "omp v1"
    BY <1>1, <1>5 DEF Relations!Parents
  <1>6. CASE a # "omp v1"
    <2>1. x \in parents /\ Cardinality(parents) = 1
      BY <1>6, CountThere DEF Relations!Parents
    <2>2. \E y : parents = {y}
      <3> HIDE DEF parents
      <3>1. QED
        BY <1>4, <2>1, FS_Singleton
    <2>3. parents = {x}
      BY <2>1, <2>2
    <2>4. QED
      BY <1>2, <1>4, <2>1, <2>3
  <1>7. QED
    BY <1>5, <1>6

LEMMA RelationsStep ==
    ASSUME RelationsInv, Relations!Next
    PROVE  RelationsInv'
  <1>1. /\ a \in Relations!Harnesses /\ b \in Readable /\ c \in 0 .. Len(b)
        /\ PairsOfFirst(f, c) /\ RepliesOfFirst(g, c)
    BY DEF RelationsInv
  <1>2. PICK r, last :
           /\ c < Len(b) /\ r = c + 1
           /\ last = [record |-> r, event |-> Len(b[r].events)]
           /\ c' = r
           /\ d' = Relations!After("call", last) /\ e' = Relations!After("result", last)
           /\ f' = f \o IF a = "claude" THEN Relations!ClaudePairs(d', e', r)
                        ELSE Relations!EventPairs(r)
           /\ g' = IF Relations!Parents(r) = {} THEN g
                   ELSE Append(g, <<r, CHOOSE p \in Relations!Parents(r) : TRUE>>)
           /\ a' = a /\ b' = b
    BY DEF Relations!Next
  <1>3. /\ Len(b) \in Nat /\ c \in Nat /\ r \in 1 .. Len(b) /\ r \in 0 .. Len(b)
        /\ r \in Nat
    <2>1. Len(b) \in Nat
      BY <1>1, TranscriptIs
    <2>2. QED
      BY <1>1, <1>2, <2>1
  <1>4. Relations!Places' = Relations!Places
    BY <1>2, TranscriptStays
  <1>5. AtPlaces(d') /\ AtPlaces(e')
    <2>1. \A kind : Relations!After(kind, last) =
             [id \in Relations!Ids |-> Relations!After(kind, last)[id]]
      BY DEF Relations!After
    <2>2. ASSUME NEW kind, NEW s, s = Relations!After(kind, last)
          PROVE  AtPlaces(s)
      <3>1. DOMAIN s = Relations!Ids
        BY <2>1, <2>2
      <3>2. \A id \in Relations!Ids : s[id] \in Seq(Relations!Places)
        BY <1>1, <2>2, AfterIs
      <3>3. QED
        BY <3>1, <3>2 DEF AtPlaces
    <2>3. QED
      BY <1>2, <2>2
  <1>6. PairsOfFirst(f', r)
    <2>1. PICK t : t = IF a = "claude" THEN Relations!ClaudePairs(d', e', r)
                       ELSE Relations!EventPairs(r)
      OBVIOUS
    <2>2. PairsOfRecord(Relations!ClaudePairs(d', e', r), r)
      BY <1>1, <1>2, <1>3, ClaudeAdds
    <2>3. PairsOfRecord(Relations!EventPairs(r), r)
      BY <1>1, <1>3, EventsAdd
    <2>4. PairsOfRecord(t, c + 1) /\ f' = f \o t
      BY <1>2, <2>1, <2>2, <2>3
    <2>5. PairsOfFirst(f \o t, c + 1)
      BY <1>1, <1>3, <2>4, RecordAddsPairs
    <2>6. QED
      BY <1>2, <2>4, <2>5
  <1>7. RepliesOfFirst(g', r)
    <2>1. CASE Relations!Parents(r) = {}
      <3>1. g' = g
        BY <1>2, <2>1
      <3>2. \A m \in DOMAIN g : g[m][1] <= c => g[m][1] <= r
        BY <1>1, <1>2, <1>3 DEF RepliesOfFirst
      <3>3. QED
        BY <1>1, <3>1, <3>2 DEF RepliesOfFirst
    <2>2. CASE Relations!Parents(r) # {}
      <3>1. PICK x \in Relations!Parents(r) : g' = Append(g, <<r, x>>)
        BY <1>2, <2>2
      <3>2. /\ x \in 1 .. Len(b)
            /\ a \in {"claude", "omp"} =>
                  {y \in 1 .. Len(b) : b[y].id = b[r].parent} = {x}
        BY <1>1, <1>3, ParentsAre
      <3>3. /\ g \in Seq((1 .. Len(b)) \X (1 .. Len(b))) /\ Len(g) \in Nat
            /\ DOMAIN g = 1 .. Len(g)
        BY <1>1 DEF RepliesOfFirst
      <3>4. /\ g' \in Seq((1 .. Len(b)) \X (1 .. Len(b)))
            /\ DOMAIN g' = 1 .. Len(g) + 1
            /\ \A m \in 1 .. Len(g) : g'[m] = g[m]
            /\ g'[Len(g) + 1] = <<r, x>>
        BY <1>3, <3>1, <3>2, <3>3
      <3>5. \A m \in DOMAIN g' : \/ m \in DOMAIN g /\ g'[m] = g[m]
                                 \/ m = Len(g) + 1 /\ g'[m] = <<r, x>>
        <4>1. \A k \in Nat : \A m \in 1 .. k + 1 : m \in 1 .. k \/ m = k + 1
          OBVIOUS
        <4>2. \A m \in 1 .. Len(g) + 1 : m \in 1 .. Len(g) \/ m = Len(g) + 1
          BY <3>3, <4>1
        <4>3. QED
          BY <3>3, <3>4, <4>2
      <3>6. \A m \in DOMAIN g : g[m][1] <= c /\ g[m][1] \in Nat
        BY <1>1, <3>3 DEF RepliesOfFirst
      <3>7. \A m \in DOMAIN g' : g'[m][1] <= r
        BY <1>2, <1>3, <3>5, <3>6
      <3>8. \A k, m \in DOMAIN g' : g'[k][1] = g'[m][1] => k = m
        <4>1. \A m \in DOMAIN g : g[m][1] # r
          BY <1>2, <1>3, <3>6
        <4>2. \A k, m \in DOMAIN g : g[k][1] = g[m][1] => k = m
          BY <1>1 DEF RepliesOfFirst
        <4>3. QED
          BY <3>5, <4>1, <4>2
      <3>9. a \in {"claude", "omp"} =>
               \A m \in DOMAIN g' :
                  {y \in 1 .. Len(b) : b[y].id = b[g'[m][1]].parent} = {g'[m][2]}
        <4>1. SUFFICES ASSUME a \in {"claude", "omp"}, NEW m \in DOMAIN g'
                       PROVE  {y \in 1 .. Len(b) : b[y].id = b[g'[m][1]].parent} =
                                 {g'[m][2]}
          OBVIOUS
        <4>2. CASE m \in DOMAIN g /\ g'[m] = g[m]
          BY <1>1, <4>1, <4>2 DEF RepliesOfFirst
        <4>3. CASE g'[m] = <<r, x>>
          BY <3>2, <4>1, <4>3
        <4>4. QED
          BY <3>5, <4>2, <4>3
      <3>10. QED
        BY <3>4, <3>7, <3>8, <3>9 DEF RepliesOfFirst
    <2>3. QED
      BY <2>1, <2>2
  <1>8. AtPlaces(d)' /\ AtPlaces(e)'
    BY <1>4, <1>5 DEF AtPlaces
  <1>9. PairsOfFirst(f, c)'
    BY <1>2, <1>6, TranscriptStays
  <1>10. RepliesOfFirst(g, c)'
    BY <1>2, <1>7 DEF RepliesOfFirst
  <1>11. QED
    BY <1>1, <1>2, <1>3, <1>8, <1>9, <1>10 DEF RelationsInv, Relations!Harnesses

LEMMA RelationsAlways == Spec => [](part = "read" => RelationsInv)
  <1> DEFINE Inv == part = "read" => RelationsInv
  <1>1. Init => Inv
    BY RelationsBegin DEF Init
  <1>2. Inv /\ [Next]_vars => Inv'
    <2> SUFFICES ASSUME Inv, [Next]_vars, part' = "read"
                 PROVE  RelationsInv'
      OBVIOUS
    <2>1. CASE UNCHANGED vars
      <3>1. /\ a' = a /\ b' = b /\ c' = c /\ d' = d /\ e' = e /\ f' = f /\ g' = g
            /\ RelationsInv
        BY <2>1 DEF vars
      <3>2. PairsOfFirst(f, c)' /\ Relations!Places' = Relations!Places
        BY <3>1, TranscriptStays DEF RelationsInv
      <3>3. QED
        BY <3>1, <3>2 DEF RelationsInv, AtPlaces, RepliesOfFirst, Relations!Harnesses
    <2>2. CASE Next
      <3>1. part = "read"
        BY <2>2 DEF Next
      <3>2. Relations!Next
        BY <2>2, <3>1 DEF Next, RunState, RunInit, RunList, RunScan, RunRead,
           RunShow, RunCompletion, RunCurrent
      <3>3. QED
        BY <3>1, <3>2, RelationsStep
    <2>3. QED
      BY <2>1, <2>2
  <1>3. QED
    BY <1>1, <1>2, PTL DEF Spec

\* The tool pairs of a read are those of the whole transcript, emitted once, with
\* the later of the two events (Codex and OMP) or its record (Claude), although
\* the first pass only counts and the second only looks back; and no record replies
\* to two, or to one that another record could be.
THEOREM RelationsAreExact == Spec => []RelationsExact
  <1>1. ASSUME RelationsInv
        PROVE  Relations!RelationsExact
    <2>1. b \in Readable /\ c \in Nat /\ PairsOfFirst(f, c) /\ RepliesOfFirst(g, c)
      BY <1>1, TranscriptIs DEF RelationsInv
    <2>2. ASSUME NEW id \in Relations!Ids, Relations!EverCounted(id), NEW emitted,
                 emitted = {n \in DOMAIN f : f[n].id = id}
          PROVE  IF /\ Relations!Cardinality(Relations!Uses("call", id)) = 1
                    /\ Relations!Cardinality(Relations!Uses("result", id)) = 1
                    /\ \A p \in Relations!Uses("call", id) \cup
                                Relations!Uses("result", id) : p.record <= c
                 THEN /\ Relations!Cardinality(emitted) = 1
                      /\ \A n \in emitted :
                            /\ Relations!Uses("call", id) = {f[n].call}
                            /\ Relations!Uses("result", id) = {f[n].result}
                 ELSE emitted = {}
      <3>1. \A kind : IsFiniteSet(Relations!Uses(kind, id))
        <4>1. \A kind : Relations!Uses(kind, id) \in SUBSET Relations!Places
          BY DEF Relations!Uses
        <4>2. QED
          BY <2>1, <4>1, PlacesAre, FS_Subset
      <3>2. \A kind : Relations!Cardinality(Relations!Uses(kind, id)) = 1 <=>
                         \E p : Relations!Uses(kind, id) = {p}
        BY <3>1, CountThere, FS_Singleton
      <3>3. CASE \A p, q : ~Pairing(id, p, q)
        <4>1. emitted = {}
          BY <2>1, <2>2, <3>3 DEF PairsOfFirst, Unpaired
        <4>2. QED
          BY <3>2, <3>3, <4>1 DEF Pairing
      <3>4. CASE \E p, q : Pairing(id, p, q)
        <4>1. PICK p, q : Pairing(id, p, q)
          BY <3>4
        <4>2. Relations!Uses("call", id) = {p} /\ Relations!Uses("result", id) = {q}
          BY <4>1 DEF Pairing
        <4>3. IF p.record <= c /\ q.record <= c THEN PairedOnce(f, id, p, q)
              ELSE Unpaired(f, id)
          BY <2>1, <2>2, <4>1 DEF PairsOfFirst
        <4>4. (\A x \in {p} \cup {q} : x.record <= c) <=> p.record <= c /\ q.record <= c
          OBVIOUS
        <4>5. Unpaired(f, id) => emitted = {}
          BY <2>2 DEF Unpaired
        <4>6. ASSUME PairedOnce(f, id, p, q)
              PROVE  /\ Relations!Cardinality(emitted) = 1
                     /\ \A n \in emitted : f[n].call = p /\ f[n].result = q
          <5>1. PICK n \in DOMAIN f : /\ f[n].call = p /\ f[n].result = q
                                      /\ \A m \in DOMAIN f : f[m].id = id <=> m = n
            BY <4>6 DEF PairedOnce
          <5>2. emitted = {n}
            BY <2>2, <5>1
          <5>3. QED
            BY <5>1, <5>2, CountThere, FS_Singleton
        <4>7. QED
          BY <3>2, <4>2, <4>3, <4>4, <4>5, <4>6
      <3>5. QED
        BY <3>3, <3>4
    <2>3. /\ \A k, m \in DOMAIN g : g[k][1] = g[m][1] => k = m
          /\ a \in {"claude", "omp"} =>
                \A m \in DOMAIN g :
                   {r \in Relations!Positions : b[r].id = b[g[m][1]].parent} = {g[m][2]}
      BY <2>1, TranscriptIs DEF RepliesOfFirst
    <2>4. QED
      BY <2>2, <2>3 DEF Relations!RelationsExact
  <1>2. (part = "read" => RelationsInv) => RelationsExact
    BY <1>1 DEF RelationsExact
  <1>3. QED
    BY <1>2, RelationsAlways, PTL
=============================================================================
