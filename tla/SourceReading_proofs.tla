------------------------ MODULE SourceReading_proofs ------------------------
(***************************************************************************)
(* Proofs about SourceReading, for files of any content, any number of     *)
(* changes and openings, and any record policy.                            *)
(*                                                                         *)
(* The plain reader's argument is about how an index splits bytes into     *)
(* records.  A token covers a prefix that some index split; the index of a *)
(* later opening splits bytes that begin with that prefix; and two indexes *)
(* of the same bytes agree record by record (SameRecords), because a       *)
(* record ends at the first newline behind its start.                      *)
(***************************************************************************)
EXTENDS SourceReading, SequenceTheorems, WellFoundedInduction, TLAPS

-----------------------------------------------------------------------------
(* Sequences and numbers.                                                  *)

\* Every set of natural numbers has a least element.
LEMMA Least ==
    ASSUME NEW S \in SUBSET Nat, S # {}
    PROVE  \E m \in S : \A k \in S : m <= k
  <1> DEFINE R == {ss \in Nat \X Nat : ss[1] < ss[2]}
  <1>1. IsWellFoundedOn(R, Nat)
    BY NatLessThanWellFounded DEF OpToRel
  <1> HIDE DEF R
  <1>2. PICK m \in S : \A k \in S : ~(<<k, m>> \in R)
    BY <1>1, WFMin
  <1>3. \A k \in S : ~(k < m)
    BY <1>2 DEF R
  <1>4. QED
    BY <1>3

\* The stretch from m to n of a sequence it lies within.
LEMMA Stretch ==
    ASSUME NEW S, NEW s \in Seq(S), NEW m \in Nat, NEW n \in Nat,
           1 <= m, m <= n + 1, n <= Len(s)
    PROVE  /\ SubSeq(s, m, n) \in Seq(S)
           /\ Len(SubSeq(s, m, n)) = n - m + 1
           /\ \A i \in 1 .. (n - m + 1) : SubSeq(s, m, n)[i] = s[m + i - 1]
  <1>1. \A i \in m .. n : s[i] \in S
    BY ElementOfSeq
  <1>2. QED
    BY <1>1, SubSeqProperties

\* One more element is one more of the rest.
LEMMA AppendRest ==
    ASSUME NEW S, NEW s \in Seq(S), NEW e \in S, NEW start \in 0 .. Len(s)
    PROVE  Append(SubSeq(s, start + 1, Len(s)), e) =
           SubSeq(Append(s, e), start + 1, Len(Append(s, e)))
  <1> DEFINE rest == SubSeq(s, start + 1, Len(s))
             longer == Append(s, e)
             longerRest == SubSeq(longer, start + 1, Len(longer))
  <1>1. Len(s) \in Nat /\ start \in Nat /\ start <= Len(s)
    BY LenProperties
  <1>2. /\ longer \in Seq(S)
        /\ Len(longer) = Len(s) + 1
        /\ \A i \in 1 .. Len(s) : longer[i] = s[i]
        /\ longer[Len(s) + 1] = e
    BY AppendProperties
  <1>3. /\ rest \in Seq(S)
        /\ Len(rest) = Len(s) - (start + 1) + 1
        /\ \A i \in 1 .. (Len(s) - (start + 1) + 1) :
              rest[i] = s[(start + 1) + i - 1]
    BY <1>1, Stretch
  <1> HIDE DEF longer
  <1>4. /\ longerRest \in Seq(S)
        /\ Len(longerRest) = Len(longer) - (start + 1) + 1
        /\ \A i \in 1 .. (Len(longer) - (start + 1) + 1) :
              longerRest[i] = longer[(start + 1) + i - 1]
    <2>1. start + 1 \in Nat /\ Len(longer) \in Nat /\ start + 1 <= Len(longer) + 1
      BY <1>1, <1>2
    <2>2. QED
      BY <1>1, <1>2, <2>1, Stretch
  <1> HIDE DEF rest, longerRest
  <1>5. /\ Append(rest, e) \in Seq(S)
        /\ Len(Append(rest, e)) = Len(rest) + 1
        /\ \A i \in 1 .. Len(rest) : Append(rest, e)[i] = rest[i]
        /\ Append(rest, e)[Len(rest) + 1] = e
    BY <1>3, AppendProperties
  <1> DEFINE n == Len(s) - start
  <1>6. Len(rest) = n /\ Len(longerRest) = n + 1 /\ n \in Nat
    BY <1>1, <1>2, <1>3, <1>4
  <1>7. ASSUME NEW i \in 1 .. (n + 1)
        PROVE  Append(rest, e)[i] = longerRest[i]
    <2>1. longerRest[i] = longer[start + i]
      <3>1. i \in 1 .. (Len(longer) - (start + 1) + 1)
        BY <1>1, <1>2
      <3>2. longerRest[i] = longer[(start + 1) + i - 1]
        BY <1>4, <3>1
      <3>3. (start + 1) + i - 1 = start + i
        BY <1>1
      <3>4. QED
        BY <3>2, <3>3
    <2>2. CASE i = n + 1
      BY <1>1, <1>2, <1>5, <1>6, <2>1, <2>2
    <2>3. CASE i \in 1 .. n
      <3>1. Append(rest, e)[i] = rest[i]
        BY <1>5, <1>6, <2>3
      <3>2. rest[i] = s[start + i]
        BY <1>1, <1>3, <2>3
      <3>3. start + i \in 1 .. Len(s)
        BY <1>1, <2>3
      <3>4. QED
        BY <1>2, <2>1, <3>1, <3>2, <3>3
    <2>4. QED
      BY <1>6, <2>2, <2>3
  <1>8. Append(rest, e) = longerRest
    BY <1>4, <1>5, <1>6, <1>7, SeqEqual
  <1>9. QED
    BY <1>8 DEF rest, longerRest, longer

-----------------------------------------------------------------------------
(* How an index splits bytes.                                              *)

\* The k-th record follows the one before it, holds the bytes the file has
\* there, and ends at the first newline, or at the end of the bytes if it is
\* the last.
Part(index, bytes, k) ==
    /\ index[k].start = EndAfter(index, k - 1)
    /\ Len(index[k].raw) > 0
    /\ EndOf(index[k]) <= Len(bytes)
    /\ \A i \in 1 .. Len(index[k].raw) :
          index[k].raw[i] = bytes[index[k].start + i]
    /\ \A i \in 1 .. (Len(index[k].raw) - 1) : index[k].raw[i] # Newline
    /\ \/ index[k].raw[Len(index[k].raw)] = Newline
       \/ k = Len(index) /\ EndOf(index[k]) = Len(bytes)
    /\ \A j \in 1 .. (k - 1) : EndOf(index[j]) <= index[k].start
Parts(index, bytes) == \A k \in 1 .. Len(index) : Part(index, bytes, k)

\* Every record ends with a newline.
Terminated(index) ==
    \A k \in 1 .. Len(index) : index[k].raw[Len(index[k].raw)] = Newline

\* Every newline among the first n bytes ends a record.
Covers(index, bytes, n) ==
    \A i \in 1 .. n :
        bytes[i] = Newline => \E k \in 1 .. Len(index) : EndOf(index[k]) = i

\* The fields of a record.
LEMMA RecordFields ==
    ASSUME NEW index \in Seq(Records), NEW k \in 1 .. Len(index)
    PROVE  /\ index[k] \in Records
           /\ index[k].start \in Nat
           /\ index[k].raw \in Seq(Bytes)
           /\ Len(index[k].raw) \in Nat
           /\ EndOf(index[k]) \in Nat
           /\ index[k].start <= EndOf(index[k])
           /\ EndAfter(index, k) = EndOf(index[k])
  <1>1. index[k] \in Records
    BY ElementOfSeq
  <1>2. /\ index[k].start \in Nat
        /\ index[k].raw \in Seq(Bytes)
    BY <1>1 DEF Records
  <1>3. Len(index[k].raw) \in Nat
    BY <1>2, LenProperties
  <1>4. QED
    BY <1>1, <1>2, <1>3 DEF EndOf, EndAfter

\* The end of an index lies within the bytes, and behind every record.
LEMMA IndexWithin ==
    ASSUME NEW index \in Seq(Records), NEW bytes \in Seq(Bytes),
           Parts(index, bytes), NEW n \in 0 .. Len(index)
    PROVE  /\ Len(index) \in Nat
           /\ Len(bytes) \in Nat
           /\ EndAfter(index, n) \in 0 .. Len(bytes)
           /\ \A k \in 1 .. n : EndOf(index[k]) <= EndAfter(index, n)
           /\ n > 0 => EndAfter(index, n) > 0
  <1>1. Len(index) \in Nat /\ Len(bytes) \in Nat
    BY LenProperties
  <1>2. CASE n = 0
    BY <1>1, <1>2 DEF EndAfter
  <1>3. CASE n > 0
    <2>1. n \in 1 .. Len(index)
      BY <1>1, <1>3
    <2>2. Part(index, bytes, n)
      BY <2>1 DEF Parts
    <2>3. /\ EndAfter(index, n) = EndOf(index[n])
          /\ EndOf(index[n]) \in Nat
          /\ index[n].start \in Nat
          /\ Len(index[n].raw) \in Nat
          /\ index[n].start <= EndOf(index[n])
      BY <2>1, RecordFields
    <2>4. EndAfter(index, n) \in 0 .. Len(bytes)
      BY <1>1, <2>2, <2>3 DEF Part
    <2>5. \A k \in 1 .. n : EndOf(index[k]) <= EndAfter(index, n)
      <3> TAKE k \in 1 .. n
      <3>1. k \in 1 .. Len(index)
        BY <1>1, <2>1
      <3>2. EndOf(index[k]) \in Nat
        BY <3>1, RecordFields
      <3>3. CASE k = n
        BY <3>2, <3>3, <2>3
      <3>4. CASE k < n
        <4>1. k \in 1 .. (n - 1)
          BY <3>4, <2>1
        <4>2. EndOf(index[k]) <= index[n].start
          BY <4>1, <2>2 DEF Part
        <4>3. QED
          BY <4>2, <3>2, <2>3
      <3>5. QED
        BY <3>3, <3>4, <2>1
    <2>6. EndAfter(index, n) > 0
      BY <2>2, <2>3 DEF Part, EndOf
    <2>7. QED
      BY <1>1, <2>4, <2>5, <2>6
  <1>4. QED
    BY <1>2, <1>3, <1>1

\* One more byte leaves an index whose records are all terminated in place.
LEMMA IndexRead ==
    ASSUME NEW index \in Seq(Records), NEW bytes \in Seq(Bytes),
           NEW byte \in Bytes,
           Parts(index, bytes), Terminated(index),
           Covers(index, bytes, Len(bytes))
    PROVE  /\ Parts(index, Append(bytes, byte))
           /\ Covers(index, Append(bytes, byte), Len(bytes))
           /\ byte # Newline => Covers(index, Append(bytes, byte), Len(bytes) + 1)
  <1> DEFINE longer == Append(bytes, byte)
  <1>1. /\ longer \in Seq(Bytes)
        /\ Len(longer) = Len(bytes) + 1
        /\ \A i \in 1 .. Len(bytes) : longer[i] = bytes[i]
        /\ longer[Len(bytes) + 1] = byte
        /\ Len(bytes) \in Nat
    BY AppendProperties, LenProperties
  <1> HIDE DEF longer
  <1>2. ASSUME NEW k \in 1 .. Len(index)
        PROVE  Part(index, longer, k)
    <2>1. Part(index, bytes, k)
      BY DEF Parts
    <2>2. /\ index[k].start \in Nat
          /\ Len(index[k].raw) \in Nat
          /\ EndOf(index[k]) \in Nat
      BY RecordFields
    <2>3. EndOf(index[k]) <= Len(longer)
      BY <1>1, <2>1, <2>2 DEF Part
    <2>4. ASSUME NEW i \in 1 .. Len(index[k].raw)
          PROVE  index[k].raw[i] = longer[index[k].start + i]
      <3>1. index[k].start + i \in 1 .. Len(bytes)
        BY <1>1, <2>1, <2>2 DEF Part, EndOf
      <3>2. QED
        BY <3>1, <1>1, <2>1 DEF Part
    <2>5. index[k].raw[Len(index[k].raw)] = Newline
      BY DEF Terminated
    <2>6. QED
      BY <2>1, <2>3, <2>4, <2>5 DEF Part
  <1>3. Covers(index, longer, Len(bytes))
    BY <1>1 DEF Covers
  <1>4. ASSUME byte # Newline
        PROVE  Covers(index, longer, Len(bytes) + 1)
    BY <1>1, <1>3, <1>4 DEF Covers
  <1>5. QED
    BY <1>2, <1>3, <1>4 DEF Parts, longer

\* What is left of the bytes behind start, and an index with one more record,
\* by what they hold.
IsRest(raw, bytes, start) ==
    /\ Len(raw) = Len(bytes) - start
    /\ \A i \in 1 .. Len(raw) : raw[i] = bytes[start + i]
OneMore(longer, index, record) ==
    /\ longer \in Seq(Records)
    /\ Len(longer) = Len(index) + 1
    /\ \A k \in 1 .. Len(index) : longer[k] = index[k]
    /\ longer[Len(index) + 1] = record

\* Indexing the rest of the bytes, which holds no newline but at its end, ends
\* the index where the bytes end.
LEMMA IndexRestAt ==
    ASSUME NEW index \in Seq(Records), NEW bytes \in Seq(Bytes),
           Parts(index, bytes), Terminated(index),
           Covers(index, bytes, Len(bytes) - 1),
           NEW start \in Nat, start = EndAfter(index, Len(index)),
           start < Len(bytes),
           NEW raw \in Seq(Bytes), IsRest(raw, bytes, start),
           NEW longer, OneMore(longer, index, [start |-> start, raw |-> raw])
    PROVE  /\ Parts(longer, bytes)
           /\ EndAfter(longer, Len(longer)) = Len(bytes)
           /\ bytes[Len(bytes)] = Newline => Terminated(longer)
           /\ Covers(longer, bytes, Len(bytes))
  <1> USE DEF IsRest, OneMore
  <1>1. /\ Len(index) \in Nat
        /\ Len(bytes) \in Nat
        /\ \A k \in 1 .. Len(index) : EndOf(index[k]) <= start
    <2>1. Len(index) \in 0 .. Len(index)
      BY LenProperties
    <2>2. QED
      BY <2>1, IndexWithin
  <1> DEFINE last == Len(index) + 1
  <1>2. /\ longer[last].start = start
        /\ longer[last].raw = raw
        /\ last \in Nat
        /\ Len(longer) = last
        /\ last - 1 = Len(index)
        /\ last > 0
    BY <1>1
  <1>3. \A k \in 1 .. last : k \in 1 .. Len(index) \/ k = last
    BY <1>1
  <1> HIDE DEF last
  <1>4. EndOf(longer[last]) = Len(bytes)
    BY <1>1, <1>2 DEF EndOf
  <1>5. EndAfter(longer, Len(longer)) = Len(bytes)
    BY <1>2, <1>4 DEF EndAfter
  <1>6. \A i \in 1 .. (Len(raw) - 1) : raw[i] # Newline
    <2> SUFFICES ASSUME NEW i \in 1 .. (Len(raw) - 1), raw[i] = Newline
                 PROVE  FALSE
      OBVIOUS
    <2>1. start + i \in 1 .. (Len(bytes) - 1)
      BY <1>1
    <2>2. bytes[start + i] = Newline
      BY <1>1
    <2>3. PICK k \in 1 .. Len(index) : EndOf(index[k]) = start + i
      BY <2>1, <2>2 DEF Covers
    <2>4. QED
      BY <2>3, <1>1
  <1>7. ASSUME NEW k \in 1 .. Len(index)
        PROVE  Part(longer, bytes, k)
    <2>1. Part(index, bytes, k)
      BY DEF Parts
    <2>2. longer[k] = index[k]
      OBVIOUS
    <2>3. k - 1 = 0 \/ k - 1 \in 1 .. Len(index)
      BY <1>1
    <2>4. EndAfter(longer, k - 1) = EndAfter(index, k - 1)
      BY <2>3 DEF EndAfter
    <2>5. index[k].raw[Len(index[k].raw)] = Newline
      BY DEF Terminated
    <2>6. \A j \in 1 .. (k - 1) : longer[j] = index[j]
      BY <1>1
    <2>7. QED
      BY <2>1, <2>2, <2>4, <2>5, <2>6 DEF Part
  <1>8. Part(longer, bytes, last)
    <2>1. EndAfter(longer, last - 1) = start
      <3>1. CASE Len(index) = 0
        BY <1>2, <3>1 DEF EndAfter
      <3>2. CASE Len(index) # 0
        <4>1. longer[Len(index)] = index[Len(index)]
          BY <1>1, <3>2
        <4>2. QED
          BY <1>2, <3>2, <4>1 DEF EndAfter
      <3>3. QED
        BY <3>1, <3>2
    <2>2. \A j \in 1 .. (last - 1) : EndOf(longer[j]) <= start
      BY <1>1, <1>2
    <2>3. Len(raw) > 0
      BY <1>1
    <2>4. EndOf(longer[last]) <= Len(bytes)
      BY <1>1, <1>4
    <2>5. QED
      BY <1>2, <1>4, <1>6, <2>1, <2>2, <2>3, <2>4 DEF Part
  <1>9. Parts(longer, bytes)
    BY <1>2, <1>3, <1>7, <1>8 DEF Parts
  <1>10. ASSUME bytes[Len(bytes)] = Newline
         PROVE  Terminated(longer)
    <2>1. Len(raw) \in 1 .. Len(raw) /\ start + Len(raw) = Len(bytes)
      BY <1>1
    <2>2. raw[Len(raw)] = Newline
      BY <1>10, <2>1
    <2>3. ASSUME NEW k \in 1 .. Len(longer)
          PROVE  longer[k].raw[Len(longer[k].raw)] = Newline
      <3>1. CASE k = last
        BY <1>2, <2>2, <3>1
      <3>2. CASE k \in 1 .. Len(index)
        BY <3>2 DEF Terminated
      <3>3. QED
        BY <1>2, <1>3, <3>1, <3>2
    <2>4. QED
      BY <2>3 DEF Terminated
  <1>11. Covers(longer, bytes, Len(bytes))
    <2> SUFFICES ASSUME NEW i \in 1 .. Len(bytes), bytes[i] = Newline
                 PROVE  \E k \in 1 .. Len(longer) : EndOf(longer[k]) = i
      BY DEF Covers
    <2>1. CASE i = Len(bytes)
      <3>1. last \in 1 .. Len(longer)
        BY <1>2
      <3>2. QED
        BY <1>4, <2>1, <3>1
    <2>2. CASE i \in 1 .. (Len(bytes) - 1)
      <3>1. PICK k \in 1 .. Len(index) : EndOf(index[k]) = i
        BY <2>2 DEF Covers
      <3>2. k \in 1 .. Len(longer)
        BY <1>1
      <3>3. EndOf(longer[k]) = i
        BY <3>1
      <3>4. QED
        BY <3>2, <3>3
    <2>3. QED
      BY <1>1, <2>1, <2>2
  <1>12. QED
    BY <1>5, <1>9, <1>10, <1>11

\* The same of the index the code makes (Indexed).
LEMMA IndexRest ==
    ASSUME NEW index \in Seq(Records), NEW bytes \in Seq(Bytes),
           Parts(index, bytes), Terminated(index),
           Covers(index, bytes, Len(bytes) - 1),
           EndAfter(index, Len(index)) < Len(bytes)
    PROVE  LET start == EndAfter(index, Len(index))
               longer == Append(index,
                                [start |-> start,
                                 raw |-> SubSeq(bytes, start + 1, Len(bytes))])
           IN  /\ longer \in Seq(Records)
               /\ Parts(longer, bytes)
               /\ EndAfter(longer, Len(longer)) = Len(bytes)
               /\ bytes[Len(bytes)] = Newline => Terminated(longer)
               /\ Covers(longer, bytes, Len(bytes))
  <1> DEFINE start == EndAfter(index, Len(index))
             raw == SubSeq(bytes, start + 1, Len(bytes))
             record == [start |-> start, raw |-> raw]
             longer == Append(index, record)
  <1>1. /\ Len(bytes) \in Nat
        /\ start \in Nat
        /\ start < Len(bytes)
    <2>1. Len(index) \in 0 .. Len(index)
      BY LenProperties
    <2>2. QED
      BY <2>1, IndexWithin
  <1> HIDE DEF start
  <1>2. /\ raw \in Seq(Bytes)
        /\ Len(raw) = Len(bytes) - (start + 1) + 1
        /\ \A i \in 1 .. (Len(bytes) - (start + 1) + 1) :
              raw[i] = bytes[(start + 1) + i - 1]
    BY <1>1, Stretch
  <1> HIDE DEF raw
  <1>3. Len(raw) = Len(bytes) - start
    BY <1>1, <1>2
  <1>4. ASSUME NEW i \in 1 .. Len(raw)
        PROVE  raw[i] = bytes[start + i]
    BY <1>1, <1>2
  <1>5. record \in Records
    BY <1>1, <1>2 DEF Records
  <1> HIDE DEF record
  <1>6. /\ longer \in Seq(Records)
        /\ Len(longer) = Len(index) + 1
        /\ \A k \in 1 .. Len(index) : longer[k] = index[k]
        /\ longer[Len(index) + 1] = record
    BY <1>5, AppendProperties
  <1> HIDE DEF longer
  <1>7. start = EndAfter(index, Len(index))
    BY DEF start
  <1>8. IsRest(raw, bytes, start)
    BY <1>3, <1>4 DEF IsRest
  <1>9. OneMore(longer, index, [start |-> start, raw |-> raw])
    BY <1>6 DEF OneMore, record
  <1>10. /\ Parts(longer, bytes)
         /\ EndAfter(longer, Len(longer)) = Len(bytes)
         /\ bytes[Len(bytes)] = Newline => Terminated(longer)
         /\ Covers(longer, bytes, Len(bytes))
    BY <1>1, <1>2, <1>7, <1>8, <1>9, IndexRestAt
  <1>11. QED
    BY <1>6, <1>10 DEF longer, record, raw, start

-----------------------------------------------------------------------------
(* What a token confirms, and what a later index makes of it.              *)

\* The first n elements of a sequence, by what they are.
Begins(beginning, s, n) ==
    /\ Len(beginning) = n
    /\ \A i \in 1 .. n : beginning[i] = s[i]

LEMMA BeginsSubSeq ==
    ASSUME NEW S, NEW s \in Seq(S), NEW n \in Nat, n <= Len(s)
    PROVE  /\ SubSeq(s, 1, n) \in Seq(S)
           /\ Begins(SubSeq(s, 1, n), s, n)
  <1>1. /\ SubSeq(s, 1, n) \in Seq(S)
        /\ Len(SubSeq(s, 1, n)) = n - 1 + 1
        /\ \A i \in 1 .. (n - 1 + 1) : SubSeq(s, 1, n)[i] = s[1 + i - 1]
    BY Stretch
  <1>2. n - 1 + 1 = n /\ \A i \in 1 .. n : 1 + i - 1 = i
    OBVIOUS
  <1>3. QED
    BY <1>1, <1>2 DEF Begins

\* The first n records of an index split the bytes up to their end.
LEMMA IndexBegins ==
    ASSUME NEW index \in Seq(Records), NEW bytes \in Seq(Bytes),
           Parts(index, bytes), NEW n \in 0 .. Len(index),
           NEW prefix \in Seq(Bytes),
           Begins(prefix, bytes, EndAfter(index, n)),
           NEW confirmed \in Seq(Records), Begins(confirmed, index, n)
    PROVE  /\ Parts(confirmed, prefix)
           /\ EndAfter(confirmed, Len(confirmed)) = Len(prefix)
  <1>1. /\ Len(index) \in Nat
        /\ n \in Nat
        /\ Len(bytes) \in Nat
        /\ EndAfter(index, n) \in 0 .. Len(bytes)
        /\ \A k \in 1 .. n : EndOf(index[k]) <= EndAfter(index, n)
    BY IndexWithin
  <1>2. /\ Len(confirmed) = n
        /\ \A k \in 1 .. n : confirmed[k] = index[k]
        /\ Len(prefix) = EndAfter(index, n)
        /\ \A i \in 1 .. Len(prefix) : prefix[i] = bytes[i]
    BY DEF Begins
  <1>3. \A k \in 0 .. n : EndAfter(confirmed, k) = EndAfter(index, k)
    BY <1>1, <1>2 DEF EndAfter
  <1>4. ASSUME NEW k \in 1 .. n
        PROVE  Part(confirmed, prefix, k)
    <2>1. k \in 1 .. Len(index)
      BY <1>1
    <2>2. Part(index, bytes, k)
      BY <2>1 DEF Parts
    <2>3. /\ index[k].start \in Nat
          /\ Len(index[k].raw) \in Nat
          /\ EndOf(index[k]) \in Nat
          /\ EndOf(index[k]) = index[k].start + Len(index[k].raw)
      BY <2>1, RecordFields DEF EndOf
    <2>4. confirmed[k] = index[k]
      BY <1>2
    <2>5. EndAfter(confirmed, k - 1) = EndAfter(index, k - 1)
      BY <1>1, <1>3
    <2>6. EndOf(index[k]) <= Len(prefix)
      BY <1>1, <1>2
    <2>7. ASSUME NEW i \in 1 .. Len(index[k].raw)
          PROVE  index[k].raw[i] = prefix[index[k].start + i]
      <3>1. index[k].start + i \in 1 .. Len(prefix)
        BY <1>1, <1>2, <2>3, <2>6
      <3>2. QED
        BY <1>2, <2>2, <3>1 DEF Part
    <2>8. ASSUME index[k].raw[Len(index[k].raw)] # Newline
          PROVE  k = n /\ EndOf(index[k]) = Len(prefix)
      <3>1. k = Len(index) /\ EndOf(index[k]) = Len(bytes)
        BY <2>2, <2>8 DEF Part
      <3>2. k = n
        BY <1>1, <3>1
      <3>3. QED
        BY <1>1, <1>2, <2>3, <2>6, <3>1, <3>2
    <2>9. \A j \in 1 .. (k - 1) : confirmed[j] = index[j]
      BY <1>1, <1>2
    <2>10. /\ index[k].start = EndAfter(index, k - 1)
           /\ Len(index[k].raw) > 0
           /\ \A i \in 1 .. (Len(index[k].raw) - 1) : index[k].raw[i] # Newline
           /\ \A j \in 1 .. (k - 1) : EndOf(index[j]) <= index[k].start
      BY <2>2 DEF Part
    <2>11. QED
      BY <1>2, <2>4, <2>5, <2>6, <2>7, <2>8, <2>9, <2>10 DEF Part
  <1>5. Parts(confirmed, prefix)
    BY <1>2, <1>4 DEF Parts
  <1>6. EndAfter(confirmed, Len(confirmed)) = Len(prefix)
    BY <1>1, <1>2, <1>3
  <1>7. QED
    BY <1>5, <1>6

\* Two records that start at the same place of the same bytes are the same, if
\* each ends with a newline or does not end before the other: the condition
\* on the shorter sequence of bytes is what a final record of it needs.
LEMMA SameRecord ==
    ASSUME NEW index \in Seq(Records), NEW bytes \in Seq(Bytes),
           NEW confirmed \in Seq(Records), NEW prefix \in Seq(Bytes),
           Len(prefix) <= Len(bytes),
           \A i \in 1 .. Len(prefix) : prefix[i] = bytes[i],
           NEW k \in Nat, k \in 1 .. Len(index), k \in 1 .. Len(confirmed),
           Part(index, bytes, k), Part(confirmed, prefix, k),
           index[k].start = confirmed[k].start,
           \/ confirmed[k].raw[Len(confirmed[k].raw)] = Newline
           \/ EndOf(index[k]) <= EndOf(confirmed[k])
    PROVE  index[k] = confirmed[k]
  <1> DEFINE start == index[k].start
             one == index[k].raw
             other == confirmed[k].raw
  <1>1. /\ start \in Nat
        /\ one \in Seq(Bytes)
        /\ other \in Seq(Bytes)
        /\ Len(one) \in Nat /\ Len(other) \in Nat
        /\ index[k] = [start |-> start, raw |-> one]
        /\ confirmed[k] = [start |-> start, raw |-> other]
        /\ EndOf(index[k]) = start + Len(one)
        /\ EndOf(confirmed[k]) = start + Len(other)
    <2>1. index[k] \in Records /\ confirmed[k] \in Records
      BY RecordFields
    <2>2. QED
      BY <2>1, RecordFields DEF Records, EndOf
  <1>2. /\ Len(one) > 0
        /\ Len(other) > 0
        /\ Len(bytes) \in Nat
        /\ Len(prefix) \in Nat
        /\ start + Len(one) <= Len(bytes)
        /\ start + Len(other) <= Len(prefix)
    BY <1>1, LenProperties DEF Part
  <1>3. ASSUME NEW i \in Nat, i \in 1 .. Len(one), i \in 1 .. Len(other)
        PROVE  one[i] = other[i]
    <2>1. one[i] = bytes[start + i]
      BY <1>3 DEF Part
    <2>2. other[i] = prefix[start + i]
      BY <1>3 DEF Part
    <2>3. start + i \in 1 .. Len(prefix)
      BY <1>1, <1>2, <1>3
    <2>4. QED
      BY <2>1, <2>2, <2>3
  <1>4. ASSUME Len(one) < Len(other)
        PROVE  FALSE
    <2>1. /\ Len(one) \in 1 .. Len(one)
          /\ Len(one) \in 1 .. (Len(other) - 1)
          /\ Len(one) \in 1 .. Len(other)
      BY <1>1, <1>2, <1>4
    <2>2. other[Len(one)] # Newline
      BY <2>1 DEF Part
    <2>3. one[Len(one)] # Newline
      BY <1>1, <1>3, <2>1, <2>2
    <2>4. EndOf(index[k]) = Len(bytes)
      BY <2>3 DEF Part
    <2>5. QED
      BY <1>1, <1>2, <1>4, <2>4
  <1>5. ASSUME Len(other) < Len(one)
        PROVE  FALSE
    <2>1. /\ Len(other) \in 1 .. Len(other)
          /\ Len(other) \in 1 .. (Len(one) - 1)
          /\ Len(other) \in 1 .. Len(one)
      BY <1>1, <1>2, <1>5
    <2>2. one[Len(other)] # Newline
      BY <2>1 DEF Part
    <2>3. other[Len(other)] # Newline
      BY <1>1, <1>3, <2>1, <2>2
    <2>4. QED
      BY <1>1, <1>5, <2>3
  <1>6. Len(one) = Len(other)
    BY <1>1, <1>4, <1>5
  <1> HIDE DEF one, other, start
  <1>7. one = other
    <2>1. \A i \in 1 .. Len(one) : one[i] = other[i]
      BY <1>1, <1>3, <1>6
    <2>2. QED
      BY <1>1, <1>6, <2>1, SeqEqual
  <1>8. QED
    BY <1>1, <1>7

\* Two indexes of bytes of which the ones begin with the others agree on their
\* first m records, if those of the shorter end with newlines or do not end
\* before the others.
LEMMA SameRecords ==
    ASSUME NEW index \in Seq(Records), NEW bytes \in Seq(Bytes),
           NEW confirmed \in Seq(Records), NEW prefix \in Seq(Bytes),
           Parts(index, bytes), Parts(confirmed, prefix),
           Len(prefix) <= Len(bytes),
           \A i \in 1 .. Len(prefix) : prefix[i] = bytes[i],
           NEW m \in Nat, m <= Len(index), m <= Len(confirmed),
           \A k \in 1 .. m :
               \/ confirmed[k].raw[Len(confirmed[k].raw)] = Newline
               \/ EndOf(index[k]) <= EndOf(confirmed[k])
    PROVE  \A k \in 1 .. m : index[k] = confirmed[k]
  <1> DEFINE Differ == {k \in 1 .. m : index[k] # confirmed[k]}
  <1> SUFFICES ASSUME Differ # {}
               PROVE  FALSE
    OBVIOUS
  <1>1. PICK k \in Differ : \A j \in Differ : k <= j
    <2>1. Differ \in SUBSET Nat
      OBVIOUS
    <2> HIDE DEF Differ
    <2>2. QED
      BY <2>1, Least
  <1>2. /\ k \in Nat
        /\ k \in 1 .. m
        /\ k \in 1 .. Len(index)
        /\ k \in 1 .. Len(confirmed)
        /\ index[k] # confirmed[k]
    BY LenProperties
  <1>3. Part(index, bytes, k) /\ Part(confirmed, prefix, k)
    BY <1>2 DEF Parts
  <1>4. EndAfter(index, k - 1) = EndAfter(confirmed, k - 1)
    <2>1. CASE k = 1
      BY <2>1 DEF EndAfter
    <2>2. CASE k > 1
      <3>1. k - 1 \in 1 .. m /\ k - 1 # 0 /\ ~(k <= k - 1)
        BY <1>2, <2>2
      <3>2. index[k - 1] = confirmed[k - 1]
        BY <1>1, <3>1
      <3>3. QED
        BY <3>1, <3>2 DEF EndAfter
    <2>3. QED
      BY <1>2, <2>1, <2>2
  <1>5. index[k].start = confirmed[k].start
    BY <1>3, <1>4 DEF Part
  <1>6. index[k] = confirmed[k]
    BY <1>2, <1>3, <1>5, SameRecord
  <1>7. QED
    BY <1>2, <1>6

\* An index that ends where the bytes end.
Whole(index, bytes) ==
    Parts(index, bytes) /\ EndAfter(index, Len(index)) = Len(bytes)

\* findResumeIndex: where it finds the confirmed offset with its number, the
\* records before it are the confirmed ones.
LEMMA ResumeAgrees ==
    ASSUME NEW index \in Seq(Records), NEW bytes \in Seq(Bytes),
           NEW confirmed \in Seq(Records), NEW prefix \in Seq(Bytes),
           Parts(index, bytes), Whole(confirmed, prefix),
           Len(prefix) <= Len(bytes),
           \A i \in 1 .. Len(prefix) : prefix[i] = bytes[i],
           size = Len(bytes),
           ResumesAt(index, Len(prefix), Len(confirmed) + 1)
    PROVE  /\ Len(confirmed) <= Len(index)
           /\ \A k \in 1 .. Len(confirmed) : index[k] = confirmed[k]
  <1> DEFINE m == Len(confirmed)
  <1>1. /\ m \in Nat
        /\ Len(index) \in Nat
        /\ Len(bytes) \in Nat
        /\ Len(prefix) \in Nat
        /\ Parts(confirmed, prefix)
        /\ EndAfter(confirmed, m) = Len(prefix)
    BY LenProperties DEF Whole
  <1>2. m <= Len(index)
    BY <1>1 DEF ResumesAt
  <1>3. ASSUME NEW k \in 1 .. m,
               confirmed[k].raw[Len(confirmed[k].raw)] # Newline
        PROVE  EndOf(index[k]) <= EndOf(confirmed[k])
    <2>1. k = m
      BY <1>1, <1>3 DEF Parts, Part
    <2>2. /\ m \in 1 .. Len(index)
          /\ m \in 1 .. Len(confirmed)
      BY <1>1, <1>2, <2>1
    <2>3. /\ EndOf(index[m]) \in Nat
          /\ EndAfter(index, m) = EndOf(index[m])
          /\ EndAfter(confirmed, m) = EndOf(confirmed[m])
      BY <2>2, RecordFields
    <2>4. CASE m + 1 \in 1 .. Len(index)
      <3>1. index[m + 1].start = Len(prefix)
        BY <1>1, <2>4 DEF ResumesAt
      <3>2. index[m + 1].start = EndAfter(index, (m + 1) - 1)
        BY <2>4 DEF Parts, Part
      <3>3. (m + 1) - 1 = m
        BY <1>1
      <3>4. QED
        BY <1>1, <2>1, <2>3, <3>1, <3>2, <3>3
    <2>5. CASE m = Len(index)
      <3>1. EndOf(index[m]) <= Len(bytes)
        BY <2>2 DEF Parts, Part
      <3>2. Len(prefix) \in {size, EndAfter(index, Len(index))}
        BY <1>1, <2>5 DEF ResumesAt
      <3>3. QED
        BY <1>1, <2>1, <2>3, <2>5, <3>1, <3>2
    <2>6. QED
      BY <1>1, <1>2, <2>4, <2>5
  <1>4. \A k \in 1 .. m :
            \/ confirmed[k].raw[Len(confirmed[k].raw)] = Newline
            \/ EndOf(index[k]) <= EndOf(confirmed[k])
    BY <1>3
  <1>5. \A k \in 1 .. m : index[k] = confirmed[k]
    <2>1. m <= Len(confirmed)
      BY <1>1
    <2> HIDE DEF m
    <2>2. QED
      BY <1>1, <1>2, <1>4, <2>1, SameRecords
  <1>6. QED
    BY <1>2, <1>5

\* And it does find it, when the confirmed bytes end with a newline, or when
\* there are no others and the index holds all of them.
LEMMA ResumeFound ==
    ASSUME NEW index \in Seq(Records), NEW bytes \in Seq(Bytes),
           NEW confirmed \in Seq(Records), NEW prefix \in Seq(Bytes),
           Parts(index, bytes), Covers(index, bytes, Len(bytes)),
           Whole(confirmed, prefix),
           Len(prefix) <= Len(bytes),
           \A i \in 1 .. Len(prefix) : prefix[i] = bytes[i],
           \/ prefix = <<>>
           \/ prefix[Len(prefix)] = Newline
           \/ Len(prefix) = Len(bytes) /\ Whole(index, bytes)
    PROVE  ResumesAt(index, Len(prefix), Len(confirmed) + 1)
  <1> DEFINE m == Len(confirmed)
  <1>1. /\ m \in Nat
        /\ Len(index) \in Nat
        /\ Len(bytes) \in Nat
        /\ Len(prefix) \in Nat
        /\ Parts(confirmed, prefix)
        /\ EndAfter(confirmed, m) = Len(prefix)
    BY LenProperties DEF Whole
  <1>2. CASE m = 0
    <2>1. Len(prefix) = 0
      BY <1>1, <1>2 DEF EndAfter
    <2>2. CASE 1 \in 1 .. Len(index)
      <3>1. index[1].start = EndAfter(index, 1 - 1)
        BY <2>2 DEF Parts, Part
      <3>2. index[1].start = 0
        BY <3>1 DEF EndAfter
      <3>3. QED
        BY <1>2, <2>1, <2>2, <3>2 DEF ResumesAt
    <2>3. CASE Len(index) = 0
      BY <1>2, <2>1, <2>3 DEF ResumesAt, EndAfter
    <2>4. QED
      BY <1>1, <2>2, <2>3
  <1>3. CASE m > 0
    <2>1. /\ m \in 1 .. Len(confirmed)
          /\ EndOf(confirmed[m]) = Len(prefix)
          /\ Len(prefix) > 0
      BY <1>1, <1>3, RecordFields, IndexWithin
    <2>2. prefix # <<>>
      BY <2>1, EmptySeq
    <2>3. \/ prefix[Len(prefix)] = Newline
          \/ Len(prefix) = Len(bytes) /\ Whole(index, bytes)
      BY <2>2
    \* A confirmed record ends with a newline, or the rest is all of the bytes.
    <2>4. ASSUME NEW k \in 1 .. m,
                 confirmed[k].raw[Len(confirmed[k].raw)] # Newline
          PROVE  /\ k = m
                 /\ Len(prefix) = Len(bytes)
                 /\ Whole(index, bytes)
      <3>1. /\ k = Len(confirmed)
            /\ EndOf(confirmed[k]) = Len(prefix)
            /\ \A i \in 1 .. Len(confirmed[k].raw) :
                  confirmed[k].raw[i] = prefix[confirmed[k].start + i]
            /\ Len(confirmed[k].raw) > 0
        BY <1>1, <2>4 DEF Parts, Part
      <3>2. Len(confirmed[k].raw) \in 1 .. Len(confirmed[k].raw)
        BY <3>1, <2>1, RecordFields
      <3>3. confirmed[k].raw[Len(confirmed[k].raw)] = prefix[Len(prefix)]
        BY <3>1, <3>2 DEF EndOf
      <3>4. QED
        BY <2>3, <2>4, <3>1, <3>3
    <2>5. ASSUME NEW n \in Nat, n <= m, n <= Len(index)
          PROVE  \A k \in 1 .. n : index[k] = confirmed[k]
      <3>1. ASSUME NEW k \in 1 .. n,
                   confirmed[k].raw[Len(confirmed[k].raw)] # Newline
            PROVE  EndOf(index[k]) <= EndOf(confirmed[k])
        <4>1. k \in 1 .. m /\ k \in 1 .. Len(index)
          BY <1>1, <2>5
        <4>2. k = m /\ Len(prefix) = Len(bytes)
          BY <2>4, <3>1, <4>1
        <4>3. EndOf(index[k]) <= Len(bytes)
          BY <4>1 DEF Parts, Part
        <4>4. QED
          BY <2>1, <4>2, <4>3
      <3>2. QED
        BY <1>1, <2>5, <3>1, SameRecords
    <2>6. m <= Len(index)
      <3> DEFINE k == Len(index) + 1
      <3> SUFFICES ASSUME Len(index) < m
                   PROVE  FALSE
        BY <1>1
      <3>1. /\ k \in 1 .. m
            /\ k - 1 = Len(index)
            /\ \A j \in 1 .. Len(index) : index[j] = confirmed[j]
        BY <1>1, <2>5
      <3>2. EndAfter(index, Len(index)) = EndAfter(confirmed, Len(index))
        <4>1. CASE Len(index) = 0
          BY <4>1 DEF EndAfter
        <4>2. CASE Len(index) \in 1 .. Len(index)
          BY <3>1, <4>2 DEF EndAfter
        <4>3. QED
          BY <1>1, <4>1, <4>2
      <3>3. /\ confirmed[k].start = EndAfter(index, Len(index))
            /\ Len(confirmed[k].raw) > 0
            /\ EndOf(confirmed[k]) <= Len(prefix)
            /\ \A i \in 1 .. Len(confirmed[k].raw) :
                  confirmed[k].raw[i] = prefix[confirmed[k].start + i]
        BY <1>1, <3>1, <3>2 DEF Parts, Part
      <3>4. /\ confirmed[k].start \in Nat
            /\ Len(confirmed[k].raw) \in Nat
            /\ EndOf(confirmed[k]) = confirmed[k].start + Len(confirmed[k].raw)
        BY <3>1, RecordFields DEF EndOf
      <3>5. EndAfter(index, Len(index)) < EndOf(confirmed[k])
        BY <3>3, <3>4
      <3>6. confirmed[k].raw[Len(confirmed[k].raw)] = Newline
        <4>1. EndAfter(index, Len(index)) < Len(bytes)
          BY <1>1, <3>3, <3>4, <3>5
        <4>2. ~Whole(index, bytes)
          BY <1>1, <3>3, <3>4, <4>1 DEF Whole
        <4>3. QED
          BY <2>4, <3>1, <4>2
      <3>7. /\ EndOf(confirmed[k]) \in 1 .. Len(bytes)
            /\ bytes[EndOf(confirmed[k])] = Newline
        <4>1. Len(confirmed[k].raw) \in 1 .. Len(confirmed[k].raw)
          BY <3>3, <3>4
        <4>2. prefix[EndOf(confirmed[k])] = Newline
          BY <3>3, <3>4, <3>6, <4>1
        <4>3. EndOf(confirmed[k]) \in 1 .. Len(prefix)
          BY <1>1, <3>3, <3>4
        <4>4. QED
          BY <1>1, <4>2, <4>3
      <3>8. PICK j \in 1 .. Len(index) : EndOf(index[j]) = EndOf(confirmed[k])
        BY <3>7 DEF Covers
      <3>9. EndOf(index[j]) <= EndAfter(index, Len(index))
        BY <1>1, IndexWithin
      <3>10. QED
        BY <1>1, <3>3, <3>4, <3>5, <3>8, <3>9
    <2>7. /\ m \in 1 .. Len(index)
          /\ index[m] = confirmed[m]
          /\ EndAfter(index, m) = Len(prefix)
      <3>1. m \in 1 .. Len(index) /\ index[m] = confirmed[m]
        BY <1>1, <1>3, <2>5, <2>6
      <3>2. QED
        BY <1>3, <2>1, <3>1 DEF EndAfter
    <2>8. CASE m = Len(index)
      <3>1. ASSUME NEW j \in 1 .. Len(index)
            PROVE  index[j].start < Len(prefix)
        <4>1. EndOf(index[j]) <= Len(prefix)
          <5>1. Len(index) \in 0 .. Len(index) /\ EndAfter(index, Len(index)) = Len(prefix)
            BY <1>1, <2>7, <2>8
          <5>2. QED
            BY <5>1, IndexWithin
        <4>2. Len(index[j].raw) > 0
          BY DEF Parts, Part
        <4>3. QED
          BY <1>1, <4>1, <4>2, RecordFields DEF EndOf
      <3>2. QED
        BY <1>1, <2>7, <2>8, <3>1 DEF ResumesAt
    <2>9. CASE m < Len(index)
      <3>1. m + 1 \in 1 .. Len(index) /\ (m + 1) - 1 = m
        BY <1>1, <2>9
      <3>2. index[m + 1].start = EndAfter(index, (m + 1) - 1)
        BY <3>1 DEF Parts, Part
      <3>3. QED
        BY <2>7, <3>1, <3>2 DEF ResumesAt
    <2>10. QED
      BY <1>1, <2>6, <2>8, <2>9
  <1>4. QED
    BY <1>1, <1>2, <1>3

-----------------------------------------------------------------------------
(* The invariant of the plain reader.                                      *)

\* A closed generation has no index, any other a file.
Cleared ==
    IF phase = "closed" THEN data = <<>> /\ records = <<>> ELSE handle # 0

\* The index splits what has been read, and at the end of the pass of a final
\* file all of it.
Split ==
    /\ Parts(records, data)
    /\ Covers(records, data, Len(data))
    /\ phase = "indexing" \/ mode = "growing" => Terminated(records)
    /\ Reading /\ mode = "final" => Whole(records, data)

\* The consumer's records are the confirmed ones of its token, until a
\* generation is open that continues them or starts over.
Keeps(confirmed) ==
    /\ Whole(confirmed, token.prefix)
    /\ Len(confirmed) + 1 = token.next
    /\ delivered = [k \in 1 .. Len(confirmed) |-> confirmed[k].raw]
Confirmed ==
    /\ phase \in {"closed", "indexing"} /\ token # NoToken =>
          \E confirmed \in Seq(Records) : Keeps(confirmed)
    /\ phase = "indexing" => resume \in {token, NoToken}

AtTheEnd == phase = "exhausted" => next = Len(records) + 1

\* While there are only appends, the file of the path is the open one, and
\* begins with what has been read.
Followed ==
    appended =>
        /\ path # 0
        /\ outcome # "short"
        /\ phase # "changed"
        /\ phase # "closed" =>
              /\ handle = path
              /\ size <= Len(content[path])
              /\ Len(data) <= Len(content[path])
              /\ \A i \in 1 .. Len(data) : data[i] = content[path][i]

PlainInv ==
    /\ TypeOK
    /\ Cleared
    /\ Split
    /\ Confirmed
    /\ ReadsOneVersion
    /\ AtTheEnd
    /\ Followed

\* Nothing is read of an empty index.
LEMMA NoParts ==
    /\ Parts(<<>>, <<>>)
    /\ Covers(<<>>, <<>>, Len(<<>>))
    /\ Terminated(<<>>)
    /\ EndAfter(<<>>, Len(<<>>)) = 0
  BY DEF Parts, Covers, Terminated, EndAfter

LEMMA PlainInit == Init => PlainInv
  <1> SUFFICES ASSUME Init
               PROVE  PlainInv
    OBVIOUS
  <1>1. /\ <<>> \in Seq(Bytes)
        /\ <<>> \in Seq(Records)
        /\ <<>> \in Seq(Seq(Bytes))
    OBVIOUS
  <1>2. NoToken \in Tokens
    BY <1>1 DEF NoToken, Tokens
  <1>3. content \in [Inodes -> Seq(Bytes)]
    <2>1. PICK start \in Starts :
             content = [i \in Inodes |-> IF i = path THEN start ELSE <<>>]
      BY DEF Init
    <2>2. start \in Seq(Bytes)
      BY ReaderAssumption
    <2>3. QED
      BY <1>1, <2>1, <2>2
  <1>4. TypeOK
    BY <1>1, <1>2, <1>3 DEF Init, TypeOK, Phases, Outcomes
  <1>5. Cleared /\ Confirmed /\ ReadsOneVersion /\ AtTheEnd
    BY DEF Init, Cleared, Confirmed, ReadsOneVersion, Reading, AtTheEnd
  <1>6. Split
    BY NoParts DEF Init, Split, Reading
  <1>7. Followed
    BY ReaderAssumption DEF Init, Followed
  <1>8. QED
    BY <1>4, <1>5, <1>6, <1>7 DEF PlainInv

\* What writers do concerns only TypeOK and Followed.
LEMMA WriteKeeps ==
    ASSUME PlainInv, Write
    PROVE  PlainInv'
  <1>1. TypeOK
    BY DEF PlainInv
  <1>2. UNCHANGED <<generation, phase, outcome, next, token, delivered, opens>>
    BY DEF Write, AppendByte, Overwrite, Truncate, Replace, Change
  <1>3. writes' = writes + 1 /\ appended' \in BOOLEAN
    BY <1>1 DEF Write, AppendByte, Overwrite, Truncate, Replace, Change, TypeOK
  <1>4. path' \in Inodes \cup {0}
    BY <1>1 DEF Write, AppendByte, Overwrite, Truncate, Replace, Change, TypeOK
  <1>5. ASSUME path # 0
        PROVE  path \in Inodes /\ content[path] \in Seq(Bytes)
    BY <1>1, <1>5 DEF TypeOK
  <1>6. content' \in [Inodes -> Seq(Bytes)]
    <2>1. CASE AppendByte
      <3>1. PICK byte \in Bytes : Change(Append(content[path], byte), TRUE)
        BY <2>1 DEF AppendByte
      <3>2. Append(content[path], byte) \in Seq(Bytes)
        BY <1>5, <2>1, AppendProperties DEF AppendByte
      <3>3. QED
        BY <1>1, <3>1, <3>2 DEF Change, TypeOK
    <2>2. CASE Overwrite
      <3>1. PICK i \in 1 .. Len(content[path]), byte \in Bytes :
               Change([content[path] EXCEPT ![i] = byte], FALSE)
        BY <2>2 DEF Overwrite
      <3>2. [content[path] EXCEPT ![i] = byte] \in Seq(Bytes)
        BY <1>5, <2>2, ExceptSeq DEF Overwrite
      <3>3. QED
        BY <1>1, <3>1, <3>2 DEF Change, TypeOK
    <2>3. CASE Truncate
      <3>1. PICK n \in 0 .. (Len(content[path]) - 1) :
               Change(SubSeq(content[path], 1, n), FALSE)
        BY <2>3 DEF Truncate
      <3>2. n \in Nat /\ n <= Len(content[path])
        BY <1>5, <2>3, LenProperties DEF Truncate
      <3>3. SubSeq(content[path], 1, n) \in Seq(Bytes)
        BY <1>5, <2>3, <3>2, BeginsSubSeq DEF Truncate
      <3>4. QED
        BY <1>1, <3>1, <3>3 DEF Change, TypeOK
    <2>4. CASE Replace
      BY <1>1, <2>4, ReaderAssumption DEF Replace, TypeOK
    <2>5. QED
      BY <2>1, <2>2, <2>3, <2>4 DEF Write
  <1>7. TypeOK'
    BY <1>1, <1>2, <1>3, <1>4, <1>6 DEF TypeOK, generation
  <1>8. /\ Cleared'
        /\ Split'
        /\ Confirmed'
        /\ ReadsOneVersion'
        /\ AtTheEnd'
    BY <1>2 DEF PlainInv, Cleared, Split, Confirmed, Keeps, ReadsOneVersion,
                Reading, AtTheEnd, generation
  <1>9. Followed'
    <2> SUFFICES ASSUME appended'
                 PROVE  Followed'
      BY DEF Followed
    <2>1. AppendByte /\ appended
      BY DEF Write, AppendByte, Overwrite, Truncate, Replace, Change
    <2>2. PICK byte \in Bytes : Change(Append(content[path], byte), TRUE)
      BY <2>1 DEF AppendByte
    <2>3. path \in Inodes /\ content[path] \in Seq(Bytes) /\ path' = path
      BY <1>5, <2>1, <2>2 DEF AppendByte, Change
    <2>4. content'[path'] = Append(content[path], byte)
      BY <1>1, <2>2, <2>3 DEF Change, TypeOK
    <2>5. /\ Len(content'[path']) = Len(content[path]) + 1
          /\ \A i \in 1 .. Len(content[path]) :
                content'[path'][i] = content[path][i]
      BY <2>3, <2>4, AppendProperties
    <2>6. /\ Len(content[path]) \in Nat
          /\ Len(data) \in Nat
          /\ size \in Nat
      BY <1>1, <2>3, LenProperties DEF TypeOK
    <2>7. Followed
      BY DEF PlainInv
    <2>8. QED
      BY <1>2, <2>1, <2>3, <2>5, <2>6, <2>7 DEF Followed, generation
  <1>10. QED
    BY <1>7, <1>8, <1>9 DEF PlainInv

\* A failed opening keeps what the consumer had.
LEMMA FailKeeps ==
    ASSUME PlainInv, phase = "indexing",
           NEW why \in Outcomes, why = "short" => ~appended,
           Fail(why)
    PROVE  PlainInv'
  <1>1. TypeOK
    BY DEF PlainInv
  <1>2. /\ <<>> \in Seq(Bytes)
        /\ <<>> \in Seq(Records)
        /\ NoToken \in Tokens
    BY DEF NoToken, Tokens
  <1>3. TypeOK'
    BY <1>1, <1>2 DEF Fail, TypeOK, disk, Phases
  <1>4. phase' = "closed" /\ data' = <<>> /\ records' = <<>>
    BY DEF Fail
  <1>5. Cleared' /\ AtTheEnd' /\ ReadsOneVersion'
    BY <1>4 DEF Cleared, AtTheEnd, ReadsOneVersion, Reading
  <1>6. Split'
    BY <1>4, NoParts DEF Split, Reading
  <1>7. Confirmed'
    <2>1. UNCHANGED <<token, delivered>>
      BY DEF Fail
    <2>2. Confirmed
      BY DEF PlainInv
    <2>3. QED
      BY <1>4, <2>1, <2>2 DEF Confirmed, Keeps
  <1>8. Followed'
    BY <1>4 DEF PlainInv, Followed, Fail, disk
  <1>9. QED
    BY <1>3, <1>5, <1>6, <1>7, <1>8 DEF PlainInv

LEMMA OpenKeeps ==
    ASSUME PlainInv, NEW tailMode \in Modes, NEW given \in {token, NoToken},
           Open(tailMode, given)
    PROVE  PlainInv'
  <1>1. TypeOK
    BY DEF PlainInv
  <1>2. /\ phase = "closed"
        /\ data = <<>> /\ data' = <<>>
        /\ records = <<>> /\ records' = <<>>
        /\ UNCHANGED <<disk, next, token, delivered>>
    BY DEF Open, PlainInv, Cleared
  <1>3. NoToken \in Tokens
    BY DEF NoToken, Tokens
  <1>4. TypeOK'
    <2>1. mode' \in {"growing", "final"}
      BY ReaderAssumption DEF Open
    <2>2. outcome' \in Outcomes /\ phase' \in Phases
      BY <1>1 DEF Open, TypeOK, Outcomes, Phases
    <2>3. resume' \in Tokens
      BY <1>1, <1>3 DEF Open, TypeOK
    <2>4. size' \in Nat
      <3>1. CASE path = 0
        BY <1>1, <3>1 DEF Open, TypeOK
      <3>2. CASE path # 0
        <4>1. content[path] \in Seq(Bytes)
          BY <1>1, <3>2 DEF TypeOK
        <4>2. QED
          BY <3>2, <4>1, LenProperties DEF Open
      <3>3. QED
        BY <3>1, <3>2
    <2>5. handle' \in Inodes \cup {0} /\ opens' \in Nat
      BY <1>1 DEF Open, TypeOK
    <2>6. QED
      BY <1>1, <1>2, <2>1, <2>2, <2>3, <2>4, <2>5 DEF TypeOK, disk
  <1>5. phase' \in {"closed", "indexing"}
    BY <1>2 DEF Open
  <1>6. Cleared' /\ AtTheEnd' /\ ReadsOneVersion'
    BY <1>2, <1>5 DEF Open, Cleared, AtTheEnd, ReadsOneVersion, Reading
  <1>7. Split'
    BY <1>2, <1>5, NoParts DEF Split, Reading
  <1>8. Confirmed'
    <2>1. Confirmed
      BY DEF PlainInv
    <2>2. phase' = "indexing" => resume' = given
      BY <1>2 DEF Open
    <2>3. QED
      BY <1>2, <1>5, <2>1, <2>2 DEF Confirmed, Keeps
  <1>9. Followed'
    <2> SUFFICES ASSUME appended'
                 PROVE  Followed'
      BY DEF Followed
    <2>1. appended /\ path # 0 /\ UNCHANGED <<path, content>>
      BY <1>2 DEF PlainInv, Followed, disk
    <2>2. content[path] \in Seq(Bytes)
      BY <1>1, <2>1 DEF TypeOK
    <2>3. /\ handle' = path /\ size' = Len(content[path])
          /\ outcome' = outcome
      BY <2>1 DEF Open
    <2>4. Len(data') = 0 /\ Len(content[path]) \in Nat
      BY <1>2, <2>2, LenProperties
    <2>5. QED
      BY <1>5, <2>1, <2>3, <2>4 DEF PlainInv, Followed
  <1>10. QED
    BY <1>4, <1>6, <1>7, <1>8, <1>9 DEF PlainInv

LEMMA FragmentKeeps ==
    ASSUME PlainInv, IndexFragment
    PROVE  PlainInv'
  <1>1. TypeOK /\ phase = "indexing"
    BY DEF PlainInv, IndexFragment
  <1>2. /\ data \in Seq(Bytes)
        /\ records \in Seq(Records)
        /\ Len(data) \in Nat
        /\ Len(records) \in 0 .. Len(records)
    BY <1>1, LenProperties DEF TypeOK
  <1>3. /\ Parts(records, data)
        /\ Covers(records, data, Len(data))
        /\ Terminated(records)
    BY <1>1 DEF PlainInv, Split
  <1> DEFINE byte == content[handle][Len(data) + 1]
             start == EndAfter(records, Len(records))
  <1>4. CASE Fail("malformed")
    BY <1>1, <1>4, FailKeeps DEF Outcomes
  <1>5. CASE /\ data' = Append(data, byte)
             /\ records' = IF byte = Newline
                           THEN Indexed(Append(Candidate, Newline))
                           ELSE records
             /\ UNCHANGED <<disk, phase, outcome, mode, handle, size, next,
                            resume, token, delivered, opens>>
    <2>1. byte \in Bytes
      <3>1. handle \in Inodes
        BY <1>1 DEF TypeOK, PlainInv, Cleared
      <3>2. content[handle] \in Seq(Bytes)
        BY <1>1, <3>1 DEF TypeOK
      <3>3. Len(data) + 1 \in 1 .. Len(content[handle])
        BY <1>2, <3>2, LenProperties DEF IndexFragment
      <3>4. QED
        BY <3>2, <3>3, ElementOfSeq
    <2> HIDE DEF byte
    <2>2. /\ data' \in Seq(Bytes)
          /\ Len(data') = Len(data) + 1
          /\ \A i \in 1 .. Len(data) : data'[i] = data[i]
          /\ data'[Len(data) + 1] = byte
      BY <1>2, <1>5, <2>1, AppendProperties
    <2>3. /\ Parts(records, data')
          /\ Covers(records, data', Len(data))
          /\ byte # Newline => Covers(records, data', Len(data) + 1)
      BY <1>2, <1>3, <1>5, <2>1, IndexRead
    <2>4. /\ records' \in Seq(Records)
          /\ Parts(records', data')
          /\ Covers(records', data', Len(data'))
          /\ Terminated(records')
      <3>1. CASE byte # Newline
        BY <1>2, <1>3, <1>5, <2>2, <2>3, <3>1
      <3>2. CASE byte = Newline
        <4>1. start \in 0 .. Len(data)
          BY <1>2, <1>3, IndexWithin
        <4>2. Append(Candidate, Newline) = SubSeq(data', start + 1, Len(data'))
          BY <1>2, <1>5, <2>1, <3>2, <4>1, AppendRest DEF Candidate
        <4>3. records' = Append(records,
                                [start |-> start,
                                 raw |-> SubSeq(data', start + 1, Len(data'))])
          BY <1>5, <3>2, <4>2 DEF Indexed
        <4>4. start < Len(data') /\ Len(data') - 1 = Len(data)
          BY <1>2, <2>2, <4>1
        <4>5. data'[Len(data')] = Newline
          BY <2>2, <3>2
        <4>6. QED
          BY <1>2, <1>3, <2>2, <2>3, <4>3, <4>4, <4>5, IndexRest
      <3>3. QED
        BY <3>1, <3>2
    <2>5. TypeOK'
      BY <1>1, <1>5, <2>2, <2>4 DEF TypeOK, disk
    <2>6. /\ Cleared'
          /\ AtTheEnd'
          /\ ReadsOneVersion'
      BY <1>1, <1>5 DEF PlainInv, Cleared, AtTheEnd, ReadsOneVersion, Reading
    <2>7. Split'
      BY <1>1, <1>5, <2>4 DEF Split, Reading
    <2>8. Confirmed'
      BY <1>5 DEF PlainInv, Confirmed, Keeps
    <2>9. Followed'
      <3> SUFFICES ASSUME appended
                   PROVE  Followed'
        BY <1>5 DEF Followed, disk
      <3>1. /\ path # 0 /\ handle = path
            /\ size <= Len(content[path])
            /\ Len(data) <= Len(content[path])
            /\ \A i \in 1 .. Len(data) : data[i] = content[path][i]
        BY <1>1 DEF PlainInv, Followed
      <3>2. Len(data') <= Len(content[path])
        <4>1. content[path] \in Seq(Bytes)
          BY <1>1, <3>1 DEF TypeOK
        <4>2. Len(content[path]) \in Nat /\ Len(data) < Len(content[path])
          BY <3>1, <4>1, LenProperties DEF IndexFragment
        <4>3. QED
          BY <1>2, <2>2, <4>2
      <3>3. \A i \in 1 .. Len(data') : data'[i] = content[path][i]
        BY <1>2, <2>2, <3>1 DEF byte
      <3>4. QED
        BY <1>1, <1>5, <3>1, <3>2, <3>3 DEF PlainInv, Followed, disk
    <2>10. QED
      BY <2>5, <2>6, <2>7, <2>8, <2>9 DEF PlainInv
  <1>6. QED
    BY <1>4, <1>5 DEF IndexFragment

\* A stretch of the file that equals the same stretch of what was read holds.
LEMMA PrefixHolds ==
    ASSUME TypeOK, handle \in Inodes,
           Len(data) <= Len(content[handle]),
           \A i \in 1 .. Len(data) : data[i] = content[handle][i],
           NEW start \in Nat, NEW raw \in Seq(Bytes),
           start + Len(raw) <= Len(data),
           \A i \in 1 .. Len(raw) : raw[i] = data[start + i]
    PROVE  Holds(start, raw)
  <1> DEFINE file == content[handle]
             there == SubSeq(file, start + 1, start + Len(raw))
  <1>1. /\ file \in Seq(Bytes)
        /\ Len(file) \in Nat
        /\ Len(data) \in Nat
        /\ Len(raw) \in Nat
    BY LenProperties DEF TypeOK
  <1>2. start + Len(raw) <= Len(file)
    BY <1>1
  <1> HIDE DEF file
  <1>3. /\ there \in Seq(Bytes)
        /\ Len(there) = (start + Len(raw)) - (start + 1) + 1
        /\ \A i \in 1 .. ((start + Len(raw)) - (start + 1) + 1) :
              there[i] = file[(start + 1) + i - 1]
    <2>1. /\ start + 1 \in Nat
          /\ start + Len(raw) \in Nat
          /\ 1 <= start + 1
          /\ start + 1 <= start + Len(raw) + 1
      BY <1>1
    <2>2. QED
      BY <1>1, <1>2, <2>1, Stretch
  <1> HIDE DEF there
  <1>4. Len(there) = Len(raw)
    BY <1>1, <1>3
  <1>5. ASSUME NEW i \in 1 .. Len(raw)
        PROVE  there[i] = raw[i]
    <2>1. there[i] = file[(start + 1) + i - 1]
      BY <1>1, <1>3
    <2>2. (start + 1) + i - 1 = start + i /\ start + i \in 1 .. Len(data)
      BY <1>1
    <2>3. file[start + i] = data[start + i]
      BY <2>2 DEF file
    <2>4. QED
      BY <2>1, <2>2, <2>3
  <1>6. there = raw
    BY <1>3, <1>4, <1>5, SeqEqual
  <1>7. QED
    BY <1>2, <1>6 DEF Holds, there, file

\* The pending rest of what was read.
LEMMA CandidateRest ==
    ASSUME TypeOK, Parts(records, data)
    PROVE  LET start == EndAfter(records, Len(records)) IN
           /\ start \in Nat
           /\ start <= Len(data)
           /\ Candidate \in Seq(Bytes)
           /\ start + Len(Candidate) = Len(data)
           /\ \A i \in 1 .. Len(Candidate) : Candidate[i] = data[start + i]
  <1> DEFINE start == EndAfter(records, Len(records))
  <1>1. data \in Seq(Bytes) /\ records \in Seq(Records)
    BY DEF TypeOK
  <1>2. /\ Len(data) \in Nat
        /\ start \in 0 .. Len(data)
    <2>1. Len(records) \in 0 .. Len(records)
      BY <1>1, LenProperties
    <2>2. QED
      BY <1>1, <2>1, IndexWithin
  <1>3. Candidate = SubSeq(data, start + 1, Len(data))
    BY DEF Candidate
  <1> HIDE DEF start
  <1>4. /\ Candidate \in Seq(Bytes)
        /\ Len(Candidate) = Len(data) - (start + 1) + 1
        /\ \A i \in 1 .. (Len(data) - (start + 1) + 1) :
              Candidate[i] = data[(start + 1) + i - 1]
    BY <1>1, <1>2, <1>3, Stretch
  <1>5. start + Len(Candidate) = Len(data)
    BY <1>2, <1>4
  <1>6. ASSUME NEW i \in 1 .. Len(Candidate)
        PROVE  Candidate[i] = data[start + i]
    <2>1. i \in 1 .. (Len(data) - (start + 1) + 1)
      BY <1>4
    <2>2. (start + 1) + i - 1 = start + i
      BY <1>2
    <2>3. QED
      BY <1>4, <2>1, <2>2
  <1>7. QED
    BY <1>2, <1>4, <1>5, <1>6 DEF start

\* While there are only appends, every record and the pending tail hold.
LEMMA AppendsHold ==
    ASSUME PlainInv, appended, phase # "closed"
    PROVE  /\ \A k \in 1 .. Len(records) : Holds(records[k].start, records[k].raw)
           /\ TailHolds
  <1>1. TypeOK /\ data \in Seq(Bytes) /\ records \in Seq(Records)
    BY DEF PlainInv, TypeOK
  <1>2. /\ handle \in Inodes
        /\ Len(data) <= Len(content[handle])
        /\ \A i \in 1 .. Len(data) : data[i] = content[handle][i]
    <2>1. path # 0 /\ handle = path
      BY DEF PlainInv, Followed
    <2>2. handle \in Inodes
      BY <1>1, <2>1 DEF TypeOK
    <2>3. QED
      BY <2>1, <2>2 DEF PlainInv, Followed
  <1>3. Parts(records, data)
    BY DEF PlainInv, Split
  <1>4. ASSUME NEW k \in 1 .. Len(records)
        PROVE  Holds(records[k].start, records[k].raw)
    <2>1. /\ records[k].start \in Nat
          /\ records[k].raw \in Seq(Bytes)
      BY <1>1, RecordFields
    <2>2. Part(records, data, k)
      BY <1>3 DEF Parts
    <2>3. QED
      BY <1>1, <1>2, <2>1, <2>2, PrefixHolds DEF Part, EndOf
  <1>5. TailHolds
    <2>1. /\ EndAfter(records, Len(records)) \in Nat
          /\ Candidate \in Seq(Bytes)
          /\ EndAfter(records, Len(records)) + Len(Candidate) <= Len(data)
          /\ \A i \in 1 .. Len(Candidate) :
                Candidate[i] = data[EndAfter(records, Len(records)) + i]
      <3>1. Len(data) \in Nat
        BY <1>1, LenProperties
      <3>2. QED
        BY <1>1, <1>3, <3>1, CandidateRest
    <2>2. QED
      BY <1>1, <1>2, <2>1, PrefixHolds DEF TailHolds
  <1>6. QED
    BY <1>4, <1>5

LEMMA NextRecordKeeps ==
    ASSUME PlainInv, NextRecord
    PROVE  PlainInv'
  <1>1. TypeOK /\ phase = "open" /\ records \in Seq(Records)
    BY DEF PlainInv, TypeOK, NextRecord
  <1>2. UNCHANGED <<disk, generation, outcome, token, opens>>
    BY DEF NextRecord
  <1>3. /\ next \in 1 .. (Len(records) + 1)
        /\ delivered = [k \in 1 .. (next - 1) |-> records[k].raw]
    BY <1>1 DEF PlainInv, ReadsOneVersion, Reading
  <1>4. next \in 1 .. Len(records) /\ Len(records) \in Nat
    BY <1>1, <1>3, LenProperties DEF NextRecord
  <1>5. records[next].raw \in Seq(Bytes)
    BY <1>1, <1>4, RecordFields
  <1>6. delivered \in Seq(Seq(Bytes))
    BY <1>1 DEF TypeOK
  <1>7. CASE /\ next' = next + 1
             /\ delivered' = Append(delivered, records[next].raw)
             /\ phase' = "open"
    <2>1. TypeOK'
      BY <1>1, <1>2, <1>5, <1>7, AppendProperties
      DEF TypeOK, disk, generation, Phases
    <2>2. ReadsOneVersion'
      <3>1. next' \in 1 .. (Len(records') + 1)
        BY <1>2, <1>4, <1>7 DEF generation
      <3>2. /\ Len(delivered) = next - 1
            /\ \A k \in 1 .. (next - 1) : delivered[k] = records[k].raw
        BY <1>3, <1>4
      <3>3. delivered' = [k \in 1 .. next |-> records[k].raw]
        <4>1. /\ delivered' \in Seq(Seq(Bytes))
              /\ Len(delivered') = next
              /\ \A k \in 1 .. (next - 1) : delivered'[k] = records[k].raw
              /\ delivered'[next] = records[next].raw
          BY <1>4, <1>5, <1>6, <1>7, <3>2, AppendProperties
        <4>2. DOMAIN delivered' = 1 .. next
          BY <4>1, LenProperties
        <4>3. delivered' = [k \in 1 .. next |-> delivered'[k]]
          BY <4>1, <4>2
        <4>4. ASSUME NEW k \in 1 .. next
              PROVE  delivered'[k] = records[k].raw
          <5>1. k = next \/ k \in 1 .. (next - 1)
            BY <1>4
          <5>2. QED
            BY <4>1, <5>1
        <4>5. QED
          BY <4>3, <4>4
      <3>4. next' - 1 = next
        BY <1>4, <1>7
      <3>5. QED
        BY <1>2, <3>1, <3>3, <3>4 DEF ReadsOneVersion, generation
    <2>3. Cleared' /\ AtTheEnd' /\ Split' /\ Confirmed' /\ Followed'
      BY <1>1, <1>2, <1>7
      DEF PlainInv, Cleared, AtTheEnd, Split, Reading, Confirmed, Followed,
          disk, generation
    <2>4. QED
      BY <2>1, <2>2, <2>3 DEF PlainInv
  <1>8. CASE /\ ~Holds(records[next].start, records[next].raw)
             /\ phase' = "changed"
             /\ UNCHANGED <<next, delivered>>
    <2>1. TypeOK'
      BY <1>1, <1>2, <1>8 DEF TypeOK, disk, generation, Phases
    <2>2. ~appended
      BY <1>1, <1>4, <1>8, AppendsHold
    <2>3. ReadsOneVersion'
      BY <1>2, <1>3, <1>8 DEF ReadsOneVersion, generation
    <2>4. Cleared' /\ AtTheEnd' /\ Split' /\ Confirmed' /\ Followed'
      BY <1>1, <1>2, <1>8, <2>2
      DEF PlainInv, Cleared, AtTheEnd, Split, Reading, Confirmed, Followed,
          disk, generation
    <2>5. QED
      BY <2>1, <2>3, <2>4 DEF PlainInv
  <1>9. QED
    BY <1>1, <1>7, <1>8 DEF NextRecord

LEMMA VerifyTailKeeps ==
    ASSUME PlainInv, VerifyTail
    PROVE  PlainInv'
  <1>1. TypeOK /\ phase = "open" /\ records \in Seq(Records)
    BY DEF PlainInv, TypeOK, VerifyTail
  <1>2. UNCHANGED <<disk, generation, outcome, next, token, delivered, opens>>
    BY DEF VerifyTail
  <1>3. /\ phase' \in {"exhausted", "changed"}
        /\ phase' = "changed" => ~TailHolds
    BY DEF VerifyTail
  <1>4. phase' = "changed" => ~appended
    BY <1>1, <1>3, AppendsHold
  <1>5. next = Len(records) + 1
    <2>1. next \in 1 .. (Len(records) + 1) /\ Len(records) \in Nat
      BY <1>1, LenProperties DEF PlainInv, ReadsOneVersion, Reading
    <2>2. QED
      BY <2>1 DEF VerifyTail
  <1>6. TypeOK'
    BY <1>1, <1>2, <1>3 DEF TypeOK, disk, generation, Phases
  <1>7. Cleared' /\ AtTheEnd' /\ Split' /\ Confirmed' /\ ReadsOneVersion'
    BY <1>1, <1>2, <1>3, <1>5
    DEF PlainInv, Cleared, AtTheEnd, Split, Reading, Confirmed,
        ReadsOneVersion, generation
  <1>8. Followed'
    BY <1>1, <1>2, <1>3, <1>4 DEF PlainInv, Followed, disk, generation
  <1>9. QED
    BY <1>6, <1>7, <1>8 DEF PlainInv

\* What the consumer takes with it is what the generation would have returned.
LEMMA CloseKeeps ==
    ASSUME PlainInv, Close
    PROVE  PlainInv'
  <1>1. /\ TypeOK
        /\ data \in Seq(Bytes)
        /\ records \in Seq(Records)
        /\ Parts(records, data)
    BY DEF PlainInv, TypeOK, Split
  <1>2. /\ phase' = "closed"
        /\ data' = <<>>
        /\ records' = <<>>
        /\ token' = ResumeToken
        /\ UNCHANGED <<disk, outcome, mode, delivered, opens>>
    BY DEF Close
  <1> DEFINE n == next - 1
             confirmed == SubSeq(records, 1, n)
             prefix == Prefix(EndAfter(records, n))
  <1>3. /\ n \in Nat
        /\ n \in 0 .. Len(records)
        /\ n <= Len(records)
        /\ next = n + 1
        /\ delivered = [k \in 1 .. n |-> records[k].raw]
    <2>1. Len(records) \in Nat
      BY <1>1, LenProperties
    <2>2. /\ next \in 1 .. (Len(records) + 1)
          /\ delivered = [k \in 1 .. (next - 1) |-> records[k].raw]
      BY DEF PlainInv, ReadsOneVersion, Reading, Close
    <2>3. QED
      BY <2>1, <2>2
  <1>4. token' = [identity |-> handle, revision |-> data, prefix |-> prefix,
                  next |-> next]
    BY <1>2 DEF ResumeToken
  <1> HIDE DEF n
  <1>5. /\ EndAfter(records, n) \in Nat
        /\ EndAfter(records, n) <= Len(data)
    BY <1>1, <1>3, IndexWithin
  <1>6. /\ prefix \in Seq(Bytes)
        /\ Begins(prefix, data, EndAfter(records, n))
    BY <1>1, <1>5, BeginsSubSeq DEF Prefix
  <1>7. /\ confirmed \in Seq(Records)
        /\ Begins(confirmed, records, n)
    BY <1>1, <1>3, BeginsSubSeq
  <1> HIDE DEF prefix, confirmed
  <1>8. token' \in Tokens
    BY <1>1, <1>3, <1>4, <1>6 DEF Tokens, TypeOK
  <1>9. Whole(confirmed, prefix)
    BY <1>1, <1>3, <1>6, <1>7, IndexBegins DEF Whole
  <1>10. TypeOK'
    <2>1. NoToken \in Tokens
      BY DEF NoToken, Tokens
    <2>2. <<>> \in Seq(Bytes) /\ <<>> \in Seq(Records)
      OBVIOUS
    <2>3. QED
      BY <1>1, <1>2, <1>8, <2>1, <2>2 DEF Close, TypeOK, disk, Phases
  <1>11. Confirmed'
    <2>1. /\ token'.prefix = prefix
          /\ token'.next = n + 1
      BY <1>3, <1>4
    <2>2. Len(confirmed) = n
      BY <1>7 DEF Begins
    <2>3. delivered' = [k \in 1 .. n |-> confirmed[k].raw]
      BY <1>2, <1>3, <1>7 DEF Begins
    <2>4. /\ Whole(confirmed, token'.prefix)
          /\ Len(confirmed) + 1 = token'.next
          /\ delivered' = [k \in 1 .. Len(confirmed) |-> confirmed[k].raw]
      BY <1>9, <2>1, <2>2, <2>3
    <2>5. QED
      BY <1>2, <1>7, <2>4 DEF Confirmed, Keeps
  <1>12. Split'
    BY <1>2, NoParts DEF Split, Reading
  <1>13. Cleared' /\ AtTheEnd' /\ ReadsOneVersion' /\ Followed'
    BY <1>2 DEF PlainInv, Cleared, AtTheEnd, ReadsOneVersion, Reading, Followed, disk
  <1>14. QED
    BY <1>10, <1>11, <1>12, <1>13 DEF PlainInv

\* The index of an opening, at the end of its pass.
LEMMA FinalIndex ==
    ASSUME PlainInv, phase = "indexing"
    PROVE  /\ FinalRecords \in Seq(Records)
           /\ Parts(FinalRecords, data)
           /\ Covers(FinalRecords, data, Len(data))
           /\ mode = "growing" => Terminated(FinalRecords)
           /\ mode = "final" => Whole(FinalRecords, data)
  <1>1. /\ TypeOK
        /\ data \in Seq(Bytes)
        /\ records \in Seq(Records)
        /\ Len(data) \in Nat
        /\ mode \in {"growing", "final"}
    BY LenProperties DEF PlainInv, TypeOK
  <1>2. /\ Parts(records, data)
        /\ Covers(records, data, Len(data))
        /\ Terminated(records)
    BY DEF PlainInv, Split
  <1> DEFINE start == EndAfter(records, Len(records))
  <1>3. /\ start \in Nat
        /\ Candidate \in Seq(Bytes)
        /\ start + Len(Candidate) = Len(data)
    BY <1>1, <1>2, CandidateRest
  <1>4. CASE mode = "final" /\ Candidate # <<>>
    <2>1. FinalRecords =
             Append(records, [start |-> start,
                              raw |-> SubSeq(data, start + 1, Len(data))])
      BY <1>4 DEF FinalRecords, Indexed, Candidate
    <2>2. start < Len(data)
      BY <1>3, <1>4, EmptySeq
    <2>3. Covers(records, data, Len(data) - 1)
      BY <1>1, <1>2 DEF Covers
    <2>4. QED
      BY <1>1, <1>2, <1>4, <2>1, <2>2, <2>3, IndexRest DEF Whole
  <1>5. CASE mode # "final" \/ Candidate = <<>>
    <2>1. FinalRecords = records
      BY <1>5 DEF FinalRecords
    <2>2. Candidate = <<>> => start = Len(data)
      BY <1>3
    <2>3. QED
      BY <1>1, <1>2, <1>5, <2>1, <2>2 DEF Whole
  <1>6. QED
    BY <1>4, <1>5

\* A cursor that continues covers a beginning of what was read now.
LEMMA ContinuesWith ==
    ASSUME PlainInv, phase = "indexing", Continues
    PROVE  /\ resume.prefix \in Seq(Bytes)
           /\ Len(resume.prefix) <= Len(data)
           /\ \A i \in 1 .. Len(resume.prefix) : resume.prefix[i] = data[i]
           /\ \E confirmed \in Seq(Records) :
                 /\ Whole(confirmed, resume.prefix)
                 /\ Len(confirmed) + 1 = resume.next
                 /\ delivered = [k \in 1 .. Len(confirmed) |-> confirmed[k].raw]
  <1>1. /\ data \in Seq(Bytes)
        /\ resume.prefix \in Seq(Bytes)
    BY DEF PlainInv, TypeOK, Tokens
  <1>2. /\ resume = token
        /\ token # NoToken
    BY DEF PlainInv, Confirmed, Continues
  <1>3. \E confirmed \in Seq(Records) : Keeps(confirmed)
    BY <1>2 DEF PlainInv, Confirmed
  <1>4. /\ Len(resume.prefix) \in Nat
        /\ Len(resume.prefix) <= Len(data)
        /\ resume.prefix = SubSeq(data, 1, Len(resume.prefix))
    BY <1>1, LenProperties DEF Continues, Prefix
  <1>5. Begins(resume.prefix, data, Len(resume.prefix))
    BY <1>1, <1>4, BeginsSubSeq
  <1>6. QED
    BY <1>1, <1>2, <1>3, <1>4, <1>5 DEF Begins, Keeps

LEMMA IndexEndKeeps ==
    ASSUME PlainInv, IndexEnd
    PROVE  PlainInv'
  <1> DEFINE index == FinalRecords
             offset == Len(resume.prefix)
  <1>1. /\ TypeOK
        /\ phase = "indexing"
        /\ Len(data) = size
        /\ data \in Seq(Bytes)
        /\ resume \in Tokens
    BY DEF PlainInv, TypeOK, IndexEnd
  <1>2. CASE Fail("malformed")
    BY <1>1, <1>2, FailKeeps DEF Outcomes
  <1>3. CASE Fail("refused")
    BY <1>1, <1>3, FailKeeps DEF Outcomes
  <1>4. CASE /\ Continues => ResumesAt(index, offset, resume.next)
             /\ records' = index
             /\ phase' = "open"
             /\ outcome' = "opened"
             /\ next' = IF Continues THEN resume.next ELSE 1
             /\ delivered' = IF Continues THEN delivered ELSE <<>>
             /\ UNCHANGED <<disk, mode, handle, size, data, resume, token, opens>>
    <2>1. /\ index \in Seq(Records)
          /\ Parts(index, data)
          /\ Covers(index, data, Len(data))
          /\ mode = "growing" => Terminated(index)
          /\ mode = "final" => Whole(index, data)
      BY <1>1, FinalIndex
    <2> HIDE DEF index
    <2>2. TypeOK'
      <3>1. next' \in Nat
        BY <1>1, <1>4 DEF Tokens
      <3>2. delivered' \in Seq(Seq(Bytes))
        <4>1. <<>> \in Seq(Seq(Bytes))
          OBVIOUS
        <4>2. QED
          BY <1>1, <1>4, <4>1 DEF TypeOK
      <3>3. QED
        BY <1>1, <1>4, <2>1, <3>1, <3>2 DEF TypeOK, disk, Phases, Outcomes
    <2>3. ReadsOneVersion'
      <3>1. CASE Continues
        <4>1. PICK confirmed \in Seq(Records) :
                 /\ Whole(confirmed, resume.prefix)
                 /\ Len(confirmed) + 1 = resume.next
                 /\ delivered = [k \in 1 .. Len(confirmed) |-> confirmed[k].raw]
          BY <1>1, <3>1, ContinuesWith
        <4>2. /\ resume.prefix \in Seq(Bytes)
              /\ Len(resume.prefix) <= Len(data)
              /\ \A i \in 1 .. Len(resume.prefix) : resume.prefix[i] = data[i]
          BY <1>1, <3>1, ContinuesWith
        <4>3. ResumesAt(index, Len(resume.prefix), Len(confirmed) + 1)
          BY <1>4, <3>1, <4>1
        <4>4. /\ Len(confirmed) <= Len(index)
              /\ \A k \in 1 .. Len(confirmed) : index[k] = confirmed[k]
          BY <1>1, <2>1, <4>1, <4>2, <4>3, ResumeAgrees
        <4>5. /\ next' = Len(confirmed) + 1
              /\ delivered' = delivered
              /\ records' = index
          BY <1>4, <3>1, <4>1
        <4>6. Len(confirmed) \in Nat /\ Len(index) \in Nat
          BY <2>1, LenProperties
        <4>7. /\ next' \in 1 .. (Len(records') + 1)
              /\ next' - 1 = Len(confirmed)
          BY <4>4, <4>5, <4>6
        <4>8. delivered' = [k \in 1 .. Len(confirmed) |-> index[k].raw]
          BY <4>1, <4>4, <4>5
        <4>9. QED
          BY <4>5, <4>7, <4>8 DEF ReadsOneVersion
      <3>2. CASE ~Continues
        <4>1. next' = 1 /\ delivered' = <<>> /\ records' = index
          BY <1>4, <3>2
        <4>2. Len(index) \in Nat
          BY <2>1, LenProperties
        <4>3. next' \in 1 .. (Len(records') + 1) /\ 1 .. (next' - 1) = {}
          BY <4>1, <4>2
        <4>4. delivered' = [k \in 1 .. (next' - 1) |-> records'[k].raw]
          BY <4>1, <4>3
        <4>5. QED
          BY <4>3, <4>4 DEF ReadsOneVersion
      <3>3. QED
        BY <3>1, <3>2
    <2>4. Split'
      BY <1>4, <2>1 DEF Split, Reading
    <2>5. Cleared' /\ AtTheEnd' /\ Confirmed' /\ Followed'
      BY <1>1, <1>4
      DEF PlainInv, Cleared, AtTheEnd, Confirmed, Followed, disk
    <2>6. QED
      BY <2>2, <2>3, <2>4, <2>5 DEF PlainInv
  <1>5. QED
    BY <1>2, <1>3, <1>4 DEF IndexEnd

LEMMA PlainStep == PlainInv /\ [Next]_vars => PlainInv'
  <1> SUFFICES ASSUME PlainInv, [Next]_vars
               PROVE  PlainInv'
    OBVIOUS
  <1>1. ASSUME NEW tailMode \in Modes, NEW given \in {token, NoToken},
               Open(tailMode, given)
        PROVE  PlainInv'
    BY <1>1, OpenKeeps
  <1>2. CASE IndexFragment
    BY <1>2, FragmentKeeps
  <1>3. CASE IndexShort
    <2>1. phase = "indexing" /\ Fail("short") /\ "short" \in Outcomes
      BY <1>3 DEF IndexShort, Outcomes
    <2>2. ~appended
      <3> SUFFICES ASSUME appended
                   PROVE  FALSE
        OBVIOUS
      <3>1. /\ path \in Inodes
            /\ handle = path
            /\ size <= Len(content[path])
        BY <2>1 DEF PlainInv, Followed, TypeOK
      <3>2. Len(content[path]) \in Nat /\ Len(data) \in Nat /\ size \in Nat
        BY <3>1, LenProperties DEF PlainInv, TypeOK
      <3>3. QED
        BY <1>3, <3>1, <3>2 DEF IndexShort
    <2>3. QED
      BY <2>1, <2>2, FailKeeps
  <1>4. CASE IndexOverflow
    BY <1>4, FailKeeps DEF IndexOverflow, Outcomes
  <1>5. CASE IndexInterrupted
    BY <1>5, FailKeeps DEF IndexInterrupted, Outcomes
  <1>6. CASE IndexEnd
    BY <1>6, IndexEndKeeps
  <1>7. CASE NextRecord
    BY <1>7, NextRecordKeeps
  <1>8. CASE VerifyTail
    BY <1>8, VerifyTailKeeps
  <1>9. CASE Close
    BY <1>9, CloseKeeps
  <1>10. CASE Write
    BY <1>10, WriteKeeps
  <1>11. CASE UNCHANGED vars
    BY <1>11
    DEF vars, disk, generation, PlainInv, TypeOK, Cleared, Split, Confirmed,
        Keeps, ReadsOneVersion, Reading, AtTheEnd, Followed
  <1>12. QED
    BY <1>1, <1>2, <1>3, <1>4, <1>5, <1>6, <1>7, <1>8, <1>9, <1>10, <1>11
    DEF Next, Read

-----------------------------------------------------------------------------
(* The invariant of the reader of compressed files.                        *)

\* What the second pass has returned are records of the first, which is whole
\* once it is over.
DecodedInv ==
    /\ Decoded!TypeOK
    /\ outcome = "none"
    /\ phase \in {"indexing", "decoding"} => handle # 0
    /\ phase = "indexing" => second = <<>>
    /\ phase # "closed" =>
          /\ Len(second) <= Len(first)
          /\ delivered = [k \in 1 .. Len(second) |-> first[k].record]
    /\ phase \in {"open", "decoding", "failed", "exhausted"} => Len(first) = size
    /\ phase = "exhausted" => second = first

LEMMA DecodedInit ==
    ASSUME Decoded!Init, outcome = "none"
    PROVE  DecodedInv
  <1>1. content \in [Inodes -> Seq(Blocks)]
    <2>1. PICK start \in Archives :
             content = [i \in Inodes |-> IF i = path THEN start ELSE <<>>]
      BY DEF Decoded!Init
    <2>2. start \in Seq(Blocks) /\ <<>> \in Seq(Blocks)
      BY ArchivesAssumption
    <2>3. QED
      BY <2>1, <2>2
  <1>2. <<>> \in Seq(Blocks) /\ <<>> \in Seq({b.record : b \in Blocks})
    OBVIOUS
  <1>3. Decoded!TypeOK
    BY <1>1, <1>2 DEF Decoded!Init, Decoded!TypeOK, Decoded!Phases
  <1>4. QED
    BY <1>3 DEF Decoded!Init, DecodedInv

LEMMA DecodedFail ==
    ASSUME DecodedInv, UNCHANGED outcome,
           NEW step, Decoded!Fail(step),
           \/ step = "closed"
           \/ step = "open" /\ Len(first) = size /\ phase # "closed"
           \/ step = "failed" /\ phase \in {"open", "decoding"}
           \/ step = "exhausted" /\ phase = "decoding" /\ second = first
    PROVE  DecodedInv'
  <1>1. /\ phase' = step
        /\ handle' = 0
        /\ UNCHANGED <<content, path, writes, identity, size, first, second, delivered>>
    BY DEF Decoded!Fail, Decoded!disk
  <1>2. Decoded!TypeOK'
    BY <1>1 DEF DecodedInv, Decoded!TypeOK, Decoded!Phases
  <1>3. QED
    BY <1>1, <1>2 DEF DecodedInv

LEMMA DecodedStep ==
    ASSUME DecodedInv, Decoded!Next, UNCHANGED outcome
    PROVE  DecodedInv'
  <1>1. /\ Decoded!TypeOK
        /\ outcome' = "none"
    BY DEF DecodedInv
  \* The block a pass reads next.
  <1>2. ASSUME phase \in {"indexing", "decoding"}, NEW blocks \in Seq(Blocks),
               Decoded!Readable(blocks)
        PROVE  Decoded!Block(blocks) \in Blocks
    <2>1. handle \in Inodes
      BY <1>1, <1>2 DEF DecodedInv, Decoded!TypeOK
    <2>2. content[handle] \in Seq(Blocks)
      BY <1>1, <2>1 DEF Decoded!TypeOK
    <2>3. Len(blocks) + 1 \in 1 .. Len(content[handle])
      BY <1>2, <2>2, LenProperties DEF Decoded!Readable
    <2>4. QED
      BY <2>2, <2>3, ElementOfSeq DEF Decoded!Block
  <1>3. CASE Decoded!Open
    <2>1. path \in Inodes /\ content[path] \in Seq(Blocks)
      BY <1>1, <1>3 DEF Decoded!Open, Decoded!TypeOK
    <2>2. size' \in Nat
      BY <1>3, <2>1, LenProperties DEF Decoded!Open
    <2>3. /\ <<>> \in Seq(Blocks)
          /\ <<>> \in Seq({b.record : b \in Blocks})
          /\ Len(<<>>) = 0
      OBVIOUS
    <2>4. Decoded!TypeOK'
      BY <1>1, <1>3, <2>1, <2>2, <2>3
      DEF Decoded!Open, Decoded!TypeOK, Decoded!disk, Decoded!Phases
    <2>5. /\ phase' = "indexing" /\ handle' # 0
          /\ first' = <<>> /\ second' = <<>> /\ delivered' = <<>>
      BY <1>3, <2>1, ReaderAssumption DEF Decoded!Open
    <2>6. delivered' = [k \in 1 .. Len(second') |-> first'[k].record]
      BY <2>3, <2>5
    <2>7. QED
      BY <1>1, <2>3, <2>4, <2>5, <2>6 DEF DecodedInv
  <1>4. CASE Decoded!ScanBlock
    <2>1. CASE Decoded!Fail("closed")
      BY <2>1, DecodedFail
    <2>2. CASE /\ Decoded!Readable(first)
               /\ first' = Append(first, Decoded!Block(first))
               /\ UNCHANGED <<Decoded!disk, phase, identity, handle, size,
                              second, delivered>>
      <3>1. phase = "indexing" /\ second = <<>> /\ Len(second) = 0
        BY <1>4 DEF Decoded!ScanBlock, DecodedInv
      <3>2. first \in Seq(Blocks)
        BY <1>1 DEF Decoded!TypeOK
      <3>3. Decoded!Block(first) \in Blocks
        BY <1>2, <2>2, <3>1, <3>2
      <3>4. first' \in Seq(Blocks) /\ Len(first') = Len(first) + 1
        BY <2>2, <3>2, <3>3, AppendProperties
      <3>5. Decoded!TypeOK'
        BY <1>1, <2>2, <3>4 DEF Decoded!TypeOK, Decoded!disk
      <3>6. delivered = [k \in 1 .. 0 |-> first[k].record]
        BY <3>1 DEF DecodedInv
      <3>7. delivered = [k \in 1 .. 0 |-> first'[k].record]
        BY <3>6
      <3>8. Len(second') <= Len(first')
        BY <2>2, <3>1, <3>2, <3>4, LenProperties
      <3>9. QED
        BY <1>1, <2>2, <3>1, <3>5, <3>7, <3>8 DEF DecodedInv
    <2>3. QED
      BY <1>4, <2>1, <2>2 DEF Decoded!ScanBlock
  <1>5. CASE Decoded!ScanEnd
    BY <1>5, DecodedFail DEF Decoded!ScanEnd
  <1>6. CASE Decoded!OpenSecondPass
    <2>1. CASE Decoded!Fail("failed")
      BY <1>6, <2>1, DecodedFail DEF Decoded!OpenSecondPass
    <2>2. CASE /\ path # 0
               /\ phase' = "decoding"
               /\ handle' = path
               /\ UNCHANGED <<Decoded!disk, identity, size, first, second,
                              delivered>>
      <3>1. Decoded!TypeOK'
        BY <1>1, <2>2 DEF Decoded!TypeOK, Decoded!disk, Decoded!Phases
      <3>2. QED
        BY <1>1, <1>6, <2>2, <3>1 DEF DecodedInv, Decoded!OpenSecondPass
    <2>3. QED
      BY <1>6, <2>1, <2>2 DEF Decoded!OpenSecondPass
  <1>7. CASE Decoded!NextRecord
    <2>1. CASE Decoded!Fail("failed")
      BY <1>7, <2>1, DecodedFail DEF Decoded!NextRecord
    <2>2. CASE /\ Decoded!Readable(second) /\ Decoded!SameRecord(Decoded!Block(second))
               /\ second' = Append(second, Decoded!Block(second))
               /\ delivered' = Append(delivered, Decoded!Block(second).record)
               /\ UNCHANGED <<Decoded!disk, phase, identity, handle, size, first>>
      <3> DEFINE block == Decoded!Block(second)
                 n == Len(second)
      <3>1. phase = "decoding" /\ n < size
        BY <1>7 DEF Decoded!NextRecord
      <3>2. /\ first \in Seq(Blocks) /\ second \in Seq(Blocks)
            /\ delivered \in Seq({b.record : b \in Blocks})
            /\ n \in Nat
            /\ size \in Nat
        BY <1>1, LenProperties DEF Decoded!TypeOK
      <3>3. block \in Blocks
        BY <1>2, <2>2, <3>1, <3>2
      <3>4. block.record \in {b.record : b \in Blocks}
        BY <3>3
      <3>5. block.record = first[n + 1].record
        BY <2>2 DEF Decoded!SameRecord
      <3>6. /\ Len(first) = size
            /\ delivered = [k \in 1 .. n |-> first[k].record]
        BY <3>1 DEF DecodedInv
      <3> HIDE DEF block, n
      <3>7. second' \in Seq(Blocks) /\ Len(second') = n + 1
        BY <2>2, <3>2, <3>3, AppendProperties DEF block, n
      <3>8. Len(delivered) = n /\ \A k \in 1 .. n : delivered[k] = first[k].record
        BY <3>2, <3>6
      <3>9. /\ delivered' \in Seq({b.record : b \in Blocks})
            /\ Len(delivered') = n + 1
            /\ \A k \in 1 .. n : delivered'[k] = first[k].record
            /\ delivered'[n + 1] = first[n + 1].record
        BY <2>2, <3>2, <3>4, <3>5, <3>8, AppendProperties DEF block
      <3>10. delivered' = [k \in 1 .. (n + 1) |-> first[k].record]
        <4>1. DOMAIN delivered' = 1 .. (n + 1)
          BY <3>9, LenProperties
        <4>2. delivered' = [k \in 1 .. (n + 1) |-> delivered'[k]]
          BY <3>9, <4>1
        <4>3. ASSUME NEW k \in 1 .. (n + 1)
              PROVE  delivered'[k] = first[k].record
          <5>1. k = n + 1 \/ k \in 1 .. n
            BY <3>2
          <5>2. QED
            BY <3>9, <5>1
        <4>4. QED
          BY <4>2, <4>3
      <3>11. Decoded!TypeOK'
        BY <1>1, <2>2, <3>7, <3>9 DEF Decoded!TypeOK, Decoded!disk
      <3>12. n + 1 <= Len(first')
        BY <2>2, <3>1, <3>2, <3>6
      <3>13. QED
        BY <1>1, <2>2, <3>1, <3>6, <3>7, <3>10, <3>11, <3>12 DEF DecodedInv
    <2>3. QED
      BY <1>7, <2>1, <2>2 DEF Decoded!NextRecord
  <1>8. CASE Decoded!FinishSecondPass
    BY <1>8, DecodedFail DEF Decoded!FinishSecondPass, Decoded!SamePasses
  <1>9. CASE Decoded!Close
    BY <1>9, DecodedFail DEF Decoded!Close
  <1>10. CASE Decoded!Interrupted
    BY <1>10, DecodedFail DEF Decoded!Interrupted
  <1>11. CASE Decoded!Overwrite \/ Decoded!Replace
    <2>1. UNCHANGED <<phase, identity, handle, size, first, second, delivered>>
      BY <1>11 DEF Decoded!Overwrite, Decoded!Replace
    <2>2. /\ path' \in Inodes \cup {0}
          /\ writes' = writes + 1
      BY <1>1, <1>11 DEF Decoded!Overwrite, Decoded!Replace, Decoded!TypeOK
    <2>3. content' \in [Inodes -> Seq(Blocks)]
      <3>1. \A start \in Archives : start \in Seq(Blocks)
        BY ArchivesAssumption
      <3>2. CASE Decoded!Overwrite
        BY <1>1, <3>1, <3>2 DEF Decoded!Overwrite, Decoded!TypeOK
      <3>3. CASE Decoded!Replace
        BY <1>1, <3>1, <3>3 DEF Decoded!Replace, Decoded!TypeOK
      <3>4. QED
        BY <1>11, <3>2, <3>3
    <2>4. Decoded!TypeOK'
      BY <1>1, <2>1, <2>2, <2>3 DEF Decoded!TypeOK
    <2>5. QED
      BY <1>1, <2>1, <2>4 DEF DecodedInv
  <1>12. QED
    BY <1>3, <1>4, <1>5, <1>6, <1>7, <1>8, <1>9, <1>10, <1>11 DEF Decoded!Next

-----------------------------------------------------------------------------
(* Both kinds of files.                                                    *)

SourceInv == IF compressed THEN DecodedInv ELSE PlainInv

LEMMA SourceStep == SourceInv /\ [SourceNext]_sourceVars => SourceInv'
  <1> SUFFICES ASSUME SourceInv, [SourceNext]_sourceVars
               PROVE  SourceInv'
    OBVIOUS
  <1>1. CASE Plain
    BY <1>1, PlainStep DEF Plain, SourceInv
  <1>2. CASE Compressed
    BY <1>2, DecodedStep DEF Compressed, SourceInv
  <1>3. CASE UNCHANGED sourceVars
    <2>1. CASE compressed
      <3>1. UNCHANGED <<compressed, content, path, writes, phase, identity,
                        handle, size, first, second, delivered, outcome>>
        BY <1>3 DEF sourceVars, vars, disk, generation, decodedOnly
      <3>2. QED
        BY <2>1, <3>1 DEF SourceInv, DecodedInv, Decoded!TypeOK
    <2>2. CASE ~compressed
      <3>1. UNCHANGED vars /\ UNCHANGED compressed
        BY <1>3 DEF sourceVars
      <3>2. QED
        BY <2>2, <3>1, PlainStep DEF SourceInv
    <2>3. QED
      BY <2>1, <2>2
  <1>4. QED
    BY <1>1, <1>2, <1>3 DEF SourceNext

LEMMA AlwaysSourceInv == SourceSpec => []SourceInv
  <1>1. SourceInit => SourceInv
    BY PlainInit, DecodedInit DEF SourceInit, SourceInv
  <1>2. QED
    BY <1>1, SourceStep, PTL DEF SourceSpec

\* The state of the reader of a file, of either kind, has its types.
THEOREM SourceTypeCorrect == SourceSpec => []SourceTypeOK
  <1>1. SourceInv => SourceTypeOK
    BY DEF SourceInv, SourceTypeOK, DecodedInv, PlainInv
  <1>2. QED
    BY <1>1, AlwaysSourceInv, PTL

\* Across any number of openings and resumptions (OpenJSONLGeneration with a
\* token), whatever is written, truncated or replaced in between, the consumer
\* of a plain file holds the first records of one version of it, each once.
THEOREM PlainReadersSeeOneVersion == SourceSpec => []PlainReadsOneVersion
  <1>1. SourceInv => PlainReadsOneVersion
    BY DEF SourceInv, PlainReadsOneVersion, PlainInv
  <1>2. QED
    BY <1>1, AlwaysSourceInv, PTL

\* A reader that reports the end (Next after verifyTail) has returned every
\* record between newlines of the indexed bytes, and the rest of a final file.
THEOREM PlainReadersReachTheEnd == SourceSpec => []PlainReadToTheEnd
  <1>1. ASSUME PlainInv, phase = "exhausted"
        PROVE  ReadToTheEnd
    <2>1. /\ TypeOK
          /\ data \in Seq(Bytes)
          /\ records \in Seq(Records)
          /\ Len(data) \in Nat
          /\ Len(records) \in Nat
          /\ mode \in {"growing", "final"}
      BY <1>1, LenProperties DEF PlainInv, TypeOK
    <2>2. /\ Parts(records, data)
          /\ Covers(records, data, Len(data))
          /\ mode = "growing" => Terminated(records)
          /\ mode = "final" => Whole(records, data)
      BY <1>1 DEF PlainInv, Split, Reading
    <2>3. next = Len(records) + 1
      BY <1>1 DEF PlainInv, AtTheEnd
    <2> DEFINE Ends == {EndOf(records[k]) : k \in 1 .. Len(records)}
               Rest == IF mode = "final" THEN {Len(data)} \ {0} ELSE {}
    <2>4. ASSUME NEW k \in 1 .. Len(records)
          PROVE  /\ EndOf(records[k]) \in LineEnds \cup Rest
                 /\ records[k].raw = SubSeq(data, records[k].start + 1,
                                            EndOf(records[k]))
      <3> DEFINE start == records[k].start
                 raw == records[k].raw
      <3>1. /\ start \in Nat
            /\ raw \in Seq(Bytes)
            /\ Len(raw) \in Nat
            /\ EndOf(records[k]) = start + Len(raw)
        BY <2>1, RecordFields DEF EndOf
      <3>2. Part(records, data, k)
        BY <2>2 DEF Parts
      <3>3. /\ start + Len(raw) \in 1 .. Len(data)
            /\ Len(raw) \in 1 .. Len(raw)
        BY <2>1, <3>1, <3>2 DEF Part
      <3>4. raw[Len(raw)] = data[start + Len(raw)]
        BY <3>2, <3>3 DEF Part
      <3>5. ASSUME raw[Len(raw)] = Newline
            PROVE  EndOf(records[k]) \in LineEnds
        <4> DEFINE end == start + Len(raw)
        <4>1. end \in 1 .. Len(data) /\ data[end] = Newline
          BY <3>3, <3>4, <3>5
        <4> HIDE DEF end
        <4>2. end \in LineEnds
          BY <4>1 DEF LineEnds
        <4>3. QED
          BY <3>1, <4>2 DEF end
      <3>6. ASSUME raw[Len(raw)] # Newline
            PROVE  EndOf(records[k]) \in Rest
        <4>1. start + Len(raw) = Len(data)
          BY <3>1, <3>2, <3>6 DEF Part
        <4>2. mode = "final"
          BY <2>1, <2>2, <3>6 DEF Terminated
        <4>3. QED
          <5>1. EndOf(records[k]) = Len(data) /\ Len(data) # 0
            BY <2>1, <3>1, <3>3, <4>1
          <5>2. QED
            BY <4>2, <5>1
      <3>7. raw = SubSeq(data, start + 1, start + Len(raw))
        <4> DEFINE there == SubSeq(data, start + 1, start + Len(raw))
        <4>1. /\ there \in Seq(Bytes)
              /\ Len(there) = (start + Len(raw)) - (start + 1) + 1
              /\ \A i \in 1 .. ((start + Len(raw)) - (start + 1) + 1) :
                    there[i] = data[(start + 1) + i - 1]
          <5>1. /\ start + 1 \in Nat
                /\ start + Len(raw) \in Nat
                /\ 1 <= start + 1
                /\ start + 1 <= start + Len(raw) + 1
                /\ start + Len(raw) <= Len(data)
            BY <2>1, <3>1, <3>3
          <5> HIDE DEF start, raw
          <5>2. QED
            BY <2>1, <5>1, Stretch
        <4> HIDE DEF there
        <4>2. Len(there) = Len(raw)
          BY <3>1, <4>1
        <4>3. ASSUME NEW i \in 1 .. Len(raw)
              PROVE  there[i] = raw[i]
          <5>1. /\ i \in 1 .. ((start + Len(raw)) - (start + 1) + 1)
                /\ (start + 1) + i - 1 = start + i
            BY <3>1
          <5>2. raw[i] = data[start + i]
            BY <3>2 DEF Part
          <5>3. QED
            BY <4>1, <5>1, <5>2
        <4>4. there = raw
          BY <3>1, <4>1, <4>2, <4>3, SeqEqual
        <4>5. QED
          BY <4>4 DEF there
      <3>8. QED
        BY <3>1, <3>5, <3>6, <3>7
    <2>5. LineEnds \subseteq Ends
      BY <2>2 DEF Covers, LineEnds
    <2>6. Rest \subseteq Ends
      <3> SUFFICES ASSUME mode = "final", Len(data) # 0
                   PROVE  Len(data) \in Ends
        OBVIOUS
      <3>1. EndAfter(records, Len(records)) = Len(data)
        BY <2>2 DEF Whole
      <3>2. Len(records) \in 1 .. Len(records)
        BY <2>1, <3>1 DEF EndAfter
      <3>3. EndOf(records[Len(records)]) = Len(data)
        BY <3>1, <3>2 DEF EndAfter
      <3>4. QED
        BY <3>2, <3>3
    <2>7. Ends = LineEnds \cup Rest
      BY <2>4, <2>5, <2>6
    <2>8. QED
      BY <2>3, <2>4, <2>7 DEF ReadToTheEnd
  <1>2. SourceInv => PlainReadToTheEnd
    BY <1>1 DEF SourceInv, PlainReadToTheEnd, ReadToTheEnd
  <1>3. QED
    BY <1>2, AlwaysSourceInv, PTL

\* A reader of a file that is only appended to is never told of a change or of
\* a file cut short, and what it has returned is what the file begins with.
THEOREM PlainReadersFollowAppends == SourceSpec => []PlainAppendsFollowed
  <1>1. ASSUME PlainInv, appended, Reading
        PROVE  IsPrefixOf(Prefix(EndAfter(records, next - 1)), content[path])
    <2> DEFINE n == EndAfter(records, next - 1)
               file == content[path]
    <2>1. /\ TypeOK
          /\ data \in Seq(Bytes)
          /\ records \in Seq(Records)
          /\ Len(data) \in Nat
          /\ Len(records) \in Nat
          /\ Parts(records, data)
      BY <1>1, LenProperties DEF PlainInv, TypeOK, Split
    <2>2. /\ path \in Inodes
          /\ Len(data) <= Len(file)
          /\ \A i \in 1 .. Len(data) : data[i] = file[i]
      BY <1>1, <2>1 DEF PlainInv, Followed, Reading, TypeOK
    <2>3. file \in Seq(Bytes) /\ Len(file) \in Nat
      <3>1. file \in Seq(Bytes)
        BY <2>1, <2>2 DEF TypeOK
      <3>2. QED
        BY <3>1, LenProperties
    <2>4. n \in Nat /\ n <= Len(data)
      <3>1. next - 1 \in 0 .. Len(records)
        BY <1>1, <2>1 DEF PlainInv, ReadsOneVersion
      <3>2. QED
        BY <2>1, <3>1, IndexWithin
    <2> HIDE DEF n, file
    <2>5. n <= Len(file)
      BY <2>1, <2>2, <2>3, <2>4
    <2>6. /\ SubSeq(data, 1, n) \in Seq(Bytes)
          /\ Begins(SubSeq(data, 1, n), data, n)
          /\ SubSeq(file, 1, n) \in Seq(Bytes)
          /\ Begins(SubSeq(file, 1, n), file, n)
      BY <2>1, <2>3, <2>4, <2>5, BeginsSubSeq
    <2>7. /\ Len(SubSeq(data, 1, n)) = n
          /\ Len(SubSeq(file, 1, n)) = n
          /\ \A i \in 1 .. n : SubSeq(data, 1, n)[i] = SubSeq(file, 1, n)[i]
      BY <2>1, <2>2, <2>4, <2>6 DEF Begins
    <2>8. SubSeq(data, 1, n) = SubSeq(file, 1, n)
      BY <2>6, <2>7, SeqEqual
    <2>9. QED
      BY <2>5, <2>7, <2>8 DEF IsPrefixOf, Prefix, n, file
  <1>2. SourceInv => PlainAppendsFollowed
    BY <1>1 DEF SourceInv, PlainAppendsFollowed, AppendsFollowed, PlainInv,
                Followed
  <1>3. QED
    BY <1>2, AlwaysSourceInv, PTL

\* An opening that refuses its token (findResumeIndex) had accepted the last
\* record before it without a newline, and the file has grown since or is read
\* as a growing one: no other cursor whose bytes are unchanged is refused.
THEOREM RefusalsAreOfFinalTails == SourceSpec => RefusedOnlyAfterFinalTail
  <1> DEFINE Refuses == phase = "indexing" /\ phase' = "closed" /\ outcome' = "refused"
             Grown == /\ resume.prefix # <<>>
                      /\ resume.prefix[Len(resume.prefix)] # Newline
                      /\ mode = "growing" \/ size > Len(resume.prefix)
  <1>1. ASSUME PlainInv, IndexEnd, Fail("refused")
        PROVE  Grown
    <2>1. /\ phase = "indexing"
          /\ Len(data) = size
          /\ Continues
          /\ ~ResumesAt(FinalRecords, Len(resume.prefix), resume.next)
      BY <1>1 DEF IndexEnd, Fail
    <2>2. /\ data \in Seq(Bytes)
          /\ Len(data) \in Nat
          /\ mode \in {"growing", "final"}
      BY <1>1, LenProperties DEF PlainInv, TypeOK
    <2>3. /\ FinalRecords \in Seq(Records)
          /\ Parts(FinalRecords, data)
          /\ Covers(FinalRecords, data, Len(data))
          /\ mode = "final" => Whole(FinalRecords, data)
      BY <1>1, <2>1, FinalIndex
    <2>4. /\ resume.prefix \in Seq(Bytes)
          /\ Len(resume.prefix) \in Nat
          /\ Len(resume.prefix) <= Len(data)
          /\ \A i \in 1 .. Len(resume.prefix) : resume.prefix[i] = data[i]
      BY <1>1, <2>1, ContinuesWith, LenProperties
    <2>5. PICK confirmed \in Seq(Records) :
             /\ Whole(confirmed, resume.prefix)
             /\ Len(confirmed) + 1 = resume.next
      BY <1>1, <2>1, ContinuesWith
    <2>6. /\ resume.prefix # <<>>
          /\ resume.prefix[Len(resume.prefix)] # Newline
          /\ ~(Len(resume.prefix) = Len(data) /\ Whole(FinalRecords, data))
      BY <2>1, <2>2, <2>3, <2>4, <2>5, ResumeFound
    <2>7. QED
      BY <2>1, <2>2, <2>3, <2>4, <2>6
  <1>2. ASSUME PlainInv, Next, Refuses
        PROVE  Grown
    <2>1. CASE IndexEnd
      <3>1. Fail("refused")
        BY <1>2, <2>1 DEF IndexEnd, Fail
      <3>2. QED
        BY <1>1, <1>2, <2>1, <3>1
    <2>2. CASE ~IndexEnd
      BY <1>2, <2>2
      DEF Next, Read, Open, IndexFragment, IndexShort, IndexOverflow,
          IndexInterrupted, Fail, NextRecord, VerifyTail, Close, Write,
          AppendByte, Overwrite, Truncate, Replace, Change
    <2>3. QED
      BY <2>1, <2>2
  <1>3. SourceInv /\ [SourceNext]_sourceVars => [Refuses => Grown]_vars
    <2> SUFFICES ASSUME SourceInv, [SourceNext]_sourceVars, Refuses
                 PROVE  Grown
      OBVIOUS
    <2>1. CASE Plain
      BY <1>2, <2>1 DEF Plain, SourceInv
    <2>2. CASE Compressed
      BY <2>2 DEF Compressed, SourceInv, DecodedInv
    <2>3. CASE UNCHANGED sourceVars
      BY <2>3 DEF sourceVars, vars
    <2>4. QED
      BY <2>1, <2>2, <2>3 DEF SourceNext
  <1>4. SourceInv /\ [SourceNext]_sourceVars =>
           [phase = "indexing" /\ phase' = "closed" /\ outcome' = "refused" =>
              /\ resume.prefix # <<>>
              /\ resume.prefix[Len(resume.prefix)] # Newline
              /\ mode = "growing" \/ size > Len(resume.prefix)]_vars
    BY <1>3
  <1>5. QED
    BY <1>4, AlwaysSourceInv, PTL DEF SourceSpec, RefusedOnlyAfterFinalTail

\* Whatever happens to a compressed file between and during the two passes of
\* a DecodedGeneration, the consumer holds the first records of the version the
\* first pass saw.
THEOREM DecodedReadersSeeOneVersion == SourceSpec => []DecodedReadsOneVersion
  <1>1. ASSUME DecodedInv
        PROVE  Decoded!ReadsOneVersion
    <2> SUFFICES ASSUME phase \in {"open", "decoding", "failed", "exhausted"}
                 PROVE  /\ Len(delivered) <= Len(first)
                        /\ delivered = [k \in 1 .. Len(delivered) |-> first[k].record]
      BY DEF Decoded!ReadsOneVersion
    <2>1. /\ Len(second) <= Len(first)
          /\ delivered = [k \in 1 .. Len(second) |-> first[k].record]
      BY <1>1 DEF DecodedInv
    <2>2. Len(second) \in Nat /\ Len(delivered) = Len(second)
      <3>1. /\ Len(second) \in Nat
            /\ DOMAIN delivered = 1 .. Len(delivered)
            /\ Len(delivered) \in Nat
        BY <1>1, LenProperties DEF DecodedInv, Decoded!TypeOK
      <3>2. DOMAIN delivered = 1 .. Len(second)
        BY <2>1
      <3>3. QED
        BY <3>1, <3>2
    <2>3. QED
      BY <2>1, <2>2
  <1>2. SourceInv => DecodedReadsOneVersion
    BY <1>1 DEF SourceInv, DecodedReadsOneVersion
  <1>3. QED
    BY <1>2, AlwaysSourceInv, PTL

\* The end is reported (finishSecondPass) only when both passes have read the
\* same blocks, and everything has been returned.
THEOREM DecodedEndsAreVerified == SourceSpec => []DecodedEndIsVerified
  <1>1. ASSUME DecodedInv, phase = "exhausted"
        PROVE  second = first /\ Len(delivered) = Len(first)
    <2>1. /\ second = first
          /\ delivered = [k \in 1 .. Len(second) |-> first[k].record]
      BY <1>1 DEF DecodedInv
    <2>2. /\ Len(second) \in Nat
          /\ DOMAIN delivered = 1 .. Len(delivered)
          /\ Len(delivered) \in Nat
      BY <1>1, LenProperties DEF DecodedInv, Decoded!TypeOK
    <2>3. DOMAIN delivered = 1 .. Len(second)
      BY <2>1
    <2>4. QED
      BY <2>1, <2>2, <2>3
  <1>2. SourceInv => DecodedEndIsVerified
    BY <1>1 DEF SourceInv, DecodedEndIsVerified, Decoded!EndIsVerified
  <1>3. QED
    BY <1>2, AlwaysSourceInv, PTL
=============================================================================
