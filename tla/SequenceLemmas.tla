--------------------------- MODULE SequenceLemmas ---------------------------
(***************************************************************************)
(* Facts about sequences that the proofs of several components need.       *)
(***************************************************************************)
EXTENDS SequencesExt, SequenceTheorems, WellFoundedInduction, TLAPS

LEMMA Singleton == ASSUME NEW S, NEW e \in S PROVE <<e>> \in Seq(S)
BY EmptySeq

LEMMA FrontAndLast ==
    ASSUME NEW S, NEW s \in Seq(S), s # <<>>
    PROVE  /\ Front(s) \in Seq(S) /\ Last(s) \in S
           /\ s = Front(s) \o <<Last(s)>>
<1>1. Len(s) \in Nat \ {0} /\ \A i \in 1 .. Len(s) : s[i] \in S
  BY EmptySeq, ElementOfSeq
<1>2. Front(s) \in Seq(S) /\ Last(s) \in S
  BY <1>1, SubSeqProperties DEF Front, Last
<1>3. SubSeq(s, 1, Len(s)) = SubSeq(s, 1, Len(s) - 1) \o <<s[Len(s)]>>
  BY <1>1, SubSeqRecursiveSecond
<1>4. SubSeq(s, 1, Len(s)) = s
  BY SubSeqFull
<1>5. Front(s) = SubSeq(s, 1, Len(s) - 1) /\ Last(s) = s[Len(s)]
  BY DEF Front, Last
<1>6. QED
  BY <1>2, <1>3, <1>4, <1>5, Zenon

LEMMA HeadAndTail ==
    ASSUME NEW S, NEW s \in Seq(S), s # <<>>
    PROVE  /\ Head(s) \in S /\ Tail(s) \in Seq(S)
           /\ s = <<Head(s)>> \o Tail(s)
<1>1. Len(s) \in Nat \ {0} /\ s[1] = Head(s)
  BY EmptySeq
<1>2. SubSeq(s, 1, Len(s)) = <<s[1]>> \o SubSeq(s, 2, Len(s))
  BY <1>1, SubSeqRecursiveFirst
<1>3. SubSeq(s, 1, Len(s)) = s /\ Tail(s) = SubSeq(s, 2, Len(s))
  BY SubSeqFull, TailIsSubSeq
<1>4. QED
  BY <1>1, <1>2, <1>3, HeadTailProperties

LEMMA PrefixOfConcat ==
    ASSUME NEW S, NEW s \in Seq(S), NEW u \in Seq(S)
    PROVE  IsPrefix(s, s \o u)
<1>1. Len(s) \in Nat /\ Len(u) \in Nat /\ Len(s \o u) = Len(s) + Len(u)
  BY LenProperties, ConcatProperties
<1>2. SubSeq(s \o u, 1, Len(s)) = SubSeq(s, 1, Len(s))
  <2>1. CASE Len(s) = 0
    BY <2>1, SubSeqEmpty
  <2>2. CASE Len(s) > 0
    BY <1>1, <2>2, SubSeqOfConcat1
  <2>3. QED
    BY <1>1, <2>1, <2>2
<1>3. QED
  BY <1>1, <1>2 DEF IsPrefix

LEMMA AppendToConcat ==
    ASSUME NEW S, NEW s \in Seq(S), NEW t \in Seq(S), NEW e \in S
    PROVE  s \o Append(t, e) = Append(s \o t, e)
<1>1. PICK one \in Seq(S) : one = <<e>>
  BY Singleton
<1>2. Append(t, e) = t \o one /\ Append(s \o t, e) = (s \o t) \o one
  BY <1>1, AppendIsConcat, ConcatProperties
<1>3. QED
  BY <1>2, ConcatAssociative

LEMMA SubSeqExtends ==
    ASSUME NEW S, NEW s \in Seq(S), NEW m \in 1 .. Len(s) + 1, NEW n \in m - 1 .. Len(s)
    PROVE  /\ SubSeq(s, m, n) \in Seq(S) /\ Len(SubSeq(s, m, n)) = n - m + 1
           /\ \A i \in 1 .. n - m + 1 : SubSeq(s, m, n)[i] = s[m + i - 1]
           /\ n < Len(s) => /\ s[n + 1] \in S
                            /\ SubSeq(s, m, n + 1) = Append(SubSeq(s, m, n), s[n + 1])
<1>1. Len(s) \in Nat /\ m \in Int /\ n \in Int /\ \A i \in 1 .. Len(s) : s[i] \in S
  BY LenProperties, ElementOfSeq
<1>2. \A i \in m .. n : s[i] \in S
  BY <1>1
<1>3. /\ SubSeq(s, m, n) \in Seq(S) /\ Len(SubSeq(s, m, n)) = n - m + 1
      /\ \A i \in 1 .. n - m + 1 : SubSeq(s, m, n)[i] = s[m + i - 1]
  BY <1>1, <1>2, SubSeqProperties
<1>4. ASSUME n < Len(s)
      PROVE  s[n + 1] \in S /\ SubSeq(s, m, n + 1) = Append(SubSeq(s, m, n), s[n + 1])
  <2>1. n + 1 \in 1 .. Len(s) /\ n + 1 \in m .. Len(s) /\ (n + 1) - 1 = n /\ m <= Len(s)
    BY <1>1, <1>4
  <2>2. s[n + 1] \in S
    BY <1>1, <2>1
  <2>3. SubSeq(s, m, n + 1) = SubSeq(s, m, n) \o <<s[n + 1]>>
    BY <1>1, <2>1, SubSeqRecursiveSecond
  <2>4. QED
    BY <1>3, <2>2, <2>3, AppendIsConcat
<1>5. QED
  BY <1>3, <1>4

LEMMA SetOfConcat ==
    ASSUME NEW S, NEW s \in Seq(S), NEW t \in Seq(S)
    PROVE  ToSet(s \o t) = ToSet(s) \cup ToSet(t)
<1>1. /\ Len(s) \in Nat /\ Len(t) \in Nat /\ s \o t \in Seq(S)
      /\ Len(s \o t) = Len(s) + Len(t)
      /\ \A i \in 1 .. Len(s) + Len(t) :
            (s \o t)[i] = IF i <= Len(s) THEN s[i] ELSE t[i - Len(s)]
  BY LenProperties, ConcatProperties
<1>2. /\ ToSet(s) = {s[i] : i \in 1 .. Len(s)} /\ ToSet(t) = {t[i] : i \in 1 .. Len(t)}
      /\ ToSet(s \o t) = {(s \o t)[i] : i \in 1 .. Len(s \o t)}
  BY <1>1, LenProperties DEF ToSet
<1>3. ASSUME NEW e \in ToSet(s \o t) PROVE e \in ToSet(s) \cup ToSet(t)
  <2>1. PICK i \in 1 .. Len(s) + Len(t) : e = (s \o t)[i]
    BY <1>1, <1>2
  <2>2. CASE i <= Len(s)
    BY <1>1, <1>2, <2>1, <2>2
  <2>3. CASE ~ (i <= Len(s))
    <3>1. i - Len(s) \in 1 .. Len(t) /\ e = t[i - Len(s)]
      BY <1>1, <2>1, <2>3
    <3>2. QED
      BY <1>2, <3>1
  <2>4. QED
    BY <2>2, <2>3
<1>4. ASSUME NEW i \in 1 .. Len(s) PROVE s[i] \in ToSet(s \o t)
  <2>1. i \in 1 .. Len(s \o t) /\ (s \o t)[i] = s[i]
    BY <1>1
  <2>2. QED
    BY <1>2, <2>1
<1>5. ASSUME NEW i \in 1 .. Len(t) PROVE t[i] \in ToSet(s \o t)
  <2>1. Len(s) + i \in 1 .. Len(s \o t) /\ (s \o t)[Len(s) + i] = t[i]
    BY <1>1
  <2>2. QED
    BY <1>2, <2>1
<1>6. QED
  BY <1>2, <1>3, <1>4, <1>5

----------------------------------------------------------------------------
(* Induction.  The library's theorem has an operator for its parameter;    *)
(* this one has the set of the numbers that satisfy it.                    *)

LEMMA SetInduction ==
    ASSUME NEW S \in SUBSET Nat, 0 \in S, \A n \in S : n + 1 \in S
    PROVE  S = Nat
<1> DEFINE T == Nat \ S
<1>1. SUFFICES ASSUME T # {} PROVE FALSE
  OBVIOUS
<1>2. PICK least \in T : \A n \in T : ~ (<<n, least>> \in OpToRel(<, Nat))
  <2>1. T \subseteq Nat
    OBVIOUS
  <2> HIDE DEF T
  <2>2. QED
    BY <1>1, <2>1, NatLessThanWellFounded, WFMin, Zenon
<1>3. least # 0 /\ least \in Nat /\ least - 1 \in T
  OBVIOUS
<1>4. <<least - 1, least>> \in OpToRel(<, Nat)
  BY <1>3 DEF OpToRel
<1>5. QED
  BY <1>2, <1>3, <1>4

\* A set that has the empty sequence and all that appending makes of its members.
LEMMA SequenceInduction ==
    ASSUME NEW V, NEW S, <<>> \in S, \A s \in Seq(V) : s \in S => \A e \in V : Append(s, e) \in S
    PROVE  \A s \in Seq(V) : s \in S
<1> DEFINE T == {n \in Nat : \A s \in Seq(V) : Len(s) = n => s \in S}
<1>1. 0 \in T
  BY EmptySeq
<1>2. ASSUME NEW n \in T PROVE n + 1 \in T
  <2>1. SUFFICES ASSUME NEW t \in Seq(V), Len(t) = n + 1 PROVE t \in S
    OBVIOUS
  <2>2. PICK s \in Seq(V), e \in V : t = Append(s, e)
    BY <2>1, SequenceEmptyOrAppend, EmptySeq
  <2>3. Len(s) = n
    BY <2>1, <2>2, LenProperties, AppendProperties
  <2>4. QED
    BY <2>2, <2>3
<1> HIDE DEF T
<1>3. T \in SUBSET Nat
  BY DEF T
<1>4. T = Nat
  BY <1>1, <1>2, <1>3, SetInduction
<1>5. QED
  BY <1>4, LenProperties DEF T
============================================================================
