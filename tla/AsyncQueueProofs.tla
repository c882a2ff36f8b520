-------------------------- MODULE AsyncQueueProofs --------------------------
(***************************************************************************)
(* What holds of AsyncQueue for any frames, configurations and number of   *)
(* resets: the limit is kept, it is a FIFO, and a resume after a complete  *)
(* reset finds no frame of the time before.                                *)
(***************************************************************************)
EXTENDS AsyncQueue, FiniteSetTheorems, SequenceTheorems, TLAPS

-----------------------------------------------------------------------------
(* Sequences of frames *)

Sorted(s) == \A i, j \in DOMAIN s : i < j => s[i] < s[j]
Below(S, T) == \A m \in S, n \in T : m < n

(* What is in a sequence has a place in it.                                 *)
LEMMA RangeMember ==
  ASSUME NEW S, NEW s \in Seq(S), NEW x
  PROVE  x \in Range(s) <=> \E i \in 1..Len(s) : x = s[i]
  BY RangeEquality

(* Nothing is in the empty sequence, ...                                    *)
LEMMA EmptyRange == Range(<<>>) = {}
  BY DEF Range

(* ... and one element in a sequence of one.                                *)
LEMMA SingleRange ==
  ASSUME NEW x
  PROVE  /\ <<x>> \in Seq({x}) /\ Len(<<x>>) = 1 /\ Range(<<x>>) = {x}
  BY DEF Range

(* A concatenation is sorted if its parts are, and one is below the other. *)
LEMMA SortedConcat ==
  ASSUME NEW s \in Seq(Int), NEW t \in Seq(Int)
  PROVE  Sorted(s \o t) <=>
           /\ Sorted(s) /\ Sorted(t) /\ Below(Range(s), Range(t))
<1>1. /\ s \o t \in Seq(Int) /\ Len(s \o t) = Len(s) + Len(t)
      /\ \A i \in 1 .. Len(s) + Len(t) :
           (s \o t)[i] = IF i <= Len(s) THEN s[i] ELSE t[i - Len(s)]
  BY ConcatProperties
<1>2. Len(s) \in Nat /\ Len(t) \in Nat /\ DOMAIN s = 1..Len(s) /\ DOMAIN t = 1..Len(t)
  BY LenProperties
<1>3. DOMAIN (s \o t) = 1 .. Len(s) + Len(t)
  BY <1>1, LenProperties
<1>4. (\A i \in 1..Len(s) : s[i] \in Int) /\ (\A i \in 1..Len(t) : t[i] \in Int)
  BY ElementOfSeq
<1>5. ASSUME Sorted(s \o t) PROVE Sorted(s) /\ Sorted(t) /\ Below(Range(s), Range(t))
  <2>1. \A i, j \in 1 .. Len(s) + Len(t) : i < j => (s \o t)[i] < (s \o t)[j]
    BY <1>3, <1>5 DEF Sorted
  <2>2. Sorted(s)
    <3> SUFFICES ASSUME NEW i \in 1..Len(s), NEW j \in 1..Len(s), i < j
                 PROVE  s[i] < s[j]
      BY <1>2 DEF Sorted
    <3>1. i \in 1 .. Len(s) + Len(t) /\ j \in 1 .. Len(s) + Len(t)
      BY <1>2
    <3>2. (s \o t)[i] < (s \o t)[j] BY <2>1, <3>1
    <3>3. (s \o t)[i] = s[i] /\ (s \o t)[j] = s[j] BY <1>1, <1>2, <3>1
    <3> QED BY <3>2, <3>3
  <2>3. Sorted(t)
    <3> SUFFICES ASSUME NEW i \in 1..Len(t), NEW j \in 1..Len(t), i < j
                 PROVE  t[i] < t[j]
      BY <1>2 DEF Sorted
    <3>1. /\ i + Len(s) \in 1 .. Len(s) + Len(t) /\ i + Len(s) < j + Len(s)
          /\ j + Len(s) \in 1 .. Len(s) + Len(t)
          /\ i + Len(s) - Len(s) = i /\ j + Len(s) - Len(s) = j
          /\ ~(i + Len(s) <= Len(s)) /\ ~(j + Len(s) <= Len(s))
      BY <1>2
    <3>2. (s \o t)[i + Len(s)] < (s \o t)[j + Len(s)]
      BY <2>1, <3>1
    <3>3. (s \o t)[i + Len(s)] = t[i] /\ (s \o t)[j + Len(s)] = t[j]
      BY <1>1, <3>1
    <3> QED BY <3>2, <3>3
  <2>4. ASSUME NEW i \in 1..Len(s), NEW j \in 1..Len(t) PROVE s[i] < t[j]
    <3>1. /\ i \in 1 .. Len(s) + Len(t) /\ i < j + Len(s) /\ i <= Len(s)
          /\ j + Len(s) \in 1 .. Len(s) + Len(t)
          /\ j + Len(s) - Len(s) = j /\ ~(j + Len(s) <= Len(s))
      BY <1>2
    <3>2. (s \o t)[i] < (s \o t)[j + Len(s)]
      BY <2>1, <3>1
    <3>3. (s \o t)[i] = s[i] /\ (s \o t)[j + Len(s)] = t[j]
      BY <1>1, <3>1, SMTT(60)
    <3> QED BY <3>2, <3>3
  <2>5. Below(Range(s), Range(t))
    <3> SUFFICES ASSUME NEW m \in Range(s), NEW n \in Range(t) PROVE m < n
      BY DEF Below
    <3>1. (\E i \in 1..Len(s) : m = s[i]) /\ (\E j \in 1..Len(t) : n = t[j])
      BY RangeMember
    <3> QED BY <2>4, <3>1
  <2> QED BY <2>2, <2>3, <2>5
<1>6. ASSUME Sorted(s), Sorted(t), Below(Range(s), Range(t)) PROVE Sorted(s \o t)
  <2> SUFFICES ASSUME NEW i \in 1 .. Len(s) + Len(t), NEW j \in 1 .. Len(s) + Len(t),
                      i < j
               PROVE  (s \o t)[i] < (s \o t)[j]
    BY <1>3 DEF Sorted
  <2>1. CASE j <= Len(s)
    <3>1. i \in 1..Len(s) /\ j \in 1..Len(s) BY <1>2, <2>1
    <3>2. s[i] < s[j] BY <1>2, <1>6, <3>1 DEF Sorted
    <3>3. i <= Len(s) /\ j <= Len(s) BY <1>2, <3>1
    <3> QED BY <1>1, <3>2, <3>3
  <2>2. CASE i > Len(s)
    <3>1. i - Len(s) \in 1..Len(t) /\ j - Len(s) \in 1..Len(t) /\ i - Len(s) < j - Len(s)
      BY <1>2, <2>2
    <3>2. t[i - Len(s)] < t[j - Len(s)] BY <1>2, <1>6, <3>1 DEF Sorted
    <3> QED BY <1>1, <1>2, <2>2, <3>2
  <2>3. CASE i <= Len(s) /\ j > Len(s)
    <3>1. i \in 1..Len(s) /\ j - Len(s) \in 1..Len(t) BY <1>2, <2>3
    <3>2. s[i] \in Range(s) /\ t[j - Len(s)] \in Range(t) BY <3>1, RangeMember
    <3> QED BY <1>1, <1>2, <1>6, <2>3, <3>2 DEF Below
  <2> QED BY <1>2, <2>1, <2>2, <2>3, SMTT(60)
<1> QED BY <1>5, <1>6

(* Sequences of at most one frame are sorted.                               *)
LEMMA SortedSingle ==
  ASSUME NEW n \in Int PROVE <<n>> \in Seq(Int) /\ Sorted(<<n>>)
  BY DEF Sorted

(* So is the empty one.                                                     *)
LEMMA SortedEmpty == <<>> \in Seq(Int) /\ Sorted(<<>>)
  BY DEF Sorted

(* Reversing keeps the elements and mirrors their places.                   *)
LEMMA ReverseProperties ==
  ASSUME NEW S, NEW s \in Seq(S)
  PROVE  /\ Reverse(s) \in Seq(S) /\ Len(Reverse(s)) = Len(s)
         /\ \A i \in 1..Len(s) : Reverse(s)[i] = s[Len(s) - i + 1]
         /\ Range(Reverse(s)) = Range(s)
<1>1. Len(s) \in Nat BY LenProperties
<1>2. \A i \in 1..Len(s) : s[Len(s) - i + 1] \in S
  BY <1>1, ElementOfSeq
<1>3. Reverse(s) \in [1..Len(s) -> S]
  BY <1>1, <1>2 DEF Reverse
<1>4. Reverse(s) \in Seq(S)
  BY <1>1, <1>3, SeqDef
<1>5. DOMAIN Reverse(s) = 1..Len(s)
  BY <1>3
<1>6. Len(Reverse(s)) = Len(s)
  BY <1>1, <1>4, <1>5, LenProperties
<1>7. \A i \in 1..Len(s) : Reverse(s)[i] = s[Len(s) - i + 1]
  BY <1>1 DEF Reverse
<1>8. ASSUME NEW x PROVE x \in Range(Reverse(s)) <=> x \in Range(s)
  <2>1. x \in Range(s) <=> \E i \in 1..Len(s) : x = s[i] BY RangeMember
  <2>2. x \in Range(Reverse(s)) <=> \E i \in 1..Len(s) : x = Reverse(s)[i]
    BY <1>4, <1>6, RangeMember
  <2>3. ASSUME NEW i \in 1..Len(s) PROVE Len(s) - i + 1 \in 1..Len(s) /\
            Len(s) - (Len(s) - i + 1) + 1 = i
    BY <1>1
  <2> QED BY <1>7, <2>1, <2>2, <2>3
<1> QED BY <1>4, <1>6, <1>7, <1>8

(* What is put into the queue comes last, ... *)
LEMMA ReverseInsert ==
  ASSUME NEW S, NEW s \in Seq(S), NEW x \in S
  PROVE  /\ <<x>> \o s \in Seq(S) /\ Reverse(<<x>> \o s) = Reverse(s) \o <<x>>
         /\ Range(<<x>> \o s) = Range(s) \cup {x} /\ Head(<<x>> \o s) = x
<1>1. <<x>> \in Seq(S) /\ Len(<<x>>) = 1 /\ <<x>>[1] = x
  OBVIOUS
<1>2. /\ <<x>> \o s \in Seq(S) /\ Len(<<x>> \o s) = Len(s) + 1
      /\ \A i \in 1 .. Len(s) + 1 : (<<x>> \o s)[i] = IF i <= 1 THEN x ELSE s[i - 1]
  BY <1>1, ConcatProperties, LenProperties
<1>3. Reverse(s) \in Seq(S) /\ Len(Reverse(s)) = Len(s)
  BY ReverseProperties
<1>4. /\ Reverse(s) \o <<x>> \in Seq(S) /\ Len(Reverse(s) \o <<x>>) = Len(s) + 1
      /\ \A i \in 1 .. Len(s) + 1 : (Reverse(s) \o <<x>>)[i] =
            IF i <= Len(s) THEN Reverse(s)[i] ELSE <<x>>[i - Len(s)]
  BY <1>1, <1>3, ConcatProperties
<1>5. Reverse(<<x>> \o s) \in Seq(S) /\ Len(Reverse(<<x>> \o s)) = Len(s) + 1
  BY <1>2, ReverseProperties
<1>6. Len(s) \in Nat BY LenProperties
<1>7. ASSUME NEW i \in 1 .. Len(s) + 1
      PROVE  Reverse(<<x>> \o s)[i] = (Reverse(s) \o <<x>>)[i]
  <2>1. Reverse(<<x>> \o s)[i] = (<<x>> \o s)[Len(s) + 1 - i + 1]
    <3>1. \A k \in 1 .. Len(<<x>> \o s) :
            Reverse(<<x>> \o s)[k] = (<<x>> \o s)[Len(<<x>> \o s) - k + 1]
      BY <1>2, ReverseProperties
    <3> QED BY <1>2, <3>1
  <2>2. CASE i <= Len(s)
    <3>1. Reverse(s)[i] = s[Len(s) - i + 1] BY <1>6, <2>2, ReverseProperties
    <3>2. (<<x>> \o s)[Len(s) + 1 - i + 1] = s[Len(s) + 1 - i + 1 - 1]
      BY <1>2, <1>6, <2>2
    <3>3. Len(s) + 1 - i + 1 - 1 = Len(s) - i + 1 BY <1>6
    <3> QED BY <1>4, <2>1, <2>2, <3>1, <3>2, <3>3
  <2>3. CASE i = Len(s) + 1
    BY <1>1, <1>2, <1>4, <1>6, <2>1, <2>3
  <2>4. i <= Len(s) \/ i = Len(s) + 1 BY <1>6
  <2> QED BY <2>2, <2>3, <2>4
<1>8. Reverse(<<x>> \o s) = Reverse(s) \o <<x>>
  BY <1>4, <1>5, <1>7, SeqEqual
<1>9. Range(<<x>> \o s) = Range(s) \cup {x}
  <2>1. Range(<<x>> \o s) = Range(<<x>>) \cup Range(s) BY <1>1, RangeConcatenation, ZenonT(60)
  <2> QED BY <2>1, SingleRange
<1>10. Head(<<x>> \o s) = x
  BY <1>2, <1>6, HeadTailProperties
<1> QED BY <1>2, <1>8, <1>9, <1>10

(* The newest frame.                                                        *)
LEMMA HeadIsFirst ==
  ASSUME NEW S, NEW s \in Seq(S), s # <<>> PROVE Head(s) = s[1]
  OBVIOUS

(* ... and what is taken from its end comes first.                         *)
LEMMA ReverseTake ==
  ASSUME NEW S, NEW s \in Seq(S), s # <<>>
  PROVE  /\ Last(s) \in S /\ Front(s) \in Seq(S)
         /\ Reverse(s) = <<Last(s)>> \o Reverse(Front(s))
         /\ Range(s) = Range(Front(s)) \cup {Last(s)}
         /\ Front(s) # <<>> => Head(Front(s)) = Head(s)
         /\ Len(s) > 0 /\ (Len(s) > 1 => Front(s) # <<>>)
<1>1. Len(s) \in Nat \ {0} BY EmptySeq
<1>2. \A i \in 1..Len(s) : s[i] \in S BY ElementOfSeq
<1>3. /\ Front(s) \in Seq(S) /\ Len(Front(s)) = Len(s) - 1
      /\ \A i \in 1 .. Len(s) - 1 : Front(s)[i] = s[i]
  <2>1. \A i \in 1 .. Len(s) - 1 : s[i] \in S BY <1>1, <1>2
  <2>2. /\ SubSeq(s, 1, Len(s) - 1) \in Seq(S)
        /\ Len(SubSeq(s, 1, Len(s) - 1)) =
             IF 1 <= Len(s) - 1 THEN Len(s) - 1 - 1 + 1 ELSE 0
        /\ \A i \in 1 .. Len(s) - 1 - 1 + 1 : SubSeq(s, 1, Len(s) - 1)[i] = s[1 + i - 1]
    BY <1>1, <2>1, SubSeqProperties
  <2>3. \A i \in 1 .. Len(s) - 1 : 1 + i - 1 = i BY <1>1
  <2>4. \A k \in Nat \ {0} : k - 1 - 1 + 1 = k - 1 /\ (~(1 <= k - 1) => k - 1 = 0)
    OBVIOUS
  <2> QED BY <1>1, <2>2, <2>3, <2>4 DEF Front
<1>4. Last(s) \in S BY <1>1, <1>2 DEF Last
<1>5. <<Last(s)>> \in Seq(S) /\ Len(<<Last(s)>>) = 1 /\ <<Last(s)>>[1] = Last(s)
  BY <1>4
<1>6. /\ Reverse(Front(s)) \in Seq(S) /\ Len(Reverse(Front(s))) = Len(s) - 1
      /\ \A i \in 1 .. Len(s) - 1 :
           Reverse(Front(s))[i] = Front(s)[Len(s) - 1 - i + 1]
  BY <1>3, ReverseProperties, SMTT(60)
<1>7. /\ Reverse(s) \in Seq(S) /\ Len(Reverse(s)) = Len(s)
      /\ \A i \in 1..Len(s) : Reverse(s)[i] = s[Len(s) - i + 1]
  BY ReverseProperties
<1>8. /\ <<Last(s)>> \o Reverse(Front(s)) \in Seq(S)
      /\ Len(<<Last(s)>> \o Reverse(Front(s))) = Len(s)
      /\ \A i \in 1..Len(s) : (<<Last(s)>> \o Reverse(Front(s)))[i] =
            IF i <= 1 THEN <<Last(s)>>[i] ELSE Reverse(Front(s))[i - 1]
  <2>1. /\ <<Last(s)>> \o Reverse(Front(s)) \in Seq(S)
        /\ Len(<<Last(s)>> \o Reverse(Front(s))) = 1 + (Len(s) - 1)
        /\ \A i \in 1 .. 1 + (Len(s) - 1) : (<<Last(s)>> \o Reverse(Front(s)))[i] =
              IF i <= 1 THEN <<Last(s)>>[i] ELSE Reverse(Front(s))[i - 1]
    BY <1>5, <1>6, ConcatProperties
  <2>2. 1 + (Len(s) - 1) = Len(s) BY <1>1
  <2> QED BY <2>1, <2>2
<1>9. ASSUME NEW i \in 1..Len(s)
      PROVE  Reverse(s)[i] = (<<Last(s)>> \o Reverse(Front(s)))[i]
  <2>1. CASE i = 1 BY <1>1, <1>5, <1>7, <1>8, <2>1 DEF Last
  <2>2. CASE i > 1
    <3>1. i - 1 \in 1 .. Len(s) - 1 /\ Len(s) - i + 1 \in 1 .. Len(s) - 1
          /\ Len(s) - 1 - (i - 1) + 1 = Len(s) - i + 1
      BY <1>1, <2>2
    <3>2. Reverse(Front(s))[i - 1] = Front(s)[Len(s) - i + 1]
      BY <1>6, <3>1
    <3>3. Front(s)[Len(s) - i + 1] = s[Len(s) - i + 1]
      BY <1>3, <3>1
    <3>4. ~(i <= 1) BY <1>1, <2>2
    <3>5. (<<Last(s)>> \o Reverse(Front(s)))[i] = Reverse(Front(s))[i - 1]
      BY <1>8, <3>4
    <3>6. Reverse(s)[i] = s[Len(s) - i + 1] BY <1>7
    <3> QED BY <3>2, <3>3, <3>5, <3>6
  <2>3. i = 1 \/ i > 1 BY <1>1
  <2> QED BY <2>1, <2>2, <2>3
<1>10. Reverse(s) = <<Last(s)>> \o Reverse(Front(s))
  BY <1>7, <1>8, <1>9, SeqEqual
<1>11. Range(s) = Range(Front(s)) \cup {Last(s)}
  <2>1. Range(<<Last(s)>> \o Reverse(Front(s))) =
           Range(<<Last(s)>>) \cup Range(Reverse(Front(s)))
    BY <1>5, <1>6, RangeConcatenation, ZenonT(60)
  <2>2. Range(Reverse(Front(s))) = Range(Front(s)) BY <1>3, ReverseProperties
  <2>3. Range(Reverse(s)) = Range(s) BY ReverseProperties
  <2> QED BY <1>10, <2>1, <2>2, <2>3, SingleRange
<1>12. ASSUME Front(s) # <<>> PROVE Head(Front(s)) = Head(s)
  <2>1. Len(Front(s)) \in Nat \ {0} BY <1>3, <1>12, EmptySeq
  <2>2. Front(s)[1] = s[1] BY <1>1, <1>3, <2>1
  <2>3. Head(Front(s)) = Front(s)[1] /\ Head(s) = s[1] BY <1>3, <1>12, HeadIsFirst
  <2> QED BY <2>2, <2>3
<1>13. Len(s) > 1 => Front(s) # <<>>
  BY <1>1, <1>3, EmptySeq
<1> QED BY <1>1, <1>3, <1>4, <1>10, <1>11, <1>12, <1>13
-----------------------------------------------------------------------------
(* The samples in the queue *)

SamplesOf(unit, S) == UNION {{n} \X (1 .. frame_get_samples(unit, n)) : n \in S}

(* The frames are numbered, and contain a number of samples each.           *)
LEMMA FramesFinite ==
  ASSUME AsyncQueueAssumption
  PROVE  /\ Len(Samples) \in Nat /\ Frames = 1 .. Len(Samples) /\ IsFiniteSet(Frames)
         /\ NoFrame \notin Frames
         /\ \A unit, n : n \in Frames => frame_get_samples(unit, n) \in Nat
<1>1. Len(Samples) \in Nat /\ Frames = 1 .. Len(Samples)
  BY LenProperties DEF AsyncQueueAssumption, Frames
<1>2. \A n \in Frames : Samples[n] \in Nat
  BY <1>1, ElementOfSeq DEF AsyncQueueAssumption
<1>3. IsFiniteSet(Frames)
  BY <1>1, FS_Interval
<1> QED BY <1>1, <1>2, <1>3 DEF frame_get_samples, AsyncQueueAssumption

(* The sum over some frames is a number.                                    *)
LEMMA SamplesFinite ==
  ASSUME AsyncQueueAssumption, NEW unit, NEW S \in SUBSET Frames
  PROVE  IsFiniteSet(SamplesOf(unit, S)) /\ Cardinality(SamplesOf(unit, S)) \in Nat
<1> DEFINE part == [n \in S |-> {n} \X (1 .. frame_get_samples(unit, n))]
           parts == {{n} \X (1 .. frame_get_samples(unit, n)) : n \in S}
<1>1. IsFiniteSet(S)
  BY FramesFinite, FS_Subset
<1>2. part \in Surjection(S, parts)
  BY DEF Surjection
<1>3. IsFiniteSet(parts)
  BY <1>1, <1>2, FS_Surjection
<1>4. \A n \in S : IsFiniteSet({n} \X (1 .. frame_get_samples(unit, n)))
  <2> SUFFICES ASSUME NEW n \in S
               PROVE  IsFiniteSet({n} \X (1 .. frame_get_samples(unit, n)))
    OBVIOUS
  <2>0. frame_get_samples(unit, n) \in Nat BY FramesFinite
  <2>1. IsFiniteSet(1 .. frame_get_samples(unit, n))
    BY <2>0, FS_Interval
  <2>2. IsFiniteSet({n}) BY FS_Singleton
  <2> QED BY <2>1, <2>2, FS_Product, Zenon
<1>5. IsFiniteSet(SamplesOf(unit, S))
  BY <1>3, <1>4, FS_UNION DEF SamplesOf
<1> QED BY <1>5, FS_CardinalityType

(* A frame more or less changes the sum by the samples it contains.        *)
LEMMA SamplesOfOneMore ==
  ASSUME AsyncQueueAssumption, NEW unit, NEW S \in SUBSET Frames,
         NEW n \in Frames, n \notin S
  PROVE  Cardinality(SamplesOf(unit, S \cup {n})) =
            Cardinality(SamplesOf(unit, S)) + frame_get_samples(unit, n)
<1> DEFINE own == {n} \X (1 .. frame_get_samples(unit, n))
<1>1. SamplesOf(unit, S \cup {n}) = SamplesOf(unit, S) \cup own
  BY DEF SamplesOf
<1>2. SamplesOf(unit, S) \cap own = {}
  BY DEF SamplesOf
<1>3. IsFiniteSet(SamplesOf(unit, S)) /\ Cardinality(SamplesOf(unit, S)) \in Nat
  BY SamplesFinite
<1>4. frame_get_samples(unit, n) \in Nat
  BY FramesFinite
<1>5. IsFiniteSet(own) /\ Cardinality(own) = frame_get_samples(unit, n)
  <2>1. /\ IsFiniteSet(1 .. frame_get_samples(unit, n))
        /\ Cardinality(1 .. frame_get_samples(unit, n)) = frame_get_samples(unit, n)
    BY <1>4, FS_Interval
  <2>2. IsFiniteSet({n}) /\ Cardinality({n}) = 1
    BY FS_Singleton
  <2>3. /\ IsFiniteSet(own)
        /\ Cardinality(own) = Cardinality({n}) * Cardinality(1 .. frame_get_samples(unit, n))
    BY <2>1, <2>2, FS_Product, Zenon
  <2> HIDE DEF own
  <2> QED BY <1>4, <2>1, <2>2, <2>3
<1>6. Cardinality(SamplesOf(unit, S) \cup own) =
        Cardinality(SamplesOf(unit, S)) + Cardinality(own)
        - Cardinality(SamplesOf(unit, S) \cap own)
  BY <1>3, <1>5, FS_Union
<1>7. Cardinality(SamplesOf(unit, S) \cap own) = 0
  BY <1>2, FS_EmptySet, Zenon
<1>8. Cardinality(SamplesOf(unit, S \cup {n})) = Cardinality(SamplesOf(unit, S) \cup own)
  BY <1>1, Zenon
<1> HIDE DEF own
<1> QED BY <1>3, <1>4, <1>5, <1>6, <1>7, <1>8

(* The sum over an empty queue, ...                                         *)
LEMMA TotalEmpty ==
  ASSUME NEW unit PROVE TotalSamples(unit, <<>>) = 0
<1>1. UNION {{n} \X (1 .. frame_get_samples(unit, n)) : n \in Range(<<>>)} = {}
  BY EmptyRange
<1> QED BY <1>1, FS_EmptySet DEF TotalSamples

(* ... over any queue, ...                                                  *)
LEMMA TotalType ==
  ASSUME AsyncQueueAssumption, NEW unit, NEW s \in Seq(Frames)
  PROVE  TotalSamples(unit, s) \in Nat
<1>1. Range(s) \in SUBSET Frames BY RangeOfSeq
<1> QED BY <1>1, SamplesFinite DEF TotalSamples, SamplesOf

(* ... and over a queue with another frame in it.                           *)
LEMMA TotalOneMore ==
  ASSUME AsyncQueueAssumption, NEW unit, NEW s \in Seq(Frames), NEW t,
         NEW n \in Frames, n \notin Range(s), Range(t) = Range(s) \cup {n}
  PROVE  TotalSamples(unit, t) = TotalSamples(unit, s) + frame_get_samples(unit, n)
<1>1. Range(s) \in SUBSET Frames BY RangeOfSeq
<1>2. TotalSamples(unit, t) = Cardinality(SamplesOf(unit, Range(s) \cup {n}))
  BY DEF TotalSamples, SamplesOf
<1>3. TotalSamples(unit, s) = Cardinality(SamplesOf(unit, Range(s)))
  BY DEF TotalSamples, SamplesOf
<1> QED BY <1>1, <1>2, <1>3, SamplesOfOneMore
-----------------------------------------------------------------------------
(* The order of the frames *)

Accounted(S, gone, n) == S \cup gone = 1..n /\ S \cap gone = {}
Order(p, gone, n) == Sorted(p) /\ Accounted(Range(p), gone, n)

(* The property in terms of the operators above.                            *)
LEMMA InOrderIsOrder == InOrder <=> Order(Pipeline, dropped, produced)
  BY Zenon DEF InOrder, Order, Accounted, Sorted

(* What is in a concatenation, and when it is sorted.                       *)
LEMMA TwoParts ==
  ASSUME NEW s \in Seq(Int), NEW t \in Seq(Int)
  PROVE  /\ s \o t \in Seq(Int) /\ Range(s \o t) = Range(s) \cup Range(t)
         /\ Sorted(s \o t) <=> Sorted(s) /\ Sorted(t) /\ Below(Range(s), Range(t))
<1>1. s \o t \in Seq(Int) BY ConcatProperties
<1>2. Range(s \o t) = Range(s) \cup Range(t) BY RangeConcatenation
<1> QED BY <1>1, <1>2, SortedConcat, Zenon

(* The form of a library theorem that the provers can use here.             *)
LEMMA Associative == \A s, t, u \in Seq(Int) : s \o (t \o u) = (s \o t) \o u
<1> TAKE s, t, u \in Seq(Int)
<1> QED BY ConcatAssociative, SMTT(60)

(* ReverseInsert for numbers, for the same reason.                          *)
LEMMA InsertedLast ==
  \A s \in Seq(Int), x \in Int : Reverse(<<x>> \o s) = Reverse(s) \o <<x>>
<1> TAKE s \in Seq(Int), x \in Int
<1> QED BY ReverseInsert

Ascending(d, o, r, i) ==
  /\ Sorted(d) /\ Sorted(o) /\ Sorted(r) /\ Sorted(i)
  /\ Below(Range(d), Range(o)) /\ Below(Range(d), Range(r))
  /\ Below(Range(d), Range(i)) /\ Below(Range(o), Range(r))
  /\ Below(Range(o), Range(i)) /\ Below(Range(r), Range(i))

Members(d, o, r, i) == Range(d) \cup Range(o) \cup Range(r) \cup Range(i)

(* The same as TwoParts for the four parts of the pipeline.                 *)
LEMMA Parts ==
  ASSUME NEW d \in Seq(Int), NEW o \in Seq(Int), NEW r \in Seq(Int), NEW i \in Seq(Int)
  PROVE  /\ d \o o \o r \o i \in Seq(Int)
         /\ Range(d \o o \o r \o i) = Members(d, o, r, i)
         /\ Sorted(d \o o \o r \o i) <=> Ascending(d, o, r, i)
<1>1. /\ d \o o \in Seq(Int) /\ Range(d \o o) = Range(d) \cup Range(o)
      /\ Sorted(d \o o) <=> Sorted(d) /\ Sorted(o) /\ Below(Range(d), Range(o))
  BY TwoParts, Zenon
<1>2. /\ (d \o o) \o r \in Seq(Int) /\ Range((d \o o) \o r) = Range(d \o o) \cup Range(r)
      /\ Sorted((d \o o) \o r) <=>
           Sorted(d \o o) /\ Sorted(r) /\ Below(Range(d \o o), Range(r))
  BY <1>1, TwoParts, Zenon
<1>3. /\ ((d \o o) \o r) \o i \in Seq(Int)
      /\ Range(((d \o o) \o r) \o i) = Range((d \o o) \o r) \cup Range(i)
      /\ Sorted(((d \o o) \o r) \o i) <=>
           Sorted((d \o o) \o r) /\ Sorted(i) /\ Below(Range((d \o o) \o r), Range(i))
  BY <1>2, TwoParts, Zenon
<1>4. \A A, B, C : Below(A \cup B, C) <=> Below(A, C) /\ Below(B, C)
  BY DEF Below
<1>5. Below(Range(d \o o), Range(r)) <=> Below(Range(d), Range(r)) /\ Below(Range(o), Range(r))
  BY <1>1, <1>4
<1>6. Below(Range((d \o o) \o r), Range(i)) <=>
        Below(Range(d), Range(i)) /\ Below(Range(o), Range(i)) /\ Below(Range(r), Range(i))
  <2>1. Range((d \o o) \o r) = (Range(d) \cup Range(o)) \cup Range(r) BY <1>1, <1>2, Zenon
  <2> QED BY <2>1, <1>4, Zenon
<1>7. Range(((d \o o) \o r) \o i) = Members(d, o, r, i)
  BY <1>1, <1>2, <1>3, Zenon DEF Members
<1>8. Sorted(((d \o o) \o r) \o i) <=> Ascending(d, o, r, i)
  BY <1>1, <1>2, <1>3, <1>5, <1>6, Zenon DEF Ascending
<1> QED BY <1>3, <1>7, <1>8, Zenon

(* The order of the pipeline in terms of its parts.                         *)
LEMMA OrderOfParts ==
  ASSUME NEW d \in Seq(Int), NEW o \in Seq(Int), NEW r \in Seq(Int), NEW i \in Seq(Int),
         NEW gone, NEW n
  PROVE  Order(d \o o \o r \o i, gone, n) <=>
           Ascending(d, o, r, i) /\ Accounted(Members(d, o, r, i), gone, n)
<1> DEFINE p == d \o o \o r \o i
<1>1. Range(p) = Members(d, o, r, i)
  BY Parts, ZenonT(60)
<1>2. Sorted(p) <=> Ascending(d, o, r, i)
  BY Parts, Zenon
<1> HIDE DEF p
<1>3. Order(p, gone, n) <=>
           Ascending(d, o, r, i) /\ Accounted(Members(d, o, r, i), gone, n)
  BY <1>1, <1>2 DEF Order
<1> QED BY <1>3 DEF p

(* Emptying the pins or the queue leaves the others in order.              *)
Removes(o, r, i, gone, o2, r2, i2, gone2) ==
  /\ o2 \in {o, <<>>} /\ r2 \in {r, <<>>} /\ i2 \in {i, <<>>}
  /\ gone2 = gone \cup (Range(o) \ Range(o2)) \cup (Range(r) \ Range(r2))
                  \cup (Range(i) \ Range(i2))

LEMMA Removal ==
  ASSUME NEW d \in Seq(Int), NEW o \in Seq(Int), NEW r \in Seq(Int), NEW i \in Seq(Int),
         NEW gone, NEW n, Order(d \o o \o r \o i, gone, n),
         NEW o2, NEW r2, NEW i2, NEW gone2, Removes(o, r, i, gone, o2, r2, i2, gone2)
  PROVE  Order(d \o o2 \o r2 \o i2, gone2, n)
<1> USE DEF Removes
<1>1. o2 \in Seq(Int) /\ r2 \in Seq(Int) /\ i2 \in Seq(Int)
  BY SortedEmpty
<1>2. \A s : \A t \in {s, <<>>} : Range(t) \subseteq Range(s) /\ (Sorted(s) => Sorted(t))
  BY EmptyRange, SortedEmpty
<1>3. Ascending(d, o, r, i)
  BY OrderOfParts, Zenon
<1>4. Accounted(Members(d, o, r, i), gone, n)
  BY OrderOfParts, Zenon
<1>5. Range(o2) \subseteq Range(o) /\ Range(r2) \subseteq Range(r) /\ Range(i2) \subseteq Range(i)
  BY <1>2
<1>6. Ascending(d, o2, r2, i2)
  <2>1. \A A, B, C, D : Below(A, B) /\ C \subseteq A /\ D \subseteq B => Below(C, D)
    BY DEF Below
  <2>2. Sorted(o2) /\ Sorted(r2) /\ Sorted(i2)
    BY <1>2, <1>3 DEF Ascending
  <2> QED BY <1>3, <1>5, <2>1, <2>2 DEF Ascending
<1>7. \A A, B \in SUBSET Int : Below(A, B) => A \cap B = {}
  BY DEF Below
<1>8. /\ Range(d) \in SUBSET Int /\ Range(o) \in SUBSET Int
      /\ Range(r) \in SUBSET Int /\ Range(i) \in SUBSET Int
  BY RangeOfSeq
<1>9. /\ Range(d) \cap Range(o) = {} /\ Range(d) \cap Range(r) = {}
      /\ Range(d) \cap Range(i) = {} /\ Range(o) \cap Range(r) = {}
      /\ Range(o) \cap Range(i) = {} /\ Range(r) \cap Range(i) = {}
  BY <1>3, <1>7, <1>8 DEF Ascending
<1>10. Accounted(Members(d, o2, r2, i2), gone2, n)
  BY <1>4, <1>5, <1>9 DEF Members, Accounted
<1>11. ASSUME NEW a \in Seq(Int), NEW b \in Seq(Int), NEW c \in Seq(Int),
              Ascending(d, a, b, c), Accounted(Members(d, a, b, c), gone2, n)
       PROVE  Order(d \o a \o b \o c, gone2, n)
  BY <1>11, OrderOfParts, Zenon
<1> QED BY <1>1, <1>6, <1>10, <1>11
-----------------------------------------------------------------------------
(* The invariant *)

(* A pin has a frame, a request for one, or none of both; a filter that    *)
(* does not exist has no pin.                                              *)
PinsAgree ==
  \A e \in Ends :
    /\ data_requested[e] => data[e] = NoFrame
    /\ ~conn[e] => data[e] = NoFrame /\ ~data_requested[e]

(* Between a reset and a resume, the filters that have been reset hold no  *)
(* frame, and the input filter asks for none.                              *)
ResetDone ==
  /\ mark <= produced
  /\ ~active => \A e \in Ends \ resetting :
       data[e] = NoFrame /\ (data_requested[e] => e = "out")

IInv == TypeOK /\ InOrder /\ PinsAgree /\ ResetDone /\ NoStaleFrame

(* What is on a pin.                                                        *)
LEMMA PinRange ==
  ASSUME NEW e
  PROVE  Range(InPin(e)) = {data[e]} \ {NoFrame}
<1>1. CASE data[e] = NoFrame BY <1>1, EmptyRange DEF InPin
<1>2. CASE data[e] # NoFrame BY <1>2, SingleRange DEF InPin
<1> QED BY <1>1, <1>2

(* The parts of the pipeline are sequences of numbers.                      *)
LEMMA PipelineTypes ==
  ASSUME AsyncQueueAssumption, TypeOK
  PROVE  /\ delivered \in Seq(Int) /\ frames \in Seq(Int) /\ Reverse(frames) \in Seq(Int)
         /\ \A e \in Ends : InPin(e) \in Seq(Int)
         /\ Range(Reverse(frames)) = Range(frames)
<1>1. Frames \subseteq Int BY FramesFinite
<1>2. delivered \in Seq(Int) /\ frames \in Seq(Int)
  BY <1>1, SeqMonotonic DEF TypeOK, Types
<1>3. \A e \in Ends : InPin(e) \in Seq(Int)
  <2> SUFFICES ASSUME NEW e \in Ends PROVE InPin(e) \in Seq(Int) OBVIOUS
  <2>1. data[e] \in Frames \cup {NoFrame} BY DEF TypeOK, Types, Frame
  <2>2. CASE data[e] = NoFrame BY <2>2, SortedEmpty DEF InPin
  <2>3. CASE data[e] # NoFrame
    <3>1. data[e] \in Int BY <1>1, <2>1, <2>3
    <3> QED BY <2>3, <3>1, SortedSingle DEF InPin
  <2> QED BY <2>2, <2>3
<1> QED BY <1>2, <1>3, ReverseProperties

(* The frames in the pipeline are those produced and not dropped, and none *)
(* is at two places.                                                       *)
LEMMA Places ==
  ASSUME AsyncQueueAssumption, TypeOK, InOrder
  PROVE  /\ Ascending(delivered, InPin("out"), Reverse(frames), InPin("in"))
         /\ Accounted(Members(delivered, InPin("out"), Reverse(frames), InPin("in")),
                      dropped, produced)
         /\ data["in"] # NoFrame => data["in"] \notin Range(frames)
<1>1. Order(delivered \o InPin("out") \o Reverse(frames) \o InPin("in"), dropped, produced)
  BY InOrderIsOrder, Zenon DEF Pipeline
<1>2. /\ delivered \in Seq(Int) /\ Reverse(frames) \in Seq(Int) /\ frames \in Seq(Int)
      /\ InPin("out") \in Seq(Int) /\ InPin("in") \in Seq(Int)
  BY PipelineTypes DEF Ends
<1>3. /\ Ascending(delivered, InPin("out"), Reverse(frames), InPin("in"))
      /\ Accounted(Members(delivered, InPin("out"), Reverse(frames), InPin("in")),
                      dropped, produced)
  BY <1>1, <1>2, OrderOfParts, Zenon
<1>4. ASSUME data["in"] # NoFrame, data["in"] \in Range(frames) PROVE FALSE
  <2>1. data["in"] \in Range(InPin("in")) BY <1>4, PinRange
  <2>2. data["in"] \in Range(Reverse(frames)) BY <1>4, PipelineTypes
  <2>3. data["in"] < data["in"] BY <1>3, <2>1, <2>2 DEF Ascending, Below
  <2>4. Range(frames) \in SUBSET Int BY <1>2, RangeOfSeq
  <2>5. data["in"] \in Int BY <1>4, <2>4
  <2> QED BY <2>3, <2>5
<1> QED BY <1>3, <1>4
-----------------------------------------------------------------------------
(* Frames only leave the order with a reset, and new ones come last.       *)
LEMMA InOrderStep ==
  ASSUME AsyncQueueAssumption, TypeOK, InOrder, PinsAgree, [Next]_vars
  PROVE  InOrder'
<1> DEFINE d == delivered
           o == InPin("out")
           r == Reverse(frames)
           i == InPin("in")
<1>1. /\ d \in Seq(Int) /\ o \in Seq(Int) /\ r \in Seq(Int) /\ i \in Seq(Int)
      /\ frames \in Seq(Int)
  BY PipelineTypes DEF Ends
<1>2. Order(d \o o \o r \o i, dropped, produced)
  BY InOrderIsOrder, Zenon DEF Pipeline
<1>3. InOrder' <=>
        Order(delivered' \o InPin("out")' \o Reverse(frames)' \o InPin("in")', dropped', produced')
  BY Zenon DEF InOrder, Order, Accounted, Sorted, Pipeline
<1>4. ASSUME UNCHANGED <<delivered, data, frames, dropped, produced>> PROVE InOrder'
  BY <1>2, <1>3, <1>4 DEF InPin
<1>5. ASSUME UNCHANGED <<delivered, produced>>,
             \A e \in Ends : data'[e] \in {data[e], NoFrame},
             frames' \in {frames, <<>>},
             dropped' = dropped \cup (Range(o) \ Range(InPin("out")'))
                          \cup (Range(frames) \ Range(frames'))
                          \cup (Range(i) \ Range(InPin("in")'))
      PROVE  InOrder'
  <2>1. InPin("out")' \in {o, <<>>} /\ InPin("in")' \in {i, <<>>}
    BY <1>5 DEF InPin, Ends
  <2>2. Reverse(<<>>) = <<>> BY DEF Reverse
  <2>3. Reverse(frames)' \in {r, <<>>} /\ Range(frames') = Range(Reverse(frames)')
    BY <1>1, <1>5, <2>2, ReverseProperties
  <2>4. Range(frames) = Range(r) BY <1>1, ReverseProperties
  <2> HIDE DEF d, o, r, i
  <2>5. Removes(o, r, i, dropped, InPin("out")', Reverse(frames)', InPin("in")', dropped')
    BY <1>5, <2>1, <2>3, <2>4 DEF Removes
  <2>6. Order(d \o InPin("out")' \o Reverse(frames)' \o InPin("in")', dropped', produced)
    BY <1>1, <1>2, <2>5, Removal, Zenon
  <2> QED BY <1>3, <1>5, <2>6 DEF d
<1>6. CASE ProcessIn
  <2>1. CASE ~reading /\ Discard
    <3>1. /\ UNCHANGED <<delivered, produced, frames>>
          /\ data' = [data EXCEPT !["in"] = NoFrame]
          /\ dropped' = dropped \cup ({data["in"]} \ {NoFrame})
      BY <1>6, <2>1 DEF ProcessIn, Discard, Drop
    <3>2. data'["out"] = data["out"] /\ data'["in"] = NoFrame
      BY <3>1 DEF TypeOK, Types, Ends
    <3>3. InPin("out")' = o /\ Range(InPin("in")') = {} /\ Range(i) = {data["in"]} \ {NoFrame}
      BY <3>2, EmptyRange, PinRange DEF InPin
    <3> QED BY <1>5, <3>1, <3>2, <3>3 DEF Ends
  <2>2. CASE data["in"] # NoFrame /\ Accept
    <3> DEFINE n == data["in"]
    <3>1. /\ UNCHANGED <<delivered, produced, dropped>> /\ frames' = <<n>> \o frames
          /\ data' = [data EXCEPT !["in"] = NoFrame]
      BY <1>6, <2>2 DEF ProcessIn, Accept, Insert
    <3>2. InPin("out")' = o /\ InPin("in")' = <<>> /\ i = <<n>>
      BY <2>2, <3>1 DEF TypeOK, Types, Ends, InPin
    <3>3. n \in Int
      BY <2>2, FramesFinite, SMTT(60) DEF TypeOK, Types, Frame, Ends
    <3>4. Reverse(frames)' = r \o <<n>>
      <4> HIDE DEF n
      <4>1. ASSUME NEW x \in Int PROVE Reverse(<<x>> \o frames) = Reverse(frames) \o <<x>>
        BY <1>1, InsertedLast
      <4> QED BY <3>1, <3>3, <4>1
    <3>5. <<n>> \in Seq(Int) BY <3>3
    <3> HIDE DEF d, o, r, i, n
    <3>6. d \o o \o (r \o <<n>>) \o <<>> = d \o o \o r \o <<n>>
      <4>1. d \o o \in Seq(Int) BY <1>1, ConcatProperties
      <4>2. ASSUME NEW x \in Seq(Int) PROVE (d \o o) \o (r \o x) = ((d \o o) \o r) \o x
        BY <1>1, <4>1, Associative, ZenonT(60)
      <4>3. (d \o o) \o (r \o <<n>>) \in Seq(Int)
        BY <1>1, <3>5, <4>1, ConcatProperties
      <4> QED BY <3>5, <4>2, <4>3, ConcatEmptySeq
    <3>7. delivered' = d BY <3>1 DEF d
    <3> QED BY <1>2, <1>3, <3>1, <3>2, <3>4, <3>6, <3>7
  <2>3. CASE TakeNothing(HasRoom)
    BY <1>4, <1>6, <2>3 DEF ProcessIn, TakeNothing
  <2> QED BY <1>6, <2>1, <2>2, <2>3 DEF ProcessIn
<1>7. CASE ProcessOut
  <2>1. CASE data_requested["out"] /\ active /\ frames # <<>>
    <3> DEFINE n == Last(frames)
    <3>1. /\ UNCHANGED <<delivered, produced, dropped>> /\ frames' = Front(frames)
          /\ data' = [data EXCEPT !["out"] = n]
      BY <1>7, <2>1 DEF ProcessOut
    <3>2. n \in Frames /\ n \in Int /\ n # NoFrame
      <4>1. frames \in Seq(Frames) BY DEF TypeOK, Types
      <4>2. n \in Frames BY <2>1, <4>1, ReverseTake
      <4> QED BY <4>2, FramesFinite
    <3>3. InPin("out")' = <<n>> /\ InPin("in")' = i
      BY <3>1, <3>2 DEF TypeOK, Types, Ends, InPin
    <3>4. o = <<>>
      BY <2>1 DEF PinsAgree, Ends, InPin
    <3>5. r = <<n>> \o Reverse(frames)' /\ Reverse(frames)' \in Seq(Int)
      BY <1>1, <2>1, <3>1, ReverseTake, ReverseProperties
    <3>6. <<n>> \in Seq(Int) BY <3>2
    <3> DEFINE q == Reverse(frames)'
    <3> HIDE DEF d, o, r, i, n, q
    <3>7. d \o <<n>> \o q \o i = d \o o \o r \o i
      <4>1. d \o o = d BY <1>1, <3>4, ConcatEmptySeq
      <4>2. q \in Seq(Int) /\ r = <<n>> \o q BY <3>5 DEF q
      <4>3. ASSUME NEW x \in Seq(Int) PROVE d \o (x \o q) = (d \o x) \o q
        <5>1. d \in Seq(Int) /\ q \in Seq(Int) BY <1>1, <4>2
        <5> QED BY <5>1, Associative, ZenonT(60)
      <4> QED BY <3>6, <4>1, <4>2, <4>3
    <3>8. delivered' = d BY <3>1 DEF d
    <3> QED BY <1>2, <1>3, <3>1, <3>3, <3>7, <3>8 DEF q
  <2>2. CASE ~(data_requested["out"] /\ active /\ frames # <<>>)
    BY <1>4, <1>7, <2>2 DEF ProcessOut, pins
  <2> QED BY <2>1, <2>2
<1>8. CASE SourceFeeds
  <2>1. /\ UNCHANGED <<delivered, frames, dropped>> /\ produced' = produced + 1
        /\ data' = [data EXCEPT !["in"] = produced + 1]
        /\ produced \in Nat /\ data_requested["in"] /\ produced + 1 # NoFrame
    <3>1. /\ UNCHANGED <<delivered, frames, dropped>> /\ produced' = produced + 1
          /\ data' = [data EXCEPT !["in"] = produced + 1] /\ data_requested["in"]
      BY <1>8 DEF SourceFeeds, queue
    <3>2. produced \in 0 .. Len(Samples) BY DEF TypeOK, Types
    <3>3. produced \in Nat /\ produced + 1 \in Nat BY <3>2, FramesFinite
    <3> QED BY <3>1, <3>3 DEF AsyncQueueAssumption
  <2>2. InPin("in")' = <<produced + 1>> /\ InPin("out")' = o /\ i = <<>>
    BY <2>1 DEF TypeOK, Types, Ends, InPin, PinsAgree
  <2> DEFINE p == d \o o \o r
             n == produced + 1
  <2>3. p \in Seq(Int) /\ n \in Int /\ <<n>> \in Seq(Int)
    BY <1>1, <2>1, ConcatProperties
  <2>4. p \o i = p BY <2>2, <2>3, ConcatEmptySeq
  <2>5. Order(p, dropped, produced) BY <1>2, <2>4
  <2>6. delivered' \o InPin("out")' \o Reverse(frames)' \o InPin("in")' = p \o <<n>>
    BY <2>1, <2>2
  <2> HIDE DEF p, n
  <2>7. Range(<<n>>) = {n} /\ Sorted(<<n>>) BY <2>3, SingleRange, SortedSingle
  <2>8. Below(Range(p), {n}) BY <2>1, <2>5 DEF Order, Accounted, Below, n
  <2>9. Sorted(p \o <<n>>) /\ Range(p \o <<n>>) = Range(p) \cup {n}
    BY <2>3, <2>5, <2>7, <2>8, TwoParts, ZenonT(60) DEF Order
  <2>10. Accounted(Range(p) \cup {n}, dropped, n)
    BY <2>1, <2>5 DEF Order, Accounted, n
  <2>11. Order(p \o <<n>>, dropped, n)
    BY <2>9, <2>10 DEF Order
  <2> QED BY <1>3, <2>1, <2>6, <2>11 DEF n
<1>9. CASE ConsumerRequests BY <1>4, <1>9 DEF ConsumerRequests, queue
<1>10. CASE ConsumerReads
  <2> DEFINE n == data["out"]
  <2>1. /\ UNCHANGED <<frames, dropped, produced>> /\ delivered' = Append(delivered, n)
        /\ data' = [data EXCEPT !["out"] = NoFrame] /\ n # NoFrame
    BY <1>10 DEF ConsumerReads, queue
  <2>2. n \in Int
    BY <2>1, FramesFinite, SMTT(60) DEF TypeOK, Types, Frame, Ends
  <2>3. o = <<n>> /\ InPin("out")' = <<>> /\ InPin("in")' = i /\ Reverse(frames)' = r
    BY <2>1 DEF TypeOK, Types, Ends, InPin
  <2> HIDE DEF d, o, r, i, n
  <2>4. delivered' = d \o <<n>> BY <1>1, <2>1, <2>2, AppendIsConcat DEF d
  <2>5. (d \o <<n>>) \o <<>> = d \o o
    BY <1>1, <2>2, <2>3, ConcatProperties, ConcatEmptySeq
  <2> QED BY <1>2, <1>3, <2>1, <2>3, <2>4, <2>5
<1>11. CASE NotifyRuns BY <1>4, <1>11 DEF NotifyRuns, queue, pins
<1>12. CASE Reset
  <2>1. /\ UNCHANGED <<delivered, produced, data>> /\ frames' = <<>>
        /\ dropped' = dropped \cup (Range(frames) \ {NoFrame})
    BY <1>12 DEF Reset, Cleared, Drop, pins
  <2>2. Range(frames) \subseteq Frames BY RangeOfSeq DEF TypeOK, Types
  <2>3. Range(frames) \ {NoFrame} = Range(frames) /\ Range(frames') = {}
    BY <2>1, <2>2, FramesFinite, EmptyRange
  <2>4. InPin("out")' = o /\ InPin("in")' = i BY <2>1 DEF InPin
  <2> QED BY <1>5, <2>1, <2>3, <2>4
<1>13. CASE Resume BY <1>4, <1>13 DEF Resume, pins
<1>14. CASE ResumeReading BY <1>4, <1>14 DEF ResumeReading, pins
<1>15. CASE SetNotifier BY <1>4, <1>15 DEF SetNotifier, queue, pins
<1>16. ASSUME NEW new \in Configs, SetConfig(new) PROVE InOrder'
  BY <1>4, <1>16 DEF SetConfig, pins
<1>17. ASSUME NEW e \in Ends, ResetFilter(e) \/ DestroyFilter(e) PROVE InOrder'
  <2>1. /\ UNCHANGED <<delivered, produced, frames>>
        /\ data' = [data EXCEPT ![e] = NoFrame]
        /\ dropped' = dropped \cup ({data[e]} \ {NoFrame})
    BY <1>17 DEF ResetFilter, DestroyFilter, Drop, queue
  <2>2. \A f \in Ends : data'[f] = IF f = e THEN NoFrame ELSE data[f]
    BY <2>1 DEF TypeOK, Types
  <2>3. CASE e = "in"
    <3>1. data'["out"] = data["out"] /\ data'["in"] = NoFrame
      BY <2>2, <2>3 DEF Ends
    <3>2. InPin("out")' = o /\ Range(InPin("in")') = {} /\ Range(i) = {data["in"]} \ {NoFrame}
      BY <3>1, EmptyRange, PinRange DEF InPin
    <3> QED BY <1>5, <2>1, <2>2, <2>3, <3>2
  <2>4. CASE e = "out"
    <3>1. data'["in"] = data["in"] /\ data'["out"] = NoFrame
      BY <2>2, <2>4 DEF Ends
    <3>2. InPin("in")' = i /\ Range(InPin("out")') = {} /\ Range(o) = {data["out"]} \ {NoFrame}
      BY <3>1, EmptyRange, PinRange DEF InPin
    <3> QED BY <1>5, <2>1, <2>2, <2>4, <3>2
  <2> QED BY <2>3, <2>4 DEF Ends
<1>18. ASSUME NEW e \in Ends, CreateFilter(e) PROVE InOrder'
  BY <1>4, <1>18 DEF CreateFilter, queue, pins
<1>19. CASE UNCHANGED vars BY <1>4, <1>19 DEF vars, queue, pins
<1> QED
  BY <1>6, <1>7, <1>8, <1>9, <1>10, <1>11, <1>12, <1>13, <1>14, <1>15, <1>16,
     <1>17, <1>18, <1>19, Zenon DEF Next
-----------------------------------------------------------------------------
(* account_frame() keeps the sum, and the limit is only overshot by the    *)
(* frame that was put in last.                                             *)
LEMMA BoundedStep ==
  ASSUME AsyncQueueAssumption, TypeOK, InOrder, [Next]_vars
  PROVE  Bounded' /\ samples_size' \in Nat
<1>0. /\ frames \in Seq(Frames) /\ cfg.max_samples \in Nat /\ samples_size \in Nat
      /\ data["in"] \in Frames \cup {NoFrame} /\ reading \in BOOLEAN
      /\ samples_size = TotalSamples(cfg.sample_unit, frames)
      /\ ~active => frames = <<>> /\ ~reading
      /\ ~shrunk /\ frames # <<>> =>
           ~(samples_size - frame_get_samples(cfg.sample_unit, Head(frames))
               >= cfg.max_samples)
  BY DEF AsyncQueueAssumption, TypeOK, Types, Bounded, IsFull, Ends, Frame
<1>1. ASSUME UNCHANGED <<cfg, samples_size, frames, shrunk>>,
             active' \/ (~active /\ reading' = reading)
      PROVE  Bounded' /\ samples_size' \in Nat
  BY <1>0, <1>1 DEF Bounded, IsFull
<1>2. ASSUME samples_size' = TotalSamples(cfg'.sample_unit, frames'),
             ~active' => frames' = <<>> /\ ~reading',
             ~shrunk' /\ frames' # <<>> =>
               ~(samples_size' - frame_get_samples(cfg'.sample_unit, Head(frames'))
                   >= cfg'.max_samples)
      PROVE  Bounded'
  BY <1>2 DEF Bounded, IsFull
<1>3. CASE ProcessIn
  <2>1. ~reading \/ active BY <1>0
  <2>2. CASE Discard BY <1>1, <1>3, <2>1, <2>2 DEF ProcessIn, Discard, user
  <2>3. CASE reading /\ HasRoom /\ data["in"] # NoFrame /\ Accept
    <3> DEFINE n == data["in"]
               unit == cfg.sample_unit
    <3>1. n \in Frames /\ n \notin Range(frames)
      BY <1>0, <2>3, Places
    <3>2. /\ frames' = <<n>> \o frames /\ samples_size' = Account(n, 1)
          /\ UNCHANGED <<cfg, active, reading, shrunk>>
      BY <1>3, <2>3 DEF ProcessIn, Accept, Insert, user
    <3>3. frame_get_samples(unit, n) \in Nat BY <3>1, FramesFinite
    <3> HIDE DEF n
    <3>4. Range(frames') = Range(frames) \cup {n} /\ Head(frames') = n
      BY <1>0, <3>1, <3>2, ReverseInsert
    <3>5. TotalSamples(unit, frames') = samples_size + frame_get_samples(unit, n)
      BY <1>0, <3>1, <3>4, TotalOneMore
    <3>6. samples_size' = samples_size + frame_get_samples(unit, n)
      BY <1>0, <3>2, <3>3 DEF Account
    <3>7. samples_size' - frame_get_samples(unit, n) = samples_size /\ samples_size' \in Nat
      BY <1>0, <3>3, <3>6
    <3>8. ~(samples_size >= cfg.max_samples)
      BY <2>3 DEF HasRoom, IsFull
    <3> QED BY <1>2, <2>1, <2>3, <3>2, <3>4, <3>5, <3>6, <3>7, <3>8
  <2>4. CASE TakeNothing(HasRoom)
    BY <1>1, <1>3, <2>1, <2>4 DEF ProcessIn, TakeNothing, user
  <2> QED BY <1>3, <2>2, <2>3, <2>4 DEF ProcessIn
<1>4. CASE ProcessOut
  <2>1. CASE data_requested["out"] /\ active /\ frames # <<>>
    <3> DEFINE n == Last(frames)
               unit == cfg.sample_unit
    <3>1. /\ frames' = Front(frames) /\ samples_size' = Account(n, -1)
          /\ UNCHANGED <<cfg, active, shrunk>>
      BY <1>4, <2>1 DEF ProcessOut, user
    <3>2. /\ n \in Frames /\ Front(frames) \in Seq(Frames)
          /\ Range(frames) = Range(Front(frames)) \cup {n}
          /\ Front(frames) # <<>> => Head(Front(frames)) = Head(frames)
          /\ Reverse(frames) = <<n>> \o Reverse(Front(frames))
      BY <1>0, <2>1, ReverseTake
    <3> HIDE DEF n
    <3>3. frame_get_samples(unit, n) \in Nat BY <3>2, FramesFinite
    <3>4. n \notin Range(Front(frames))
      <4>1. Sorted(Reverse(frames)) BY Places DEF Ascending
      <4>2. Frames \subseteq Int BY FramesFinite
      <4>3. <<n>> \in Seq(Int) /\ Reverse(Front(frames)) \in Seq(Int) /\ n \in Int
        <5>1. n \in Int BY <3>2, <4>2
        <5>2. Reverse(Front(frames)) \in Seq(Frames) BY <3>2, ReverseProperties
        <5>3. Reverse(Front(frames)) \in Seq(Int) BY <4>2, <5>2, SeqMonotonic
        <5> QED BY <5>1, <5>3
      <4>4. Sorted(<<n>> \o Reverse(Front(frames))) BY <3>2, <4>1
      <4>5. Below(Range(<<n>>), Range(Reverse(Front(frames))))
        BY <4>3, <4>4, TwoParts, Zenon
      <4>6. Range(<<n>>) = {n} /\ Range(Reverse(Front(frames))) = Range(Front(frames))
        BY <3>2, SingleRange, ReverseProperties
      <4>7. ASSUME n \in Range(Front(frames)) PROVE n < n
        BY <4>5, <4>6, <4>7 DEF Below
      <4> QED BY <4>3, <4>7
    <3>5. TotalSamples(unit, frames) =
            TotalSamples(unit, frames') + frame_get_samples(unit, n)
      BY <3>1, <3>2, <3>4, TotalOneMore
    <3>6. TotalSamples(unit, frames') \in Nat BY <3>1, <3>2, TotalType
    <3>7. samples_size' = samples_size - frame_get_samples(unit, n)
      BY <1>0, <3>1, <3>3 DEF Account
    <3>8. samples_size' = TotalSamples(unit, frames') /\ samples_size' \in Nat
      BY <1>0, <3>3, <3>5, <3>6, <3>7
    <3>9. ASSUME ~shrunk, frames' # <<>>
          PROVE  ~(samples_size' - frame_get_samples(unit, Head(frames')) >= cfg.max_samples)
      <4>1. Head(frames') = Head(frames) /\ Head(frames) \in Frames
        BY <1>0, <2>1, <3>1, <3>2, <3>9, HeadTailProperties
      <4>2. frame_get_samples(unit, Head(frames)) \in Nat BY <4>1, FramesFinite
      <4>3. ~(samples_size - frame_get_samples(unit, Head(frames)) >= cfg.max_samples)
        BY <1>0, <2>1, <3>9
      <4> HIDE DEF unit
      <4>4. ~(samples_size' - frame_get_samples(unit, Head(frames)) >= cfg.max_samples)
        <5>1. \A z, d, x, m \in Nat : ~(z - d >= m) => ~((z - x) - d >= m) OBVIOUS
        <5>2. samples_size \in Nat /\ cfg.max_samples \in Nat BY <1>0
        <5>3. ~((samples_size - frame_get_samples(unit, n)) - frame_get_samples(unit, Head(frames))
                  >= cfg.max_samples)
          BY <3>3, <4>2, <4>3, <5>1, <5>2, Zenon
        <5> QED BY <3>7, <5>3, Zenon
      <4> QED BY <4>1, <4>4
    <3> QED BY <1>2, <2>1, <3>1, <3>8, <3>9
  <2>2. CASE ~(data_requested["out"] /\ active /\ frames # <<>>)
    <3>1. UNCHANGED <<cfg, active, samples_size, frames, shrunk>>
      BY <1>4, <2>2 DEF ProcessOut, user
    <3>2. active \/ reading' = reading
      BY <1>0, <1>4 DEF ProcessOut, StartsReading
    <3> QED BY <1>1, <3>1, <3>2
  <2> QED BY <2>1, <2>2
<1>5. CASE Reset
  <2>1. frames' = <<>> /\ samples_size' = 0 /\ ~active' /\ ~reading' /\ cfg' = cfg
    BY <1>5 DEF Reset, Cleared
  <2>2. TotalSamples(cfg'.sample_unit, <<>>) = 0 BY TotalEmpty
  <2> QED BY <1>2, <2>1, <2>2
<1>6. ASSUME NEW new \in Configs, SetConfig(new) PROVE Bounded' /\ samples_size' \in Nat
  <2>1. cfg' = new /\ UNCHANGED <<frames, active, reading>> /\ samples_size' = Recompute(new)
        /\ (frames # <<>> => shrunk')
    BY <1>6 DEF SetConfig
  <2>2. samples_size' = TotalSamples(new.sample_unit, frames)
    BY <1>0, <2>1 DEF Recompute
  <2>3. samples_size' \in Nat BY <1>0, <2>2, TotalType
  <2> QED BY <1>0, <1>2, <2>1, <2>2, <2>3
<1>7. CASE SourceFeeds BY <1>1, <1>7 DEF SourceFeeds, queue, user
<1>8. CASE ConsumerRequests BY <1>1, <1>8 DEF ConsumerRequests, queue, user
<1>9. CASE ConsumerReads BY <1>1, <1>9 DEF ConsumerReads, queue, user
<1>10. CASE NotifyRuns BY <1>1, <1>10 DEF NotifyRuns, queue, user
<1>11. CASE Resume BY <1>1, <1>11 DEF Resume
<1>12. CASE ResumeReading BY <1>1, <1>12 DEF ResumeReading
<1>13. CASE SetNotifier BY <1>1, <1>13 DEF SetNotifier, queue, user
<1>14. ASSUME NEW e \in Ends, ResetFilter(e) \/ CreateFilter(e) \/ DestroyFilter(e)
       PROVE  Bounded' /\ samples_size' \in Nat
  BY <1>1, <1>14 DEF ResetFilter, CreateFilter, DestroyFilter, queue, user
<1>15. CASE UNCHANGED vars BY <1>1, <1>15 DEF vars, queue, user
<1> QED
  BY <1>3, <1>4, <1>5, <1>6, <1>7, <1>8, <1>9, <1>10, <1>11, <1>12, <1>13, <1>14,
     <1>15, Zenon DEF Next
-----------------------------------------------------------------------------
(* Every step keeps the types.                                              *)
LEMMA TypesStep ==
  ASSUME AsyncQueueAssumption, TypeOK, samples_size' \in Nat, [Next]_vars
  PROVE  Types'
<1>0. /\ \A e \in Ends \cup {"queue"} :
           resets[e] < MaxResets \/ resets[e] < MaxFilterResets =>
             resets[e] + 1 \in 0 .. MaxResets + MaxFilterResets
      /\ 0 \in 0 .. Len(Samples) /\ produced \in 0 .. Len(Samples)
      /\ \A who, self : [f \in DOMAIN wake |->
             \/ f \in who /\ (f = "notify" \/ conn[f])
             \/ f # self /\ wake[f]] \in [Ends \cup {"notify"} -> BOOLEAN]
  <2>1. MaxResets \in Nat /\ MaxFilterResets \in Nat BY DEF AsyncQueueAssumption
  <2> QED BY <2>1, FramesFinite, SMTT(60) DEF TypeOK, Types
<1> USE DEF TypeOK, Types, Ends, Frame, queue, pins, user, WakeAll, Drop
<1>1. CASE ProcessIn
  <2>1. CASE ~reading /\ Discard BY <1>1, <2>1, SMTT(60) DEF ProcessIn, Discard
  <2>2. CASE data["in"] # NoFrame /\ Accept
    <3>1. frames' \in Seq(Frames)
      BY <2>2, ReverseInsert DEF Accept, Insert
    <3> QED BY <1>1, <2>2, <3>1 DEF ProcessIn, Accept
  <2>3. CASE TakeNothing(HasRoom)
    BY <1>1, <2>3 DEF ProcessIn, TakeNothing, HasRoom, IsFull
  <2> QED BY <1>1, <2>1, <2>2, <2>3 DEF ProcessIn
<1>2. CASE ProcessOut
  <2>1. CASE data_requested["out"] /\ active /\ frames # <<>>
    <3>1. Front(frames) \in Seq(Frames) /\ Last(frames) \in Frames
      BY <2>1, ReverseTake
    <3>2. data' \in [Ends -> Frame] /\ data_requested' \in [Ends -> BOOLEAN]
      <4>1. /\ data' = [data EXCEPT !["out"] = Last(frames)]
            /\ data_requested' = [data_requested EXCEPT !["out"] = FALSE]
        BY <1>2, <2>1 DEF ProcessOut
      <4> QED BY <3>1, <4>1
    <3>3. /\ UNCHANGED <<cfg, active, conn, notify, resetting, resets, configs, mark,
                         hasty, shrunk, produced, delivered, dropped>>
          /\ frames' = Front(frames)
      BY <1>2, <2>1 DEF ProcessOut
    <3>4. told' \in BOOLEAN /\ reading' \in BOOLEAN /\ null_wakeup' \in BOOLEAN
      BY <1>2, <2>1 DEF ProcessOut, StartsReading
    <3>5. wake' \in [Ends \cup {"notify"} -> BOOLEAN]
      BY <1>2 DEF ProcessOut
    <3> QED BY <3>1, <3>2, <3>3, <3>4, <3>5
  <2>2. CASE ~(data_requested["out"] /\ active /\ frames # <<>>)
    BY <1>2, <2>2 DEF ProcessOut, StartsReading
  <2> QED BY <2>1, <2>2
<1>3. CASE SourceFeeds
  <2>1. produced + 1 \in Frames /\ produced + 1 \in 0 .. Len(Samples)
    <3>1. produced < Len(Samples) BY <1>3 DEF SourceFeeds
    <3> QED BY ONLY <1>0, <3>1, FramesFinite, AsyncQueueAssumption
  <2>2. data' \in [Ends -> Frame] BY <1>3, <2>1 DEF SourceFeeds
  <2> QED BY <1>3, <2>1, <2>2 DEF SourceFeeds
<1>4. CASE ConsumerRequests BY <1>4 DEF ConsumerRequests
<1>5. CASE ConsumerReads
  <2>1. delivered' \in Seq(Frames)
    BY <1>5, AppendProperties DEF ConsumerReads
  <2> QED BY <1>5, <2>1 DEF ConsumerReads
<1>6. CASE NotifyRuns BY <1>6 DEF NotifyRuns
<1>7. CASE Reset
  <2>1. Range(frames) \subseteq Frames BY RangeOfSeq
  <2>2. frames' \in Seq(Frames) BY <1>7 DEF Reset, Cleared
  <2>3. resets' \in [Ends \cup {"queue"} -> 0 .. MaxResets + MaxFilterResets]
    BY <1>0, <1>7 DEF Reset
  <2> QED BY <1>7, <2>1, <2>2, <2>3 DEF Reset
<1>8. CASE Resume BY <1>8 DEF Resume
<1>9. CASE ResumeReading BY <1>9 DEF ResumeReading
<1>10. CASE SetNotifier BY <1>10 DEF SetNotifier
<1>11. ASSUME NEW new \in Configs, SetConfig(new) PROVE Types'
  <2>1. configs' \in 0 .. MaxConfigs BY <1>11 DEF SetConfig, AsyncQueueAssumption
  <2> QED BY <1>11, <2>1 DEF SetConfig
<1>12. ASSUME NEW e \in Ends, ResetFilter(e) \/ DestroyFilter(e) PROVE Types'
  <2>1. resets' \in [Ends \cup {"queue"} -> 0 .. MaxResets + MaxFilterResets]
    <3>1. resets[e] < MaxFilterResets /\ resets' = [resets EXCEPT ![e] = resets[e] + 1]
      BY <1>12 DEF ResetFilter, DestroyFilter
    <3>2. resets[e] + 1 \in 0 .. MaxResets + MaxFilterResets BY <1>0, <3>1
    <3> QED BY <3>1, <3>2
  <2>2. CASE ResetFilter(e) BY <2>1, <2>2, SMTT(60) DEF ResetFilter
  <2>3. CASE DestroyFilter(e) BY <2>1, <2>3, SMTT(60) DEF DestroyFilter
  <2> QED BY <1>12, <2>2, <2>3
<1>13. ASSUME NEW e \in Ends, CreateFilter(e) PROVE Types'
  BY <1>13 DEF CreateFilter
<1>14. CASE UNCHANGED vars BY <1>14 DEF vars
<1> QED
  BY <1>1, <1>2, <1>3, <1>4, <1>5, <1>6, <1>7, <1>8, <1>9, <1>10, <1>11, <1>12, <1>13,
     <1>14, Zenon DEF Next
-----------------------------------------------------------------------------
(* The pins *)

(* A frame is only put on a pin that asked for it.                          *)
LEMMA PinsStep ==
  ASSUME AsyncQueueAssumption, TypeOK, PinsAgree, [Next]_vars PROVE PinsAgree'
<1>0. /\ data \in [Ends -> Frame] /\ data_requested \in [Ends -> BOOLEAN]
      /\ conn \in [Ends -> BOOLEAN] /\ "in" \in Ends /\ "out" \in Ends
  BY DEF TypeOK, Types, Ends
<1>1. ASSUME UNCHANGED <<pins, conn>> PROVE PinsAgree'
  BY <1>1 DEF pins, PinsAgree
<1>2. CASE ProcessIn
  <2>1. conn["in"] /\ UNCHANGED conn BY <1>2 DEF ProcessIn
  <2>2. CASE Discard BY <1>0, <2>1, <2>2 DEF Discard, PinsAgree
  <2>3. CASE Accept BY <1>0, <2>1, <2>3 DEF Accept, PinsAgree
  <2>4. CASE (HasRoom => data["in"] = NoFrame) /\ TakeNothing(HasRoom)
    BY <1>0, <2>1, <2>4 DEF TakeNothing, PinsAgree
  <2> QED BY <1>2, <2>2, <2>3, <2>4 DEF ProcessIn
<1>3. CASE ProcessOut
  <2>1. conn["out"] /\ UNCHANGED conn BY <1>3 DEF ProcessOut
  <2>2. \/ /\ data' = [data EXCEPT !["out"] = Last(frames)]
           /\ data_requested' = [data_requested EXCEPT !["out"] = FALSE]
        \/ UNCHANGED pins
    BY <1>3 DEF ProcessOut
  <2> QED BY <1>0, <2>1, <2>2 DEF PinsAgree, pins
<1>4. CASE SourceFeeds
  BY <1>0, <1>4 DEF SourceFeeds, PinsAgree
<1>5. CASE ConsumerRequests BY <1>0, <1>5 DEF ConsumerRequests, PinsAgree
<1>6. CASE ConsumerReads BY <1>0, <1>6 DEF ConsumerReads, PinsAgree
<1>7. CASE NotifyRuns BY <1>1, <1>7 DEF NotifyRuns
<1>8. CASE Reset BY <1>1, <1>8 DEF Reset
<1>9. CASE Resume BY <1>1, <1>9 DEF Resume
<1>10. CASE ResumeReading BY <1>1, <1>10 DEF ResumeReading
<1>11. CASE SetNotifier BY <1>1, <1>11 DEF SetNotifier
<1>12. ASSUME NEW new \in Configs, SetConfig(new) PROVE PinsAgree'
  BY <1>1, <1>12 DEF SetConfig
<1>13. ASSUME NEW e \in Ends, ResetFilter(e) PROVE PinsAgree'
  BY <1>0, <1>13 DEF ResetFilter, PinsAgree
<1>14. ASSUME NEW e \in Ends, DestroyFilter(e) PROVE PinsAgree'
  BY <1>0, <1>14 DEF DestroyFilter, PinsAgree
<1>15. ASSUME NEW e \in Ends, CreateFilter(e) PROVE PinsAgree'
  BY <1>0, <1>15 DEF CreateFilter, PinsAgree, pins
<1>16. CASE UNCHANGED vars BY <1>1, <1>16 DEF vars
<1> QED
  BY <1>2, <1>3, <1>4, <1>5, <1>6, <1>7, <1>8, <1>9, <1>10, <1>11, <1>12, <1>13,
     <1>14, <1>15, <1>16, Zenon DEF Next
-----------------------------------------------------------------------------
(* A reset of a filter takes its frame and its request; until the resume,  *)
(* the queue makes no new ones.                                            *)
LEMMA ResetDoneStep ==
  ASSUME AsyncQueueAssumption, TypeOK, PinsAgree, ResetDone, [Next]_vars
  PROVE  ResetDone'
<1>0. /\ data \in [Ends -> Frame] /\ data_requested \in [Ends -> BOOLEAN]
      /\ "in" \in Ends /\ "out" \in Ends /\ "in" # "out" /\ reading \in BOOLEAN
      /\ produced \in Int /\ mark \in Int /\ (reading => active)
      /\ Ends = {"in", "out"}
  BY FramesFinite DEF TypeOK, Types, Bounded, Ends
<1>1. ASSUME UNCHANGED <<pins, active, resetting, mark, produced>> PROVE ResetDone'
  BY <1>1 DEF pins, ResetDone
<1>2. CASE ProcessIn
  <2>1. UNCHANGED <<active, resetting, mark, produced>> BY <1>2 DEF ProcessIn, user
  <2>2. CASE Discard BY <1>0, <2>1, <2>2 DEF Discard, ResetDone
  <2>3. CASE reading /\ Accept BY <1>0, <2>1, <2>3 DEF ResetDone
  <2>4. CASE reading /\ TakeNothing(HasRoom) BY <1>0, <2>1, <2>4 DEF ResetDone
  <2> QED BY <1>2, <2>2, <2>3, <2>4 DEF ProcessIn
<1>3. CASE ProcessOut
  <2>1. UNCHANGED <<active, resetting, mark, produced>> BY <1>3 DEF ProcessOut, user
  <2>2. active \/ UNCHANGED pins BY <1>3 DEF ProcessOut
  <2> QED BY <1>0, <2>1, <2>2 DEF ResetDone, pins
<1>4. CASE SourceFeeds BY <1>0, <1>4 DEF SourceFeeds, ResetDone, queue, user
<1>5. CASE ConsumerRequests BY <1>0, <1>5 DEF ConsumerRequests, ResetDone, queue, user
<1>6. CASE ConsumerReads BY <1>0, <1>6 DEF ConsumerReads, ResetDone, queue, user
<1>7. CASE NotifyRuns BY <1>1, <1>7 DEF NotifyRuns, queue, user
<1>8. CASE Reset BY <1>0, <1>8 DEF Reset, pins, ResetDone, PinsAgree
<1>9. CASE Resume BY <1>0, <1>9 DEF Resume, ResetDone
<1>10. CASE ResumeReading BY <1>0, <1>10 DEF ResumeReading, ResetDone
<1>11. CASE SetNotifier BY <1>1, <1>11 DEF SetNotifier, queue, user
<1>12. ASSUME NEW new \in Configs, SetConfig(new) PROVE ResetDone'
  BY <1>1, <1>12 DEF SetConfig
<1>13. ASSUME NEW e \in Ends, ResetFilter(e) PROVE ResetDone'
  BY <1>0, <1>13 DEF ResetFilter, ResetDone, queue
<1>14. ASSUME NEW e \in Ends, DestroyFilter(e) PROVE ResetDone'
  BY <1>0, <1>14 DEF DestroyFilter, ResetDone, queue
<1>15. ASSUME NEW e \in Ends, CreateFilter(e) PROVE ResetDone'
  BY <1>1, <1>15 DEF CreateFilter, queue, user
<1>16. CASE UNCHANGED vars BY <1>1, <1>16 DEF vars, queue, user
<1> QED
  BY <1>2, <1>3, <1>4, <1>5, <1>6, <1>7, <1>8, <1>9, <1>10, <1>11, <1>12, <1>13,
     <1>14, <1>15, <1>16, Zenon DEF Next
-----------------------------------------------------------------------------
(* Frames on the way from the source to the consumer *)
OnTheWay == ({data["out"], data["in"]} \ {NoFrame}) \cup Range(frames)

(* NoStaleFrame in terms of the variables: the frames, ...                  *)
LEMMA OnTheWayIs ==
  ASSUME AsyncQueueAssumption, TypeOK
  PROVE  Range(InPin("out") \o frames \o InPin("in")) = OnTheWay
<1>1. InPin("out") \in Seq(Int) /\ InPin("in") \in Seq(Int) /\ frames \in Seq(Int)
  BY PipelineTypes DEF Ends
<1>2. /\ InPin("out") \o frames \in Seq(Int)
      /\ Range(InPin("out") \o frames) = Range(InPin("out")) \cup Range(frames)
  BY <1>1, TwoParts, Zenon
<1>3. Range((InPin("out") \o frames) \o InPin("in")) =
        Range(InPin("out") \o frames) \cup Range(InPin("in"))
  BY <1>1, <1>2, TwoParts, Zenon
<1>4. /\ Range(InPin("out")) = {data["out"]} \ {NoFrame}
      /\ Range(InPin("in")) = {data["in"]} \ {NoFrame}
  BY PinRange
<1>5. OnTheWay = (Range(InPin("out")) \cup Range(frames)) \cup Range(InPin("in"))
  BY <1>4 DEF OnTheWay
<1> QED BY <1>2, <1>3, <1>5, Zenon

(* ... and the property.                                                    *)
LEMMA NoStaleFrameIs ==
  ASSUME AsyncQueueAssumption, TypeOK
  PROVE  NoStaleFrame <=> (active /\ ~hasty => \A n \in OnTheWay : n > mark)
  BY OnTheWayIs, Zenon DEF NoStaleFrame

(* No frame gets on the way but from the source, and when the queue is     *)
(* resumed after a complete reset there is none.                           *)
LEMMA NoStaleFrameStep ==
  ASSUME AsyncQueueAssumption, TypeOK, TypeOK', ResetDone, NoStaleFrame, [Next]_vars
  PROVE  NoStaleFrame'
<1>0. /\ data \in [Ends -> Frame] /\ "in" \in Ends /\ "out" \in Ends /\ "in" # "out"
      /\ produced \in Int /\ mark \in Int /\ frames \in Seq(Frames)
      /\ (active /\ ~hasty => \A n \in OnTheWay : n > mark)
  <2>1. active /\ ~hasty => \A n \in OnTheWay : n > mark
    BY NoStaleFrameIs, Zenon
  <2> QED BY <2>1, FramesFinite DEF TypeOK, Types, Ends
<1>1. ASSUME active' /\ ~hasty' => \A n \in OnTheWay' : n > mark' PROVE NoStaleFrame'
  <2>1. Range(InPin("out")' \o frames' \o InPin("in")') = OnTheWay'
    <3>1. InPin("out")' \in Seq(Int) /\ InPin("in")' \in Seq(Int) /\ frames' \in Seq(Int)
      <4>1. Frames \subseteq Int BY FramesFinite
      <4>2. frames' \in Seq(Int) BY <4>1, SeqMonotonic DEF TypeOK, Types
      <4>3. data'["in"] \in Int \cup {NoFrame} /\ data'["out"] \in Int \cup {NoFrame}
        BY <4>1 DEF TypeOK, Types, Ends, Frame
      <4> QED BY <4>2, <4>3, SortedEmpty DEF InPin
    <3>2. /\ InPin("out")' \o frames' \in Seq(Int)
          /\ Range(InPin("out")' \o frames') = Range(InPin("out")') \cup Range(frames')
      BY <3>1, TwoParts, Zenon
    <3>3. Range((InPin("out")' \o frames') \o InPin("in")') =
            Range(InPin("out")' \o frames') \cup Range(InPin("in")')
      BY <3>1, <3>2, TwoParts, Zenon
    <3>4. \A e \in Ends : Range(InPin(e)') = {data'[e]} \ {NoFrame}
      <4> SUFFICES ASSUME NEW e \in Ends PROVE Range(InPin(e)') = {data'[e]} \ {NoFrame}
        OBVIOUS
      <4>1. CASE data'[e] = NoFrame BY <4>1, EmptyRange DEF InPin
      <4>2. CASE data'[e] # NoFrame BY <4>2, SingleRange DEF InPin
      <4> QED BY <4>1, <4>2
    <3> QED BY <1>0, <3>2, <3>3, <3>4 DEF OnTheWay
  <2> QED BY <1>1, <2>1, Zenon DEF NoStaleFrame
<1>2. ASSUME OnTheWay' \subseteq OnTheWay, UNCHANGED <<active, hasty, mark>>
      PROVE  NoStaleFrame'
  BY <1>0, <1>1, <1>2
<1>3. CASE ProcessIn
  <2>1. UNCHANGED <<active, hasty, mark>> BY <1>3 DEF ProcessIn, user
  <2>2. CASE Discard BY <1>0, <1>2, <2>1, <2>2 DEF Discard, OnTheWay
  <2>3. CASE data["in"] # NoFrame /\ Accept
    <3>1. frames' = <<data["in"]>> \o frames /\ data' = [data EXCEPT !["in"] = NoFrame]
      BY <2>3 DEF Accept, Insert
    <3>2. data["in"] \in Frames BY <1>0, <2>3 DEF Frame
    <3>3. Range(frames') = Range(frames) \cup {data["in"]}
      BY <1>0, <3>1, <3>2, ReverseInsert
    <3> QED BY <1>0, <1>2, <2>1, <2>3, <3>1, <3>3 DEF OnTheWay
  <2>4. CASE TakeNothing(HasRoom) BY <1>2, <2>1, <2>4 DEF TakeNothing, OnTheWay
  <2> QED BY <1>3, <2>2, <2>3, <2>4 DEF ProcessIn
<1>4. CASE ProcessOut
  <2>1. UNCHANGED <<active, hasty, mark>> BY <1>4 DEF ProcessOut, user
  <2>2. CASE data_requested["out"] /\ active /\ frames # <<>>
    <3>1. frames' = Front(frames) /\ data' = [data EXCEPT !["out"] = Last(frames)]
      BY <1>4, <2>2 DEF ProcessOut
    <3>2. Range(frames) = Range(Front(frames)) \cup {Last(frames)}
      BY <1>0, <2>2, ReverseTake
    <3> QED BY <1>0, <1>2, <2>1, <3>1, <3>2 DEF OnTheWay
  <2>3. CASE ~(data_requested["out"] /\ active /\ frames # <<>>)
    BY <1>2, <1>4, <2>1, <2>3 DEF ProcessOut, OnTheWay, pins
  <2> QED BY <2>2, <2>3
<1>5. CASE SourceFeeds
  <2>1. /\ UNCHANGED <<active, hasty, mark, frames>> /\ produced + 1 > mark
        /\ data' = [data EXCEPT !["in"] = produced + 1]
    BY <1>0, <1>5 DEF SourceFeeds, queue, user, ResetDone
  <2> QED BY <1>0, <1>1, <2>1 DEF OnTheWay
<1>6. CASE ConsumerRequests
  BY <1>2, <1>6 DEF ConsumerRequests, queue, user, OnTheWay
<1>7. CASE ConsumerReads
  BY <1>0, <1>2, <1>7 DEF ConsumerReads, queue, user, OnTheWay
<1>8. CASE NotifyRuns BY <1>2, <1>8 DEF NotifyRuns, queue, user, pins, OnTheWay
<1>9. CASE Reset BY <1>1, <1>9 DEF Reset
<1>10. ASSUME UNCHANGED <<active, frames, pins>> \/ (~active /\ UNCHANGED <<frames, pins>>),
              active => UNCHANGED <<mark, hasty>>,
              ~active => mark' = produced /\ hasty' = (resetting # {})
       PROVE  NoStaleFrame'
  <2>1. CASE active BY <1>2, <1>10, <2>1 DEF pins, OnTheWay
  <2>2. CASE ~active
    <3>1. ASSUME resetting = {} PROVE OnTheWay' = {}
      <4>1. frames = <<>> BY <2>2 DEF TypeOK, Bounded
      <4>2. data["in"] = NoFrame /\ data["out"] = NoFrame
        BY <1>0, <2>2, <3>1 DEF ResetDone
      <4> QED BY <1>10, <4>1, <4>2, EmptyRange DEF OnTheWay, pins
    <3> QED BY <1>1, <1>10, <2>2, <3>1
  <2> QED BY <2>1, <2>2
<1>11. CASE Resume BY <1>10, <1>11 DEF Resume
<1>12. CASE ResumeReading BY <1>10, <1>12 DEF ResumeReading
<1>13. CASE SetNotifier BY <1>2, <1>13 DEF SetNotifier, queue, user, pins, OnTheWay
<1>14. ASSUME NEW new \in Configs, SetConfig(new) PROVE NoStaleFrame'
  BY <1>2, <1>14 DEF SetConfig, pins, OnTheWay
<1>15. ASSUME NEW e \in Ends, ResetFilter(e) PROVE NoStaleFrame'
  BY <1>0, <1>2, <1>15 DEF ResetFilter, queue, OnTheWay
<1>16. ASSUME NEW e \in Ends, DestroyFilter(e) PROVE NoStaleFrame'
  BY <1>0, <1>2, <1>16 DEF DestroyFilter, queue, OnTheWay
<1>17. ASSUME NEW e \in Ends, CreateFilter(e) PROVE NoStaleFrame'
  BY <1>2, <1>17 DEF CreateFilter, queue, user, pins, OnTheWay
<1>18. CASE UNCHANGED vars BY <1>2, <1>18 DEF vars, queue, user, pins, OnTheWay
<1> QED
  BY <1>3, <1>4, <1>5, <1>6, <1>7, <1>8, <1>9, <1>11, <1>12, <1>13, <1>14, <1>15,
     <1>16, <1>17, <1>18, Zenon DEF Next
-----------------------------------------------------------------------------
(* A new queue is empty, and has no filters.                                *)
LEMMA InitInvariant ==
  ASSUME AsyncQueueAssumption, Init PROVE IInv
<1>1. Types
  <2>1. /\ 0 \in 0 .. MaxConfigs /\ 0 \in 0 .. MaxResets + MaxFilterResets
        /\ 0 \in 0 .. Len(Samples)
    BY FramesFinite DEF AsyncQueueAssumption
  <2>2. /\ resets \in [Ends \cup {"queue"} -> 0 .. MaxResets + MaxFilterResets]
        /\ data \in [Ends -> Frame] /\ data_requested \in [Ends -> BOOLEAN]
        /\ wake \in [Ends \cup {"notify"} -> BOOLEAN] /\ conn \in [Ends -> BOOLEAN]
    BY <2>1 DEF Init, Frame
  <2>3. frames \in Seq(Frames) /\ delivered \in Seq(Frames)
    BY DEF Init
  <2>4. {active, reading, notify, hasty, shrunk, told, null_wakeup} \subseteq BOOLEAN
    BY DEF Init
  <2> QED BY <2>1, <2>2, <2>3, <2>4 DEF Init, Types
<1>2. Bounded
  BY TotalEmpty DEF Init, Bounded
<1>3. InOrder
  <2>1. InPin("in") = <<>> /\ InPin("out") = <<>> /\ Reverse(frames) = <<>>
    BY DEF Init, InPin, Ends, Reverse
  <2>2. Pipeline = <<>>
    BY <2>1, SortedEmpty, ConcatEmptySeq DEF Pipeline, Init
  <2>3. Range(Pipeline) = {} /\ Sorted(Pipeline)
    BY <2>2, EmptyRange, SortedEmpty
  <2> QED BY <2>3 DEF InOrder, Sorted, Init
<1>4. PinsAgree /\ ResetDone
  BY DEF Init, PinsAgree, ResetDone, Ends
<1>5. NoStaleFrame
  BY DEF Init, NoStaleFrame
<1> QED BY <1>1, <1>2, <1>3, <1>4, <1>5 DEF IInv, TypeOK

(* The invariant holds in every state.                                      *)
LEMMA Invariant ==
  Spec => []IInv
<1> USE AsyncQueueAssumption
<1>1. Init => IInv
  BY InitInvariant
<1>2. IInv /\ [Next]_vars => IInv'
  <2> SUFFICES ASSUME IInv, [Next]_vars PROVE IInv' OBVIOUS
  <2> USE DEF IInv
  <2>1. InOrder' BY InOrderStep
  <2>2. Bounded' /\ samples_size' \in Nat BY BoundedStep
  <2>3. TypeOK' BY <2>2, TypesStep DEF TypeOK
  <2>4. PinsAgree' /\ ResetDone' BY PinsStep, ResetDoneStep
  <2>5. NoStaleFrame' BY <2>3, NoStaleFrameStep
  <2> QED BY <2>1, <2>3, <2>4, <2>5
<1> QED BY <1>1, <1>2, PTL DEF Spec

(* account_frame() and the checks around it keep the limit: samples_size   *)
(* is the sum over the queued frames, in the unit configured now, and is   *)
(* overshot by at most one frame.                                          *)
THEOREM LimitKept == Spec => []TypeOK
<1>1. IInv => TypeOK BY DEF IInv
<1> QED BY <1>1, Invariant, PTL

(* No frame overtakes another, is duplicated, or gets lost other than in a *)
(* reset, on its way through both access filters and the queue.            *)
THEOREM FifoKept == Spec => []InOrder
<1>1. IInv => InOrder BY DEF IInv
<1> QED BY <1>1, Invariant, PTL

(* mp_async_queue_resume() after the queue and both filters were reset     *)
(* never lets a frame of the time before through (f_async_queue.h:73).     *)
THEOREM ResetComplete == Spec => []NoStaleFrame
<1>1. IInv => NoStaleFrame BY DEF IInv
<1> QED BY <1>1, Invariant, PTL
=============================================================================
