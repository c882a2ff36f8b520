---------------------------- MODULE ToolsProofs ----------------------------
(* Proofs about the three small components of MCTools, for any number of   *)
(* threads, tags, calls, workers, pieces of work, filters and wakeups:     *)
(*   the exchange of mp_rendezvous() is paired;                            *)
(*   accepted work of a thread pool always has a thread that gets to it,   *)
(* in order and once, and timeouts leave min_threads threads;              *)
(*   no filter is pending twice, or after it was destroyed, and the user   *)
(* of a filter graph is told of changes.                                   *)
EXTENDS MCTools, SequencesExt, FiniteSetTheorems, SequenceTheorems, WellFoundedInduction, TLAPS

-----------------------------------------------------------------------------
(* Numbers and sequences.                                                  *)

(* A set of numbers has a least one.                                       *)
LEMMA Least ==
  ASSUME NEW T, T \subseteq Nat, T # {} PROVE \E x \in T : \A y \in T : x <= y
<1>1. \E x \in T : \A y \in T : ~(<<y, x>> \in OpToRel(<, Nat))
  BY NatLessThanWellFounded, WFMin
<1>2. \A x, y \in Nat : x < y => <<x, y>> \in OpToRel(<, Nat)
  BY DEF OpToRel
<1>3. PICK x \in T : \A y \in T : ~(<<y, x>> \in OpToRel(<, Nat)) BY <1>1
<1>4. \A y \in T : ~(y < x) BY <1>2, <1>3
<1>5. \A y \in T : x <= y BY <1>4
<1> QED BY <1>5

(* All of a sequence but its last element.                                 *)
LEMMA FrontFacts ==
  ASSUME NEW S, NEW s \in Seq(S), s # <<>>
  PROVE  /\ Front(s) \in Seq(S) /\ Len(Front(s)) = Len(s) - 1 /\ Len(s) \in Nat \ {0}
         /\ \A i \in 1 .. Len(s) - 1 : Front(s)[i] = s[i]
<1>1. Len(s) \in Nat \ {0} BY EmptySeq
<1>2. \A i \in 1 .. Len(s) - 1 : s[i] \in S BY <1>1, ElementOfSeq
<1>3. /\ SubSeq(s, 1, Len(s) - 1) \in Seq(S)
      /\ Len(SubSeq(s, 1, Len(s) - 1)) = IF 1 <= Len(s) - 1 THEN Len(s) - 1 - 1 + 1 ELSE 0
      /\ \A i \in 1 .. Len(s) - 1 - 1 + 1 : SubSeq(s, 1, Len(s) - 1)[i] = s[1 + i - 1]
  BY <1>1, <1>2, SubSeqProperties
<1>4. \A i \in 1 .. Len(s) - 1 : 1 + i - 1 = i BY <1>1
<1>5. \A k \in Nat \ {0} : k - 1 - 1 + 1 = k - 1 /\ (~(1 <= k - 1) => k - 1 = 0) OBVIOUS
<1> QED BY <1>1, <1>3, <1>4, <1>5 DEF Front

(* The operators of the libraries are the same in the three modules.       *)
LEMMA SamePool ==
  /\ \A S : (Pool!IsFiniteSet(S) <=> IsFiniteSet(S)) /\ Pool!Cardinality(S) = Cardinality(S)
  /\ \A s : Pool!Front(s) = Front(s)
BY DEF Pool!IsFiniteSet, IsFiniteSet, Pool!Cardinality, Cardinality, Pool!Front, Front

LEMMA SameRunner == \A s : Runner!Front(s) = Front(s)
BY DEF Runner!Front, Front

-----------------------------------------------------------------------------
(* Rendezvous.                                                             *)

(* A tag is used by two threads, so a waiter that another member of the    *)
(* tag finds is the one other member.                                      *)
LEMMA TwoMembers ==
  ASSUME NEW tag \in Tags, NEW t \in Members[tag], NEW u \in Members[tag],
         NEW v \in Members[tag], t # u, v # t
  PROVE  v = u /\ t \in Threads /\ u \in Threads
BY RendezvousAssumption

(* At first nobody waits and nobody has called.                            *)
LEMMA InitIInv == Init => IInv
BY RendezvousAssumption DEF Init, IInv, TypeOK, Ahead, Waiting, Linked, Paired, Matches

(* The first caller of a pair is one call ahead from now on.               *)
LEMMA ArriveIInv ==
  ASSUME IInv, NEW t \in Threads, NEW tag \in Tags, Arrive(t, tag)
  PROVE  IInv'
<1> USE DEF IInv
<1>1. /\ t \notin waiters /\ at[t] = None /\ t \in Members[tag]
      /\ calls' = [calls EXCEPT ![t][tag] = calls[t][tag] + 1]
      /\ at' = [at EXCEPT ![t] = tag] /\ waiters' = waiters \cup {t}
      /\ value' = [value EXCEPT ![t] = calls'[t][tag]] /\ got' = got
  BY DEF Arrive, Call, Linked
<1>2. calls'[t][tag] = calls[t][tag] + 1 /\ calls[t][tag] \in Nat
  BY <1>1 DEF TypeOK
<1>3. TypeOK'
  BY <1>1, <1>2 DEF TypeOK
<1>4. Ahead'
  <2> SUFFICES ASSUME NEW g \in Tags, NEW a \in Members[g], NEW b \in Members[g], a # b
               PROVE  IF Matches(a, g)' THEN calls'[a][g] = calls'[b][g] + 1
                                        ELSE calls'[a][g] <= calls'[b][g]
    BY DEF Ahead
  <2>1. a \in Threads /\ b \in Threads /\ calls[a][g] \in Nat /\ calls[b][g] \in Nat
    BY RendezvousAssumption DEF TypeOK
  <2>2. IF Matches(a, g) THEN calls[a][g] = calls[b][g] + 1 ELSE calls[a][g] <= calls[b][g]
    BY DEF Ahead
  <2>3. IF Matches(b, g) THEN calls[b][g] = calls[a][g] + 1 ELSE calls[b][g] <= calls[a][g]
    BY DEF Ahead
  <2>4. CASE g # tag
    <3>1. Matches(a, g)' <=> Matches(a, g)
      BY <1>1, <2>1, <2>4, RendezvousAssumption DEF Matches, TypeOK
    <3>2. calls'[a][g] = calls[a][g] /\ calls'[b][g] = calls[b][g]
      BY <1>1, <2>1, <2>4 DEF TypeOK
    <3> QED BY <2>2, <3>1, <3>2
  <2>5. CASE g = tag
    <3>1. ~Matches(a, g) /\ ~Matches(b, g)
      BY <2>1, <2>5 DEF Arrive
    <3>2. calls[a][g] = calls[b][g]
      BY <2>1, <2>2, <2>3, <3>1
    <3>3. CASE a = t
      <4>1. Matches(a, g)'
        BY <1>1, <2>5, <3>3 DEF Matches, TypeOK
      <4>2. calls'[a][g] = calls[a][g] + 1 /\ calls'[b][g] = calls[b][g]
        BY <1>1, <1>2, <2>1, <2>5, <3>3 DEF TypeOK
      <4> QED BY <3>2, <4>1, <4>2
    <3>4. CASE b = t
      <4>1. ~Matches(a, g)'
        BY <1>1, <2>1, <3>1, <3>4 DEF Matches, TypeOK
      <4>2. calls'[b][g] = calls[b][g] + 1 /\ calls'[a][g] = calls[a][g]
        BY <1>1, <1>2, <2>1, <2>5, <3>4 DEF TypeOK
      <4> QED BY <2>1, <3>2, <4>1, <4>2
    <3>5. a = t \/ b = t
      BY <1>1, <2>5, TwoMembers
    <3> QED BY <3>3, <3>4, <3>5
  <2> QED BY <2>4, <2>5
<1>5. Waiting' /\ Linked'
  BY <1>1, <1>2, RendezvousAssumption DEF Waiting, Linked, TypeOK
<1>6. Paired'
  BY <1>1, RendezvousAssumption DEF Paired, TypeOK
<1> QED BY <1>3, <1>4, <1>5, <1>6

(* The second call of a pair has the number of the first.                  *)
LEMMA MeetIInv ==
  ASSUME IInv, NEW t \in Threads, NEW u \in Threads, NEW tag \in Tags, Meet(t, u, tag)
  PROVE  IInv'
<1> USE DEF IInv
<1>1. /\ t \notin waiters /\ at[t] = None /\ t \in Members[tag]
      /\ u \in waiters /\ at[u] = tag
      /\ calls' = [calls EXCEPT ![t][tag] = calls[t][tag] + 1]
      /\ got' = [got EXCEPT ![t][tag] = value[u]] /\ at' = at
      /\ value' = [value EXCEPT ![u] = calls'[t][tag]] /\ waiters' = waiters \ {u}
  BY DEF Meet, Call, Linked, Matches
<1>2. u # t /\ u \in Members[tag]
  BY <1>1, RendezvousAssumption DEF Waiting
<1>3. calls[u][tag] = calls[t][tag] + 1 /\ value[u] = calls[u][tag]
  BY <1>1, <1>2, RendezvousAssumption DEF Ahead, Matches, Waiting
<1>4. calls'[t][tag] = calls[t][tag] + 1 /\ calls[t][tag] \in Nat /\ calls'[u][tag] = calls[u][tag]
  BY <1>1, <1>2 DEF TypeOK
<1>5. TypeOK'
  BY <1>1, <1>4 DEF TypeOK
<1>6. Ahead'
  <2> SUFFICES ASSUME NEW g \in Tags, NEW a \in Members[g], NEW b \in Members[g], a # b
               PROVE  IF Matches(a, g)' THEN calls'[a][g] = calls'[b][g] + 1
                                        ELSE calls'[a][g] <= calls'[b][g]
    BY DEF Ahead
  <2>1. a \in Threads /\ b \in Threads /\ calls[a][g] \in Nat /\ calls[b][g] \in Nat
    BY RendezvousAssumption DEF TypeOK
  <2>2. IF Matches(a, g) THEN calls[a][g] = calls[b][g] + 1 ELSE calls[a][g] <= calls[b][g]
    BY DEF Ahead
  <2>3. CASE g # tag
    <3>1. Matches(a, g)' <=> Matches(a, g)
      BY <1>1, <2>3 DEF Matches
    <3>2. calls'[a][g] = calls[a][g] /\ calls'[b][g] = calls[b][g]
      BY <1>1, <2>1, <2>3 DEF TypeOK
    <3> QED BY <2>2, <3>1, <3>2
  <2>4. CASE g = tag
    <3>1. (a = t /\ b = u) \/ (a = u /\ b = t)
      BY <1>1, <1>2, <2>4, TwoMembers
    <3>2. calls'[a][g] = calls'[b][g]
      BY <1>3, <1>4, <2>4, <3>1
    <3>3. ~Matches(a, g)'
      BY <1>1, <3>1 DEF Matches
    <3>4. calls'[a][g] \in Nat /\ calls'[b][g] \in Nat
      BY <1>5, <2>1 DEF TypeOK
    <3> QED BY <3>2, <3>3, <3>4
  <2> QED BY <2>3, <2>4
<1>7. Waiting'
  <2> SUFFICES ASSUME NEW v \in Threads, at[v] # None
               PROVE  v \in Members[at[v]] /\ value'[v] = calls'[v][at[v]]
    BY <1>1 DEF Waiting
  <2>1. v # t /\ v \in Members[at[v]] /\ value[v] = calls[v][at[v]] /\ at[v] \in Tags
    BY <1>1 DEF Waiting, TypeOK
  <2>2. calls'[v][at[v]] = calls[v][at[v]]
    BY <1>1, <2>1 DEF TypeOK
  <2>3. value'[v] = value[v]
    BY <1>1, <1>3, <1>4, <2>1 DEF TypeOK
  <2> QED BY <2>1, <2>2, <2>3
<1>8. Linked'
  BY <1>1 DEF Linked
<1>9. Paired'
  BY <1>1, <1>3, <1>4 DEF Paired, TypeOK
<1> QED BY <1>5, <1>6, <1>7, <1>8, <1>9

(* The end of a wait returns the value that the other's call left.         *)
LEMMA ReturnIInv ==
  ASSUME IInv, NEW t \in Threads, Return(t)
  PROVE  IInv'
<1> USE DEF IInv
<1>1. /\ at[t] \in Tags /\ t \notin waiters
      /\ got' = [got EXCEPT ![t][at[t]] = value[t]] /\ at' = [at EXCEPT ![t] = None]
      /\ waiters' = waiters /\ value' = value /\ calls' = calls
  BY DEF Return, Complete, TypeOK
<1>2. value[t] = calls[t][at[t]]
  BY <1>1, RendezvousAssumption DEF Waiting
<1>3. TypeOK'
  BY <1>1 DEF TypeOK
<1>4. \A v \in Threads, g \in Tags : Matches(v, g)' <=> Matches(v, g)
  BY <1>1 DEF Matches, TypeOK
<1>5. Ahead'
  BY <1>1, <1>4, RendezvousAssumption DEF Ahead
<1>6. Waiting' /\ Linked'
  BY <1>1 DEF Waiting, Linked, TypeOK
<1>7. Paired'
  BY <1>1, <1>2 DEF Paired, TypeOK
<1> QED BY <1>3, <1>5, <1>6, <1>7

LEMMA StepIInv == ASSUME IInv, [Next]_vars PROVE IInv'
<1>1. CASE UNCHANGED vars
  BY <1>1 DEF vars, IInv, TypeOK, Ahead, Waiting, Linked, Paired, Matches
<1>2. ASSUME NEW t \in Threads, NEW tag \in Tags, Arrive(t, tag) PROVE IInv'
  BY <1>2, ArriveIInv
<1>3. ASSUME NEW t \in Threads, NEW tag \in Tags, NEW u \in Threads, Meet(t, u, tag) PROVE IInv'
  BY <1>3, MeetIInv
<1>4. ASSUME NEW t \in Threads, Return(t) PROVE IInv'
  BY <1>4, ReturnIInv
<1> QED BY <1>1, <1>2, <1>3, <1>4 DEF Next

(* The inductive invariant holds in every reachable state.                 *)
THEOREM Invariance == Spec => []IInv
BY InitIInv, StepIInv, PTL DEF Spec

--------------------------------------------------------------------------
(* Thread pool: the list of work and what was taken from it.               *)

(* A sequence in reverse order has the same elements, in mirrored places.  *)
LEMMA Mirror ==
  ASSUME NEW S, NEW s \in Seq(S)
  PROVE  /\ Pool!Reverse(s) \in Seq(S) /\ Len(Pool!Reverse(s)) = Len(s)
         /\ \A i \in 1 .. Len(s) : Pool!Reverse(s)[i] = s[Len(s) - i + 1]
<1>1. Len(s) \in Nat BY LenProperties
<1>2. \A i \in 1 .. Len(s) : s[Len(s) - i + 1] \in S BY <1>1, ElementOfSeq
<1>3. Pool!Reverse(s) \in [1 .. Len(s) -> S] BY <1>1, <1>2 DEF Pool!Reverse
<1>4. Pool!Reverse(s) \in Seq(S) BY <1>1, <1>3, SeqDef
<1>5. DOMAIN Pool!Reverse(s) = 1 .. Len(s) BY <1>3
<1>6. Len(Pool!Reverse(s)) = Len(s) BY <1>1, <1>4, <1>5, LenProperties
<1> QED BY <1>1, <1>4, <1>6 DEF Pool!Reverse

(* What is put in front of a sequence is last in reverse order.            *)
LEMMA MirrorInsert ==
  ASSUME NEW S, NEW s \in Seq(S), NEW x \in S
  PROVE  /\ <<x>> \o s \in Seq(S) /\ Len(<<x>> \o s) = Len(s) + 1
         /\ Pool!Reverse(<<x>> \o s) = Pool!Reverse(s) \o <<x>>
<1>1. <<x>> \in Seq(S) /\ Len(<<x>>) = 1 /\ <<x>>[1] = x OBVIOUS
<1>2. /\ <<x>> \o s \in Seq(S) /\ Len(<<x>> \o s) = Len(s) + 1
      /\ \A i \in 1 .. Len(s) + 1 : (<<x>> \o s)[i] = IF i <= 1 THEN x ELSE s[i - 1]
  BY <1>1, ConcatProperties, LenProperties
<1>3. Pool!Reverse(s) \in Seq(S) /\ Len(Pool!Reverse(s)) = Len(s) BY Mirror
<1>4. /\ Pool!Reverse(s) \o <<x>> \in Seq(S) /\ Len(Pool!Reverse(s) \o <<x>>) = Len(s) + 1
      /\ \A i \in 1 .. Len(s) + 1 : (Pool!Reverse(s) \o <<x>>)[i] =
            IF i <= Len(s) THEN Pool!Reverse(s)[i] ELSE <<x>>[i - Len(s)]
  BY <1>1, <1>3, ConcatProperties
<1>5. Pool!Reverse(<<x>> \o s) \in Seq(S) /\ Len(Pool!Reverse(<<x>> \o s)) = Len(s) + 1 BY <1>2, Mirror
<1>6. Len(s) \in Nat BY LenProperties
<1>7. ASSUME NEW i \in 1 .. Len(s) + 1
      PROVE  Pool!Reverse(<<x>> \o s)[i] = (Pool!Reverse(s) \o <<x>>)[i]
  <2>1. Pool!Reverse(<<x>> \o s)[i] = (<<x>> \o s)[Len(s) + 1 - i + 1]
    <3>1. \A k \in 1 .. Len(<<x>> \o s) :
            Pool!Reverse(<<x>> \o s)[k] = (<<x>> \o s)[Len(<<x>> \o s) - k + 1]
      BY <1>2, Mirror
    <3> QED BY <1>2, <3>1
  <2>2. CASE i <= Len(s)
    <3>1. Pool!Reverse(s)[i] = s[Len(s) - i + 1] BY <1>6, <2>2, Mirror
    <3>2. (<<x>> \o s)[Len(s) + 1 - i + 1] = s[Len(s) + 1 - i + 1 - 1] BY <1>2, <1>6, <2>2
    <3>3. Len(s) + 1 - i + 1 - 1 = Len(s) - i + 1 BY <1>6
    <3> QED BY <1>4, <2>1, <2>2, <3>1, <3>2, <3>3
  <2>3. CASE i = Len(s) + 1 BY <1>1, <1>2, <1>4, <1>6, <2>1, <2>3
  <2>4. i <= Len(s) \/ i = Len(s) + 1 BY <1>6
  <2> QED BY <2>2, <2>3, <2>4
<1>8. Pool!Reverse(<<x>> \o s) = Pool!Reverse(s) \o <<x>> BY <1>4, <1>5, <1>7, SeqEqual
<1> QED BY <1>2, <1>8

(* What is taken from the end of a sequence is first in reverse order.     *)
LEMMA MirrorTake ==
  ASSUME NEW S, NEW s \in Seq(S), s # <<>>
  PROVE  /\ Pool!Last(s) \in S /\ Pool!Front(s) \in Seq(S) /\ Len(s) \in Nat \ {0} /\ Len(Pool!Front(s)) = Len(s) - 1
         /\ Pool!Reverse(s) = <<Pool!Last(s)>> \o Pool!Reverse(Pool!Front(s))
<1>1. Len(s) \in Nat \ {0} BY EmptySeq
<1>2. \A i \in 1 .. Len(s) : s[i] \in S BY ElementOfSeq
<1>3. /\ Pool!Front(s) \in Seq(S) /\ Len(Pool!Front(s)) = Len(s) - 1
      /\ \A i \in 1 .. Len(s) - 1 : Pool!Front(s)[i] = s[i]
  BY FrontFacts, SamePool
<1>4. Pool!Last(s) \in S BY <1>1, <1>2 DEF Pool!Last
<1>5. <<Pool!Last(s)>> \in Seq(S) /\ Len(<<Pool!Last(s)>>) = 1 /\ <<Pool!Last(s)>>[1] = Pool!Last(s) BY <1>4
<1>6. /\ Pool!Reverse(Pool!Front(s)) \in Seq(S) /\ Len(Pool!Reverse(Pool!Front(s))) = Len(s) - 1
      /\ \A i \in 1 .. Len(s) - 1 : Pool!Reverse(Pool!Front(s))[i] = Pool!Front(s)[Len(s) - 1 - i + 1]
  BY <1>3, Mirror, SMTT(60)
<1>7. /\ Pool!Reverse(s) \in Seq(S) /\ Len(Pool!Reverse(s)) = Len(s)
      /\ \A i \in 1 .. Len(s) : Pool!Reverse(s)[i] = s[Len(s) - i + 1]
  BY Mirror
<1>8. /\ <<Pool!Last(s)>> \o Pool!Reverse(Pool!Front(s)) \in Seq(S)
      /\ Len(<<Pool!Last(s)>> \o Pool!Reverse(Pool!Front(s))) = Len(s)
      /\ \A i \in 1 .. Len(s) : (<<Pool!Last(s)>> \o Pool!Reverse(Pool!Front(s)))[i] =
            IF i <= 1 THEN <<Pool!Last(s)>>[i] ELSE Pool!Reverse(Pool!Front(s))[i - 1]
  <2>1. /\ <<Pool!Last(s)>> \o Pool!Reverse(Pool!Front(s)) \in Seq(S)
        /\ Len(<<Pool!Last(s)>> \o Pool!Reverse(Pool!Front(s))) = 1 + (Len(s) - 1)
        /\ \A i \in 1 .. 1 + (Len(s) - 1) : (<<Pool!Last(s)>> \o Pool!Reverse(Pool!Front(s)))[i] =
              IF i <= 1 THEN <<Pool!Last(s)>>[i] ELSE Pool!Reverse(Pool!Front(s))[i - 1]
    BY <1>5, <1>6, ConcatProperties
  <2>2. 1 + (Len(s) - 1) = Len(s) BY <1>1
  <2> QED BY <2>1, <2>2
<1>9. ASSUME NEW i \in 1 .. Len(s)
      PROVE  Pool!Reverse(s)[i] = (<<Pool!Last(s)>> \o Pool!Reverse(Pool!Front(s)))[i]
  <2>1. CASE i = 1 BY <1>1, <1>5, <1>7, <1>8, <2>1 DEF Pool!Last
  <2>2. CASE i > 1
    <3>1. i - 1 \in 1 .. Len(s) - 1 /\ Len(s) - i + 1 \in 1 .. Len(s) - 1
          /\ Len(s) - 1 - (i - 1) + 1 = Len(s) - i + 1
      BY <1>1, <2>2
    <3>2. Pool!Reverse(Pool!Front(s))[i - 1] = Pool!Front(s)[Len(s) - i + 1] BY <1>6, <3>1
    <3>3. Pool!Front(s)[Len(s) - i + 1] = s[Len(s) - i + 1] BY <1>3, <3>1
    <3>4. ~(i <= 1) BY <1>1, <2>2
    <3>5. (<<Pool!Last(s)>> \o Pool!Reverse(Pool!Front(s)))[i] = Pool!Reverse(Pool!Front(s))[i - 1] BY <1>8, <3>4
    <3>6. Pool!Reverse(s)[i] = s[Len(s) - i + 1] BY <1>7
    <3> QED BY <3>2, <3>3, <3>5, <3>6
  <2>3. i = 1 \/ i > 1 BY <1>1
  <2> QED BY <2>1, <2>2, <2>3
<1>10. Pool!Reverse(s) = <<Pool!Last(s)>> \o Pool!Reverse(Pool!Front(s)) BY <1>7, <1>8, <1>9, SeqEqual
<1> QED BY <1>1, <1>3, <1>4, <1>10

(* New work comes last, the oldest is taken first.                         *)
LEMMA Inserted ==
  ASSUME NEW S, NEW s \in Seq(S), NEW x \in S, NEW d \in Seq(S)
  PROVE  /\ <<x>> \o s \in Seq(S) /\ Len(<<x>> \o s) = Len(s) + 1
         /\ d \o Pool!Reverse(<<x>> \o s) = Append(d \o Pool!Reverse(s), x)
<1>1. Pool!Reverse(s) \in Seq(S) BY Mirror
<1>2. <<x>> \in Seq(S) OBVIOUS
<1>3. d \o (Pool!Reverse(s) \o <<x>>) = (d \o Pool!Reverse(s)) \o <<x>> BY <1>1, <1>2, ConcatAssociative
<1>4. d \o Pool!Reverse(s) \in Seq(S) BY <1>1, ConcatProperties
<1>5. Append(d \o Pool!Reverse(s), x) = (d \o Pool!Reverse(s)) \o <<x>> BY <1>4, AppendIsConcat
<1> QED BY <1>3, <1>5, MirrorInsert

LEMMA TakenOldest ==
  ASSUME NEW S, NEW s \in Seq(S), s # <<>>, NEW d \in Seq(S)
  PROVE  /\ Pool!Last(s) \in S /\ Pool!Front(s) \in Seq(S) /\ Len(s) \in Nat \ {0} /\ Len(Pool!Front(s)) = Len(s) - 1
         /\ Append(d, Pool!Last(s)) \o Pool!Reverse(Pool!Front(s)) = d \o Pool!Reverse(s)
<1>1. Pool!Last(s) \in S /\ Pool!Front(s) \in Seq(S) /\ Pool!Reverse(s) = <<Pool!Last(s)>> \o Pool!Reverse(Pool!Front(s)) BY MirrorTake
<1>2. Pool!Reverse(Pool!Front(s)) \in Seq(S) /\ <<Pool!Last(s)>> \in Seq(S) BY <1>1, Mirror
<1>3. (d \o <<Pool!Last(s)>>) \o Pool!Reverse(Pool!Front(s)) = d \o (<<Pool!Last(s)>> \o Pool!Reverse(Pool!Front(s)))
  BY <1>2, ConcatAssociative
<1>4. Append(d, Pool!Last(s)) = d \o <<Pool!Last(s)>> BY <1>1, AppendIsConcat
<1> QED BY <1>1, <1>3, <1>4, MirrorTake
-----------------------------------------------------------------------------
(* Thread pool: the invariant.                                             *)
USE DEF Pool!num_work, Pool!num_threads

(* busy_threads counts the workers that run a work function.               *)
Counted == busy_threads = Pool!Cardinality(Pool!In("busy"))

(* Sleeping workers sleep in worker_thread(); pool->threads has all others *)
(* that exist, until the destructor takes it; then nobody sleeps again.    *)
Kept ==
  /\ sleepers \subseteq Pool!In("waiting") \cup Pool!In("timed")
  /\ owner \in {"open", "failed"} =>
       /\ ~terminate /\ joining = {} /\ Pool!In("exited") = {}
       /\ threads = {t \in Workers : state[t] # "none"}
  /\ owner \in {"joining", "destroyed"} =>
       /\ terminate /\ threads = {} /\ sleepers = {}
       /\ joining = {t \in Workers : state[t] # "none"}
  /\ owner = "destroyed" => Pool!Living = {}

PoolInv == Pool!TypeOK /\ Counted /\ Kept /\ Pool!InOrder /\ Pool!WorkAttended

(* Counting a part of the workers.                                         *)
LEMMA Count ==
  ASSUME Pool!ThreadPoolAssumption, NEW A \in SUBSET Workers
  PROVE  /\ Pool!IsFiniteSet(A) /\ Pool!Cardinality(A) \in Nat /\ Pool!Cardinality(A) <= Pool!Cardinality(Workers)
         /\ Pool!Cardinality(Workers) \in Nat
         /\ Pool!Cardinality(A) = 0 <=> A = {}
         /\ \A t \in Workers : Pool!Cardinality(A \cup {t}) = IF t \in A THEN Pool!Cardinality(A) ELSE Pool!Cardinality(A) + 1
         /\ \A t \in Workers : Pool!Cardinality(A \ {t}) = IF t \in A THEN Pool!Cardinality(A) - 1 ELSE Pool!Cardinality(A)
         /\ \A B \in SUBSET Workers : A \subseteq B => Pool!Cardinality(A) <= Pool!Cardinality(B)
<1>1. Pool!IsFiniteSet(Workers) BY DEF Pool!ThreadPoolAssumption
<1>2. \A B \in SUBSET Workers : Pool!IsFiniteSet(B) /\ Pool!Cardinality(B) \in Nat /\ Pool!Cardinality(B) <= Pool!Cardinality(Workers)
  BY <1>1, FS_Subset, FS_CardinalityType, SamePool
<1>3. Pool!Cardinality(A) = 0 <=> A = {} BY <1>2, FS_EmptySet, SamePool
<1>4. ASSUME NEW t \in Workers
      PROVE  Pool!Cardinality(A \cup {t}) = IF t \in A THEN Pool!Cardinality(A) ELSE Pool!Cardinality(A) + 1
  BY <1>2, FS_AddElement, SamePool
<1>5. ASSUME NEW t \in Workers
      PROVE  Pool!Cardinality(A \ {t}) = IF t \in A THEN Pool!Cardinality(A) - 1 ELSE Pool!Cardinality(A)
  BY <1>2, FS_RemoveElement, SamePool
<1>6. ASSUME NEW B \in SUBSET Workers, A \subseteq B PROVE Pool!Cardinality(A) <= Pool!Cardinality(B)
  BY <1>2, <1>6, FS_Subset, SamePool
<1>7. Pool!Cardinality(Workers) \in Nat BY <1>1, FS_CardinalityType, SamePool
<1> QED BY <1>2, <1>3, <1>4, <1>5, <1>6, <1>7

(* Initially the workers that could be created are ready.                  *)
LEMMA PoolInit == ASSUME Pool!ThreadPoolAssumption, Pool!Init PROVE PoolInv
<1>1. Pool!TypeOK
  <2>1. Pool!Cardinality(Workers) \in Nat /\ 0 \in 0 .. Pool!Cardinality(Workers) BY Count
  <2>2. /\ threads \subseteq Workers /\ sleepers \subseteq Workers /\ joining \subseteq Workers
        /\ busy_threads \in 0 .. Pool!Cardinality(Workers) /\ terminate \in BOOLEAN
        /\ owner \in {"open", "failed", "joining", "destroyed"} /\ starved \in BOOLEAN
    BY <2>1 DEF Pool!Init
  <2>3. work \in Seq(Works) /\ submitted \in Seq(Works) /\ started \in Seq(Works) BY EmptySeq DEF Pool!Init
  <2>4. state \in [Workers -> Pool!States] BY DEF Pool!Init, Pool!States
  <2> QED BY <2>2, <2>3, <2>4 DEF Pool!TypeOK
<1>2. Counted
  <2>1. Pool!In("busy") = {} BY DEF Pool!Init, Pool!In
  <2> QED BY <2>1, Count DEF Pool!Init, Counted
<1>3. Kept
  <2>1. threads \subseteq Workers /\ sleepers = {} /\ joining = {} /\ ~terminate /\ owner \in {"open", "failed"}
    BY DEF Pool!Init
  <2>2. \A t \in Workers : state[t] = IF t \in threads THEN "ready" ELSE "none" BY DEF Pool!Init
  <2> QED BY <2>1, <2>2 DEF Kept, Pool!In
<1>4. Pool!InOrder
  <2>1. Pool!Reverse(<<>>) \in Seq(Works) /\ Len(Pool!Reverse(<<>>)) = 0 /\ <<>> \in Seq(Works) BY Mirror, EmptySeq
  <2>2. Pool!Reverse(<<>>) = <<>> BY <2>1, EmptySeq
  <2>3. <<>> \o <<>> = <<>> BY <2>1, ConcatEmptySeq
  <2> QED BY <2>2, <2>3 DEF Pool!Init, Pool!InOrder
<1>5. Pool!WorkAttended
  <2>1. threads \in SUBSET Workers /\ sleepers = {} /\ work = <<>> /\ busy_threads = 0 /\ owner # "destroyed"
    BY DEF Pool!Init
  <2>2. Pool!num_threads \in Nat /\ Pool!num_work = 0 BY <2>1, Count
  <2> QED BY <2>1, <2>2 DEF Pool!WorkAttended
<1> QED BY <1>1, <1>2, <1>3, <1>4, <1>5 DEF PoolInv

(* A step of a worker: it takes work, sleeps, exits or retires.  busy is   *)
(* the number of the others that work.                                     *)
LEMMA WorkerDoes ==
  ASSUME Pool!ThreadPoolAssumption, PoolInv, NEW t \in Workers, Pool!WorkerStep(t)
  PROVE  /\ t \notin sleepers /\ state[t] \in {"ready", "waiting", "timed", "timedout", "busy"} /\ Pool!Unrelated
         /\ \E busy \in Nat :
              /\ busy = Pool!Cardinality(Pool!In("busy") \ {t})
              /\ \/ Pool!TakeWork(t, busy) \/ Pool!Idle(t, busy) \/ Pool!Exit(t, busy)
                 \/ Pool!Surplus /\ state[t] = "timedout" /\ busy = busy_threads /\ Pool!Retire(t)
<1>1. t \notin sleepers /\ state[t] \in {"ready", "waiting", "timed", "timedout", "busy"} /\ Pool!Unrelated
  BY DEF PoolInv, Kept, Pool!In, Pool!WorkerStep, Pool!Begin, Pool!Wake, Pool!Finish, Pool!Expire
<1> DEFINE busy == IF state[t] = "busy" THEN busy_threads - 1 ELSE busy_threads
<1>2. busy = Pool!Cardinality(Pool!In("busy") \ {t}) /\ busy \in Nat
  <2>1. Pool!In("busy") \in SUBSET Workers /\ Pool!In("busy") \ {t} \in SUBSET Workers BY DEF Pool!In
  <2>2. t \in Pool!In("busy") <=> state[t] = "busy" BY DEF Pool!In
  <2>3. busy_threads = Pool!Cardinality(Pool!In("busy")) BY DEF PoolInv, Counted
  <2>4. CASE t \in Pool!In("busy")
    <3>1. Pool!Cardinality(Pool!In("busy") \ {t}) = Pool!Cardinality(Pool!In("busy")) - 1
      BY <2>1, <2>4, Count
    <3>2. Pool!Cardinality(Pool!In("busy") \ {t}) \in Nat BY <2>1, Count
    <3> QED BY <2>2, <2>3, <2>4, <3>1, <3>2
  <2>5. CASE t \notin Pool!In("busy")
    <3>1. Pool!In("busy") \ {t} = Pool!In("busy") BY <2>5
    <3>2. Pool!Cardinality(Pool!In("busy")) \in Nat BY <2>1, Count
    <3> QED BY <2>2, <2>3, <2>5, <3>1, <3>2
  <2> QED BY <2>4, <2>5
<1>3. \/ Pool!TakeWork(t, busy) \/ Pool!Idle(t, busy) \/ Pool!Exit(t, busy)
      \/ Pool!Surplus /\ state[t] = "timedout" /\ busy = busy_threads /\ Pool!Retire(t)
  <2>1. CASE Pool!Begin(t) BY <2>1 DEF Pool!Begin, Pool!Loop
  <2>2. CASE Pool!Wake(t) BY <2>2 DEF Pool!Wake, Pool!Loop
  <2>3. CASE Pool!Finish(t) BY <2>3 DEF Pool!Finish, Pool!Loop
  <2>4. CASE Pool!Expire(t) BY <2>4 DEF Pool!Expire, Pool!RetireOrLoop, Pool!Loop
  <2> QED BY <2>1, <2>2, <2>3, <2>4 DEF Pool!WorkerStep
<1> HIDE DEF busy
<1> QED BY <1>1, <1>2, <1>3
-----------------------------------------------------------------------------
(* Thread pool: the steps.                                                 *)

(* A worker takes the oldest work.                                         *)
LEMMA TakeStep ==
  ASSUME Pool!ThreadPoolAssumption, PoolInv, NEW t \in Workers, t \notin sleepers,
         state[t] \in {"ready", "waiting", "timed", "timedout", "busy"}, Pool!Unrelated,
         NEW busy \in Nat, busy = Pool!Cardinality(Pool!In("busy") \ {t}), Pool!TakeWork(t, busy)
  PROVE  PoolInv'
<1>1. /\ work # <<>> /\ work' = Pool!Front(work) /\ started' = Append(started, Pool!Last(work))
      /\ busy_threads' = busy + 1 /\ state' = [state EXCEPT ![t] = "busy"]
      /\ UNCHANGED <<threads, sleepers, terminate, joining, owner, submitted, starved>>
  BY DEF Pool!TakeWork, Pool!Busier, Pool!Goto, Pool!Unrelated
<1>2. /\ work \in Seq(Works) /\ submitted \in Seq(Works) /\ started \in Seq(Works)
      /\ state \in [Workers -> Pool!States] /\ threads \in SUBSET Workers
  BY DEF PoolInv, Pool!TypeOK
<1>3. /\ Pool!Last(work) \in Works /\ Pool!Front(work) \in Seq(Works) /\ Len(work) \in Nat \ {0}
      /\ Len(Pool!Front(work)) = Len(work) - 1
      /\ Append(started, Pool!Last(work)) \o Pool!Reverse(Pool!Front(work)) = started \o Pool!Reverse(work)
  BY <1>1, <1>2, TakenOldest
<1>4. Pool!In("busy")' = (Pool!In("busy") \ {t}) \cup {t} BY <1>1, <1>2 DEF Pool!In
<1>5. Counted'
  <2>1. Pool!In("busy") \ {t} \in SUBSET Workers BY DEF Pool!In
  <2>2. Pool!Cardinality((Pool!In("busy") \ {t}) \cup {t}) = busy + 1 BY <2>1, Count
  <2> QED BY <1>1, <1>4, <2>2 DEF Counted
<1>6. Pool!TypeOK'
  <2>1. busy_threads' \in 0 .. Pool!Cardinality(Workers)
    <3>1. Pool!In("busy")' \in SUBSET Workers BY <1>4 DEF Pool!In
    <3> QED BY <1>5, <3>1, Count DEF Counted
  <2>2. started' \in Seq(Works) BY <1>1, <1>2, <1>3, AppendProperties
  <2>3. state' \in [Workers -> Pool!States] BY <1>1, <1>2 DEF Pool!States
  <2> QED BY <1>1, <1>3, <2>1, <2>2, <2>3 DEF PoolInv, Pool!TypeOK
<1>7. Kept' BY <1>1, <1>2 DEF PoolInv, Kept, Pool!In, Pool!Living
<1>8. Pool!InOrder' BY <1>1, <1>3 DEF PoolInv, Pool!InOrder
<1>9. Pool!WorkAttended'
  <2>1. Pool!Awake' = Pool!Awake \ {t} BY <1>1, <1>2 DEF Pool!Awake, Pool!In
  <2>2. Pool!Awake \in SUBSET Workers BY DEF Pool!Awake, Pool!In
  <2>3. /\ Pool!Cardinality(Pool!Awake') >= Pool!Cardinality(Pool!Awake) - 1
        /\ Pool!Cardinality(Pool!Awake) \in Nat /\ Pool!Cardinality(Pool!Awake') \in Nat
    <3>1. Pool!Awake' \in SUBSET Workers BY <2>1, <2>2
    <3> QED BY <2>1, <2>2, <3>1, Count
  <2>4. sleepers' # {} => Pool!num_work' <= Pool!Cardinality(Pool!Awake') BY <1>1, <1>3, <2>2, <2>3 DEF PoolInv, Pool!WorkAttended
  <2>5. t \in Pool!Living' BY <1>1, <1>2 DEF Pool!Living
  <2>6. busy_threads' + Pool!num_work' <= busy_threads + Pool!num_work
    <3>1. Pool!In("busy") \in SUBSET Workers BY DEF Pool!In
    <3>2. busy <= busy_threads BY <3>1, Count DEF PoolInv, Counted
    <3> QED BY <1>1, <1>3, <3>2 DEF PoolInv, Pool!TypeOK
  <2>7. owner = "open" /\ Pool!num_threads < MaxThreads /\ ~starved => busy_threads' + Pool!num_work' <= Pool!num_threads
    <3>1. Pool!num_threads \in Nat /\ Pool!num_work \in Nat /\ Pool!num_work' \in Nat BY <1>1, <1>2, <1>3, Count
    <3>2. busy_threads \in Nat /\ busy_threads' \in Nat BY <1>6 DEF PoolInv, Pool!TypeOK
    <3> QED BY <2>6, <3>1, <3>2 DEF PoolInv, Pool!WorkAttended
  <2>8. owner # "destroyed" BY <1>1 DEF PoolInv, Pool!WorkAttended
  <2> QED BY <1>1, <2>4, <2>5, <2>7, <2>8 DEF Pool!WorkAttended
<1> QED BY <1>5, <1>6, <1>7, <1>8, <1>9 DEF PoolInv

(* A worker finds no work: it sleeps, exits or retires.                    *)
LEMMA RestStep ==
  ASSUME Pool!ThreadPoolAssumption, PoolInv, NEW t \in Workers, t \notin sleepers,
         state[t] \in {"ready", "waiting", "timed", "timedout", "busy"}, Pool!Unrelated,
         NEW busy \in Nat, busy = Pool!Cardinality(Pool!In("busy") \ {t}),
         \/ Pool!Idle(t, busy) \/ Pool!Exit(t, busy)
         \/ Pool!Surplus /\ state[t] = "timedout" /\ busy = busy_threads /\ Pool!Retire(t)
  PROVE  PoolInv'
<1>1. /\ work = <<>> /\ busy_threads' = busy
      /\ UNCHANGED <<work, started, terminate, joining, owner, submitted, starved>>
      /\ \/ /\ ~terminate /\ sleepers' = sleepers \cup {t} /\ threads' = threads
            /\ \E s \in {"timed", "waiting"} : state' = [state EXCEPT ![t] = s]
         \/ terminate /\ state' = [state EXCEPT ![t] = "exited"] /\ UNCHANGED <<sleepers, threads>>
         \/ /\ Pool!Surplus /\ state' = [state EXCEPT ![t] = "none"] /\ threads' = threads \ {t}
            /\ sleepers' = sleepers
  BY DEF Pool!Idle, Pool!Exit, Pool!Retire, Pool!Goto, Pool!Unrelated
<1>2. state \in [Workers -> Pool!States] /\ threads \in SUBSET Workers /\ sleepers \in SUBSET Workers
  BY DEF PoolInv, Pool!TypeOK
<1>3. Pool!In("busy")' = Pool!In("busy") \ {t} BY <1>1, <1>2 DEF Pool!In
<1>4. Counted' BY <1>1, <1>3 DEF Counted
<1>5. Pool!TypeOK'
  <2>1. busy_threads' \in 0 .. Pool!Cardinality(Workers)
    <3>1. Pool!In("busy")' \in SUBSET Workers BY <1>3 DEF Pool!In
    <3> QED BY <1>4, <3>1, Count DEF Counted
  <2>2. state' \in [Workers -> Pool!States] BY <1>1, <1>2 DEF Pool!States
  <2> QED BY <1>1, <2>1, <2>2 DEF PoolInv, Pool!TypeOK
<1>6. Kept'
  <2>1. CASE owner \in {"open", "failed"}
    <3>1. ~terminate /\ joining = {} /\ Pool!In("exited") = {} /\ threads = {u \in Workers : state[u] # "none"}
      BY <2>1 DEF PoolInv, Kept
    <3> QED BY <1>1, <1>2, <2>1, <3>1 DEF PoolInv, Kept, Pool!In
  <2>2. CASE owner \in {"joining", "destroyed"}
    <3>1. terminate /\ threads = {} /\ sleepers = {} /\ joining = {u \in Workers : state[u] # "none"}
      BY <2>2 DEF PoolInv, Kept
    <3>2. ~Pool!Surplus
      <4>1. Pool!num_threads = 0 BY <3>1, FS_EmptySet, SamePool
      <4> QED BY <4>1 DEF Pool!Surplus, Pool!ThreadPoolAssumption
    <3> QED BY <1>1, <1>2, <2>2, <3>1, <3>2 DEF PoolInv, Kept, Pool!In, Pool!Living
  <2> QED BY <2>1, <2>2 DEF PoolInv, Pool!TypeOK
<1>7. Pool!InOrder' BY <1>1 DEF PoolInv, Pool!InOrder
<1>8. Pool!WorkAttended'
  <2>1. Pool!num_work' = 0 BY <1>1
  <2>2. Pool!Awake' \in SUBSET Workers BY DEF Pool!Awake, Pool!In
  <2>3. Pool!Cardinality(Pool!Awake') \in Nat BY <2>2, Count
  <2>4. ASSUME owner = "open", Pool!num_threads' < MaxThreads, ~starved PROVE busy_threads' + Pool!num_work' <= Pool!num_threads'
    <3>1. threads = {u \in Workers : state[u] # "none"} /\ ~terminate BY <2>4 DEF PoolInv, Kept
    <3>2. Pool!In("busy")' \subseteq threads' BY <1>1, <1>2, <3>1 DEF Pool!In
    <3>3. threads' \in SUBSET Workers /\ Pool!In("busy")' \in SUBSET Workers BY <1>5 DEF Pool!TypeOK, Pool!In
    <3>4. busy_threads' <= Pool!num_threads' BY <1>4, <3>2, <3>3, Count DEF Counted
    <3> QED BY <1>1, <2>1, <3>4
  <2>5. owner # "destroyed"
    <3>1. t \in Pool!Living BY DEF Pool!Living
    <3> QED BY <3>1 DEF PoolInv, Kept
  <2> QED BY <1>1, <2>1, <2>3, <2>4, <2>5 DEF Pool!WorkAttended
<1> QED BY <1>4, <1>5, <1>6, <1>7, <1>8 DEF PoolInv

(* A sleeping worker is woken up, or its deadline passes.                  *)
LEMMA RouseStep ==
  ASSUME Pool!ThreadPoolAssumption, PoolInv, NEW t \in Workers, Pool!TimesOut(t) \/ Pool!SpuriousWakeup(t)
  PROVE  PoolInv'
<1>1. /\ t \in sleepers /\ sleepers' = sleepers \ {t}
      /\ UNCHANGED <<threads, busy_threads, terminate, work, joining, owner, submitted, started, starved>>
      /\ state' = state \/ (state[t] = "timed" /\ state' = [state EXCEPT ![t] = "timedout"])
  BY DEF Pool!TimesOut, Pool!SpuriousWakeup, Pool!Goto, Pool!pool, Pool!history
<1>2. state \in [Workers -> Pool!States] /\ sleepers \in SUBSET Workers BY DEF PoolInv, Pool!TypeOK
<1>3. Pool!In("busy")' = Pool!In("busy") BY <1>1, <1>2 DEF Pool!In
<1>4. Pool!TypeOK' BY <1>1, <1>2 DEF PoolInv, Pool!TypeOK, Pool!States
<1>5. Counted' BY <1>1, <1>3 DEF PoolInv, Counted
<1>6. Kept' BY <1>1, <1>2 DEF PoolInv, Kept, Pool!In, Pool!Living
<1>7. Pool!InOrder' BY <1>1 DEF PoolInv, Pool!InOrder
<1>8. Pool!WorkAttended'
  <2>1. Pool!Awake \subseteq Pool!Awake' BY <1>1, <1>2 DEF PoolInv, Kept, Pool!Awake, Pool!In
  <2>2. Pool!Awake \in SUBSET Workers /\ Pool!Awake' \in SUBSET Workers BY DEF Pool!Awake, Pool!In
  <2>3. Pool!Cardinality(Pool!Awake) <= Pool!Cardinality(Pool!Awake') /\ Pool!Cardinality(Pool!Awake) \in Nat /\ Pool!Cardinality(Pool!Awake') \in Nat
    BY <2>1, <2>2, Count
  <2>4. Pool!Living' = Pool!Living BY <1>1, <1>2 DEF Pool!Living
  <2>5. Pool!num_work \in Nat BY LenProperties DEF PoolInv, Pool!TypeOK
  <2>6. sleepers' # {} => Pool!num_work' <= Pool!Cardinality(Pool!Awake') BY <1>1, <2>3, <2>5 DEF PoolInv, Pool!WorkAttended
  <2> QED BY <1>1, <2>4, <2>6 DEF PoolInv, Pool!WorkAttended
<1> QED BY <1>4, <1>5, <1>6, <1>7, <1>8 DEF PoolInv

(* Work is added: with a thread for it, or one that sleeps is woken up.    *)
LEMMA AddStep ==
  ASSUME Pool!ThreadPoolAssumption, PoolInv, NEW w \in Works, NEW b \in BOOLEAN, Pool!Add(w, b)
  PROVE  PoolInv'
<1>1. owner = "open" /\ UNCHANGED <<busy_threads, terminate, joining, owner, started>> BY DEF Pool!Add
<1>2. /\ work \in Seq(Works) /\ submitted \in Seq(Works) /\ started \in Seq(Works)
      /\ state \in [Workers -> Pool!States] /\ threads \in SUBSET Workers /\ sleepers \in SUBSET Workers
      /\ busy_threads \in Nat
  BY DEF PoolInv, Pool!TypeOK
<1>3. Pool!num_work \in Nat /\ Pool!num_threads \in Nat BY <1>2, Count, LenProperties
<1>4. \/ /\ \E t \in Workers : state[t] = "none" /\ threads' = threads \cup {t} /\ state' = [state EXCEPT ![t] = "ready"]
         /\ Pool!WantsThread /\ starved' = starved
      \/ /\ UNCHANGED <<threads, state>>
         /\ (~Pool!WantsThread /\ starved' = starved) \/ (starved' = TRUE /\ (Pool!num_threads > 0 \/ Pool!Refuse))
  <2>1. CASE Pool!WantsThread BY <2>1 DEF Pool!Add, Pool!AddThread, Pool!AddThreadFails, Pool!MayQueue
  <2>2. CASE ~Pool!WantsThread BY <2>2 DEF Pool!Add
  <2> QED BY <2>1, <2>2
<1>5. Pool!Accept(w) \/ (Pool!Refuse /\ UNCHANGED <<threads, state>> /\ starved' = TRUE)
  <2>1. CASE Pool!WantsThread BY <2>1 DEF Pool!Add, Pool!AddThreadFails
  <2>2. CASE ~Pool!WantsThread BY <2>2 DEF Pool!Add
  <2> QED BY <2>1, <2>2
<1>6. \/ Pool!Refuse /\ UNCHANGED <<threads, state>> /\ starved' = TRUE
      \/ /\ work' = <<w>> \o work /\ submitted' = Append(submitted, w)
         /\ (sleepers = {} /\ sleepers' = {}) \/ \E u \in sleepers : sleepers' = sleepers \ {u}
  BY <1>5 DEF Pool!Accept, Pool!Insert, Pool!Signal
<1>7. Pool!In("busy")' = Pool!In("busy") BY <1>2, <1>4 DEF Pool!In
<1>8. /\ <<w>> \o work \in Seq(Works) /\ Len(<<w>> \o work) = Len(work) + 1
      /\ started \o Pool!Reverse(<<w>> \o work) = Append(started \o Pool!Reverse(work), w)
  BY <1>2, Inserted
<1>9. sleepers' \subseteq sleepers /\ work' \in Seq(Works) /\ submitted' \in Seq(Works)
  <2>1. Append(submitted, w) \in Seq(Works) BY <1>2, AppendProperties
  <2> QED BY <1>2, <1>6, <1>8, <2>1 DEF Pool!Refuse
<1>10. Pool!TypeOK'
  <2>1. threads' \subseteq Workers /\ state' \in [Workers -> Pool!States] /\ starved' \in BOOLEAN
    BY <1>2, <1>4 DEF PoolInv, Pool!TypeOK, Pool!States
  <2> QED BY <1>1, <1>2, <1>9, <2>1 DEF PoolInv, Pool!TypeOK
<1>11. Counted' BY <1>1, <1>7 DEF PoolInv, Counted
<1>12. Kept'
  <2>1. /\ sleepers \subseteq Pool!In("waiting") \cup Pool!In("timed") /\ ~terminate /\ joining = {} /\ Pool!In("exited") = {}
        /\ threads = {t \in Workers : state[t] # "none"}
    BY <1>1 DEF PoolInv, Kept
  <2> QED BY <1>1, <1>2, <1>4, <1>9, <2>1 DEF Kept, Pool!In
<1>13. Pool!InOrder' BY <1>1, <1>6, <1>8 DEF PoolInv, Pool!InOrder, Pool!Refuse
<1>14. Pool!WorkAttended'
  <2>1. Pool!Awake \in SUBSET Workers /\ Pool!Awake' \in SUBSET Workers BY DEF Pool!Awake, Pool!In
  <2>2. Pool!Awake \subseteq Pool!Awake' BY <1>2, <1>4, <1>9 DEF Pool!Awake, Pool!In
  <2>3. sleepers' # {} => Pool!num_work' <= Pool!Cardinality(Pool!Awake')
    <3>1. CASE Pool!Refuse
      <4>1. Pool!Cardinality(Pool!Awake) <= Pool!Cardinality(Pool!Awake') /\ Pool!Cardinality(Pool!Awake) \in Nat /\ Pool!Cardinality(Pool!Awake') \in Nat
        BY <2>1, <2>2, Count
      <4> QED BY <1>3, <3>1, <4>1 DEF PoolInv, Pool!WorkAttended, Pool!Refuse
    <3>2. ASSUME NEW u \in sleepers, sleepers' = sleepers \ {u}, work' = <<w>> \o work PROVE Pool!num_work' <= Pool!Cardinality(Pool!Awake')
      <4>1. u \in Workers /\ state[u] \in {"waiting", "timed"} /\ state'[u] = state[u]
        BY <1>2, <1>4, <3>2 DEF PoolInv, Kept, Pool!In
      <4>2. u \in Pool!Awake' /\ u \notin Pool!Awake BY <3>2, <4>1 DEF Pool!Awake, Pool!In
      <4>3. Pool!Awake \cup {u} \subseteq Pool!Awake' BY <2>2, <4>2
      <4>4. Pool!Cardinality(Pool!Awake \cup {u}) = Pool!Cardinality(Pool!Awake) + 1 /\ Pool!Awake \cup {u} \in SUBSET Workers
        BY <2>1, <4>1, <4>2, Count
      <4>5. Pool!Cardinality(Pool!Awake) + 1 <= Pool!Cardinality(Pool!Awake') BY <2>1, <4>3, <4>4, Count
      <4>6. Pool!num_work <= Pool!Cardinality(Pool!Awake) BY <3>2 DEF PoolInv, Pool!WorkAttended
      <4>7. Pool!Cardinality(Pool!Awake) \in Nat /\ Pool!Cardinality(Pool!Awake') \in Nat BY <2>1, Count
      <4> QED BY <1>3, <1>8, <3>2, <4>5, <4>6, <4>7
    <3> QED BY <1>6, <3>1, <3>2
  <2>4. work' # <<>> => Pool!Living' # {}
    <3>1. CASE threads # {}
      <4>1. PICK t \in threads : TRUE BY <3>1
      <4>2. state[t] \notin {"none", "exited"} /\ state'[t] \notin {"none", "exited"} /\ t \in Workers
        BY <1>1, <1>2, <1>4, <4>1 DEF PoolInv, Kept, Pool!In
      <4> QED BY <4>2 DEF Pool!Living
    <3>2. CASE threads = {}
      <4>1. Pool!num_threads = 0 BY <3>2, FS_EmptySet, SamePool
      <4>2. CASE Pool!WantsThread
        <5>1. CASE \E t \in Workers : state' = [state EXCEPT ![t] = "ready"] BY <1>2, <5>1 DEF Pool!Living
        <5>2. CASE Pool!Refuse /\ UNCHANGED state BY <5>2 DEF PoolInv, Pool!WorkAttended, Pool!Refuse, Pool!Living
        <5> QED BY <1>3, <1>4, <4>1, <4>2, <5>1, <5>2
      <4>3. Pool!WantsThread BY <1>2, <1>3, <4>1 DEF Pool!WantsThread, Pool!ThreadPoolAssumption
      <4> QED BY <4>2, <4>3
    <3> QED BY <3>1, <3>2
  <2>5. ASSUME Pool!num_threads' < MaxThreads, ~starved' PROVE busy_threads' + Pool!num_work' <= Pool!num_threads'
    <3>1. work' = <<w>> \o work /\ ~starved BY <1>4, <1>6, <2>5
    <3>2. CASE ~Pool!WantsThread /\ UNCHANGED threads
      BY <1>1, <1>2, <1>3, <1>8, <2>5, <3>1, <3>2 DEF Pool!WantsThread, Pool!ThreadPoolAssumption
    <3>3. ASSUME NEW t \in Workers, state[t] = "none", threads' = threads \cup {t}, Pool!WantsThread
          PROVE  busy_threads' + Pool!num_work' <= Pool!num_threads'
      <4>1. t \notin threads BY <1>1, <3>3 DEF PoolInv, Kept
      <4>2. Pool!num_threads' = Pool!num_threads + 1 BY <1>2, <3>3, <4>1, Count
      <4>3. Pool!num_threads < MaxThreads BY <3>3 DEF Pool!WantsThread
      <4>4. busy_threads + Pool!num_work <= Pool!num_threads BY <1>1, <3>1, <4>3 DEF PoolInv, Pool!WorkAttended
      <4> QED BY <1>1, <1>2, <1>3, <1>8, <3>1, <4>2, <4>4
    <3> QED BY <1>4, <2>5, <3>2, <3>3
  <2> QED BY <1>1, <2>3, <2>4, <2>5 DEF Pool!WorkAttended
<1> QED BY <1>10, <1>11, <1>12, <1>13, <1>14 DEF PoolInv

(* The destructor wakes up everybody, and has joined all.                  *)
LEMMA DtorStep ==
  ASSUME Pool!ThreadPoolAssumption, PoolInv, Pool!Destroy \/ Pool!Joined
  PROVE  PoolInv'
<1>1. state \in [Workers -> Pool!States] /\ UNCHANGED <<state, busy_threads, work, submitted, started, starved>>
  BY DEF PoolInv, Pool!TypeOK, Pool!Destroy, Pool!Joined, Pool!pool, Pool!history
<1>2. Pool!In("busy")' = Pool!In("busy") /\ Pool!Living' = Pool!Living BY <1>1 DEF Pool!In, Pool!Living
<1>3. CASE Pool!Destroy
  <2>1. /\ owner \in {"open", "failed"} /\ terminate' /\ sleepers' = {} /\ joining' = threads /\ threads' = {}
        /\ owner' = "joining"
    BY <1>3 DEF Pool!Destroy, Pool!WakeAll
  <2>2. threads = {t \in Workers : state[t] # "none"} BY <2>1 DEF PoolInv, Kept
  <2>3. Pool!TypeOK' BY <1>1, <2>1 DEF PoolInv, Pool!TypeOK, Pool!Destroy
  <2>4. Counted' /\ Pool!InOrder' BY <1>1, <1>2 DEF PoolInv, Counted, Pool!InOrder
  <2>5. Kept' BY <1>1, <2>1, <2>2 DEF Kept
  <2>6. Pool!WorkAttended' BY <1>1, <1>2, <2>1 DEF PoolInv, Pool!WorkAttended
  <2> QED BY <2>3, <2>4, <2>5, <2>6 DEF PoolInv
<1>4. CASE Pool!Joined
  <2>1. /\ owner = "joining" /\ owner' = "destroyed" /\ UNCHANGED <<threads, terminate, sleepers, joining>>
        /\ \A t \in joining : state[t] = "exited"
    BY <1>4 DEF Pool!Joined, Pool!pool
  <2>2. joining = {t \in Workers : state[t] # "none"} BY <2>1 DEF PoolInv, Kept
  <2>3. Pool!Living = {} BY <2>1, <2>2 DEF Pool!Living
  <2>4. Pool!In("busy") = {} BY <2>3 DEF Pool!Living, Pool!In
  <2>5. busy_threads = 0 /\ work = <<>> BY <2>3, <2>4, FS_EmptySet, SamePool DEF PoolInv, Counted, Pool!WorkAttended
  <2>6. Pool!TypeOK' BY <1>1, <2>1 DEF PoolInv, Pool!TypeOK
  <2>7. Counted' /\ Pool!InOrder' BY <1>1, <1>2 DEF PoolInv, Counted, Pool!InOrder
  <2>8. Kept' BY <1>1, <1>2, <2>1, <2>3 DEF PoolInv, Kept, Pool!In
  <2>9. sleepers = {} BY <2>1 DEF PoolInv, Kept
  <2>10. Pool!WorkAttended' BY <1>1, <1>2, <2>1, <2>3, <2>5, <2>9 DEF Pool!WorkAttended
  <2> QED BY <2>6, <2>7, <2>8, <2>10 DEF PoolInv
<1> QED BY <1>3, <1>4

LEMMA PoolStep == ASSUME Pool!ThreadPoolAssumption, PoolInv, [Pool!Next]_(Pool!vars) PROVE PoolInv'
<1>1. ASSUME NEW t \in Workers, Pool!WorkerStep(t) PROVE PoolInv'
  <2>1. t \notin sleepers /\ state[t] \in {"ready", "waiting", "timed", "timedout", "busy"} /\ Pool!Unrelated
    BY <1>1, WorkerDoes
  <2>2. PICK busy \in Nat :
          /\ busy = Pool!Cardinality(Pool!In("busy") \ {t})
          /\ \/ Pool!TakeWork(t, busy) \/ Pool!Idle(t, busy) \/ Pool!Exit(t, busy)
             \/ Pool!Surplus /\ state[t] = "timedout" /\ busy = busy_threads /\ Pool!Retire(t)
    BY <1>1, WorkerDoes
  <2>3. CASE Pool!TakeWork(t, busy) BY <2>1, <2>2, <2>3, TakeStep
  <2>4. CASE ~Pool!TakeWork(t, busy) BY <2>1, <2>2, <2>4, RestStep
  <2> QED BY <2>3, <2>4
<1>2. ASSUME NEW t \in Workers, Pool!TimesOut(t) \/ Pool!SpuriousWakeup(t) PROVE PoolInv' BY <1>2, RouseStep
<1>3. ASSUME NEW w \in Works, Pool!Queue(w) \/ Pool!Run(w) PROVE PoolInv' BY <1>3, AddStep DEF Pool!Queue, Pool!Run
<1>4. CASE Pool!Destroy \/ Pool!Joined BY <1>4, DtorStep
<1>5. CASE UNCHANGED Pool!vars
  <2>1. /\ UNCHANGED <<threads, busy_threads, terminate, work, state, sleepers, joining, owner>>
        /\ UNCHANGED <<submitted, started, starved>>
    BY <1>5 DEF Pool!vars, Pool!pool, Pool!history
  <2> QED BY <2>1 DEF PoolInv, Pool!TypeOK, Counted, Kept, Pool!InOrder, Pool!WorkAttended, Pool!In, Pool!Awake, Pool!Living
<1> QED BY <1>1, <1>2, <1>3, <1>4, <1>5 DEF Pool!Next

(* Only a worker that is one too many retires.                             *)
LEMMA RetiresSurplus ==
  ASSUME Pool!ThreadPoolAssumption, PoolInv, [Pool!Next]_(Pool!vars), Pool!num_threads >= MinThreads, ~terminate'
  PROVE  Pool!num_threads' >= MinThreads
<1>1. threads \in SUBSET Workers /\ Pool!num_threads \in Nat BY Count DEF PoolInv, Pool!TypeOK
<1>2. ASSUME NEW t \in Workers, Pool!WorkerStep(t) PROVE Pool!num_threads' >= MinThreads
  <2>1. PICK busy \in Nat :
          /\ busy = Pool!Cardinality(Pool!In("busy") \ {t})
          /\ \/ Pool!TakeWork(t, busy) \/ Pool!Idle(t, busy) \/ Pool!Exit(t, busy)
             \/ Pool!Surplus /\ state[t] = "timedout" /\ busy = busy_threads /\ Pool!Retire(t)
    BY <1>2, WorkerDoes
  <2>2. threads' = threads \/ (Pool!Surplus /\ threads' = threads \ {t}) BY <2>1 DEF Pool!TakeWork, Pool!Idle, Pool!Exit, Pool!Retire
  <2>3. Pool!num_threads' = Pool!num_threads \/ (Pool!num_threads > MinThreads /\ Pool!num_threads' >= Pool!num_threads - 1)
    BY <1>1, <2>2, Count DEF Pool!Surplus
  <2>4. Pool!num_threads' \in Nat
    <3>1. threads' \in SUBSET Workers BY <1>1, <2>2
    <3> QED BY <3>1, Count
  <2> QED BY <1>1, <2>3, <2>4 DEF Pool!ThreadPoolAssumption
<1>3. ASSUME NEW w \in Works, NEW b \in BOOLEAN, Pool!Add(w, b) PROVE Pool!num_threads' >= MinThreads
  <2>1. threads \subseteq threads' /\ threads' \in SUBSET Workers BY <1>1, <1>3 DEF Pool!Add, Pool!AddThread, Pool!AddThreadFails
  <2>2. Pool!num_threads <= Pool!num_threads' /\ Pool!num_threads' \in Nat BY <1>1, <2>1, Count
  <2> QED BY <1>1, <2>2 DEF Pool!ThreadPoolAssumption
<1>4. CASE UNCHANGED threads BY <1>4
<1>5. ~Pool!Destroy BY DEF Pool!Destroy
<1>6. ASSUME NEW t \in Workers, Pool!TimesOut(t) \/ Pool!SpuriousWakeup(t) PROVE UNCHANGED threads
  BY <1>6 DEF Pool!TimesOut, Pool!SpuriousWakeup, Pool!pool
<1>7. Pool!Joined \/ UNCHANGED Pool!vars => UNCHANGED threads BY DEF Pool!Joined, Pool!pool, Pool!vars
<1> QED BY <1>2, <1>3, <1>4, <1>5, <1>6, <1>7 DEF Pool!Next, Pool!Queue, Pool!Run

-----------------------------------------------------------------------------
(* Filter runner: the lists.                                               *)

(* Lists without duplicates, and what is on them.                          *)
Lists(S) == {p \in Seq(S) : Runner!IsInjective(p)}

LEMMA ListFacts ==
  ASSUME NEW S, NEW p \in Lists(S)
  PROVE  /\ p \in Seq(S) /\ Len(p) \in Nat /\ DOMAIN p = 1 .. Len(p)
         /\ \A i \in 1 .. Len(p) : p[i] \in S
         /\ \A i, j \in 1 .. Len(p) : p[i] = p[j] => i = j
         /\ \A f : f \in Runner!Range(p) <=> \E i \in 1 .. Len(p) : p[i] = f
<1>1. p \in Seq(S) /\ Runner!IsInjective(p) BY DEF Lists
<1>2. Len(p) \in Nat /\ DOMAIN p = 1 .. Len(p) BY <1>1, LenProperties
<1>3. \A i \in 1 .. Len(p) : p[i] \in S BY <1>1, ElementOfSeq
<1> QED BY <1>1, <1>2, <1>3 DEF Runner!IsInjective, Runner!Range

LEMMA ListIntro ==
  ASSUME NEW S, NEW p \in Seq(S), \A i, j \in 1 .. Len(p) : p[i] = p[j] => i = j
  PROVE  p \in Lists(S)
<1>1. DOMAIN p = 1 .. Len(p) BY LenProperties
<1> QED BY <1>1 DEF Lists, Runner!IsInjective

(* A filter becomes pending once.                                          *)
LEMMA AddLast ==
  ASSUME NEW S, NEW p \in Lists(S), NEW f \in S, f \notin Runner!Range(p)
  PROVE  Append(p, f) \in Lists(S) /\ Runner!Range(Append(p, f)) = Runner!Range(p) \cup {f}
<1> DEFINE q == Append(p, f)
<1>1. p \in Seq(S) /\ Len(p) \in Nat BY ListFacts
<1>2. /\ q \in Seq(S) /\ Len(q) = Len(p) + 1
      /\ \A i \in 1 .. Len(p) : q[i] = p[i]
      /\ q[Len(p) + 1] = f
  BY <1>1, AppendProperties
<1> HIDE DEF q
<1>3. \A i, j \in 1 .. Len(q) : q[i] = q[j] => i = j
  <2> SUFFICES ASSUME NEW i \in 1 .. Len(q), NEW j \in 1 .. Len(q), q[i] = q[j] PROVE i = j OBVIOUS
  <2>1. \A k \in 1 .. Len(p) : p[k] # f BY ListFacts
  <2>2. CASE i > Len(p) \/ j > Len(p) BY <1>1, <1>2, <2>1, <2>2
  <2>3. CASE i <= Len(p) /\ j <= Len(p)
    <3>1. i \in 1 .. Len(p) /\ j \in 1 .. Len(p) /\ p[i] = p[j] BY <1>1, <1>2, <2>3
    <3> QED BY <3>1, ListFacts
  <2> QED BY <1>1, <1>2, <2>2, <2>3
<1>4. q \in Lists(S) BY <1>2, <1>3, ListIntro
<1>5. Runner!Range(q) = Runner!Range(p) \cup {f}
  <2>1. f \in Runner!Range(q) BY <1>1, <1>2, <1>4, ListFacts
  <2>2. ASSUME NEW g \in Runner!Range(p) PROVE g \in Runner!Range(q)
    <3>1. PICK i \in 1 .. Len(p) : p[i] = g BY <2>2, ListFacts
    <3>2. i \in 1 .. Len(q) /\ q[i] = g BY <1>1, <1>2, <3>1
    <3> QED BY <1>4, <3>2, ListFacts
  <2>3. ASSUME NEW g \in Runner!Range(q), g # f PROVE g \in Runner!Range(p)
    <3>1. PICK i \in 1 .. Len(q) : q[i] = g BY <1>4, <2>3, ListFacts
    <3>2. i \in 1 .. Len(p) /\ p[i] = g BY <1>1, <1>2, <2>3, <3>1
    <3> QED BY <3>2, ListFacts
  <2> QED BY <2>1, <2>2, <2>3
<1> QED BY <1>4, <1>5 DEF q

LEMMA AddOne ==
  ASSUME NEW S, NEW p \in Lists(S), NEW f \in S
  PROVE  Runner!AddPending(p, f) \in Lists(S) /\ Runner!Range(Runner!AddPending(p, f)) = Runner!Range(p) \cup {f}
<1>1. CASE f \in Runner!Range(p) BY <1>1 DEF Runner!AddPending
<1>2. CASE f \notin Runner!Range(p)
  <2>1. p \in Seq(S) /\ Len(p) \in Nat BY ListFacts
  <2>2. CASE f \in HighPriority
    <3> DEFINE q == <<f>> \o p
    <3>1. <<f>> \in Seq(S) /\ Len(<<f>>) = 1 /\ <<f>>[1] = f OBVIOUS
    <3>2. /\ q \in Seq(S) /\ Len(q) = Len(p) + 1
          /\ \A i \in 1 .. Len(p) + 1 : q[i] = IF i <= 1 THEN f ELSE p[i - 1]
      BY <2>1, <3>1, ConcatProperties
    <3> HIDE DEF q
    <3>3. \A i, j \in 1 .. Len(q) : q[i] = q[j] => i = j
      <4> SUFFICES ASSUME NEW i \in 1 .. Len(q), NEW j \in 1 .. Len(q), q[i] = q[j] PROVE i = j OBVIOUS
      <4>1. \A k \in 1 .. Len(p) : p[k] # f BY <1>2, ListFacts
      <4>2. CASE i <= 1 \/ j <= 1
        <5>1. ASSUME NEW k \in 1 .. Len(q), k > 1 PROVE q[k] # f
          <6>1. q[k] = p[k - 1] /\ k - 1 \in 1 .. Len(p) BY <2>1, <3>2, <5>1
          <6> QED BY <4>1, <6>1
        <5>2. \A k \in 1 .. Len(q) : k <= 1 => k = 1 /\ q[k] = f BY <2>1, <3>2
        <5>3. i > 1 \/ i <= 1 BY <2>1, <3>2
        <5>4. j > 1 \/ j <= 1 BY <2>1, <3>2
        <5> QED BY <4>2, <5>1, <5>2, <5>3, <5>4
      <4>3. CASE i > 1 /\ j > 1
        <5>1. i - 1 \in 1 .. Len(p) /\ j - 1 \in 1 .. Len(p) /\ p[i - 1] = p[j - 1] BY <2>1, <3>2, <4>3
        <5>2. i - 1 = j - 1 BY <5>1, ListFacts
        <5> QED BY <2>1, <3>2, <5>2
      <4> QED BY <2>1, <3>2, <4>2, <4>3
    <3>4. q \in Lists(S) BY <3>2, <3>3, ListIntro
    <3>5. Runner!Range(q) = Runner!Range(p) \cup {f}
      <4>1. f \in Runner!Range(q) BY <2>1, <3>2, <3>4, ListFacts
      <4>2. ASSUME NEW g \in Runner!Range(p) PROVE g \in Runner!Range(q)
        <5>1. PICK i \in 1 .. Len(p) : p[i] = g BY <4>2, ListFacts
        <5>2. i + 1 \in 1 .. Len(q) /\ q[i + 1] = g BY <2>1, <3>2, <5>1
        <5> QED BY <3>4, <5>2, ListFacts
      <4>3. ASSUME NEW g \in Runner!Range(q), g # f PROVE g \in Runner!Range(p)
        <5>1. PICK i \in 1 .. Len(q) : q[i] = g BY <3>4, <4>3, ListFacts
        <5>2. i - 1 \in 1 .. Len(p) /\ p[i - 1] = g BY <2>1, <3>2, <4>3, <5>1
        <5> QED BY <5>2, ListFacts
      <4> QED BY <4>1, <4>2, <4>3
    <3>6. Runner!AddPending(p, f) = q BY <1>2, <2>2 DEF Runner!AddPending, Runner!Enqueue, q
    <3> QED BY <3>4, <3>5, <3>6
  <2>3. CASE f \notin HighPriority BY <1>2, <2>3, AddLast DEF Runner!AddPending, Runner!Enqueue
  <2> QED BY <2>2, <2>3
<1> QED BY <1>1, <1>2

(* AddAll is a recursive function: it is the one that meets its equation.  *)
LEMMA Unfolds ==
  ASSUME NEW p, NEW list,
         NEW g, g = [i \in 0 .. Len(list) |-> IF i = 0 THEN p ELSE Runner!AddPending(g[i - 1], list[i])],
         \A h : h = [i \in 0 .. Len(list) |-> IF i = 0 THEN p ELSE Runner!AddPending(h[i - 1], list[i])] => h = g
  PROVE  Runner!AddAll(p, list) = g[Len(list)]
<1> DEFINE h == CHOOSE h : h = [i \in 0 .. Len(list) |-> IF i = 0 THEN p ELSE Runner!AddPending(h[i - 1], list[i])]
<1>1. h = [i \in 0 .. Len(list) |-> IF i = 0 THEN p ELSE Runner!AddPending(h[i - 1], list[i])]
  OBVIOUS
<1>2. h = g BY <1>1
<1>3. Runner!AddAll(p, list) = h[Len(list)] BY DEF Runner!AddAll
<1> QED BY <1>2, <1>3

(* All filters of a list become pending.                                   *)
LEMMA AddMany ==
  ASSUME NEW S, NEW p \in Lists(S), NEW list \in Seq(S)
  PROVE  /\ Runner!AddAll(p, list) \in Lists(S)
         /\ Runner!Range(Runner!AddAll(p, list)) = Runner!Range(p) \cup Runner!Range(list)
<1> DEFINE Good(n, g) ==
             /\ g = [i \in 0 .. n |-> IF i = 0 THEN p ELSE Runner!AddPending(g[i - 1], list[i])]
             /\ \A i \in 0 .. n : g[i] \in Lists(S) /\ Runner!Range(g[i]) = Runner!Range(p) \cup {list[j] : j \in 1 .. i}
           Bad == {n \in 0 .. Len(list) : \A g : ~Good(n, g)}
<1>1. Len(list) \in Nat /\ \A i \in 1 .. Len(list) : list[i] \in S BY LenProperties, ElementOfSeq
<1>2. Bad = {}
  <2> SUFFICES ASSUME Bad # {} PROVE FALSE OBVIOUS
  <2>1. Bad \subseteq Nat BY <1>1
  <2>2. PICK n \in Bad : \A y \in Bad : n <= y
    <3> HIDE DEF Bad
    <3> QED BY <2>1, Least
  <2>3. n \in 0 .. Len(list) /\ \A g : ~Good(n, g) OBVIOUS
  <2>4. CASE n = 0
    <3> DEFINE g == [i \in 0 .. 0 |-> p]
    <3>1. g = [i \in 0 .. n |-> IF i = 0 THEN p ELSE Runner!AddPending(g[i - 1], list[i])] BY <2>4
    <3>2. \A i \in 0 .. n : g[i] \in Lists(S) /\ Runner!Range(g[i]) = Runner!Range(p) \cup {list[j] : j \in 1 .. i} BY <2>4
    <3> QED BY <2>3, <3>1, <3>2
  <2>5. CASE n # 0
    <3>1. n - 1 \in 0 .. Len(list) /\ n - 1 \notin Bad /\ n \in 1 .. Len(list)
      <4>1. n \in Nat /\ n - 1 \in 0 .. Len(list) /\ n \in 1 .. Len(list) /\ ~(n <= n - 1) BY <1>1, <2>3, <2>5
      <4> HIDE DEF Bad
      <4> QED BY <2>2, <4>1
    <3>2. PICK g : Good(n - 1, g) BY <3>1
    <3>3. g[n - 1] \in Lists(S) /\ Runner!Range(g[n - 1]) = Runner!Range(p) \cup {list[j] : j \in 1 .. n - 1}
      <4>1. n - 1 \in 0 .. n - 1 BY <3>1
      <4> QED BY <3>2, <4>1
    <3> DEFINE last == Runner!AddPending(g[n - 1], list[n])
               h == [i \in 0 .. n |-> IF i = n THEN last ELSE g[i]]
    <3>4. last \in Lists(S) /\ Runner!Range(last) = Runner!Range(g[n - 1]) \cup {list[n]}
      <4>1. list[n] \in S BY <1>1, <3>1
      <4> QED BY <3>3, <4>1, AddOne
    <3>5. \A i \in 0 .. n - 1 : h[i] = g[i] BY <3>1
    <3>6. h[n] = last BY <3>1
    <3>7. ASSUME NEW i \in 0 .. n PROVE h[i] = IF i = 0 THEN p ELSE Runner!AddPending(h[i - 1], list[i])
      <4>1. CASE i = n BY <2>5, <3>1, <3>5, <3>6, <4>1
      <4>2. CASE i # n
        <5>1. i \in 0 .. n - 1 /\ h[i] = g[i] BY <3>1, <3>5, <4>2
        <5>2. g[i] = IF i = 0 THEN p ELSE Runner!AddPending(g[i - 1], list[i])
          <6> HIDE DEF h
          <6> QED BY <3>2, <5>1
        <5>3. i # 0 => h[i - 1] = g[i - 1] BY <3>1, <3>5, <5>1
        <5> QED BY <5>1, <5>2, <5>3
      <4> QED BY <4>1, <4>2
    <3>8. h = [i \in 0 .. n |-> IF i = 0 THEN p ELSE Runner!AddPending(h[i - 1], list[i])] BY <3>7
    <3>9. ASSUME NEW i \in 0 .. n
          PROVE  h[i] \in Lists(S) /\ Runner!Range(h[i]) = Runner!Range(p) \cup {list[j] : j \in 1 .. i}
      <4>1. CASE i = n
        <5>1. 1 .. n = (1 .. n - 1) \cup {n} BY <3>1
        <5>2. {list[j] : j \in 1 .. n} = {list[j] : j \in 1 .. n - 1} \cup {list[n]} BY <5>1
        <5> HIDE DEF h, last
        <5> QED BY <3>3, <3>4, <3>6, <4>1, <5>2
      <4>2. CASE i # n
        <5>1. i \in 0 .. n - 1 /\ h[i] = g[i] BY <3>1, <3>5, <4>2
        <5> HIDE DEF h
        <5> QED BY <3>2, <5>1
      <4> QED BY <4>1, <4>2
    <3>10. Good(n, h)
      <4> HIDE DEF h
      <4> QED BY <3>8, <3>9
    <3> QED BY <2>3, <3>10
  <2> QED BY <2>4, <2>5
<1>3. Len(list) \in 0 .. Len(list) BY <1>1
<1>4. PICK g : Good(Len(list), g) BY <1>2, <1>3
<1>5. ASSUME NEW h, h = [i \in 0 .. Len(list) |-> IF i = 0 THEN p ELSE Runner!AddPending(h[i - 1], list[i])]
      PROVE  h = g
  <2> DEFINE Differ == {i \in 0 .. Len(list) : h[i] # g[i]}
  <2>0. g = [i \in 0 .. Len(list) |-> IF i = 0 THEN p ELSE Runner!AddPending(g[i - 1], list[i])] BY <1>4
  <2>1. \A i \in 0 .. Len(list) : h[i] = IF i = 0 THEN p ELSE Runner!AddPending(h[i - 1], list[i]) BY <1>5
  <2>2. \A i \in 0 .. Len(list) : g[i] = IF i = 0 THEN p ELSE Runner!AddPending(g[i - 1], list[i]) BY <2>0
  <2>3. Differ = {}
    <3> SUFFICES ASSUME Differ # {} PROVE FALSE OBVIOUS
    <3>1. Differ \subseteq Nat BY <1>1
    <3>2. PICK n \in Differ : \A y \in Differ : n <= y
      <4> HIDE DEF Differ
      <4> QED BY <3>1, Least
    <3>3. n \in 0 .. Len(list) /\ h[n] # g[n] OBVIOUS
    <3>4. n # 0 BY <2>1, <2>2, <3>3
    <3>5. n - 1 \in 0 .. Len(list) /\ n - 1 \notin Differ BY <1>1, <3>2, <3>3, <3>4
    <3>6. h[n - 1] = g[n - 1] BY <3>5
    <3> QED BY <2>1, <2>2, <3>3, <3>4, <3>6
  <2>4. \A i \in 0 .. Len(list) : h[i] = g[i] BY <2>3
  <2>5. DOMAIN h = 0 .. Len(list) /\ DOMAIN g = 0 .. Len(list) BY <1>5, <2>0
  <2>6. h = [i \in 0 .. Len(list) |-> h[i]] /\ g = [i \in 0 .. Len(list) |-> g[i]] BY <1>5, <2>0, <2>5
  <2> QED BY <2>4, <2>6
<1>6. Runner!AddAll(p, list) = g[Len(list)]
  <2>1. g = [i \in 0 .. Len(list) |-> IF i = 0 THEN p ELSE Runner!AddPending(g[i - 1], list[i])] BY <1>4
  <2> QED BY <1>5, <2>1, Unfolds
<1>7. Runner!Range(list) = {list[j] : j \in 1 .. Len(list)} BY LenProperties DEF Runner!Range
<1> QED BY <1>3, <1>4, <1>6, <1>7

(* What is left of a list when its first or last filter is taken.          *)
LEMMA Takes ==
  ASSUME NEW S, NEW p \in Lists(S), p # <<>>
  PROVE  /\ Tail(p) \in Lists(S) /\ Runner!Range(Tail(p)) \subseteq Runner!Range(p)
         /\ Runner!Front(p) \in Lists(S) /\ Runner!Range(Runner!Front(p)) \subseteq Runner!Range(p)
<1>1. p \in Seq(S) /\ Len(p) \in Nat \ {0} BY ListFacts, EmptySeq
<1>2. /\ Tail(p) \in Seq(S) /\ Len(Tail(p)) = Len(p) - 1
      /\ \A i \in 1 .. Len(p) - 1 : Tail(p)[i] = p[i + 1]
  BY <1>1, HeadTailProperties
<1>3. /\ Runner!Front(p) \in Seq(S) /\ Len(Runner!Front(p)) = Len(p) - 1
      /\ \A i \in 1 .. Len(p) - 1 : Runner!Front(p)[i] = p[i]
  BY <1>1, FrontFacts, SameRunner
<1>4. ASSUME NEW q, NEW k \in {0, 1}, q \in Seq(S), Len(q) = Len(p) - 1,
             \A i \in 1 .. Len(p) - 1 : q[i] = p[i + k]
      PROVE  q \in Lists(S) /\ Runner!Range(q) \subseteq Runner!Range(p)
  <2>1. ASSUME NEW i \in 1 .. Len(q), NEW j \in 1 .. Len(q), q[i] = q[j] PROVE i = j
    <3>1. i + k \in 1 .. Len(p) /\ j + k \in 1 .. Len(p) /\ p[i + k] = p[j + k] BY <1>1, <1>4, <2>1
    <3>2. i + k = j + k BY <3>1, ListFacts
    <3> QED BY <1>1, <1>4, <3>2
  <2>2. q \in Lists(S) BY <1>4, <2>1, ListIntro
  <2>3. ASSUME NEW g \in Runner!Range(q) PROVE g \in Runner!Range(p)
    <3>1. PICK i \in 1 .. Len(q) : q[i] = g BY <2>2, ListFacts
    <3>2. i + k \in 1 .. Len(p) /\ p[i + k] = g BY <1>1, <1>4, <3>1
    <3> QED BY <3>2, ListFacts
  <2> QED BY <2>2, <2>3
<1>5. Tail(p) \in Lists(S) /\ Runner!Range(Tail(p)) \subseteq Runner!Range(p) BY <1>2, <1>4
<1>6. Runner!Front(p) \in Lists(S) /\ Runner!Range(Runner!Front(p)) \subseteq Runner!Range(p)
  <2>1. \A i \in 1 .. Len(p) - 1 : Runner!Front(p)[i] = p[i + 0] BY <1>1, <1>3
  <2> QED BY <1>3, <1>4, <2>1
<1> QED BY <1>5, <1>6

(* A filter that is destroyed is on no list.                               *)
LEMMA Removes ==
  ASSUME NEW S, NEW p \in Lists(S), NEW f
  PROVE  Runner!Removed(p, f) \in Lists(S \ {f}) /\ Runner!Range(Runner!Removed(p, f)) \subseteq Runner!Range(p)
<1>1. p \in Seq(S) /\ Len(p) \in Nat BY ListFacts
<1>2. CASE ~\E i \in 1 .. Len(p) : p[i] = f
  <2>1. Runner!Removed(p, f) = p BY <1>2 DEF Runner!Removed, Runner!RemoveFirst
  <2>2. \A i \in 1 .. Len(p) : p[i] \in S \ {f} BY <1>2, ListFacts
  <2>3. p \in Seq(S \ {f})
    <3>1. p = [i \in 1 .. Len(p) |-> p[i]] BY <1>1, LenProperties
    <3>2. p \in [1 .. Len(p) -> S \ {f}] BY <2>2, <3>1
    <3> QED BY <1>1, <3>2, SeqDef
  <2>4. p \in Lists(S \ {f}) BY <2>3, ListFacts, ListIntro
  <2> QED BY <2>1, <2>4
<1>3. CASE \E i \in 1 .. Len(p) : p[i] = f
  <2>1. PICK k \in 1 .. Len(p) : p[k] = f BY <1>3
  <2>2. {i \in 1 .. Len(p) : p[i] = f} = {k} BY <2>1, ListFacts
  <2>3. Runner!Min({k}) = k BY <2>1 DEF Runner!Min
  <2>4. Runner!Removed(p, f) = SubSeq(p, 1, k - 1) \o SubSeq(p, k + 1, Len(p))
    <3>1. Runner!SelectInSeq(p, LAMBDA v : v = f) = Runner!Min({i \in 1 .. Len(p) : p[i] = f}) BY <1>3 DEF Runner!SelectInSeq
    <3> QED BY <1>3, <2>2, <2>3, <3>1 DEF Runner!Removed, Runner!RemoveFirst, Runner!RemoveAt
  <2> DEFINE a == SubSeq(p, 1, k - 1)
             b == SubSeq(p, k + 1, Len(p))
  <2>5. /\ a \in Seq(S) /\ Len(a) = k - 1 /\ \A i \in 1 .. k - 1 : a[i] = p[i]
    BY <1>1, SubSeqProperties
  <2>6. /\ b \in Seq(S) /\ Len(b) = Len(p) - k /\ \A i \in 1 .. Len(p) - k : b[i] = p[k + i]
    BY <1>1, SubSeqProperties
  <2> HIDE DEF a, b
  <2>7. /\ a \o b \in Seq(S) /\ Len(a \o b) = Len(p) - 1
        /\ \A i \in 1 .. Len(p) - 1 : (a \o b)[i] = IF i < k THEN p[i] ELSE p[i + 1]
    <3>0. /\ a \o b \in Seq(S) /\ Len(a \o b) = Len(a) + Len(b)
          /\ \A i \in 1 .. Len(a) + Len(b) : (a \o b)[i] = IF i <= Len(a) THEN a[i] ELSE b[i - Len(a)]
      BY <2>5, <2>6, ConcatProperties
    <3>1. a \o b \in Seq(S) /\ Len(a \o b) = Len(p) - 1
      <4>1. (k - 1) + (Len(p) - k) = Len(p) - 1 BY <1>1
      <4> QED BY <2>5, <2>6, <3>0, <4>1
    <3>2. ASSUME NEW i \in 1 .. Len(p) - 1 PROVE (a \o b)[i] = IF i < k THEN p[i] ELSE p[i + 1]
      <4>1. (a \o b)[i] = IF i <= Len(a) THEN a[i] ELSE b[i - Len(a)] 
        <5>1. Len(a) + Len(b) = Len(p) - 1 BY <1>1, <2>5, <2>6
        <5> QED BY <3>0, <5>1
      <4>2. CASE i < k BY <2>5, <4>1, <4>2
      <4>3. CASE ~(i < k)
        <5>1. i - (k - 1) \in 1 .. Len(p) - k /\ k + (i - (k - 1)) = i + 1 BY <1>1, <4>3
        <5>2. b[i - (k - 1)] = p[i + 1] BY <2>6, <5>1
        <5> QED BY <1>1, <2>5, <4>1, <4>3, <5>2
      <4> QED BY <4>2, <4>3
    <3> QED BY <3>1, <3>2
  <2> DEFINE q == a \o b
             from(i) == IF i < k THEN i ELSE i + 1
  <2> HIDE DEF q
  <2>8. \A i \in 1 .. Len(q) : from(i) \in 1 .. Len(p) /\ from(i) # k /\ q[i] = p[from(i)] BY <1>1, <2>7 DEF q
  <2>9. \A i \in 1 .. Len(q) : q[i] \in S \ {f}
    <3> SUFFICES ASSUME NEW i \in 1 .. Len(q) PROVE q[i] \in S \ {f} OBVIOUS
    <3>1. from(i) \in 1 .. Len(p) /\ from(i) # k /\ q[i] = p[from(i)] BY <2>8
    <3> HIDE DEF from
    <3> QED BY <2>1, <3>1, ListFacts
  <2>10. q \in Seq(S \ {f})
    <3>1. q \in Seq(S) /\ Len(q) \in Nat BY <1>1, <2>7 DEF q
    <3>2. q = [i \in 1 .. Len(q) |-> q[i]] BY <3>1, LenProperties
    <3>3. q \in [1 .. Len(q) -> S \ {f}] BY <2>9, <3>2
    <3> QED BY <3>1, <3>3, SeqDef
  <2>11. ASSUME NEW i \in 1 .. Len(q), NEW j \in 1 .. Len(q), q[i] = q[j] PROVE i = j
    <3>1. from(i) = from(j)
      <4>1. from(i) \in 1 .. Len(p) /\ from(j) \in 1 .. Len(p) /\ p[from(i)] = p[from(j)] BY <2>8, <2>11
      <4> HIDE DEF from
      <4> QED BY <4>1, ListFacts
    <3>2. i \in Nat /\ j \in Nat BY <1>1, <2>7 DEF q
    <3> QED BY <3>1, <3>2
  <2>12. q \in Lists(S \ {f}) BY <2>10, <2>11, ListIntro
  <2>13. ASSUME NEW g \in Runner!Range(q) PROVE g \in Runner!Range(p)
    <3>1. PICK i \in 1 .. Len(q) : q[i] = g BY <2>12, ListFacts
    <3>2. from(i) \in 1 .. Len(p) /\ p[from(i)] = g BY <2>8, <3>1
    <3> HIDE DEF from
    <3> QED BY <3>2, ListFacts
  <2> QED BY <2>4, <2>12, <2>13 DEF q, a, b
<1> QED BY <1>2, <1>3

-----------------------------------------------------------------------------
(* Filter runner: the invariant.                                           *)

(* The root is never destroyed, and is never woken up by other threads.    *)
(* A change that is not hidden has been reported, will be when the run     *)
(* ends, or is of a pin that the user still polls before it sleeps.        *)
(* As long as nothing is interrupted a run ends with an empty list: when   *)
(* the root is pending, the run has been told to report a change, unless   *)
(* the change was the one that recursive filtering asked for.              *)
RootKept == Root \in alive /\ Root \notin Runner!Range(async_pending)
ToldOrPolls ==
  \A x \in unseen \ hidden : woken \/ external_pending \/ (pc # "sleep" /\ x \notin polled)
RunKept ==
  /\ pc = "sleep" => ~external_pending
  /\ pc \in {"start", "check", "step"} /\ recursive = NoPin => polled = Pins
  /\ ToldOrPolls
  /\ interrupts = 0 =>
       /\ ~interrupt_flag /\ (pc \in {"check", "step"} => ~exit_req)
       /\ Root \in Runner!Range(pending) => pc \in {"check", "step"} /\ (recursive = NoPin => external_pending)

RunnerInv == Runner!TypeOK /\ RootKept /\ RunKept

LEMMA TypedLists ==
  ASSUME Runner!TypeOK PROVE pending \in Lists(alive) /\ async_pending \in Lists(alive)
BY DEF Runner!TypeOK, Lists

LEMMA ListsGrow == ASSUME NEW S, NEW T, S \subseteq T, NEW p \in Lists(S) PROVE p \in Lists(T)
<1>1. p \in Seq(S) /\ Len(p) \in Nat /\ \A i \in 1 .. Len(p) : p[i] \in T BY ListFacts
<1>2. p = [i \in 1 .. Len(p) |-> p[i]] BY <1>1, LenProperties
<1>3. p \in [1 .. Len(p) -> T] BY <1>1, <1>2
<1>4. p \in Seq(T) BY <1>1, <1>3, SeqDef
<1> QED BY <1>4 DEF Lists

(* The list after a flush.                                                 *)
LEMMA FlushedList ==
  ASSUME Runner!TypeOK
  PROVE  Runner!Flushed(pending) \in Lists(alive) /\ Runner!Range(Runner!Flushed(pending)) = Runner!Range(pending) \cup Runner!Range(async_pending)
<1>1. async_pending \in Seq(alive) BY DEF Runner!TypeOK
<1> QED BY <1>1, TypedLists, AddMany DEF Runner!Flushed

LEMMA EmptyList == \A S : <<>> \in Lists(S) /\ Runner!Range(<<>>) = {}
<1>1. Len(<<>>) = 0 /\ \A S : <<>> \in Seq(S) OBVIOUS
<1>2. DOMAIN <<>> = {} OBVIOUS
<1> QED BY <1>1, <1>2 DEF Lists, Runner!IsInjective, Runner!Range

LEMMA ReadyList ==
  ASSUME Runner!TypeOK
  PROVE  /\ Runner!Ready \in Lists(alive)
         /\ Runner!Range(pending) \subseteq Runner!Range(Runner!Ready)
         /\ Runner!Range(Runner!Ready) \subseteq Runner!Range(pending) \cup Runner!Range(async_pending)
BY TypedLists, FlushedList DEF Runner!Ready

(* The parts of the type that a step changes.                              *)
LEMMA TypeParts ==
  ASSUME pending \in Lists(alive), async_pending \in Lists(alive),
         async_wakeup_sent \in BOOLEAN, interrupt_flag \in BOOLEAN, external_pending \in BOOLEAN,
         exit_req \in BOOLEAN, woken \in BOOLEAN,
         recursive \in Pins \cup {NoPin}, pc \in {"sleep", "poll", "start", "check", "step"},
         polled \subseteq Pins, unseen \subseteq Pins, hidden \subseteq Pins, turn \in [Pins -> {"user", "graph"}],
         alive \subseteq Runner!All, due \subseteq Runner!All,
         changes \in 0 .. MaxChanges, wakeups \in 0 .. MaxWakeups, interrupts \in 0 .. MaxInterrupts
  PROVE  Runner!TypeOK
BY DEF Runner!TypeOK, Lists

LEMMA PartsTyped ==
  ASSUME Runner!TypeOK
  PROVE  /\ pending \in Lists(alive) /\ async_pending \in Lists(alive)
         /\ async_wakeup_sent \in BOOLEAN /\ interrupt_flag \in BOOLEAN /\ external_pending \in BOOLEAN
         /\ exit_req \in BOOLEAN /\ woken \in BOOLEAN
         /\ recursive \in Pins \cup {NoPin} /\ pc \in {"sleep", "poll", "start", "check", "step"}
         /\ polled \subseteq Pins /\ unseen \subseteq Pins /\ hidden \subseteq Pins /\ turn \in [Pins -> {"user", "graph"}]
         /\ alive \subseteq Runner!All /\ due \subseteq Runner!All
         /\ changes \in 0 .. MaxChanges /\ wakeups \in 0 .. MaxWakeups /\ interrupts \in 0 .. MaxInterrupts
BY TypedLists DEF Runner!TypeOK

USE DEF Runner!Flush, Runner!SentOff, Runner!async, Runner!run, Runner!user, Runner!seen, Runner!counters
-----------------------------------------------------------------------------
(* Filter runner: the steps.                                               *)

LEMMA RunnerInit == ASSUME Runner!FilterRunnerAssumption, Runner!Init PROVE RunnerInv
<1>1. Runner!TypeOK
  <2>1. pending \in Lists(alive) /\ async_pending \in Lists(alive) BY EmptyList DEF Runner!Init
  <2>2. /\ async_wakeup_sent \in BOOLEAN /\ interrupt_flag \in BOOLEAN /\ external_pending \in BOOLEAN
        /\ exit_req \in BOOLEAN /\ woken \in BOOLEAN
        /\ recursive \in Pins \cup {NoPin} /\ pc \in {"sleep", "poll", "start", "check", "step"}
        /\ polled \subseteq Pins /\ unseen \subseteq Pins /\ hidden \subseteq Pins /\ turn \in [Pins -> {"user", "graph"}]
        /\ alive \subseteq Runner!All /\ due \subseteq Runner!All
    BY DEF Runner!Init
  <2>3. changes \in 0 .. MaxChanges /\ wakeups \in 0 .. MaxWakeups /\ interrupts \in 0 .. MaxInterrupts
    BY DEF Runner!Init, Runner!FilterRunnerAssumption
  <2> QED BY <2>1, <2>2, <2>3, TypeParts
<1>2. RootKept /\ RunKept BY EmptyList DEF Runner!Init, RootKept, RunKept, ToldOrPolls, Runner!All
<1> QED BY <1>1, <1>2 DEF RunnerInv

(* Other threads put a filter on the list for them, and interrupt.         *)
LEMMA OthersStep ==
  ASSUME Runner!FilterRunnerAssumption, RunnerInv,
         Runner!Interrupt \/ \E f \in Filters : Runner!Wakeup(f) \/ Runner!MarkAsyncProgress(f)
  PROVE  RunnerInv'
<1>1. CASE Runner!Interrupt
  <2>1. interrupts' = interrupts + 1 /\ interrupts' \in 0 .. MaxInterrupts /\ interrupts' # 0
    BY <1>1 DEF Runner!Interrupt, RunnerInv, Runner!TypeOK, Runner!FilterRunnerAssumption
  <2>2. Runner!TypeOK' BY <1>1, <2>1 DEF Runner!Interrupt, RunnerInv, Runner!TypeOK
  <2> QED BY <1>1, <2>1, <2>2 DEF Runner!Interrupt, RunnerInv, RootKept, RunKept, ToldOrPolls
<1>2. ASSUME NEW f \in Filters, Runner!Wakeup(f) \/ Runner!MarkAsyncProgress(f) PROVE RunnerInv'
  <2>1. /\ f \in alive /\ f # Root /\ Runner!AddAsync(f) /\ wakeups' = wakeups + 1 /\ wakeups < MaxWakeups
        /\ async_wakeup_sent' \in BOOLEAN /\ woken' \in BOOLEAN /\ (woken => woken') /\ due' \subseteq Runner!All
        /\ UNCHANGED <<interrupt_flag, Runner!run, Runner!user, alive, changes, interrupts>>
    <3>1. /\ f # Root /\ f \in Runner!All /\ async_wakeup_sent \in BOOLEAN /\ woken \in BOOLEAN
          /\ due \subseteq Runner!All
      BY PartsTyped DEF Runner!FilterRunnerAssumption, RunnerInv, Runner!All
    <3>2. CASE Runner!Wakeup(f) BY <3>1, <3>2 DEF Runner!Wakeup
    <3>3. CASE Runner!MarkAsyncProgress(f) BY <3>1, <3>3 DEF Runner!MarkAsyncProgress
    <3> QED BY <1>2, <3>2, <3>3
  <2>2. async_pending' \in Lists(alive) /\ Runner!Range(async_pending') = Runner!Range(async_pending) \cup {f}
    <3>1. async_pending \in Lists(alive) BY TypedLists DEF RunnerInv
    <3>2. async_pending' = IF f \in Runner!Range(async_pending) THEN async_pending ELSE Append(async_pending, f)
      BY <2>1 DEF Runner!AddAsync
    <3> QED BY <2>1, <3>1, <3>2, AddLast
  <2>3. wakeups' \in 0 .. MaxWakeups BY <2>1, PartsTyped DEF RunnerInv, Runner!FilterRunnerAssumption
  <2>4. Runner!TypeOK'
    <3>1. Runner!TypeOK BY DEF RunnerInv
    <3> QED BY <2>1, <2>2, <2>3, <3>1 DEF Runner!TypeOK, Lists
  <2>5. RootKept' BY <2>1, <2>2 DEF RunnerInv, RootKept
  <2>6. RunKept' BY <2>1 DEF RunnerInv, RunKept, ToldOrPolls
  <2> QED BY <2>4, <2>5, <2>6 DEF RunnerInv
<1> QED BY <1>1, <1>2

(* A run starts, and an iteration begins.                                  *)
LEMMA StartStep ==
  ASSUME Runner!FilterRunnerAssumption, RunnerInv, Runner!Start \/ Runner!Check PROVE RunnerInv'
<1>1. CASE Runner!Start
  <2>1. /\ pc = "start" /\ pending' = Runner!Flushed(pending) /\ async_pending' = <<>> /\ async_wakeup_sent' = FALSE
        /\ exit_req' = FALSE /\ pc' = "check"
        /\ UNCHANGED <<interrupt_flag, external_pending, recursive, polled, turn, unseen, hidden, woken, alive, due,
                       changes, wakeups, interrupts>>
    BY <1>1 DEF Runner!Start
  <2>2. pending' \in Lists(alive) /\ async_pending' \in Lists(alive) /\ Runner!Range(async_pending') = {}
        /\ Runner!Range(pending') = Runner!Range(pending) \cup Runner!Range(async_pending)
    BY <2>1, FlushedList, EmptyList DEF RunnerInv
  <2>3. Runner!TypeOK'
    <3>1. Runner!TypeOK BY DEF RunnerInv
    <3> QED BY <2>1, <2>2, <3>1 DEF Runner!TypeOK, Lists
  <2>4. RootKept' BY <2>1, <2>2 DEF RunnerInv, RootKept
  <2>5. RunKept' BY <2>1, <2>2 DEF RunnerInv, RunKept, ToldOrPolls, RootKept
  <2> QED BY <2>3, <2>4, <2>5 DEF RunnerInv
<1>2. CASE Runner!Check
  <2>1. /\ pc = "check" /\ interrupt_flag' = FALSE /\ woken' = (woken \/ Runner!CallsBack)
        /\ async_wakeup_sent' = (async_wakeup_sent \/ interrupt_flag)
        /\ exit_req' = (exit_req \/ interrupt_flag) /\ pc' = "step"
        /\ UNCHANGED <<async_pending, pending, external_pending, recursive, polled, turn, unseen, hidden, alive, due,
                       changes, wakeups, interrupts>>
    BY <1>2 DEF Runner!Check
  <2>2. Runner!TypeOK'
    <3>1. Runner!TypeOK BY DEF RunnerInv
    <3>2. woken' \in BOOLEAN /\ async_wakeup_sent' \in BOOLEAN /\ exit_req' \in BOOLEAN BY <2>1
    <3> QED BY <2>1, <3>1, <3>2 DEF Runner!TypeOK
  <2>3. RootKept' BY <2>1 DEF RunnerInv, RootKept
  <2>4. RunKept' BY <2>1 DEF RunnerInv, RunKept, ToldOrPolls
  <2> QED BY <2>2, <2>3, <2>4 DEF RunnerInv
<1> QED BY <1>1, <1>2

(* What is left of the list when a filter is processed.                    *)
LEMMA OthersList ==
  ASSUME RunnerInv, Runner!Continues(Runner!Ready)
  PROVE  /\ Runner!Others(Runner!Ready) \in Lists(alive) /\ Runner!Range(Runner!Others(Runner!Ready)) \subseteq Runner!Range(Runner!Ready)
         /\ (Root \in Runner!Range(Runner!Others(Runner!Ready)) => Root \in Runner!Range(pending))
<1>1. Runner!TypeOK /\ Root \notin Runner!Range(async_pending) BY DEF RunnerInv, RootKept
<1>2. Runner!Ready \in Lists(alive) /\ Runner!Ready # <<>> BY <1>1, ReadyList DEF Runner!Continues
<1>3. Runner!Others(Runner!Ready) \in Lists(alive) /\ Runner!Range(Runner!Others(Runner!Ready)) \subseteq Runner!Range(Runner!Ready) BY <1>2, Takes DEF Runner!Others
<1> QED BY <1>1, <1>3, ReadyList

(* A filter is processed, and changes pins.                                *)
LEMMA ProcessStep ==
  ASSUME Runner!FilterRunnerAssumption, RunnerInv, Runner!Process PROVE RunnerInv'
<1>1. Runner!TypeOK BY DEF RunnerInv
<1>2. /\ pc = "step" /\ Runner!Continues(Runner!Ready) /\ pc' = "check"
      /\ async_pending' = async_pending \/ async_pending' = <<>>
      /\ async_wakeup_sent' = async_wakeup_sent \/ async_wakeup_sent' = FALSE
      /\ UNCHANGED <<interrupt_flag, recursive, exit_req, polled, woken, alive, wakeups, interrupts>>
  BY DEF Runner!Process
<1> DEFINE f == Runner!Next1(Runner!Ready)
<1>3. PICK does \in Runner!SeqOf(Runner!Changeable(f), 2) :
        /\ Runner!IsInjective(does) /\ changes + Len(does) <= MaxChanges
        /\ changes' = changes + Len(does)
        /\ pending' = Runner!Effect(Runner!Others(Runner!Ready), does)
        /\ external_pending' = (external_pending \/ Runner!Told(Runner!Others(Runner!Ready), does))
        /\ turn' = [x \in Pins |-> IF x \in Runner!Range(does) \cap Pins THEN "user" ELSE turn[x]]
        /\ unseen' = unseen \cup ((Runner!Range(does) \cap Pins) \ {recursive})
        /\ hidden' = IF external_pending' THEN hidden
                     ELSE hidden \cup Runner!Hidden(Runner!Others(Runner!Ready), does)
        /\ due' = (due \ {f}) \cup (Runner!Range(does) \ Pins)
  BY DEF Runner!Process
<1>4. PICK n \in 0 .. 2 : does \in [1 .. n -> Runner!Changeable(f)] BY DEF Runner!SeqOf
<1>5. does \in Seq(Runner!Changeable(f)) /\ Len(does) \in Nat /\ DOMAIN does = 1 .. Len(does)
  <2>1. n \in Nat OBVIOUS
  <2>2. does \in Seq(Runner!Changeable(f)) BY <1>4, <2>1, SeqDef
  <2> QED BY <2>2, LenProperties
<1>6. \A x \in Runner!Changeable(f) : x \in Pins \/ (x \in alive /\ x # Root) BY DEF Runner!Changeable
<1>7. Runner!Range(does) \subseteq Runner!Changeable(f)
  <2>1. \A i \in 1 .. Len(does) : does[i] \in Runner!Changeable(f) BY <1>5, ElementOfSeq
  <2> QED BY <1>5, <2>1 DEF Runner!Range
<1> HIDE DEF f
<1> DEFINE list == [i \in DOMAIN does |-> Runner!Responsible(does[i])]
<1>8. list \in Seq(alive) /\ Runner!Range(list) = {Runner!Responsible(does[i]) : i \in 1 .. Len(does)}
  <2>1. \A i \in 1 .. Len(does) : Runner!Responsible(does[i]) \in alive
    <3>1. \A i \in 1 .. Len(does) : does[i] \in Runner!Changeable(f) BY <1>5, ElementOfSeq
    <3> QED BY <1>6, <3>1 DEF Runner!Responsible, RunnerInv, RootKept
  <2>2. list \in [1 .. Len(does) -> alive] BY <1>5, <2>1
  <2>3. list \in Seq(alive) BY <1>5, <2>2, SeqDef
  <2>4. DOMAIN list = 1 .. Len(does) BY <1>5
  <2> QED BY <2>3, <2>4 DEF Runner!Range
<1> HIDE DEF list
<1>9. Runner!Others(Runner!Ready) \in Lists(alive) /\ (Root \in Runner!Range(Runner!Others(Runner!Ready)) => Root \in Runner!Range(pending))
  BY <1>2, OthersList
<1>10. pending' \in Lists(alive) /\ Runner!Range(pending') = Runner!Range(Runner!Others(Runner!Ready)) \cup Runner!Range(list)
  <2>1. pending' = Runner!AddAll(Runner!Others(Runner!Ready), list) BY <1>3 DEF Runner!Effect, list
  <2> QED BY <1>8, <1>9, <2>1, AddMany
<1>11. async_pending' \in Lists(alive) /\ Runner!Range(async_pending') \subseteq Runner!Range(async_pending)
  BY <1>1, <1>2, TypedLists, EmptyList
<1>12. Runner!TypeOK'
  <2>1. changes' \in 0 .. MaxChanges BY <1>1, <1>3, <1>5 DEF Runner!TypeOK, Runner!FilterRunnerAssumption
  <2>2. due' \subseteq Runner!All
    <3>1. due \subseteq Runner!All /\ alive \subseteq Runner!All BY <1>1, PartsTyped
    <3> QED BY <1>3, <1>6, <1>7, <3>1
  <2>3. external_pending' \in BOOLEAN
    <3>1. external_pending \in BOOLEAN BY <1>1, PartsTyped
    <3> QED BY <1>3, <3>1 DEF Runner!Told
  <2>4. turn' \in [Pins -> {"user", "graph"}] /\ unseen' \subseteq Pins BY <1>1, <1>3, PartsTyped
  <2>5. hidden' \subseteq Pins BY <1>1, <1>3, PartsTyped DEF Runner!Hidden
  <2> QED BY <1>1, <1>2, <1>10, <1>11, <2>1, <2>2, <2>3, <2>4, <2>5 DEF Runner!TypeOK, Lists
<1>13. RootKept' BY <1>2, <1>11 DEF RunnerInv, RootKept
(* The first pin that changes tells the user, if the root is not pending.  *)
<1>14. ASSUME NEW i \in 1 .. Len(does), does[i] \in Pins, does[i] # recursive,
              Root \notin Runner!Range(Runner!Others(Runner!Ready)),
              \A j \in 1 .. i - 1 : does[j] \notin Pins
       PROVE  external_pending'
  <2>1. Runner!Tells(Runner!Others(Runner!Ready), does[i]) BY <1>14 DEF Runner!Tells
  <2>2. Runner!Told(Runner!Others(Runner!Ready), does) BY <1>5, <1>14, <2>1 DEF Runner!Told
  <2> QED BY <1>3, <2>2
<1>15. ToldOrPolls'
  <2> SUFFICES ASSUME NEW x \in unseen', x \notin hidden', ~external_pending' PROVE woken \/ x \notin polled
    BY <1>2 DEF ToldOrPolls
  <2>1. x \notin hidden /\ x \notin Runner!Hidden(Runner!Others(Runner!Ready), does) /\ ~external_pending BY <1>3
  <2>2. CASE x \in unseen BY <2>1, <2>2 DEF RunnerInv, RunKept, ToldOrPolls
  <2>3. CASE x \notin unseen
    <3>1. x \in Runner!Range(does) /\ x \in Pins /\ x # recursive BY <1>3, <2>3
    <3>2. PICK k \in 1 .. Len(does) : does[k] = x BY <1>5, <3>1 DEF Runner!Range
    <3>3. /\ Root \notin Runner!Range(Runner!Others(Runner!Ready))
          /\ ~\E i, j \in DOMAIN does : i < j /\ does[i] \in Pins /\ does[j] = x
      BY <2>1, <3>1 DEF Runner!Hidden
    <3>4. \A j \in 1 .. k - 1 : does[j] \notin Pins BY <1>5, <3>2, <3>3
    <3> QED BY <1>14, <3>1, <3>2, <3>3, <3>4
  <2> QED BY <2>2, <2>3
<1>16. ASSUME interrupts = 0, recursive = NoPin, Root \in Runner!Range(pending') PROVE external_pending'
  <2>1. CASE Root \in Runner!Range(Runner!Others(Runner!Ready))
    BY <1>3, <1>9, <1>16, <2>1 DEF RunnerInv, RunKept
  <2>2. CASE Root \notin Runner!Range(Runner!Others(Runner!Ready))
    <3>1. PICK i \in 1 .. Len(does) : Runner!Responsible(does[i]) = Root BY <1>8, <1>10, <1>16, <2>2
    <3>2. does[i] \in Runner!Changeable(f) BY <1>5, ElementOfSeq
    <3>3. does[i] \in Pins BY <1>6, <3>1, <3>2 DEF Runner!Responsible
    <3>4. Len(does) <= 2
      <4>1. n \in Nat /\ n <= 2 /\ DOMAIN does = 1 .. n BY <1>4
      <4>2. Len(does) \in 1 .. n \/ Len(does) = 0 BY <1>5, <4>1
      <4> QED BY <4>1, <4>2
    <3>5. PICK k \in 1 .. Len(does) : does[k] \in Pins /\ \A j \in 1 .. k - 1 : does[j] \notin Pins
      <4>1. CASE does[1] \in Pins
        <5>1. 1 \in 1 .. Len(does) /\ \A j \in 1 .. 1 - 1 : FALSE BY <1>5
        <5> QED BY <4>1, <5>1
      <4>2. CASE does[1] \notin Pins
        <5>1. i = 2 BY <1>5, <3>3, <3>4, <4>2
        <5>2. \A j \in 1 .. 2 - 1 : j = 1 OBVIOUS
        <5> QED BY <3>3, <4>2, <5>1, <5>2
      <4> QED BY <4>1, <4>2
    <3>6. does[k] # recursive BY <1>16, <3>5 DEF Runner!FilterRunnerAssumption
    <3> QED BY <1>14, <2>2, <3>5, <3>6
  <2> QED BY <2>1, <2>2
<1>17. RunKept'
  <2>1. interrupts = 0 => ~interrupt_flag /\ ~exit_req BY <1>2 DEF RunnerInv, RunKept
  <2>2. recursive = NoPin => polled = Pins BY <1>2 DEF RunnerInv, RunKept
  <2> QED BY <1>2, <1>15, <1>16, <2>1, <2>2 DEF RunKept
<1> QED BY <1>12, <1>13, <1>17 DEF RunnerInv

(* A run ends: if nothing is interrupted, with an empty list.              *)
LEMMA ReturnStep ==
  ASSUME Runner!FilterRunnerAssumption, RunnerInv, Runner!Return PROVE RunnerInv'
<1>1. Runner!TypeOK BY DEF RunnerInv
<1>2. /\ pc = "step" /\ ~Runner!Continues(Runner!Ready) /\ pending' = Runner!Ready /\ recursive' = NoPin
      /\ async_pending' = async_pending \/ async_pending' = <<>>
      /\ async_wakeup_sent' = async_wakeup_sent \/ async_wakeup_sent' = FALSE
      /\ UNCHANGED <<interrupt_flag, exit_req, polled, turn, unseen, hidden, alive, due, changes, wakeups, interrupts>>
  BY DEF Runner!Return
<1>3. \/ recursive = NoPin /\ pc' = "sleep" /\ external_pending' = FALSE /\ woken' = (woken \/ external_pending)
      \/ recursive # NoPin /\ pc' = "poll" /\ external_pending' = external_pending /\ UNCHANGED woken
  <2>1. external_pending \in BOOLEAN BY <1>1, PartsTyped
  <2>2. CASE recursive = NoPin BY <2>2 DEF Runner!Return, Runner!PassedOn
  <2>3. CASE recursive # NoPin BY <2>1, <2>3 DEF Runner!Return, Runner!PassedOn
  <2> QED BY <2>2, <2>3
<1>4. pending' \in Lists(alive) /\ async_pending' \in Lists(alive)
      /\ Runner!Range(async_pending') \subseteq Runner!Range(async_pending)
  BY <1>1, <1>2, ReadyList, TypedLists, EmptyList
<1>5. Runner!TypeOK'
  <2>1. external_pending' \in BOOLEAN /\ woken' \in BOOLEAN BY <1>1, <1>3, PartsTyped
  <2> QED BY <1>1, <1>2, <1>3, <1>4, <2>1 DEF Runner!TypeOK, Lists
<1>6. RootKept' BY <1>2, <1>4 DEF RunnerInv, RootKept
<1>7. interrupts = 0 => Runner!Ready = <<>> BY <1>2 DEF RunnerInv, RunKept, Runner!Continues, Runner!TakesNormal
<1>8. ToldOrPolls'
  <2> SUFFICES ASSUME NEW x \in unseen, x \notin hidden
               PROVE  woken' \/ external_pending' \/ (pc' # "sleep" /\ x \notin polled)
    BY <1>2 DEF ToldOrPolls
  <2>1. woken \/ external_pending \/ x \notin polled BY DEF RunnerInv, RunKept, ToldOrPolls
  <2>2. x \in Pins BY <1>1, PartsTyped
  <2>3. recursive = NoPin => polled = Pins BY <1>2 DEF RunnerInv, RunKept
  <2>4. CASE recursive = NoPin
    <3>1. woken' = (woken \/ external_pending) BY <1>3, <2>4
    <3> QED BY <2>1, <2>2, <2>3, <2>4, <3>1
  <2>5. CASE recursive # NoPin BY <1>3, <2>1, <2>5
  <2> QED BY <2>4, <2>5
<1>9. RunKept'
  <2>1. interrupts = 0 => ~interrupt_flag' /\ Root \notin Runner!Range(pending')
    BY <1>2, <1>7, EmptyList DEF RunnerInv, RunKept
  <2>2. pc' \in {"sleep", "poll"} /\ (pc' = "sleep" => ~external_pending') BY <1>3
  <2> QED BY <1>2, <1>8, <2>1, <2>2 DEF RunKept
<1> QED BY <1>5, <1>6, <1>9 DEF RunnerInv

(* The user polls and runs the graph.                                      *)
LEMMA UserStep ==
  ASSUME Runner!FilterRunnerAssumption, RunnerInv, Runner!User PROVE RunnerInv'
<1>1. Runner!TypeOK BY DEF RunnerInv
<1>2. CASE Runner!Awake
  <2>1. Runner!TypeOK' BY <1>1, <1>2 DEF Runner!Awake, Runner!TypeOK
  <2>2. RootKept' /\ RunKept' BY <1>2 DEF Runner!Awake, RunnerInv, RootKept, RunKept, ToldOrPolls
  <2> QED BY <2>1, <2>2 DEF RunnerInv
<1>3. CASE Runner!GraphRun
  <2>1. Runner!TypeOK' BY <1>1, <1>3 DEF Runner!GraphRun, Runner!TypeOK
  <2>2. RootKept' /\ RunKept' BY <1>1, <1>3, PartsTyped DEF Runner!GraphRun, RunnerInv, RootKept, RunKept, ToldOrPolls
  <2> QED BY <2>1, <2>2 DEF RunnerInv
<1>4. ASSUME NEW x \in Pins, Runner!Poll(x) PROVE RunnerInv'
  <2>1. Runner!TypeOK' BY <1>1, <1>4 DEF Runner!Poll, Runner!TypeOK
  <2>2. RootKept' /\ RunKept' BY <1>4 DEF Runner!Poll, RunnerInv, RootKept, RunKept, ToldOrPolls
  <2> QED BY <2>1, <2>2 DEF RunnerInv
<1> QED BY <1>2, <1>3, <1>4 DEF Runner!User

(* The user accesses a pin: what it asked for it will see.                 *)
LEMMA AccessStep ==
  ASSUME Runner!FilterRunnerAssumption, RunnerInv, NEW x \in Pins, Runner!Access(x) PROVE RunnerInv'
<1>1. Runner!TypeOK BY DEF RunnerInv
<1>2. /\ pc = "poll" /\ x \in polled /\ Peer[x] \in alive /\ changes < MaxChanges /\ changes' = changes + 1
      /\ turn' = [turn EXCEPT ![x] = "graph"] /\ pending' = Runner!AddPending(pending, Peer[x])
      /\ due' = due \cup {Peer[x]} /\ recursive' = x /\ pc' = "start"
      /\ UNCHANGED <<async_pending, async_wakeup_sent, interrupt_flag, external_pending, exit_req, polled, unseen, hidden,
                     woken, alive, wakeups, interrupts>>
  BY DEF Runner!Access
<1>3. Peer[x] \in Filters /\ Peer[x] # Root BY DEF Runner!FilterRunnerAssumption
<1>4. pending' \in Lists(alive) /\ Runner!Range(pending') = Runner!Range(pending) \cup {Peer[x]}
  BY <1>1, <1>2, TypedLists, AddOne
<1>5. Runner!TypeOK'
  <2>1. changes' \in 0 .. MaxChanges BY <1>1, <1>2, PartsTyped DEF Runner!FilterRunnerAssumption
  <2>2. due' \subseteq Runner!All BY <1>1, <1>2, <1>3, PartsTyped DEF Runner!All
  <2>3. turn' \in [Pins -> {"user", "graph"}] BY <1>1, <1>2, PartsTyped
  <2> QED BY <1>1, <1>2, <1>4, <2>1, <2>2, <2>3 DEF Runner!TypeOK, Lists
<1>6. RootKept' BY <1>2 DEF RunnerInv, RootKept
<1>7. RunKept'
  <2>1. recursive' # NoPin BY <1>2 DEF Runner!FilterRunnerAssumption
  <2> QED BY <1>2, <1>3, <1>4, <2>1 DEF RunnerInv, RunKept, ToldOrPolls
<1> QED BY <1>5, <1>6, <1>7 DEF RunnerInv

(* A filter is destroyed.                                                  *)
LEMMA DestroyStep ==
  ASSUME Runner!FilterRunnerAssumption, RunnerInv, NEW f \in Filters, Runner!Destroy(f) PROVE RunnerInv'
<1>1. Runner!TypeOK BY DEF RunnerInv
<1>2. /\ pc = "poll" /\ f # Root /\ alive' = alive \ {f} /\ pending' = Runner!Removed(Runner!Flushed(pending), f)
      /\ async_pending' = <<>> /\ async_wakeup_sent' = FALSE
      /\ due' = due \ {f} /\ unseen' = {x \in unseen : Peer[x] # f}
      /\ hidden' = {x \in hidden : Peer[x] # f}
      /\ UNCHANGED <<interrupt_flag, external_pending, recursive, exit_req, pc, polled, woken, turn,
                     changes, wakeups, interrupts>>
  BY DEF Runner!Destroy
<1>3. /\ pending' \in Lists(alive') /\ Runner!Range(pending') \subseteq Runner!Range(pending) \cup Runner!Range(async_pending)
      /\ async_pending' \in Lists(alive') /\ Runner!Range(async_pending') = {}
  BY <1>1, <1>2, FlushedList, Removes, EmptyList
<1>4. Runner!TypeOK'
  <2>1. alive' \subseteq Runner!All /\ due' \subseteq Runner!All /\ unseen' \subseteq Pins /\ hidden' \subseteq Pins
    BY <1>1, <1>2, PartsTyped
  <2> QED BY <1>1, <1>2, <1>3, <2>1 DEF Runner!TypeOK, Lists
<1>5. RootKept' BY <1>2, <1>3 DEF RunnerInv, RootKept
<1>6. RunKept' BY <1>2, <1>3 DEF RunnerInv, RunKept, ToldOrPolls, RootKept
<1> QED BY <1>4, <1>5, <1>6 DEF RunnerInv

LEMMA RunnerStep == ASSUME Runner!FilterRunnerAssumption, RunnerInv, [Runner!Next]_(Runner!vars) PROVE RunnerInv'
<1>1. CASE Runner!Runner BY <1>1, StartStep, ProcessStep, ReturnStep DEF Runner!Runner
<1>2. CASE Runner!User BY <1>2, UserStep
<1>3. CASE Runner!Interrupt \/ \E f \in Filters : Runner!Wakeup(f) \/ Runner!MarkAsyncProgress(f) BY <1>3, OthersStep
<1>4. ASSUME NEW f \in Filters, Runner!Destroy(f) PROVE RunnerInv' BY <1>4, DestroyStep
<1>5. ASSUME NEW x \in Pins, Runner!Access(x) PROVE RunnerInv' BY <1>5, AccessStep
<1>6. CASE UNCHANGED Runner!vars
  <2>1. /\ UNCHANGED <<pending, async_pending, async_wakeup_sent, interrupt_flag, external_pending, recursive>>
        /\ UNCHANGED <<exit_req, pc, polled, woken, turn, alive, due, unseen, hidden, changes, wakeups, interrupts>>
    BY <1>6 DEF Runner!vars
  <2> QED BY <2>1 DEF RunnerInv, Runner!TypeOK, RootKept, RunKept, ToldOrPolls
<1> QED BY <1>1, <1>2, <1>3, <1>4, <1>5, <1>6 DEF Runner!Next

LEMMA RunnerTells == ASSUME RunnerInv PROVE Runner!TypeOK /\ Runner!UserTold
<1>1. Runner!TypeOK BY DEF RunnerInv
<1>2. pc = "sleep" => woken \/ unseen \subseteq hidden BY DEF RunnerInv, RunKept, ToldOrPolls
<1>3. Root \in Runner!Range(pending) /\ ~external_pending => interrupts # 0 \/ recursive # NoPin
  BY DEF RunnerInv, RunKept
<1> QED BY <1>1, <1>2, <1>3 DEF Runner!UserTold

-----------------------------------------------------------------------------
(* The three together: in a behaviour one of them is used.                 *)

ToolsInv == IInv /\ PoolInv /\ RunnerInv

(* The runner may be idle initially, not yet woken up.                     *)
LEMMA IdleRunner ==
  ASSUME Runner!FilterRunnerAssumption, ToolsInit PROVE RunnerInv
<1>1. /\ pending = <<>> /\ async_pending = <<>> /\ ~external_pending /\ ~interrupt_flag /\ ~exit_req
      /\ recursive = NoPin /\ pc = "sleep" /\ polled = {} /\ unseen = {} /\ hidden = {} /\ due = {}
      /\ async_wakeup_sent = FALSE /\ woken \in BOOLEAN /\ turn \in [Pins -> {"user", "graph"}]
      /\ alive = Runner!All /\ changes = 0 /\ wakeups = 0 /\ interrupts = 0
  BY DEF ToolsInit, Runner!All
<1>2. Runner!TypeOK
  <2>1. pending \in Lists(alive) /\ async_pending \in Lists(alive) BY <1>1, EmptyList
  <2>2. changes \in 0 .. MaxChanges /\ wakeups \in 0 .. MaxWakeups /\ interrupts \in 0 .. MaxInterrupts
    BY <1>1 DEF Runner!FilterRunnerAssumption
  <2>3. recursive \in Pins \cup {NoPin} /\ pc \in {"sleep", "poll", "start", "check", "step"} BY <1>1
  <2>4. interrupt_flag \in BOOLEAN /\ external_pending \in BOOLEAN /\ exit_req \in BOOLEAN BY DEF ToolsInit
  <2> QED BY <1>1, <2>1, <2>2, <2>3, <2>4, TypeParts
<1>3. RootKept /\ RunKept BY <1>1, EmptyList DEF RootKept, RunKept, ToldOrPolls, Runner!All
<1> QED BY <1>2, <1>3 DEF RunnerInv

LEMMA ToolsStep == ASSUME ToolsInv, [ToolsNext]_allvars PROVE ToolsInv'
<1>1. Pool!ThreadPoolAssumption /\ Runner!FilterRunnerAssumption BY ToolsAssumption
<1>2. IInv /\ PoolInv /\ RunnerInv BY DEF ToolsInv
<1>3. [Next]_vars /\ [Pool!Next]_(Pool!vars) /\ [Runner!Next]_(Runner!vars)
  <2>1. UNCHANGED pool => UNCHANGED Pool!vars BY DEF pool, Pool!vars, Pool!pool, Pool!history
  <2>2. UNCHANGED runner => UNCHANGED Runner!vars BY DEF runner, Runner!vars
  <2> QED BY <2>1, <2>2 DEF ToolsNext, allvars
<1>4. IInv' BY <1>2, <1>3, StepIInv
<1>5. PoolInv' BY <1>1, <1>2, <1>3, PoolStep
<1>6. RunnerInv' BY <1>1, <1>2, <1>3, RunnerStep
<1> QED BY <1>4, <1>5, <1>6 DEF ToolsInv

THEOREM ToolsInvariant == ToolsSpec => []ToolsInv
<1>1. ToolsInit => ToolsInv
  <2> SUFFICES ASSUME ToolsInit PROVE ToolsInv OBVIOUS
  <2>1. Init /\ Pool!Init BY DEF ToolsInit
  <2>2. RunnerInv BY IdleRunner, ToolsAssumption
  <2>3. PoolInv BY <2>1, PoolInit, ToolsAssumption
  <2> QED BY <2>1, <2>2, <2>3, InitIInv DEF ToolsInv
<1>2. ToolsInv /\ [ToolsNext]_allvars => ToolsInv' BY ToolsStep
<1> QED BY <1>1, <1>2, PTL DEF ToolsSpec

(* The n-th call of a thread with a tag returns the value of the n-th call *)
(* of the other thread with that tag.                                      *)
THEOREM CallsPaired == ToolsSpec => []Paired
<1>1. ToolsInv => Paired BY DEF ToolsInv, IInv
<1> QED BY <1>1, ToolsInvariant, PTL

(* All fields keep their types; in particular a list of the filter runner  *)
(* holds a filter once, and none that has been destroyed.                  *)
THEOREM TypesKept == ToolsSpec => []TypesOK
<1>1. ToolsInv => TypesOK BY RunnerTells DEF ToolsInv, IInv, PoolInv, TypesOK
<1> QED BY <1>1, ToolsInvariant, PTL

(* Accepted work runs in order and once, and always has a thread that gets *)
(* to it, whichever workers time out, are woken up or cannot be created.   *)
THEOREM PoolServes == ToolsSpec => [](Pool!InOrder /\ Pool!WorkAttended)
<1>1. ToolsInv => Pool!InOrder /\ Pool!WorkAttended BY DEF ToolsInv, PoolInv
<1> QED BY <1>1, ToolsInvariant, PTL

(* The same; and, for any number of external pins and any sequence of runs,*)
(* recursive runs and interrupts, the user of a filter graph does not sleep*)
(* over a change, except one that add_pending_pin() hides; which without   *)
(* interrupts is one behind the change of the pin of a recursive run.      *)
THEOREM NothingLeftLying == ToolsSpec => []Attended
<1>1. ToolsInv => Attended BY RunnerTells DEF ToolsInv, PoolInv, Attended
<1> QED BY <1>1, ToolsInvariant, PTL

(* However many workers time out at once, min_threads of them remain.      *)
THEOREM ThreadsKept == ToolsSpec => MinKept
<1>1. ToolsInv /\ [ToolsNext]_allvars =>
        [Pool!num_threads >= MinThreads /\ ~terminate' => Pool!num_threads' >= MinThreads]_(Pool!vars)
  <2> SUFFICES ASSUME ToolsInv, [ToolsNext]_allvars, Pool!num_threads >= MinThreads, ~terminate'
               PROVE  Pool!num_threads' >= MinThreads
    OBVIOUS
  <2>1. [Pool!Next]_(Pool!vars)
    <3>1. UNCHANGED pool => UNCHANGED Pool!vars BY DEF pool, Pool!vars, Pool!pool, Pool!history
    <3> QED BY <3>1 DEF ToolsNext, allvars
  <2> QED BY <2>1, RetiresSurplus, ToolsAssumption DEF ToolsInv
<1> QED BY <1>1, ToolsInvariant, PTL DEF ToolsSpec, MinKept, Pool!MinKept
=============================================================================
