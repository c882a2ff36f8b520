---------------------------- MODULE Subsequences ----------------------------
(* Removing elements from a sequence without disturbing the order of the   *)
(* others, stated by the increasing enumeration of the positions kept.     *)
EXTENDS Naturals, Sequences, FiniteSets

Increasing(p) == \A i, j \in DOMAIN p : i < j => p[i] < p[j]

(* The elements of s at the positions p enumerates.                        *)
Pick(s, p) == [i \in DOMAIN p |-> s[p[i]]]

(* The increasing enumerations of a set of positions: exactly one.         *)
Enumerations(kept) ==
  {p \in [1..Cardinality(kept) -> kept] :
     /\ Increasing(p)
     /\ \A k \in kept : \E i \in DOMAIN p : p[i] = k}

=============================================================================
