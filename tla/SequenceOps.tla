---------------------------- MODULE SequenceOps ----------------------------
(* Operators on sequences that several components use.  Folds are written  *)
(* with MapThenFoldSet, which has no RECURSIVE declaration in it.          *)
EXTENDS Integers, Sequences, FiniteSets, FiniteSetsExt, Folds

(* The elements of s taken one after the other, from the first.            *)
InOrder(step(_, _), start, s) ==
  MapThenFoldSet(LAMBDA e, r : step(r, e), start, LAMBDA i : s[i], LAMBDA S : Max(S), DOMAIN s)

Joined(r, s) == r \o s

(* The sequences of ss, one after the other.                               *)
Concatenated(ss) == InOrder(Joined, <<>>, ss)

Backwards(s) == [i \in 1..Len(s) |-> s[Len(s) + 1 - i]]

Begins(s, t) == Len(s) <= Len(t) /\ \A i \in 1..Len(s) : s[i] = t[i]

(* The number of elements of K up to n: the place of n when K is listed.   *)
Rank(K, n) == Cardinality({j \in K : j <= n})

(* s lists all at the indices K in order, or the beginning of that list.   *)
Lists(s, all, K) == Len(s) = Cardinality(K) /\ \A i \in K : s[Rank(K, i)] = all[i]
ListsStart(s, all, K) ==
  Len(s) <= Cardinality(K) /\ \A i \in K : Rank(K, i) <= Len(s) => s[Rank(K, i)] = all[i]
=============================================================================
