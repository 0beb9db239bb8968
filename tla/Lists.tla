--------------------------------- MODULE Lists ---------------------------------
(***************************************************************************)
(* Lists as the loaders and the search build them: one after the other,    *)
(* sorted, filtered, without repetitions, cut.  What a list has is a set,  *)
(* and its order a relation of the members.                                *)
(***************************************************************************)
EXTENDS Integers, Sequences, FiniteSets, SequencesExt

\* One sequence of steps per member of s, with its index, one after the other.
Each(s, steps(_, _)) == FlattenSeq([i \in 1..Len(s) |-> steps(s[i], i)])

\* The members of S in the order R, a set of pairs.
Arranged(S, R) ==
    [k \in 1..Cardinality(S) |-> CHOOSE i \in S : Cardinality({j \in S : <<j, i>> \in R}) = k - 1]

Top(s, k) == SubSeq(s, 1, Min({k, Len(s)}))

\* Where x stands first in s, and the order of the members it makes.
Position(s, x) == Min({i \in 1..Len(s) : s[i] = x})
InOrder(s) == {p \in ToSet(s) \X ToSet(s) : Position(s, p[1]) < Position(s, p[2])}

\* Those of s that are in S, each once.
Among(s, S) == Arranged(ToSet(s) \cap S, InOrder(s))
Distinct(s) == Among(s, ToSet(s))

\* By score, the first of equals first.
Descending(s, score) ==
    Arranged(ToSet(s), {p \in ToSet(s) \X ToSet(s) :
                          \/ score[p[1]] > score[p[2]]
                          \/ score[p[1]] = score[p[2]] /\ Position(s, p[1]) < Position(s, p[2])})
================================================================================
