----------------------------- MODULE MCAnswerCache -----------------------------
(* Small instances of AnswerCache for TLC. *)
EXTENDS AnswerCache, FiniteSets, TLC

Symmetric ==
    Permutations(Chunks) \cup Permutations(Users) \cup Permutations(Questions)
        \cup Permutations(Clients)

\* Bound: requests at the same time are about one question; more questions are for
\* requests one after the other.
UnderWay == {c \in Clients : req[c] # Idle}
Asked == {req[c].question : c \in UnderWay}
    \cup {q \in Questions : \E u \in Users : cache[<<u, q>>] # NoEntry}
Bounded == Cardinality(UnderWay) > 1 => Cardinality(Asked) = 1

===============================================================================
