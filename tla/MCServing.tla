------------------------------- MODULE MCServing ------------------------------
(* Small instances of Serving for TLC: two questions of one user and a reader. *)
EXTENDS Serving, TLC

CONSTANTS a1, a2, p1

MCTenant == [r \in Requests |-> "t"]
MCUser == [r \in Requests |-> "u"]

AskerSymmetry == Permutations({a1, a2})

===============================================================================
