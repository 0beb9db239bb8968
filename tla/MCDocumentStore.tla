---------------------------- MODULE MCDocumentStore ----------------------------
(* Small instances of DocumentStore for TLC. *)
EXTENDS DocumentStore, TLC

Symmetric ==
    Permutations(Documents) \cup Permutations(Contents) \cup Permutations(Users)
        \cup Permutations(Clients)

===============================================================================
