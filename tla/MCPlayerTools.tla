--------------------------- MODULE MCPlayerTools ---------------------------
(* Small instances of PlayerTools: rename, deactivate. *)
EXTENDS PlayerTools, TLC

MCChange == {[name |-> n, active |-> None] : n \in Name} \cup
            {[name |-> None, active |-> FALSE]}

Interchangeable == Permutations(User) \cup 
                   Permutations(Handler) \cup Permutations(Caller) \cup
                   Permutations(Name) \cup Permutations(Email)
=============================================================================
