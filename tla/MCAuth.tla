------------------------------- MODULE MCAuth -------------------------------
(* Instances of Auth for TLC. *)
EXTENDS Auth, TLC

\* No definition of Auth tells the members of these sets apart.
Symmetry ==
    Permutations(Requests) \cup Permutations(Ids) \cup Permutations(Users)
        \cup Permutations(Passwords)

=============================================================================
