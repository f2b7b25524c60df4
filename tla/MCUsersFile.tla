----------------------------- MODULE MCUsersFile -----------------------------
(***************************************************************************)
(* A small instance of UsersFile: two operators, two accounts, one of them *)
(* with two spellings.                                                     *)
(***************************************************************************)
EXTENDS UsersFile

CONSTANTS bob, Bob, ann

MCFold == [n \in Names |-> IF n = Bob THEN bob ELSE n]

MCOriginal == <<[name |-> Bob, enabled |-> TRUE, rev |-> 0]>>

\* Sessions are interchangeable.
Symmetry == Permutations(Tools)
=============================================================================
