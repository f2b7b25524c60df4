------------------------------- MODULE MCAccess -------------------------------
(***************************************************************************)
(* A small instance of Access.  Account bob is written Bob in the users    *)
(* file.                                                                   *)
(***************************************************************************)
EXTENDS Access, TLC

CONSTANTS bob, Bob, home, office, street, good, bad

MCAttempts == {<<Bob, good>>, <<Bob, bad>>, <<bob, good>>}

MCLower == [n \in Logins |-> bob]
MCUsername == [a \in Accounts |-> Bob]
MCPassword == [a \in Accounts |-> good]
MCRPM == [a \in Accounts |-> 6]
MCExpires == [a \in Accounts |-> 10]

\* Requests are interchangeable.
Symmetry == Permutations(Requests)
=============================================================================
