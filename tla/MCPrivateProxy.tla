--------------------------- MODULE MCPrivateProxy ---------------------------
(***************************************************************************)
(* Small instances of PrivateProxy.  Account "bob" is written Bob in the   *)
(* users file; a client may log in as Bob or as bob.                       *)
(***************************************************************************)
EXTENDS PrivateProxy, TLC

CONSTANTS ann, bob, Bob   \* login names; ann and bob are also the accounts

CONSTANTS TheCap, TheMaxConns   \* the limits of every account

MCUsername == [a \in Accounts |-> IF a = bob THEN Bob ELSE a]

MCLower == [n \in Keys |-> IF n = Bob THEN bob ELSE n]

MCLimitBytes == [a \in Accounts |-> TheCap]

MCMaxConns == [a \in Accounts |-> TheMaxConns]

\* Goroutines are interchangeable; used by runs that check no liveness.
Symmetry == Permutations(Sessions)

=============================================================================
