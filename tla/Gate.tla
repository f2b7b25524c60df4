--------------------------------- MODULE Gate ---------------------------------
(***************************************************************************)
(* What the accept loop of the public mode promises, whatever its handlers *)
(* do and however its goroutines interleave: a gate for a limited number   *)
(* of connections.  Each enters once or is turned away, and is turned away *)
(* only by a full gate.  Once the gate is closing it deals with at most    *)
(* one more connection, and it reports that it has shut cleanly only if    *)
(* nobody is inside.                                                       *)
(***************************************************************************)
EXTENDS Integers, FiniteSets

CONSTANTS
  Conns,      \* connections
  Capacity    \* how many may be inside

VARIABLES
  place,      \* where each connection is
  open,       \* the gate is not closing
  lastCall,   \* one more connection may be dealt with
  end         \* "none" while the gate is manned, then how that ended

vars == <<place, open, lastCall, end>>

Inside == {c \in Conns : place[c] = "inside"}

Init ==
  /\ place = [c \in Conns |-> "outside"]
  /\ open = TRUE
  /\ lastCall = TRUE
  /\ end = "none"

\* Connection c is dealt with; a closing gate does that once.
Decide(c, where) ==
  /\ end = "none"
  /\ place[c] = "outside"
  /\ lastCall
  /\ place' = [place EXCEPT ![c] = where]
  /\ lastCall' = open
  /\ UNCHANGED <<open, end>>

Enter(c) == Cardinality(Inside) < Capacity /\ Decide(c, "inside")

TurnAway(c) == Cardinality(Inside) = Capacity /\ Decide(c, "refused")

Leave(c) ==
  /\ end = "none"
  /\ place[c] = "inside"
  /\ place' = [place EXCEPT ![c] = "left"]
  /\ UNCHANGED <<open, lastCall, end>>

\* The gate is closing; the last call may be over at once.
Close ==
  /\ open
  /\ open' = FALSE
  /\ lastCall' \in BOOLEAN
  /\ UNCHANGED <<place, end>>

\* Nobody answers the last call, and the gate may be left.
EndLastCall ==
  /\ ~open
  /\ lastCall' = FALSE
  /\ UNCHANGED <<place, open, end>>

\* The gate is left: shut cleanly, with somebody inside, or by an error.
Shut(how) ==
  /\ end = "none"
  /\ how = "clean" => ~open /\ ~lastCall /\ Inside = {}
  /\ how = "forced" => ~open /\ ~lastCall
  /\ end' = how
  /\ UNCHANGED <<place, open, lastCall>>

Next ==
  \/ \E c \in Conns : Enter(c) \/ TurnAway(c) \/ Leave(c)
  \/ Close
  \/ EndLastCall
  \/ \E how \in {"clean", "forced", "error"} : Shut(how)

Spec == Init /\ [][Next]_vars

=============================================================================
