------------------------------- MODULE Throttle -------------------------------
(***************************************************************************)
(* One ThrottledConn (bandwidth/throttle.go): a token bucket around a      *)
(* connection, shared by the goroutine that reads from the connection and  *)
(* the one that writes to it.                                              *)
(*                                                                         *)
(* A call waits until the bucket holds a token, moves up to a buffer of    *)
(* bytes on the connection, and takes the tokens afterwards: the lock is   *)
(* held while the bucket is looked at, not while the bytes move.           *)
(*                                                                         *)
(* The clock ticks; a tick is worth Rate tokens.                           *)
(***************************************************************************)
EXTENDS Integers, FiniteSets, FiniteSetsExt

CONSTANTS
  Copiers,    \* the goroutines that use the connection
  Rate,       \* refillRate, tokens for a tick
  MaxTokens,  \* maxTokens
  Buffer,     \* bytes in the buffer of io.Copy
  MaxSleep,   \* ticks in 100 ms; the least sleep, 1 ms, is one tick
  Far,        \* bound: ticks since the last refill are counted up to it
  Window      \* bound: ticks for which bytes are counted

ASSUME ThrottleAssumption ==
  /\ IsFiniteSet(Copiers)
  /\ Rate \in Nat \ {0}
  /\ MaxTokens \in Nat \ {0}
  /\ Buffer \in Nat \ {0}
  /\ MaxSleep \in Nat \ {0}
  /\ Far \in Nat
  /\ Window \in Nat
  /\ Far * Rate >= MaxTokens + Cardinality(Copiers) * Buffer   \* fills the bucket

VARIABLES
  tokens,   \* the bucket, below zero after an overdraft
  since,    \* ticks since lastRefill, at most Far
  call,     \* the Read or Write each copier is in
  watch     \* history: the bytes moved in a window of time

vars == <<tokens, since, call, watch>>

\* need is len(b), left the rest of a sleep in ticks, n the bytes moved.
Call == [pc : {"idle", "wait", "move", "consume", "over"}, need : 0..Buffer,
         left : 0..MaxSleep, n : 0..Buffer]

Idle == [pc |-> "idle", need |-> 0, left |-> 0, n |-> 0]

Over == [Idle EXCEPT !.pc = "over"]

\* NewThrottledConn.  No window is open: span is -1.
Init ==
  /\ tokens = MaxTokens
  /\ since = 0
  /\ call = [c \in Copiers |-> Idle]
  /\ watch = [span |-> -1, bytes |-> 0]

-----------------------------------------------------------------------------
\* Read is called with a whole buffer, Write with what was read into it.
Begin(c) ==
  /\ call[c].pc = "idle"
  /\ \E need \in 1..Buffer : call' = [call EXCEPT ![c] = [@ EXCEPT !.pc = "wait", !.need = need]]
  /\ UNCHANGED <<tokens, since, watch>>

\* Variant of refill: the bucket has no rim.
RefillUncapped == tokens + since * Rate

\* What the bucket holds after refill, which also sets lastRefill to now.
refill == Min({tokens + since * Rate, MaxTokens})

\* waitDuration in ticks: for the tokens that are missing, but 1 to 100 ms.
waitDuration(c) == Max({1, Min({(call[c].need - refill) \div Rate, MaxSleep})})

\* Variant of waitForTokens: the bucket is looked at but not refilled.
WaitUnfilled(c) ==
  /\ call[c].pc = "wait"
  /\ call[c].left = 0
  /\ since' = 0
  /\ UNCHANGED <<tokens, watch>>
  /\ \/ /\ tokens >= 1
        /\ call' = [call EXCEPT ![c].pc = "move"]
     \/ /\ tokens < 1
        /\ call' = [call EXCEPT ![c].left = waitDuration(c)]

\* Variant of waitForTokens: an empty bucket lets the call pass.
WaitForNothing(c) ==
  /\ call[c].pc = "wait"
  /\ call[c].left = 0
  /\ tokens' = refill
  /\ since' = 0
  /\ call' = [call EXCEPT ![c].pc = "move"]
  /\ UNCHANGED watch

\* One turn of waitForTokens: with one token in the bucket the call passes,
\* however many bytes it is for; otherwise it sleeps.
waitForTokens(c) ==
  /\ call[c].pc = "wait"
  /\ call[c].left = 0
  /\ tokens' = refill
  /\ since' = 0
  /\ \/ /\ refill >= 1
        /\ call' = [call EXCEPT ![c].pc = "move"]
     \/ /\ refill < 1
        /\ call' = [call EXCEPT ![c].left = waitDuration(c)]
  /\ UNCHANGED watch

\* Conn.Read or Conn.Write moves n bytes; with none, at the end or after an error,
\* no token is taken and the copier stops.
Move(c) ==
  /\ call[c].pc = "move"
  /\ \E n \in 0..call[c].need :
       /\ call' = [call EXCEPT ![c] = IF n = 0 THEN Over
                                      ELSE [@ EXCEPT !.pc = "consume", !.n = n]]
       /\ watch' = IF watch.span >= 0 THEN [watch EXCEPT !.bytes = @ + n] ELSE watch
  /\ UNCHANGED <<tokens, since>>

\* consumeTokens, without a refill.  An error may have come with the bytes.
consumeTokens(c) ==
  /\ call[c].pc = "consume"
  /\ tokens' = tokens - call[c].n
  /\ call' \in {[call EXCEPT ![c] = Idle], [call EXCEPT ![c] = Over]}
  /\ UNCHANGED <<since, watch>>

-----------------------------------------------------------------------------
\* Time passes.  A sleep may last longer than it should.
Tick ==
  /\ since' = Min({since + 1, Far})
  /\ call' = [c \in Copiers |-> [call[c] EXCEPT !.left = Max({@ - 1, 0})]]
  /\ watch' = IF watch.span \in 0..(Window - 1) THEN [watch EXCEPT !.span = @ + 1]
              ELSE [span |-> -1, bytes |-> 0]
  /\ UNCHANGED tokens

\* A window is opened at any moment.
Watch ==
  /\ watch.span = -1
  /\ watch' = [watch EXCEPT !.span = 0]
  /\ UNCHANGED <<tokens, since, call>>

-----------------------------------------------------------------------------
Next ==
  \/ \E c \in Copiers : Begin(c) \/ waitForTokens(c) \/ Move(c) \/ consumeTokens(c)
  \/ Tick
  \/ Watch

Spec == Init /\ [][Next]_vars

\* Goroutines that can run do, and time passes.  The connection may block a Read
\* or a Write for ever, and a copier need not call again.
Fairness ==
  /\ \A c \in Copiers : WF_vars(waitForTokens(c)) /\ WF_vars(consumeTokens(c))
  /\ WF_vars(Tick)

FairSpec == Spec /\ Fairness

-----------------------------------------------------------------------------
\* Copiers that have been let through and not paid yet.
Past == {c \in Copiers : call[c].pc \in {"move", "consume"}}

TypeOK ==
  /\ tokens \in Int
  /\ since \in 0..Far
  /\ call \in [Copiers -> Call]
  /\ watch \in [span : -1..Window, bytes : Nat]

\* Taking the tokens after the bytes overdraws the bucket by at most a buffer for
\* each goroutine: each has seen a token, and none is let through below zero.
Overdraft ==
  tokens >= 1 - Cardinality(Copiers \ Past) * Buffer

\* In any span of time at most a full bucket, the refill for that time and four
\* buffers move (two for each copier: one it was let through for before, one it
\* overdraws with at the end).
BurstBound ==
  watch.span >= 0 =>
    watch.bytes < MaxTokens + watch.span * Rate + 2 * Cardinality(Copiers) * Buffer

\* An overdraft is made up for: while a call waits for tokens it comes to be let
\* through, or the other one is (which may then take every token there is).
ThrottleYields ==
  \A c \in Copiers : call[c].pc = "wait" ~> Past # {}

=============================================================================
