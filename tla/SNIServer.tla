------------------------------ MODULE SNIServer ------------------------------
(***************************************************************************)
(* The public mode of the proxy: proxy.Server of internal/proxy/server.go, *)
(* its accept loop with the semaphore connSem and the wait group wg, the   *)
(* goroutine of each connection (HandleConnection), and the shutdown by    *)
(* watchShutdown and drainConnections.                                     *)
(*                                                                         *)
(* A connection is used once.  The relay itself is in Tunnel; here it ends *)
(* when a copier is done or when the context is cancelled.  Time is        *)
(* counted, while connections are drained, in ticks of ten seconds, the    *)
(* length of the handshake deadline and of the dial timeout.  Something    *)
(* that lasts ten seconds at most sees no more than two of them begin.     *)
(***************************************************************************)
EXTENDS Integers, FiniteSets

CONSTANTS
  Conns,        \* client connections
  MaxConns,     \* Config.MaxConns, the capacity of connSem
  DrainTicks    \* the drain timeout, 30 s, in ticks

ASSUME SNIAssumption ==
  /\ IsFiniteSet(Conns)
  /\ MaxConns \in Nat \ {0}     \* Config.Validate
  /\ DrainTicks \in Nat /\ DrainTicks >= 3

VARIABLES
  acceptor,     \* what the goroutine of Start is about to do
  held,         \* the connection Accept has returned, until it is admitted
  ctxDone,      \* the context of signal.NotifyContext is cancelled
  shutdown,     \* the channel s.shutdown is closed
  listening,    \* s.ln is open
  failed,       \* history: Accept has failed by itself
  conn,         \* what the goroutine of a connection is about to do
  n,            \* the counters, see Counters
  age,          \* ticks that found a connection's handler waiting
  drainAge      \* ticks seen by drainConnections

server == <<acceptor, held, failed, drainAge>>
signals == <<ctxDone, shutdown, listening>>
handlers == <<conn, n, age>>

vars == <<server, signals, handlers>>

\* Tokens in connSem, the counter of s.wg, the gauge MetricActiveConns, and
\* totalRelays and totalErrors of Stats.
Counters == {"sem", "wg", "active", "relays", "errors"}

\* Places of a handler; "returned" and "released" are inside the deferred
\* calls of the goroutine, before <-s.connSem and before s.wg.Done().
Places == {"new", "start", "peek", "api", "dial", "write", "relay", "returned",
           "released", "closed", "refused"}

\* Start has returned: after the drain, at its timeout, or with an error,
\* which main turns into log.Fatal.
Exited == {"drained", "forced", "fatal"}

Init ==
  /\ acceptor = "select"
  /\ held = {}
  /\ ctxDone = FALSE
  /\ shutdown = FALSE
  /\ listening = TRUE
  /\ failed = FALSE
  /\ conn = [c \in Conns |-> "new"]
  /\ n = [x \in Counters |-> 0]
  /\ age = [c \in Conns |-> 0]
  /\ drainAge = 0

-----------------------------------------------------------------------------
(***************************************************************************)
(* Start: the accept loop.                                                 *)
(***************************************************************************)
\* Variant of LoopTop: the channel is looked at only when Accept fails.
LoopTopBlind ==
  /\ acceptor = "select"
  /\ acceptor' = "accept"
  /\ UNCHANGED <<held, failed, drainAge, signals, handlers>>

\* The select at the top of the loop.
LoopTop ==
  /\ acceptor = "select"
  /\ acceptor' = IF shutdown THEN "drain" ELSE "accept"
  /\ UNCHANGED <<held, failed, drainAge, signals, handlers>>

Accept(c) ==
  /\ acceptor = "accept"
  /\ listening
  /\ conn[c] = "new"
  /\ held' = {c}
  /\ acceptor' = "admit"
  /\ UNCHANGED <<failed, drainAge, signals, handlers>>

\* Accept fails because the listener is closed, or by itself; a timeout error
\* only repeats the loop.
AcceptFails ==
  /\ acceptor = "accept"
  /\ failed' = (failed \/ listening)
  /\ acceptor' = IF shutdown THEN "drain" ELSE "fatal"
  /\ UNCHANGED <<held, drainAge, signals, handlers>>

\* The select on connSem has dealt with the connection.
Decided ==
  /\ held' = {}
  /\ acceptor' = "select"
  /\ UNCHANGED <<failed, drainAge, signals, age>>

\* connSem has room: the connection gets a goroutine.
Admit(c) ==
  /\ acceptor = "admit"
  /\ c \in held
  /\ n["sem"] < MaxConns
  /\ n' = [n EXCEPT !["sem"] = @ + 1, !["wg"] = @ + 1]
  /\ conn' = [conn EXCEPT ![c] = "start"]
  /\ Decided

Refuse(c) ==
  /\ acceptor = "admit"
  /\ c \in held
  /\ n["sem"] >= MaxConns
  /\ conn' = [conn EXCEPT ![c] = "refused"]
  /\ Decided
  /\ UNCHANGED n

-----------------------------------------------------------------------------
(***************************************************************************)
(* The goroutine of a connection, while the process lives.                 *)
(***************************************************************************)
GoTo(c, here, next) ==
  /\ acceptor \notin Exited
  /\ conn[c] = here
  /\ conn' = [conn EXCEPT ![c] = next]
  /\ UNCHANGED <<server, signals, age>>

Begin(c) ==
  /\ GoTo(c, "start", "peek")
  /\ n' = [n EXCEPT !["active"] = @ + 1]

\* The first bytes name a configured host, or are no TLS record and are
\* handed to handleInternalAPI.
Peeked(c) ==
  /\ GoTo(c, "peek", "dial") \/ GoTo(c, "peek", "api")
  /\ UNCHANGED n

\* The target answers.
Dialled(c) ==
  /\ GoTo(c, "dial", "write")
  /\ UNCHANGED n

\* The peek fails or names no configured host, or the dial fails: RecordError.
\* Every return closes the connections and decrements the gauge (deferred).
Fail(c) ==
  /\ GoTo(c, "peek", "returned") \/ GoTo(c, "dial", "returned")
  /\ n' = [n EXCEPT !["errors"] = @ + 1, !["active"] = @ - 1]

\* Variant of WriteFails: this path forgets the gauge.
WriteFailsKeepsGauge(c) == GoTo(c, "write", "returned") /\ UNCHANGED n

\* Writing the bytes already read to the target fails: no RecordError.
WriteFails(c) ==
  /\ GoTo(c, "write", "returned")
  /\ n' = [n EXCEPT !["active"] = @ - 1]

\* They are written: RecordRelay, and the copiers start.
Written(c) ==
  /\ GoTo(c, "write", "relay")
  /\ n' = [n EXCEPT !["relays"] = @ + 1]

\* One of the copiers is done.
RelayEnds(c) ==
  /\ GoTo(c, "relay", "returned")
  /\ n' = [n EXCEPT !["active"] = @ - 1]

\* ctx.Done() ends the relay, whatever the copiers are doing.
RelayCut(c) ==
  /\ ctxDone
  /\ GoTo(c, "relay", "returned")
  /\ n' = [n EXCEPT !["active"] = @ - 1]

\* handleInternalAPI has answered, or could not read a request.
Answered(c) ==
  /\ GoTo(c, "api", "returned")
  /\ n' = [n EXCEPT !["active"] = @ - 1]

\* <-s.connSem
Release(c) ==
  /\ GoTo(c, "returned", "released")
  /\ n' = [n EXCEPT !["sem"] = @ - 1]

\* s.wg.Done()
WgDone(c) ==
  /\ GoTo(c, "released", "closed")
  /\ n' = [n EXCEPT !["wg"] = @ - 1]

-----------------------------------------------------------------------------
(***************************************************************************)
(* Shutdown.                                                               *)
(***************************************************************************)
\* SIGINT or SIGTERM.
Cancel ==
  /\ ~ctxDone
  /\ ctxDone' = TRUE
  /\ UNCHANGED <<shutdown, listening, server, handlers>>

\* Variant of CloseShutdown: the listener is closed first.
CloseListenerFirst ==
  /\ ctxDone
  /\ ~shutdown
  /\ listening
  /\ listening' = FALSE
  /\ UNCHANGED <<ctxDone, shutdown, server, handlers>>

\* watchShutdown closes s.shutdown, then the listener.
CloseShutdown ==
  /\ ctxDone
  /\ ~shutdown
  /\ shutdown' = TRUE
  /\ UNCHANGED <<ctxDone, listening, server, handlers>>

CloseListener ==
  /\ shutdown
  /\ listening
  /\ listening' = FALSE
  /\ UNCHANGED <<ctxDone, shutdown, server, handlers>>

DrainEnds(how) ==
  /\ acceptor = "drain"
  /\ acceptor' = how
  /\ UNCHANGED <<held, failed, drainAge, signals, handlers>>

\* Variant of Drained: it waits for the gauge instead of the wait group.
DrainedByGauge == n["active"] = 0 /\ DrainEnds("drained")

\* drainConnections: s.wg.Wait() returns, or time.After fires.
Drained == n["wg"] = 0 /\ DrainEnds("drained")

\* Variant of DrainTimeout: there is none.
DrainWithoutTimeout == n["wg"] = 0 /\ DrainEnds("forced")

DrainTimeout == drainAge >= DrainTicks /\ DrainEnds("forced")

\* Variant of Urgent: HandleConnection does not look at the context.
UrgentWithoutCtx(c) ==
  conn[c] \in {"start", "returned", "released"}

\* Some step of c's goroutine waits for nothing: it is not put off by a tick.
\* A cancelled context ends a dial and a relay.
Urgent(c) ==
  \/ conn[c] \in {"start", "returned", "released"}
  \/ ctxDone /\ conn[c] \in {"dial", "relay"}

\* SetDeadline covers the TLS handshake, the peek and the API request alike.
UnderDeadline(c) == conn[c] \in {"peek", "api"}

\* The most ticks that something of ten seconds sees.
DeadlineTicks == 2

\* What the cancelled context does not end.  The write of the first bytes to
\* the target has no deadline either.
Waiting(c) == UnderDeadline(c) \/ conn[c] = "write"

\* Ten seconds of the drain pass.
Tick ==
  /\ acceptor = "drain"
  /\ drainAge < DrainTicks
  /\ n["wg"] > 0
  /\ \A c \in Conns : ~Urgent(c) /\ (UnderDeadline(c) => age[c] < DeadlineTicks)
  /\ age' = [c \in Conns |-> IF Waiting(c) THEN age[c] + 1 ELSE age[c]]
  /\ drainAge' = drainAge + 1
  /\ UNCHANGED <<acceptor, held, failed, signals, conn, n>>

-----------------------------------------------------------------------------
Handle(c) ==
  \/ Begin(c) \/ Peeked(c) \/ Fail(c) \/ Answered(c) \/ Dialled(c)
  \/ RelayEnds(c) \/ RelayCut(c) \/ Release(c) \/ WgDone(c)

WriteOver(c) == Written(c) \/ WriteFails(c)

Start ==
  \/ LoopTop
  \/ \E c \in Conns : Accept(c) \/ Admit(c) \/ Refuse(c)
  \/ AcceptFails
  \/ Drained
  \/ DrainTimeout

watchShutdown == CloseShutdown \/ CloseListener

Next ==
  \/ Start
  \/ watchShutdown
  \/ Cancel
  \/ Tick
  \/ \E c \in Conns : Handle(c) \/ WriteOver(c)

Spec == Init /\ [][Next]_vars

\* Goroutines that can run are scheduled and time passes.  A peek, a dial and
\* an API request end by their deadlines; a relay need not end before the
\* context is cancelled, a write to the target need not end at all.
Fairness ==
  /\ WF_vars(LoopTop)
  /\ WF_vars(\E c \in Conns : Admit(c) \/ Refuse(c))
  /\ WF_vars(~listening /\ AcceptFails)
  /\ WF_vars(Drained \/ DrainTimeout)
  /\ WF_vars(watchShutdown)
  /\ WF_vars(Tick)
  /\ \A c \in Conns : WF_vars(Handle(c) /\ ~(conn[c] = "relay" /\ ~ctxDone))

FairSpec == Spec /\ Fairness

-----------------------------------------------------------------------------
TypeOK ==
  /\ acceptor \in {"select", "accept", "admit", "drain"} \cup Exited
  /\ held \subseteq Conns
  /\ ctxDone \in BOOLEAN
  /\ shutdown \in BOOLEAN
  /\ listening \in BOOLEAN
  /\ failed \in BOOLEAN
  /\ conn \in [Conns -> Places]
  /\ n \in [Counters -> Nat]
  /\ n["sem"] <= MaxConns
  /\ age \in [Conns -> Nat]
  /\ drainAge \in Nat

In(places) == {c \in Conns : conn[c] \in places}

Serving == {"peek", "api", "dial", "write", "relay"}

\* The semaphore, the wait group and the gauge each agree with the goroutines
\* at every point of every interleaving, on every path out of a handler: no
\* token is leaked, so capacity is not lost for ever, and none is returned
\* early, so no more than MaxConns handlers run.
HandlersAccounted ==
  /\ n["sem"] = Cardinality(In(Serving \cup {"start", "returned"}))
  /\ n["wg"] = Cardinality(In(Serving \cup {"start", "returned", "released"}))
  /\ n["active"] = Cardinality(In(Serving))

\* If drainConnections reports that all connections are drained, no handler is
\* running and none is yet to be started: s.wg.Add and s.wg.Wait cannot cross.
DrainedMeansIdle ==
  acceptor = "drained" => held = {} /\ In(Places \ {"new", "closed", "refused"}) = {}

\* A signal never makes Start return an error, which main would turn into
\* log.Fatal: s.shutdown is closed before the listener is.
SignalIsNotFatal == acceptor = "fatal" => failed

\* The drain timeout is reached only if a target blocks the write of the first
\* bytes: a handler has been waiting for longer than its deadline allows.
DrainCompletes ==
  acceptor = "forced" => \E c \in Conns : age[c] > DeadlineTicks

\* Every signal ends Start, even if clients and targets do nothing at all.
SignalStops == ctxDone ~> acceptor \in Exited

-----------------------------------------------------------------------------
(***************************************************************************)
(* The server implements Gate.  A connection is inside while it holds a    *)
(* token of connSem; the last call is the Accept that had begun, or had    *)
(* returned, when s.shutdown was closed.                                   *)
(***************************************************************************)
GatePlace(c) ==
  CASE conn[c] = "new" -> "outside"
    [] conn[c] = "refused" -> "refused"
    [] conn[c] \in {"released", "closed"} -> "left"
    [] OTHER -> "inside"

GateEnd ==
  CASE acceptor = "drained" -> "clean"
    [] acceptor = "forced" -> "forced"
    [] acceptor = "fatal" -> "error"
    [] OTHER -> "none"

TheGate == INSTANCE Gate WITH
  Capacity <- MaxConns,
  place <- [c \in Conns |-> GatePlace(c)],
  open <- ~shutdown,
  lastCall <- (shutdown => acceptor \in {"accept", "admit"}),
  end <- GateEnd

\* The server keeps what Gate promises: no more than MaxConns connections hold a
\* token, one is refused only if all tokens are taken, and after s.shutdown is
\* closed at most one more is accepted, however the signal meets the accept loop.
ImplementsGate == TheGate!Spec

=============================================================================
