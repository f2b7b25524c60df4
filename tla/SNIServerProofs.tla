--------------------------- MODULE SNIServerProofs ---------------------------
(***************************************************************************)
(* For any set of connections, any capacity of connSem and any drain       *)
(* timeout of three ticks or more: the counters agree with the goroutines, *)
(* a drain reported complete is complete, a signal never ends in log.Fatal, *)
(* a forced end has a handler that outlived its deadline to blame, and the *)
(* server implements Gate.                                                 *)
(***************************************************************************)
EXTENDS SNIServer, FiniteSetTheorems, TLAPS

\* The places of a handler that holds a token of connSem, and of one that the
\* wait group counts.
Holding == Serving \cup {"start", "returned"}
Live == Serving \cup {"start", "returned", "released"}

-----------------------------------------------------------------------------
(***************************************************************************)
(* Counting handlers.                                                      *)
(***************************************************************************)
\* A handler that comes to a place of P adds one to those in P, one that leaves
\* P takes one away, any other move changes nothing.
LEMMA InMoves ==
  ASSUME TypeOK, NEW c \in Conns, NEW p \in Places, NEW P,
         conn' = [conn EXCEPT ![c] = p]
  PROVE  /\ Cardinality(In(P)) \in Nat
         /\ conn[c] \notin P /\ p \in P => Cardinality(In(P)') = Cardinality(In(P)) + 1
         /\ conn[c] \in P /\ p \notin P => Cardinality(In(P)') = Cardinality(In(P)) - 1
         /\ (conn[c] \in P <=> p \in P) => In(P)' = In(P)
<1>1. IsFiniteSet(In(P)) /\ Cardinality(In(P)) \in Nat
  BY SNIAssumption, FS_Subset, FS_CardinalityType DEF In
<1>2. \A d \in Conns : conn'[d] = IF d = c THEN p ELSE conn[d]
  BY DEF TypeOK
<1>3. CASE conn[c] \notin P /\ p \in P
  <2>1. In(P)' = In(P) \cup {c} /\ c \notin In(P)
    BY <1>2, <1>3 DEF In
  <2> QED
    BY <1>1, <1>3, <2>1, FS_AddElement
<1>4. CASE conn[c] \in P /\ p \notin P
  <2>1. In(P)' = In(P) \ {c} /\ c \in In(P)
    BY <1>2, <1>4 DEF In
  <2> QED
    BY <1>1, <1>4, <2>1, FS_RemoveElement
<1>5. CASE conn[c] \in P <=> p \in P
  <2>1. In(P)' = In(P)
    BY <1>2, <1>5 DEF In
  <2> QED
    BY <1>1, <1>5, <2>1
<1> QED
  BY <1>1, <1>3, <1>4, <1>5

\* What a move of one handler does to the three sets the counters are about.
LEMMA Moves ==
  ASSUME TypeOK, HandlersAccounted, NEW c \in Conns, NEW p \in Places,
         conn' = [conn EXCEPT ![c] = p]
  PROVE  /\ Cardinality(In(Holding)') = n["sem"] + (IF p \in Holding THEN 1 ELSE 0)
                                          - (IF conn[c] \in Holding THEN 1 ELSE 0)
         /\ Cardinality(In(Live)') = n["wg"] + (IF p \in Live THEN 1 ELSE 0)
                                       - (IF conn[c] \in Live THEN 1 ELSE 0)
         /\ Cardinality(In(Serving)') = n["active"] + (IF p \in Serving THEN 1 ELSE 0)
                                          - (IF conn[c] \in Serving THEN 1 ELSE 0)
<1>1. /\ n["sem"] = Cardinality(In(Holding))
      /\ n["wg"] = Cardinality(In(Live))
      /\ n["active"] = Cardinality(In(Serving))
  BY DEF HandlersAccounted, Holding, Live
<1>2. n["sem"] \in Nat /\ n["wg"] \in Nat /\ n["active"] \in Nat
  BY DEF TypeOK, Counters
<1>3. \A P : /\ Cardinality(In(P)) \in Nat
             /\ conn[c] \notin P /\ p \in P => Cardinality(In(P)') = Cardinality(In(P)) + 1
             /\ conn[c] \in P /\ p \notin P => Cardinality(In(P)') = Cardinality(In(P)) - 1
             /\ (conn[c] \in P <=> p \in P) => Cardinality(In(P)') = Cardinality(In(P))
  BY InMoves
<1>4. Cardinality(In(Holding)') = n["sem"] + (IF p \in Holding THEN 1 ELSE 0)
                                    - (IF conn[c] \in Holding THEN 1 ELSE 0)
  BY <1>1, <1>2, <1>3
<1>5. Cardinality(In(Live)') = n["wg"] + (IF p \in Live THEN 1 ELSE 0)
                                 - (IF conn[c] \in Live THEN 1 ELSE 0)
  BY <1>1, <1>2, <1>3
<1>6. Cardinality(In(Serving)') = n["active"] + (IF p \in Serving THEN 1 ELSE 0)
                                    - (IF conn[c] \in Serving THEN 1 ELSE 0)
  BY <1>1, <1>2, <1>3
<1> QED
  BY <1>4, <1>5, <1>6

-----------------------------------------------------------------------------
(***************************************************************************)
(* The inductive invariant.                                                *)
(***************************************************************************)
\* Start holds a connection exactly between Accept and the select on connSem,
\* and nobody else has touched that one.
HeldIsNew ==
  /\ acceptor = "admit" => \E c \in Conns : held = {c} /\ conn[c] = "new"
  /\ acceptor # "admit" => held = {}

\* The order in which a signal takes effect: the context, s.shutdown, and then
\* the listener and the end of the accept loop.
SignalOrder ==
  /\ shutdown => ctxDone
  /\ ~listening => shutdown
  /\ acceptor \in {"drain", "drained", "forced"} => shutdown

\* s.wg.Wait() has returned, and s.wg.Add is not called again.
WaitedForAll == acceptor = "drained" => n["wg"] = 0

\* A handler that still runs has waited through every tick of the drain, which
\* no tick passes unless somebody waits; a forced end comes after all of them.
DrainAges ==
  /\ acceptor \notin {"drain", "drained", "forced"}
       => drainAge = 0 /\ \A c \in Conns : age[c] = 0
  /\ \A c \in In(Live) : age[c] = drainAge
  /\ drainAge > 0 => \E c \in Conns : age[c] = drainAge
  /\ acceptor = "forced" => drainAge >= DrainTicks

IInv ==
  /\ TypeOK
  /\ HandlersAccounted
  /\ HeldIsNew
  /\ SignalOrder
  /\ WaitedForAll
  /\ SignalIsNotFatal
  /\ DrainAges

-----------------------------------------------------------------------------
(***************************************************************************)
(* The goroutine of a connection.                                          *)
(***************************************************************************)
\* Handler c goes on to p.  The counters follow the places it leaves and comes
\* to; a token of connSem is never taken on the way.
MovesTo(c, p) ==
  /\ acceptor \notin Exited
  /\ conn[c] \in Live
  /\ p \in Holding => conn[c] \in Holding
  /\ conn' = [conn EXCEPT ![c] = p]
  /\ n' \in [Counters -> Int]
  /\ n'["sem"] = n["sem"] + (IF p \in Holding THEN 1 ELSE 0)
                   - (IF conn[c] \in Holding THEN 1 ELSE 0)
  /\ n'["wg"] = n["wg"] + (IF p \in Live THEN 1 ELSE 0)
                  - (IF conn[c] \in Live THEN 1 ELSE 0)
  /\ n'["active"] = n["active"] + (IF p \in Serving THEN 1 ELSE 0)
                      - (IF conn[c] \in Serving THEN 1 ELSE 0)
  /\ n'["errors"] >= n["errors"]
  /\ n'["relays"] >= n["relays"]
  /\ UNCHANGED <<server, signals, age>>

\* Every step of a handler is of that form.
LEMMA HandlerMoves ==
  ASSUME TypeOK, NEW c \in Conns, Handle(c) \/ WriteOver(c)
  PROVE  \E p \in Live \cup {"closed"} : MovesTo(c, p)
<1> USE DEF TypeOK, Counters, GoTo, MovesTo, Holding, Live, Serving
<1>1. CASE Begin(c)
  BY <1>1 DEF Begin
<1>2. CASE Peeked(c)
  BY <1>2 DEF Peeked
<1>3. CASE Fail(c)
  BY <1>3 DEF Fail
<1>4. CASE Answered(c)
  BY <1>4 DEF Answered
<1>5. CASE Dialled(c)
  BY <1>5 DEF Dialled
<1>6. CASE RelayEnds(c)
  BY <1>6 DEF RelayEnds
<1>7. CASE RelayCut(c)
  BY <1>7 DEF RelayCut
<1>8. CASE Release(c)
  BY <1>8 DEF Release
<1>9. CASE WgDone(c)
  BY <1>9 DEF WgDone
<1>10. CASE Written(c)
  BY <1>10 DEF Written
<1>11. CASE WriteFails(c)
  BY <1>11 DEF WriteFails
<1> QED
  BY <1>1, <1>2, <1>3, <1>4, <1>5, <1>6, <1>7, <1>8, <1>9, <1>10, <1>11
  DEF Handle, WriteOver

\* There are finitely many handlers in any set of places, before and after a
\* step.
LEMMA InCounts ==
  ASSUME NEW P
  PROVE  /\ IsFiniteSet(In(P)) /\ Cardinality(In(P)) \in Nat
         /\ IsFiniteSet(In(P)') /\ Cardinality(In(P)') \in Nat
<1>1. In(P) \subseteq Conns /\ In(P)' \subseteq Conns
  BY DEF In
<1> QED
  BY <1>1, SNIAssumption, FS_Subset, FS_CardinalityType

\* A step of a handler keeps the invariant.
LEMMA HandlerKeeps ==
  ASSUME IInv, NEW c \in Conns, NEW p \in Live \cup {"closed"}, MovesTo(c, p)
  PROVE  IInv'
<1>1. TypeOK /\ HandlersAccounted /\ p \in Places
  BY DEF IInv, Live, Serving, Places
<1>2. \A d \in Conns : conn'[d] = IF d = c THEN p ELSE conn[d]
  BY <1>1 DEF TypeOK, MovesTo
<1>3. /\ n'["sem"] = Cardinality(In(Holding)')
      /\ n'["wg"] = Cardinality(In(Live)')
      /\ n'["active"] = Cardinality(In(Serving)')
  BY <1>1, Moves DEF MovesTo
<1>4. HandlersAccounted'
  BY <1>3 DEF HandlersAccounted, Holding, Live
<1>5. TypeOK'
  <2>1. n' \in [Counters -> Nat]
    <3>1. n'["sem"] \in Nat /\ n'["wg"] \in Nat /\ n'["active"] \in Nat
      BY <1>3, InCounts
    <3>2. n'["errors"] \in Nat /\ n'["relays"] \in Nat
      BY <1>1 DEF TypeOK, MovesTo, Counters
    <3> QED
      BY <3>1, <3>2 DEF MovesTo, Counters
  <2>2. n'["sem"] <= MaxConns
    BY <1>1, SNIAssumption DEF TypeOK, MovesTo, Counters
  <2>3. conn' \in [Conns -> Places]
    BY <1>1 DEF TypeOK, MovesTo
  <2> QED
    BY <1>1, <2>1, <2>2, <2>3 DEF TypeOK, MovesTo, server, signals
<1>6. HeldIsNew'
  <2>1. conn[c] # "new"
    BY DEF MovesTo, Live, Serving
  <2> QED
    BY <1>2, <2>1 DEF IInv, HeldIsNew, MovesTo, server
<1>7. SignalOrder' /\ WaitedForAll' /\ SignalIsNotFatal'
  BY DEF IInv, SignalOrder, WaitedForAll, SignalIsNotFatal, MovesTo, server, signals, Exited
<1>8. DrainAges'
  <2>1. In(Live)' \subseteq In(Live)
    BY <1>2 DEF In, MovesTo
  <2> QED
    BY <2>1 DEF IInv, DrainAges, MovesTo, server
<1> QED
  BY <1>4, <1>5, <1>6, <1>7, <1>8 DEF IInv

-----------------------------------------------------------------------------
(***************************************************************************)
(* The accept loop, the signal and the drain.                              *)
(***************************************************************************)
\* A step that leaves the handlers and their counters alone keeps the part of the
\* invariant that is about them.
LEMMA HandlersUnchanged ==
  ASSUME IInv, UNCHANGED <<conn, n>>
  PROVE  HandlersAccounted' /\ (\A P : In(P)' = In(P))
BY DEF IInv, HandlersAccounted, In

\* Initial states satisfy the invariant.
LEMMA IInvInit == Init => IInv
<1> SUFFICES ASSUME Init PROVE IInv
  OBVIOUS
<1>1. In(Holding) = {} /\ In(Live) = {} /\ In(Serving) = {}
  BY DEF Init, In, Holding, Live, Serving
<1>2. HandlersAccounted
  BY <1>1, FS_EmptySet DEF Init, HandlersAccounted, Counters, Holding, Live
<1>3. TypeOK
  <2>1. n \in [Counters -> Nat] /\ n["sem"] <= MaxConns
    BY SNIAssumption DEF Init, Counters
  <2>2. conn \in [Conns -> Places] /\ age \in [Conns -> Nat]
    BY DEF Init, Places
  <2> QED
    BY <2>1, <2>2 DEF Init, TypeOK
<1> QED
  BY <1>1, <1>2, <1>3 DEF IInv, Init, HeldIsNew, SignalOrder, WaitedForAll,
                          SignalIsNotFatal, DrainAges

\* A connection that is admitted gets its token, its place in the wait group and
\* its goroutine together.
LEMMA AdmitKeeps ==
  ASSUME IInv, NEW c \in Conns, Admit(c)
  PROVE  IInv'
<1>1. TypeOK /\ HandlersAccounted /\ "start" \in Places
  BY DEF IInv, Places
<1>2. conn[c] = "new"
  BY DEF IInv, HeldIsNew, Admit
<1>3. \A d \in Conns : conn'[d] = IF d = c THEN "start" ELSE conn[d]
  BY <1>1 DEF TypeOK, Admit
<1>4. HandlersAccounted'
  <2>1. /\ "start" \in Holding /\ "start" \in Live /\ "start" \notin Serving
        /\ conn[c] \notin Holding /\ conn[c] \notin Live /\ conn[c] \notin Serving
    BY <1>2 DEF Holding, Live, Serving
  <2>2. /\ n'["sem"] = n["sem"] + 1 /\ n'["wg"] = n["wg"] + 1 /\ n'["active"] = n["active"]
        /\ n["sem"] \in Nat /\ n["wg"] \in Nat /\ n["active"] \in Nat
    BY <1>1 DEF TypeOK, Counters, Admit
  <2>3. conn' = [conn EXCEPT ![c] = "start"]
    BY DEF Admit
  <2>4. /\ Cardinality(In(Holding)') = n["sem"] + 1 - 0
        /\ Cardinality(In(Live)') = n["wg"] + 1 - 0
        /\ Cardinality(In(Serving)') = n["active"] + 0 - 0
    BY <1>1, <2>1, <2>3, Moves, Zenon
  <2>5. /\ n'["sem"] = Cardinality(In(Holding)')
        /\ n'["wg"] = Cardinality(In(Live)')
        /\ n'["active"] = Cardinality(In(Serving)')
    BY <2>2, <2>4
  <2> QED
    BY <2>5 DEF HandlersAccounted, Holding, Live
<1>5. TypeOK'
  BY <1>1, SNIAssumption DEF TypeOK, Admit, Decided, Counters, signals
<1>6. HeldIsNew' /\ SignalOrder' /\ WaitedForAll' /\ SignalIsNotFatal'
  BY DEF IInv, HeldIsNew, SignalOrder, WaitedForAll, SignalIsNotFatal, Admit, Decided, signals
<1>7. DrainAges'
  BY DEF IInv, DrainAges, Admit, Decided, In
<1> QED
  BY <1>4, <1>5, <1>6, <1>7 DEF IInv

\* A connection that is refused changes no counter.
LEMMA RefuseKeeps ==
  ASSUME IInv, NEW c \in Conns, Refuse(c)
  PROVE  IInv'
<1>1. TypeOK /\ HandlersAccounted /\ "refused" \in Places
  BY DEF IInv, Places
<1>2. conn[c] = "new" /\ conn' = [conn EXCEPT ![c] = "refused"]
  BY DEF IInv, HeldIsNew, Refuse
<1>3. In(Holding)' = In(Holding) /\ In(Live)' = In(Live) /\ In(Serving)' = In(Serving)
  <2>1. /\ "refused" \notin Holding /\ "refused" \notin Live /\ "refused" \notin Serving
        /\ "new" \notin Holding /\ "new" \notin Live /\ "new" \notin Serving
    BY DEF Holding, Live, Serving
  <2> QED
    BY <1>1, <1>2, <2>1, InMoves
<1>4. HandlersAccounted'
  BY <1>1, <1>3 DEF HandlersAccounted, Holding, Live, Refuse
<1>5. TypeOK'
  BY <1>1, <1>2 DEF TypeOK, Refuse, Decided, signals
<1>6. HeldIsNew' /\ SignalOrder' /\ WaitedForAll' /\ SignalIsNotFatal'
  BY DEF IInv, HeldIsNew, SignalOrder, WaitedForAll, SignalIsNotFatal, Refuse, Decided, signals
<1>7. DrainAges'
  BY <1>3 DEF IInv, DrainAges, Refuse, Decided
<1> QED
  BY <1>4, <1>5, <1>6, <1>7 DEF IInv

\* Ten seconds pass only while every handler that is left is waiting.
LEMMA TickKeeps ==
  ASSUME IInv, Tick
  PROVE  IInv'
<1>1. TypeOK /\ HandlersAccounted' /\ In(Live)' = In(Live)
  BY HandlersUnchanged DEF IInv, Tick
<1>2. TypeOK'
  BY <1>1 DEF TypeOK, Tick, signals
<1>3. HeldIsNew' /\ SignalOrder' /\ WaitedForAll' /\ SignalIsNotFatal'
  BY DEF IInv, HeldIsNew, SignalOrder, WaitedForAll, SignalIsNotFatal, Tick, signals
<1>4. DrainAges'
  <2>1. ctxDone
    BY DEF IInv, SignalOrder, Tick
  <2>2. \A c \in In(Live) : Waiting(c) /\ age[c] = drainAge
    BY <2>1 DEF IInv, DrainAges, Tick, In, Live, Serving, Waiting, Urgent, UnderDeadline
  <2>3. \A c \in In(Live) : age'[c] = drainAge'
    BY <1>1, <2>2 DEF Tick, TypeOK, In
  <2>4. \E c \in Conns : c \in In(Live)
    <3>1. Cardinality(In(Live)) > 0
      BY DEF IInv, HandlersAccounted, Live, Tick
    <3>2. In(Live) # {}
      BY <3>1, FS_EmptySet
    <3> QED
      BY <3>2 DEF In
  <2> QED
    BY <1>1, <2>3, <2>4 DEF DrainAges, Tick
<1> QED
  BY <1>1, <1>2, <1>3, <1>4 DEF IInv

\* The remaining steps leave the handlers alone.
LEMMA OthersKeep ==
  ASSUME IInv,
         \/ LoopTop
         \/ \E c \in Conns : Accept(c)
         \/ AcceptFails \/ Drained \/ DrainTimeout
         \/ watchShutdown \/ Cancel
         \/ UNCHANGED vars
  PROVE  IInv'
<1> USE DEF IInv, TypeOK, HeldIsNew, SignalOrder, WaitedForAll, SignalIsNotFatal, Exited,
            server, signals, handlers
<1>1. UNCHANGED <<conn, n, age>>
  BY DEF LoopTop, Accept, AcceptFails, Drained, DrainTimeout, DrainEnds, watchShutdown,
         CloseShutdown, CloseListener, Cancel, vars
<1>2. HandlersAccounted' /\ In(Live)' = In(Live)
  BY <1>1, HandlersUnchanged
<1>3. CASE LoopTop
  BY <1>1, <1>2, <1>3 DEF LoopTop, DrainAges
<1>4. ASSUME NEW c \in Conns, Accept(c) PROVE IInv'
  BY <1>1, <1>2, <1>4 DEF Accept, DrainAges
<1>5. CASE AcceptFails
  BY <1>1, <1>2, <1>5 DEF AcceptFails, DrainAges
<1>6. CASE Drained
  BY <1>1, <1>2, <1>6 DEF Drained, DrainEnds, DrainAges
<1>7. CASE DrainTimeout
  BY <1>1, <1>2, <1>7 DEF DrainTimeout, DrainEnds, DrainAges
<1>8. CASE watchShutdown
  BY <1>1, <1>2, <1>8 DEF watchShutdown, CloseShutdown, CloseListener, DrainAges
<1>9. CASE Cancel
  BY <1>1, <1>2, <1>9 DEF Cancel, DrainAges
<1>10. CASE UNCHANGED vars
  BY <1>1, <1>2, <1>10 DEF vars, DrainAges
<1> QED
  BY <1>3, <1>4, <1>5, <1>6, <1>7, <1>8, <1>9, <1>10

\* Every step keeps the invariant.
LEMMA IInvNext == IInv /\ [Next]_vars => IInv'
<1> SUFFICES ASSUME IInv, [Next]_vars PROVE IInv'
  OBVIOUS
<1>1. ASSUME NEW c \in Conns, Handle(c) \/ WriteOver(c) PROVE IInv'
  <2>1. PICK p \in Live \cup {"closed"} : MovesTo(c, p)
    BY <1>1, HandlerMoves DEF IInv
  <2> QED
    BY <2>1, HandlerKeeps
<1>2. ASSUME NEW c \in Conns, Admit(c) PROVE IInv'
  BY <1>2, AdmitKeeps
<1>3. ASSUME NEW c \in Conns, Refuse(c) PROVE IInv'
  BY <1>3, RefuseKeeps
<1> QED
  BY <1>1, <1>2, <1>3, TickKeeps, OthersKeep DEF Next, Start

\* The invariant holds throughout.
LEMMA IInvHolds == Spec => []IInv
<1>1. Init => IInv
  BY IInvInit
<1>2. IInv /\ [Next]_vars => IInv'
  BY IInvNext
<1> QED
  BY <1>1, <1>2, PTL DEF Spec

-----------------------------------------------------------------------------
(***************************************************************************)
(* The theorems.                                                           *)
(***************************************************************************)
\* The variables keep their types, and connSem never holds more than MaxConns
\* tokens.
THEOREM TypeCorrect == Spec => []TypeOK
<1>1. IInv => TypeOK
  BY DEF IInv
<1> QED
  BY <1>1, IInvHolds, PTL

\* connSem, s.wg and MetricActiveConns agree with the goroutines at every point
\* of every interleaving: no path out of a handler leaks a token or returns one
\* twice.
THEOREM HandlersAccountedHolds == Spec => []HandlersAccounted
<1>1. IInv => HandlersAccounted
  BY DEF IInv
<1> QED
  BY <1>1, IInvHolds, PTL

\* When drainConnections says that all connections are drained, no handler runs
\* and none is yet to be started.
THEOREM DrainedMeansIdleHolds == Spec => []DrainedMeansIdle
<1>1. IInv => DrainedMeansIdle
  <2> SUFFICES ASSUME IInv, acceptor = "drained"
               PROVE  held = {} /\ In(Places \ {"new", "closed", "refused"}) = {}
    BY DEF DrainedMeansIdle
  <2>1. Cardinality(In(Live)) = 0
    BY DEF IInv, WaitedForAll, HandlersAccounted, Live
  <2>2. In(Live) = {}
    BY <2>1, InCounts, FS_EmptySet
  <2>3. Places \ {"new", "closed", "refused"} = Live
    BY DEF Places, Live, Serving
  <2> QED
    BY <2>2, <2>3 DEF IInv, HeldIsNew
<1> QED
  BY <1>1, IInvHolds, PTL

\* A signal never makes Start return an error, which main turns into log.Fatal.
THEOREM SignalIsNotFatalHolds == Spec => []SignalIsNotFatal
<1>1. IInv => SignalIsNotFatal
  BY DEF IInv
<1> QED
  BY <1>1, IInvHolds, PTL

\* If the drain timeout fires, some handler has waited for longer than any
\* deadline of the code allows.
THEOREM DrainCompletesHolds == Spec => []DrainCompletes
<1>1. IInv => DrainCompletes
  BY SNIAssumption DEF IInv, DrainAges, DrainCompletes, DeadlineTicks, TypeOK
<1> QED
  BY <1>1, IInvHolds, PTL

-----------------------------------------------------------------------------
(***************************************************************************)
(* The server implements Gate.                                             *)
(***************************************************************************)
\* What stands for the gate's variable place.
GatePlaces == [c \in Conns |-> GatePlace(c)]

\* The connections inside the gate are those that hold a token.
LEMMA InsideHolds ==
  ASSUME TypeOK
  PROVE  TheGate!Inside = In(Holding)
<1>1. \A c \in Conns : GatePlace(c) = "inside" <=> conn[c] \in Holding
  BY DEF TypeOK, Places, GatePlace, Holding, Serving
<1> QED
  BY <1>1 DEF TheGate!Inside, In

\* Gate counts as the server does.
LEMMA GateCardinality == \A S : TheGate!Cardinality(S) = Cardinality(S)
BY DEF TheGate!Cardinality, Cardinality

\* A connection that goes on to p changes its place at the gate only.
LEMMA PlaceMoves ==
  ASSUME TypeOK, NEW c \in Conns, NEW p \in Places, conn' = [conn EXCEPT ![c] = p],
         NEW where, where = CASE p = "new" -> "outside"
                              [] p = "refused" -> "refused"
                              [] p \in {"released", "closed"} -> "left"
                              [] OTHER -> "inside"
  PROVE  GatePlaces' = [GatePlaces EXCEPT ![c] = where]
<1>1. \A d \in Conns : conn'[d] = IF d = c THEN p ELSE conn[d]
  BY DEF TypeOK
<1>2. \A d \in Conns : GatePlace(d)' = IF d = c THEN where ELSE GatePlace(d)
  BY <1>1 DEF GatePlace
<1> QED
  BY <1>2 DEF GatePlaces

\* A handler's step is unseen at the gate, or it is Leave.
LEMMA HandlerAtGate ==
  ASSUME IInv, NEW c \in Conns, NEW p \in Live \cup {"closed"}, MovesTo(c, p)
  PROVE  [TheGate!Next]_(TheGate!vars)
<1>1. TypeOK /\ p \in Places /\ conn' = [conn EXCEPT ![c] = p]
  BY DEF IInv, Live, Serving, Places, MovesTo
<1>2. UNCHANGED <<acceptor, shutdown>> /\ GateEnd' = GateEnd /\ GateEnd = "none"
  BY DEF MovesTo, server, signals, GateEnd, Exited
<1>3. CASE p \in Holding \/ conn[c] = "released"
  <2>1. GatePlace(c) = CASE p = "new" -> "outside"
                         [] p = "refused" -> "refused"
                         [] p \in {"released", "closed"} -> "left"
                         [] OTHER -> "inside"
    <3>1. p \in Holding => p \notin {"new", "refused", "released", "closed"}
                             /\ conn[c] \notin {"new", "refused", "released", "closed"}
      BY DEF Holding, Serving, MovesTo
    <3>2. conn[c] = "released" => p \in {"released", "closed"}
      BY DEF Holding, Serving, Live, MovesTo
    <3> QED
      BY <1>3, <3>1, <3>2 DEF GatePlace
  <2>2. GatePlaces' = [GatePlaces EXCEPT ![c] = GatePlace(c)]
    BY <1>1, <2>1, PlaceMoves
  <2>3. GatePlaces' = GatePlaces
    BY <2>2 DEF GatePlaces
  <2> QED
    BY <1>2, <2>3 DEF TheGate!vars, GatePlaces
<1>4. CASE p \notin Holding /\ conn[c] # "released"
  <2>1. p \in {"released", "closed"} /\ GatePlace(c) = "inside"
    BY <1>4 DEF MovesTo, Holding, Live, Serving, GatePlace
  <2>2. GatePlaces' = [GatePlaces EXCEPT ![c] = "left"]
    BY <1>1, <2>1, PlaceMoves
  <2>3. TheGate!Leave(c)
    BY <1>2, <2>1, <2>2 DEF TheGate!Leave, GatePlaces
  <2> QED
    BY <2>3 DEF TheGate!Next
<1> QED
  BY <1>3, <1>4

\* A connection that is admitted enters the gate, which has room.
LEMMA AdmitAtGate ==
  ASSUME IInv, NEW c \in Conns, Admit(c)
  PROVE  TheGate!Next
<1>1. TypeOK /\ conn[c] = "new" /\ "start" \in Places
  BY DEF IInv, HeldIsNew, Admit, Places
<1>2. GatePlaces' = [GatePlaces EXCEPT ![c] = "inside"] /\ GatePlaces[c] = "outside"
  <2>1. GatePlaces[c] = "outside"
    BY <1>1 DEF GatePlaces, GatePlace
  <2>2. "inside" = CASE "start" = "new" -> "outside"
                     [] "start" = "refused" -> "refused"
                     [] "start" \in {"released", "closed"} -> "left"
                     [] OTHER -> "inside"
    OBVIOUS
  <2> QED
    BY <1>1, <2>1, <2>2, PlaceMoves DEF Admit
<1>3. /\ GateEnd = "none" /\ GateEnd' = "none"
      /\ UNCHANGED shutdown
      /\ acceptor = "admit" /\ acceptor' = "select"
  BY DEF Admit, Decided, GateEnd, signals
<1>4. Cardinality(TheGate!Inside) < MaxConns
  BY <1>1, InsideHolds DEF IInv, HandlersAccounted, Holding, Admit
<1>5. TheGate!Decide(c, "inside")
  BY <1>1, <1>2, <1>3 DEF TheGate!Decide, GatePlaces, TypeOK
<1> QED
  BY <1>4, <1>5, GateCardinality DEF TheGate!Next, TheGate!Enter

\* One that is refused is turned away by a full gate.
LEMMA RefuseAtGate ==
  ASSUME IInv, NEW c \in Conns, Refuse(c)
  PROVE  TheGate!Next
<1>1. TypeOK /\ conn[c] = "new" /\ "refused" \in Places
  BY DEF IInv, HeldIsNew, Refuse, Places
<1>2. GatePlaces' = [GatePlaces EXCEPT ![c] = "refused"] /\ GatePlaces[c] = "outside"
  BY <1>1, PlaceMoves DEF Refuse, GatePlaces, GatePlace
<1>3. /\ GateEnd = "none" /\ GateEnd' = "none"
      /\ UNCHANGED shutdown
      /\ acceptor = "admit" /\ acceptor' = "select"
  BY DEF Refuse, Decided, GateEnd, signals
<1>4. Cardinality(TheGate!Inside) = MaxConns
  <2>1. n["sem"] \in Nat /\ n["sem"] <= MaxConns /\ n["sem"] >= MaxConns
    BY <1>1 DEF TypeOK, Counters, Refuse
  <2> QED
    BY <1>1, <2>1, SNIAssumption, InsideHolds DEF IInv, HandlersAccounted, Holding
<1>5. TheGate!Decide(c, "refused")
  BY <1>1, <1>2, <1>3 DEF TheGate!Decide, GatePlaces, TypeOK
<1> QED
  BY <1>4, <1>5, GateCardinality DEF TheGate!Next, TheGate!TurnAway

\* The other steps: s.shutdown is closed, the last Accept has failed, Start
\* returns, or nothing is seen at the gate.
LEMMA OthersAtGate ==
  ASSUME IInv,
         \/ LoopTop
         \/ \E c \in Conns : Accept(c)
         \/ AcceptFails \/ Drained \/ DrainTimeout
         \/ watchShutdown \/ Cancel \/ Tick
         \/ UNCHANGED vars
  PROVE  [TheGate!Next]_(TheGate!vars)
<1> USE DEF server, signals, handlers, GateEnd, TypeOK
<1>0. TypeOK /\ SignalOrder
  BY DEF IInv
<1>1. UNCHANGED conn
  BY DEF LoopTop, Accept, AcceptFails, Drained, DrainTimeout, DrainEnds, watchShutdown,
         CloseShutdown, CloseListener, Cancel, Tick, vars
<1>2. [c \in Conns |-> GatePlace(c)]' = [c \in Conns |-> GatePlace(c)]
  BY <1>1 DEF GatePlace
<1>3. CASE LoopTop
  BY <1>0, <1>2, <1>3 DEF LoopTop, TheGate!vars
<1>4. ASSUME NEW c \in Conns, Accept(c) PROVE UNCHANGED TheGate!vars
  BY <1>0, <1>2, <1>4 DEF Accept, TheGate!vars
<1>5. CASE AcceptFails
  <2>1. CASE shutdown
    <3>1. TheGate!EndLastCall
      BY <1>0, <1>2, <1>5, <2>1 DEF AcceptFails, TheGate!EndLastCall
    <3> QED
      BY <3>1 DEF TheGate!Next
  <2>2. CASE ~shutdown
    <3>1. TheGate!Shut("error")
      BY <1>0, <1>2, <1>5, <2>2 DEF AcceptFails, TheGate!Shut
    <3> QED
      BY <3>1 DEF TheGate!Next
  <2> QED
    BY <2>1, <2>2
<1>6. CASE Drained
  <2>1. Cardinality(In(Live)) = 0
    BY <1>6 DEF IInv, HandlersAccounted, Live, Drained
  <2>2. In(Live) = {}
    BY <2>1, InCounts, FS_EmptySet
  <2>3. TheGate!Inside = {}
    BY <1>0, <2>2, InsideHolds DEF In, Live, Holding
  <2>4. TheGate!Shut("clean")
    BY <1>0, <1>2, <1>6, <2>3 DEF Drained, DrainEnds, SignalOrder, TheGate!Shut
  <2> QED
    BY <2>4 DEF TheGate!Next
<1>7. CASE DrainTimeout
  <2>1. TheGate!Shut("forced")
    BY <1>0, <1>2, <1>7 DEF DrainTimeout, DrainEnds, SignalOrder, TheGate!Shut
  <2> QED
    BY <2>1 DEF TheGate!Next
<1>8. CASE CloseShutdown
  <2>1. TheGate!Close
    BY <1>0, <1>2, <1>8 DEF CloseShutdown, TheGate!Close
  <2> QED
    BY <2>1 DEF TheGate!Next
<1>9. CASE CloseListener \/ Cancel
  BY <1>0, <1>2, <1>9 DEF CloseListener, Cancel, TheGate!vars
<1>10. CASE Tick
  BY <1>0, <1>2, <1>10 DEF Tick, TheGate!vars
<1>11. CASE UNCHANGED vars
  BY <1>0, <1>2, <1>11 DEF vars, TheGate!vars
<1> QED
  BY <1>3, <1>4, <1>5, <1>6, <1>7, <1>8, <1>9, <1>10, <1>11 DEF watchShutdown

\* The server keeps what Gate promises.
THEOREM ImplementsGateHolds == Spec => ImplementsGate
<1>1. Init => TheGate!Init
  BY DEF Init, TheGate!Init, GatePlace, GateEnd
<1>2. IInv /\ [Next]_vars => [TheGate!Next]_(TheGate!vars)
  <2> SUFFICES ASSUME IInv, [Next]_vars PROVE [TheGate!Next]_(TheGate!vars)
    OBVIOUS
  <2>1. ASSUME NEW c \in Conns, Handle(c) \/ WriteOver(c)
        PROVE  [TheGate!Next]_(TheGate!vars)
    <3>1. PICK p \in Live \cup {"closed"} : MovesTo(c, p)
      BY <2>1, HandlerMoves DEF IInv
    <3> QED
      BY <3>1, HandlerAtGate
  <2>2. ASSUME NEW c \in Conns, Admit(c) PROVE TheGate!Next
    BY <2>2, AdmitAtGate
  <2>3. ASSUME NEW c \in Conns, Refuse(c) PROVE TheGate!Next
    BY <2>3, RefuseAtGate
  <2> QED
    BY <2>1, <2>2, <2>3, OthersAtGate DEF Next, Start
<1> QED
  BY <1>1, <1>2, IInvHolds, PTL DEF Spec, ImplementsGate, TheGate!Spec

=============================================================================
