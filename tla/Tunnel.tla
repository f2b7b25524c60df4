-------------------------------- MODULE Tunnel --------------------------------
(***************************************************************************)
(* One tunnel between a client and a target: the relay of the HTTP proxy's *)
(* handleConnect, of the SOCKS5 server's handleConnection and of the SNI   *)
(* proxy's HandleConnection.  Each runs two goroutines that copy one       *)
(* direction each, and a handler that waits for them on the channel done,  *)
(* reads the two byte counts, records them and closes both connections.    *)
(* handleConnect begins by taking the client's connection over (Hijack).   *)
(*                                                                         *)
(* The peers are the environment: they send, end their output, stop        *)
(* reading, or go away.  A byte is modelled only by being counted.         *)
(***************************************************************************)
EXTENDS Integers

\* The servers and the connections they relay between: a client's may be a
\* *tls.Conn (the HTTPS port of the HTTP proxy, and always in the SNI proxy),
\* and BandwidthSpeedMbps > 0 makes both ends a *ThrottledConn, except in the
\* SNI proxy.  "connect" stands for handleConnect, "socks" for
\* handleConnection, "sni" for HandleConnection.
Relays ==
  {k \in [server : {"connect", "socks", "sni"}, tls : BOOLEAN, throttled : BOOLEAN] :
     /\ k.server = "socks" => ~k.tls
     /\ k.server = "sni" => k.tls /\ ~k.throttled}

CONSTANTS
  Kinds,       \* the relays looked at
  MaxSent      \* bound: bytes a peer sends

ASSUME TunnelAssumption ==
  /\ Kinds \subseteq Relays
  /\ MaxSent \in Nat

VARIABLES
  sent,         \* bytes the source of a direction has sent
  moved,        \* of these, the bytes its copier has written to the other end
  fin,          \* directions whose source has ended its output
  gone,         \* peers that have closed altogether and take no more input
  deaf,         \* peers that stay but no longer read: a write to them blocks
  copier,       \* what the goroutine of a direction is about to do
  counted,      \* the handler's variables upBytes and downBytes
  halfClosed,   \* directions whose destination got a CloseWrite
  done,         \* tokens in the channel done
  handler,      \* what the handler is about to do
  charged,      \* bytes passed to RecordBytes
  shut,         \* connections the handler has closed
  ctxDone,      \* the context is cancelled; only HandleConnection looks at it
  kind,         \* the server and the two connections of this tunnel
  early         \* bytes a CONNECT client sent before Hijack, and those of them lost

vars == <<sent, moved, fin, gone, deaf, copier, counted, halfClosed, done, handler,
          charged, shut, ctxDone, kind, early>>

Dirs == {"up", "down"}
Peers == {"client", "target"}

Src(d) == IF d = "up" THEN "client" ELSE "target"
Dst(d) == IF d = "up" THEN "target" ELSE "client"

\* Bytes of d that went into the buffer Hijack returned.
Lost(d) == IF d = "up" THEN early.lost ELSE 0

\* Bytes of d that its copier has not got to yet.
Left(d) == sent[d] - Lost(d) - moved[d]

\* The target is connected.  handleConnect has to take the client's connection
\* from the HTTP server first.
Init ==
  /\ kind \in Kinds
  /\ sent = [d \in Dirs |-> 0]
  /\ moved = [d \in Dirs |-> 0]
  /\ fin = {}
  /\ gone = {}
  /\ deaf = {}
  /\ copier = [d \in Dirs |-> IF kind.server = "connect" THEN "new" ELSE "copy"]
  /\ counted = [d \in Dirs |-> 0]
  /\ halfClosed = {}
  /\ done = 0
  /\ handler = IF kind.server = "connect" THEN "hijack" ELSE "first"
  /\ charged = 0
  /\ shut = {}
  /\ ctxDone = FALSE
  /\ early = [sent |-> 0, lost |-> 0]

-----------------------------------------------------------------------------
(***************************************************************************)
(* The peers.                                                              *)
(***************************************************************************)
Send(d) ==
  /\ d \notin fin
  /\ Src(d) \notin shut
  /\ sent[d] < MaxSent
  /\ sent' = [sent EXCEPT ![d] = @ + 1]
  /\ early' = IF handler = "hijack" /\ d = "up" THEN [early EXCEPT !.sent = @ + 1] ELSE early
  /\ UNCHANGED <<moved, fin, gone, deaf, copier, counted, halfClosed, done, handler,
                 charged, shut, ctxDone, kind>>

\* A peer ends its output and can still be written to.
EndOutput(d) ==
  /\ d \notin fin
  /\ fin' = fin \cup {d}
  /\ UNCHANGED <<sent, moved, gone, deaf, copier, counted, halfClosed, done, handler,
                 charged, shut, ctxDone, kind, early>>

\* The destination of d can see that d is over.
InputEnded(d) == d \in halfClosed \/ Dst(d) \in shut

\* A peer that reads and whose input is over ends its output.
AnswerEnd(d) ==
  /\ Src(d) \notin deaf
  /\ \E e \in Dirs : Dst(e) = Src(d) /\ InputEnded(e)
  /\ EndOutput(d)

\* A peer reads no more, and what the network holds for it is full.
StopReading(p) ==
  /\ p \notin gone \cup deaf \cup shut
  /\ deaf' = deaf \cup {p}
  /\ UNCHANGED <<sent, moved, fin, gone, copier, counted, halfClosed, done, handler,
                 charged, shut, ctxDone, kind, early>>

GoAway(p) ==
  /\ p \notin gone
  /\ gone' = gone \cup {p}
  /\ deaf' = deaf \ {p}
  /\ fin' = fin \cup {d \in Dirs : Src(d) = p}
  /\ UNCHANGED <<sent, moved, copier, counted, halfClosed, done, handler,
                 charged, shut, ctxDone, kind, early>>

-----------------------------------------------------------------------------
(***************************************************************************)
(* Hijack.                                                                 *)
(***************************************************************************)
\* The buffer that comes with the connection is dropped, and with it the first of
\* the bytes the client sent before its 200; then the copiers start.
Hijack ==
  /\ handler = "hijack"
  /\ \E lost \in 0..early.sent : early' = [early EXCEPT !.lost = lost]
  /\ copier' = [d \in Dirs |-> "copy"]
  /\ handler' = "first"
  /\ UNCHANGED <<sent, moved, fin, gone, deaf, counted, halfClosed, done,
                 charged, shut, ctxDone, kind>>

\* The client's connection cannot be taken over: the target's is closed.
HijackFails ==
  /\ handler = "hijack"
  /\ handler' = "refused"
  /\ shut' = {"target"}
  /\ UNCHANGED <<sent, moved, fin, gone, deaf, copier, counted, halfClosed, done,
                 charged, ctxDone, kind, early>>

-----------------------------------------------------------------------------
(***************************************************************************)
(* The copying goroutines.                                                 *)
(***************************************************************************)
\* A read that returns data.
Read(d) ==
  /\ copier[d] = "copy"
  /\ Left(d) > 0
  /\ Src(d) \notin shut
  /\ copier' = [copier EXCEPT ![d] = "write"]
  /\ UNCHANGED <<sent, moved, fin, gone, deaf, counted, halfClosed, done, handler,
                 charged, shut, ctxDone, kind, early>>

\* The write of what was read, which blocks while the destination does not read.
\* io.Copy keeps its own count; copyData adds to the shared variable as it goes.
Write(d) ==
  /\ copier[d] = "write"
  /\ Dst(d) \notin shut \cup gone \cup deaf
  /\ moved' = [moved EXCEPT ![d] = @ + 1]
  /\ copier' = [copier EXCEPT ![d] = IF kind.server = "sni" THEN "tally" ELSE "copy"]
  /\ UNCHANGED <<sent, fin, gone, deaf, counted, halfClosed, done, handler,
                 charged, shut, ctxDone, kind, early>>

\* *bytes += int64(nw)
Tally(d) ==
  /\ copier[d] = "tally"
  /\ counted' = [counted EXCEPT ![d] = @ + 1]
  /\ copier' = [copier EXCEPT ![d] = "copy"]
  /\ UNCHANGED <<sent, moved, fin, gone, deaf, halfClosed, done, handler,
                 charged, shut, ctxDone, kind, early>>

\* Variant of CopyOver: copyData sets no deadline.
CopyOverNoDeadline(d) ==
  \/ /\ copier[d] = "copy"
     /\ \/ d \in fin /\ Left(d) = 0
        \/ Src(d) \in gone \cup shut
        \/ kind.server = "sni" /\ ctxDone
  \/ copier[d] = "write" /\ Dst(d) \in gone \cup shut

\* The copy loop reads the end of the stream, fails to read, or fails to write.
\* copyData also gives up when a read has waited for TimeoutSec, when it finds the
\* context cancelled before a read, or when a write has waited for the deadline
\* that the other copier has set for its own reads on the same connection.
CopyOver(d) ==
  \/ /\ copier[d] = "copy"
     /\ \/ d \in fin /\ Left(d) = 0
        \/ Src(d) \in gone \cup shut
        \/ kind.server = "sni" /\ (Left(d) = 0 \/ ctxDone)
  \/ copier[d] = "write" /\ (Dst(d) \in gone \cup shut \/ kind.server = "sni")

\* Variant of Count: what the source sent is counted, not what was written.
CountSent(d) ==
  /\ CopyOver(d)
  /\ counted' = [counted EXCEPT ![d] = sent[d]]
  /\ copier' = [copier EXCEPT ![d] = "signal"]
  /\ UNCHANGED <<sent, moved, fin, gone, deaf, halfClosed, done, handler,
                 charged, shut, ctxDone, kind, early>>

\* Variant of Count: the result of a copy that failed is thrown away.
CountIfNoError(d) ==
  /\ CopyOver(d)
  /\ counted' = [counted EXCEPT ![d] =
       IF kind.server # "sni" /\ d \in fin /\ Left(d) = 0 THEN moved[d] ELSE @]
  /\ copier' = [copier EXCEPT ![d] = IF kind.server = "connect" THEN "halfclose" ELSE "signal"]
  /\ UNCHANGED <<sent, moved, fin, gone, deaf, halfClosed, done, handler,
                 charged, shut, ctxDone, kind, early>>

\* The loop is over; io.Copy's result is assigned to upBytes or downBytes.
Count(d) ==
  /\ CopyOver(d)
  /\ counted' = [counted EXCEPT ![d] = IF kind.server = "sni" THEN @ ELSE moved[d]]
  /\ copier' = [copier EXCEPT ![d] = IF kind.server = "connect" THEN "halfclose" ELSE "signal"]
  /\ UNCHANGED <<sent, moved, fin, gone, deaf, halfClosed, done, handler,
                 charged, shut, ctxDone, kind, early>>

\* Variant of IsTCPConn: no connection has a CloseWrite.
NeverTCPConn(d) == d \notin Dirs

\* Whether the destination's dynamic type is *net.TCPConn, so that the type
\* assertion before CloseWrite succeeds.
IsTCPConn(d) == ~kind.throttled /\ ~(Dst(d) = "client" /\ kind.tls)

\* Variant of HalfClose: both connections are closed altogether.
CloseInstead(d) ==
  /\ copier[d] = "halfclose"
  /\ shut' = Peers
  /\ copier' = [copier EXCEPT ![d] = "signal"]
  /\ UNCHANGED <<sent, moved, fin, gone, deaf, counted, halfClosed, done, handler,
                 charged, ctxDone, kind, early>>

HalfClose(d) ==
  /\ copier[d] = "halfclose"
  /\ halfClosed' = IF IsTCPConn(d) THEN halfClosed \cup {d} ELSE halfClosed
  /\ copier' = [copier EXCEPT ![d] = "signal"]
  /\ UNCHANGED <<sent, moved, fin, gone, deaf, counted, done, handler,
                 charged, shut, ctxDone, kind, early>>

\* Variant of Signal: the channel has no buffer, a send needs a receiver.
SignalUnbuffered(d) ==
  /\ copier[d] = "signal"
  /\ handler \in {"first", "second"}
  /\ done = 0
  /\ done' = 1
  /\ copier' = [copier EXCEPT ![d] = "over"]
  /\ UNCHANGED <<sent, moved, fin, gone, deaf, counted, halfClosed, handler,
                 charged, shut, ctxDone, kind, early>>

\* done <- struct{}{}, on a channel with room for two.
Signal(d) ==
  /\ copier[d] = "signal"
  /\ done < 2
  /\ done' = done + 1
  /\ copier' = [copier EXCEPT ![d] = "over"]
  /\ UNCHANGED <<sent, moved, fin, gone, deaf, counted, halfClosed, handler,
                 charged, shut, ctxDone, kind, early>>

-----------------------------------------------------------------------------
(***************************************************************************)
(* The handler.                                                            *)
(***************************************************************************)
\* Variant of Receive: every handler waits for both copiers.
ReceiveTwice ==
  /\ handler \in {"first", "second"}
  /\ done > 0
  /\ done' = done - 1
  /\ handler' = IF handler = "first" THEN "second" ELSE "record"
  /\ UNCHANGED <<sent, moved, fin, gone, deaf, copier, counted, halfClosed,
                 charged, shut, ctxDone, kind, early>>

\* <-done: handleConnect receives twice, the two others once.
Receive ==
  /\ handler \in {"first", "second"}
  /\ done > 0
  /\ done' = done - 1
  /\ handler' = IF handler = "first" /\ kind.server = "connect" THEN "second" ELSE "record"
  /\ UNCHANGED <<sent, moved, fin, gone, deaf, copier, counted, halfClosed,
                 charged, shut, ctxDone, kind, early>>

\* HandleConnection's select takes the other case, <-ctx.Done().
StopWaiting ==
  /\ kind.server = "sni"
  /\ handler = "first"
  /\ ctxDone
  /\ handler' = "record"
  /\ UNCHANGED <<sent, moved, fin, gone, deaf, copier, counted, halfClosed, done,
                 charged, shut, ctxDone, kind, early>>

\* Variant of RecordUsage: the two counts are taken for one.
RecordLarger ==
  /\ handler = "record"
  /\ charged' = IF counted["up"] > counted["down"] THEN counted["up"] ELSE counted["down"]
  /\ handler' = "close"
  /\ UNCHANGED <<sent, moved, fin, gone, deaf, copier, counted, halfClosed, done, shut,
                 ctxDone, kind, early>>

\* Reads upBytes and downBytes, whatever the goroutines have assigned by now.
RecordUsage ==
  /\ handler = "record"
  /\ charged' = counted["up"] + counted["down"]
  /\ handler' = "close"
  /\ UNCHANGED <<sent, moved, fin, gone, deaf, copier, counted, halfClosed, done, shut,
                 ctxDone, kind, early>>

\* The deferred Close calls on both connections.
Close ==
  /\ handler = "close"
  /\ shut' = Peers
  /\ handler' = "returned"
  /\ UNCHANGED <<sent, moved, fin, gone, deaf, copier, counted, halfClosed, done, charged,
                 ctxDone, kind, early>>

\* SIGINT or SIGTERM.
Cancel ==
  /\ kind.server = "sni"
  /\ ~ctxDone
  /\ ctxDone' = TRUE
  /\ UNCHANGED <<sent, moved, fin, gone, deaf, copier, counted, halfClosed, done,
                 handler, charged, shut, kind, early>>

-----------------------------------------------------------------------------
CopierStep(d) ==
  Read(d) \/ Write(d) \/ Tally(d) \/ Count(d) \/ HalfClose(d) \/ Signal(d)

HandlerStep == Hijack \/ HijackFails \/ Receive \/ StopWaiting \/ RecordUsage \/ Close

Next ==
  \/ \E d \in Dirs : Send(d) \/ EndOutput(d) \/ AnswerEnd(d) \/ CopierStep(d)
  \/ \E p \in Peers : StopReading(p) \/ GoAway(p)
  \/ HandlerStep
  \/ Cancel

\* Goroutines that can run are scheduled: a copier in a write runs again once the
\* destination reads.  A peer that reads and has seen the end of its input ends its
\* output, as every TCP application does sooner or later.  No peer has to send, to
\* read, to end its output or to go away by itself.
Fairness ==
  /\ \A d \in Dirs : WF_vars(CopierStep(d)) /\ WF_vars(AnswerEnd(d))
  /\ WF_vars(HandlerStep)

Spec == Init /\ [][Next]_vars /\ Fairness

-----------------------------------------------------------------------------
TypeOK ==
  /\ sent \in [Dirs -> 0..MaxSent]
  /\ moved \in [Dirs -> 0..MaxSent]
  /\ fin \subseteq Dirs
  /\ gone \subseteq Peers
  /\ deaf \subseteq Peers
  /\ copier \in [Dirs -> {"new", "copy", "write", "tally", "halfclose", "signal", "over"}]
  /\ counted \in [Dirs -> 0..MaxSent]
  /\ halfClosed \subseteq Dirs
  /\ done \in 0..2
  /\ handler \in {"hijack", "refused", "first", "second", "record", "close", "returned"}
  /\ charged \in Nat
  /\ shut \subseteq Peers
  /\ ctxDone \in BOOLEAN
  /\ kind \in Kinds
  /\ early \in [sent : 0..MaxSent, lost : 0..MaxSent]

Recorded == handler \in {"close", "returned"}

\* A user is never charged for more than the tunnel carried, although the
\* SOCKS5 and SNI handlers read the counts while a goroutine may be copying.
NeverOvercharged == Recorded => charged <= moved["up"] + moved["down"]

\* The handlers of the private mode charge a user at least for the direction that
\* ended first, to the last byte, also if it ended in an error: its count is
\* assigned before the handler hears of it.  (The other one may be missing.)
EndedCopierCharged ==
  kind.server # "sni" /\ Recorded
    => \E d \in Dirs : copier[d] = "over" /\ charged >= moved[d]

\* A handler that waits for both copiers, handleConnect's, charges a user for
\* every byte the tunnel carried, in both directions.
ConnectChargesInFull ==
  kind.server = "connect" /\ handler = "returned"
    => charged = moved["up"] + moved["down"]

\* Unless a peer goes away, every byte a peer sent into a CONNECT tunnel has
\* reached the other one when the tunnel closes, also those sent after the
\* other direction ended.  Only a client that did not wait for its 200 may have
\* lost bytes, to Hijack's buffer.
DeliveredInFull ==
  kind.server = "connect" /\ handler = "returned" /\ gone = {}
    => \A d \in Dirs : moved[d] = sent[d] \/ (d = "up" /\ early.sent > 0)

\* A CONNECT tunnel between two TCP connections.
Plain == kind.server = "connect" /\ ~kind.tls /\ ~kind.throttled

\* Once one peer has ended its output, a CONNECT tunnel between TCP connections
\* whose peers go on reading closes: the copier tells the other peer (CloseWrite),
\* which then ends its own.
PlainTunnelCloses ==
  Plain /\ fin # {} ~> handler \in {"returned", "refused"} \/ deaf # {}

\* The goroutine of d is in a write that will not end while the destination stays:
\* io.Copy's writes have no deadline.
Stuck(d) == copier[d] = "write" /\ Dst(d) \in deaf

\* A SOCKS5 tunnel closes once one peer has ended its output, throttled or not: one
\* <-done is enough for handleConnection, so the other peer need neither end its
\* output nor send.  It must only read what is still under way: otherwise the
\* goroutine never sees the end, and the handler keeps its slot.
SocksTunnelCloses ==
  \A d \in Dirs : kind.server = "socks" /\ d \in fin ~> handler = "returned" \/ Stuck(d)

\* An SNI relay that falls silent closes, whatever its peers do, reading included:
\* copyData's deadline covers the reads and the writes of a connection.
SilentTunnelCloses == kind.server = "sni" ~> handler = "returned"

\* When the handler has returned, no copying goroutine stays behind.
CopiersFinish == handler = "returned" ~> \A d \in Dirs : copier[d] = "over"

-----------------------------------------------------------------------------
(***************************************************************************)
(* What the documents say and the code does not do.                        *)
(***************************************************************************)
\* Once one peer has ended its output, the tunnel closes (httpproxy: "Half-close
\* to signal the other side gracefully"), whatever its connections are,
\* as long as its peers read.
TunnelCloses == fin # {} ~> handler \in {"returned", "refused"} \/ deaf # {}

=============================================================================
