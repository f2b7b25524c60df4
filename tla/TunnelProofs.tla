----------------------------- MODULE TunnelProofs -----------------------------
(***************************************************************************)
(* For any of the relays and any amount of data: what a tunnel charges, in *)
(* every interleaving of its handler with its copiers, and what it has     *)
(* delivered when it closes.                                               *)
(***************************************************************************)
EXTENDS Tunnel, TLAPS

\* The copy loop of a goroutine is over.
Past == {"halfclose", "signal", "over"}

\* The handler has not begun to wait for the copiers, and perhaps never will.
Before == {"hijack", "refused"}

\* The handler has stopped waiting for them.
After == {"record", "close", "returned"}

\* Before Hijack nothing is copied.
Started ==
  /\ handler \in Before =>
       /\ kind.server = "connect"
       /\ done = 0
       /\ early.lost = 0
       /\ \A d \in Dirs : copier[d] = "new" /\ moved[d] = 0
  /\ handler \notin Before => \A d \in Dirs : copier[d] # "new"

\* What is counted has been written, what is written has been sent and was not
\* in Hijack's buffer; the count of a goroutine that has left its loop is final.
Counts ==
  /\ early.lost <= early.sent
  /\ early.sent <= sent["up"]
  /\ \A d \in Dirs :
       /\ moved[d] + Lost(d) <= sent[d]
       /\ counted[d] <= moved[d]
       /\ copier[d] = "tally" => kind.server = "sni" /\ counted[d] + 1 = moved[d]
       /\ copier[d] \in {"copy", "write"} /\ kind.server = "sni" => counted[d] = moved[d]
       /\ copier[d] = "write" => Left(d) > 0
       /\ copier[d] \in Past => counted[d] = moved[d]

\* Tokens put into done, and tokens taken out of it.
Over(d) == IF copier[d] = "over" THEN 1 ELSE 0
Received ==
  CASE handler \in Before \cup {"first"} -> 0
    [] handler = "second" -> 1
    [] OTHER -> IF kind.server = "connect" THEN 2 ELSE 1

\* Without a context to wait for, the handler knows how many copiers are over.
Tokens ==
  /\ handler = "second" => kind.server = "connect"
  /\ kind.server # "sni" => done + Received = Over("up") + Over("down")

\* What has been charged; handleConnect charges all of it.
Charges ==
  /\ NeverOvercharged
  /\ EndedCopierCharged
  /\ kind.server = "connect" /\ Recorded => charged = counted["up"] + counted["down"]

\* The connections of a CONNECT tunnel stay open until it is over, so that a
\* copier whose peers stay leaves its loop only at the end of its stream.
Drained ==
  kind.server = "connect" =>
    /\ shut # {} => handler \in {"returned", "refused"}
    /\ gone = {} => \A d \in Dirs : copier[d] \in Past => d \in fin /\ Left(d) = 0

IInv ==
  /\ TypeOK
  /\ Started
  /\ Counts
  /\ Tokens
  /\ Charges
  /\ Drained

-----------------------------------------------------------------------------
(***************************************************************************)
(* Each kind of step keeps the invariant.                                  *)
(***************************************************************************)
\* What the invariant says of the numbers.
LEMMA Numbers ==
  ASSUME IInv
  PROVE  /\ \A d \in Dirs : /\ sent[d] \in 0..MaxSent /\ moved[d] \in 0..MaxSent
                            /\ counted[d] \in 0..MaxSent /\ Lost(d) \in 0..MaxSent
         /\ early.sent \in 0..MaxSent /\ early.lost \in 0..MaxSent
         /\ done \in 0..2 /\ charged \in Nat /\ MaxSent \in Nat
BY TunnelAssumption DEF IInv, TypeOK, Lost

\* When handleConnect has stopped waiting, both copiers are over.
LEMMA ConnectIsOver ==
  ASSUME IInv, kind.server = "connect", handler \in After
  PROVE  \A d \in Dirs : copier[d] = "over"
<1>1. done + 2 = Over("up") + Over("down")
  BY DEF IInv, Tokens, Received, Before, After
<1> QED
  BY <1>1, Numbers DEF Over, Dirs

\* Initial states satisfy the invariant.
LEMMA IInvInit == Init => IInv
<1> SUFFICES ASSUME Init PROVE IInv
  OBVIOUS
<1>1. kind \in Relays /\ MaxSent \in Nat /\ 0 \in 0..MaxSent
  BY TunnelAssumption DEF Init
<1>2. TypeOK
  <2>1. early \in [sent : 0..MaxSent, lost : 0..MaxSent]
    BY <1>1 DEF Init
  <2>2. /\ sent \in [Dirs -> 0..MaxSent]
        /\ moved \in [Dirs -> 0..MaxSent]
        /\ counted \in [Dirs -> 0..MaxSent]
        /\ copier \in [Dirs -> {"new", "copy", "write", "tally", "halfclose", "signal", "over"}]
    BY <1>1 DEF Init
  <2>3. handler \in {"hijack", "refused", "first", "second", "record", "close", "returned"}
    BY DEF Init
  <2>4. /\ fin \subseteq Dirs /\ gone \subseteq Peers /\ deaf \subseteq Peers
        /\ halfClosed \subseteq Dirs /\ shut \subseteq Peers
        /\ done \in 0..2 /\ charged \in Nat
    BY DEF Init
  <2>5. ctxDone \in BOOLEAN /\ kind \in Kinds
    BY Zenon DEF Init
  <2> QED
    BY <2>1, <2>2, <2>3, <2>4, <2>5, Zenon DEF TypeOK
<1>3. Started /\ Counts /\ Tokens /\ Charges /\ Drained
  BY <1>1 DEF Init, Started, Counts, Tokens, Charges, Drained, Dirs, Before, Past, Over,
              Received, NeverOvercharged, EndedCopierCharged, Recorded, Left, Lost
<1> QED
  BY <1>2, <1>3 DEF IInv

\* A peer sends; the first bytes of a client that does not wait for its 200 may
\* end up in Hijack's buffer.
LEMMA SendKeeps ==
  ASSUME IInv, NEW d \in Dirs, Send(d)
  PROVE  IInv'
<1> USE Numbers DEF IInv, Dirs
<1>1. sent' \in [Dirs -> 0..MaxSent] /\ \A e \in Dirs : sent'[e] = sent[e] + (IF e = d THEN 1 ELSE 0)
  BY DEF Send, TypeOK
<1>2. /\ early' \in [sent : 0..MaxSent, lost : 0..MaxSent]
      /\ early'.lost = early.lost
      /\ early.sent <= early'.sent /\ early'.sent <= sent'["up"]
  <2>1. CASE handler = "hijack" /\ d = "up"
    BY <1>1, <2>1 DEF Send, TypeOK, Counts
  <2>2. CASE ~(handler = "hijack" /\ d = "up")
    BY <1>1, <2>2 DEF Send, TypeOK, Counts
  <2> QED
    BY <2>1, <2>2
<1>3. TypeOK'
  BY <1>1, <1>2 DEF Send, TypeOK
<1>4. Started'
  BY <1>2 DEF Send, Started, Before
<1>5. Counts'
  BY <1>1, <1>2 DEF Send, Counts, Past, Left, Lost
<1>6. Tokens' /\ Charges'
  BY DEF Send, Tokens, Over, Received, Before, Charges, NeverOvercharged, EndedCopierCharged,
         Recorded
<1>7. Drained'
  BY <1>1, <1>2 DEF Send, Drained, Past, Left, Lost
<1> QED
  BY <1>3, <1>4, <1>5, <1>6, <1>7

\* A peer ends its output, stops reading or goes away, or the context is cancelled.
LEMMA PeersKeep ==
  ASSUME IInv,
         \/ \E d \in Dirs : EndOutput(d)
         \/ \E p \in Peers : StopReading(p) \/ GoAway(p)
         \/ Cancel
  PROVE  IInv'
<1> USE Numbers DEF IInv, Dirs, EndOutput, StopReading, GoAway, Cancel
<1>1. TypeOK'
  BY DEF TypeOK
<1>2. Started' /\ Counts' /\ Tokens'
  BY DEF Started, Counts, Tokens, Past, Left, Lost, Over, Received, Before
<1>3. Charges'
  BY DEF Charges, NeverOvercharged, EndedCopierCharged, Recorded
<1>4. Drained'
  BY DEF Drained, Past, Left, Lost
<1> QED
  BY <1>1, <1>2, <1>3, <1>4

\* The first bytes of the client may be lost, and the copiers start.
LEMMA HijackKeeps ==
  ASSUME IInv, Hijack
  PROVE  IInv'
<1> USE Numbers DEF IInv, Dirs
<1>1. /\ early' \in [sent : 0..MaxSent, lost : 0..MaxSent]
      /\ early'.sent = early.sent /\ early'.lost <= early.sent
  BY DEF Hijack, TypeOK, Counts
<1>2. /\ handler = "hijack" /\ kind.server = "connect" /\ done = 0
      /\ \A d \in Dirs : copier'[d] = "copy" /\ moved[d] = 0
  BY DEF Hijack, Started, Before
<1>3. TypeOK'
  BY <1>1 DEF Hijack, TypeOK
<1>4. Started'
  BY <1>2 DEF Hijack, Started, Before
<1>5. Counts'
  BY <1>1, <1>2 DEF Hijack, Counts, Past, Left, Lost
<1>6. Tokens'
  BY <1>2 DEF Hijack, Tokens, Over, Received, Before
<1>7. Charges' /\ Drained'
  BY <1>2 DEF Hijack, Charges, NeverOvercharged, EndedCopierCharged, Recorded, Drained, Past
<1> QED
  BY <1>3, <1>4, <1>5, <1>6, <1>7

\* The tunnel is given up before it began.
LEMMA HijackFailsKeeps ==
  ASSUME IInv, HijackFails
  PROVE  IInv'
<1> USE Numbers DEF IInv, Dirs, HijackFails
<1>1. TypeOK'
  BY DEF TypeOK, Peers
<1>2. Started' /\ Counts' /\ Tokens'
  BY DEF Started, Counts, Tokens, Past, Left, Lost, Over, Received, Before
<1>3. Charges' /\ Drained'
  BY DEF Started, Before, Charges, NeverOvercharged, EndedCopierCharged, Recorded, Drained,
         Past, Left, Lost
<1> QED
  BY <1>1, <1>2, <1>3

\* A goroutine has data in its buffer.
LEMMA ReadKeeps ==
  ASSUME IInv, NEW d \in Dirs, Read(d)
  PROVE  IInv'
<1> USE Numbers DEF IInv, Dirs
<1>1. /\ copier[d] = "copy" /\ Left(d) > 0
      /\ \A e \in Dirs : copier'[e] = IF e = d THEN "write" ELSE copier[e]
      /\ UNCHANGED <<sent, moved, fin, gone, counted, done, handler, charged, shut, kind, early>>
  BY DEF Read, TypeOK
<1>2. TypeOK'
  BY DEF Read, TypeOK
<1>3. Started' /\ Tokens'
  BY <1>1 DEF Started, Before, Tokens, Over, Received
<1>4. Counts'
  BY <1>1 DEF Counts, Past, Left, Lost
<1>5. Charges'
  BY <1>1 DEF Charges, NeverOvercharged, EndedCopierCharged, Recorded
<1>6. Drained'
  BY <1>1 DEF Drained, Past, Left, Lost
<1> QED
  BY <1>2, <1>3, <1>4, <1>5, <1>6

\* A goroutine writes; it has not left its loop, so nobody relies on its count.
LEMMA WriteKeeps ==
  ASSUME IInv, NEW d \in Dirs, Write(d)
  PROVE  IInv'
<1> USE Numbers DEF IInv, Dirs
<1>1. /\ moved[d] + Lost(d) < sent[d]
      /\ \A e \in Dirs : moved'[e] = moved[e] + (IF e = d THEN 1 ELSE 0)
  BY DEF Write, Counts, Left, TypeOK
<1>2. \A e \in Dirs : /\ e # d => copier'[e] = copier[e]
                      /\ copier'[d] = IF kind.server = "sni" THEN "tally" ELSE "copy"
  BY DEF Write, TypeOK
<1>3. copier[d] = "write" /\ UNCHANGED <<sent, counted, kind, early, handler, charged, done>>
  BY DEF Write
<1>4. TypeOK'
  BY <1>1 DEF Write, TypeOK
<1>5. Started'
  BY <1>2, <1>3 DEF Started, Before
<1>6. Counts'
  BY <1>1, <1>2, <1>3 DEF Counts, Past, Left, Lost
<1>7. Tokens'
  BY <1>2, <1>3 DEF Tokens, Over, Received, Before
<1>8. Charges'
  BY <1>1, <1>2, <1>3 DEF Charges, NeverOvercharged, EndedCopierCharged, Recorded
<1>9. Drained'
  BY <1>1, <1>2, <1>3 DEF Write, Drained, Past, Left, Lost
<1> QED
  BY <1>4, <1>5, <1>6, <1>7, <1>8, <1>9

\* copyData adds what it has just written to the shared count.
LEMMA TallyKeeps ==
  ASSUME IInv, NEW d \in Dirs, Tally(d)
  PROVE  IInv'
<1> USE Numbers DEF IInv, Dirs
<1>1. /\ copier[d] = "tally" /\ kind.server = "sni" /\ counted[d] + 1 = moved[d]
      /\ UNCHANGED <<sent, moved, early>>
      /\ \A e \in Dirs : counted'[e] = counted[e] + (IF e = d THEN 1 ELSE 0)
      /\ \A e \in Dirs : copier'[e] = IF e = d THEN "copy" ELSE copier[e]
  BY DEF Tally, Counts, TypeOK
<1>2. TypeOK'
  BY <1>1 DEF Tally, TypeOK
<1>3. Started' /\ Tokens' /\ Drained'
  BY <1>1 DEF Tally, Started, Before, Tokens, Over, Received, Drained
<1>4. Counts'
  BY <1>1 DEF Tally, Counts, Past, Left, Lost
<1>5. Charges'
  BY <1>1 DEF Tally, Charges, NeverOvercharged, EndedCopierCharged, Recorded
<1> QED
  BY <1>2, <1>3, <1>4, <1>5

\* A copy loop ends.  From here on the count is final; if both peers are still
\* there, a CONNECT tunnel has copied all of the stream.
LEMMA CountKeeps ==
  ASSUME IInv, NEW d \in Dirs, Count(d)
  PROVE  IInv'
<1> USE Numbers DEF IInv, Dirs
<1>1. /\ copier[d] \in {"copy", "write"}
      /\ counted'[d] = moved[d]
      /\ \A e \in Dirs : e # d => counted'[e] = counted[e] /\ copier'[e] = copier[e]
      /\ copier'[d] \in {"halfclose", "signal"}
  BY DEF Count, CopyOver, Counts, TypeOK
<1>2. UNCHANGED <<sent, moved, fin, gone, done, handler, charged, shut, kind, early>>
  BY DEF Count
<1>3. TypeOK'
  BY <1>1 DEF Count, TypeOK
<1>4. Started'
  BY <1>1, <1>2 DEF Started, Before
<1>5. Counts'
  BY <1>1, <1>2 DEF Counts, Past, Left, Lost
<1>6. Tokens'
  BY <1>1, <1>2 DEF Tokens, Over, Received, Before
<1>7. Charges'
  <2>1. ~(kind.server = "connect" /\ Recorded)
    BY <1>1, ConnectIsOver DEF Recorded, After
  <2>2. NeverOvercharged' /\ EndedCopierCharged'
    BY <1>1, <1>2 DEF Charges, NeverOvercharged, EndedCopierCharged, Recorded
  <2> QED
    BY <1>2, <2>1, <2>2 DEF Charges, Recorded
<1>8. Drained'
  <2>1. CASE kind.server = "connect" /\ gone = {}
    <3>1. shut = {}
      BY <1>1, <2>1, ConnectIsOver DEF Drained, Started, Before, After
    <3>2. d \in fin /\ Left(d) = 0
      BY <2>1, <3>1 DEF Count, CopyOver
    <3> QED
      BY <1>1, <1>2, <2>1, <3>1, <3>2 DEF Drained, Past, Left, Lost
  <2>2. CASE ~(kind.server = "connect" /\ gone = {})
    BY <1>2, <2>2 DEF Drained
  <2> QED
    BY <2>1, <2>2
<1> QED
  BY <1>3, <1>4, <1>5, <1>6, <1>7, <1>8

\* The destination is told.
LEMMA HalfCloseKeeps ==
  ASSUME IInv, NEW d \in Dirs, HalfClose(d)
  PROVE  IInv'
<1> USE Numbers DEF IInv, Dirs
<1>1. /\ copier[d] = "halfclose"
      /\ \A e \in Dirs : copier'[e] = IF e = d THEN "signal" ELSE copier[e]
  BY DEF HalfClose, TypeOK
<1>2. TypeOK'
  BY DEF HalfClose, TypeOK
<1>3. Started' /\ Counts' /\ Tokens'
  BY <1>1 DEF HalfClose, Started, Counts, Tokens, Past, Left, Lost, Over, Received, Before
<1>4. Charges'
  BY <1>1 DEF HalfClose, Charges, NeverOvercharged, EndedCopierCharged, Recorded
<1>5. Drained'
  BY <1>1 DEF HalfClose, Drained, Past, Left, Lost
<1> QED
  BY <1>2, <1>3, <1>4, <1>5

\* A goroutine reports that it is over.
LEMMA SignalKeeps ==
  ASSUME IInv, NEW d \in Dirs, Signal(d)
  PROVE  IInv'
<1> USE Numbers DEF IInv, Dirs
<1>1. /\ copier[d] = "signal" /\ done' = done + 1
      /\ \A e \in Dirs : copier'[e] = IF e = d THEN "over" ELSE copier[e]
      /\ UNCHANGED <<sent, moved, fin, gone, counted, handler, charged, shut, kind, early>>
  BY DEF Signal, TypeOK
<1>2. TypeOK'
  BY DEF Signal, TypeOK
<1>3. Started'
  BY <1>1 DEF Started, Before
<1>4. Counts'
  BY <1>1 DEF Counts, Past, Left, Lost
<1>5. Tokens'
  <2>1. Received' = Received /\ Received \in 0..2
    BY <1>1 DEF Received, Before
  <2>2. Over("up")' + Over("down")' = Over("up") + Over("down") + 1
    BY <1>1 DEF Over
  <2>3. Over("up") \in 0..1 /\ Over("down") \in 0..1
    BY DEF Over
  <2> QED
    BY <1>1, <2>1, <2>2, <2>3 DEF Tokens
<1>6. Charges'
  BY <1>1 DEF Charges, NeverOvercharged, EndedCopierCharged, Recorded
<1>7. Drained'
  BY <1>1 DEF Drained, Past, Left, Lost
<1> QED
  BY <1>2, <1>3, <1>4, <1>5, <1>6, <1>7

\* The handler hears of it, or no longer waits for it.
LEMMA ReceiveKeeps ==
  ASSUME IInv, Receive \/ StopWaiting
  PROVE  IInv'
<1> USE Numbers DEF IInv, Dirs, Receive, StopWaiting
<1>1. TypeOK'
  <2>1. done' \in 0..2
    OBVIOUS
  <2>2. handler' \in {"second", "record"}
    OBVIOUS
  <2> QED
    BY <2>1, <2>2 DEF TypeOK
<1>2. Started' /\ Counts'
  BY DEF Started, Before, Counts, Past, Left, Lost
<1>3. Tokens'
  BY DEF Tokens, Over, Received, Before
<1>4. Charges' /\ Drained'
  BY DEF Charges, NeverOvercharged, EndedCopierCharged, Recorded, Drained, Past, Left, Lost
<1> QED
  BY <1>1, <1>2, <1>3, <1>4

\* The counts are read: whatever the goroutines have assigned by now.
LEMMA RecordUsageKeeps ==
  ASSUME IInv, RecordUsage
  PROVE  IInv'
<1> USE Numbers DEF IInv, Dirs
<1>1. charged' = counted["up"] + counted["down"] /\ handler = "record" /\ handler' = "close"
  BY DEF RecordUsage
<1>2. TypeOK'
  BY <1>1 DEF RecordUsage, TypeOK
<1>3. Started' /\ Counts' /\ Tokens'
  BY <1>1 DEF RecordUsage, Started, Counts, Tokens, Past, Left, Lost, Over, Received, Before
<1>4. Charges'
  <2>1. NeverOvercharged'
    BY <1>1 DEF RecordUsage, NeverOvercharged, Counts
  <2>2. EndedCopierCharged'
    <3> SUFFICES ASSUME kind.server # "sni"
                 PROVE  \E d \in Dirs : copier[d] = "over" /\ charged' >= moved[d]
      BY DEF RecordUsage, EndedCopierCharged
    <3>1. Over("up") + Over("down") >= 1
      BY <1>1 DEF Tokens, Received, Before, Over
    <3>2. PICK d \in Dirs : copier[d] = "over"
      BY <3>1 DEF Over
    <3>3. counted[d] = moved[d]
      BY <3>2 DEF Counts, Past
    <3>4. charged' >= counted[d]
      BY <1>1
    <3> QED
      BY <3>2, <3>3, <3>4
  <2> QED
    BY <1>1, <2>1, <2>2 DEF RecordUsage, Charges
<1>5. Drained'
  BY <1>1 DEF RecordUsage, Drained, Past, Left, Lost
<1> QED
  BY <1>2, <1>3, <1>4, <1>5

\* Both connections are closed.
LEMMA CloseKeeps ==
  ASSUME IInv, Close
  PROVE  IInv'
<1> USE Numbers DEF IInv, Dirs, Close
<1>1. TypeOK'
  BY DEF TypeOK
<1>2. Started' /\ Counts' /\ Tokens'
  BY DEF Started, Counts, Tokens, Past, Left, Lost, Over, Received, Before
<1>3. Charges' /\ Drained'
  BY DEF Charges, NeverOvercharged, EndedCopierCharged, Recorded, Drained, Past, Left, Lost
<1> QED
  BY <1>1, <1>2, <1>3

\* Every step keeps the invariant.
LEMMA IInvNext == IInv /\ [Next]_vars => IInv'
<1> SUFFICES ASSUME IInv, [Next]_vars PROVE IInv'
  OBVIOUS
<1>1. ASSUME NEW d \in Dirs, Send(d) \/ EndOutput(d) \/ AnswerEnd(d) \/ CopierStep(d)
      PROVE  IInv'
  BY <1>1, SendKeeps, PeersKeep, ReadKeeps, WriteKeeps, TallyKeeps, CountKeeps, HalfCloseKeeps, SignalKeeps
  DEF AnswerEnd, CopierStep
<1>2. CASE HandlerStep
  BY <1>2, HijackKeeps, HijackFailsKeeps, ReceiveKeeps, RecordUsageKeeps, CloseKeeps
  DEF HandlerStep
<1>3. CASE UNCHANGED vars
  BY <1>3 DEF vars, IInv, TypeOK, Started, Counts, Tokens, Charges, Drained, Past, Left, Lost,
              Over, Received, NeverOvercharged, EndedCopierCharged, Recorded
<1> QED
  BY <1>1, <1>2, <1>3, PeersKeep DEF Next

\* The invariant holds throughout.
LEMMA IInvHolds == Spec => []IInv
<1>1. Init => IInv
  BY IInvInit
<1>2. IInv /\ [Next]_vars => IInv'
  BY IInvNext
<1> QED
  BY <1>1, <1>2, PTL DEF Spec

-----------------------------------------------------------------------------
(***************************************************************************)
(* The theorems.                                                           *)
(***************************************************************************)
\* The variables keep their types; the channel done has room for every token.
THEOREM TypeCorrect == Spec => []TypeOK
<1>1. IInv => TypeOK
  BY DEF IInv
<1> QED
  BY <1>1, IInvHolds, PTL

\* No handler charges a user for more than its tunnel carried, although those of
\* SOCKS5 and SNI read the counts while a goroutine may be copying.
THEOREM NeverOverchargedHolds == Spec => []NeverOvercharged
<1>1. IInv => NeverOvercharged
  BY DEF IInv, Charges
<1> QED
  BY <1>1, IInvHolds, PTL

\* The handlers of the private mode charge a user at least for the direction that
\* ended first, to the last byte.
THEOREM EndedCopierChargedHolds == Spec => []EndedCopierCharged
<1>1. IInv => EndedCopierCharged
  BY DEF IInv, Charges
<1> QED
  BY <1>1, IInvHolds, PTL

\* handleConnect charges a user for every byte, in both directions.
THEOREM ConnectChargesInFullHolds == Spec => []ConnectChargesInFull
<1>1. IInv => ConnectChargesInFull
  <2> SUFFICES ASSUME IInv, kind.server = "connect", handler = "returned"
               PROVE  charged = moved["up"] + moved["down"]
    BY DEF ConnectChargesInFull
  <2>1. \A d \in Dirs : copier[d] = "over"
    BY ConnectIsOver DEF After
  <2>2. \A d \in Dirs : counted[d] = moved[d]
    BY <2>1 DEF IInv, Counts, Past
  <2> QED
    BY <2>2 DEF IInv, Charges, Recorded, Dirs
<1> QED
  BY <1>1, IInvHolds, PTL

\* Unless a peer went away, a CONNECT tunnel has delivered every byte when it
\* closes, but for those that a client sent before its 200.
THEOREM DeliveredInFullHolds == Spec => []DeliveredInFull
<1>1. IInv => DeliveredInFull
  <2> SUFFICES ASSUME IInv, kind.server = "connect", handler = "returned", gone = {},
                      NEW d \in Dirs
               PROVE  moved[d] = sent[d] \/ (d = "up" /\ early.sent > 0)
    BY DEF DeliveredInFull
  <2>1. copier[d] = "over"
    BY ConnectIsOver DEF After
  <2>2. Left(d) = 0
    BY <2>1 DEF IInv, Drained, Past
  <2> QED
    BY <2>2, Numbers DEF IInv, Counts, Left, Lost, Dirs
<1> QED
  BY <1>1, IInvHolds, PTL

=============================================================================
