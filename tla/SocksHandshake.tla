---------------------------- MODULE SocksHandshake ----------------------------
(***************************************************************************)
(* One SOCKS5 connection from its accept to its end: handleConnection of   *)
(* internal/socks5/server.go with handleMethodNegotiation,                 *)
(* authenticateUser, handleRequest and sendReply, under the deadline that  *)
(* is set once, at the accept, and cleared when the relay begins.          *)
(*                                                                         *)
(* The client sends its messages when it likes, ahead of the answers too,  *)
(* or stops anywhere.  ReadFull waits for a whole message, so one that is  *)
(* incomplete is one not yet sent.  The checks between authentication and  *)
(* request are in Access and PrivateProxy, the copying in Tunnel.          *)
(***************************************************************************)
EXTENDS Integers, Sequences, SequencesExt

CONSTANTS
  Deadline,     \* 30 s, in ticks, from the accept
  DialTimeout,  \* 30 s, in ticks, from the dial
  MaxData       \* bound: pieces of data each side sends

ASSUME SocksAssumption ==
  /\ Deadline \in Nat \ {0}
  /\ DialTimeout \in Nat \ {0}
  /\ MaxData \in Nat

VARIABLES
  stage,      \* what handleConnection is about to do
  age,        \* ticks since the accept, until the relay
  armed,      \* the deadline is set
  dialAt,     \* the age at which the dial began
  client,     \* "open", or "gone"
  target,     \* "reads", or "deaf": it no longer reads, a write to it blocks
  sent,       \* messages the client has sent so far
  pending,    \* those not read yet
  got,        \* what the client has been sent back
  forwarded,  \* pieces of data the target has been sent
  late        \* history: the dial ended when the deadline was over

vars == <<stage, age, armed, dialAt, client, target, sent, pending, got, forwarded, late>>

time == <<age, armed, dialAt, late>>

\* What a client sends first, second and third.  Garbage has a wrong version.
Script ==
  << {"hello", "nomethod", "garbage"},
     {"credentials", "wrong", "garbage"},
     {"connect", "bind", "badtype", "garbage"} >>

Messages == (UNION {Script[i] : i \in 1..3}) \cup {"data"}

Replies == {"userpass", "noacceptable", "granted", "denied",
            "succeeded", "unreachable", "cmd", "type"}

\* Stages that wait for a message of the client.
Reading == {"method", "auth", "request"}

Stages == Reading \cup {"accept", "screen", "dial", "relay", "closed"}

Init ==
  /\ stage = "accept"
  /\ age = 0
  /\ armed = FALSE
  /\ dialAt = 0
  /\ client = "open"
  /\ target = "reads"
  /\ sent = 0
  /\ pending = <<>>
  /\ got = <<>>
  /\ forwarded = 0
  /\ late = FALSE

-----------------------------------------------------------------------------
(***************************************************************************)
(* The client.                                                             *)
(***************************************************************************)
Send ==
  /\ client = "open"
  /\ stage # "closed"
  /\ sent < 3 + MaxData
  /\ sent' = sent + 1
  /\ \E m \in IF sent < 3 THEN Script[sent + 1] ELSE {"data"} : pending' = Append(pending, m)
  /\ UNCHANGED <<stage, client, target, got, forwarded, time>>

Leave ==
  /\ client = "open"
  /\ client' = "gone"
  /\ UNCHANGED <<stage, target, sent, pending, got, forwarded, time>>

-----------------------------------------------------------------------------
(***************************************************************************)
(* The handshake.                                                          *)
(***************************************************************************)
Expired == armed /\ age >= Deadline

\* The client is written to; whether that fails is not looked at.
sendReply(m) == got' = IF Expired \/ client = "gone" THEN got ELSE Append(got, m)

Silent == UNCHANGED got

\* The next message is read, whole and in time, and handleConnection goes on.
Read(here, m, next) ==
  /\ stage = here
  /\ ~Expired
  /\ pending # <<>>
  /\ Head(pending) = m
  /\ pending' = Tail(pending)
  /\ stage' = next
  /\ UNCHANGED <<client, target, sent, forwarded>>

\* CheckIPAllowed, then SetDeadline.
Accept ==
  /\ stage = "accept"
  /\ \/ stage' = "closed" /\ UNCHANGED armed
     \/ stage' = "method" /\ armed' = TRUE
  /\ UNCHANGED <<age, dialAt, client, target, sent, pending, got, forwarded, late>>

handleMethodNegotiation ==
  /\ \/ Read("method", "hello", "auth") /\ sendReply("userpass")
     \/ Read("method", "nomethod", "closed") /\ sendReply("noacceptable")
     \/ Read("method", "garbage", "closed") /\ Silent
  /\ UNCHANGED time

\* Variant of authenticateUser: wrong credentials do not end the connection.
AuthenticateAnyway ==
  /\ \/ Read("auth", "credentials", "screen") /\ sendReply("granted")
     \/ Read("auth", "wrong", "screen") /\ sendReply("denied")
     \/ Read("auth", "garbage", "closed") /\ Silent
  /\ UNCHANGED time

\* Variant of authenticateUser: the deadline is cleared for whoever is known.
AuthenticateDisarms ==
  /\ \/ Read("auth", "credentials", "screen") /\ sendReply("granted")
     \/ Read("auth", "wrong", "closed") /\ sendReply("denied")
     \/ Read("auth", "garbage", "closed") /\ Silent
  /\ armed' = (stage' # "screen")
  /\ UNCHANGED <<age, dialAt, late>>

authenticateUser ==
  /\ \/ Read("auth", "credentials", "screen") /\ sendReply("granted")
     \/ Read("auth", "wrong", "closed") /\ sendReply("denied")
     \/ Read("auth", "garbage", "closed") /\ Silent
  /\ UNCHANGED time

\* The rate limit, the expiry date, the allowance and the number of connections:
\* whoever fails one of them is cut off without a word.
Screen ==
  /\ stage = "screen"
  /\ stage' \in {"request", "closed"}
  /\ UNCHANGED <<client, target, sent, pending, got, forwarded, time>>

\* Variant of handleRequest: it reads through a buffer, which is then dropped.
RequestBuffered ==
  /\ stage = "request"
  /\ ~Expired
  /\ pending # <<>>
  /\ pending' = <<>>
  /\ stage' = IF Head(pending) = "connect" THEN "dial" ELSE "closed"
  /\ dialAt' = age
  /\ UNCHANGED <<age, armed, late, client, target, sent, got, forwarded>>

handleRequest ==
  /\ \/ Read("request", "connect", "dial") /\ Silent /\ dialAt' = age
     \/ Read("request", "bind", "closed") /\ sendReply("cmd") /\ UNCHANGED dialAt
     \/ Read("request", "badtype", "closed") /\ sendReply("type") /\ UNCHANGED dialAt
     \/ Read("request", "garbage", "closed") /\ Silent /\ UNCHANGED dialAt
  /\ UNCHANGED <<age, armed, late>>

\* Variant of ReadFails: no read has a deadline.
ReadFailsIfGone ==
  /\ stage \in Reading
  /\ client = "gone"
  /\ stage' = "closed"
  /\ UNCHANGED <<client, target, sent, pending, got, forwarded, time>>

\* The deadline, or the end of the connection, ends a read.
ReadFails ==
  /\ stage \in Reading
  /\ Expired \/ client = "gone"
  /\ stage' = "closed"
  /\ UNCHANGED <<client, target, sent, pending, got, forwarded, time>>

-----------------------------------------------------------------------------
(***************************************************************************)
(* The dial and the relay.                                                 *)
(***************************************************************************)
\* The target is reached: the reply, whose error is not looked at, and no more
\* deadline.
Dialled ==
  /\ stage = "dial"
  /\ sendReply("succeeded")
  /\ stage' = "relay"
  /\ armed' = FALSE
  /\ late' = Expired
  /\ UNCHANGED <<age, dialAt, client, target, sent, pending, forwarded>>

\* Variant of DialFails: the client is not told.
DialFailsSilently ==
  /\ stage = "dial"
  /\ stage' = "closed"
  /\ late' = Expired
  /\ UNCHANGED <<age, armed, dialAt, client, target, sent, pending, got, forwarded>>

DialFails ==
  /\ stage = "dial"
  /\ sendReply("unreachable")
  /\ stage' = "closed"
  /\ late' = Expired
  /\ UNCHANGED <<age, armed, dialAt, client, target, sent, pending, forwarded>>

\* The target reads no more, and what the network holds for it is full.
TargetStops ==
  /\ stage = "relay"
  /\ target = "reads"
  /\ target' = "deaf"
  /\ UNCHANGED <<stage, client, sent, pending, got, forwarded, time>>

\* The copiers take what is left of the client's messages, if the target reads
\* them, and answer.
RelayUp ==
  /\ stage = "relay"
  /\ target = "reads"
  /\ pending # <<>>
  /\ pending' = Tail(pending)
  /\ forwarded' = forwarded + 1
  /\ UNCHANGED <<stage, client, target, sent, got, time>>

RelayDown ==
  /\ stage = "relay"
  /\ Len(SelectSeq(got, LAMBDA m : m = "data")) < MaxData
  /\ sendReply("data")
  /\ UNCHANGED <<stage, client, target, sent, pending, forwarded, time>>

\* Variant of RelayEnds: the copier that reads from the client is not waited for.
RelayEndsByTarget ==
  /\ stage = "relay"
  /\ client = "open"
  /\ stage' = "closed"
  /\ UNCHANGED <<client, target, sent, pending, got, forwarded, time>>

\* A copier is done: the client or the target is.
RelayEnds ==
  /\ stage = "relay"
  /\ stage' = "closed"
  /\ UNCHANGED <<client, target, sent, pending, got, forwarded, time>>

\* Bound: time is not counted beyond it.
MaxAge == Deadline + DialTimeout

\* Time passes, but neither a deadline nor the dial's timeout is put off.
Tick ==
  /\ stage \in Reading \cup {"dial"}
  /\ age < MaxAge
  /\ stage \in Reading => ~Expired
  /\ stage = "dial" => age - dialAt < DialTimeout
  /\ age' = age + 1
  /\ UNCHANGED <<stage, armed, dialAt, client, target, sent, pending, got, forwarded, late>>

-----------------------------------------------------------------------------
handleConnection ==
  \/ Accept \/ handleMethodNegotiation \/ authenticateUser \/ Screen \/ handleRequest
  \/ ReadFails \/ Dialled \/ DialFails

Relay == TargetStops \/ RelayUp \/ RelayDown \/ RelayEnds

Next == Send \/ Leave \/ handleConnection \/ Relay \/ Tick

Spec == Init /\ [][Next]_vars

\* The goroutines run when they can, the dial ends by its timeout and time passes.
\* Neither the client nor the target need do anything.  The copier that reads from
\* a client that has left finds that out when it has written all it has read.
Fairness ==
  /\ WF_vars(handleConnection)
  /\ WF_vars(RelayUp)
  /\ WF_vars(client = "gone" /\ pending = <<>> /\ RelayEnds)
  /\ WF_vars(Tick)

FairSpec == Spec /\ Fairness

-----------------------------------------------------------------------------
TypeOK ==
  /\ stage \in Stages
  /\ age \in Nat
  /\ armed \in BOOLEAN
  /\ dialAt \in Nat
  /\ client \in {"open", "gone"}
  /\ target \in {"reads", "deaf"}
  /\ sent \in 0..(3 + MaxData)
  /\ pending \in Seq(Messages)
  /\ got \in Seq(Replies \cup {"data"})
  /\ forwarded \in 0..MaxData
  /\ late \in BOOLEAN

\* The answers of a SOCKS5 server, up to any point of a handshake.
Dialogues ==
  {<<>>, <<"noacceptable">>, <<"userpass">>, <<"userpass", "denied">>}
    \cup {<<"userpass", "granted">> \o s :
            s \in {<<>>} \cup {<<r>> : r \in {"succeeded", "unreachable", "cmd", "type"}}}

\* Whatever a client sends and however far ahead, what it gets back is a SOCKS5
\* dialogue, followed by relayed data only if the dialogue ends in "succeeded".
\* The exception is a dial that ends after the deadline set at the accept: its
\* reply is lost, and the relay begins all the same.
DialogueLegal ==
  \E d \in Dialogues :
    /\ Len(d) <= Len(got)
    /\ \A i \in DOMAIN got : got[i] = IF i <= Len(d) THEN d[i] ELSE "data"
    /\ Len(d) < Len(got) => Contains(d, "succeeded") \/ late

\* A dial is answered, one way or the other, unless the client has left or the
\* dial ends after the deadline: the third answer of the dialogue.
DialAnswered ==
  [][stage = "dial" /\ stage' # "dial" /\ client = "open" /\ ~Expired
       => Len(got') = 3]_vars

\* Data a client sends right behind its request, before it has an answer, is not
\* lost: nothing is read ahead of it.
EarlyDataKept ==
  stage = "relay" => forwarded + Len(pending) = sent - 3

\* A client holds its place, and its user's slot, no longer than the deadline and
\* the dial's timeout together without a relay, whatever it sends or leaves out.
HandshakeBounded ==
  stage \notin {"relay", "closed"} => age < Deadline + DialTimeout

\* Every handshake ends, even if the client sends nothing and stays.
HandshakeEnds == <>(stage \in {"relay", "closed"})

\* A client that leaves, at whatever point, is let go, unless the goroutine that
\* would notice is in a write to a target that no longer reads: no deadline ends
\* that write, and the handler and the user's slot stay until the target ends.
LeaverLetGo ==
  client = "gone"
    ~> stage = "closed" \/ (stage = "relay" /\ target = "deaf" /\ pending # <<>>)

=============================================================================
