------------------------- MODULE SocksHandshakeProofs -------------------------
(***************************************************************************)
(* For any deadline, any dial timeout and any amount of data: a client of  *)
(* the SOCKS5 port sees a SOCKS5 dialogue, no early data is lost, and no   *)
(* handshake outlasts its deadlines.                                       *)
(***************************************************************************)
EXTENDS SocksHandshake, SequenceTheorems, TLAPS

-----------------------------------------------------------------------------
(***************************************************************************)
(* The inductive invariant.                                                *)
(***************************************************************************)
\* The dialogue so far.  Before the dial an answer is lost only if the client has
\* left, and then all that follow are.
Told ==
  /\ stage \in {"accept", "method"} => got = <<>>
  /\ stage = "auth" =>
       /\ got \in {<<>>, <<"userpass">>}
       /\ client = "open" => got = <<"userpass">>
  /\ stage \in {"screen", "request", "dial"} =>
       /\ got \in {<<>>, <<"userpass">>, <<"userpass", "granted">>}
       /\ client = "open" => got = <<"userpass", "granted">>
  /\ stage = "relay" /\ client = "open" => late \/ (Len(got) >= 3 /\ got[3] = "succeeded")

\* Each stage has taken as many messages as the dialogue has questions.
Counted ==
  /\ stage \in {"accept", "method"} => Len(pending) = sent
  /\ stage = "auth" => Len(pending) + 1 = sent
  /\ stage \in {"screen", "request"} => Len(pending) + 2 = sent
  /\ stage = "dial" => Len(pending) + 3 = sent
  /\ stage = "relay" => forwarded + Len(pending) + 3 = sent
  /\ stage \notin {"relay", "closed"} => forwarded = 0

\* The deadline is set before the first read and cleared by the relay, and the
\* dial has begun before it.
OnTime ==
  /\ stage = "accept" => age = 0
  /\ stage \in Reading \cup {"screen", "dial"} => armed
  /\ stage \in Reading \cup {"screen"} => age <= Deadline
  /\ stage = "dial" => dialAt < Deadline /\ dialAt <= age /\ age - dialAt <= DialTimeout

IInv ==
  /\ TypeOK
  /\ DialogueLegal
  /\ Told
  /\ Counted
  /\ OnTime

-----------------------------------------------------------------------------
(***************************************************************************)
(* The answers.                                                            *)
(***************************************************************************)
\* One more answer.
LEMMA Answer ==
  ASSUME NEW m
  PROVE  /\ Append(<<>>, m) = <<m>>
         /\ Append(<<"userpass">>, m) = <<"userpass", m>>
         /\ Append(<<"userpass", "granted">>, m) = <<"userpass", "granted", m>>
<1>1. PICK S : S = {"userpass", "granted", m}
  OBVIOUS
<1>2. ASSUME NEW s \in Seq(S), NEW t \in Seq(S), Len(t) = Len(s) + 1,
             \A i \in 1..Len(s) : s[i] = t[i], t[Len(s) + 1] = m
      PROVE  Append(s, m) = t
  <2>1. /\ Append(s, m) \in Seq(S) /\ Len(Append(s, m)) = Len(t)
        /\ \A i \in 1..Len(s) : Append(s, m)[i] = t[i]
        /\ Append(s, m)[Len(s) + 1] = t[Len(s) + 1]
    BY <1>1, <1>2, AppendProperties
  <2>2. Len(s) \in Nat /\ Len(Append(s, m)) = Len(s) + 1
    BY <2>1, <1>2, LenProperties
  <2>3. \A i \in 1..Len(Append(s, m)) : Append(s, m)[i] = t[i]
    BY <2>1, <2>2
  <2> QED
    BY <2>1, <2>3, SeqEqual
<1>3. Append(<<>>, m) = <<m>>
  OBVIOUS
<1>4. Append(<<"userpass">>, m) = <<"userpass", m>>
  <2>1. PICK s, t : s = <<"userpass">> /\ t = <<"userpass", m>>
    OBVIOUS
  <2>2. s \in Seq(S) /\ t \in Seq(S) /\ Len(s) = 1 /\ Len(t) = 2
    BY <1>1, <2>1
  <2>3. s[1] = t[1] /\ t[2] = m
    BY <2>1
  <2>4. /\ Len(t) = Len(s) + 1 /\ t[Len(s) + 1] = m
        /\ \A i \in 1..Len(s) : s[i] = t[i]
    BY <2>2, <2>3
  <2>5. Append(s, m) = t
    BY <2>2, <2>4, <1>2
  <2> QED
    BY <2>1, <2>5
<1>5. Append(<<"userpass", "granted">>, m) = <<"userpass", "granted", m>>
  <2>1. PICK s, t : s = <<"userpass", "granted">> /\ t = <<"userpass", "granted", m>>
    OBVIOUS
  <2>2. s \in Seq(S) /\ t \in Seq(S) /\ Len(s) = 2 /\ Len(t) = 3
    BY <1>1, <2>1
  <2>3. s[1] = t[1] /\ s[2] = t[2] /\ t[3] = m
    BY <2>1
  <2>4. /\ Len(t) = Len(s) + 1 /\ t[Len(s) + 1] = m
        /\ \A i \in 1..Len(s) : s[i] = t[i]
    BY <2>2, <2>3
  <2>5. Append(s, m) = t
    BY <2>2, <2>4, <1>2
  <2> QED
    BY <2>1, <2>5
<1> QED
  BY <1>3, <1>4, <1>5

\* The dialogues, one by one.
LEMMA DialogueList ==
  Dialogues = {<<>>, <<"noacceptable">>, <<"userpass">>, <<"userpass", "denied">>,
               <<"userpass", "granted">>, <<"userpass", "granted", "succeeded">>,
               <<"userpass", "granted", "unreachable">>, <<"userpass", "granted", "cmd">>,
               <<"userpass", "granted", "type">>}
<1>1. <<"userpass", "granted">> \o <<>> = <<"userpass", "granted">>
  OBVIOUS
<1>2. \A r : <<"userpass", "granted">> \o <<r>> = <<"userpass", "granted", r>>
  <2> SUFFICES ASSUME NEW r PROVE <<"userpass", "granted">> \o <<r>> = <<"userpass", "granted", r>>
    OBVIOUS
  <2>1. PICK S : S = {"userpass", "granted", r}
    OBVIOUS
  <2>2. <<"userpass", "granted">> \in Seq(S) /\ r \in S
    BY <2>1
  <2>3. Append(<<"userpass", "granted">>, r) = <<"userpass", "granted">> \o <<r>>
    BY <2>2, AppendIsConcat
  <2> QED
    BY <2>3, Answer
<1>3. PICK E : E = {<<>>} \cup {<<r>> : r \in {"succeeded", "unreachable", "cmd", "type"}}
  OBVIOUS
<1>4. E = {<<>>, <<"succeeded">>, <<"unreachable">>, <<"cmd">>, <<"type">>}
  BY <1>3, Zenon
<1>5. {<<"userpass", "granted">> \o s : s \in E} =
        {<<"userpass", "granted">>, <<"userpass", "granted", "succeeded">>,
         <<"userpass", "granted", "unreachable">>, <<"userpass", "granted", "cmd">>,
         <<"userpass", "granted", "type">>}
  BY <1>1, <1>2, <1>4, Zenon
<1> QED
  BY <1>3, <1>5, Zenon DEF Dialogues

\* A dialogue without data is legal.
LEMMA Legal ==
  ASSUME NEW STATE g, g \in Seq(Replies \cup {"data"}), g \in Dialogues
  PROVE  \E d \in Dialogues :
           /\ Len(d) = Len(g) /\ Len(g) \in Nat
           /\ \A i \in DOMAIN g : g[i] = IF i <= Len(d) THEN d[i] ELSE "data"
<1>1. Len(g) \in Nat /\ DOMAIN g = 1..Len(g)
  BY LenProperties
<1> WITNESS g \in Dialogues
<1> QED
  BY <1>1

-----------------------------------------------------------------------------
(***************************************************************************)
(* Each kind of step keeps the invariant.                                  *)
(***************************************************************************)
\* What is known of the numbers and of the sequences.
LEMMA Facts ==
  ASSUME TypeOK
  PROVE  /\ Deadline \in Nat /\ DialTimeout \in Nat /\ MaxData \in Nat
         /\ Deadline > 0 /\ DialTimeout > 0
         /\ age \in Nat /\ dialAt \in Nat /\ sent \in Nat /\ forwarded \in Nat
         /\ Len(pending) \in Nat /\ Len(got) \in Nat /\ DOMAIN got = 1..Len(got)
<1>1. pending \in Seq(Messages) /\ got \in Seq(Replies \cup {"data"})
  BY DEF TypeOK
<1> QED
  BY <1>1, SocksAssumption, LenProperties DEF TypeOK

\* The stages are different.
LEMMA StageNames ==
  Stages = {"method", "auth", "request", "accept", "screen", "dial", "relay", "closed"}
BY DEF Stages, Reading

\* Initial states satisfy the invariant.
LEMMA IInvInit == Init => IInv
<1> SUFFICES ASSUME Init PROVE IInv
  OBVIOUS
<1>1. <<>> \in Seq(Messages) /\ <<>> \in Seq(Replies \cup {"data"}) /\ Len(<<>>) = 0
  BY EmptySeq
<1>2. TypeOK
  <2>1. sent \in 0..(3 + MaxData) /\ forwarded \in 0..MaxData /\ age \in Nat /\ dialAt \in Nat
    BY SocksAssumption DEF Init
  <2>2. /\ armed \in BOOLEAN /\ late \in BOOLEAN /\ client \in {"open", "gone"}
        /\ target \in {"reads", "deaf"}
    BY DEF Init
  <2>3. stage \in Stages
    BY DEF Init, Stages
  <2>4. pending \in Seq(Messages) /\ got \in Seq(Replies \cup {"data"})
    BY <1>1 DEF Init
  <2> QED
    BY <2>1, <2>2, <2>3, <2>4, Zenon DEF TypeOK
<1>3. got \in Dialogues
  BY DialogueList DEF Init
<1>4. DialogueLegal
  BY <1>2, <1>3, Legal DEF TypeOK, DialogueLegal
<1>5. Told
  BY DEF Init, Told
<1>6. Counted
  BY <1>1 DEF Init, Counted
<1>7. OnTime
  BY DEF Init, OnTime, Reading
<1> QED
  BY <1>2, <1>4, <1>5, <1>6, <1>7 DEF IInv

\* Data is a message.
LEMMA DataIsMessage == "data" \in Messages
BY DEF Messages

\* A message of the client lands behind the others, and is counted.
LEMMA SendStep == ASSUME IInv, Send PROVE IInv'
<1>1. TypeOK /\ Told /\ Counted /\ OnTime /\ DialogueLegal
  BY DEF IInv
<1>2. PICK m : /\ m \in IF sent < 3 THEN Script[sent + 1] ELSE {"data"}
               /\ pending' = Append(pending, m)
  BY DEF Send
<1>3. m \in Messages
  <2>1. CASE sent < 3
    <3>1. sent + 1 \in 1..3
      BY <1>1, <2>1, Facts
    <3> QED
      BY <1>2, <2>1, <3>1 DEF Messages
  <2>2. CASE ~(sent < 3)
    <3>1. m = "data"
      BY <1>2, <2>2
    <3> QED
      BY <3>1, DataIsMessage
  <2> QED
    BY <2>1, <2>2
<1>4. pending' \in Seq(Messages) /\ Len(pending') = Len(pending) + 1
  BY <1>1, <1>2, <1>3, AppendProperties DEF TypeOK
<1>5. /\ sent' = sent + 1 /\ sent < 3 + MaxData
      /\ UNCHANGED <<stage, client, target, got, forwarded, age, armed, dialAt, late>>
  BY DEF Send, time
<1>6. TypeOK'
  BY <1>1, <1>4, <1>5, Facts DEF TypeOK
<1>7. Counted'
  <2>1. /\ \A n \in 0..3 : Len(pending) + n = sent => Len(pending') + n = sent'
        /\ Len(pending) = sent => Len(pending') = sent'
        /\ forwarded + Len(pending) + 3 = sent => forwarded' + Len(pending') + 3 = sent'
    <3>1. sent \in Nat /\ Len(pending) \in Nat /\ forwarded \in Nat
      BY <1>1, Facts
    <3>2. Len(pending') = Len(pending) + 1 /\ sent' = sent + 1 /\ forwarded' = forwarded
      BY <1>4, <1>5
    <3> QED
      BY <3>1, <3>2
  <2>2. 1 \in 0..3 /\ 2 \in 0..3 /\ 3 \in 0..3
    OBVIOUS
  <2> QED
    BY <1>1, <1>5, <2>1, <2>2 DEF Counted
<1>8. DialogueLegal' /\ Told' /\ OnTime'
  BY <1>1, <1>5 DEF DialogueLegal, Told, OnTime
<1> QED
  BY <1>6, <1>7, <1>8 DEF IInv

\* A client that leaves has been told what it has been told.
LEMMA LeaveStep == ASSUME IInv, Leave PROVE IInv'
<1>1. /\ client' = "gone"
      /\ UNCHANGED <<stage, target, sent, pending, got, forwarded, age, armed, dialAt, late>>
  BY DEF Leave, time
<1>2. TypeOK'
  BY <1>1 DEF IInv, TypeOK
<1>3. Told'
  BY <1>1 DEF IInv, Told
<1>4. DialogueLegal' /\ Counted' /\ OnTime'
  BY <1>1 DEF IInv, DialogueLegal, Counted, OnTime
<1> QED
  BY <1>2, <1>3, <1>4 DEF IInv

\* Whatever is sent back, the sequence of answers stays one.
LEMMA ReplyType ==
  ASSUME TypeOK, NEW m \in Replies \cup {"data"}, sendReply(m)
  PROVE  got' \in Seq(Replies \cup {"data"})
BY AppendProperties DEF TypeOK, sendReply

\* What a read takes, and where it leads.
LEMMA ReadFacts ==
  ASSUME TypeOK, NEW here, NEW m, NEW next, Read(here, m, next)
  PROVE  /\ stage = here /\ stage' = next /\ ~Expired
         /\ pending' \in Seq(Messages) /\ Len(pending') + 1 = Len(pending)
         /\ UNCHANGED <<client, target, sent, forwarded>>
<1>1. pending # <<>> /\ pending' = Tail(pending) /\ pending \in Seq(Messages)
  BY DEF Read, TypeOK
<1>2. Tail(pending) \in Seq(Messages) /\ Len(Tail(pending)) = Len(pending) - 1
  BY <1>1, HeadTailProperties
<1> QED
  BY <1>1, <1>2, Facts DEF Read

\* A handshake that ends with a dialogue ends well.
LEMMA ClosedStep ==
  ASSUME IInv, TypeOK', DialogueLegal', stage' = "closed"
  PROVE  IInv'
BY DEF IInv, Told, Counted, OnTime, Reading

\* A dialogue without data.
LEMMA PlainDialogue ==
  ASSUME TypeOK', got' \in Dialogues
  PROVE  DialogueLegal'
<1>1. got' \in Seq(Replies \cup {"data"})
  BY DEF TypeOK
<1> QED
  BY <1>1, Legal DEF DialogueLegal

\* CheckIPAllowed turns the client away, or the deadline is set.
LEMMA AcceptStep == ASSUME IInv, Accept PROVE IInv'
<1>1. /\ stage = "accept" /\ stage' \in {"closed", "method"}
      /\ stage' = "method" => armed'
      /\ armed' \in {armed, TRUE}
      /\ UNCHANGED <<age, dialAt, client, target, sent, pending, got, forwarded, late>>
  BY DEF Accept
<1>2. TypeOK'
  <2>1. armed' \in BOOLEAN
    BY <1>1 DEF IInv, TypeOK
  <2>2. stage' \in Stages
    BY <1>1, StageNames
  <2> QED
    BY <1>1, <2>1, <2>2 DEF IInv, TypeOK
<1>3. DialogueLegal'
  BY <1>1 DEF IInv, DialogueLegal
<1>4. CASE stage' = "method"
  <2>1. Told' /\ Counted'
    BY <1>1, <1>4 DEF IInv, Told, Counted
  <2>2. OnTime'
    <3>1. age' = 0 /\ 0 <= Deadline
      BY <1>1, SocksAssumption DEF IInv, OnTime
    <3> QED
      BY <1>1, <1>4, <3>1 DEF OnTime, Reading
  <2> QED
    BY <1>2, <1>3, <2>1, <2>2 DEF IInv
<1> QED
  BY <1>1, <1>2, <1>3, <1>4, ClosedStep

\* The types after a read with an answer, or without one.
LEMMA ReadTypes ==
  ASSUME TypeOK, NEW here, NEW m, NEW next \in Stages, Read(here, m, next),
         got' \in Seq(Replies \cup {"data"}), dialAt' \in Nat, UNCHANGED <<age, armed, late>>
  PROVE  TypeOK'
<1>1. /\ pending' \in Seq(Messages) /\ stage' = next
      /\ UNCHANGED <<client, target, sent, forwarded>>
  BY ReadFacts
<1> QED
  BY <1>1 DEF TypeOK

\* A whole message in time takes the handshake one stage on.
LEMMA ReadOn ==
  ASSUME IInv, TypeOK', Told', DialogueLegal', NEW m, NEW here \in Reading, NEW next,
         Read(here, m, next), UNCHANGED <<age, armed, late>>,
         \/ here = "method" /\ next = "auth"
         \/ here = "auth" /\ next = "screen"
         \/ here = "request" /\ next = "dial" /\ dialAt' = age
  PROVE  IInv'
<1>1. TypeOK /\ Counted /\ OnTime
  BY DEF IInv
<1>2. /\ stage = here /\ stage' = next /\ ~Expired
      /\ Len(pending') + 1 = Len(pending)
      /\ UNCHANGED <<sent, forwarded>>
  BY <1>1, ReadFacts
<1>3. Len(pending') \in Nat /\ Len(pending) \in Nat /\ sent \in Nat
  BY <1>1, TypeOK', LenProperties, Facts DEF TypeOK
<1>4. Counted'
  <2>1. CASE here = "method" /\ next = "auth"
    BY <2>1, <1>1, <1>2, <1>3 DEF Counted
  <2>2. CASE here = "auth" /\ next = "screen"
    BY <2>2, <1>1, <1>2, <1>3 DEF Counted
  <2>3. CASE here = "request" /\ next = "dial"
    BY <2>3, <1>1, <1>2, <1>3 DEF Counted
  <2> QED
    BY <2>1, <2>2, <2>3
<1>5. armed /\ age < Deadline /\ age \in Nat /\ Deadline \in Nat /\ DialTimeout \in Nat
  BY <1>1, <1>2, Facts DEF OnTime, Expired
<1>6. OnTime'
  <2>1. CASE next \in {"auth", "screen"}
    BY <2>1, <1>2, <1>5 DEF OnTime, Reading
  <2>2. CASE next = "dial" /\ dialAt' = age
    BY <2>2, <1>2, <1>5 DEF OnTime, Reading
  <2> QED
    BY <2>1, <2>2
<1> QED
  BY <1>4, <1>6 DEF IInv

\* What an answer makes of the dialogue while the deadline is not over.
LEMMA Replied ==
  ASSUME NEW m, ~Expired, sendReply(m)
  PROVE  /\ client = "open" => got' = Append(got, m)
         /\ got' \in {got, Append(got, m)}
BY DEF sendReply

\* The methods are accepted, refused or unreadable.
LEMMA handleMethodNegotiationStep ==
  ASSUME IInv, handleMethodNegotiation
  PROVE  IInv'
<1>1. TypeOK /\ Told /\ UNCHANGED <<age, armed, late, dialAt>> /\ dialAt' \in Nat
  BY DEF IInv, TypeOK, handleMethodNegotiation, time
<1>2. ASSUME Read("method", "hello", "auth"), sendReply("userpass") PROVE IInv'
  <2>1. stage = "method" /\ stage' = "auth" /\ ~Expired /\ UNCHANGED client
    BY <1>1, <1>2, ReadFacts
  <2>2. got = <<>>
    BY <1>1, <2>1 DEF Told
  <2>3. got' \in {<<>>, <<"userpass">>} /\ (client = "open" => got' = <<"userpass">>)
    BY <1>2, <2>1, <2>2, Replied, Answer
  <2>4. got' \in Seq(Replies \cup {"data"})
    BY <1>1, <1>2, ReplyType DEF Replies
  <2>5. TypeOK'
    BY <1>1, <1>2, <2>4, ReadTypes, StageNames
  <2>6. Told'
    BY <2>1, <2>3 DEF Told
  <2>7. DialogueLegal'
    BY <2>3, <2>5, DialogueList, PlainDialogue
  <2> QED
    BY <1>1, <1>2, <2>5, <2>6, <2>7, ReadOn DEF Reading
<1>3. ASSUME Read("method", "nomethod", "closed"), sendReply("noacceptable") PROVE IInv'
  <2>1. stage = "method" /\ stage' = "closed" /\ ~Expired /\ UNCHANGED client
    BY <1>1, <1>3, ReadFacts
  <2>2. got = <<>>
    BY <1>1, <2>1 DEF Told
  <2>3. got' \in {<<>>, <<"noacceptable">>}
    BY <1>3, <2>1, <2>2, Replied, Answer
  <2>4. got' \in Seq(Replies \cup {"data"})
    BY <1>1, <1>3, ReplyType DEF Replies
  <2>5. TypeOK'
    BY <1>1, <1>3, <2>4, ReadTypes, StageNames
  <2> QED
    BY <2>1, <2>3, <2>5, DialogueList, PlainDialogue, ClosedStep
<1>4. ASSUME Read("method", "garbage", "closed"), Silent PROVE IInv'
  <2>1. stage' = "closed" /\ got' = got
    BY <1>1, <1>4, ReadFacts DEF Silent
  <2>2. TypeOK'
    BY <1>1, <1>4, <2>1, ReadTypes, StageNames DEF TypeOK
  <2>3. DialogueLegal'
    BY <1>1, <2>1 DEF IInv, DialogueLegal
  <2> QED
    BY <2>1, <2>2, <2>3, ClosedStep
<1> QED
  BY <1>2, <1>3, <1>4 DEF handleMethodNegotiation

\* The credentials are right, wrong or no credentials.
LEMMA authenticateUserStep ==
  ASSUME IInv, authenticateUser
  PROVE  IInv'
<1>1. TypeOK /\ Told /\ UNCHANGED <<age, armed, late, dialAt>> /\ dialAt' \in Nat
  BY DEF IInv, TypeOK, authenticateUser, time
<1>2. ASSUME Read("auth", "credentials", "screen"), sendReply("granted") PROVE IInv'
  <2>1. stage = "auth" /\ stage' = "screen" /\ ~Expired /\ UNCHANGED client
    BY <1>1, <1>2, ReadFacts
  <2>2. got \in {<<>>, <<"userpass">>} /\ (client = "open" => got = <<"userpass">>)
    BY <1>1, <2>1 DEF Told
  <2>3. /\ got' \in {<<>>, <<"userpass">>, <<"userpass", "granted">>}
        /\ client = "open" => got' = <<"userpass", "granted">>
    <3>1. CASE client = "open"
      BY <1>2, <2>1, <2>2, <3>1, Replied, Answer
    <3>2. CASE client = "gone"
      BY <1>2, <2>2, <3>2 DEF sendReply
    <3> QED
      BY <1>1, <3>1, <3>2 DEF TypeOK
  <2>4. got' \in Seq(Replies \cup {"data"})
    BY <1>1, <1>2, ReplyType DEF Replies
  <2>5. TypeOK'
    BY <1>1, <1>2, <2>4, ReadTypes, StageNames
  <2>6. Told'
    BY <2>1, <2>3 DEF Told
  <2>7. DialogueLegal'
    BY <2>3, <2>5, DialogueList, PlainDialogue
  <2> QED
    BY <1>1, <1>2, <2>5, <2>6, <2>7, ReadOn DEF Reading
<1>3. ASSUME Read("auth", "wrong", "closed"), sendReply("denied") PROVE IInv'
  <2>1. stage = "auth" /\ stage' = "closed" /\ ~Expired /\ UNCHANGED client
    BY <1>1, <1>3, ReadFacts
  <2>2. /\ got \in {<<>>, <<"userpass">>}
        /\ client = "open" => got = <<"userpass">>
    BY <1>1, <2>1 DEF Told
  <2>3. got' \in Dialogues
    <3>1. CASE client = "open"
      <4>1. got' = <<"userpass", "denied">>
        BY <1>3, <2>1, <2>2, <3>1, Replied, Answer
      <4> QED
        BY <4>1, DialogueList
    <3>2. CASE client = "gone"
      <4>1. got' = got
        BY <1>3, <3>2 DEF sendReply
      <4> QED
        BY <4>1, <2>2, DialogueList
    <3> QED
      BY <1>1, <3>1, <3>2 DEF TypeOK
  <2>4. got' \in Seq(Replies \cup {"data"})
    BY <1>1, <1>3, ReplyType DEF Replies
  <2>5. TypeOK'
    BY <1>1, <1>3, <2>4, ReadTypes, StageNames
  <2> QED
    BY <2>1, <2>3, <2>5, PlainDialogue, ClosedStep
<1>4. ASSUME Read("auth", "garbage", "closed"), Silent PROVE IInv'
  <2>1. stage' = "closed" /\ got' = got
    BY <1>1, <1>4, ReadFacts DEF Silent
  <2>2. TypeOK'
    BY <1>1, <1>4, <2>1, ReadTypes, StageNames DEF TypeOK
  <2>3. DialogueLegal'
    BY <1>1, <2>1 DEF IInv, DialogueLegal
  <2> QED
    BY <2>1, <2>2, <2>3, ClosedStep
<1> QED
  BY <1>2, <1>3, <1>4 DEF authenticateUser

\* The request is carried out, or refused.
LEMMA handleRequestStep ==
  ASSUME IInv, handleRequest
  PROVE  IInv'
<1>1. TypeOK /\ Told /\ UNCHANGED <<age, armed, late>> /\ age \in Nat /\ dialAt \in Nat
  BY DEF IInv, TypeOK, handleRequest
<1>2. ASSUME Read("request", "connect", "dial"), Silent, dialAt' = age PROVE IInv'
  <2>1. stage = "request" /\ stage' = "dial" /\ got' = got /\ UNCHANGED client
    BY <1>1, <1>2, ReadFacts DEF Silent
  <2>2. TypeOK'
    BY <1>1, <1>2, <2>1, ReadTypes, StageNames DEF TypeOK
  <2>3. Told'
    BY <1>1, <2>1 DEF Told
  <2>4. DialogueLegal'
    BY <1>1, <2>1 DEF IInv, DialogueLegal
  <2> QED
    BY <1>1, <1>2, <2>2, <2>3, <2>4, ReadOn DEF Reading
<1>3. ASSUME Read("request", "bind", "closed"), sendReply("cmd"), dialAt' = dialAt PROVE IInv'
  <2>1. stage = "request" /\ stage' = "closed" /\ ~Expired /\ UNCHANGED client
    BY <1>1, <1>3, ReadFacts
  <2>2. /\ got \in {<<>>, <<"userpass">>, <<"userpass", "granted">>}
        /\ client = "open" => got = <<"userpass", "granted">>
    BY <1>1, <2>1 DEF Told
  <2>3. got' \in Dialogues
    <3>1. CASE client = "open"
      <4>1. got' = <<"userpass", "granted", "cmd">>
        BY <1>3, <2>1, <2>2, <3>1, Replied, Answer
      <4> QED
        BY <4>1, DialogueList
    <3>2. CASE client = "gone"
      <4>1. got' = got
        BY <1>3, <3>2 DEF sendReply
      <4> QED
        BY <4>1, <2>2, DialogueList
    <3> QED
      BY <1>1, <3>1, <3>2 DEF TypeOK
  <2>4. got' \in Seq(Replies \cup {"data"})
    BY <1>1, <1>3, ReplyType DEF Replies
  <2>5. TypeOK'
    BY <1>1, <1>3, <2>4, ReadTypes, StageNames
  <2> QED
    BY <2>1, <2>3, <2>5, PlainDialogue, ClosedStep
<1>4. ASSUME Read("request", "badtype", "closed"), sendReply("type"), dialAt' = dialAt PROVE IInv'
  <2>1. stage = "request" /\ stage' = "closed" /\ ~Expired /\ UNCHANGED client
    BY <1>1, <1>4, ReadFacts
  <2>2. /\ got \in {<<>>, <<"userpass">>, <<"userpass", "granted">>}
        /\ client = "open" => got = <<"userpass", "granted">>
    BY <1>1, <2>1 DEF Told
  <2>3. got' \in Dialogues
    <3>1. CASE client = "open"
      <4>1. got' = <<"userpass", "granted", "type">>
        BY <1>4, <2>1, <2>2, <3>1, Replied, Answer
      <4> QED
        BY <4>1, DialogueList
    <3>2. CASE client = "gone"
      <4>1. got' = got
        BY <1>4, <3>2 DEF sendReply
      <4> QED
        BY <4>1, <2>2, DialogueList
    <3> QED
      BY <1>1, <3>1, <3>2 DEF TypeOK
  <2>4. got' \in Seq(Replies \cup {"data"})
    BY <1>1, <1>4, ReplyType DEF Replies
  <2>5. TypeOK'
    BY <1>1, <1>4, <2>4, ReadTypes, StageNames
  <2> QED
    BY <2>1, <2>3, <2>5, PlainDialogue, ClosedStep
<1>5. ASSUME Read("request", "garbage", "closed"), Silent, dialAt' = dialAt PROVE IInv'
  <2>1. stage' = "closed" /\ got' = got
    BY <1>1, <1>5, ReadFacts DEF Silent
  <2>2. TypeOK'
    BY <1>1, <1>5, <2>1, ReadTypes, StageNames DEF TypeOK
  <2>3. DialogueLegal'
    BY <1>1, <2>1 DEF IInv, DialogueLegal
  <2> QED
    BY <2>1, <2>2, <2>3, ClosedStep
<1> QED
  BY <1>2, <1>3, <1>4, <1>5 DEF handleRequest

\* Screen, and a read that fails: the client is told nothing.
LEMMA QuietStep == ASSUME IInv, Screen \/ ReadFails PROVE IInv'
<1>1. /\ stage' \in {"request", "closed"}
      /\ stage' = "request" => stage = "screen"
      /\ UNCHANGED <<client, target, sent, pending, got, forwarded, age, armed, dialAt, late>>
  BY DEF Screen, ReadFails, time
<1>2. TypeOK'
  BY <1>1, StageNames DEF IInv, TypeOK
<1>3. DialogueLegal'
  BY <1>1 DEF IInv, DialogueLegal
<1>4. CASE stage' = "request" /\ stage = "screen"
  <2>1. Told'
    BY <1>1, <1>4 DEF IInv, Told
  <2>2. Counted'
    BY <1>1, <1>4 DEF IInv, Counted
  <2>3. OnTime'
    BY <1>1, <1>4 DEF IInv, OnTime, Reading
  <2> QED
    BY <1>2, <1>3, <2>1, <2>2, <2>3 DEF IInv
<1> QED
  BY <1>1, <1>2, <1>3, <1>4, ClosedStep

\* What the dial's reply makes of the dialogue.
LEMMA DialReply ==
  ASSUME IInv, stage = "dial", NEW m \in {"succeeded", "unreachable"}, sendReply(m)
  PROVE  /\ got' \in Dialogues /\ got' \in Seq(Replies \cup {"data"})
         /\ client = "open" /\ ~Expired => got' = <<"userpass", "granted", m>>
<1>1. TypeOK /\ got \in {<<>>, <<"userpass">>, <<"userpass", "granted">>}
      /\ (client = "open" => got = <<"userpass", "granted">>)
  BY DEF IInv, Told
<1>2. got' \in Seq(Replies \cup {"data"})
  BY <1>1, ReplyType DEF Replies
<1>3. CASE client = "open" /\ ~Expired
  <2>1. got' = <<"userpass", "granted", m>>
    BY <1>1, <1>3, Replied, Answer
  <2> QED
    BY <1>2, <2>1, DialogueList
<1>4. CASE client = "gone" \/ Expired
  <2>1. got' = got
    BY <1>4 DEF sendReply
  <2> QED
    BY <1>1, <1>2, <1>4, <2>1, DialogueList
<1> QED
  BY <1>1, <1>3, <1>4 DEF TypeOK

\* The target cannot be reached.
LEMMA DialFailsStep == ASSUME IInv, DialFails PROVE IInv'
<1>1. /\ stage = "dial" /\ sendReply("unreachable") /\ stage' = "closed" /\ late' = Expired
      /\ UNCHANGED <<age, armed, dialAt, client, target, sent, pending, forwarded>>
  BY DEF DialFails
<1>2. got' \in Dialogues /\ got' \in Seq(Replies \cup {"data"})
  BY <1>1, DialReply
<1>3. late' \in BOOLEAN
  BY <1>1 DEF Expired
<1>4. TypeOK'
  BY <1>1, <1>2, <1>3, StageNames DEF IInv, TypeOK
<1> QED
  BY <1>1, <1>2, <1>4, PlainDialogue, ClosedStep

\* The target is reached, and the relay begins, whether or not the reply arrives.
LEMMA DialledStep == ASSUME IInv, Dialled PROVE IInv'
<1>1. /\ stage = "dial" /\ sendReply("succeeded") /\ stage' = "relay" /\ late' = Expired
      /\ armed' = FALSE
      /\ UNCHANGED <<age, dialAt, client, target, sent, pending, forwarded>>
  BY DEF Dialled
<1>2. /\ got' \in Dialogues /\ got' \in Seq(Replies \cup {"data"})
      /\ client = "open" /\ ~Expired => got' = <<"userpass", "granted", "succeeded">>
  BY <1>1, DialReply
<1>3. late' \in BOOLEAN /\ armed' \in BOOLEAN
  BY <1>1 DEF Expired
<1>4. TypeOK'
  BY <1>1, <1>2, <1>3, StageNames DEF IInv, TypeOK
<1>5. Told'
  <2>1. ASSUME client = "open", ~Expired PROVE Len(got') >= 3 /\ got'[3] = "succeeded"
    <3>1. PICK d : d = <<"userpass", "granted", "succeeded">> /\ got' = d
      BY <1>2, <2>1
    <3>2. Len(d) = 3 /\ d[3] = "succeeded"
      BY <3>1
    <3> QED
      BY <3>1, <3>2
  <2> QED
    BY <1>1, <2>1 DEF Told
<1>6. Counted'
  <2>1. forwarded = 0 /\ Len(pending) + 3 = sent /\ Len(pending) \in Nat
    BY <1>1, Facts DEF IInv, Counted
  <2> QED
    BY <1>1, <2>1 DEF Counted
<1>7. OnTime'
  BY <1>1 DEF OnTime, Reading
<1> QED
  BY <1>2, <1>4, <1>5, <1>6, <1>7, PlainDialogue DEF IInv

\* The target stops reading.
LEMMA TargetStopsStep == ASSUME IInv, TargetStops PROVE IInv'
<1>1. /\ target' = "deaf"
      /\ UNCHANGED <<stage, client, sent, pending, got, forwarded, age, armed, dialAt, late>>
  BY DEF TargetStops, time
<1>2. TypeOK'
  BY <1>1 DEF IInv, TypeOK
<1>3. Told' /\ DialogueLegal' /\ Counted' /\ OnTime'
  BY <1>1 DEF IInv, Told, DialogueLegal, Counted, OnTime
<1> QED
  BY <1>2, <1>3 DEF IInv

\* A piece of the client's data goes to the target.
LEMMA RelayUpStep == ASSUME IInv, RelayUp PROVE IInv'
<1>1. /\ stage = "relay" /\ pending # <<>> /\ pending' = Tail(pending)
      /\ forwarded' = forwarded + 1
      /\ UNCHANGED <<stage, client, target, sent, got, age, armed, dialAt, late>>
  BY DEF RelayUp, time
<1>2. pending' \in Seq(Messages) /\ Len(pending') = Len(pending) - 1
  BY <1>1, HeadTailProperties DEF IInv, TypeOK
<1>3. /\ forwarded + Len(pending) + 3 = sent /\ sent <= 3 + MaxData
      /\ Len(pending) \in Nat /\ forwarded \in Nat /\ sent \in Nat /\ MaxData \in Nat
  BY <1>1, Facts DEF IInv, Counted, TypeOK
<1>4. Len(pending') \in Nat
  BY <1>2, LenProperties
<1>5. forwarded' \in 0..MaxData /\ forwarded' + Len(pending') + 3 = sent
  BY <1>1, <1>2, <1>3, <1>4
<1>6. TypeOK'
  BY <1>1, <1>2, <1>5 DEF IInv, TypeOK
<1>7. Counted'
  BY <1>1, <1>5 DEF Counted
<1>8. DialogueLegal' /\ Told' /\ OnTime'
  BY <1>1 DEF IInv, DialogueLegal, Told, OnTime
<1> QED
  BY <1>6, <1>7, <1>8 DEF IInv

\* A piece of the target's data goes to the client, which has seen "succeeded"
\* unless the dial was late.
LEMMA RelayDownStep == ASSUME IInv, RelayDown PROVE IInv'
<1>1. /\ stage = "relay" /\ sendReply("data")
      /\ UNCHANGED <<stage, client, target, sent, pending, forwarded, age, armed, dialAt, late>>
  BY DEF RelayDown, time
<1>2. TypeOK /\ got' \in Seq(Replies \cup {"data"}) /\ got \in Seq(Replies \cup {"data"})
  BY <1>1, ReplyType DEF IInv, TypeOK
<1>3. TypeOK'
  BY <1>1, <1>2 DEF TypeOK
<1>4. Counted' /\ OnTime'
  BY <1>1 DEF IInv, Counted, OnTime
<1>5. CASE got' = got
  BY <1>1, <1>3, <1>4, <1>5 DEF IInv, DialogueLegal, Told
<1>6. CASE client = "open" /\ got' = Append(got, "data")
  <2>1. /\ Len(got) \in Nat /\ DOMAIN got = 1..Len(got)
        /\ Len(got') = Len(got) + 1 /\ DOMAIN got' = 1..(Len(got) + 1)
        /\ \A i \in 1..Len(got) : got'[i] = got[i]
        /\ got'[Len(got) + 1] = "data"
    BY <1>2, <1>6, AppendProperties, LenProperties
  <2>2. late \/ (Len(got) >= 3 /\ got[3] = "succeeded")
    BY <1>1, <1>6 DEF IInv, Told
  <2>3. Told'
    <3>1. ASSUME Len(got) >= 3, got[3] = "succeeded"
          PROVE  Len(got') >= 3 /\ got'[3] = "succeeded"
      <4>1. 3 \in 1..Len(got)
        BY <3>1, <2>1
      <4> QED
        BY <4>1, <3>1, <2>1
    <3> QED
      BY <1>1, <2>2, <3>1 DEF Told
  <2>4. PICK d \in Dialogues :
          /\ Len(d) <= Len(got)
          /\ \A i \in DOMAIN got : got[i] = IF i <= Len(d) THEN d[i] ELSE "data"
    BY DEF IInv, DialogueLegal
  <2>5. Len(d) \in Nat
    BY DialogueList
  <2>6. Contains(d, "succeeded") \/ late
    <3> SUFFICES ASSUME Len(got) >= 3, got[3] = "succeeded"
                 PROVE  Contains(d, "succeeded")
      BY <2>2
    <3>1. 3 \in DOMAIN got
      BY <2>1
    <3>2. 3 <= Len(d) /\ d[3] = "succeeded"
      BY <3>1, <2>4, <2>5
    <3> QED
      BY <3>2, <2>5 DEF Contains
  <2>7. ASSUME NEW i \in DOMAIN got'
        PROVE  got'[i] = IF i <= Len(d) THEN d[i] ELSE "data"
    <3>1. i \in 1..Len(got) \/ i = Len(got) + 1
      BY <2>1
    <3> QED
      BY <3>1, <2>1, <2>4, <2>5
  <2>8. DialogueLegal'
    <3>1. Len(d) <= Len(got')
      BY <2>1, <2>4, <2>5
    <3>2. Contains(d, "succeeded") \/ late'
      BY <1>1, <2>6
    <3> QED
      BY <2>7, <3>1, <3>2 DEF DialogueLegal
  <2> QED
    BY <1>3, <1>4, <2>3, <2>8 DEF IInv
<1> QED
  BY <1>1, <1>2, <1>5, <1>6 DEF sendReply, TypeOK

\* A copier is done.
LEMMA RelayEndsStep == ASSUME IInv, RelayEnds PROVE IInv'
<1>1. /\ stage' = "closed"
      /\ UNCHANGED <<client, target, sent, pending, got, forwarded, age, armed, dialAt, late>>
  BY DEF RelayEnds, time
<1>2. TypeOK' /\ DialogueLegal'
  BY <1>1, StageNames DEF IInv, TypeOK, DialogueLegal
<1> QED
  BY <1>1, <1>2, ClosedStep

\* Time passes until a deadline.
LEMMA TickStep == ASSUME IInv, Tick PROVE IInv'
<1>1. /\ stage \in Reading \cup {"dial"}
      /\ stage \in Reading => ~Expired
      /\ stage = "dial" => age - dialAt < DialTimeout
      /\ age' = age + 1
      /\ UNCHANGED <<stage, armed, dialAt, client, target, sent, pending, got, forwarded, late>>
  BY DEF Tick
<1>2. TypeOK /\ OnTime
  BY DEF IInv
<1>3. /\ age \in Nat /\ dialAt \in Nat /\ Deadline \in Nat /\ DialTimeout \in Nat
  BY <1>2, Facts
<1>4. TypeOK'
  BY <1>1, <1>3 DEF IInv, TypeOK
<1>5. CASE stage \in Reading
  <2>1. armed /\ age < Deadline
    BY <1>1, <1>2, <1>3, <1>5 DEF OnTime, Expired
  <2>2. OnTime'
    BY <1>1, <1>3, <1>5, <2>1 DEF OnTime, Reading
  <2> QED
    BY <1>1, <1>4, <2>2 DEF IInv, DialogueLegal, Told, Counted
<1>6. CASE stage = "dial"
  <2>1. OnTime'
    BY <1>1, <1>2, <1>3, <1>6 DEF OnTime, Reading
  <2> QED
    BY <1>1, <1>4, <2>1 DEF IInv, DialogueLegal, Told, Counted
<1> QED
  BY <1>1, <1>5, <1>6

\* Steps keep the invariant.
LEMMA IInvStep == IInv /\ [Next]_vars => IInv'
<1> SUFFICES ASSUME IInv, [Next]_vars PROVE IInv'
  OBVIOUS
<1>1. CASE UNCHANGED vars
  BY <1>1 DEF vars, IInv, TypeOK, DialogueLegal, Told, Counted, OnTime
<1>2. CASE Send \/ Leave \/ Tick
  BY <1>2, SendStep, LeaveStep, TickStep
<1>3. CASE handleConnection
  BY <1>3, AcceptStep, handleMethodNegotiationStep, authenticateUserStep, QuietStep,
     handleRequestStep, DialledStep, DialFailsStep DEF handleConnection
<1>4. CASE Relay
  BY <1>4, TargetStopsStep, RelayUpStep, RelayDownStep, RelayEndsStep DEF Relay
<1> QED
  BY <1>1, <1>2, <1>3, <1>4 DEF Next

-----------------------------------------------------------------------------
(***************************************************************************)
(* The theorems.                                                           *)
(***************************************************************************)
\* The inductive invariant of a SOCKS5 connection.
LEMMA Invariance == Spec => []IInv
BY IInvInit, IInvStep, PTL DEF Spec

\* The connection keeps its types; the target is sent no more pieces of data than
\* the client has sent behind its three messages.
THEOREM TypeCorrect == Spec => []TypeOK
<1>1. IInv => TypeOK
  BY DEF IInv
<1> QED
  BY <1>1, Invariance, PTL

\* What a client is sent by handleConnection is a SOCKS5 dialogue, and data only
\* behind "succeeded" or a dial that has outlasted the deadline.
THEOREM DialogueLegalHolds == Spec => []DialogueLegal
<1>1. IInv => DialogueLegal
  BY DEF IInv
<1> QED
  BY <1>1, Invariance, PTL

\* Data sent right behind the request reaches the relay, as handleRequest and the
\* reads before it take exactly their own messages.
THEOREM EarlyDataKeptHolds == Spec => []EarlyDataKept
<1>1. IInv => EarlyDataKept
  <2> SUFFICES ASSUME IInv, stage = "relay" PROVE forwarded + Len(pending) = sent - 3
    BY DEF EarlyDataKept
  <2>1. forwarded + Len(pending) + 3 = sent
    BY DEF IInv, Counted
  <2>2. forwarded \in Nat /\ Len(pending) \in Nat /\ sent \in Nat
    BY Facts DEF IInv
  <2> QED
    BY <2>1, <2>2
<1> QED
  BY <1>1, Invariance, PTL

\* No client holds its place in the handshake beyond the deadline that is set at
\* the accept and the dial's timeout.
THEOREM HandshakeBoundedHolds == Spec => []HandshakeBounded
<1>1. IInv => HandshakeBounded
  <2> SUFFICES ASSUME IInv, stage \notin {"relay", "closed"}
               PROVE  age < Deadline + DialTimeout
    BY DEF HandshakeBounded
  <2>1. /\ age \in Nat /\ dialAt \in Nat /\ Deadline \in Nat /\ DialTimeout \in Nat
        /\ Deadline > 0 /\ DialTimeout > 0
    BY Facts DEF IInv
  <2>2. stage \in Reading \cup {"accept", "screen", "dial"}
    BY StageNames DEF IInv, TypeOK, Reading
  <2>3. CASE stage \in Reading \cup {"accept", "screen"}
    <3>1. age <= Deadline
      BY <2>1, <2>3 DEF IInv, OnTime
    <3> QED
      BY <3>1, <2>1
  <2>4. CASE stage = "dial"
    <3>1. dialAt < Deadline /\ age - dialAt <= DialTimeout
      BY <2>4 DEF IInv, OnTime
    <3> QED
      BY <3>1, <2>1
  <2> QED
    BY <2>2, <2>3, <2>4
<1> QED
  BY <1>1, Invariance, PTL

\* The steps that end a dial are Dialled and DialFails.
LEMMA StepAnswersDial ==
  ASSUME IInv, [Next]_vars, stage = "dial", stage' # "dial", client = "open", ~Expired
  PROVE  Len(got') = 3
<1>1. ASSUME Dialled \/ DialFails PROVE Len(got') = 3
  <2>1. PICK m \in {"succeeded", "unreachable"} : sendReply(m)
    BY <1>1 DEF Dialled, DialFails
  <2>2. got' = <<"userpass", "granted", m>>
    BY <2>1, DialReply
  <2> QED
    BY <2>2
<1>2. Dialled \/ DialFails
  BY DEF Next, vars, Send, Leave, Tick, handleConnection, Relay, Accept,
         handleMethodNegotiation, authenticateUser, Screen, handleRequest, ReadFails,
         TargetStops, RelayUp, RelayDown, RelayEnds, Read, Reading
<1> QED
  BY <1>1, <1>2

\* Dialled and DialFails answer a client that is still there and in time, with the
\* third answer of its dialogue.
THEOREM DialAnsweredHolds == Spec => DialAnswered
<1>1. IInv /\ [Next]_vars =>
        [stage = "dial" /\ stage' # "dial" /\ client = "open" /\ ~Expired
           => Len(got') = 3]_vars
  BY StepAnswersDial
<1> QED
  BY <1>1, Invariance, PTL DEF Spec, DialAnswered

=============================================================================
