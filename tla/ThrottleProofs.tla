---------------------------- MODULE ThrottleProofs ----------------------------
(***************************************************************************)
(* For any number of goroutines on a ThrottledConn, any rate, bucket and   *)
(* buffer: how far the bucket is overdrawn, and how many bytes move in any *)
(* span of time.                                                           *)
(***************************************************************************)
EXTENDS Throttle, FiniteSetTheorems, TLAPS

\* The bytes that were moved and not paid for, each with the copier that moved
\* it: their number is what is still to be taken from the bucket.
Unpaid ==
  {b \in Copiers \X (1..Buffer) : call[b[1]].pc = "consume" /\ b[2] <= call[b[1]].n}

\* Copiers that have been let through and have moved nothing yet.
Passed == {c \in Copiers : call[c].pc = "move"}

-----------------------------------------------------------------------------
(***************************************************************************)
(* Arithmetic and counting.                                                *)
(***************************************************************************)
\* Min and Max of two numbers.
LEMMA MinMax ==
  ASSUME NEW a \in Int, NEW b \in Int
  PROVE  /\ Min({a, b}) = IF a <= b THEN a ELSE b
         /\ Max({a, b}) = IF a >= b THEN a ELSE b
<1>1. \E x \in {a, b} : \A y \in {a, b} : x <= y
  OBVIOUS
<1>2. \E x \in {a, b} : \A y \in {a, b} : x >= y
  OBVIOUS
<1>3. Min({a, b}) \in {a, b} /\ \A y \in {a, b} : Min({a, b}) <= y
  BY <1>1, Zenon DEF Min
<1>4. Max({a, b}) \in {a, b} /\ \A y \in {a, b} : Max({a, b}) >= y
  BY <1>2, Zenon DEF Max
<1> QED
  BY <1>3, <1>4

\* Products of natural numbers.
LEMMA Products ==
  ASSUME NEW a \in Nat, NEW b \in Nat, NEW m \in Nat
  PROVE  /\ a * m \in Nat
         /\ (a + b) * m = a * m + b * m
         /\ (a + 1) * m = a * m + m
         /\ b <= a => (a - b) * m = a * m - b * m /\ b * m <= a * m
<1>1. a * m \in Nat /\ b * m \in Nat /\ (a + b) * m = a * m + b * m /\ (a + 1) * m = a * m + m
  OBVIOUS
<1>2. ASSUME b <= a PROVE (a - b) * m = a * m - b * m /\ (a - b) * m >= 0
  BY <1>2
<1> QED
  BY <1>1, <1>2

\* k bytes of one copier.
LEMMA BytesOf ==
  ASSUME NEW c, NEW k \in Nat
  PROVE  IsFiniteSet({c} \X (1..k)) /\ Cardinality({c} \X (1..k)) = k
<1>1. IsFiniteSet({c}) /\ Cardinality({c}) = 1
  BY FS_Singleton
<1>2. IsFiniteSet(1..k) /\ Cardinality(1..k) = k
  BY FS_Interval
<1>3. Cardinality({c} \X (1..k)) = Cardinality({c}) * Cardinality(1..k)
  BY <1>1, <1>2, FS_Product
<1> QED
  BY <1>1, <1>2, <1>3, FS_Product

\* There are finitely many copiers in any set of them, and finitely many bytes.
LEMMA Finite ==
  /\ \A S \in SUBSET Copiers : /\ IsFiniteSet(S)
                                /\ Cardinality(S) \in Nat
                                /\ Cardinality(S) <= Cardinality(Copiers)
  /\ \A T \in SUBSET (Copiers \X (1..Buffer)) : IsFiniteSet(T) /\ Cardinality(T) \in Nat
  /\ Unpaid \in SUBSET (Copiers \X (1..Buffer))
<1>1. IsFiniteSet(1..Buffer)
  BY ThrottleAssumption, FS_Interval
<1>2. IsFiniteSet(Copiers \X (1..Buffer))
  BY <1>1, ThrottleAssumption, FS_Product
<1>3. Unpaid \in SUBSET (Copiers \X (1..Buffer))
  BY DEF Unpaid
<1> QED
  BY <1>2, <1>3, ThrottleAssumption, FS_Subset, FS_CardinalityType

\* The unpaid bytes of all copiers are at most a buffer for each that has passed.
LEMMA UnpaidBound ==
  /\ Past \in SUBSET Copiers /\ Copiers \ Past \in SUBSET Copiers
  /\ Cardinality(Past) + Cardinality(Copiers \ Past) = Cardinality(Copiers)
  /\ Cardinality(Unpaid) <= Cardinality(Past) * Buffer
<1>1. Past \in SUBSET Copiers /\ Copiers \cap Past = Past
  BY DEF Past
<1>2. Cardinality(Copiers \ Past) = Cardinality(Copiers) - Cardinality(Past)
  BY <1>1, ThrottleAssumption, FS_Difference
<1>3. IsFiniteSet(Past) /\ Cardinality(Past) \in Nat /\ Cardinality(Copiers) \in Nat
  BY <1>1, Finite
<1>4. IsFiniteSet(1..Buffer) /\ Cardinality(1..Buffer) = Buffer
  BY ThrottleAssumption, FS_Interval
<1>5. /\ IsFiniteSet(Past \X (1..Buffer))
      /\ Cardinality(Past \X (1..Buffer)) = Cardinality(Past) * Buffer
  BY <1>3, <1>4, FS_Product
<1>6. Unpaid \in SUBSET (Past \X (1..Buffer))
  BY DEF Unpaid, Past
<1> QED
  BY <1>1, <1>2, <1>3, <1>5, <1>6, FS_Subset

\* A copier that has moved k bytes owes k more.
LEMMA UnpaidGrows ==
  ASSUME NEW c \in Copiers, call[c].pc # "consume", NEW k \in 1..Buffer,
         \A d \in Copiers : d # c => call'[d].pc = call[d].pc /\ call'[d].n = call[d].n,
         call'[c].pc = "consume", call'[c].n = k
  PROVE  Cardinality(Unpaid') = Cardinality(Unpaid) + k
<1>1. Unpaid' = Unpaid \cup ({c} \X (1..k)) /\ Unpaid \cap ({c} \X (1..k)) = {}
  BY ThrottleAssumption DEF Unpaid
<1>2. IsFiniteSet({c} \X (1..k)) /\ Cardinality({c} \X (1..k)) = k
  <2>1. k \in Nat
    BY ThrottleAssumption
  <2> QED
    BY <2>1, BytesOf
<1>3. IsFiniteSet(Unpaid) /\ Cardinality(Unpaid) \in Nat
  BY Finite
<1>4. Cardinality(Unpaid') = Cardinality(Unpaid) + k - Cardinality({})
  BY <1>1, <1>2, <1>3, FS_Union
<1> QED
  BY <1>3, <1>4, FS_EmptySet

\* One that takes its tokens owes nothing.
LEMMA UnpaidShrinks ==
  ASSUME NEW c \in Copiers, call[c].pc = "consume", call[c].n \in 1..Buffer,
         \A d \in Copiers : d # c => call'[d].pc = call[d].pc /\ call'[d].n = call[d].n,
         call'[c].pc # "consume"
  PROVE  Cardinality(Unpaid') = Cardinality(Unpaid) - call[c].n
<1>1. PICK k \in Nat : k = call[c].n /\ k \in 1..Buffer
  BY ThrottleAssumption
<1>2. PICK X : X = {c} \X (1..k)
  OBVIOUS
<1>3. Unpaid' = Unpaid \ X /\ Unpaid \cap X = X
  BY <1>1, <1>2, ThrottleAssumption DEF Unpaid
<1>4. Cardinality(X) = k
  BY <1>2, BytesOf
<1>5. IsFiniteSet(Unpaid)
  BY Finite
<1>6. Cardinality(Unpaid \ X) = Cardinality(Unpaid) - Cardinality(Unpaid \cap X)
  BY <1>5, FS_Difference
<1> QED
  BY <1>1, <1>3, <1>4, <1>6

\* Other steps leave the debts alone.
LEMMA UnpaidSame ==
  ASSUME \A d \in Copiers : /\ call'[d].n = call[d].n
                            /\ call'[d].pc = "consume" <=> call[d].pc = "consume"
  PROVE  Unpaid' = Unpaid
BY DEF Unpaid

-----------------------------------------------------------------------------
(***************************************************************************)
(* The inductive invariant.                                                *)
(***************************************************************************)
\* A copier that is about to take tokens has moved something.
MovedSome == \A c \in Copiers : call[c].pc = "consume" => call[c].n \in 1..Buffer

\* The bucket is never fuller than full.
Rim == tokens <= MaxTokens

\* The bytes of the window and the tokens that are not spoken for.  Moving bytes
\* and paying for them leave it as it is; only a refill adds to it.
Value == watch.bytes + tokens - Cardinality(Unpaid)

\* Until the first refill within the window, each copier has moved at most what
\* it was let through for before; from then on refills are worth the time that
\* has passed.
InWindow ==
  /\ watch.span = -1 => watch.bytes = 0
  /\ watch.span >= 0 /\ since > watch.span =>
       /\ Value <= MaxTokens
       /\ watch.bytes <= Cardinality(Copiers \ Passed) * Buffer
  /\ watch.span >= 0 /\ since <= watch.span =>
       Value <= MaxTokens + Cardinality(Copiers) * Buffer + (watch.span - since) * Rate

IInv ==
  /\ TypeOK
  /\ MovedSome
  /\ Rim
  /\ Overdraft
  /\ InWindow

\* What the proofs use of the constants.
LEMMA Constants ==
  /\ Rate \in Nat /\ Rate > 0 /\ MaxTokens \in Nat /\ Buffer \in Nat /\ Buffer > 0
  /\ MaxSleep \in Nat /\ MaxSleep > 0 /\ Far \in Nat /\ Window \in Nat
  /\ Cardinality(Copiers) \in Nat /\ Cardinality(Copiers) * Buffer \in Nat
<1>1. Cardinality(Copiers) \in Nat
  BY Finite
<1> QED
  BY <1>1, ThrottleAssumption, Products

\* A refill adds what the time is worth, up to the rim.
LEMMA Refilled ==
  ASSUME TypeOK, Rim
  PROVE  /\ refill \in Int
         /\ tokens <= refill /\ refill <= MaxTokens
         /\ refill <= tokens + since * Rate
<1>1. tokens \in Int /\ since \in Nat /\ since * Rate \in Nat
  BY Constants, Products DEF TypeOK
<1> QED
  BY <1>1, Constants, MinMax DEF refill, Rim

\* A sleep has a length.
LEMMA Sleeps ==
  ASSUME TypeOK, Rim, NEW c \in Copiers
  PROVE  waitDuration(c) \in 0..MaxSleep
<1>1. call[c].need \in Int
  BY Constants DEF TypeOK, Call
<1>2. PICK a \in Int : a = call[c].need - refill
  BY <1>1, Refilled
<1>3. PICK q \in Int : q = a \div Rate
  BY <1>2, Constants
<1>4. PICK m \in Int : m = Min({q, MaxSleep}) /\ m <= MaxSleep
  BY <1>3, Constants, MinMax
<1>5. Max({1, m}) = IF 1 >= m THEN 1 ELSE m
  BY <1>4, MinMax
<1>6. Max({1, m}) \in 0..MaxSleep
  BY <1>4, <1>5, Constants
<1> QED
  BY <1>2, <1>3, <1>4, <1>6 DEF waitDuration

\* The window is untouched, and so is the clock: a step that keeps the value and
\* lets no more copiers through without a refill keeps the bound.
LEMMA InWindowSame ==
  ASSUME TypeOK, InWindow, Value' = Value, Passed' \subseteq Passed, UNCHANGED <<watch, since>>
  PROVE  InWindow'
<1>1. Copiers \ Passed \in SUBSET (Copiers \ Passed')
  BY DEF Passed
<1>2. /\ Copiers \ Passed' \in SUBSET Copiers /\ IsFiniteSet(Copiers \ Passed')
      /\ Cardinality(Copiers \ Passed') \in Nat /\ Cardinality(Copiers \ Passed) \in Nat
  BY Finite
<1>3. Cardinality(Copiers \ Passed) <= Cardinality(Copiers \ Passed')
  BY <1>1, <1>2, FS_Subset
<1>4. PICK a \in Nat : a = Cardinality(Copiers \ Passed) * Buffer
  BY <1>2, Constants, Products
<1>5. PICK b \in Nat : b = Cardinality(Copiers \ Passed') * Buffer
  BY <1>2, Constants, Products
<1>6. a <= b
  BY <1>2, <1>3, <1>4, <1>5, Constants, Products
<1> QED
  BY <1>4, <1>5, <1>6 DEF TypeOK, InWindow

\* Initial states satisfy the invariant.
LEMMA IInvInit == Init => IInv
<1> SUFFICES ASSUME Init PROVE IInv
  OBVIOUS
<1>1. TypeOK
  <2>1. Idle \in Call
    BY Constants DEF Idle, Call
  <2>2. call \in [Copiers -> Call]
    BY <2>1 DEF Init
  <2>3. watch \in [span : -1..Window, bytes : Nat]
    BY Constants DEF Init
  <2> QED
    BY <2>2, <2>3, Constants DEF Init, TypeOK
<1>2. MovedSome /\ Rim
  BY Constants DEF Init, MovedSome, Rim, Idle
<1>3. Overdraft
  <2>1. Cardinality(Copiers \ Past) * Buffer \in Nat
    BY UnpaidBound, Finite, Constants, Products
  <2> QED
    BY <2>1, ThrottleAssumption DEF Init, Overdraft
<1>4. InWindow
  BY DEF Init, InWindow
<1> QED
  BY <1>1, <1>2, <1>3, <1>4 DEF IInv

\* A call begins.
LEMMA BeginKeeps ==
  ASSUME IInv, NEW c \in Copiers, Begin(c)
  PROVE  IInv'
<1>1. PICK need \in 1..Buffer : call' = [call EXCEPT ![c] = [@ EXCEPT !.pc = "wait", !.need = need]]
  BY DEF Begin
<1>2. /\ call' \in [Copiers -> Call]
      /\ call'[c].pc = "wait" /\ call'[c].n = call[c].n
      /\ \A d \in Copiers : d # c => call'[d] = call[d]
  <2>1. call[c] \in Call /\ need \in 0..Buffer
    BY Constants DEF IInv, TypeOK
  <2>2. PICK r : r = [call[c] EXCEPT !.pc = "wait", !.need = need]
    OBVIOUS
  <2>3. r \in Call /\ r.pc = "wait" /\ r.n = call[c].n
    BY <2>1, <2>2 DEF Call
  <2> QED
    BY <1>1, <2>2, <2>3 DEF IInv, TypeOK
<1>3. call[c].pc = "idle" /\ UNCHANGED <<tokens, since, watch>>
  BY DEF Begin
<1>4. TypeOK' /\ MovedSome' /\ Rim'
  BY <1>2, <1>3 DEF IInv, TypeOK, MovedSome, Rim
<1>5. Past' = Past /\ Passed' = Passed
  BY <1>2, <1>3 DEF Past, Passed
<1>6. Overdraft'
  BY <1>3, <1>5 DEF IInv, Overdraft
<1>7. Unpaid' = Unpaid
  BY <1>2, <1>3, UnpaidSame
<1>8. InWindow'
  BY <1>3, <1>5, <1>7, InWindowSame DEF IInv, Value
<1> QED
  BY <1>4, <1>6, <1>8 DEF IInv

\* A refill adds no more than its time is worth; the first one in the window
\* fills the bucket at most, while each copier has moved a buffer.
LEMMA RefillInWindow ==
  ASSUME IInv, tokens' = refill, since' = 0, UNCHANGED watch, Unpaid' = Unpaid
  PROVE  InWindow'
<1>1. /\ watch.span \in Int /\ watch.bytes \in Nat /\ tokens \in Int /\ since \in Nat
      /\ refill \in Int /\ refill <= MaxTokens /\ refill <= tokens + since * Rate
  BY Constants, Refilled DEF IInv, TypeOK
<1>2. PICK u \in Nat : u = Cardinality(Unpaid)
  BY Finite
<1>3. PICK nb \in Nat : nb = Cardinality(Copiers) * Buffer
  BY Constants
<1>4. Value = watch.bytes + tokens - u /\ Value' = watch.bytes + refill - u
  BY <1>2 DEF Value
<1>5. CASE watch.span < 0
  BY <1>1, <1>5 DEF IInv, InWindow
<1>6. CASE watch.span >= 0
  <2>1. PICK w \in Nat : w = watch.span * Rate /\ w = (watch.span - since') * Rate
    BY <1>1, <1>6, Constants, Products
  <2>2. Value' <= MaxTokens + nb + w
    <3>1. CASE since > watch.span
      <4>1. /\ Cardinality(Copiers \ Passed) \in Nat
            /\ Cardinality(Copiers \ Passed) <= Cardinality(Copiers)
        BY Finite
      <4>2. PICK b \in Nat : b = Cardinality(Copiers \ Passed) * Buffer
        BY <4>1, Constants, Products
      <4>3. b <= nb
        BY <1>3, <4>1, <4>2, Constants, Products
      <4>4. watch.bytes <= b
        BY <1>6, <3>1, <4>2 DEF IInv, InWindow
      <4> QED
        BY <1>1, <1>4, <4>3, <4>4, Constants
    <3>2. CASE since <= watch.span
      <4>1. PICK t \in Nat : t = since * Rate
        BY <1>1, Constants, Products
      <4>2. (watch.span - since) * Rate = w - t
        BY <1>1, <1>6, <2>1, <3>2, <4>1, Constants, Products
      <4>3. Value <= MaxTokens + nb + (w - t)
        BY <1>3, <1>6, <3>2, <4>2 DEF IInv, InWindow
      <4> QED
        BY <1>1, <1>4, <4>1, <4>3, Constants
    <3> QED
      BY <1>1, <3>1, <3>2
  <2> QED
    BY <1>1, <1>3, <1>6, <2>1, <2>2 DEF InWindow
<1> QED
  BY <1>1, <1>5, <1>6

\* A turn of waitForTokens: nobody is let through by a bucket without a token.
LEMMA WaitKeeps ==
  ASSUME IInv, NEW c \in Copiers, waitForTokens(c)
  PROVE  IInv'
<1>1. TypeOK /\ Rim /\ call[c] \in Call /\ call[c].pc = "wait"
  BY DEF IInv, TypeOK, waitForTokens
<1>2. PICK r \in Call : /\ call' = [call EXCEPT ![c] = r]
                        /\ r.n = call[c].n
                        /\ \/ r.pc = "move" /\ refill >= 1
                           \/ r.pc = "wait"
  <2>1. CASE refill >= 1 /\ call' = [call EXCEPT ![c].pc = "move"]
    <3>1. PICK r : r = [call[c] EXCEPT !.pc = "move"]
      OBVIOUS
    <3>2. r \in Call /\ r.pc = "move" /\ r.n = call[c].n
      BY <1>1, <3>1 DEF Call
    <3> QED
      BY <2>1, <3>1, <3>2
  <2>2. CASE call' = [call EXCEPT ![c].left = waitDuration(c)]
    <3>1. PICK r : r = [call[c] EXCEPT !.left = waitDuration(c)]
      OBVIOUS
    <3>2. r \in Call /\ r.pc = "wait" /\ r.n = call[c].n
      BY <1>1, <3>1, Sleeps DEF Call
    <3> QED
      BY <2>2, <3>1, <3>2
  <2> QED
    BY <2>1, <2>2 DEF waitForTokens
<1>3. /\ call' \in [Copiers -> Call]
      /\ call'[c] = r
      /\ \A d \in Copiers : d # c => call'[d] = call[d]
  BY <1>1, <1>2 DEF TypeOK
<1>4. tokens' = refill /\ since' = 0 /\ UNCHANGED watch
  BY DEF waitForTokens
<1>5. TypeOK' /\ Rim'
  BY <1>1, <1>3, <1>4, Refilled, Constants DEF TypeOK, Rim
<1>6. MovedSome'
  BY <1>2, <1>3 DEF IInv, MovedSome
<1>7. Overdraft'
  <2>1. CASE r.pc = "move" /\ refill >= 1
    <3>1. Copiers \ Past' \in SUBSET Copiers
      OBVIOUS
    <3>2. Cardinality(Copiers \ Past') * Buffer \in Nat
      BY <3>1, Finite, Constants, Products
    <3> QED
      BY <1>1, <1>4, <2>1, <3>2, Refilled DEF Overdraft
  <2>2. CASE r.pc = "wait"
    <3>1. Past' = Past
      BY <1>1, <1>3, <2>2 DEF Past
    <3>2. Cardinality(Copiers \ Past) * Buffer \in Nat
      BY UnpaidBound, Finite, Constants, Products
    <3> QED
      BY <1>1, <1>4, <3>1, <3>2, Refilled DEF IInv, TypeOK, Overdraft
  <2> QED
    BY <1>2, <2>1, <2>2
<1>8. Unpaid' = Unpaid
  BY <1>1, <1>2, <1>3, UnpaidSame
<1>9. InWindow'
  BY <1>4, <1>8, RefillInWindow
<1> QED
  BY <1>5, <1>6, <1>7, <1>9 DEF IInv

\* One more copier is behind the bucket again: the overdraft may grow by what it
\* has moved.
LEMMA LeavesPast ==
  ASSUME TypeOK, Overdraft, NEW c \in Past, NEW k \in 0..Buffer, tokens' = tokens - k,
         Past' = Past \ {c}
  PROVE  Overdraft'
<1>1. Copiers \ Past' = (Copiers \ Past) \cup {c} /\ c \notin Copiers \ Past
  BY DEF Past
<1>2. IsFiniteSet(Copiers \ Past) /\ Cardinality(Copiers \ Past) \in Nat
  BY Finite
<1>3. Cardinality(Copiers \ Past') = Cardinality(Copiers \ Past) + 1
  BY <1>1, <1>2, FS_AddElement
<1>4. PICK a \in Nat : a = Cardinality(Copiers \ Past) * Buffer
  BY <1>2, Constants, Products
<1>5. Cardinality(Copiers \ Past') * Buffer = a + Buffer
  BY <1>2, <1>3, <1>4, Constants, Products
<1> QED
  BY <1>4, <1>5, Constants DEF TypeOK, Overdraft

\* Bytes move, and are counted if a window is open.
LEMMA MoveKeeps ==
  ASSUME IInv, NEW c \in Copiers, Move(c)
  PROVE  IInv'
<1>1. /\ TypeOK /\ call[c] \in Call /\ call[c].pc = "move" /\ call[c].need \in 0..Buffer
      /\ watch.bytes \in Nat /\ watch.span \in Int /\ tokens \in Int /\ since \in Int
  BY Constants DEF IInv, TypeOK, Move, Call
<1>2. PICK k \in 0..call[c].need :
        /\ call' = [call EXCEPT ![c] = IF k = 0 THEN Over
                                       ELSE [@ EXCEPT !.pc = "consume", !.n = k]]
        /\ watch' = IF watch.span >= 0 THEN [watch EXCEPT !.bytes = @ + k] ELSE watch
  BY DEF Move
<1>3. k \in 0..Buffer /\ k \in Nat
  BY <1>1, <1>2, Constants
<1>4. PICK r \in Call : /\ call' = [call EXCEPT ![c] = r]
                        /\ \/ k = 0 /\ r.pc = "over"
                           \/ k > 0 /\ r.pc = "consume" /\ r.n = k
  <2>1. CASE k = 0
    <3>1. Over \in Call /\ Over.pc = "over"
      BY Constants DEF Over, Idle, Call
    <3> QED
      BY <1>2, <2>1, <3>1
  <2>2. CASE k # 0
    <3>1. PICK r : r = [call[c] EXCEPT !.pc = "consume", !.n = k]
      OBVIOUS
    <3>2. r \in Call /\ r.pc = "consume" /\ r.n = k
      BY <1>1, <1>3, <3>1 DEF Call
    <3>3. call' = [call EXCEPT ![c] = r]
      BY <1>2, <2>2, <3>1
    <3>4. k > 0
      BY <1>3, <2>2
    <3> QED
      BY <3>2, <3>3, <3>4
  <2> QED
    BY <2>1, <2>2
<1>5. /\ call' \in [Copiers -> Call]
      /\ call'[c] = r
      /\ \A d \in Copiers : d # c => call'[d] = call[d]
  BY <1>1, <1>4 DEF TypeOK
<1>6. UNCHANGED <<tokens, since>>
  BY DEF Move
<1>7. /\ watch' \in [span : -1..Window, bytes : Nat]
      /\ watch'.span = watch.span
      /\ watch.span >= 0 => watch'.bytes = watch.bytes + k
      /\ watch.span < 0 => watch'.bytes = watch.bytes
  BY <1>1, <1>2, <1>3 DEF TypeOK
<1>8. TypeOK' /\ Rim'
  BY <1>5, <1>6, <1>7 DEF IInv, TypeOK, Rim
<1>9. MovedSome'
  BY <1>3, <1>4, <1>5 DEF IInv, MovedSome
<1>10. Overdraft'
  <2>1. CASE k = 0
    <3>1. c \in Past /\ Past' = Past \ {c}
      BY <1>1, <1>4, <1>5, <2>1 DEF Past
    <3>2. tokens' = tokens - 0 /\ 0 \in 0..Buffer
      BY <1>1, <1>6, Constants
    <3> QED
      BY <3>1, <3>2, LeavesPast DEF IInv
  <2>2. CASE k > 0
    <3>1. Past' = Past
      BY <1>1, <1>4, <1>5, <2>2 DEF Past
    <3> QED
      BY <1>6, <3>1 DEF IInv, Overdraft
  <2> QED
    BY <1>3, <2>1, <2>2
<1>11. Cardinality(Unpaid') = Cardinality(Unpaid) + k
  <2>1. CASE k = 0
    <3>1. Unpaid' = Unpaid
      BY <1>1, <1>4, <1>5, <2>1 DEF Unpaid
    <3> QED
      BY <2>1, <3>1, Finite
  <2>2. CASE k > 0
    BY <1>1, <1>3, <1>4, <1>5, <2>2, UnpaidGrows
  <2> QED
    BY <1>3, <2>1, <2>2
<1>12. InWindow'
  <2>1. CASE watch.span < 0
    BY <1>1, <1>7, <2>1 DEF IInv, InWindow
  <2>2. CASE watch.span >= 0
    <3>1. Value' = Value
      BY <1>1, <1>3, <1>6, <1>7, <1>11, <2>2, Finite DEF Value
    <3>2. Copiers \ Passed' = (Copiers \ Passed) \cup {c} /\ c \notin Copiers \ Passed
      BY <1>1, <1>4, <1>5 DEF Passed
    <3>3. IsFiniteSet(Copiers \ Passed) /\ Cardinality(Copiers \ Passed) \in Nat
      BY Finite
    <3>4. Cardinality(Copiers \ Passed') = Cardinality(Copiers \ Passed) + 1
      BY <3>2, <3>3, FS_AddElement
    <3>5. PICK a \in Nat : a = Cardinality(Copiers \ Passed) * Buffer
      BY <3>3, Constants, Products
    <3>6. Cardinality(Copiers \ Passed') * Buffer = a + Buffer
      BY <3>3, <3>4, <3>5, Constants, Products
    <3>7. since > watch.span => watch'.bytes <= a + Buffer
      BY <1>1, <1>3, <1>7, <2>2, <3>5, Constants DEF IInv, InWindow
    <3> QED
      BY <1>1, <1>6, <1>7, <2>2, <3>1, <3>6, <3>7 DEF IInv, InWindow
  <2> QED
    BY <1>1, <2>1, <2>2
<1> QED
  BY <1>8, <1>9, <1>10, <1>12 DEF IInv

\* The tokens are taken.
LEMMA ConsumeKeeps ==
  ASSUME IInv, NEW c \in Copiers, consumeTokens(c)
  PROVE  IInv'
<1>1. /\ TypeOK /\ call[c] \in Call /\ call[c].pc = "consume" /\ call[c].n \in 1..Buffer
      /\ tokens \in Int
  BY DEF IInv, TypeOK, MovedSome, consumeTokens
<1>2. PICK k \in 1..Buffer : k = call[c].n
  BY <1>1
<1>3. k \in 0..Buffer /\ k \in Nat
  BY <1>2, Constants
<1>4. tokens' = tokens - k /\ UNCHANGED <<since, watch>>
  BY <1>2 DEF consumeTokens
<1>5. PICK r \in Call : call' = [call EXCEPT ![c] = r] /\ r.pc \in {"idle", "over"}
  <2>1. Idle \in Call /\ Idle.pc = "idle" /\ Over \in Call /\ Over.pc = "over"
    BY Constants DEF Over, Idle, Call
  <2> QED
    BY <2>1 DEF consumeTokens
<1>6. /\ call' \in [Copiers -> Call]
      /\ call'[c] = r
      /\ \A d \in Copiers : d # c => call'[d] = call[d]
  BY <1>1, <1>5 DEF TypeOK
<1>7. TypeOK' /\ Rim'
  BY <1>1, <1>3, <1>4, <1>6, Constants DEF IInv, TypeOK, Rim
<1>8. MovedSome'
  BY <1>5, <1>6 DEF IInv, MovedSome
<1>9. Overdraft'
  <2>1. c \in Past /\ Past' = Past \ {c}
    BY <1>1, <1>5, <1>6 DEF Past
  <2> QED
    BY <1>3, <1>4, <2>1, LeavesPast DEF IInv
<1>10. Cardinality(Unpaid') = Cardinality(Unpaid) - k
  BY <1>1, <1>2, <1>5, <1>6, UnpaidShrinks
<1>11. InWindow'
  <2>1. Value' = Value
    BY <1>1, <1>3, <1>4, <1>10, Finite DEF Value, TypeOK
  <2>2. Passed' \subseteq Passed
    BY <1>5, <1>6 DEF Passed
  <2> QED
    BY <1>4, <2>1, <2>2, InWindowSame DEF IInv
<1> QED
  BY <1>7, <1>8, <1>9, <1>11 DEF IInv

\* Time passes, in the window as in the bucket.
LEMMA TickKeeps ==
  ASSUME IInv, Tick
  PROVE  IInv'
<1>1. /\ TypeOK /\ tokens \in Int /\ since \in Nat /\ since <= Far
      /\ watch.span \in -1..Window /\ watch.bytes \in Nat
  BY Constants DEF IInv, TypeOK
<1>2. since' \in 0..Far /\ since' <= since + 1 /\ since' \in Nat
  BY <1>1, Constants, MinMax DEF Tick
<1>3. /\ call' \in [Copiers -> Call]
      /\ \A c \in Copiers : call'[c].pc = call[c].pc /\ call'[c].n = call[c].n
  <2>1. ASSUME NEW c \in Copiers
        PROVE  /\ call'[c] \in Call
               /\ call'[c].pc = call[c].pc /\ call'[c].n = call[c].n
    <3>1. call[c] \in Call /\ call[c].left \in 0..MaxSleep
      BY <1>1 DEF TypeOK, Call
    <3>2. PICK l \in 0..MaxSleep : l = Max({call[c].left - 1, 0})
      <4>1. PICK m \in Int : m = call[c].left - 1 /\ m <= MaxSleep
        BY <3>1, Constants
      <4>2. Max({m, 0}) = IF m >= 0 THEN m ELSE 0
        <5>1. m \in Int /\ 0 \in Int
          BY <4>1
        <5> QED
          BY <5>1, MinMax, Zenon
      <4> QED
        BY <4>1, <4>2, Constants
    <3>3. PICK r : r = [call[c] EXCEPT !.left = l]
      OBVIOUS
    <3>4. r \in Call /\ r.pc = call[c].pc /\ r.n = call[c].n
      BY <3>1, <3>2, <3>3 DEF Call
    <3>5. call'[c] = r
      BY <3>2, <3>3 DEF Tick
    <3> QED
      BY <3>4, <3>5
  <2>2. call' = [c \in Copiers |-> call'[c]]
    BY DEF Tick
  <2> QED
    BY <2>1, <2>2
<1>4. /\ watch' \in [span : -1..Window, bytes : Nat]
      /\ \/ /\ watch.span >= 0
            /\ watch'.span = watch.span + 1 /\ watch'.bytes = watch.bytes
         \/ watch'.span = -1 /\ watch'.bytes = 0
  <2>1. CASE watch.span \in 0..(Window - 1)
    <3>1. watch' = [watch EXCEPT !.span = @ + 1] /\ watch.span + 1 \in -1..Window
      BY <2>1, Constants DEF Tick
    <3> QED
      BY <1>1, <2>1, <3>1, Constants DEF TypeOK
  <2>2. CASE watch.span \notin 0..(Window - 1)
    <3>1. watch' = [span |-> -1, bytes |-> 0]
      BY <2>2 DEF Tick
    <3> QED
      BY <3>1, Constants
  <2> QED
    BY <2>1, <2>2
<1>5. UNCHANGED tokens
  BY DEF Tick
<1>6. TypeOK' /\ Rim' /\ MovedSome'
  BY <1>2, <1>3, <1>4, <1>5 DEF IInv, TypeOK, Rim, MovedSome
<1>7. Past' = Past /\ Passed' = Passed /\ Unpaid' = Unpaid
  BY <1>3, UnpaidSame DEF Past, Passed
<1>8. Overdraft'
  BY <1>5, <1>7 DEF IInv, Overdraft
<1>9. InWindow'
  <2>1. CASE watch'.span = -1 /\ watch'.bytes = 0
    BY <2>1 DEF InWindow
  <2>2. CASE watch.span >= 0 /\ watch'.span = watch.span + 1 /\ watch'.bytes = watch.bytes
    <3>1. Value' = Value /\ Value \in Int
      BY <1>1, <1>5, <1>7, <2>2, Finite DEF Value
    <3>2. PICK nb \in Nat : nb = Cardinality(Copiers) * Buffer
      BY Constants
    <3>3. CASE since > watch.span
      <4>1. since' <= watch'.span => (watch'.span - since') * Rate \in Nat
        BY <1>1, <1>2, <2>2, Constants, Products
      <4> QED
        BY <1>1, <1>2, <1>7, <2>2, <3>1, <3>2, <3>3, <4>1, Constants DEF IInv, InWindow
    <3>4. CASE since <= watch.span
      <4>1. PICK a \in Nat : a = watch.span - since
        BY <1>1, <2>2, <3>4
      <4>2. PICK b \in Nat : b = watch'.span - since' /\ a <= b
        BY <1>1, <1>2, <2>2, <4>1
      <4>3. a * Rate <= b * Rate /\ a * Rate \in Nat /\ b * Rate \in Nat
        BY <4>1, <4>2, Constants, Products
      <4>4. Value <= MaxTokens + nb + a * Rate
        BY <2>2, <3>2, <3>4, <4>1 DEF IInv, InWindow
      <4>5. Value' <= MaxTokens + nb + b * Rate
        BY <3>1, <4>3, <4>4, Constants
      <4>6. since' <= watch'.span
        BY <1>1, <1>2, <2>2, <3>4
      <4> QED
        BY <1>1, <1>2, <2>2, <3>2, <4>2, <4>5, <4>6 DEF InWindow
    <3> QED
      BY <1>1, <3>3, <3>4
  <2> QED
    BY <1>4, <2>1, <2>2
<1> QED
  BY <1>6, <1>8, <1>9 DEF IInv

\* A window is opened: nothing has moved in it.
LEMMA WatchKeeps ==
  ASSUME IInv, Watch
  PROVE  IInv'
<1>1. /\ TypeOK /\ tokens \in Int /\ since \in Nat /\ tokens <= MaxTokens
      /\ watch.bytes = 0 /\ UNCHANGED <<tokens, since, call>>
  BY DEF IInv, TypeOK, Rim, InWindow, Watch
<1>2. watch' \in [span : -1..Window, bytes : Nat] /\ watch'.span = 0 /\ watch'.bytes = 0
  BY <1>1, Constants DEF TypeOK, Watch
<1>3. TypeOK' /\ Rim' /\ MovedSome' /\ Overdraft'
  BY <1>1, <1>2 DEF IInv, TypeOK, Rim, MovedSome, Overdraft, Past
<1>4. InWindow'
  <2>1. PICK u \in Nat : u = Cardinality(Unpaid) /\ u = Cardinality(Unpaid')
    BY <1>1, Finite DEF Unpaid
  <2>2. Value' <= MaxTokens
    BY <1>1, <1>2, <2>1, Constants DEF Value
  <2>3. Value' \in Int
    BY <1>1, <1>2, <2>1 DEF Value
  <2>4. Cardinality(Copiers \ Passed') * Buffer \in Nat
    BY Finite, Constants, Products
  <2>5. since' <= 0 => (watch'.span - since') * Rate = 0
    BY <1>1, <1>2, Constants
  <2> QED
    BY <1>1, <1>2, <2>2, <2>3, <2>4, <2>5, Constants DEF InWindow
<1> QED
  BY <1>3, <1>4 DEF IInv

\* Every step keeps the invariant.
LEMMA IInvNext == IInv /\ [Next]_vars => IInv'
<1> SUFFICES ASSUME IInv, [Next]_vars PROVE IInv'
  OBVIOUS
<1>1. CASE UNCHANGED vars
  BY <1>1 DEF vars, IInv, TypeOK, MovedSome, Rim, Overdraft, Past, InWindow, Value, Unpaid, Passed
<1> QED
  BY <1>1, BeginKeeps, WaitKeeps, MoveKeeps, ConsumeKeeps, TickKeeps, WatchKeeps DEF Next

\* The invariant holds throughout.
LEMMA IInvHolds == Spec => []IInv
<1>1. Init => IInv
  BY IInvInit
<1>2. IInv /\ [Next]_vars => IInv'
  BY IInvNext
<1> QED
  BY <1>1, <1>2, PTL DEF Spec

-----------------------------------------------------------------------------
(***************************************************************************)
(* The theorems.                                                           *)
(***************************************************************************)
\* The variables keep their types, and the bucket is never fuller than full.
THEOREM TypeCorrect == Spec => [](TypeOK /\ Rim)
<1>1. IInv => TypeOK /\ Rim
  BY DEF IInv
<1> QED
  BY <1>1, IInvHolds, PTL

\* However many goroutines share a ThrottledConn, and although tokens are taken
\* after the bytes have moved, the bucket is overdrawn by at most a buffer for
\* each goroutine.
THEOREM OverdraftHolds == Spec => []Overdraft
<1>1. IInv => Overdraft
  BY DEF IInv
<1> QED
  BY <1>1, IInvHolds, PTL

\* In any span of time at most a full bucket, the refill for that time and two
\* buffers for each goroutine move.
THEOREM BurstBoundHolds == Spec => []BurstBound
<1>1. IInv => BurstBound
  <2> SUFFICES ASSUME IInv, watch.span >= 0
               PROVE  watch.bytes < MaxTokens + watch.span * Rate
                                      + 2 * Cardinality(Copiers) * Buffer
    BY DEF BurstBound
  <2>1. /\ watch.span \in Nat /\ watch.bytes \in Nat /\ tokens \in Int /\ since \in Nat
    BY Constants DEF IInv, TypeOK
  <2>2. PICK u \in Nat : u = Cardinality(Unpaid)
    BY Finite
  <2>3. PICK nb \in Nat : nb = Cardinality(Copiers) * Buffer
    BY Constants
  <2>4. PICK w \in Nat : w = watch.span * Rate
    BY <2>1, Constants, Products
  <2>5. tokens - u >= 1 - nb
    <3>1. Cardinality(Past) \in Nat /\ Cardinality(Copiers \ Past) \in Nat
      BY UnpaidBound, Finite
    <3>2. PICK a \in Nat : a = Cardinality(Past) * Buffer
      BY <3>1, Constants, Products
    <3>3. PICK b \in Nat : b = Cardinality(Copiers \ Past) * Buffer
      BY <3>1, Constants, Products
    <3>4. nb = a + b
      BY <2>3, <3>1, <3>2, <3>3, UnpaidBound, Constants, Products
    <3>5. u <= a
      BY <2>2, <3>2, UnpaidBound
    <3>6. tokens >= 1 - b
      BY <3>3 DEF IInv, Overdraft
    <3> QED
      BY <2>1, <3>4, <3>5, <3>6
  <2>6. watch.bytes + tokens - u <= MaxTokens + nb + w
    <3>1. CASE since > watch.span
      BY <2>1, <2>2, <3>1, Constants DEF IInv, InWindow, Value
    <3>2. CASE since <= watch.span
      <4>1. PICK a \in Nat : a = since * Rate
        BY <2>1, Constants, Products
      <4>2. (watch.span - since) * Rate = w - a
        BY <2>1, <2>4, <3>2, <4>1, Constants, Products
      <4> QED
        BY <2>1, <2>2, <2>3, <3>2, <4>1, <4>2, Constants DEF IInv, InWindow, Value
    <3> QED
      BY <2>1, <3>1, <3>2
  <2>7. 2 * Cardinality(Copiers) * Buffer = nb + nb
    BY <2>3, Constants, Products
  <2> QED
    BY <2>1, <2>4, <2>5, <2>6, <2>7, Constants
<1> QED
  BY <1>1, IInvHolds, PTL

=============================================================================
