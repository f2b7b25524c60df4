----------------------------- MODULE AccessProofs -----------------------------
(***************************************************************************)
(* Proofs about Access, for any users, addresses, limits and times.  The   *)
(* requests let through and what the bucket still holds add up to no more  *)
(* than a full bucket and the refill of the window, and to no less than    *)
(* what the window has earned; the cache holds verified pairs only, also   *)
(* those the PAC handler has put there; and the PAC limiter lets through   *)
(* no more than its windows allow.                                         *)
(***************************************************************************)
EXTENDS Access, TLAPS

\* What a bucket holds at the moment counts against the window as well.
BucketOK(n) ==
  /\ refilled[n] <= now
  /\ tokens[n] <= MaxTokens(n)
  /\ Token * passed[n] + Refilled(n) <= MaxTokens(n) + RefillRate(n) * (now - window)
  /\ Token * passed[n] + Refilled(n) >= Earned(n)

RateInv ==
  /\ window <= now
  /\ \A n \in Logins : HasBucket(n) => BucketOK(n)

\* Cached pairs have been verified.
CacheSound ==
  \A a \in Accounts, p \in Passwords :
    cache[<<a, p>>] > 0 => a \in Enabled /\ p = Password[a]

\* Places of a request past the whitelist.
Screened == {"verify", "store", "rate", "expiry", "admitted"}

\* What a request has shown by the time it is at a place.
RequestOK(r) ==
  /\ req[r].pc # "idle" => req[r].inTime \/ now >= Expires[Account(r)]
  /\ req[r].pc \in Screened => req[r].addr \in Whitelist
  /\ req[r].pc \in Screened \ {"verify"} => Verified(r)
  /\ req[r].pc = "admitted" => SkipsLimits(r) \/ req[r].inTime

EntryInv == CacheSound /\ \A r \in Requests : RequestOK(r)

AccessInv == TypeOK /\ RateInv /\ EntryInv

-----------------------------------------------------------------------------
\* Refilling over two stretches of time is refilling over both together.
LEMMA RefillSplit ==
  ASSUME NEW r \in Nat, NEW x \in Nat, NEW y \in Nat, NEW s \in Nat
  PROVE  r * ((x + s) - y) = r * (x - y) + r * s
<1>1. \A i, j \in Int : r * (i + j) = r * i + r * j
  OBVIOUS
<1>2. (x + s) - y = (x - y) + s /\ x - y \in Int
  OBVIOUS
<1> QED
  BY <1>1, <1>2

\* The size and the rate of a bucket are natural numbers.
LEMMA BucketTypes ==
  ASSUME NEW n \in Logins
  PROVE  MaxTokens(n) \in Nat /\ RefillRate(n) \in Nat
BY AccessAssumption DEF MaxTokens, RefillRate, Token

\* What time refills is a natural number.
LEMMA RefillType ==
  ASSUME NEW r \in Nat, NEW x \in Nat, NEW y \in Nat, y <= x
  PROVE  r * (x - y) \in Nat
OBVIOUS

\* A bucket never holds more than its size, and a natural number of parts.
LEMMA RefilledType ==
  ASSUME TypeOK, NEW n \in Logins, refilled[n] <= now
  PROVE  Refilled(n) \in Nat /\ Refilled(n) <= MaxTokens(n)
<1>1. tokens[n] \in Nat /\ refilled[n] \in Nat /\ now \in Nat
  BY DEF TypeOK
<1>2. RefillRate(n) * (now - refilled[n]) \in Nat
  BY <1>1, BucketTypes, RefillType
<1> QED
  BY <1>1, <1>2, BucketTypes DEF Refilled

-----------------------------------------------------------------------------
(***************************************************************************)
(* The rate limiter.                                                       *)
(***************************************************************************)
\* A bucket that has just been looked at holds its tokens.
LEMMA RefilledNow ==
  ASSUME TypeOK', NEW n \in Logins, refilled'[n] = now', tokens'[n] <= MaxTokens(n)
  PROVE  Refilled(n)' = tokens'[n]
<1>1. tokens'[n] \in Nat /\ now' \in Nat
  BY DEF TypeOK
<1>2. RefillRate(n) * (now' - refilled'[n]) = 0
  BY <1>1, BucketTypes
<1> QED
  BY <1>1, <1>2, BucketTypes DEF Refilled

\* An untouched bucket stays as it is while no time passes.
LEMMA BucketKept ==
  ASSUME NEW n \in Logins, BucketOK(n), UNCHANGED <<now, window>>,
         tokens'[n] = tokens[n], refilled'[n] = refilled[n], passed'[n] = passed[n]
  PROVE  BucketOK(n)'
BY DEF BucketOK, Refilled, Earned

\* Allow keeps every bucket within its bound, the one it debits included.
LEMMA AllowStep ==
  ASSUME TypeOK, TypeOK', RateInv, NEW m \in Logins, NEW ok \in BOOLEAN, Allow(m, ok),
         UNCHANGED <<now, window>>,
         passed' = IF ok /\ HasBucket(m) THEN [passed EXCEPT ![m] = @ + 1] ELSE passed
  PROVE  RateInv'
<1>1. SUFFICES ASSUME NEW n \in Logins, HasBucket(n)
               PROVE  BucketOK(n)'
  BY DEF RateInv, HasBucket
<1>2. BucketOK(n)
  BY <1>1 DEF RateInv
<1>3. CASE n # m \/ ~HasBucket(m)
  <2>1. tokens'[n] = tokens[n] /\ refilled'[n] = refilled[n] /\ passed'[n] = passed[n]
    BY <1>1, <1>3 DEF Allow, TypeOK
  <2> QED
    BY <1>2, <2>1, BucketKept
<1>4. CASE n = m /\ HasBucket(m)
  <2>1. tokens[n] \in Nat /\ now \in Nat /\ window \in Nat /\ passed[n] \in Nat
    BY DEF TypeOK
  <2>2. Refilled(n) \in Nat /\ Refilled(n) <= MaxTokens(n)
    BY <1>2, RefilledType DEF BucketOK
  <2>3. /\ refilled'[n] = now
        /\ ok <=> Refilled(n) >= Token
        /\ tokens'[n] = IF ok THEN Refilled(n) - Token ELSE Refilled(n)
        /\ passed'[n] = IF ok THEN passed[n] + 1 ELSE passed[n]
    BY <1>4 DEF Allow, TypeOK
  <2>4. tokens'[n] <= MaxTokens(n)
    BY <2>2, <2>3, BucketTypes DEF Token
  <2>5. Refilled(n)' = tokens'[n]
    BY <2>3, <2>4, RefilledNow
  <2>6. Token * passed'[n] + tokens'[n] = Token * passed[n] + Refilled(n)
    BY <2>1, <2>2, <2>3 DEF Token
  <2>7. Token * passed'[n] + Refilled(n)' <= MaxTokens(n) + RefillRate(n) * (now' - window')
    BY <1>2, <2>5, <2>6 DEF BucketOK
  <2>8. Earned(n)' = Earned(n)
    BY DEF Earned
  <2>9. Token * passed'[n] + Refilled(n)' >= Earned(n)'
    BY <1>2, <2>5, <2>6, <2>8 DEF BucketOK
  <2> QED
    BY <2>1, <2>3, <2>4, <2>7, <2>9 DEF BucketOK
<1> QED
  BY <1>3, <1>4

\* Time refills a bucket by no more than it adds to the bound.
LEMMA PassStep ==
  ASSUME TypeOK, RateInv, NEW s \in Seconds, Pass(s)
  PROVE  RateInv'
<1>1. s \in Nat /\ now \in Nat /\ window \in Nat /\ now' = now + s /\ window' = window
  BY AccessAssumption DEF Pass, TypeOK, pacVars
<1>2. window' <= now'
  BY <1>1 DEF RateInv
<1>3. SUFFICES ASSUME NEW n \in Logins, HasBucket(n)
               PROVE  BucketOK(n)'
  BY <1>2 DEF RateInv, HasBucket
<1>4. BucketOK(n)
  BY <1>3 DEF RateInv
<1> DEFINE rate == RefillRate(n)
<1>5. /\ tokens'[n] = tokens[n] /\ refilled'[n] = refilled[n] /\ passed'[n] = passed[n]
      /\ tokens[n] \in Nat /\ refilled[n] \in Nat /\ passed[n] \in Nat
  BY DEF Pass, TypeOK, pacVars
<1>6. rate \in Nat /\ MaxTokens(n) \in Nat
  BY BucketTypes
<1>7. /\ rate * (now' - refilled[n]) = rate * (now - refilled[n]) + rate * s
      /\ rate * (now' - window') = rate * (now - window) + rate * s
  <2> HIDE DEF rate
  <2>1. rate * ((now + s) - refilled[n]) = rate * (now - refilled[n]) + rate * s
    BY <1>1, <1>5, <1>6, RefillSplit
  <2>2. rate * ((now + s) - window) = rate * (now - window) + rate * s
    BY <1>1, <1>6, RefillSplit
  <2> QED
    BY <1>1, <2>1, <2>2
<1>8. rate * s \in Nat /\ rate * (now - refilled[n]) \in Nat /\ rate * (now - window) \in Int
  <2> HIDE DEF rate
  <2>1. rate * s \in Nat
    BY <1>1, <1>6
  <2>2. rate * (now - window) \in Int
    BY <1>1, <1>6
  <2>3. rate * (now - refilled[n]) \in Nat
    BY <1>1, <1>4, <1>5, <1>6, RefillType DEF BucketOK
  <2> QED
    BY <2>1, <2>2, <2>3
<1>9. Refilled(n)' <= Refilled(n) + rate * s
  <2>1. Refilled(n)' = LET sum == tokens[n] + rate * (now' - refilled[n]) IN
                         IF sum > MaxTokens(n) THEN MaxTokens(n) ELSE sum
    BY <1>5 DEF Refilled
  <2>2. Refilled(n) = LET sum == tokens[n] + rate * (now - refilled[n]) IN
                        IF sum > MaxTokens(n) THEN MaxTokens(n) ELSE sum
    BY DEF Refilled
  <2> HIDE DEF rate
  <2> QED
    BY <1>5, <1>6, <1>7, <1>8, <2>1, <2>2
<1>10. Refilled(n) \in Nat /\ Refilled(n)' \in Nat
  <2>1. Refilled(n) \in Nat
    BY <1>4, RefilledType DEF BucketOK
  <2>2. Refilled(n)' = LET sum == tokens[n] + rate * (now' - refilled[n]) IN
                         IF sum > MaxTokens(n) THEN MaxTokens(n) ELSE sum
    BY <1>5 DEF Refilled
  <2> HIDE DEF rate
  <2> QED
    BY <1>5, <1>6, <1>7, <1>8, <2>1, <2>2
<1>11. Token * passed[n] + Refilled(n) <= MaxTokens(n) + rate * (now - window)
  BY <1>4 DEF BucketOK
<1>12. Token * passed'[n] + Refilled(n)' <= MaxTokens(n) + rate * (now' - window')
  <2>1. Token * passed[n] \in Nat
    BY <1>5 DEF Token
  <2> HIDE DEF rate
  <2> QED
    BY <1>5, <1>6, <1>7, <1>8, <1>9, <1>10, <1>11, <2>1
<1>13. Token * passed'[n] + Refilled(n)' >= Earned(n)'
  <2>1. Refilled(n)' = LET sum == tokens[n] + rate * (now' - refilled[n]) IN
                         IF sum > MaxTokens(n) THEN MaxTokens(n) ELSE sum
    BY <1>5 DEF Refilled
  <2>2. Refilled(n) = LET sum == tokens[n] + rate * (now - refilled[n]) IN
                        IF sum > MaxTokens(n) THEN MaxTokens(n) ELSE sum
    BY DEF Refilled
  <2>3. Refilled(n)' = MaxTokens(n) \/ Refilled(n)' >= Refilled(n) + rate * s
    <3> HIDE DEF rate
    <3> QED
      BY <1>5, <1>6, <1>7, <1>8, <2>1, <2>2
  <2>4. Earned(n) = IF window = 0 \/ rate * (now - window) > MaxTokens(n)
                    THEN MaxTokens(n) ELSE rate * (now - window)
    BY DEF Earned
  <2>5. Earned(n)' = IF window = 0 \/ rate * (now' - window') > MaxTokens(n)
                     THEN MaxTokens(n) ELSE rate * (now' - window')
    BY <1>1 DEF Earned, RefillRate, MaxTokens
  <2>6. Token * passed[n] + Refilled(n) >= Earned(n)
    BY <1>4 DEF BucketOK
  <2>7. Token * passed[n] \in Nat
    BY <1>5 DEF Token
  <2>8. /\ Earned(n)' \in Int /\ Earned(n)' <= MaxTokens(n)
        /\ Earned(n)' <= Earned(n) + rate * s /\ Earned(n) \in Int
    <3> HIDE DEF rate
    <3> QED
      BY <1>6, <1>7, <1>8, <2>4, <2>5
  <2> HIDE DEF rate
  <2> QED
    BY <1>5, <1>6, <1>8, <1>10, <2>3, <2>6, <2>7, <2>8
<1> QED
  BY <1>1, <1>4, <1>5, <1>12, <1>13 DEF BucketOK

\* A window that opens finds every bucket at most full.
LEMMA ObserveStep ==
  ASSUME TypeOK, RateInv, Observe
  PROVE  RateInv'
<1>1. now \in Nat /\ window' = now /\ now' = now
  BY DEF Observe, TypeOK
<1>2. SUFFICES ASSUME NEW n \in Logins, HasBucket(n)
               PROVE  BucketOK(n)'
  BY <1>1 DEF RateInv, HasBucket
<1>3. BucketOK(n)
  BY <1>2 DEF RateInv
<1>4. tokens'[n] = tokens[n] /\ refilled'[n] = refilled[n] /\ passed'[n] = 0
  BY DEF Observe
<1>5. Refilled(n)' = Refilled(n)
  BY <1>1, <1>4 DEF Refilled
<1>6. Refilled(n) \in Nat /\ Refilled(n) <= MaxTokens(n)
  BY <1>3, RefilledType DEF BucketOK
<1>7. RefillRate(n) * (now' - window') = 0 /\ Token * passed'[n] = 0
  BY <1>1, <1>4, BucketTypes DEF Token
<1>8. Earned(n)' = 0
  <2>1. window' # 0
    BY DEF Observe, TypeOK
  <2> QED
    BY <1>7, <2>1, BucketTypes DEF Earned
<1> QED
  BY <1>1, <1>3, <1>4, <1>5, <1>6, <1>7, <1>8, BucketTypes DEF BucketOK

-----------------------------------------------------------------------------
(***************************************************************************)
(* Types.                                                                  *)
(***************************************************************************)
\* A request that is under way keeps what it came with when it moves on.
LEMMA GoToType ==
  ASSUME TypeOK, NEW r \in Requests, NEW place \in Places, req[r].pc # "idle", GoTo(r, place)
  PROVE  /\ req' \in [Requests -> Request \cup {Idle}]
         /\ req'[r] = [req[r] EXCEPT !.pc = place]
         /\ \A q \in Requests : q # r => req'[q] = req[q]
<1>1. req[r] \in Request
  BY DEF TypeOK, Idle
<1>2. [req[r] EXCEPT !.pc = place] \in Request
  BY <1>1 DEF Request
<1> QED
  BY <1>2 DEF GoTo, TypeOK

\* A request that is turned away leaves its place to the next one.
LEMMA TurnAwayType ==
  ASSUME TypeOK, NEW r \in Requests, TurnAway(r)
  PROVE  /\ req' \in [Requests -> Request \cup {Idle}]
         /\ req'[r] = Idle
         /\ \A q \in Requests : q # r => req'[q] = req[q]
BY DEF TurnAway, TypeOK

\* After authentication a request is admitted or goes to the limiter.
LEMMA AuthenticatedType ==
  ASSUME TypeOK, NEW r \in Requests, req[r].pc # "idle", Authenticated(r)
  PROVE  /\ req' \in [Requests -> Request \cup {Idle}]
         /\ req'[r] = [req[r] EXCEPT !.pc = IF SkipsLimits(r) THEN "admitted" ELSE "rate"]
         /\ \A q \in Requests : q # r => req'[q] = req[q]
<1>1. "admitted" \in Places /\ "rate" \in Places
  BY DEF Places
<1>2. CASE SkipsLimits(r)
  BY <1>1, <1>2, GoToType DEF Authenticated
<1>3. CASE ~SkipsLimits(r)
  BY <1>1, <1>3, GoToType DEF Authenticated
<1> QED
  BY <1>2, <1>3

\* The limiter keeps natural numbers of tokens.
LEMMA AllowType ==
  ASSUME TypeOK, RateInv, NEW m \in Logins, NEW ok \in BOOLEAN, Allow(m, ok)
  PROVE  tokens' \in [Logins -> Nat] /\ refilled' \in [Logins -> Nat]
<1>1. CASE ~HasBucket(m)
  BY <1>1 DEF Allow, TypeOK
<1>2. CASE HasBucket(m)
  <2>1. Refilled(m) \in Nat
    BY <1>2, RefilledType DEF RateInv, BucketOK
  <2>2. (IF ok THEN Refilled(m) - Token ELSE Refilled(m)) \in Nat
    BY <1>2, <2>1 DEF Allow, Token
  <2> QED
    BY <1>2, <2>2 DEF Allow, TypeOK
<1> QED
  BY <1>1, <1>2

\* CheckRateLimit asks the bucket or, for an account without a limit, nobody;
\* a name without a bucket is let through either way.
LEMMA CheckRateLimitIsAllow ==
  ASSUME NEW n \in Logins, NEW ok \in BOOLEAN, CheckRateLimit(n, ok)
  PROVE  Allow(n, ok)
BY AccessAssumption DEF CheckRateLimit, Allow, HasBucket

\* The PAC limiter keeps its windows and counts.
LEMMA PacAllowedType ==
  ASSUME TypeOK, NEW a, NEW ok, PacAllowed(a, ok)
  PROVE  pac' \in [PacAddrs -> [start : Nat, tokens : Nat]]
<1>1. CASE pac' = pac
  BY <1>1 DEF TypeOK
<1>2. CASE pac' = [pac EXCEPT ![a] = [start |-> now, tokens |-> 1]]
  BY <1>2 DEF TypeOK
<1>3. CASE pac' = [pac EXCEPT ![a].tokens = @ + 1]
  <2>1. CASE a \in PacAddrs
    <3>1. pac[a] \in [start : Nat, tokens : Nat]
      BY <2>1 DEF TypeOK
    <3>2. [pac[a] EXCEPT !.tokens = @ + 1] \in [start : Nat, tokens : Nat]
      BY <3>1
    <3> QED
      BY <1>3, <3>2 DEF TypeOK
  <2>2. CASE a \notin PacAddrs
    BY <1>3, <2>2 DEF TypeOK
  <2> QED
    BY <2>1, <2>2
<1> QED
  BY <1>1, <1>2, <1>3 DEF PacAllowed, checkRateLimit

\* Every step keeps the types.
LEMMA TypeStep ==
  ASSUME TypeOK, RateInv, [Next]_vars
  PROVE  TypeOK'
<1> USE DEF At
<1>1. ASSUME NEW r \in Requests, NEW n \in Logins, NEW p \in Passwords, NEW addr \in Addrs,
             Arrive(r, n, p, addr)
      PROVE  TypeOK'
  <2>1. PICK place \in {"start", "pac"} :
          req' = [req EXCEPT ![r] = [pc |-> place, login |-> n, password |-> p, addr |-> addr,
                                     inTime |-> now < Expires[Lower[n]]]]
    BY <1>1 DEF Arrive
  <2>2. [pc |-> place, login |-> n, password |-> p, addr |-> addr,
         inTime |-> now < Expires[Lower[n]]] \in Request
    BY DEF Request, Places
  <2> QED
    BY <1>1, <2>1, <2>2 DEF Arrive, TypeOK, pacVars
<1>2. ASSUME NEW r \in Requests, LookUp(r)
      PROVE  TypeOK'
  <2>1. req' \in [Requests -> Request \cup {Idle}]
    BY <1>2, TurnAwayType, AuthenticatedType, GoToType DEF LookUp, Places
  <2> QED
    BY <1>2, <2>1 DEF LookUp, TypeOK, pacVars
<1>3. ASSUME NEW r \in Requests, Verify(r)
      PROVE  TypeOK'
  <2>1. req' \in [Requests -> Request \cup {Idle}]
    BY <1>3, TurnAwayType, GoToType DEF Verify, Places
  <2> QED
    BY <1>3, <2>1 DEF Verify, TypeOK, pacVars
<1>4. ASSUME NEW r \in Requests, StoreCredentials(r)
      PROVE  TypeOK'
  <2>1. req' \in [Requests -> Request \cup {Idle}]
    BY <1>4, AuthenticatedType DEF StoreCredentials
  <2>2. now + CredCacheTTL \in Nat
    BY AccessAssumption DEF TypeOK
  <2> QED
    BY <1>4, <2>1, <2>2 DEF StoreCredentials, TypeOK, pacVars
<1>5. ASSUME NEW r \in Requests, CheckRate(r)
      PROVE  TypeOK'
  <2>1. PICK ok \in BOOLEAN :
          /\ CheckRateLimit(req[r].login, ok)
          /\ (ok /\ GoTo(r, "expiry")) \/ TurnAway(r)
          /\ passed' = IF ok /\ HasBucket(req[r].login)
                       THEN [passed EXCEPT ![req[r].login] = @ + 1] ELSE passed
    BY <1>5 DEF CheckRate
  <2>2. req[r].login \in Logins
    BY <1>5 DEF CheckRate, TypeOK, Request, Idle
  <2>3. Allow(req[r].login, ok)
    BY <2>1, <2>2, CheckRateLimitIsAllow
  <2>4. tokens' \in [Logins -> Nat] /\ refilled' \in [Logins -> Nat]
    BY <2>2, <2>3, AllowType
  <2>5. req' \in [Requests -> Request \cup {Idle}]
    BY <1>5, <2>1, GoToType, TurnAwayType DEF CheckRate, Places
  <2>6. passed' \in [Logins -> Nat]
    <3>1. passed[req[r].login] + 1 \in Nat
      BY <2>2 DEF TypeOK
    <3> QED
      BY <2>1, <2>2, <3>1 DEF TypeOK
  <2> QED
    BY <1>5, <2>4, <2>5, <2>6 DEF CheckRate, TypeOK, pacVars
<1>6. ASSUME NEW r \in Requests, CheckExpiry(r)
      PROVE  TypeOK'
  <2>1. req' \in [Requests -> Request \cup {Idle}]
    BY <1>6, TurnAwayType, GoToType DEF CheckExpiry, Places
  <2> QED
    BY <1>6, <2>1 DEF CheckExpiry, TypeOK, pacVars
<1>7. ASSUME NEW r \in Requests, NoCredentials(r) \/ Over(r)
      PROVE  TypeOK'
  BY <1>7, TurnAwayType DEF NoCredentials, Over, TypeOK, pacVars
<1>11. ASSUME NEW r \in Requests, ServePAC(r)
       PROVE  TypeOK'
  <2>1. req' \in [Requests -> Request \cup {Idle}]
    BY <1>11, TurnAwayType, GoToType DEF ServePAC, Places
  <2>2. PICK ok \in BOOLEAN :
          /\ PacAllowed(req[r].addr, ok)
          /\ pacPassed' = IF ok THEN [pacPassed EXCEPT ![req[r].addr] = @ + 1] ELSE pacPassed
    BY <1>11 DEF ServePAC
  <2>3. pac' \in [PacAddrs -> [start : Nat, tokens : Nat]]
    BY <2>2, PacAllowedType
  <2>4. pacPassed' \in [PacAddrs -> Nat]
    <3>1. CASE req[r].addr \in PacAddrs
      <4>1. pacPassed[req[r].addr] + 1 \in Nat
        BY <3>1 DEF TypeOK
      <4> QED
        BY <2>2, <4>1 DEF TypeOK
    <3>2. CASE req[r].addr \notin PacAddrs
      BY <2>2, <3>2 DEF TypeOK
    <3> QED
      BY <3>1, <3>2
  <2> QED
    BY <1>11, <2>1, <2>3, <2>4 DEF ServePAC, TypeOK
<1>12. ASSUME NEW r \in Requests, VerifyPAC(r)
       PROVE  TypeOK'
  <2>1. req' \in [Requests -> Request \cup {Idle}]
    BY <1>12, TurnAwayType DEF VerifyPAC
  <2>2. now + CredCacheTTL \in Nat
    BY AccessAssumption DEF TypeOK
  <2> QED
    BY <1>12, <2>1, <2>2 DEF VerifyPAC, TypeOK, pacVars
<1>8. ASSUME NEW s \in Seconds, Pass(s)
      PROVE  TypeOK'
  BY <1>8, AccessAssumption DEF Pass, TypeOK, pacVars
<1>9. CASE Observe
  BY <1>9 DEF Observe, TypeOK
<1>10. CASE UNCHANGED vars
  BY <1>10 DEF vars, TypeOK
<1> QED
  BY <1>1, <1>2, <1>3, <1>4, <1>5, <1>6, <1>7, <1>8, <1>9, <1>10, <1>11, <1>12 DEF Next, Screen

\* Every step keeps the buckets within their bounds.
LEMMA RateStep ==
  ASSUME TypeOK, TypeOK', RateInv, [Next]_vars
  PROVE  RateInv'
<1>1. ASSUME UNCHANGED <<now, window, tokens, refilled, passed>>
      PROVE  RateInv'
  BY <1>1 DEF RateInv, BucketOK, Refilled, Earned, HasBucket
<1>2. ASSUME NEW r \in Requests, CheckRate(r)
      PROVE  RateInv'
  <2>1. PICK ok \in BOOLEAN :
          /\ CheckRateLimit(req[r].login, ok)
          /\ passed' = IF ok /\ HasBucket(req[r].login)
                       THEN [passed EXCEPT ![req[r].login] = @ + 1] ELSE passed
    BY <1>2 DEF CheckRate
  <2>2. req[r].login \in Logins
    BY <1>2 DEF CheckRate, At, TypeOK, Request, Idle
  <2>3. Allow(req[r].login, ok)
    BY <2>1, <2>2, CheckRateLimitIsAllow
  <2>4. UNCHANGED <<now, window>>
    BY <1>2 DEF CheckRate
  <2> QED
    BY <2>1, <2>2, <2>3, <2>4, AllowStep
<1>3. ASSUME NEW r \in Requests,
             \/ NoCredentials(r) \/ LookUp(r) \/ Verify(r) \/ CheckExpiry(r) \/ Over(r)
             \/ ServePAC(r) \/ VerifyPAC(r)
      PROVE  RateInv'
  BY <1>1, <1>3 DEF NoCredentials, LookUp, Verify, CheckExpiry, Over, ServePAC, VerifyPAC
<1>4. ASSUME NEW r \in Requests, StoreCredentials(r)
      PROVE  RateInv'
  BY <1>1, <1>4 DEF StoreCredentials
<1>5. ASSUME NEW r \in Requests, NEW n \in Logins, NEW p \in Passwords, NEW addr \in Addrs,
             Arrive(r, n, p, addr)
      PROVE  RateInv'
  BY <1>1, <1>5 DEF Arrive
<1>6. CASE UNCHANGED vars
  BY <1>1, <1>6 DEF vars
<1> QED
  BY <1>2, <1>3, <1>4, <1>5, <1>6, PassStep, ObserveStep DEF Next, Screen

-----------------------------------------------------------------------------
(***************************************************************************)
(* Who is admitted.                                                        *)
(***************************************************************************)
\* Time does not take away what a request has shown.
LEMMA RequestKept ==
  ASSUME TypeOK, TypeOK', NEW q \in Requests, RequestOK(q), req'[q] = req[q], now <= now'
  PROVE  RequestOK(q)'
<1>1. req[q].pc # "idle" => Expires[Account(q)] \in Nat
  BY AccessAssumption DEF TypeOK, Request, Idle, Account
<1>2. now \in Nat /\ now' \in Nat
  BY DEF TypeOK
<1>3. Verified(q)' = Verified(q) /\ SkipsLimits(q)' = SkipsLimits(q) /\ Account(q)' = Account(q)
  BY DEF Verified, SkipsLimits, Account
<1> QED
  BY <1>1, <1>2, <1>3 DEF RequestOK

\* A request without a client has shown nothing.
LEMMA RequestGone ==
  ASSUME NEW r \in Requests, req'[r] = Idle
  PROVE  RequestOK(r)'
BY DEF RequestOK, Idle, Screened

\* A request that moves on has shown what its new place asks for.
LEMMA RequestMoved ==
  ASSUME TypeOK, NEW r \in Requests, NEW place \in Screened,
         RequestOK(r), req[r].pc # "idle", now' = now,
         req'[r] = [req[r] EXCEPT !.pc = place],
         req[r].addr \in Whitelist,
         place # "verify" => Verified(r),
         place = "admitted" => SkipsLimits(r) \/ req[r].inTime
  PROVE  RequestOK(r)'
<1>1. req[r] \in Request
  BY DEF TypeOK, Idle
<1>2. /\ req'[r].pc = place /\ req'[r].login = req[r].login
      /\ req'[r].password = req[r].password
      /\ req'[r].addr = req[r].addr /\ req'[r].inTime = req[r].inTime
  BY <1>1 DEF Request, Screened
<1>3. Verified(r)' = Verified(r) /\ SkipsLimits(r)' = SkipsLimits(r) /\ Account(r)' = Account(r)
  BY <1>2 DEF Verified, SkipsLimits, Account
<1> QED
  BY <1>2, <1>3 DEF RequestOK, Screened

\* A pair found in the cache has been verified.
LEMMA CachedIsVerified ==
  ASSUME TypeOK, CacheSound, NEW r \in Requests, req[r].pc # "idle", CacheHit(r)
  PROVE  Verified(r)
<1>1. req[r] \in Request
  BY DEF TypeOK, Idle
<1>2. Account(r) \in Accounts /\ req[r].password \in Passwords
  BY <1>1, AccessAssumption DEF Request, Account
<1>3. cache[<<Account(r), req[r].password>>] > 0
  BY <1>2 DEF CacheHit, Pair, TypeOK, Pairs
<1> QED
  BY <1>2, <1>3 DEF CacheSound, Verified

\* To cache a verified pair leaves the cache sound.
LEMMA StoreSound ==
  ASSUME TypeOK, CacheSound, NEW r \in Requests, Verified(r),
         cache' = [cache EXCEPT ![Pair(r)] = now + CredCacheTTL]
  PROVE  CacheSound'
<1>1. ASSUME NEW a \in Accounts, NEW p \in Passwords, cache'[<<a, p>>] > 0
      PROVE  a \in Enabled /\ p = Password[a]
  <2>1. CASE <<a, p>> = Pair(r)
    BY <2>1 DEF Pair, Verified
  <2>2. CASE <<a, p>> # Pair(r)
    <3>1. cache'[<<a, p>>] = cache[<<a, p>>]
      BY <2>2 DEF TypeOK, Pairs
    <3> QED
      BY <1>1, <3>1 DEF CacheSound
  <2> QED
    BY <2>1, <2>2
<1> QED
  BY <1>1 DEF CacheSound

\* Every step leaves the cache and the requests sound.
LEMMA EntryStep ==
  ASSUME TypeOK, TypeOK', EntryInv, [Next]_vars
  PROVE  EntryInv'
<1> USE DEF At
<1>0. \A r \in Requests : RequestOK(r)
  BY DEF EntryInv
<1>1. ASSUME NEW r \in Requests, RequestOK(r)', cache' = cache, now' = now,
             \A q \in Requests : q # r => req'[q] = req[q]
      PROVE  EntryInv'
  <2>1. CacheSound'
    BY <1>1 DEF EntryInv, CacheSound
  <2>2. \A q \in Requests : q # r => RequestOK(q)'
    <3>1. now <= now'
      BY <1>1 DEF TypeOK
    <3> QED
      BY <1>0, <1>1, <3>1, RequestKept
  <2> QED
    BY <1>1, <2>1, <2>2 DEF EntryInv
<1>2. ASSUME NEW r \in Requests, TurnAway(r), cache' = cache, now' = now
      PROVE  EntryInv'
  BY <1>1, <1>2, TurnAwayType, RequestGone
<1>3. ASSUME NEW r \in Requests, NEW n \in Logins, NEW p \in Passwords, NEW addr \in Addrs,
             Arrive(r, n, p, addr)
      PROVE  EntryInv'
  <2>1. PICK place \in {"start", "pac"} :
          req'[r] = [pc |-> place, login |-> n, password |-> p, addr |-> addr,
                     inTime |-> now < Expires[Lower[n]]]
    BY <1>3 DEF Arrive, TypeOK
  <2>2. now' = now /\ cache' = cache /\ \A q \in Requests : q # r => req'[q] = req[q]
    BY <1>3 DEF Arrive, TypeOK
  <2>3. RequestOK(r)'
    <3>1. Account(r)' = Lower[n] /\ now \in Nat /\ Expires[Lower[n]] \in Nat
      BY <2>1, AccessAssumption DEF Account, TypeOK
    <3>2. req'[r].pc \in {"start", "pac"} /\ req'[r].inTime = (now < Expires[Lower[n]])
      BY <2>1
    <3>3. req'[r].inTime \/ now' >= Expires[Account(r)']
      <4>1. CASE now < Expires[Lower[n]]
        BY <3>2, <4>1, Zenon
      <4>2. CASE ~(now < Expires[Lower[n]])
        BY <2>2, <3>1, <4>2
      <4> QED
        BY <4>1, <4>2
    <3> QED
      BY <3>2, <3>3 DEF RequestOK, Screened
  <2> QED
    BY <1>1, <2>2, <2>3
<1>4. ASSUME NEW r \in Requests, LookUp(r)
      PROVE  EntryInv'
  <2>1. req[r].pc = "start" /\ now' = now /\ cache' = cache
    BY <1>4 DEF LookUp
  <2>2. CASE TurnAway(r)
    BY <1>2, <2>1, <2>2
  <2>3. CASE req[r].addr \in Whitelist /\ CacheHit(r) /\ Authenticated(r)
    <3>1. Verified(r)
      BY <2>1, <2>3, CachedIsVerified DEF EntryInv
    <3>2. RequestOK(r)'
      BY <1>0, <2>1, <2>3, <3>1, AuthenticatedType, RequestMoved DEF Places, Screened
    <3> QED
      BY <1>1, <2>1, <2>3, <3>2, AuthenticatedType
  <2>4. CASE req[r].addr \in Whitelist /\ GoTo(r, "verify")
    <3>1. RequestOK(r)'
      BY <1>0, <2>1, <2>4, GoToType, RequestMoved DEF Places, Screened
    <3> QED
      BY <1>1, <2>1, <2>4, <3>1, GoToType DEF Places
  <2> QED
    BY <1>4, <2>2, <2>3, <2>4 DEF LookUp
<1>5. ASSUME NEW r \in Requests, Verify(r)
      PROVE  EntryInv'
  <2>1. req[r].pc = "verify" /\ now' = now /\ cache' = cache
    BY <1>5 DEF Verify
  <2>2. CASE TurnAway(r)
    BY <1>2, <2>1, <2>2
  <2>3. CASE Verified(r) /\ GoTo(r, "store")
    <3>1. req[r].addr \in Whitelist
      BY <1>0, <2>1 DEF RequestOK, Screened
    <3>2. RequestOK(r)'
      BY <1>0, <2>1, <2>3, <3>1, GoToType, RequestMoved DEF Places, Screened
    <3> QED
      BY <1>1, <2>1, <2>3, <3>2, GoToType DEF Places
  <2> QED
    BY <1>5, <2>2, <2>3 DEF Verify
<1>6. ASSUME NEW r \in Requests, StoreCredentials(r)
      PROVE  EntryInv'
  <2>1. req[r].pc = "store" /\ now' = now /\ Authenticated(r)
    BY <1>6 DEF StoreCredentials
  <2>2. req[r].addr \in Whitelist /\ Verified(r)
    BY <1>0, <2>1 DEF RequestOK, Screened
  <2>3. CacheSound'
    BY <1>6, <2>2, StoreSound DEF EntryInv, StoreCredentials
  <2>4. RequestOK(r)'
    BY <1>0, <2>1, <2>2, AuthenticatedType, RequestMoved DEF Places, Screened
  <2>5. \A q \in Requests : q # r => RequestOK(q)'
    <3>1. now <= now'
      BY <2>1 DEF TypeOK
    <3> QED
      BY <1>0, <2>1, <3>1, AuthenticatedType, RequestKept
  <2> QED
    BY <2>3, <2>4, <2>5 DEF EntryInv
<1>7. ASSUME NEW r \in Requests, CheckRate(r)
      PROVE  EntryInv'
  <2>1. req[r].pc = "rate" /\ now' = now /\ cache' = cache
    BY <1>7 DEF CheckRate
  <2>2. GoTo(r, "expiry") \/ TurnAway(r)
    BY <1>7 DEF CheckRate
  <2>3. req[r].addr \in Whitelist /\ Verified(r)
    BY <1>0, <2>1 DEF RequestOK, Screened
  <2>4. CASE GoTo(r, "expiry")
    <3>1. RequestOK(r)'
      BY <1>0, <2>1, <2>3, <2>4, GoToType, RequestMoved DEF Places, Screened
    <3> QED
      BY <1>1, <2>1, <2>4, <3>1, GoToType DEF Places
  <2> QED
    BY <1>2, <2>1, <2>2, <2>4
<1>8. ASSUME NEW r \in Requests, CheckExpiry(r)
      PROVE  EntryInv'
  <2>1. req[r].pc = "expiry" /\ now' = now /\ cache' = cache
    BY <1>8 DEF CheckExpiry
  <2>2. CASE TurnAway(r)
    BY <1>2, <2>1, <2>2
  <2>3. CASE now < Expires[Account(r)] /\ GoTo(r, "admitted")
    <3>1. /\ req[r].addr \in Whitelist /\ Verified(r)
          /\ req[r].inTime \/ now >= Expires[Account(r)]
      BY <1>0, <2>1 DEF RequestOK, Screened
    <3>2. now \in Nat /\ Expires[Account(r)] \in Nat
      BY <2>1, AccessAssumption DEF TypeOK, Request, Idle, Account
    <3>3. req[r].inTime
      BY <2>3, <3>1, <3>2
    <3>4. RequestOK(r)'
      BY <1>0, <2>1, <2>3, <3>1, <3>3, GoToType, RequestMoved DEF Places, Screened
    <3> QED
      BY <1>1, <2>1, <2>3, <3>4, GoToType DEF Places
  <2> QED
    BY <1>8, <2>2, <2>3 DEF CheckExpiry
<1>9. ASSUME NEW r \in Requests, NoCredentials(r) \/ Over(r)
      PROVE  EntryInv'
  BY <1>2, <1>9 DEF NoCredentials, Over
<1>14. ASSUME NEW r \in Requests, ServePAC(r)
       PROVE  EntryInv'
  <2>1. req[r].pc = "pac" /\ now' = now /\ cache' = cache
    BY <1>14 DEF ServePAC
  <2>2. CASE GoTo(r, "pacverify")
    <3>1. req[r] \in Request
      BY <2>1 DEF TypeOK, Idle
    <3>2. /\ req'[r].pc = "pacverify" /\ req'[r].login = req[r].login
          /\ req'[r].inTime = req[r].inTime
      BY <2>1, <2>2, <3>1, GoToType DEF Places, Request
    <3>3. RequestOK(r)'
      BY <1>0, <2>1, <3>2 DEF RequestOK, Screened, Account
    <3> QED
      BY <1>1, <2>1, <2>2, <3>3, GoToType DEF Places
  <2> QED
    BY <1>2, <1>14, <2>1, <2>2 DEF ServePAC
<1>15. ASSUME NEW r \in Requests, VerifyPAC(r)
       PROVE  EntryInv'
  <2>1. now' = now /\ TurnAway(r)
    BY <1>15 DEF VerifyPAC
  <2>2. CacheSound'
    <3>1. CASE Verified(r)
      BY <1>15, <3>1, StoreSound DEF EntryInv, VerifyPAC
    <3>2. CASE ~Verified(r)
      BY <1>15, <3>2 DEF EntryInv, VerifyPAC, CacheSound
    <3> QED
      BY <3>1, <3>2
  <2>3. \A q \in Requests : RequestOK(q)'
    <3>1. now <= now'
      BY <2>1 DEF TypeOK
    <3> QED
      BY <1>0, <2>1, <3>1, TurnAwayType, RequestGone, RequestKept
  <2> QED
    BY <2>2, <2>3 DEF EntryInv
<1>10. ASSUME now <= now', cache' = cache, req' = req
       PROVE  EntryInv'
  BY <1>0, <1>10, RequestKept DEF EntryInv, CacheSound
<1>11. ASSUME NEW s \in Seconds, Pass(s)
       PROVE  EntryInv'
  <2>1. now <= now'
    BY <1>11, AccessAssumption DEF Pass, TypeOK, pacVars
  <2> QED
    BY <1>10, <1>11, <2>1 DEF Pass
<1>12. CASE Observe
  BY <1>10, <1>12 DEF Observe, TypeOK
<1>13. CASE UNCHANGED vars
  BY <1>10, <1>13 DEF vars, TypeOK
<1> QED
  BY <1>3, <1>4, <1>5, <1>6, <1>7, <1>8, <1>9, <1>11, <1>12, <1>13, <1>14, <1>15 DEF Next, Screen

-----------------------------------------------------------------------------
\* Full buckets, an empty cache and no request: the invariant holds at the start.
LEMMA AccessStart ==
  ASSUME Init
  PROVE  AccessInv
<1>1. TypeOK
  BY BucketTypes DEF Init, TypeOK
<1>2. RateInv
  <2>1. now = 0 /\ window = 0
    BY DEF Init
  <2>2. ASSUME NEW n \in Logins
        PROVE  BucketOK(n)
    <3>1. tokens[n] = MaxTokens(n) /\ refilled[n] = 0 /\ passed[n] = 0
      BY DEF Init
    <3>2. RefillRate(n) * (now - refilled[n]) = 0 /\ RefillRate(n) * (now - window) = 0
      BY <2>1, <3>1, BucketTypes
    <3> QED
      BY <2>1, <3>1, <3>2, BucketTypes DEF BucketOK, Refilled, Earned, Token
  <2> QED
    BY <2>1, <2>2 DEF RateInv
<1>3. EntryInv
  <2>1. CacheSound
    BY DEF Init, CacheSound, Pairs
  <2>2. \A r \in Requests : RequestOK(r)
    BY DEF Init, RequestOK, Idle, Screened
  <2> QED
    BY <2>1, <2>2 DEF EntryInv
<1> QED
  BY <1>1, <1>2, <1>3 DEF AccessInv

\* The invariant is inductive, so it always holds.
THEOREM AccessInvariant == Spec => []AccessInv
<1>1. AccessInv /\ [Next]_vars => AccessInv'
  <2> SUFFICES ASSUME AccessInv, [Next]_vars
               PROVE  AccessInv'
    OBVIOUS
  <2>1. TypeOK'
    BY TypeStep DEF AccessInv
  <2> QED
    BY <2>1, RateStep, EntryStep DEF AccessInv
<1> QED
  BY <1>1, AccessStart, PTL DEF Spec

\* The store, the buckets and the requests keep their types; no bucket is ever
\* overdrawn.
THEOREM AccessTypeCorrect == Spec => []TypeOK
<1>1. AccessInv => TypeOK
  BY DEF AccessInv
<1> QED
  BY <1>1, AccessInvariant, PTL

\* In any window of time a name with a bucket gets through Allow at most as often
\* as a full bucket and the refill of that time pay for.
THEOREM AccessRateBound == Spec => []RateBound
<1>1. AccessInv => RateBound
  <2> SUFFICES ASSUME AccessInv, NEW n \in Logins, HasBucket(n)
               PROVE  Token * passed[n] <= MaxTokens(n) + RefillRate(n) * (now - window)
    BY DEF RateBound
  <2>1. TypeOK /\ BucketOK(n)
    BY DEF AccessInv, RateInv
  <2>2. passed[n] \in Nat /\ now \in Nat /\ window \in Nat
    BY <2>1 DEF TypeOK
  <2>3. Refilled(n) \in Nat
    BY <2>1, RefilledType DEF BucketOK
  <2>4. RefillRate(n) * (now - window) \in Int
    <3>1. now - window \in Int
      BY <2>2
    <3> QED
      BY <3>1, BucketTypes
  <2>5. Token * passed[n] + Refilled(n) <= MaxTokens(n) + RefillRate(n) * (now - window)
    BY <2>1 DEF BucketOK
  <2> QED
    BY <2>2, <2>3, <2>4, <2>5, BucketTypes DEF Token
<1> QED
  BY <1>1, AccessInvariant, PTL

\* Allow refuses a name only if one more request would cost more than the name
\* has earned, however often it has been refused before.
THEOREM AccessRefusesSpent == Spec => RefusedOnlyWhenSpent
<1>1. ASSUME AccessInv, [Next]_vars, NEW r \in Requests, At(r, "rate"), At(r, "idle")'
      PROVE  Token * (passed[req[r].login] + 1) > Earned(req[r].login)
  <2> DEFINE n == req[r].login
  <2>1. TypeOK /\ req[r] \in Request /\ n \in Logins
    BY <1>1 DEF AccessInv, At, TypeOK, Request, Idle
  <2>2. CheckRate(r)
    <3>1. req'[r] # req[r]
      BY <1>1 DEF At
    <3>2. PICK q \in Requests :
            \/ \E m \in Logins, p \in Passwords, addr \in Addrs : Arrive(q, m, p, addr)
            \/ Screen(q)
            \/ Over(q)
      BY <1>1, <3>1 DEF Next, Pass, Observe, vars
    <3>3. CASE q = r
      BY <1>1, <3>2, <3>3 
      DEF At, Screen, Arrive, NoCredentials, LookUp, Verify, StoreCredentials, CheckExpiry, Over,
          ServePAC, VerifyPAC, TurnAway, Idle, TypeOK
    <3>4. CASE q # r
      BY <2>1, <3>1, <3>2, <3>4
      DEF Screen, Arrive, NoCredentials, LookUp, Verify, StoreCredentials, CheckRate, CheckExpiry, Over,
          ServePAC, VerifyPAC, Authenticated, GoTo, TurnAway, TypeOK
    <3> QED
      BY <3>3, <3>4
  <2>3. PICK ok \in BOOLEAN :
          CheckRateLimit(n, ok) /\ (ok => GoTo(r, "expiry"))
    BY <2>2 DEF CheckRate
  <2>4. ~ok
    BY <1>1, <2>1, <2>3 DEF At, GoTo, TypeOK, Request
  <2>5. Allow(n, FALSE)
    BY <2>1, <2>3, <2>4, CheckRateLimitIsAllow
  <2>6. HasBucket(n) /\ ~(Refilled(n) >= Token)
    BY <2>5 DEF Allow
  <2>7. BucketOK(n)
    BY <1>1, <2>1, <2>6 DEF AccessInv, RateInv
  <2>8. Refilled(n) \in Nat
    BY <2>1, <2>7, RefilledType DEF BucketOK
  <2>9. Earned(n) \in Int /\ passed[n] \in Nat
    <3>1. now - window \in Int
      BY <2>1 DEF TypeOK
    <3>2. RefillRate(n) * (now - window) \in Int
      BY <2>1, <3>1, BucketTypes
    <3> QED
      BY <2>1, <3>2, BucketTypes DEF Earned, TypeOK
  <2>10. Token * passed[n] + Refilled(n) >= Earned(n)
    BY <2>7 DEF BucketOK
  <2> HIDE DEF n
  <2>11. Token * (passed[n] + 1) > Earned(n)
    BY <2>6, <2>8, <2>9, <2>10 DEF Token
  <2> QED
    BY <2>11 DEF n
<1>2. AccessInv /\ [Next]_vars =>
        [\A r \in Requests :
           At(r, "rate") /\ At(r, "idle")'
             => Token * (passed[req[r].login] + 1) > Earned(req[r].login)]_vars
  BY <1>1
<1> QED
  BY <1>2, AccessInvariant, PTL DEF Spec, RefusedOnlyWhenSpent

\* Whoever gets past the checks has a right to, cached credentials or not.
THEOREM AccessAdmitsEntitled == Spec => []AdmittedAreEntitled
<1>1. AccessInv => AdmittedAreEntitled
  BY DEF AccessInv, EntryInv, RequestOK, AdmittedAreEntitled, At, Screened
<1> QED
  BY <1>1, AccessInvariant, PTL

-----------------------------------------------------------------------------
(***************************************************************************)
(* The PAC limiter.  Its own windows begin more than Minute apart, so k of *)
(* them that are over before the present one, and of which the observed    *)
(* window has seen something, take k * (Minute + 1) of its time, but for   *)
(* the Minute by which the first may have begun before it.                 *)
(***************************************************************************)
\* What an address has been let through is what the present window has counted and
\* at most PacLimit for each window before.
PacOK(a) ==
  /\ pac[a].tokens <= PacLimit
  /\ pac[a].start <= now
  /\ pac[a].tokens = 0 => pacPassed[a] = 0
  /\ pacPassed[a] > 0 =>
       \E k \in Nat :
         /\ pacPassed[a] <= k * PacLimit + pac[a].tokens
         /\ k * (Minute + 1) <= pac[a].start - window + Minute

PacInv == PacLimit > 0 => \A a \in PacAddrs : PacOK(a)

\* Products of natural numbers.
LEMMA Products ==
  ASSUME NEW a \in Nat, NEW b \in Nat, NEW m \in Nat
  PROVE  /\ a * m \in Nat
         /\ (a + 1) * m = a * m + m
         /\ b <= a => b * m <= a * m
<1>1. a * m \in Nat /\ b * m \in Nat /\ (a + 1) * m = a * m + m
  OBVIOUS
<1>2. ASSUME b <= a PROVE (a - b) * m = a * m - b * m /\ (a - b) * m >= 0
  BY <1>2
<1> QED
  BY <1>1, <1>2

\* As many stretches of time as fit into a time are at most its quotient.
LEMMA FitsQuotient ==
  ASSUME NEW k \in Nat, NEW x \in Nat, NEW d \in Nat, d > 0, k * d <= x
  PROVE  x \div d \in Nat /\ k <= x \div d
<1>1. PICK q : q = x \div d
  OBVIOUS
<1>2. q \in Nat /\ x < q * d + d
  BY <1>1
<1>3. (q + 1) * d = q * d + d
  BY <1>2, Products
<1>4. ~(q + 1 <= k)
  <2> SUFFICES ASSUME q + 1 <= k PROVE FALSE
    OBVIOUS
  <2>1. (q + 1) * d <= k * d
    BY <1>2, Products
  <2>2. q * d \in Nat /\ k * d \in Nat
    BY <1>2, Products
  <2> QED
    BY <2>1, <2>2, <1>2, <1>3
<1> QED
  BY <1>1, <1>2, <1>4

\* What is known of an address's window and counts.
LEMMA PacFacts ==
  ASSUME TypeOK, NEW a \in PacAddrs
  PROVE  /\ pac[a] \in [start : Nat, tokens : Nat]
         /\ pac[a].start \in Nat /\ pac[a].tokens \in Nat /\ pacPassed[a] \in Nat
         /\ now \in Nat /\ window \in Nat /\ PacLimit \in Nat /\ Minute \in Nat
BY AccessAssumption DEF TypeOK

\* Steps that leave an address's window and count alone.
LEMMA PacKept ==
  ASSUME TypeOK, TypeOK', NEW a \in PacAddrs, PacOK(a), now <= now', UNCHANGED window,
         pac'[a] = pac[a], pacPassed'[a] = pacPassed[a]
  PROVE  PacOK(a)'
<1>1. pac'[a].start <= now'
  BY PacFacts DEF PacOK, TypeOK
<1> QED
  BY <1>1 DEF PacOK

\* checkRateLimit lets a request through and begins a window.
LEMMA PacBegins ==
  ASSUME TypeOK, TypeOK', RateInv, NEW a \in PacAddrs, PacLimit > 0, PacOK(a),
         pac[a].tokens = 0 \/ now - pac[a].start > Minute,
         pac'[a] = [start |-> now, tokens |-> 1], pacPassed'[a] = pacPassed[a] + 1,
         UNCHANGED <<now, window>>
  PROVE  PacOK(a)'
<1>1. /\ pac[a].start \in Nat /\ pac[a].tokens \in Nat /\ pacPassed[a] \in Nat
      /\ now \in Nat /\ window \in Nat /\ PacLimit \in Nat /\ Minute \in Nat
  BY PacFacts
<1>2. pac'[a].start = now /\ pac'[a].tokens = 1 /\ window <= now
  BY DEF RateInv
<1>3. \E k \in Nat :
        /\ pacPassed[a] + 1 <= k * PacLimit + 1
        /\ k * (Minute + 1) <= now - window + Minute
  <2>1. CASE pacPassed[a] = 0
    <3>1. 0 * PacLimit = 0 /\ 0 * (Minute + 1) = 0 /\ now - window + Minute >= 0
      BY <1>1, <1>2
    <3> WITNESS 0 \in Nat
    <3> QED
      BY <1>1, <2>1, <3>1
  <2>2. CASE pacPassed[a] > 0
    <3>1. PICK k \in Nat :
            /\ pacPassed[a] <= k * PacLimit + pac[a].tokens
            /\ k * (Minute + 1) <= pac[a].start - window + Minute
      BY <2>2 DEF PacOK
    <3>2. pac[a].tokens <= PacLimit /\ now - pac[a].start > Minute
      BY <1>1, <2>2 DEF PacOK
    <3>3. PICK x \in Nat, y \in Nat : x = k * PacLimit /\ y = k * (Minute + 1)
      BY <1>1, Products
    <3>4. (k + 1) * PacLimit = x + PacLimit /\ (k + 1) * (Minute + 1) = y + Minute + 1
      <4>1. Minute + 1 \in Nat
        BY <1>1
      <4>2. (k + 1) * PacLimit = k * PacLimit + PacLimit
            /\ (k + 1) * (Minute + 1) = k * (Minute + 1) + (Minute + 1)
        BY <4>1, <1>1, Products
      <4> QED
        BY <4>2, <3>3, <1>1
    <3>5. pacPassed[a] + 1 <= x + PacLimit + 1 /\ y + Minute + 1 <= now - window + Minute
      BY <1>1, <3>1, <3>2, <3>3
    <3>6. k + 1 \in Nat
      OBVIOUS
    <3> QED
      BY <3>4, <3>5, <3>6
  <2> QED
    BY <1>1, <2>1, <2>2
<1>4. /\ pac'[a].tokens <= PacLimit /\ pac'[a].tokens # 0
      /\ pac'[a].start <= now'
  BY <1>1, <1>2
<1>5. \E k \in Nat :
        /\ pacPassed'[a] <= k * PacLimit + pac'[a].tokens
        /\ k * (Minute + 1) <= pac'[a].start - window' + Minute
  BY <1>2, <1>3
<1> QED
  BY <1>4, <1>5 DEF PacOK

\* checkRateLimit lets a request through and counts it in the present window.
LEMMA PacCounts ==
  ASSUME TypeOK, TypeOK', RateInv, NEW a \in PacAddrs, PacLimit > 0, PacOK(a),
         now - pac[a].start <= Minute, pac[a].tokens < PacLimit,
         pac'[a] = [pac[a] EXCEPT !.tokens = @ + 1], pacPassed'[a] = pacPassed[a] + 1,
         UNCHANGED <<now, window>>
  PROVE  PacOK(a)'
<1>1. /\ pac[a].start \in Nat /\ pac[a].tokens \in Nat /\ pacPassed[a] \in Nat
      /\ now \in Nat /\ window \in Nat /\ PacLimit \in Nat /\ Minute \in Nat
  BY PacFacts
<1>2. /\ pac'[a].start = pac[a].start /\ pac'[a].tokens = pac[a].tokens + 1
      /\ window <= now /\ pac[a].start <= now
  BY PacFacts DEF RateInv, PacOK
<1>3. \E k \in Nat :
        /\ pacPassed[a] + 1 <= k * PacLimit + (pac[a].tokens + 1)
        /\ k * (Minute + 1) <= pac[a].start - window + Minute
  <2>1. CASE pacPassed[a] = 0
    <3>1. 0 * PacLimit = 0 /\ 0 * (Minute + 1) = 0 /\ pac[a].start - window + Minute >= 0
      BY <1>1, <1>2
    <3> WITNESS 0 \in Nat
    <3> QED
      BY <1>1, <2>1, <3>1
  <2>2. CASE pacPassed[a] > 0
    <3>1. PICK k \in Nat :
            /\ pacPassed[a] <= k * PacLimit + pac[a].tokens
            /\ k * (Minute + 1) <= pac[a].start - window + Minute
      BY <2>2 DEF PacOK
    <3>2. k * PacLimit \in Nat
      BY <1>1, Products
    <3>3. pacPassed[a] + 1 <= k * PacLimit + (pac[a].tokens + 1)
      BY <1>1, <3>1, <3>2
    <3> QED
      BY <3>1, <3>3
  <2> QED
    BY <1>1, <2>1, <2>2
<1>4. pac'[a].tokens <= PacLimit /\ pac'[a].tokens # 0
  BY <1>1, <1>2
<1> QED
  BY <1>1, <1>2, <1>3, <1>4 DEF PacOK

\* Every step keeps the count of every address within its windows.
LEMMA PacStep ==
  ASSUME TypeOK, TypeOK', RateInv, PacInv, [Next]_vars
  PROVE  PacInv'
<1> SUFFICES ASSUME PacLimit > 0, NEW a \in PacAddrs PROVE PacOK(a)'
  BY DEF PacInv
<1>0. PacOK(a) /\ now \in Nat /\ now' \in Nat
  BY DEF PacInv, TypeOK
<1>1. ASSUME UNCHANGED <<now, window, pac, pacPassed>> PROVE PacOK(a)'
  BY <1>0, <1>1, PacKept
<1>2. ASSUME NEW r \in Requests, ServePAC(r) PROVE PacOK(a)'
  <2>1. PICK b : b = req[r].addr
    OBVIOUS
  <2>2. PICK ok \in BOOLEAN :
          /\ checkRateLimit(b, ok)
          /\ pacPassed' = IF ok THEN [pacPassed EXCEPT ![b] = @ + 1] ELSE pacPassed
    BY <1>2, <2>1 DEF ServePAC, PacAllowed
  <2>3. UNCHANGED <<now, window>>
    BY <1>2 DEF ServePAC
  <2>4. pac \in [PacAddrs -> [start : Nat, tokens : Nat]] /\ pacPassed \in [PacAddrs -> Nat]
    BY DEF TypeOK
  <2>5. CASE a # b
    <3>1. pac'[a] = pac[a] /\ pacPassed'[a] = pacPassed[a]
      BY <2>2, <2>4, <2>5 DEF checkRateLimit
    <3> QED
      BY <1>0, <2>3, <3>1, PacKept
  <2>6. CASE a = b /\ ok /\ (pac[a].tokens = 0 \/ now - pac[a].start > Minute)
    <3>1. /\ pac'[a] = [start |-> now, tokens |-> 1]
          /\ pacPassed'[a] = pacPassed[a] + 1
      BY <2>2, <2>4, <2>6 DEF checkRateLimit
    <3> QED
      BY <1>0, <2>3, <2>6, <3>1, PacBegins
  <2>7. CASE a = b /\ ok /\ ~(pac[a].tokens = 0 \/ now - pac[a].start > Minute)
    <3>1. /\ pac'[a] = [pac[a] EXCEPT !.tokens = @ + 1]
          /\ pac[a].tokens < PacLimit
          /\ pacPassed'[a] = pacPassed[a] + 1
      BY <2>2, <2>4, <2>7 DEF checkRateLimit
    <3>2. now - pac[a].start <= Minute
      BY <2>7, PacFacts
    <3> QED
      BY <1>0, <2>3, <3>1, <3>2, PacCounts
  <2>8. CASE ~ok
    BY <1>1, <2>2, <2>3, <2>8 DEF checkRateLimit
  <2> QED
    BY <2>5, <2>6, <2>7, <2>8
<1>3. ASSUME NEW r \in Requests,
             \/ NoCredentials(r) \/ LookUp(r) \/ Verify(r) \/ StoreCredentials(r)
             \/ CheckRate(r) \/ CheckExpiry(r) \/ VerifyPAC(r) \/ Over(r)
      PROVE  PacOK(a)'
  BY <1>1, <1>3 DEF NoCredentials, LookUp, Verify, StoreCredentials, CheckRate, CheckExpiry,
                    VerifyPAC, Over, pacVars
<1>4. ASSUME NEW r \in Requests, NEW n \in Logins, NEW p \in Passwords, NEW addr \in Addrs,
             Arrive(r, n, p, addr)
      PROVE  PacOK(a)'
  BY <1>1, <1>4 DEF Arrive, pacVars
<1>5. ASSUME NEW s \in Seconds, Pass(s) PROVE PacOK(a)'
  <2>1. now <= now'
    BY <1>0, <1>5, AccessAssumption DEF Pass
  <2> QED
    BY <1>0, <1>5, <2>1, PacKept DEF Pass, pacVars
<1>6. ASSUME Observe PROVE PacOK(a)'
  <2>1. pacPassed'[a] = 0 /\ UNCHANGED <<now, pac>>
    BY <1>6 DEF Observe
  <2> QED
    BY <1>0, <2>1 DEF PacOK
<1>7. CASE UNCHANGED vars
  BY <1>1, <1>7 DEF vars
<1> QED
  BY <1>2, <1>3, <1>4, <1>5, <1>6, <1>7 DEF Next, Screen

\* At the start no address has a window.
LEMMA PacStart == Init => PacInv
<1> SUFFICES ASSUME Init, PacLimit > 0, NEW a \in PacAddrs PROVE PacOK(a)
  BY DEF PacInv
<1>1. pac[a].tokens = 0 /\ pac[a].start = 0 /\ pacPassed[a] = 0 /\ now = 0
  BY DEF Init
<1> QED
  BY <1>1, AccessAssumption DEF PacOK

\* In any window of time checkRateLimit of the PAC handler lets an address through at
\* most PacLimit times for each of its own windows that the time touches.
THEOREM AccessPacBound == Spec => []PacBound
<1>1. AccessInv /\ AccessInv' /\ PacInv /\ [Next]_vars => PacInv'
  BY PacStep DEF AccessInv
<1>2. AccessInv /\ PacInv => PacBound
  <2> SUFFICES ASSUME AccessInv, PacInv, PacLimit > 0, NEW a \in PacAddrs
               PROVE  pacPassed[a]
                        <= PacLimit * (1 + (now - window + Minute) \div (Minute + 1))
    BY DEF PacBound
  <2>1. TypeOK /\ PacOK(a) /\ window <= now
    BY DEF AccessInv, RateInv, PacInv
  <2>2. /\ pac[a].start \in Nat /\ pac[a].tokens \in Nat /\ pacPassed[a] \in Nat
        /\ now \in Nat /\ window \in Nat /\ PacLimit \in Nat /\ Minute \in Nat
    BY <2>1, PacFacts
  <2>3. PICK x \in Nat : x = now - window + Minute
    BY <2>1, <2>2
  <2>4. PICK d \in Nat : d = Minute + 1 /\ d > 0
    BY <2>2
  <2>5. PICK k \in Nat : pacPassed[a] <= (k + 1) * PacLimit /\ k * d <= x
    <3>1. CASE pacPassed[a] = 0
      <4>1. (0 + 1) * PacLimit = PacLimit /\ 0 * d = 0
        BY <2>2, <2>4
      <4> QED
        BY <2>2, <2>3, <3>1, <4>1
    <3>2. CASE pacPassed[a] > 0
      <4>1. PICK k \in Nat :
              /\ pacPassed[a] <= k * PacLimit + pac[a].tokens
              /\ k * d <= pac[a].start - window + Minute
        BY <2>1, <2>4, <3>2 DEF PacOK
      <4>2. k * PacLimit \in Nat /\ (k + 1) * PacLimit = k * PacLimit + PacLimit /\ k * d \in Nat
        BY <2>2, Products
      <4>3. pac[a].tokens <= PacLimit /\ pac[a].start <= now
        BY <2>1 DEF PacOK
      <4>4. PICK y \in Nat, z \in Nat : y = k * PacLimit /\ z = k * d
        BY <4>2
      <4>5. pacPassed[a] <= y + PacLimit /\ z <= x
        BY <2>2, <2>3, <4>1, <4>3, <4>4
      <4> QED
        BY <4>2, <4>4, <4>5
    <3> QED
      BY <2>2, <3>1, <3>2
  <2>6. PICK q \in Nat : q = x \div d /\ k <= q
    BY <2>4, <2>5, FitsQuotient
  <2>7. (k + 1) * PacLimit <= (q + 1) * PacLimit
    <3>1. k + 1 \in Nat /\ q + 1 \in Nat /\ k + 1 <= q + 1
      BY <2>6
    <3> QED
      BY <3>1, <2>2, Products
  <2>8. (q + 1) * PacLimit = PacLimit * (1 + q)
    BY <2>2
  <2>9. (k + 1) * PacLimit \in Nat /\ (q + 1) * PacLimit \in Nat
    <3>1. k + 1 \in Nat /\ q + 1 \in Nat
      OBVIOUS
    <3> QED
      BY <3>1, <2>2, Products
  <2>10. pacPassed[a] <= PacLimit * (1 + q)
    BY <2>2, <2>5, <2>7, <2>8, <2>9
  <2> QED
    BY <2>3, <2>4, <2>6, <2>10
<1> QED
  BY <1>1, <1>2, PacStart, AccessInvariant, PTL DEF Spec
=============================================================================
