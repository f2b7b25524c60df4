-------------------------------- MODULE Access --------------------------------
(***************************************************************************)
(* Who is let in: the user store and the token buckets of internal/auth,   *)
(* as handleRequest of the HTTP proxy and handleConnection of the SOCKS5   *)
(* proxy use them.  Both ask, in this order, for the whitelist, the        *)
(* credentials (with the cache of verified ones), the rate limit and the   *)
(* expiry date; a super admin at a super admin address skips the last two. *)
(* This is the step "screen" of PrivateProxy in detail.                    *)
(*                                                                         *)
(* The HTTP proxy answers a request for /proxy.pac before all of that: the *)
(* PAC handler has a limiter of its own, by address, in fixed windows of a *)
(* minute, and verifies credentials through the same cache.                *)
(*                                                                         *)
(* The users file is read once, at the start.  Time is in seconds, tokens  *)
(* are counted in sixtieths, so that a second refills RateLimitRPM of      *)
(* them; the rounding of float64 is left out.                              *)
(***************************************************************************)
EXTENDS Integers

CONSTANTS
  Requests,      \* requests being screened at once
  Logins,        \* names clients log in with
  Accounts,      \* lower-cased names, enabled in the users file or not
  Lower,         \* strings.ToLower, from login names to accounts
  Enabled,       \* accounts with an enabled entry: the keys of UserStore.users
  Username,      \* User.Username of an account, as spelled in the users file
  Passwords,     \* passwords clients try
  Attempts,      \* pairs of login name and password that clients try
  Password,      \* the password User.PasswordHash of an account was made from
  RPM,           \* User.RateLimitRPM of an account
  Expires,       \* User.ExpiresAt; past LastTime for an account that has none
  SuperAdmins,   \* accounts with Role super_admin
  Addrs,         \* client addresses
  Whitelist,     \* addresses CheckIPAllowed accepts
  AdminAddrs,    \* addresses IsSuperAdminIP accepts
  MinTokens,     \* the least a bucket holds, 10 tokens
  CredCacheTTL,  \* seconds a verified pair of name and password stays cached
  PacAddrs,      \* addresses that getClientIP may find in a PAC request
  PacLimit,      \* pac.Config.RateLimitRPM, 0 for none
  Minute,        \* seconds in a window of the PAC limiter
  Seconds,       \* bound: lengths of time that pass between two steps
  LastTime       \* bound: the end of the time looked at

ASSUME AccessAssumption ==
  /\ Lower \in [Logins -> Accounts]
  /\ Attempts \subseteq Logins \X Passwords
  /\ Username \in [Accounts -> Logins]
  /\ \A a \in Accounts : Lower[Username[a]] = a
  /\ Enabled \subseteq Accounts
  /\ Password \in [Accounts -> Passwords]
  /\ RPM \in [Accounts -> Nat]
  /\ Expires \in [Accounts -> Nat]
  /\ SuperAdmins \subseteq Accounts
  /\ MinTokens \in Nat
  /\ CredCacheTTL \in Nat
  /\ PacAddrs \subseteq Addrs
  /\ PacLimit \in Nat
  /\ Minute \in Nat
  /\ Seconds \subseteq Nat
  /\ LastTime \in Nat

VARIABLES
  now,       \* time.Now(), since the start of the process
  tokens,    \* tokenBucket.tokens of a login name that has a bucket
  refilled,  \* tokenBucket.lastRefill
  cache,     \* UserStore.credCache: until when a pair is valid, 0 if not cached
  req,       \* what is known of each request, and the call it makes next
  window,    \* history: when the observed window of time began
  passed,    \* history: requests a name's bucket has let through in it
  pac,       \* rateWindow and rateTokens of an address; no tokens, no window yet
  pacPassed  \* history: PAC requests of an address let through in the window

vars == <<now, tokens, refilled, cache, req, window, passed, pac, pacPassed>>

pacVars == <<pac, pacPassed>>

Pairs == Accounts \X Passwords

Idle == [pc |-> "idle"]

\* Places in the screening, or in the PAC handler.
Places == {"start", "verify", "store", "rate", "expiry", "admitted", "pac", "pacverify"}

\* inTime is history: the account had not expired when the request came.
Request ==
  [pc : Places, login : Logins, password : Passwords, addr : Addrs, inTime : BOOLEAN]

Account(r) == Lower[req[r].login]

Pair(r) == <<Account(r), req[r].password>>

At(r, place) == req[r].pc = place

GoTo(r, place) == req' = [req EXCEPT ![r].pc = place]

TurnAway(r) == req' = [req EXCEPT ![r] = Idle]

-----------------------------------------------------------------------------
(***************************************************************************)
(* The rate limiter.  LoadFromFile makes a bucket for every enabled user   *)
(* with a limit, under the name as the users file spells it.               *)
(***************************************************************************)
Token == 60

HasBucket(n) == Lower[n] \in Enabled /\ RPM[Lower[n]] > 0 /\ n = Username[Lower[n]]

RefillRate(n) == RPM[Lower[n]]

\* maxTokens: a sixth of the requests per minute, ten at least.
MaxTokens(n) ==
  IF 10 * RPM[Lower[n]] < Token * MinTokens THEN Token * MinTokens ELSE 10 * RPM[Lower[n]]

\* Variant of Refilled: a bucket overflows.
RefilledUncapped(n) == tokens[n] + RefillRate(n) * (now - refilled[n])

\* What Allow finds in a bucket after the refill and the cap.
Refilled(n) ==
  LET sum == tokens[n] + RefillRate(n) * (now - refilled[n]) IN
    IF sum > MaxTokens(n) THEN MaxTokens(n) ELSE sum

\* Variant of Allow: a refusal empties the bucket.
AllowForfeits(n, ok) ==
  \/ ~HasBucket(n) /\ ok /\ UNCHANGED <<tokens, refilled>>
  \/ /\ HasBucket(n)
     /\ ok <=> Refilled(n) >= Token
     /\ tokens' = [tokens EXCEPT ![n] = IF ok THEN Refilled(n) - Token ELSE 0]
     /\ refilled' = [refilled EXCEPT ![n] = now]

\* Allow(n) returns ok; a name without a bucket is not limited.
Allow(n, ok) ==
  \/ /\ ~HasBucket(n)
     /\ ok
     /\ UNCHANGED <<tokens, refilled>>
  \/ /\ HasBucket(n)
     /\ ok <=> Refilled(n) >= Token
     /\ tokens' = [tokens EXCEPT ![n] = IF ok THEN Refilled(n) - Token ELSE Refilled(n)]
     /\ refilled' = [refilled EXCEPT ![n] = now]

\* CheckRateLimit looks the user up in any spelling, Allow in the one given.  The
\* user exists: the credentials were verified, and users are never removed.
CheckRateLimit(n, ok) ==
  \/ RPM[Lower[n]] = 0 /\ ok /\ UNCHANGED <<tokens, refilled>>
  \/ RPM[Lower[n]] > 0 /\ Allow(n, ok)

-----------------------------------------------------------------------------
Init ==
  /\ now = 0
  /\ tokens = [n \in Logins |-> MaxTokens(n)]
  /\ refilled = [n \in Logins |-> 0]
  /\ cache = [p \in Pairs |-> 0]
  /\ req = [r \in Requests |-> Idle]
  /\ window = 0
  /\ passed = [n \in Logins |-> 0]
  /\ pac = [a \in PacAddrs |-> [start |-> 0, tokens |-> 0]]
  /\ pacPassed = [a \in PacAddrs |-> 0]

\* A client comes, with the name and password it is going to give, to be proxied
\* or for the PAC file.
Arrive(r, n, p, addr) ==
  /\ At(r, "idle")
  /\ \E place \in {"start"} \cup (IF addr \in PacAddrs THEN {"pac"} ELSE {}) :
       req' = [req EXCEPT ![r] =
         [pc |-> place, login |-> n, password |-> p, addr |-> addr,
          inTime |-> now < Expires[Lower[n]]]]
  /\ UNCHANGED <<now, tokens, refilled, cache, window, passed, pacVars>>

\* The client gives no credentials after all: it sends no usable header, or the
\* SOCKS5 negotiation fails, breaks off or runs into its deadline.
NoCredentials(r) ==
  /\ At(r, "start")
  /\ req[r].addr \in Whitelist
  /\ TurnAway(r)
  /\ UNCHANGED <<now, tokens, refilled, cache, window, passed, pacVars>>

\* A super admin at a super admin address skips the limits.
SkipsLimits(r) == Account(r) \in SuperAdmins /\ req[r].addr \in AdminAddrs

Authenticated(r) == IF SkipsLimits(r) THEN GoTo(r, "admitted") ELSE GoTo(r, "rate")

\* Variant of CacheHit: an entry is found by its name alone.
CacheHitByName(r) == \E p \in Passwords : now < cache[<<Account(r), p>>]

CacheHit(r) == now < cache[Pair(r)]

\* CheckIPAllowed, then ValidateCredentials' look into the cache.
LookUp(r) ==
  /\ At(r, "start")
  /\ \/ req[r].addr \notin Whitelist /\ TurnAway(r)
     \/ req[r].addr \in Whitelist /\ CacheHit(r) /\ Authenticated(r)
     \/ req[r].addr \in Whitelist /\ ~CacheHit(r) /\ GoTo(r, "verify")
  /\ UNCHANGED <<now, tokens, refilled, cache, window, passed, pacVars>>

\* The user exists and bcrypt accepts the password.
Verified(r) == Account(r) \in Enabled /\ req[r].password = Password[Account(r)]

\* bcrypt takes its time, no lock is held.
Verify(r) ==
  /\ At(r, "verify")
  /\ \/ Verified(r) /\ GoTo(r, "store")
     \/ ~Verified(r) /\ TurnAway(r)
  /\ UNCHANGED <<now, tokens, refilled, cache, window, passed, pacVars>>

StoreCredentials(r) ==
  /\ At(r, "store")
  /\ cache' = [cache EXCEPT ![Pair(r)] = now + CredCacheTTL]
  /\ Authenticated(r)
  /\ UNCHANGED <<now, tokens, refilled, window, passed, pacVars>>

CheckRate(r) ==
  /\ At(r, "rate")
  /\ \E ok \in BOOLEAN :
       /\ CheckRateLimit(req[r].login, ok)
       /\ \/ /\ ok
             /\ GoTo(r, "expiry")
             /\ passed' = IF HasBucket(req[r].login)
                          THEN [passed EXCEPT ![req[r].login] = @ + 1] ELSE passed
          \/ ~ok /\ TurnAway(r) /\ UNCHANGED passed
  /\ UNCHANGED <<now, cache, window, pacVars>>

CheckExpiry(r) ==
  /\ At(r, "expiry")
  /\ \/ now < Expires[Account(r)] /\ GoTo(r, "admitted")
     \/ now >= Expires[Account(r)] /\ TurnAway(r)
  /\ UNCHANGED <<now, tokens, refilled, cache, window, passed, pacVars>>

\* Variant of checkRateLimit: a full window starts the next one.
PacLimitRolls(a, ok) ==
  \/ /\ pac[a].tokens = 0 \/ now - pac[a].start > Minute \/ pac[a].tokens >= PacLimit
     /\ ok
     /\ pac' = [pac EXCEPT ![a] = [start |-> now, tokens |-> 1]]
  \/ /\ pac[a].tokens > 0 /\ now - pac[a].start <= Minute /\ pac[a].tokens < PacLimit
     /\ ok
     /\ pac' = [pac EXCEPT ![a].tokens = @ + 1]

\* pac.Handler.checkRateLimit(a) returns ok.  A window begins with the first
\* request after the last one is over, and counts it.
checkRateLimit(a, ok) ==
  LET begins == pac[a].tokens = 0 \/ now - pac[a].start > Minute IN
    \/ /\ begins
       /\ ok
       /\ pac' = [pac EXCEPT ![a] = [start |-> now, tokens |-> 1]]
    \/ /\ ~begins /\ pac[a].tokens < PacLimit
       /\ ok
       /\ pac' = [pac EXCEPT ![a].tokens = @ + 1]
    \/ /\ ~begins /\ pac[a].tokens >= PacLimit
       /\ ~ok
       /\ UNCHANGED pac

\* PAC requests are not limited, or checkRateLimit returns ok.
PacAllowed(a, ok) ==
  \/ PacLimit = 0 /\ ok /\ UNCHANGED pac
  \/ PacLimit > 0 /\ checkRateLimit(a, ok)

\* ServeHTTP up to the look into the cache.  It is over if the limiter refuses, if
\* the token is wrong, if there is no user or no password (a PAC file without
\* credentials), or if the pair is cached.
ServePAC(r) ==
  /\ At(r, "pac")
  /\ \E ok \in BOOLEAN :
       /\ PacAllowed(req[r].addr, ok)
       /\ pacPassed' = IF ok THEN [pacPassed EXCEPT ![req[r].addr] = @ + 1] ELSE pacPassed
       /\ \/ TurnAway(r)
          \/ ok /\ ~CacheHit(r) /\ GoTo(r, "pacverify")
  /\ UNCHANGED <<now, tokens, refilled, cache, window, passed>>

\* ValidateCredentials for the PAC file: bcrypt, and a good pair is cached.
VerifyPAC(r) ==
  /\ At(r, "pacverify")
  /\ cache' = IF Verified(r) THEN [cache EXCEPT ![Pair(r)] = now + CredCacheTTL] ELSE cache
  /\ TurnAway(r)
  /\ UNCHANGED <<now, tokens, refilled, window, passed, pacVars>>

\* The request goes on to the tracker's checks.
Over(r) ==
  /\ At(r, "admitted")
  /\ TurnAway(r)
  /\ UNCHANGED <<now, tokens, refilled, cache, window, passed, pacVars>>

\* Time passes.
Pass(s) ==
  /\ now + s <= LastTime
  /\ now' = now + s
  /\ UNCHANGED <<tokens, refilled, cache, req, window, passed, pacVars>>

\* An observer starts to count.
Observe ==
  /\ now > window
  /\ window' = now
  /\ passed' = [n \in Logins |-> 0]
  /\ pacPassed' = [a \in PacAddrs |-> 0]
  /\ UNCHANGED <<now, tokens, refilled, cache, req, pac>>

Screen(r) ==
  \/ NoCredentials(r) \/ LookUp(r) \/ Verify(r) \/ StoreCredentials(r)
  \/ CheckRate(r) \/ CheckExpiry(r)
  \/ ServePAC(r) \/ VerifyPAC(r)

Next ==
  \/ \E r \in Requests :
       \/ \E n \in Logins, p \in Passwords, addr \in Addrs :
            <<n, p>> \in Attempts /\ Arrive(r, n, p, addr)
       \/ Screen(r)
       \/ Over(r)
  \/ \E s \in Seconds : Pass(s)
  \/ Observe

Spec == Init /\ [][Next]_vars

-----------------------------------------------------------------------------
TypeOK ==
  /\ now \in Nat
  /\ tokens \in [Logins -> Nat]
  /\ refilled \in [Logins -> Nat]
  /\ cache \in [Pairs -> Nat]
  /\ req \in [Requests -> Request \cup {Idle}]
  /\ window \in Nat
  /\ passed \in [Logins -> Nat]
  /\ pac \in [PacAddrs -> [start : Nat, tokens : Nat]]
  /\ pacPassed \in [PacAddrs -> Nat]

\* In any window of time a limited name gets through at most as often as a full
\* bucket and the refill of that time allow, however its requests interleave
\* and whenever they come: Allow's refill, cap and debit are consistent.
RateBound ==
  \A n \in Logins :
    HasBucket(n) => Token * passed[n] <= MaxTokens(n) + RefillRate(n) * (now - window)

\* What a name has been given to spend in the window: at the start a full bucket,
\* later at least the refill of the window, up to a full bucket.
Earned(n) ==
  LET refill == RefillRate(n) * (now - window) IN
    IF window = 0 \/ refill > MaxTokens(n) THEN MaxTokens(n) ELSE refill

\* The limiter refuses a name only if one more request would cost more than the
\* name has earned in the window: partial refills add up, and to be refused, as
\* a client that retries at once is again and again, costs nothing.
RefusedOnlyWhenSpent ==
  [][\A r \in Requests :
       At(r, "rate") /\ At(r, "idle")'
         => Token * (passed[req[r].login] + 1) > Earned(req[r].login)]_vars

\* In any window of time the PAC limiter lets an address through at most PacLimit
\* times for each of its own windows that the time touches, which is one more than
\* fit into it: around the end of a minute twice the limit get through at once,
\* but never more.
PacBound ==
  \A a \in PacAddrs :
    PacLimit > 0 => pacPassed[a] <= PacLimit * (1 + (now - window + Minute) \div (Minute + 1))

\* Whoever is let in has the password of an enabled account, comes from a
\* whitelisted address, and arrived before the account expired or skips the
\* limits: the cache of verified credentials, which the PAC handler fills for
\* clients from anywhere, opens no way around any of it.
AdmittedAreEntitled ==
  \A r \in Requests :
    At(r, "admitted") =>
      /\ Verified(r)
      /\ req[r].addr \in Whitelist
      /\ SkipsLimits(r) \/ req[r].inTime

=============================================================================
