----------------------------- MODULE PrivateProxy -----------------------------
(***************************************************************************)
(* The private mode of the proxy (runHTTPSProxyMode): the sessions of the  *)
(* HTTP proxy's plain and TLS ports and of the SOCKS5 port, each a         *)
(* goroutine, and their calls to the one bandwidth tracker, together with  *)
(* start, shutdown and crash of the process.                               *)
(*                                                                         *)
(* A session is one request handled by httpproxy.Server.handleRequest or   *)
(* one connection handled by socks5.Server.handleConnection.  Both check   *)
(* the user's limits, enter, relay, record the bytes and leave, and each   *)
(* tracker call is a critical section of its own.  The user store and the  *)
(* rate limiter are represented by their answers (Screen and Reject), the  *)
(* relay by the number of bytes it counts (see Tunnel).                    *)
(***************************************************************************)
EXTENDS Tracker, FiniteSets

CONSTANTS
  Sessions,      \* handler goroutines that may run at once
  Accounts,      \* keys of UserStore.users: lower-cased usernames
  Username,      \* User.Username of an account, as spelled in the users file
  Lower,         \* strings.ToLower, from login names to accounts
  SuperAdmins,   \* accounts with Role super_admin
  LimitBytes,    \* User.BandwidthLimitGB of an account, in bytes
  MaxConns,      \* User.MaxConnections of an account
  TLS            \* whether the HTTPS port is configured

\* A login name is a key of the tracker: the servers pass it on as it came.
ASSUME ProxyAssumption ==
  /\ IsFiniteSet(Sessions)
  /\ Username \in [Accounts -> Keys]
  /\ Lower \in [Keys -> Accounts]
  /\ \A a \in Accounts : Lower[Username[a]] = a
  /\ SuperAdmins \subseteq Accounts
  /\ LimitBytes \in [Accounts -> Limits]
  /\ MaxConns \in [Accounts -> Int]
  /\ TLS \in BOOLEAN

VARIABLES
  sess,      \* for each goroutine its place in the handler, port and login name
  open,      \* ports with a listener
  ctxDone    \* the context of signal.NotifyContext is cancelled

vars == <<trackerVars, sess, open, ctxDone>>

Ports == {"http", "tls", "socks"}

Idle == [pc |-> "idle"]

\* Places in a handler, each named for the call it makes next.
Places == {"screen", "allowance", "connlimit", "enter", "relay", "leave"}

Session == [pc : Places, port : Ports, login : Keys]

Account(s) == Lower[sess[s].login]

\* The tracker key a session enters, records and leaves under: handleRequest
\* uses user.Username, handleConnection the name the client logged in with.
EntryKey(s) == IF sess[s].port = "socks" THEN sess[s].login ELSE Username[Account(s)]

At(s, place) == sess[s].pc = place

GoTo(s, place) == sess' = [sess EXCEPT ![s].pc = place]

End(s) == sess' = [sess EXCEPT ![s] = Idle]

-----------------------------------------------------------------------------
ListeningPorts == IF TLS THEN Ports ELSE Ports \ {"tls"}

Init ==
  /\ TrackerInit
  /\ sess = [s \in Sessions |-> Idle]
  /\ open = ListeningPorts
  /\ ctxDone = FALSE

(***************************************************************************)
(* The handlers.                                                           *)
(***************************************************************************)
Accept(s, p, n) ==
  /\ phase # "down"
  /\ p \in open
  /\ At(s, "idle")
  /\ sess' = [sess EXCEPT ![s] = [pc |-> "screen", port |-> p, login |-> n]]
  /\ UNCHANGED <<trackerVars, open, ctxDone>>

\* Whitelist, credentials, rate limit or expiry turn the client away, or the
\* SOCKS5 negotiation fails: the handler returns before it calls the tracker.
Reject(s) ==
  /\ At(s, "screen")
  /\ End(s)
  /\ UNCHANGED <<trackerVars, open, ctxDone>>

\* They let it through.  A super admin from a super admin address skips the
\* tracker's two checks; from any other address it is a user like the others.
Screen(s) ==
  /\ At(s, "screen")
  /\ \/ GoTo(s, "allowance")
     \/ Account(s) \in SuperAdmins /\ GoTo(s, "enter")
  /\ UNCHANGED <<trackerVars, open, ctxDone>>

CheckQuota(s) ==
  /\ At(s, "allowance")
  /\ \E ok \in BOOLEAN :
       /\ CheckAllowance(sess[s].login, LimitBytes[Account(s)], ok)
       /\ \/ ok /\ GoTo(s, "connlimit")
          \/ ~ok /\ End(s)
  /\ UNCHANGED <<open, ctxDone>>

CheckSlots(s) ==
  /\ At(s, "connlimit")
  /\ LET free == CheckConnLimit(sess[s].login, MaxConns[Account(s)]) IN
       \/ free /\ GoTo(s, "enter")
       \/ ~free /\ End(s)
  /\ UNCHANGED <<trackerVars, open, ctxDone>>

Enter(s) ==
  /\ At(s, "enter")
  /\ IncrementConns(EntryKey(s))
  /\ GoTo(s, "relay")
  /\ UNCHANGED <<open, ctxDone>>

\* Variant of RelayFails: the error path returns without DecrementConns.
FailLeaksSlot(s) ==
  /\ At(s, "relay")
  /\ End(s)
  /\ UNCHANGED <<trackerVars, open, ctxDone>>

\* The request is malformed, the target cannot be reached or the client's
\* connection cannot be hijacked: the handler returns, its deferred calls run.
RelayFails(s) ==
  /\ At(s, "relay")
  /\ GoTo(s, "leave")
  /\ UNCHANGED <<trackerVars, open, ctxDone>>

\* The relay is over and has counted n bytes.
RelayEnds(s, n) ==
  /\ At(s, "relay")
  /\ RecordBytes(EntryKey(s), n)
  /\ GoTo(s, "leave")
  /\ UNCHANGED <<open, ctxDone>>

Leave(s) ==
  /\ At(s, "leave")
  /\ DecrementConns(EntryKey(s))
  /\ End(s)
  /\ UNCHANGED <<open, ctxDone>>

-----------------------------------------------------------------------------
(***************************************************************************)
(* Start, shutdown and crash of the process.                               *)
(***************************************************************************)
\* SIGINT or SIGTERM.
Cancel ==
  /\ phase = "up"
  /\ ctxDone' = TRUE
  /\ UNCHANGED <<trackerVars, sess, open>>

\* socks5 watchShutdown closes the listener and Start returns; nothing waits
\* for s.wg, the goroutines go on.  An Accept error ends Start alike, with the
\* HTTP server still serving.
SocksStops ==
  /\ phase # "down"
  /\ "socks" \in open
  /\ open' = open \ {"socks"}
  /\ UNCHANGED <<trackerVars, sess, ctxDone>>

\* httpproxy watchShutdown: httpServer.Shutdown closes the plain listener
\* first, and Serve returns at once.
HttpShutdown ==
  /\ phase = "up"
  /\ ctxDone
  /\ "http" \in open
  /\ open' = open \ {"http"}
  /\ UNCHANGED <<trackerVars, sess, ctxDone>>

\* httpServer.Shutdown returns and httpsServer.Shutdown closes the TLS
\* listener.  The first one has waited for requests, not for hijacked
\* tunnels, and for 30 s at most, so sessions may be anywhere.
HttpsShutdown ==
  /\ phase = "up"
  /\ ctxDone
  /\ "http" \notin open
  /\ "tls" \in open
  /\ open' = open \ {"tls"}
  /\ UNCHANGED <<trackerVars, sess, ctxDone>>

\* The TLS port's Serve fails, which is only logged: the other ports go on.
HttpsServeEnds ==
  /\ phase # "down"
  /\ "tls" \in open
  /\ open' = open \ {"tls"}
  /\ UNCHANGED <<trackerVars, sess, ctxDone>>

\* Variant of MainReturns: main waits for every session.
MainWaits ==
  /\ ctxDone
  /\ open \cap {"http", "tls"} = {}
  /\ \A s \in Sessions : At(s, "idle")
  /\ Stop
  /\ UNCHANGED <<sess, open, ctxDone>>

\* Both Serve calls have returned, so has httpSrv.Start, and the deferred
\* bwTracker.Stop runs.
MainReturns ==
  /\ ctxDone
  /\ open \cap {"http", "tls"} = {}
  /\ Stop
  /\ UNCHANGED <<sess, open, ctxDone>>

\* Returning from main, log.Fatal or a kill ends every goroutine where it is.
Crash ==
  /\ ProcessEnds
  /\ sess' = [s \in Sessions |-> Idle]
  /\ open' = {}
  /\ ctxDone' = FALSE

Restart ==
  /\ NewTracker
  /\ open' = ListeningPorts
  /\ UNCHANGED <<sess, ctxDone>>

Background ==
  /\ BackgroundSave \/ MonthPasses
  /\ UNCHANGED <<sess, open, ctxDone>>

-----------------------------------------------------------------------------
Next ==
  \/ \E s \in Sessions :
       \/ \E p \in Ports, n \in Keys : Accept(s, p, n)
       \/ Reject(s)
       \/ Screen(s)
       \/ CheckQuota(s)
       \/ CheckSlots(s)
       \/ Enter(s)
       \/ RelayFails(s)
       \/ \E n \in Amounts : RelayEnds(s, n)
       \/ Leave(s)
  \/ Cancel
  \/ SocksStops
  \/ HttpShutdown
  \/ HttpsShutdown
  \/ HttpsServeEnds
  \/ MainReturns
  \/ Crash
  \/ Restart
  \/ Background

Spec == Init /\ [][Next]_vars

\* The watchShutdown goroutine and main are scheduled, and a process whose
\* main has returned ends.  Nothing is assumed of clients, targets or relays.
ShutdownFairness ==
  /\ WF_vars(HttpShutdown)
  /\ WF_vars(HttpsShutdown)
  /\ WF_vars(MainReturns)
  /\ WF_vars(phase = "stopped" /\ Crash)

FairSpec == Spec /\ ShutdownFairness

-----------------------------------------------------------------------------
TypeOK ==
  /\ TrackerTypeOK
  /\ sess \in [Sessions -> Session \cup {Idle}]
  /\ open \subseteq Ports
  /\ ctxDone \in BOOLEAN

\* Sessions at one of some places of the handler, under key k.
Group(places, k) == {s \in Sessions : sess[s].pc \in places /\ EntryKey(s) = k}

\* Sessions between IncrementConns(k) and DecrementConns(k).
Inside == {"relay", "leave"}

Holders(k) == Group(Inside, k)

\* ActiveConns of a key is the number of sessions that entered under it and
\* have not left: no path out of a handler, no crash and no restart leaks a
\* slot or gives one back twice, and the floor in DecrementConns is never hit.
SlotAccounting == \A k \in Keys : conns[k] = Cardinality(Holders(k))

\* Sessions that have passed CheckAllowance, or skipped it, and may yet record.
Admitted == {"connlimit", "enter", "relay"}

InFlight(k) == Group(Admitted, k)

\* Accounts the monthly cap applies to.
Capped == {a \in Accounts \ SuperAdmins : LimitBytes[a] > 0}

\* The most a capped account can be charged with: one byte less than the cap,
\* and what every session admitted below the cap may still bring.
CapWithOvershoot(a) == LimitBytes[a] - 1 + MaxAmount * Cardinality(Sessions)

\* Clients log in to the account with one spelling, the one of the users file.
OneSpelling(a) == \A n \in Keys : Lower[n] = a => n = Username[a]

\* A capped account exceeds its monthly cap at most by the bytes of the
\* sessions that were already admitted when the cap was reached, because
\* CheckAllowance runs once, before the relay, and RecordBytes once, after it.
CapOvershootBounded ==
  \A a \in Capped :
    OneSpelling(a) =>
      total[Username[a]] + MaxAmount * Cardinality(InFlight(Username[a]))
        <= CapWithOvershoot(a)

\* SIGTERM ends the process even if clients keep their tunnels open for ever.
ShutdownCompletes == ctxDone ~> phase = "down"

-----------------------------------------------------------------------------
(***************************************************************************)
(* What the documents say and the code does not do.                        *)
(***************************************************************************)
\* README: "Max concurrent connection limits per user".
Serving(a) ==
  {s \in Sessions : sess[s].pc \in Inside /\ Account(s) = a}

\* No account has more sessions past Enter than its MaxConnections allows.
ConnLimitHolds ==
  \A a \in Accounts \ SuperAdmins :
    MaxConns[a] > 0 => Cardinality(Serving(a)) <= MaxConns[a]

\* The cap of an account holds, up to the overshoot, whichever spelling of the
\* case-insensitive username its clients log in with.
CapHoldsForAnySpelling ==
  \A a \in Capped : total[Username[a]] <= CapWithOvershoot(a)

=============================================================================
