# A TLA+ model of multi-protocol-proxy

These modules model the proxy's own logic: the bandwidth tracker, the sessions
that use it, their admission and handshake, the relays and their throttle, the
accept, drain and shutdown logic of both run modes, the certificate reload, and
the tool that edits the users file. TLC checks them on small instances; TLAPS proves every safety
property that a run checks, for every value of the parameters. `PROJECT.json`
maps every definition to the lines it models.

## The system

The program (`cmd/proxy/main.go`) runs in one of two modes.

* **Private mode** (`runHTTPSProxyMode`): an HTTP proxy on a plain and optionally
  a TLS port (`internal/httpproxy`), a SOCKS5 proxy (`internal/socks5`), a user
  store with a rate limiter (`internal/auth`) and one bandwidth tracker
  (`internal/bandwidth`) shared by all sessions.
* **Public mode** (`runSNIProxyMode`): a TLS listener whose connections are
  relayed to the target configured for their SNI (`internal/proxy`), with a
  bound on connections, statistics, and a certificate reload on SIGHUP.

### Inventory

| Component | State | Operations | What makes it correct |
|---|---|---|---|
| bandwidth tracker (`bandwidth/tracker.go`) | per-key usage and open connections, month, usage file | record, two limit checks, increment, decrement, month reset, periodic save, stop, load | usage charged exactly once over resets, failed saves, crashes and restarts |
| HTTP and SOCKS5 sessions (`httpproxy/server.go`, `socks5/server.go`) | place in the handler, login, port | authenticate, check limits, enter, relay, record, leave | slots given back on every path; caps respected up to the race the code has |
| relays (three of them) | two copiers, two counts, the channel `done` | copy, count, half-close, signal, wait, record, close | nothing charged that was not carried; everything delivered; the tunnel closes |
| SNI server (`proxy/server.go`) | `connSem`, `wg`, gauge, `shutdown`, listener | accept, admit, refuse, peek, dial, relay, drain | no token lost; drain waits for every handler; a signal is not an error |
| user store (`auth/auth.go`) | users, whitelist, super admin, credential cache | load, validate, invalidate, expiry, IP checks | whoever is let in has a right to, cached credentials or not |
| rate limiter (`auth/ratelimit.go`) | token buckets | set limit, allow | requests bounded by burst and refill, nobody refused who has tokens |
| throttle (`bandwidth/throttle.go`) | token bucket of a connection | read, write | transfer rate bounded, progress |
| certificate reload (`proxy/server.go`, `main.go`) | current certificate, one-place signal channel | reload, serve | the latest consistent pair is served in the end |
| statistics (`proxy/stats.go`, `proxy/metrics.go`) | counters, 60 s and 24 h windows, gauge | record, tick, report | windows agree with counters |
| SNI extraction (`proxy/server.go`) | none | parse | total on every input; finds the name |
| SOCKS5 handshake (`socks5/server.go`) | the stage and the deadline of a connection | negotiate, authenticate, request, dial, reply | a legal dialogue, nothing read too far, an end in bounded time |
| PAC endpoint (`pac/pac.go`) | per-address windows | rate limit, verify, serve | bounded requests in any time; the cache it fills opens no way in |
| user tool (`scripts/manage-users.go`) | users file, a copy of it per cycle | add, remove, toggle, update, save | no user but the chosen one touched; who is revoked stays out |
| configuration, terminal output, shell scripts | read once / none | | |

Sessions of all ports run as goroutines and meet in the tracker, whose methods
are single critical sections of one mutex; between two calls anything may
happen. Relays interact through a channel and unsynchronised counters. The
servers and `main` interact through a cancelled context, closed channels and
closed listeners. The tracker survives a process through its file only.

What is hard: check-then-act across two tracker calls; keys that differ in
spelling; counts read while a copier is running; half-closes that a wrapped
connection cannot send; writes to peers that do not read; process exit under running
sessions; torn file writes;
month changes between any two steps; the order of closing a channel and a
listener; deadlines racing the drain timeout and the dial; signals that coalesce;
two files renewed one after the other; whole-file saves of stale copies; tokens
taken after the bytes have moved. `PROJECT.json` lists these hazards
with their lines and properties.

## The modules

| Module | Models |
|---|---|
| `Tracker` | `bandwidth/tracker.go`, alone and as the part of `PrivateProxy` that the sessions share |
| `PrivateProxy` | private mode: extends `Tracker` with sessions, ports, signal, shutdown, crash, restart |
| `Access` | user store and rate limiter of `internal/auth`, and the PAC handler: the `screen` step of `PrivateProxy` in detail |
| `SocksHandshake` | one SOCKS5 connection from accept to end, under its deadline |
| `Tunnel` | one relay of any of the three servers |
| `Throttle` | the token bucket of a `ThrottledConn`, which `Tunnel` knows only as a wrapper |
| `SNIServer` | public mode: accept loop, handlers, drain |
| `Gate` | what the accept loop promises; `SNIServer` implements it |
| `CertReload` | `Reload`, the SIGHUP goroutine and a renewal of the certificate |
| `UsersFile` | the management tool's sessions on the users file, and who a proxy started now would serve |
| `PrivateProxyProofs` | theorems about `Tracker` and `PrivateProxy` |
| `AccessProofs`, `SocksHandshakeProofs`, `TunnelProofs`, `ThrottleProofs`, `SNIServerProofs`, `CertReloadProofs`, `UsersFileProofs` | theorems about the module each is named after; `SNIServerProofs` also that it implements `Gate` |
| `MC*` | small instances for TLC |

**Tracker.** One action per method, since each holds `t.mu` throughout. `total`
is `TotalBytes` per key, `conns` is `ActiveConns`, `month` is `t.month`, `clock`
the month of `time.Now()`, `disk` the file. `checkMonthlyReset` is part of
`RecordBytes` and of `CheckAllowance` as in the code, including the save it makes.
`os.WriteFile` truncates first, so a save ends in the new file, an unreadable
one, or (open fails) the old one; a process may also end inside a save. The
history variables `carried` and `lost` exist for the properties only.

**PrivateProxy.** A session passes `screen` (whitelist, credentials, rate limit,
expiry: their answers are free here, `Access` says what they are), `allowance`, `connlimit`, `enter`, `relay` and
`leave`. `EntryKey` keeps the code's difference between HTTP, which enters and
records under `user.Username`, and SOCKS5, which uses the login as typed; both
check limits under the login. `Accounts`, `Username` and `Lower` say which
spellings belong to which account. Shutdown follows the code: the plain listener
closes, then the TLS listener, `Start` returns, `Stop` runs, the process ends
under whatever sessions remain. The TLS port's `Serve` may also end by itself
(`HttpsServeEnds`), which is only logged. `Crash` may happen at any time (`log.Fatal`, a
kill) and `Restart` is `NewTracker` with fresh listeners.

**Access.** A request passes `start` (whitelist, reading the credentials, which may
fail in the HTTP header or the SOCKS5 negotiation, the look into `credCache`),
`verify` (the users map and bcrypt, no lock held), `store` (the answer is cached),
`rate` and `expiry`; a super admin at a super admin address skips the last two.
Each place is one critical section or lock-free step of the code, so requests
interleave where goroutines can. `cache[<<account, password>>]` is `validUntil`,
keyed like the code's lower-cased name and password hash. `Allow` refills, caps,
moves `lastRefill` and debits as in the code; a token is 60 units, so a second
refills exactly `RateLimitRPM` of them and the capacity `rpm/6` is `10 * RPM`
units: the arithmetic is exact where the code's is float64. A bucket exists only
under the spelling of the users file (`HasBucket`), as `SetLimit` and `Allow` have
it. `window` and `passed` are history: an observer may start to count at any
moment, so that the properties speak of every window of time. A request for
`/proxy.pac` takes another path, before the whitelist: `checkRateLimit` counts it in
the window of its address, which begins with the first request after a minute,
and `ValidateCredentials` is called with the same cache. `PacAddrs` are the addresses
`getClientIP` may find (it believes `X-Forwarded-For`).

**SocksHandshake.** `stage` is the place in `handleConnection`. The client's messages
are abstract (a good one, a refusable one, garbage) and queue in `pending`; a read
takes exactly one. The deadline is set at accept and cleared after the dial, and
`sendReply` drops its message if the deadline is over or the client gone, because
nobody looks at `Write`'s error. `late` remembers that the dial ended after the
deadline. In the relay the target may stop reading (`target`): the copier towards it
is then in a write that nothing ends.

**Tunnel.** `kind` says which server and which connection types; all else is
shared. A copier reads, writes, counts, (CONNECT) half-closes, signals; the handler
receives from `done` twice (CONNECT) or once, records what the counters hold at
that moment, and closes. A CONNECT handler first hijacks the client's connection:
of the bytes the client has sent ahead of its 200 some are in the buffer that is
dropped (`early`). The SNI copier adds to the shared counter after each
write, the others assign at the end. Peers are the environment; one that stays
but no longer reads is `deaf`, and a write to it blocks until it goes away or the
connection is closed. Only the SNI relay's writes have a deadline, the one the
opposite copier sets on the same connection for its reads.

**Throttle.** A call waits, moves, consumes; `waitForTokens` and `consumeTokens` are
the two critical sections, the transfer between them holds no lock. A tick is
worth `Rate` tokens; the sleep is the code's, clamped between one tick and `MaxSleep`.
Whole tokens stand for the code's float64. `watch` is history, a window opened at
any moment.

**SNIServer.** `acceptor` is the goroutine of `Start`, `conn[c]` the place of a
handler, `n` the counters. `returned` and `released` are inside the deferred
calls, in their order (semaphore first, wait group second). During the drain,
time passes in ticks of ten seconds; something limited to ten seconds sees at
most two of them, the drain timeout fires after three. A tick cannot pass while
some goroutine has a step that waits for nothing. `Gate` has four variables and no
goroutines: connections enter, are turned away by a full gate only, leave; a
closing gate deals with at most one more; it shuts cleanly only when empty.
`TheGate` maps a connection to *inside* while it holds a token of `connSem`, and the
last call to the `Accept` that had begun when `s.shutdown` was closed.

**CertReload.** A certificate and a key match if their generations are equal. Each
call of `Reload` reads one file, then the other, then sets `s.cert`; `Start`'s call and
the goroutine's may overlap, because the goroutine is started first. A renewal
(external, as the deployment guide describes it) empties and rewrites one file
after the other. A read may also fail whatever the file holds (`ReadFails`: missing,
not permitted, too many open files). The signal channel has one place. `early`,
`answers` and `asked` are history.

**UsersFile.** A cycle of the tool is load, edit, save; a save is the truncation and
the write of `os.WriteFile`, each of which may fail, be torn or be the point where
the session is interrupted. Users are sequences as in the file, so that positions
matter to `removeUser` as in the code. A file that has been truncated or torn holds
nothing any more (`content`). `saved`, `blank` and `missed` are history: what the last
complete save has written; whether a session found no usable file; what others'
saves have changed since a session has loaded its copy.

Two functions do not parse at this commit: `CheckExpiry` (`auth/auth.go:261`) and
`handleMethodNegotiationNoAuth` (`socks5/server.go:276`) lack a closing brace. The
first is read as if the brace followed `return true`; the second is not called.

## Runs

| Run | Shows |
|---|---|
| `proxy_slots` | `SlotAccounting`: `ActiveConns` of a key = sessions inside under it, on every path out, over crash and restart. `ShutdownCompletes`: a signal ends the process though relays never end |
| `proxy_quota` | `BytesConserved`: bytes recorded this month = bytes charged + bytes that were in no readable file when a process ended. `DiskNeverAhead`: a restart never raises usage. `CapOvershootBounded`: the cap is exceeded at most by sessions admitted below it |
| `access` | `RateBound`: in any window a limited name passes at most a full bucket plus the refill of the window. `RefusedOnlyWhenSpent`: it is refused only if one more request costs more than it has earned, so retries cost nothing. `PacBound`: an address gets at most the PAC limit for each minute window that a time touches. `AdmittedAreEntitled`: the credential cache opens no way around password, enabled flag, whitelist or expiry |
| `tunnel` | over all seven kinds of relay: `NeverOvercharged` and `EndedCopierCharged` bound what is charged from both sides, `ConnectChargesInFull`, `DeliveredInFull` (all but bytes sent before the hijack). `PlainTunnelCloses`: if both peers read, the half-close ends the tunnel. `SocksTunnelCloses`: one ended direction ends the tunnel unless its own copier is in a write to a peer that does not read. `SilentTunnelCloses`: the deadline ends an SNI relay, reading peers or not. `CopiersFinish` |
| `throttle` | `Overdraft`: the bucket falls below zero by less than a buffer for each goroutine. `BurstBound`: in any span a full bucket, the refill and four buffers. `ThrottleYields`: a waiting call leads to one that passes |
| `socks` | `DialogueLegal`, `DialAnswered`, `EarlyDataKept`, `HandshakeBounded`, `HandshakeEnds`. `LeaverLetGo`: who leaves is let go unless the copier that would notice is in a write to a target that does not read |
| `sni` | `HandlersAccounted`, `DrainedMeansIdle`, `SignalIsNotFatal`, `DrainCompletes`, `SignalStops`; `ImplementsGate`: the refinement of `Gate` |
| `reload` | `SignalledPairServed`: a signal after a renewal leads to the renewed pair, unless a reload that began after it cannot read a file. `OlderOnlyFromEarlyReload`: an older pair comes back only from a reload begun before the listener; TLC finds that this does happen. `TypeOK`: a listening server has a certificate |
| `users` | `NamesUnique`. `SaveTouchesOnlyChosen`: against the last complete save, a save changes only the chosen user and what others have saved since its copy was made; without a usable file to start from it leaves nobody else. `RevokedNotServed`: who was removed or disabled comes back only through a copy from before that |

Three runs end in a counterexample: what a document or comment says is not what
the code does.

| Run | Property | Counterexample |
|---|---|---|
| `proxy_connlimit` | `ConnLimitHolds` | two sessions check the connection limit before either increments |
| `proxy_spelling` | `CapHoldsForAnySpelling` | HTTP login with another case: checked under one key, recorded under another |
| `tunnel_throttled` | `TunnelCloses` | a `*ThrottledConn` is no `*net.TCPConn`: no half-close, the tunnel hangs |

### What the models show besides

* After a signal the private mode's `main` stops the tracker and exits under running
  sessions (`MainReturns` does not look at them), and in the public mode the cancelled
  context ends every relay (`RelayCut`): what the documents call draining covers
  handshakes and dials, not transfers.
* The SOCKS5 handler records when the first copier is done. The other one's
  count is then still zero, whatever it has carried: `EndedCopierCharged` is all
  that holds. The same goes for the SNI relay's byte metrics, up to its running count.
* A dial that ends after the 30 s deadline of the handshake loses its reply, and the
  relay begins all the same (`late` in `DialogueLegal`).
* The throttle's comment allows bursts of "1 second of bandwidth"; up to four
  buffers come on top, which `BurstBound` states and no smaller bound holds. One
  direction of a connection can take every token, so progress is stated for both together.
* The management tool saves after every choice, so "Exit without saving" leaves
  nothing unsaved; two sessions undo each other's changes, which
  `SaveTouchesOnlyChosen` and `RevokedNotServed` bound by `missed`. A save that is cut
  short destroys the file, and the next session starts from nothing and overwrites
  it: all users but the one just added, and the address lists, are gone. A usage
  file cut short by a crash is lost as a whole in the same way; `BytesConserved` counts
  that as `lost`.
* Writes inside a CONNECT or SOCKS5 relay have no deadline. A peer that stops reading
  keeps the copier, the handler and the user's slot for as long as it stays, even if
  the other peer has ended or left: the exceptions in `PlainTunnelCloses`,
  `SocksTunnelCloses` and `LeaverLetGo`, and TLC reaches them.
* A login in another spelling than the users file's has no bucket in the rate limiter
  (`CheckRateLimit` passes the login on, `Allow` lets an unknown name pass), so it is
  not limited at all, although `docs/configuration/USERS.md:119` says "Each user has an
  individual rate limit". `RateBound` speaks of names with a bucket (`HasBucket`); the
  run `proxy_spelling` shows the same disagreement for the monthly cap. For names with a
  bucket the limit of the documents is exceeded by the burst, which `RateBound` states.

### Bounds

* `proxy_slots`: two sessions, which is what it takes for a slot to be leaked,
  returned twice or confused, two spellings, all three ports, a limit of one
  connection. No bytes are carried: slots do not depend on them.
* `proxy_quota`: two sessions of up to two bytes, cap two, so that both pass the
  check before either records; one month change, which gives files of the
  current month, of the last, and unreadable ones.
* `access`: two requests at once under two spellings of one account, right and
  wrong password, addresses outside the whitelist, inside it, and of the super
  admin. A step of five seconds refills half a token, so that fractions add up;
  three such steps outlast the cache entry, the expiry date and the minute of the
  PAC limiter, which is ten seconds here. A bucket holds one token instead of ten,
  a PAC window two requests.
* `tunnel`: two bytes per direction, so that a copier can be stopped before,
  between and after them, and be blocked in the write of either.
* `sni`: three connections for two semaphore places, so that one is refused, or
  admitted after another has gone; drain timeout of three ticks.
* `reload`: three generations, so that a renewal can overtake the reload of the one
  before.
* `socks`: deadline and dial timeout of three ticks each, so that the deadline ends
  before, in and after any stage; two pieces of data behind the request.
* `throttle`: two goroutines, a buffer of two and a bucket of three, so that both
  pass on the same token and overdraw; a window of two ticks. Time since the last
  refill is counted up to what fills the bucket from any overdraft (an assumption).
* `users`: two sessions, five cycles between them, two accounts, one with two
  spellings: enough to add, remove and add again around a torn save.

### Fairness

* `proxy_slots`: weak fairness of `watchShutdown`'s steps, of main's return and of
  the process ending after it. `http.Server.Shutdown` has a 30 s context, so it
  always returns. Nothing is assumed of clients or relays.
* `tunnel`: goroutines that can run do run, which a goroutine in a write to a deaf
  peer cannot; a peer that reads and sees the end of its input ends its output some
  time. No peer has to send, to read, to finish first or to leave.
* `sni`: goroutines that can run do run and time passes. Peek, API request and
  dial end by their deadlines. A relay need not end before the context is
  cancelled; the first write to a target need not end at all.
* `reload`: both goroutines are scheduled. No renewal has to end or to be signalled,
  and no read has to succeed.
* `socks`: the handler runs when it can, the dial ends by its timeout, time passes.
  A copier runs when its target reads, and ends when it has written all that a client
  that has left had sent. Neither client nor target need do anything.
* `throttle`: time passes, a call that can look at the bucket or pay does. The
  connection may block a transfer for ever.

Deadlock is checked in the private-mode, admission, reload and throttle runs, where
something can always happen. Tunnels, SOCKS5 connections and the SNI server do stop,
and the operators of `users` come to the end of their cycles.

## Proofs

Every invariant, every action property and the refinement that the passing runs
check are proved, for any values of the parameters that satisfy the assumptions.
Each proofs module states its inductive invariant (`IInv` where it has no better
name) as a conjunction of named parts, has one lemma for each kind of step, and ends
with the theorems. TLC has checked each inductive invariant on the run's instance
before it was proved.

**PrivateProxyProofs, the tracker.** `TrackerSpec => []TrackerTypeOK`,
`[]BytesConserved`, `[]DiskNeverAhead`, for any keys, limits, amounts and months. The
inductive invariant is the conjunction of the three: conservation alone is not
inductive, because a process end replaces memory by the file, and the bytes it
loses are a natural number only if the file holds no more than memory
(`DiskNeverAhead`), which in turn needs a tracker and a file of no later month
than the clock's. `SaveNotAhead` and `ResetNotAhead` state once what a save and a
month change do to the file.

**PrivateProxyProofs, the private mode.**

* `ProxyConservesBytes`, `ProxyDiskNeverAhead` and the tracker's part of
  `ProxyTypeCorrect` carry what is proved of the tracker over to the whole: every action
  is written as one tracker action or leaves the tracker alone (`TrackerStep`);
* `ProxyAccountsSlots`: `SlotAccounting` for any finite set of sessions, from the
  typing of sessions and the cardinalities of the sets of sessions a step changes;
* `ProxyBoundsOvershoot`: `CapOvershootBounded`. The invariant carries its own
  induction: recorded bytes plus `MaxAmount` for every session still admitted is
  at most the cap less one plus `MaxAmount` for every session there is. Passing
  `CheckAllowance` below the cap is the step that needs it: there the bound on the
  total is fresh, and the sessions in flight are counted.

**AccessProofs.** For any users, addresses, limits and passage of time,
`AccessTypeCorrect`, `AccessRateBound`, `AccessRefusesSpent`, `AccessAdmitsEntitled` and
`AccessPacBound`. `RateBound` is not inductive: a full bucket at the end of a
long window could pay for more. The invariant adds what the bucket holds now to
what it has let through, and bounds the sum from above by bucket and refill and
from below by what was earned; a debit moves a token from one summand to the
other, the cap only lowers the sum when it is at the upper end of the lower
bound anyway. For the entitlement, `CacheSound` (a cached pair was verified) and
`RequestOK` (what a request has shown by the time it is at a place) carry each
other: the cache is filled by verified requests, those for the PAC file included
(`StoreSound`), and verifies requests. For `PacBound` the invariant `PacOK` counts the
limiter's own windows: there is a number `k` of windows before the present one such
that an address got at most `PacLimit` in each of them and the present window's count
on top, and `k` windows with more than `Minute` between their beginnings fit between
the first moment the observer can have seen one of and the present one's beginning.

**SocksHandshakeProofs.** `DialogueLegalHolds`, `EarlyDataKeptHolds`,
`HandshakeBoundedHolds`, `DialAnsweredHolds`, for any deadline, dial timeout and amount
of data. `Told` says what a client has been sent by each stage: an answer can be missing
only if the client has left, and then so are all later ones; that is why a dialogue never
has a hole. `Counted` says how many messages each stage has taken, `OnTime` that the
deadline is armed from the first read to the dial and that the dial began before it.

**TunnelProofs.** `NeverOverchargedHolds`, `EndedCopierChargedHolds`,
`ConnectChargesInFullHolds`, `DeliveredInFullHolds`, for every kind of relay and any
amount of data. `Counts` orders what is counted, written and sent; `Tokens` equates the
tokens in `done` and those received with the copiers that are over, so a handler that has
received two knows that both counts are final; `Drained` says that a CONNECT tunnel's
connections stay open until then, so that a copier can only have stopped at the end of
its stream or because a peer went away; a write that blocks does not end its loop.

**ThrottleProofs.** `OverdraftHolds` and `BurstBoundHolds`, for any number of goroutines
on one `ThrottledConn`. The bytes moved and not yet paid for are a set of pairs
(`Unpaid`), so that their number is a cardinality. `Overdraft` is inductive with the type
invariant: whoever is let through has seen a positive bucket, and whoever pays is no
longer counted as let through. For the burst, bytes of the span plus tokens less unpaid
bytes (`Value`) grows by the refill only: moving and paying cancel out. `InWindow` bounds
it, and before the first refill within the span each goroutine has moved at most what it was
let through for earlier.

**SNIServerProofs.** `HandlersAccountedHolds`, `DrainedMeansIdleHolds`,
`SignalIsNotFatalHolds`, `DrainCompletesHolds` and `ImplementsGateHolds`, for any finite set
of connections, any capacity and any drain timeout of at least three ticks. Beyond the
properties the invariant has `HeldIsNew` (the connection the accept loop holds has no
handler yet), `SignalOrder` (context, then `s.shutdown`, then the listener), `WaitedForAll`
(once the drain is over the wait group is at zero and stays there) and `DrainAges` (a handler
that still runs has waited through every tick of the drain, and a forced end comes after
`DrainTicks` of them). Every step of a handler is a `MovesTo`: it goes to one
place, and the counters follow. The refinement is shown action by action: `InsideHolds` says
that the connections inside the gate are those that hold a token, `PlaceMoves` what a step
does to the gate's variable, and the rest is which of `Gate`'s actions it is.

**CertReloadProofs.** `TypeCorrect` and `OlderOnlyFromEarlyReloadHolds`, for any number of
generations and failed reads. `Newest` and `Loaded` keep torn and future pairs out of
`s.cert`; `LoopAhead` says that a reload of the SIGHUP goroutine that began once the server
listened reads nothing older than what clients get.

**UsersFileProofs.** `NamesUniqueHolds`, `RevokedNotServedHolds`,
`SaveTouchesOnlyChosenHolds`, for any number of sessions, users, cycles and spellings. The
properties speak of the file, the invariant (`Copy`) of every session's copy of it: its
names are unique; if it was made from a usable file it differs from the last complete save
only in the user the operation is about and in what the session has missed
(`CopyCurrent`), otherwise it holds nobody but that user (`CopyBlank`). `AddEdits`,
`RemoveEdits` and `ChangeEdits` say what the operations on the sequence of users do, by
position, and `OthersEntries` that they leave the entries of all other accounts alone; a
write adds what it has changed to what every other open session has missed
(`DifferTransitive`). `FileState` says that the file holds the last complete save or
nothing. `RevokedNotEnabled` strengthens `RevokedNotServed` from the file to the last
complete save, because a copy made of it may be written after the file is gone.

Assumptions are the named `ASSUME` of each module: bounds are naturals, deadlines,
rates and capacities not zero where the code has constants or validates them, sessions,
connections and goroutines finite in number, `Username`, `Lower` and `Fold` agree, the
users file is consistent at the start. TLC evaluates them in every run.

Only model-checked is all liveness (`ShutdownCompletes`, the closing of tunnels and
`CopiersFinish`, `ThrottleYields`, `HandshakeEnds`, `LeaverLetGo`, `SignalStops`,
`SignalledPairServed`): the prover has no rule for fairness and `ENABLED`. The other way
round, the type invariants, but for that of `CertReload`, are proved and not properties
of a run. The three counterexamples are TLC's.

`DialogueLegal` is stated by positions and not with `SelectSeq`, of which the prover
knows nothing.

## Plan

Every safety property of the runs has its theorem. What could still be proved:

1. what bounds the three divergences: how far the connection limit can be exceeded
   (by the sessions between check and entry), and what a cap is worth per spelling;
2. that `Access` implements the step `screen` of `PrivateProxy`, so that the two
   compose into one theorem about who reaches the tracker;
3. the safety half of the liveness properties: in which states each may wait, and
   which step is enabled there.

## Not modelled

* `extractSNI`, a pure function from bytes to a name: `SNIServer` has its outcomes as a
  choice, and a byte-level model would be the parser written a second time. That
  `PeekSNI` reads once, so that a split ClientHello is refused, is one of the ways `Fail`
  ends a connection.
* The windows of `stats.go`: one goroutine writes them, under a lock, and nothing
  but a JSON answer reads them. The counters that handlers touch are in `SNIServer`.
* Wire formats of HTTP and SOCKS5, header handling of plain requests, TLS, JSON and
  Prometheus output, the PAC script's text, terminal output, shell scripts and
  configuration parsing: no state that the properties tell apart.
* A reload of the users file: `LoadFromFile` runs once per process and `InvalidateUser`
  has no caller. `GenerateToken` has none either.
* `BytesUp` and `BytesDown` are kept as their sum; 64-bit counters are not modelled with
  overflow, which would take 2^63 bytes in one month. Maps that only grow (the PAC
  limiter's, the tracker's) are not modelled as a use of memory.
