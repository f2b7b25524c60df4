------------------------------ MODULE CertReload ------------------------------
(***************************************************************************)
(* The certificate of the SNI proxy: Server.Reload, called by Start before *)
(* it listens and by the goroutine of runSNIProxyMode that handles SIGHUP, *)
(* which runs already then; and getCertificate, which hands out the pair.  *)
(* A renewal replaces the two files one after the other, each with a copy  *)
(* that first empties the file, and may be followed by a signal.           *)
(*                                                                         *)
(* A certificate and a key match if they are of the same generation.       *)
(***************************************************************************)
EXTENDS Integers

CONSTANT
  LastGen   \* bound: generations of the pair; the first is 1

ASSUME ReloadAssumption == LastGen \in Nat \ {0}

VARIABLES
  cert,      \* the generation in Config.CertFile, or Torn
  key,       \* the generation in Config.KeyFile, or Torn
  renewing,  \* the generation being copied to the files, or the last one that was
  sighup,    \* signals in the channel sighup, which has room for one
  job,       \* the calls of Reload by Start ("main") and by the SIGHUP goroutine
  current,   \* the pair s.cert points to, None before the first
  phase,     \* of Start: "loading", then "listening", or "fatal"
  ctxDone,   \* the context is cancelled
  asked      \* history: the last complete pair a listening server got a signal for,
             \* None if a reload that began after it could not read a file

vars == <<cert, key, renewing, sighup, job, current, phase, ctxDone, asked>>

files == <<cert, key, renewing>>

Torn == 0
None == 0

Gens == 1..LastGen

Callers == {"main", "loop"}

\* A call of Reload: what it does next and the certificate it has read.  early and
\* answers are history: it began before the server listened; asked when it began.
Job == [pc : {"wait", "cert", "key", "install", "over"}, cert : Gens \cup {Torn},
        early : BOOLEAN, answers : Gens \cup {None}]

Complete == cert = key /\ cert # Torn

Begun == [pc |-> "cert", cert |-> Torn, early |-> phase = "loading", answers |-> asked]

Waiting == [pc |-> "wait", cert |-> Torn, early |-> FALSE, answers |-> None]

Init ==
  /\ cert = 1
  /\ key = 1
  /\ renewing = 1
  /\ sighup = 0
  /\ current = None
  /\ phase = "loading"
  /\ ctxDone = FALSE
  /\ asked = None
  /\ job = [g \in Callers |-> IF g = "main" THEN Begun ELSE Waiting]

-----------------------------------------------------------------------------
(***************************************************************************)
(* A renewal copies the certificate, then the key.                         *)
(***************************************************************************)
CopyCert ==
  /\ \/ Complete /\ renewing < LastGen /\ renewing' = renewing + 1 /\ cert' = Torn
     \/ cert = Torn /\ cert' = renewing /\ UNCHANGED renewing
  /\ UNCHANGED <<key, sighup, job, current, phase, ctxDone, asked>>

CopyKey ==
  /\ cert = renewing
  /\ \/ key \in Gens /\ key < renewing /\ key' = Torn
     \/ key = Torn /\ key' = renewing
  /\ UNCHANGED <<cert, renewing, sighup, job, current, phase, ctxDone, asked>>

-----------------------------------------------------------------------------
(***************************************************************************)
(* SIGHUP.                                                                 *)
(***************************************************************************)
\* Variant of Signal: the channel has no buffer, a signal needs a receiver.
SignalUnbuffered ==
  /\ sighup' = IF job["loop"].pc = "wait" THEN 1 ELSE sighup
  /\ asked' = IF phase = "listening" /\ Complete THEN cert ELSE asked
  /\ UNCHANGED <<files, job, current, phase, ctxDone>>

\* signal.Notify does not block: a signal that finds the channel full is dropped.
Signal ==
  /\ sighup' = 1
  /\ asked' = IF phase = "listening" /\ Complete THEN cert ELSE asked
  /\ UNCHANGED <<files, job, current, phase, ctxDone>>

\* The goroutine's select: a signal, or the end.
TakeSignal ==
  /\ job["loop"].pc = "wait"
  /\ sighup = 1
  /\ sighup' = 0
  /\ job' = [job EXCEPT !["loop"] = Begun]
  /\ UNCHANGED <<files, current, phase, ctxDone, asked>>

LoopEnds ==
  /\ job["loop"].pc = "wait"
  /\ ctxDone
  /\ job' = [job EXCEPT !["loop"].pc = "over"]
  /\ UNCHANGED <<files, sighup, current, phase, ctxDone, asked>>

Cancel ==
  /\ ~ctxDone
  /\ ctxDone' = TRUE
  /\ UNCHANGED <<files, sighup, job, current, phase, asked>>

-----------------------------------------------------------------------------
(***************************************************************************)
(* Reload.                                                                 *)
(***************************************************************************)
\* LoadX509KeyPair reads the certificate file ...
ReadCert(g) ==
  /\ phase # "fatal"
  /\ job[g].pc = "cert"
  /\ job' = [job EXCEPT ![g].pc = "key", ![g].cert = cert]
  /\ UNCHANGED <<files, sighup, current, phase, ctxDone, asked>>

Match(g) == job[g].cert = key /\ key # Torn

\* ... then the key file, and finds that they match ...
ReadKey(g) ==
  /\ phase # "fatal"
  /\ job[g].pc = "key"
  /\ Match(g)
  /\ job' = [job EXCEPT ![g].pc = "install"]
  /\ UNCHANGED <<files, sighup, current, phase, ctxDone, asked>>

\* Reload returns an error: the goroutine logs it and the old pair stays, Start
\* returns it.
Failed(g) ==
  /\ \/ g = "loop" /\ job' = [job EXCEPT ![g] = Waiting] /\ UNCHANGED phase
     \/ g = "main" /\ job' = [job EXCEPT ![g].pc = "over"] /\ phase' = "fatal"
  /\ UNCHANGED <<files, sighup, current, ctxDone>>

\* ... or cannot read one of them, whatever it holds: it is missing, not permitted,
\* or there are too many open files.
ReadFails(g) ==
  /\ phase # "fatal"
  /\ job[g].pc \in {"cert", "key"}
  /\ Failed(g)
  /\ asked' = IF asked = job[g].answers THEN None ELSE asked

\* Variant of ReloadFails: the goroutine puts the pair Start has loaded back.
ReloadRollsBack(g) ==
  /\ phase # "fatal"
  /\ job[g].pc = "key"
  /\ ~Match(g)
  /\ \/ /\ g = "loop"
        /\ job' = [job EXCEPT ![g] = Waiting]
        /\ current' = job["main"].cert
        /\ UNCHANGED phase
     \/ /\ g = "main"
        /\ job' = [job EXCEPT ![g].pc = "over"]
        /\ phase' = "fatal"
        /\ UNCHANGED current
  /\ UNCHANGED <<files, sighup, ctxDone, asked>>

\* ... or finds that one cannot be parsed or that they do not match.
ReloadFails(g) ==
  /\ phase # "fatal"
  /\ job[g].pc = "key"
  /\ ~Match(g)
  /\ Failed(g)
  /\ UNCHANGED asked

\* s.cert is set, under s.mu, which is not held while the files are read.
Install(g) ==
  /\ phase # "fatal"
  /\ job[g].pc = "install"
  /\ current' = job[g].cert
  /\ job' = [job EXCEPT ![g] = IF g = "main" THEN [@ EXCEPT !.pc = "over"] ELSE Waiting]
  /\ UNCHANGED <<files, sighup, phase, ctxDone, asked>>

\* Variant of Listen: Start does not wait for its Reload.
ListenAtOnce ==
  /\ phase = "loading"
  /\ phase' \in {"listening", "fatal"}
  /\ UNCHANGED <<files, sighup, job, current, ctxDone, asked>>

\* Start goes on to tls.Listen.  From now on clients are given s.cert.
Listen ==
  /\ phase = "loading"
  /\ job["main"].pc = "over"
  /\ phase' \in {"listening", "fatal"}
  /\ UNCHANGED <<files, sighup, job, current, ctxDone, asked>>

-----------------------------------------------------------------------------
Reload(g) == ReadCert(g) \/ ReadKey(g) \/ ReadFails(g) \/ ReloadFails(g) \/ Install(g)

Next ==
  \/ CopyCert \/ CopyKey
  \/ Signal \/ TakeSignal \/ LoopEnds \/ Cancel
  \/ \E g \in Callers : Reload(g)
  \/ Listen

Spec == Init /\ [][Next]_vars

\* Both goroutines are scheduled.  No renewal has to end or to be signalled, and no
\* read has to succeed.
Fairness ==
  /\ \A g \in Callers : WF_vars(Reload(g))
  /\ WF_vars(TakeSignal)

FairSpec == Spec /\ Fairness

-----------------------------------------------------------------------------
TypeOK ==
  /\ cert \in Gens \cup {Torn}
  /\ key \in Gens \cup {Torn}
  /\ renewing \in Gens
  /\ sighup \in 0..1
  /\ job \in [Callers -> Job]
  /\ current \in Gens \cup {None}
  /\ phase \in {"loading", "listening", "fatal"}
  /\ phase = "listening" => current # None
  /\ ctxDone \in BOOLEAN
  /\ asked \in Gens \cup {None}

\* A listening server that is signalled after a renewal comes to serve the renewed
\* pair, also if the signal arrives in the middle of a reload, even of one that
\* fails, or finds the channel full, unless a reload that began after it cannot
\* read a file, the next renewal begins or the process is told to stop.
SignalledPairServed ==
  \A g \in Gens : asked = g /\ cert = g /\ key = g
                    ~> current >= g \/ asked = None \/ renewing > g \/ ctxDone

\* Clients are given an older pair than before only by a reload that began before
\* the server listened: it read its files while Start was reading them, and the
\* two may set s.cert in either order.
OlderOnlyFromEarlyReload ==
  [][phase = "listening" /\ current' < current => job["loop"].early]_vars

=============================================================================
