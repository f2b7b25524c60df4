--------------------------- MODULE CertReloadProofs ---------------------------
(***************************************************************************)
(* For any number of renewals and failed reads: a listening server has a   *)
(* pair to hand out, and clients are given an older pair than before only  *)
(* by a reload that began too early.                                       *)
(***************************************************************************)
EXTENDS CertReload, TLAPS

-----------------------------------------------------------------------------
(***************************************************************************)
(* The inductive invariant.                                                *)
(***************************************************************************)
\* The certificate file holds the latest generation or is being copied, and
\* nothing that was read from it is newer.
Newest ==
  /\ cert \in {Torn, renewing}
  /\ current <= renewing
  /\ \A g \in Callers : job[g].cert <= renewing

\* A pair that is about to be installed is no torn one.  Start's own reload is
\* over once the server listens, and has left a pair unless Start has failed.
Loaded ==
  /\ \A g \in Callers : job[g].pc = "install" => job[g].cert # Torn
  /\ phase = "listening" => job["main"].pc = "over"
  /\ job["main"].pc = "over" /\ phase # "fatal" => current # None

\* A reload of the SIGHUP goroutine that began once the server listened has read
\* a certificate at least as new as the one that clients are given.
LoopAhead ==
  /\ phase = "loading" /\ job["loop"].pc \in {"cert", "key", "install"} => job["loop"].early
  /\ phase = "listening" /\ ~job["loop"].early /\ job["loop"].pc \in {"key", "install"}
       => job["loop"].cert = Torn \/ current <= job["loop"].cert

IInv ==
  /\ TypeOK
  /\ Newest
  /\ Loaded
  /\ LoopAhead

-----------------------------------------------------------------------------
(***************************************************************************)
(* Each kind of step keeps the invariant.                                  *)
(***************************************************************************)
\* What is known of the numbers.
LEMMA Facts ==
  ASSUME IInv
  PROVE  /\ Gens \subseteq Nat /\ 0 \notin Gens
         /\ renewing \in Nat /\ renewing > 0 /\ current \in Nat
         /\ cert \in Nat /\ key \in Nat /\ asked \in Gens \cup {None}
         /\ \A g \in Callers : job[g] \in Job /\ job[g].cert \in Nat
BY ReloadAssumption DEF IInv, TypeOK, Gens, Torn, None, Job

\* A call that begins, and a goroutine that waits.
LEMMA JobRecords ==
  ASSUME asked \in Gens \cup {None}
  PROVE  /\ Begun \in Job /\ Waiting \in Job
         /\ Begun.pc = "cert" /\ Begun.cert = Torn
         /\ Begun.early <=> phase = "loading"
         /\ Waiting.pc = "wait" /\ Waiting.cert = Torn /\ ~Waiting.early
<1>1. (phase = "loading") \in BOOLEAN
  OBVIOUS
<1> QED
  BY <1>1 DEF Begun, Waiting, Job

\* Initial states satisfy the invariant.
LEMMA IInvInit == Init => IInv
<1> SUFFICES ASSUME Init PROVE IInv
  OBVIOUS
<1>1. 1 \in Gens
  BY ReloadAssumption DEF Gens
<1>2. /\ job \in [Callers -> Job]
      /\ job["main"] = Begun /\ job["loop"] = Waiting
  BY JobRecords DEF Init, Callers
<1>3. TypeOK
  <2>1. /\ cert \in Gens \cup {Torn} /\ key \in Gens \cup {Torn} /\ renewing \in Gens
        /\ current \in Gens \cup {None} /\ asked \in Gens \cup {None} /\ sighup \in 0..1
    BY <1>1 DEF Init
  <2>2. ctxDone \in BOOLEAN
    BY DEF Init
  <2>3. phase \in {"loading", "listening", "fatal"} /\ phase # "listening"
    BY DEF Init
  <2> QED
    BY <1>2, <2>1, <2>2, <2>3, Zenon DEF TypeOK
<1>4. Newest /\ Loaded /\ LoopAhead
  BY <1>2, JobRecords DEF Init, Newest, Loaded, LoopAhead, Callers, Torn, None
<1> QED
  BY <1>3, <1>4 DEF IInv

\* A renewal touches a file: what was read before is no newer.
LEMMA CopyKeeps ==
  ASSUME IInv, CopyCert \/ CopyKey
  PROVE  IInv'
<1>1. UNCHANGED <<sighup, job, current, phase, ctxDone, asked>>
  BY DEF CopyCert, CopyKey
<1>2. /\ cert' \in {Torn, renewing'} /\ key' \in Gens \cup {Torn}
      /\ renewing' \in Gens /\ renewing <= renewing'
  BY Facts, ReloadAssumption DEF IInv, TypeOK, Newest, CopyCert, CopyKey, Gens, Torn
<1>3. TypeOK'
  BY <1>1, <1>2 DEF IInv, TypeOK
<1>4. Newest'
  BY <1>1, <1>2, Facts DEF IInv, Newest, Gens
<1>5. Loaded' /\ LoopAhead'
  BY <1>1 DEF IInv, Loaded, LoopAhead, Callers
<1> QED
  BY <1>3, <1>4, <1>5 DEF IInv

\* A signal arrives, or the context is cancelled.
LEMMA SignalKeeps ==
  ASSUME IInv, Signal \/ Cancel \/ UNCHANGED vars
  PROVE  IInv'
<1>1. UNCHANGED <<files, job, current, phase>>
  BY DEF Signal, Cancel, vars, files
<1>2. sighup' \in 0..1 /\ asked' \in Gens \cup {None}
  BY DEF IInv, TypeOK, Signal, Cancel, vars, Complete, Torn, None
<1>3. ctxDone' \in BOOLEAN
  BY DEF IInv, TypeOK, Signal, Cancel, vars
<1> QED
  BY <1>1, <1>2, <1>3 DEF IInv, TypeOK, Newest, Loaded, LoopAhead, files

\* One of the goroutines goes on with r; nothing happens to the files.
LEMMA JobKeeps ==
  ASSUME IInv, NEW g \in Callers, NEW r \in Job, job' = [job EXCEPT ![g] = r],
         UNCHANGED <<files, ctxDone>>, sighup' \in 0..1, asked' \in Gens \cup {None},
         current' \in Gens \cup {None}, current' <= renewing,
         phase' \in {"loading", "listening", "fatal"},
         phase' = "listening" => current' # None,
         r.cert <= renewing,
         r.pc = "install" => r.cert # Torn,
         Loaded', LoopAhead'
  PROVE  IInv'
<1>1. job' \in [Callers -> Job] /\ job'[g] = r /\ \A h \in Callers : h # g => job'[h] = job[h]
  BY DEF IInv, TypeOK
<1>2. TypeOK'
  BY <1>1 DEF IInv, TypeOK, files
<1>3. Newest'
  BY <1>1 DEF IInv, Newest, files
<1> QED
  BY <1>2, <1>3 DEF IInv

\* The SIGHUP goroutine takes a signal: its reload is early if the server does
\* not listen yet.
LEMMA TakeSignalKeeps ==
  ASSUME IInv, TakeSignal
  PROVE  IInv'
<1>1. PICK r \in Job : r = Begun
  BY JobRecords, Facts
<1>2. r.pc = "cert" /\ r.cert = Torn /\ (r.early <=> phase = "loading")
  BY <1>1, JobRecords, Facts
<1>3. job' = [job EXCEPT !["loop"] = r] /\ UNCHANGED <<files, current, phase, ctxDone, asked>>
  BY <1>1 DEF TakeSignal
<1>4. job'["loop"] = r /\ job'["main"] = job["main"]
  BY <1>3 DEF IInv, TypeOK, Callers
<1>5. Loaded' /\ LoopAhead'
  BY <1>2, <1>3, <1>4 DEF IInv, Loaded, LoopAhead, Callers
<1>6. sighup' \in 0..1 /\ "loop" \in Callers /\ r.cert <= renewing
  BY <1>2, Facts DEF TakeSignal, Callers, Torn
<1>7. /\ current' \in Gens \cup {None} /\ current' <= renewing /\ asked' \in Gens \cup {None}
      /\ phase' \in {"loading", "listening", "fatal"} /\ (phase' = "listening" => current' # None)
  BY <1>3 DEF IInv, TypeOK, Newest
<1> QED
  BY <1>2, <1>3, <1>5, <1>6, <1>7, JobKeeps

\* The SIGHUP goroutine ends.
LEMMA LoopEndsKeeps ==
  ASSUME IInv, LoopEnds
  PROVE  IInv'
<1>1. job["loop"] \in Job /\ job["loop"].cert <= renewing
  BY Facts DEF IInv, Newest, Callers
<1>2. PICK r : r = [job["loop"] EXCEPT !.pc = "over"]
  OBVIOUS
<1>3. r \in Job /\ r.pc = "over" /\ r.cert <= renewing
  BY <1>1, <1>2 DEF Job
<1>4. /\ job' = [job EXCEPT !["loop"] = r]
      /\ UNCHANGED <<files, sighup, current, phase, ctxDone, asked>>
  BY <1>2 DEF LoopEnds
<1>5. job'["loop"] = r /\ job'["main"] = job["main"]
  BY <1>4 DEF IInv, TypeOK, Callers
<1>6. Loaded' /\ LoopAhead'
  BY <1>3, <1>4, <1>5 DEF IInv, Loaded, LoopAhead, Callers
<1>7. /\ current' \in Gens \cup {None} /\ current' <= renewing /\ sighup' \in 0..1
      /\ asked' \in Gens \cup {None}
      /\ phase' \in {"loading", "listening", "fatal"} /\ (phase' = "listening" => current' # None)
      /\ "loop" \in Callers
  BY <1>4 DEF IInv, TypeOK, Newest, Callers
<1> QED
  BY <1>3, <1>4, <1>6, <1>7, JobKeeps

\* The certificate is read: it is the newest there is, or torn.
LEMMA ReadCertKeeps ==
  ASSUME IInv, NEW g \in Callers, ReadCert(g)
  PROVE  IInv'
<1>1. job[g] \in Job /\ job[g].pc = "cert" /\ cert \in Gens \cup {Torn} /\ cert <= renewing
  BY Facts DEF IInv, TypeOK, Newest, ReadCert, Torn
<1>2. PICK r : r = [job[g] EXCEPT !.pc = "key", !.cert = cert]
  OBVIOUS
<1>3. r \in Job /\ r.pc = "key" /\ r.cert = cert /\ r.early = job[g].early
  BY <1>1, <1>2 DEF Job
<1>4. job' = [job EXCEPT ![g] = r] /\ UNCHANGED <<files, sighup, current, phase, ctxDone, asked>>
  BY <1>2 DEF ReadCert
<1>5. job'[g] = r /\ \A h \in Callers : h # g => job'[h] = job[h]
  BY <1>4 DEF IInv, TypeOK
<1>6. Loaded'
  BY <1>1, <1>3, <1>4, <1>5 DEF IInv, Loaded, Callers
<1>7. LoopAhead'
  <2>1. cert = Torn \/ current <= cert
    BY DEF IInv, Newest
  <2> QED
    BY <1>1, <1>3, <1>4, <1>5, <2>1 DEF IInv, LoopAhead, Callers
<1>8. /\ current' \in Gens \cup {None} /\ current' <= renewing /\ sighup' \in 0..1
      /\ asked' \in Gens \cup {None}
      /\ phase' \in {"loading", "listening", "fatal"} /\ (phase' = "listening" => current' # None)
  BY <1>4 DEF IInv, TypeOK, Newest
<1> QED
  BY <1>1, <1>3, <1>4, <1>6, <1>7, <1>8, JobKeeps

\* The key matches.
LEMMA ReadKeyKeeps ==
  ASSUME IInv, NEW g \in Callers, ReadKey(g)
  PROVE  IInv'
<1>1. job[g] \in Job /\ job[g].pc = "key" /\ job[g].cert # Torn /\ job[g].cert <= renewing
  BY Facts DEF IInv, Newest, ReadKey, Match
<1>2. PICK r : r = [job[g] EXCEPT !.pc = "install"]
  OBVIOUS
<1>3. /\ r \in Job /\ r.pc = "install" /\ r.cert = job[g].cert /\ r.early = job[g].early
  BY <1>1, <1>2 DEF Job
<1>4. job' = [job EXCEPT ![g] = r] /\ UNCHANGED <<files, sighup, current, phase, ctxDone, asked>>
  BY <1>2 DEF ReadKey
<1>5. job'[g] = r /\ \A h \in Callers : h # g => job'[h] = job[h]
  BY <1>4 DEF IInv, TypeOK
<1>6. Loaded' /\ LoopAhead'
  BY <1>1, <1>3, <1>4, <1>5 DEF IInv, Loaded, LoopAhead, Callers
<1>7. /\ current' \in Gens \cup {None} /\ current' <= renewing /\ sighup' \in 0..1
      /\ asked' \in Gens \cup {None}
      /\ phase' \in {"loading", "listening", "fatal"} /\ (phase' = "listening" => current' # None)
  BY <1>4 DEF IInv, TypeOK, Newest
<1> QED
  BY <1>1, <1>3, <1>4, <1>6, <1>7, JobKeeps

\* Reload returns an error, of a read or of the pair.
LEMMA ReloadFailsKeeps ==
  ASSUME IInv, NEW g \in Callers, ReadFails(g) \/ ReloadFails(g)
  PROVE  IInv'
<1>1. job[g] \in Job /\ job[g].pc \in {"cert", "key"} /\ job[g].cert <= renewing
  BY Facts DEF IInv, Newest, ReadFails, ReloadFails
<1>2. /\ Failed(g) /\ UNCHANGED <<files, sighup, current, ctxDone>>
      /\ asked' \in {asked, None}
  BY DEF ReadFails, ReloadFails, Failed
<1>3. PICK r \in Job : /\ job' = [job EXCEPT ![g] = r]
                       /\ r.pc \in {"wait", "over"} /\ r.cert <= renewing
                       /\ \/ g = "loop" /\ r.pc = "wait" /\ UNCHANGED phase
                          \/ g = "main" /\ phase' = "fatal"
  <2>1. CASE g = "loop" /\ job' = [job EXCEPT ![g] = Waiting] /\ UNCHANGED phase
    <3>1. Waiting \in Job /\ Waiting.pc = "wait" /\ Waiting.cert <= renewing
      BY JobRecords, Facts DEF Torn
    <3> QED
      BY <2>1, <3>1
  <2>2. CASE g = "main" /\ job' = [job EXCEPT ![g].pc = "over"] /\ phase' = "fatal"
    <3>1. PICK r : r = [job[g] EXCEPT !.pc = "over"]
      OBVIOUS
    <3>2. r \in Job /\ r.pc = "over" /\ r.cert = job[g].cert
      BY <1>1, <3>1 DEF Job
    <3> QED
      BY <1>1, <2>2, <3>1, <3>2
  <2> QED
    BY <1>2, <2>1, <2>2 DEF Failed
<1>4. job'[g] = r /\ \A h \in Callers : h # g => job'[h] = job[h]
  BY <1>3 DEF IInv, TypeOK
<1>5. Loaded' /\ LoopAhead'
  BY <1>1, <1>2, <1>3, <1>4 DEF IInv, Loaded, LoopAhead, Callers
<1>6. /\ current' \in Gens \cup {None} /\ current' <= renewing /\ sighup' \in 0..1
      /\ asked' \in Gens \cup {None}
      /\ phase' \in {"loading", "listening", "fatal"} /\ (phase' = "listening" => current' # None)
  BY <1>2, <1>3 DEF IInv, TypeOK, Newest
<1> QED
  BY <1>2, <1>3, <1>5, <1>6, JobKeeps

\* The pair is installed.
LEMMA InstallKeeps ==
  ASSUME IInv, NEW g \in Callers, Install(g)
  PROVE  IInv'
<1>1. /\ job[g] \in Job /\ job[g].pc = "install" /\ job[g].cert <= renewing
      /\ job[g].cert \in Gens
  BY Facts DEF IInv, Newest, Loaded, Install, Job
<1>2. current' = job[g].cert /\ UNCHANGED <<files, sighup, phase, ctxDone, asked>>
  BY DEF Install
<1>3. PICK r \in Job : /\ job' = [job EXCEPT ![g] = r]
                       /\ r.pc \in {"wait", "over"} /\ r.cert <= renewing
                       /\ g = "loop" => r.pc = "wait"
  <2>1. CASE g # "main"
    <3>1. job' = [job EXCEPT ![g] = Waiting]
      BY <2>1 DEF Install
    <3>2. Waiting \in Job /\ Waiting.pc = "wait" /\ Waiting.cert <= renewing
      BY JobRecords, Facts DEF Torn
    <3> QED
      BY <3>1, <3>2
  <2>2. CASE g = "main"
    <3>1. PICK r : r = [job[g] EXCEPT !.pc = "over"]
      OBVIOUS
    <3>2. r \in Job /\ r.pc = "over" /\ r.cert = job[g].cert
      BY <1>1, <3>1 DEF Job
    <3>3. job' = [job EXCEPT ![g] = r]
      BY <2>2, <3>1 DEF Install
    <3> QED
      BY <1>1, <2>2, <3>2, <3>3
  <2> QED
    BY <2>1, <2>2
<1>4. job'[g] = r /\ \A h \in Callers : h # g => job'[h] = job[h]
  BY <1>3 DEF IInv, TypeOK
<1>5. current' # None
  BY <1>1, <1>2, Facts DEF None
<1>6. Loaded' /\ LoopAhead'
  BY <1>1, <1>2, <1>3, <1>4, <1>5 DEF IInv, Loaded, LoopAhead, Callers, Install
<1>7. /\ current' \in Gens \cup {None} /\ current' <= renewing /\ sighup' \in 0..1
      /\ asked' \in Gens \cup {None}
      /\ phase' \in {"loading", "listening", "fatal"}
  BY <1>1, <1>2 DEF IInv, TypeOK
<1> QED
  BY <1>2, <1>3, <1>5, <1>6, <1>7, JobKeeps

\* Start goes on to listen, with a pair.
LEMMA ListenKeeps ==
  ASSUME IInv, Listen
  PROVE  IInv'
<1>1. /\ UNCHANGED <<files, sighup, job, current, ctxDone, asked>>
      /\ phase = "loading" /\ phase' \in {"listening", "fatal"} /\ job["main"].pc = "over"
  BY DEF Listen
<1>2. current # None
  BY <1>1 DEF IInv, Loaded
<1>3. TypeOK' /\ Newest'
  BY <1>1, <1>2 DEF IInv, TypeOK, Newest, files
<1>4. Loaded' /\ LoopAhead'
  BY <1>1, <1>2 DEF IInv, Loaded, LoopAhead
<1> QED
  BY <1>3, <1>4 DEF IInv

\* Every step keeps the invariant.
LEMMA IInvNext == IInv /\ [Next]_vars => IInv'
BY CopyKeeps, SignalKeeps, TakeSignalKeeps, LoopEndsKeeps, ReadCertKeeps, ReadKeyKeeps,
   ReloadFailsKeeps, InstallKeeps, ListenKeeps
DEF Next, Reload

\* The invariant holds throughout.
LEMMA IInvHolds == Spec => []IInv
<1>1. Init => IInv
  BY IInvInit
<1>2. IInv /\ [Next]_vars => IInv'
  BY IInvNext
<1> QED
  BY <1>1, <1>2, PTL DEF Spec

-----------------------------------------------------------------------------
(***************************************************************************)
(* The theorems.                                                           *)
(***************************************************************************)
\* The variables keep their types; a listening server has a pair to hand out,
\* whatever the renewals and the order of the two reloads.
THEOREM TypeCorrect == Spec => []TypeOK
<1>1. IInv => TypeOK
  BY DEF IInv
<1> QED
  BY <1>1, IInvHolds, PTL

\* Clients are given an older pair than before only by a reload that began before
\* the server listened.
THEOREM OlderOnlyFromEarlyReloadHolds == Spec => OlderOnlyFromEarlyReload
<1>1. ASSUME IInv, [Next]_vars, phase = "listening", current' < current
      PROVE  job["loop"].early
  <2>1. PICK g \in Callers : Install(g)
    <3>1. current' # current
      BY <1>1, Facts
    <3> QED
      BY <1>1, <3>1 DEF Next, CopyCert, CopyKey, Signal, TakeSignal, LoopEnds, Cancel, Reload,
                    ReadCert, ReadKey, ReadFails, ReloadFails, Failed, Listen, vars
  <2>2. g = "loop" /\ job[g].pc = "install" /\ job[g].cert # Torn /\ current' = job[g].cert
    BY <1>1, <2>1 DEF IInv, Loaded, Install, Callers
  <2> QED
    BY <1>1, <2>2, Facts DEF IInv, LoopAhead, Callers
<1>2. IInv /\ [Next]_vars
        => [phase = "listening" /\ current' < current => job["loop"].early]_vars
  BY <1>1
<1> QED
  BY <1>2, IInvHolds, PTL DEF Spec, OlderOnlyFromEarlyReload

=============================================================================
