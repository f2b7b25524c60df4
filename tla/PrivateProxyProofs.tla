-------------------------- MODULE PrivateProxyProofs --------------------------
(***************************************************************************)
(* For any keys, sessions, accounts, spellings and limits: the tracker     *)
(* conserves the usage of the month through resets, saves, failed writes,  *)
(* crashes and restarts; the private mode calls it as it expects to be     *)
(* called, and so inherits that; no slot is leaked; and the monthly cap of *)
(* an account with one spelling is exceeded by at most the sessions in     *)
(* flight.                                                                 *)
(***************************************************************************)
EXTENDS PrivateProxy, FiniteSetTheorems, TLAPS

-----------------------------------------------------------------------------
(***************************************************************************)
(* The tracker.  TypeOK, BytesConserved and DiskNeverAhead are inductive   *)
(* together: DiskNeverAhead says that a crash can only lose bytes, and     *)
(* that no file and no tracker is of a month still to come.                *)
(***************************************************************************)
TrackerInv == TrackerTypeOK /\ BytesConserved /\ DiskNeverAhead

\* No usage at all is a usage, and so is what an unreadable file stands for.
LEMMA ZeroType == Zero \in Usage /\ Unreadable \in Files
<1>1. Zero \in Usage
  BY DEF Zero, Usage
<1>2. Unreadable \in Files
  BY <1>1 DEF Unreadable, Files
<1> QED
  BY <1>1, <1>2

\* No usage is zero for every key.
LEMMA ZeroAt == \A k \in Keys : Zero[k] = 0
BY DEF Zero

\* The totals loadFromDisk restores from a file are a usage.
LEMMA RestoredType ==
  ASSUME NEW STATE d, d \in Files
  PROVE  Restored(d) \in Usage
BY ZeroType DEF Restored, Files

\* So are the totals after checkMonthlyReset.
LEMMA TotalsNowType ==
  ASSUME TrackerTypeOK
  PROVE  TotalsNow \in Usage
BY ZeroType DEF TotalsNow, TrackerTypeOK

\* TrackerInit establishes the invariant.
LEMMA TrackerInitInv == TrackerInit => TrackerInv
<1> SUFFICES ASSUME TrackerInit PROVE TrackerInv
  OBVIOUS
<1>1. TrackerTypeOK
  BY ZeroType DEF TrackerInit, TrackerTypeOK
<1>2. Restored(disk) = Zero /\ Charged = Zero
  BY DEF TrackerInit, Restored, Charged, TotalsNow, Unreadable
<1>3. BytesConserved
  <2>1. ASSUME NEW k \in Keys PROVE Charged[k] + lost[k] = carried[k]
    <3>1. Charged[k] = 0 /\ lost[k] = 0 /\ carried[k] = 0
      BY <1>2, ZeroAt DEF TrackerInit
    <3> QED
      BY <3>1
  <2> QED
    BY <2>1 DEF BytesConserved
<1>4. DiskNeverAhead
  BY <1>2, ZeroAt DEF TrackerInit, DiskNeverAhead, Unreadable
<1> QED
  BY <1>1, <1>3, <1>4 DEF TrackerInv

\* What a save of usage t of month m leaves on the disk is a file.
LEMMA SaveType ==
  ASSUME TrackerTypeOK, NEW STATE m, m \in Nat, NEW STATE t, t \in Usage,
         saveToDiskLocked(m, t)
  PROVE  disk' \in Files
<1>1. File(m, t, conns) \in Files
  BY DEF File, Files, TrackerTypeOK
<1> QED
  BY <1>1, ZeroType DEF saveToDiskLocked, TrackerTypeOK

\* A save takes place in memory of month m = clock or earlier, and writes no
\* more than the usage t, which is all that is charged.
LEMMA SaveNotAhead ==
  ASSUME TrackerTypeOK, clock' = clock, NEW STATE m, m \in Nat, NEW STATE t, t \in Usage,
         saveToDiskLocked(m, t),
         m <= clock, disk.readable => disk.month <= m,
         NEW STATE u, u \in Usage,
         m = clock => t = u,
         \A k \in Keys : Restored(disk)[k] <= u[k]
  PROVE  /\ disk'.readable => disk'.month <= m
         /\ \A k \in Keys : Restored(disk)'[k] <= u[k]
<1>1. CASE disk' = File(m, t, conns)
  <2>1. disk'.readable /\ disk'.month = m /\ disk'.total = t
    BY <1>1 DEF File
  <2>2. Restored(disk)' = IF m = clock THEN t ELSE Zero
    BY <2>1 DEF Restored
  <2>3. \A k \in Keys : u[k] \in Nat
    BY DEF Usage
  <2> QED
    BY <2>1, <2>2, <2>3, ZeroAt
<1>2. CASE disk' = Unreadable
  <2>1. ~disk'.readable
    BY <1>2 DEF Unreadable
  <2>2. Restored(disk)' = Zero
    BY <2>1 DEF Restored
  <2>3. \A k \in Keys : u[k] \in Nat
    BY DEF Usage
  <2> QED
    BY <2>1, <2>2, <2>3, ZeroAt
<1>3. CASE disk' = disk
  BY <1>3 DEF Restored
<1> QED
  BY <1>1, <1>2, <1>3 DEF saveToDiskLocked

\* checkMonthlyReset leaves a tracker of the current month, and a file that is
\* not ahead of it.
LEMMA ResetNotAhead ==
  ASSUME TrackerInv, phase # "down", clock' = clock, checkMonthlyReset
  PROVE  /\ month' = clock
         /\ disk' \in Files
         /\ disk'.readable => disk'.month <= month'
         /\ \A k \in Keys : Restored(disk)'[k] <= TotalsNow[k]
<1>1. Charged = TotalsNow
  BY DEF Charged
<1>2. month' = clock /\ month \in Nat /\ clock \in Nat /\ disk \in Files
  BY DEF checkMonthlyReset, TrackerInv, TrackerTypeOK
<1>3. /\ month <= clock
      /\ disk.readable => disk.month <= month
      /\ \A k \in Keys : Restored(disk)[k] <= TotalsNow[k]
  BY <1>1 DEF TrackerInv, DiskNeverAhead
<1>4. CASE month = clock /\ UNCHANGED disk
  BY <1>2, <1>3, <1>4 DEF Restored
<1>5. CASE month # clock /\ saveToDiskLocked(clock, Zero)
  <2>1. disk' \in Files
    BY <1>2, <1>5, SaveType, ZeroType DEF TrackerInv
  <2>2. TotalsNow = Zero
    BY <1>5 DEF TotalsNow
  <2>3. disk.readable => disk.month <= clock
    BY <1>2, <1>3 DEF Files
  <2>4. \A k \in Keys : Restored(disk)[k] <= Zero[k]
    BY <1>3, <2>2
  <2>5. /\ disk'.readable => disk'.month <= clock
        /\ \A k \in Keys : Restored(disk)'[k] <= Zero[k]
    BY <1>2, <1>5, <2>3, <2>4, ZeroType, SaveNotAhead DEF TrackerInv
  <2> QED
    BY <1>2, <2>1, <2>2, <2>5
<1> QED
  BY <1>4, <1>5 DEF checkMonthlyReset

\* The invariant depends on conns by its type only.
LEMMA ConnsStep ==
  ASSUME TrackerInv, conns' \in Usage,
         UNCHANGED <<phase, total, month, clock, disk, carried, lost>>
  PROVE  TrackerInv'
BY DEF TrackerInv, TrackerTypeOK, BytesConserved, DiskNeverAhead, Charged,
       TotalsNow, Restored

\* RecordBytes adds the same to the charged and to the carried bytes.
LEMMA RecordBytesStep ==
  ASSUME TrackerInv, NEW k \in Keys, NEW n \in Amounts, RecordBytes(k, n)
  PROVE  TrackerInv'
<1> USE DEF TrackerInv
<1>1. /\ phase # "down" /\ phase' = phase /\ clock' = clock /\ lost' = lost
      /\ total' = [TotalsNow EXCEPT ![k] = @ + n]
      /\ carried' = [carried EXCEPT ![k] = @ + n]
      /\ conns' = conns
  BY DEF RecordBytes
<1>2. /\ month' = clock
      /\ disk' \in Files
      /\ disk'.readable => disk'.month <= month'
      /\ \A j \in Keys : Restored(disk)'[j] <= TotalsNow[j]
  BY <1>1, ResetNotAhead DEF RecordBytes
<1>3. n \in Nat
  BY TrackerAssumption DEF Amounts
<1>4. TotalsNow \in Usage /\ carried \in Usage /\ lost \in Usage
  BY TotalsNowType DEF TrackerTypeOK
<1>5. total' \in Usage /\ carried' \in Usage
  BY <1>1, <1>3, <1>4 DEF Usage
<1>6. TrackerTypeOK'
  BY <1>1, <1>2, <1>5 DEF TrackerTypeOK
<1>7. Charged' = total'
  BY <1>1, <1>2 DEF Charged, TotalsNow
<1>8. \A j \in Keys : TotalsNow[j] + lost[j] = carried[j]
  BY <1>1 DEF BytesConserved, Charged
<1>9. BytesConserved'
  <2> SUFFICES ASSUME NEW j \in Keys PROVE (Charged')[j] + lost'[j] = carried'[j]
    BY DEF BytesConserved
  <2>1. total'[j] = (IF j = k THEN TotalsNow[j] + n ELSE TotalsNow[j])
    BY <1>1, <1>4 DEF Usage
  <2>2. carried'[j] = (IF j = k THEN carried[j] + n ELSE carried[j])
    BY <1>1, <1>4 DEF Usage
  <2>3. TotalsNow[j] \in Nat /\ lost[j] \in Nat /\ carried[j] \in Nat
    BY <1>4 DEF Usage
  <2> QED
    BY <1>1, <1>3, <1>7, <1>8, <2>1, <2>2, <2>3
<1>10. DiskNeverAhead'
  <2>1. ASSUME NEW j \in Keys PROVE Restored(disk)'[j] <= (Charged')[j]
    <3>1. total'[j] = (IF j = k THEN TotalsNow[j] + n ELSE TotalsNow[j])
      BY <1>1, <1>4 DEF Usage
    <3>2. Restored(disk)' \in Usage
      BY <1>2, ZeroType DEF Restored, Files
    <3>3. TotalsNow[j] \in Nat /\ Restored(disk)'[j] \in Nat
      BY <1>4, <3>2 DEF Usage
    <3> QED
      BY <1>2, <1>3, <1>7, <3>1, <3>3
  <2>2. month' <= clock'
    BY <1>1, <1>2, <1>6 DEF TrackerTypeOK
  <2> QED
    BY <1>2, <2>1, <2>2 DEF DiskNeverAhead
<1> QED
  BY <1>6, <1>9, <1>10

\* CheckAllowance changes what is charged in no way.
LEMMA CheckAllowanceStep ==
  ASSUME TrackerInv, NEW k \in Keys, NEW limit \in Limits, NEW ok \in BOOLEAN,
         CheckAllowance(k, limit, ok)
  PROVE  TrackerInv'
<1> USE DEF TrackerInv
<1>1. UNCHANGED <<phase, conns, clock, carried, lost>> /\ phase # "down"
  BY DEF CheckAllowance
<1>2. CASE UNCHANGED <<total, month, disk>>
  BY <1>1, <1>2, ConnsStep DEF TrackerTypeOK
<1>3. CASE checkMonthlyReset /\ total' = TotalsNow
  <2>1. /\ month' = clock
        /\ disk' \in Files
        /\ disk'.readable => disk'.month <= month'
        /\ \A j \in Keys : Restored(disk)'[j] <= TotalsNow[j]
    BY <1>1, <1>3, ResetNotAhead
  <2>2. TrackerTypeOK'
    BY <1>1, <1>3, <2>1, TotalsNowType DEF TrackerTypeOK
  <2>3. Charged' = TotalsNow /\ Charged = TotalsNow
    BY <1>1, <1>3, <2>1 DEF Charged, TotalsNow
  <2>4. BytesConserved'
    BY <1>1, <2>3 DEF BytesConserved
  <2>5. month' <= clock'
    BY <1>1, <2>1, <2>2 DEF TrackerTypeOK
  <2>6. DiskNeverAhead'
    BY <2>1, <2>3, <2>5 DEF DiskNeverAhead
  <2> QED
    BY <2>2, <2>4, <2>6
<1> QED
  BY <1>2, <1>3 DEF CheckAllowance

\* A save with the tracker's own month and totals, whatever becomes of it,
\* changes what is charged in no way; Stop is such a step.
LEMMA SaveStep ==
  ASSUME TrackerInv, phase # "down", phase' \in {"up", "stopped"},
         saveToDiskLocked(month, total),
         UNCHANGED <<total, conns, month, clock, carried, lost>>
  PROVE  TrackerInv'
<1> USE DEF TrackerInv
<1>1. TotalsNow \in Usage /\ month \in Nat /\ total \in Usage /\ disk \in Files
  BY TotalsNowType DEF TrackerTypeOK
<1>2. TrackerTypeOK'
  BY <1>1, SaveType DEF TrackerTypeOK
<1>3. Charged = TotalsNow /\ Charged' = TotalsNow
  BY DEF Charged, TotalsNow
<1>4. BytesConserved'
  BY <1>3 DEF BytesConserved
<1>5. /\ month <= clock
      /\ disk.readable => disk.month <= month
      /\ \A k \in Keys : Restored(disk)[k] <= TotalsNow[k]
  BY <1>3 DEF DiskNeverAhead
<1>6. month = clock => total = TotalsNow
  BY DEF TotalsNow
<1>7. /\ disk'.readable => disk'.month <= month
      /\ \A k \in Keys : Restored(disk)'[k] <= TotalsNow[k]
  BY <1>1, <1>5, <1>6, SaveNotAhead
<1>8. DiskNeverAhead'
  BY <1>3, <1>5, <1>7 DEF DiskNeverAhead
<1> QED
  BY <1>2, <1>4, <1>8

\* A process that ends moves the bytes no file holds from charged to lost.
LEMMA ProcessEndsStep ==
  ASSUME TrackerInv, ProcessEnds
  PROVE  TrackerInv'
<1> USE DEF TrackerInv
<1>1. /\ phase # "down" /\ phase' = "down"
      /\ disk' \in {disk, Unreadable}
      /\ lost' = [k \in Keys |-> lost[k] + (TotalsNow[k] - Restored(disk')[k])]
      /\ total' = Zero /\ conns' = Zero
      /\ month' = month /\ clock' = clock /\ carried' = carried
  BY DEF ProcessEnds
<1>2. TotalsNow \in Usage /\ lost \in Usage /\ carried \in Usage /\ disk \in Files
  BY TotalsNowType DEF TrackerTypeOK
<1>3. Restored(disk') = Restored(disk)'
  BY <1>1 DEF Restored
<1>4. disk' \in Files /\ (disk'.readable => disk'.month <= month')
  <2>1. disk' \in Files
    BY <1>1, <1>2, ZeroType
  <2>2. disk.readable => disk.month <= month
    BY DEF DiskNeverAhead
  <2>3. ~Unreadable.readable
    BY DEF Unreadable
  <2> QED
    BY <1>1, <2>1, <2>2, <2>3
<1>5. \A k \in Keys : Restored(disk')[k] <= TotalsNow[k]
  <2>1. \A k \in Keys : Restored(disk)[k] <= TotalsNow[k]
    BY <1>1 DEF DiskNeverAhead, Charged
  <2>2. \A k \in Keys : 0 <= TotalsNow[k]
    BY <1>2 DEF Usage
  <2>3. disk' = Unreadable => Restored(disk') = Zero
    BY DEF Restored, Unreadable
  <2> QED
    BY <1>1, <2>1, <2>2, <2>3, ZeroAt
<1>6. Restored(disk') \in Usage
  BY <1>4, ZeroType DEF Restored, Files
<1>7. \A k \in Keys : /\ TotalsNow[k] \in Nat /\ Restored(disk')[k] \in Nat
                      /\ lost[k] \in Nat /\ carried[k] \in Nat
  BY <1>2, <1>6 DEF Usage
<1>8. \A k \in Keys : lost'[k] = lost[k] + (TotalsNow[k] - Restored(disk')[k])
  BY <1>1
<1>9. \A k \in Keys : lost'[k] \in Nat
  BY <1>5, <1>7, <1>8
<1>10. lost' \in Usage
  BY <1>1, <1>9 DEF Usage
<1>11. TrackerTypeOK'
  BY <1>1, <1>4, <1>10, ZeroType DEF TrackerTypeOK
<1>12. Charged' = Restored(disk')
  BY <1>1, <1>3 DEF Charged
<1>13. \A k \in Keys : TotalsNow[k] + lost[k] = carried[k]
  BY <1>1 DEF BytesConserved, Charged
<1>14. BytesConserved'
  BY <1>1, <1>7, <1>8, <1>12, <1>13 DEF BytesConserved
<1>15. month' <= clock'
  BY <1>1 DEF DiskNeverAhead
<1>16. DiskNeverAhead'
  BY <1>3, <1>4, <1>7, <1>12, <1>15 DEF DiskNeverAhead
<1> QED
  BY <1>11, <1>14, <1>16

\* A start charges what the file holds.
LEMMA NewTrackerStep ==
  ASSUME TrackerInv, NewTracker
  PROVE  TrackerInv'
<1> USE DEF TrackerInv
<1>1. /\ phase = "down" /\ phase' = "up" /\ month' = clock
      /\ total' = Restored(disk) /\ conns' = Zero
      /\ UNCHANGED <<clock, disk, carried, lost>>
  BY DEF NewTracker
<1>2. disk \in Files /\ clock \in Nat /\ month \in Nat
  BY DEF TrackerTypeOK
<1>3. Restored(disk) \in Usage
  BY <1>2, RestoredType
<1>4. TrackerTypeOK'
  BY <1>1, <1>3, ZeroType DEF TrackerTypeOK
<1>5. Charged' = Restored(disk) /\ Charged = Restored(disk)
  BY <1>1 DEF Charged, TotalsNow
<1>6. BytesConserved'
  BY <1>1, <1>5 DEF BytesConserved
<1>7. Restored(disk)' = Restored(disk)
  BY <1>1 DEF Restored
<1>8. \A k \in Keys : Restored(disk)[k] \in Nat
  BY <1>3 DEF Usage
<1>9. disk'.readable => disk'.month <= month'
  BY <1>1, <1>2 DEF DiskNeverAhead, Files
<1>10. DiskNeverAhead'
  BY <1>1, <1>2, <1>5, <1>7, <1>8, <1>9 DEF DiskNeverAhead
<1> QED
  BY <1>4, <1>6, <1>10

\* A new month starts with nothing charged: memory and file are of the past.
LEMMA MonthPassesStep ==
  ASSUME TrackerInv, MonthPasses
  PROVE  TrackerInv'
<1> USE DEF TrackerInv
<1>1. /\ clock' = clock + 1 /\ carried' = Zero /\ lost' = Zero
      /\ UNCHANGED <<phase, total, conns, month, disk>>
  BY DEF MonthPasses
<1>2. clock \in Nat /\ month \in Nat /\ disk \in Files
  BY DEF TrackerTypeOK
<1>3. TrackerTypeOK'
  BY <1>1, <1>2, ZeroType DEF TrackerTypeOK
<1>4. month' # clock' /\ month' <= clock' /\ (disk.readable => disk.month # clock')
  BY <1>1, <1>2 DEF DiskNeverAhead, Files
<1>5. Restored(disk)' = Zero
  BY <1>1, <1>4 DEF Restored
<1>6. Charged' = Zero
  BY <1>4, <1>5 DEF Charged, TotalsNow
<1>7. BytesConserved'
  BY <1>1, <1>6, ZeroAt DEF BytesConserved
<1>8. disk'.readable => disk'.month <= month'
  BY <1>1 DEF DiskNeverAhead
<1>9. DiskNeverAhead'
  BY <1>4, <1>5, <1>6, <1>8, ZeroAt DEF DiskNeverAhead
<1> QED
  BY <1>3, <1>7, <1>9

\* Every step of the tracker keeps the invariant.
LEMMA TrackerNextInv ==
  ASSUME TrackerInv, [TrackerNext]_trackerVars
  PROVE  TrackerInv'
<1>1. ASSUME NEW k \in Keys, NEW n \in Amounts, RecordBytes(k, n)
      PROVE  TrackerInv'
  BY <1>1, RecordBytesStep
<1>2. ASSUME NEW k \in Keys, NEW limit \in Limits, NEW ok \in BOOLEAN,
             CheckAllowance(k, limit, ok)
      PROVE  TrackerInv'
  BY <1>2, CheckAllowanceStep
<1>3. ASSUME NEW k \in Keys, IncrementConns(k)
      PROVE  TrackerInv'
  <2>1. conns' \in Usage
    BY <1>3 DEF IncrementConns, TrackerInv, TrackerTypeOK, Usage
  <2> QED
    BY <1>3, <2>1, ConnsStep DEF IncrementConns
<1>4. ASSUME NEW k \in Keys, DecrementConns(k)
      PROVE  TrackerInv'
  <2>1. conns' \in Usage
    BY <1>4 DEF DecrementConns, TrackerInv, TrackerTypeOK, Usage
  <2> QED
    BY <1>4, <2>1, ConnsStep DEF DecrementConns
<1>5. ASSUME BackgroundSave PROVE TrackerInv'
  BY <1>5, SaveStep DEF BackgroundSave
<1>6. ASSUME Stop PROVE TrackerInv'
  BY <1>6, SaveStep DEF Stop
<1>7. ASSUME UNCHANGED trackerVars PROVE TrackerInv'
  BY <1>7, ConnsStep DEF trackerVars, TrackerInv, TrackerTypeOK
<1> QED
  BY <1>1, <1>2, <1>3, <1>4, <1>5, <1>6, <1>7, ProcessEndsStep, NewTrackerStep,
     MonthPassesStep DEF TrackerNext

\* Every state of the tracker satisfies the invariant, with any keys, any
\* limits and any sequence of calls, failed writes, crashes and restarts.
THEOREM TrackerSafe == TrackerSpec => []TrackerInv
<1>1. TrackerInit => TrackerInv
  BY TrackerInitInv
<1>2. TrackerInv /\ [TrackerNext]_trackerVars => TrackerInv'
  BY TrackerNextInv
<1> QED
  BY <1>1, <1>2, PTL DEF TrackerSpec

\* Types of the tracker's state.
THEOREM TrackerTypeCorrect == TrackerSpec => []TrackerTypeOK
<1>1. TrackerInv => TrackerTypeOK
  BY DEF TrackerInv
<1> QED
  BY <1>1, TrackerSafe, PTL

\* Bytes recorded are charged exactly once, up to those lost with a process.
THEOREM TrackerConservesBytes == TrackerSpec => []BytesConserved
<1>1. TrackerInv => BytesConserved
  BY DEF TrackerInv
<1> QED
  BY <1>1, TrackerSafe, PTL

\* The usage file is never ahead of memory.
THEOREM TrackerDiskNeverAhead == TrackerSpec => []DiskNeverAhead
<1>1. TrackerInv => DiskNeverAhead
  BY DEF TrackerInv
<1> QED
  BY <1>1, TrackerSafe, PTL

-----------------------------------------------------------------------------
(***************************************************************************)
(* The private mode.                                                       *)
(***************************************************************************)
\* The part of TypeOK that is about the proxy's own variables.
SessTypeOK ==
  /\ sess \in [Sessions -> Session \cup {Idle}]
  /\ open \subseteq Ports
  /\ ctxDone \in BOOLEAN

\* What is known of a session that is at a place of the handler.
LEMMA SessionFacts ==
  ASSUME SessTypeOK, NEW s \in Sessions, sess[s].pc # "idle"
  PROVE  /\ sess[s] \in Session
         /\ sess[s].login \in Keys
         /\ Account(s) \in Accounts
         /\ EntryKey(s) \in Keys
         /\ LimitBytes[Account(s)] \in Limits
<1>1. sess[s] \in Session
  BY DEF SessTypeOK, Idle
<1>2. sess[s].login \in Keys
  BY <1>1 DEF Session
<1>3. Account(s) \in Accounts
  BY <1>2, ProxyAssumption DEF Account
<1> QED
  BY <1>1, <1>2, <1>3, ProxyAssumption DEF EntryKey

\* A session that moves on to another place stays a session.
LEMMA GoToType ==
  ASSUME SessTypeOK, NEW s \in Sessions, sess[s].pc # "idle", NEW p \in Places,
         GoTo(s, p)
  PROVE  sess' \in [Sessions -> Session \cup {Idle}]
<1>1. sess[s] \in Session
  BY SessionFacts
<1>2. [sess[s] EXCEPT !.pc = p] \in Session
  BY <1>1 DEF Session
<1> QED
  BY <1>2 DEF GoTo, SessTypeOK

\* So does one that ends.
LEMMA EndType ==
  ASSUME SessTypeOK, NEW s \in Sessions, End(s)
  PROVE  sess' \in [Sessions -> Session \cup {Idle}]
BY DEF End, SessTypeOK

\* Initial states are typed.
LEMMA SessTypeInit == Init => SessTypeOK
BY DEF Init, SessTypeOK, ListeningPorts, Ports

\* Every step keeps the types.
LEMMA SessTypeNext ==
  ASSUME SessTypeOK, [Next]_vars
  PROVE  SessTypeOK'
<1>1. ASSUME NEW s \in Sessions, NEW p \in Ports, NEW n \in Keys, Accept(s, p, n)
      PROVE  SessTypeOK'
  <2>1. [pc |-> "screen", port |-> p, login |-> n] \in Session
    BY DEF Session, Places
  <2> QED
    BY <1>1, <2>1 DEF Accept, SessTypeOK
<1>2. ASSUME NEW s \in Sessions, Reject(s) PROVE SessTypeOK'
  BY <1>2, EndType DEF Reject, SessTypeOK
<1>3. ASSUME NEW s \in Sessions, Screen(s) PROVE SessTypeOK'
  BY <1>3, GoToType DEF Screen, SessTypeOK, At, Places
<1>4. ASSUME NEW s \in Sessions, CheckQuota(s) PROVE SessTypeOK'
  BY <1>4, GoToType, EndType DEF CheckQuota, SessTypeOK, At, Places
<1>5. ASSUME NEW s \in Sessions, CheckSlots(s) PROVE SessTypeOK'
  BY <1>5, GoToType, EndType DEF CheckSlots, SessTypeOK, At, Places
<1>6. ASSUME NEW s \in Sessions, Enter(s) PROVE SessTypeOK'
  BY <1>6, GoToType DEF Enter, SessTypeOK, At, Places
<1>7. ASSUME NEW s \in Sessions, RelayFails(s) PROVE SessTypeOK'
  BY <1>7, GoToType DEF RelayFails, SessTypeOK, At, Places
<1>8. ASSUME NEW s \in Sessions, NEW n \in Amounts, RelayEnds(s, n) PROVE SessTypeOK'
  BY <1>8, GoToType DEF RelayEnds, SessTypeOK, At, Places
<1>9. ASSUME NEW s \in Sessions, Leave(s) PROVE SessTypeOK'
  BY <1>9, EndType DEF Leave, SessTypeOK
<1>10. ASSUME \/ Cancel \/ SocksStops \/ HttpShutdown \/ HttpsShutdown \/ HttpsServeEnds
              \/ MainReturns \/ Background \/ UNCHANGED vars
       PROVE  SessTypeOK'
  BY <1>10 DEF Cancel, SocksStops, HttpShutdown, HttpsShutdown, HttpsServeEnds, MainReturns,
               Background, vars, SessTypeOK
<1>11. ASSUME Crash PROVE SessTypeOK'
  BY <1>11 DEF Crash, SessTypeOK
<1>12. ASSUME Restart PROVE SessTypeOK'
  BY <1>12 DEF Restart, SessTypeOK, ListeningPorts, Ports
<1> QED
  BY <1>1, <1>2, <1>3, <1>4, <1>5, <1>6, <1>7, <1>8, <1>9, <1>10, <1>11, <1>12
  DEF Next

\* Every step of the proxy is a call the tracker allows, or no call at all.
LEMMA TrackerStep ==
  ASSUME SessTypeOK, [Next]_vars
  PROVE  [TrackerNext]_trackerVars
<1>1. ASSUME NEW s \in Sessions, CheckQuota(s) PROVE TrackerNext
  <2>1. sess[s].login \in Keys /\ LimitBytes[Account(s)] \in Limits
    BY <1>1, SessionFacts DEF CheckQuota, At
  <2> QED
    BY <1>1, <2>1 DEF CheckQuota, TrackerNext
<1>2. ASSUME NEW s \in Sessions, Enter(s) PROVE TrackerNext
  <2>1. EntryKey(s) \in Keys
    BY <1>2, SessionFacts DEF Enter, At
  <2> QED
    BY <1>2, <2>1 DEF Enter, TrackerNext
<1>3. ASSUME NEW s \in Sessions, NEW n \in Amounts, RelayEnds(s, n) PROVE TrackerNext
  <2>1. EntryKey(s) \in Keys
    BY <1>3, SessionFacts DEF RelayEnds, At
  <2> QED
    BY <1>3, <2>1 DEF RelayEnds, TrackerNext
<1>4. ASSUME NEW s \in Sessions, Leave(s) PROVE TrackerNext
  <2>1. EntryKey(s) \in Keys
    BY <1>4, SessionFacts DEF Leave, At
  <2> QED
    BY <1>4, <2>1 DEF Leave, TrackerNext
<1>5. ASSUME MainReturns \/ Crash \/ Restart \/ Background PROVE TrackerNext
  BY <1>5 DEF MainReturns, Crash, Restart, Background, TrackerNext
<1>6. ASSUME NEW s \in Sessions,
             \/ \E p \in Ports, n \in Keys : Accept(s, p, n)
             \/ Reject(s) \/ Screen(s) \/ CheckSlots(s) \/ RelayFails(s)
      PROVE  UNCHANGED trackerVars
  BY <1>6 DEF Accept, Reject, Screen, CheckSlots, RelayFails
<1>7. ASSUME \/ Cancel \/ SocksStops \/ HttpShutdown \/ HttpsShutdown \/ HttpsServeEnds
             \/ UNCHANGED vars
      PROVE  UNCHANGED trackerVars
  BY <1>7 DEF Cancel, SocksStops, HttpShutdown, HttpsShutdown, HttpsServeEnds, vars
<1> QED
  BY <1>1, <1>2, <1>3, <1>4, <1>5, <1>6, <1>7 DEF Next

\* Types of the proxy's own variables.
THEOREM ProxySessionsTyped == Spec => []SessTypeOK
<1>1. SessTypeOK /\ [Next]_vars => SessTypeOK'
  BY SessTypeNext
<1> QED
  BY <1>1, SessTypeInit, PTL DEF Spec

\* What the sessions, the shutdown and a crash do to the tracker are its own
\* operations, so that what the tracker promises holds of the whole.
LEMMA ProxyImplementsTracker == Spec => TrackerSpec
<1>1. Init => TrackerInit
  BY DEF Init
<1>2. SessTypeOK /\ [Next]_vars => [TrackerNext]_trackerVars
  BY TrackerStep
<1> QED
  BY <1>1, <1>2, ProxySessionsTyped, PTL DEF Spec, TrackerSpec

\* Types of the whole state.
THEOREM ProxyTypeCorrect == Spec => []TypeOK
<1>1. SessTypeOK /\ TrackerTypeOK => TypeOK
  BY DEF SessTypeOK, TypeOK
<1> QED
  BY <1>1, ProxySessionsTyped, ProxyImplementsTracker, TrackerTypeCorrect, PTL

\* No interleaving of sessions, shutdown and crashes loses or repeats a byte
\* other than those in no readable file when the process ends.
THEOREM ProxyConservesBytes == Spec => []BytesConserved
BY ProxyImplementsTracker, TrackerConservesBytes, PTL

\* Whatever sessions, shutdown and crashes do, no usage file raises a user's usage
\* when loadFromDisk restores it.
THEOREM ProxyDiskNeverAhead == Spec => []DiskNeverAhead
BY ProxyImplementsTracker, TrackerDiskNeverAhead, PTL

-----------------------------------------------------------------------------
(***************************************************************************)
(* How the groups of sessions change.                                      *)
(***************************************************************************)
\* A session that moves on joins, stays in or leaves the group of its key.
LEMMA GroupGoTo ==
  ASSUME SessTypeOK, NEW s \in Sessions, sess[s].pc # "idle",
         NEW p \in Places, GoTo(s, p), NEW P, NEW k
  PROVE  Group(P, k)' = IF p \in P /\ EntryKey(s) = k
                          THEN Group(P, k) \cup {s}
                          ELSE Group(P, k) \ {s}
<1>1. sess[s] \in Session
  BY SessionFacts
<1>2. sess'[s] = [sess[s] EXCEPT !.pc = p]
  BY DEF GoTo, SessTypeOK
<1>3. sess'[s].pc = p /\ sess'[s].port = sess[s].port /\ sess'[s].login = sess[s].login
  BY <1>1, <1>2 DEF Session
<1>4. \A t \in Sessions : t # s => sess'[t] = sess[t]
  BY DEF GoTo, SessTypeOK
<1>5. \A t \in Sessions : t # s => EntryKey(t)' = EntryKey(t)
  BY <1>4 DEF EntryKey, Account
<1>6. EntryKey(s)' = EntryKey(s)
  BY <1>3 DEF EntryKey, Account
<1> QED
  BY <1>3, <1>4, <1>5, <1>6 DEF Group

\* A session that ends is in no group of handlers.
LEMMA GroupEnd ==
  ASSUME SessTypeOK, NEW s \in Sessions, End(s), NEW P, "idle" \notin P, NEW k
  PROVE  Group(P, k)' = Group(P, k) \ {s}
<1>1. sess'[s].pc = "idle"
  BY DEF End, SessTypeOK, Idle
<1>2. \A t \in Sessions : t # s => sess'[t] = sess[t]
  BY DEF End, SessTypeOK
<1>3. \A t \in Sessions : t # s => EntryKey(t)' = EntryKey(t)
  BY <1>2 DEF EntryKey, Account
<1> QED
  BY <1>1, <1>2, <1>3 DEF Group

\* A session that starts is in no group yet.
LEMMA GroupAccept ==
  ASSUME SessTypeOK, NEW s \in Sessions, NEW p \in Ports, NEW n \in Keys,
         Accept(s, p, n), NEW P, "idle" \notin P, "screen" \notin P, NEW k
  PROVE  Group(P, k)' = Group(P, k)
<1>1. sess'[s].pc = "screen" /\ sess[s].pc = "idle"
  BY DEF Accept, SessTypeOK, At
<1>2. \A t \in Sessions : t # s => sess'[t] = sess[t]
  BY DEF Accept, SessTypeOK
<1>3. \A t \in Sessions : t # s => EntryKey(t)' = EntryKey(t)
  BY <1>2 DEF EntryKey, Account
<1> QED
  BY <1>1, <1>2, <1>3 DEF Group

\* A group changes with sess only.
LEMMA GroupSame ==
  ASSUME sess' = sess, NEW P, NEW k
  PROVE  Group(P, k)' = Group(P, k)
BY DEF Group, EntryKey, Account

\* Groups are finite.
LEMMA GroupFinite ==
  ASSUME NEW P, NEW k
  PROVE  /\ IsFiniteSet(Group(P, k))
         /\ Cardinality(Group(P, k)) \in Nat
         /\ Cardinality(Sessions) \in Nat
         /\ Cardinality(Group(P, k)) <= Cardinality(Sessions)
<1>1. Group(P, k) \in SUBSET Sessions
  BY DEF Group
<1>2. /\ IsFiniteSet(Group(P, k))
      /\ Cardinality(Group(P, k)) <= Cardinality(Sessions)
  BY <1>1, ProxyAssumption, FS_Subset
<1> QED
  BY <1>2, ProxyAssumption, FS_CardinalityType

-----------------------------------------------------------------------------
(***************************************************************************)
(* The slots.                                                              *)
(***************************************************************************)
\* Without a process there is no session.
DownIsIdle == phase = "down" => \A s \in Sessions : sess[s].pc = "idle"

\* Every step keeps DownIsIdle: only Accept starts a session.
LEMMA DownNext ==
  ASSUME DownIsIdle, [Next]_vars
  PROVE  DownIsIdle'
<1>1. ASSUME NEW s \in Sessions, sess[s].pc # "idle", phase' = phase
      PROVE  DownIsIdle'
  BY <1>1 DEF DownIsIdle
<1>2. ASSUME NEW s \in Sessions, NEW p \in Ports, NEW n \in Keys, Accept(s, p, n)
      PROVE  DownIsIdle'
  BY <1>2 DEF DownIsIdle, Accept, trackerVars
<1>3. ASSUME NEW s \in Sessions,
             \/ Reject(s) \/ Screen(s) \/ CheckQuota(s) \/ CheckSlots(s)
             \/ Enter(s) \/ RelayFails(s) \/ Leave(s)
             \/ \E n \in Amounts : RelayEnds(s, n)
      PROVE  DownIsIdle'
  BY <1>1, <1>3 DEF Reject, Screen, CheckQuota, CheckAllowance, CheckSlots, Enter,
     IncrementConns, RelayFails, RelayEnds, RecordBytes, Leave, DecrementConns, At,
     trackerVars
<1>4. ASSUME Crash PROVE DownIsIdle'
  BY <1>4 DEF Crash, DownIsIdle, Idle
<1>5. ASSUME \/ Cancel \/ SocksStops \/ HttpShutdown \/ HttpsShutdown \/ HttpsServeEnds
             \/ MainReturns \/ Restart \/ Background \/ UNCHANGED vars
      PROVE  DownIsIdle'
  BY <1>5 DEF Cancel, SocksStops, HttpShutdown, HttpsShutdown, HttpsServeEnds, MainReturns, Stop,
     Restart, NewTracker, Background, BackgroundSave, MonthPasses, vars,
     trackerVars, DownIsIdle
<1> QED
  BY <1>2, <1>3, <1>4, <1>5 DEF Next

\* Sessions live within a process.
LEMMA ProxyDownIsIdle == Spec => []DownIsIdle
<1>1. Init => DownIsIdle
  BY DEF Init, TrackerInit, DownIsIdle
<1>2. DownIsIdle /\ [Next]_vars => DownIsIdle'
  BY DownNext
<1> QED
  BY <1>1, <1>2, PTL DEF Spec

\* SlotAccounting is kept by a step that changes neither conns nor a holder.
LEMMA SlotsKept ==
  ASSUME SlotAccounting, conns' = conns, \A k \in Keys : Holders(k)' = Holders(k)
  PROVE  SlotAccounting'
BY DEF SlotAccounting

\* A session that is idle or being screened holds no slot.
LEMMA InsideNotIdle == "idle" \notin Inside /\ "screen" \notin Inside
BY DEF Inside

\* Every step keeps the slots accounted for.
LEMMA SlotNext ==
  ASSUME TypeOK, DownIsIdle, SlotAccounting, [Next]_vars
  PROVE  SlotAccounting'
<1>0. SessTypeOK
  BY DEF TypeOK, SessTypeOK
<1>1. ASSUME NEW s \in Sessions, NEW p \in Ports, NEW n \in Keys, Accept(s, p, n)
      PROVE  SlotAccounting'
  <2>1. \A k \in Keys : Holders(k)' = Holders(k)
    BY <1>0, <1>1, GroupAccept, InsideNotIdle DEF Holders
  <2>2. conns' = conns
    BY <1>1 DEF Accept, trackerVars
  <2> QED
    BY <2>1, <2>2, SlotsKept
<1>2. ASSUME NEW s \in Sessions, sess[s].pc \notin Inside, End(s),
             conns' = conns
      PROVE  SlotAccounting'
  <2>1. \A k \in Keys : Holders(k)' = Holders(k) \ {s}
    BY <1>0, <1>2, GroupEnd, InsideNotIdle DEF Holders
  <2>2. \A k \in Keys : s \notin Holders(k)
    BY <1>2 DEF Holders, Group
  <2> QED
    BY <1>2, <2>1, <2>2, SlotsKept
<1>3. ASSUME NEW s \in Sessions, NEW p \in Places, sess[s].pc # "idle", GoTo(s, p),
             sess[s].pc \in Inside <=> p \in Inside, conns' = conns
      PROVE  SlotAccounting'
  <2>1. \A k \in Keys : s \in Holders(k) <=> (p \in Inside /\ EntryKey(s) = k)
    BY <1>3 DEF Holders, Group
  <2>2. ASSUME NEW k \in Keys PROVE Holders(k)' = Holders(k)
    <3>1. Holders(k)' = IF p \in Inside /\ EntryKey(s) = k
                          THEN Holders(k) \cup {s} ELSE Holders(k) \ {s}
      BY <1>0, <1>3, GroupGoTo DEF Holders
    <3> QED
      BY <2>1, <3>1
  <2> QED
    BY <1>3, <2>2, SlotsKept
<1>4. ASSUME NEW s \in Sessions, Screen(s) PROVE SlotAccounting'
  BY <1>3, <1>4 DEF Screen, At, Places, Inside, trackerVars
<1>5. ASSUME NEW s \in Sessions, CheckQuota(s) PROVE SlotAccounting'
  BY <1>2, <1>3, <1>5 DEF CheckQuota, CheckAllowance, At, Places, Inside
<1>6. ASSUME NEW s \in Sessions, CheckSlots(s) PROVE SlotAccounting'
  BY <1>2, <1>3, <1>6 DEF CheckSlots, At, Places, Inside, trackerVars
<1>7. ASSUME NEW s \in Sessions, Enter(s) PROVE SlotAccounting'
  <2>1. /\ sess[s].pc = "enter" /\ GoTo(s, "relay") /\ IncrementConns(EntryKey(s))
    BY <1>7 DEF Enter, At, IncrementConns
  <2>2. \A k \in Keys : Holders(k)' = IF EntryKey(s) = k THEN Holders(k) \cup {s}
                                                        ELSE Holders(k) \ {s}
    <3>1. "relay" \in Places /\ "relay" \in Inside
      BY DEF Places, Inside
    <3> QED
      BY <1>0, <2>1, <3>1, GroupGoTo DEF Holders
  <2>3. \A k \in Keys : s \notin Holders(k) /\ IsFiniteSet(Holders(k))
    BY <2>1, GroupFinite DEF Holders, Group, Inside
  <2>4. \A k \in Keys : Cardinality(Holders(k))' =
          IF EntryKey(s) = k THEN Cardinality(Holders(k)) + 1 ELSE Cardinality(Holders(k))
    <3> SUFFICES ASSUME NEW k \in Keys
                 PROVE  Cardinality(Holders(k)') =
          IF EntryKey(s) = k THEN Cardinality(Holders(k)) + 1 ELSE Cardinality(Holders(k))
      OBVIOUS
    <3>1. Cardinality(Holders(k) \cup {s}) = Cardinality(Holders(k)) + 1
      BY <2>3, FS_AddElement
    <3>2. Holders(k) \ {s} = Holders(k)
      BY <2>3
    <3> QED
      BY <2>2, <3>1, <3>2
  <2>5. \A k \in Keys : conns'[k] = IF EntryKey(s) = k THEN conns[k] + 1 ELSE conns[k]
    BY <2>1 DEF IncrementConns, TypeOK, TrackerTypeOK, Usage
  <2> QED
    BY <2>4, <2>5 DEF SlotAccounting
<1>8. ASSUME NEW s \in Sessions, RelayFails(s) PROVE SlotAccounting'
  BY <1>3, <1>8 DEF RelayFails, At, Places, Inside, trackerVars
<1>9. ASSUME NEW s \in Sessions, NEW n \in Amounts, RelayEnds(s, n) PROVE SlotAccounting'
  BY <1>3, <1>9 DEF RelayEnds, RecordBytes, At, Places, Inside
<1>10. ASSUME NEW s \in Sessions, Leave(s) PROVE SlotAccounting'
  <2>1. /\ sess[s].pc = "leave" /\ End(s) /\ DecrementConns(EntryKey(s))
    BY <1>10 DEF Leave, At, DecrementConns
  <2>2. \A k \in Keys : Holders(k)' = Holders(k) \ {s}
    BY <1>0, <2>1, GroupEnd, InsideNotIdle DEF Holders
  <2>3. \A k \in Keys : /\ s \in Holders(k) <=> EntryKey(s) = k
                        /\ IsFiniteSet(Holders(k))
                        /\ Cardinality(Holders(k)) \in Nat
    BY <2>1, GroupFinite DEF Holders, Group, Inside
  <2>4. \A k \in Keys : Cardinality(Holders(k)') =
          IF EntryKey(s) = k THEN Cardinality(Holders(k)) - 1 ELSE Cardinality(Holders(k))
    BY <2>2, <2>3, FS_RemoveElement
  <2>5. \A k \in Keys : EntryKey(s) = k => Cardinality(Holders(k)) > 0
    BY <2>3, FS_EmptySet
  <2>6. \A k \in Keys : conns'[k] = IF EntryKey(s) = k /\ conns[k] > 0
                                      THEN conns[k] - 1 ELSE conns[k]
    BY <2>1 DEF DecrementConns, TypeOK, TrackerTypeOK, Usage
  <2> QED
    BY <2>4, <2>5, <2>6 DEF SlotAccounting
<1>11. ASSUME sess' = sess, conns' = conns
       PROVE  SlotAccounting'
  <2>1. \A k \in Keys : Holders(k)' = Holders(k)
    BY <1>11, GroupSame DEF Holders
  <2> QED
    BY <1>11, <2>1, SlotsKept
<1>12. ASSUME \A s \in Sessions : sess'[s].pc = "idle", conns' = Zero
       PROVE  SlotAccounting'
  <2>1. \A k \in Keys : Holders(k)' = {}
    BY <1>12 DEF Holders, Group, Inside
  <2> QED
    BY <1>12, <2>1, ZeroAt, FS_EmptySet DEF SlotAccounting
<1>13. ASSUME Crash PROVE SlotAccounting'
  BY <1>12, <1>13 DEF Crash, ProcessEnds, Idle
<1>14. ASSUME Restart PROVE SlotAccounting'
  BY <1>0, <1>12, <1>14 DEF Restart, NewTracker, DownIsIdle
<1>15. ASSUME \/ Cancel \/ SocksStops \/ HttpShutdown \/ HttpsShutdown \/ HttpsServeEnds
              \/ MainReturns \/ Background \/ UNCHANGED vars
       PROVE  SlotAccounting'
  BY <1>11, <1>15 DEF Cancel, SocksStops, HttpShutdown, HttpsShutdown, HttpsServeEnds, MainReturns,
     Stop, Background, BackgroundSave, MonthPasses, vars, trackerVars
<1>16. ASSUME NEW s \in Sessions, Reject(s) PROVE SlotAccounting'
  BY <1>2, <1>16 DEF Reject, At, Inside, trackerVars
<1> QED
  BY <1>1, <1>4, <1>5, <1>6, <1>7, <1>8, <1>9, <1>10, <1>13, <1>14, <1>15, <1>16
  DEF Next

\* No path through a handler, no crash and no restart leaks a slot or gives one
\* back twice, for any number of sessions and any spelling of the names.
THEOREM ProxyAccountsSlots == Spec => []SlotAccounting
<1>1. Init => SlotAccounting
  <2> SUFFICES ASSUME Init PROVE SlotAccounting
    OBVIOUS
  <2>1. \A s \in Sessions : sess[s].pc = "idle"
    BY DEF Init, Idle
  <2>2. \A k \in Keys : Holders(k) = {}
    BY <2>1 DEF Holders, Group, Inside
  <2> QED
    BY <2>1, <2>2, ZeroAt, FS_EmptySet
    DEF Init, TrackerInit, SlotAccounting
<1>2. TypeOK /\ DownIsIdle /\ SlotAccounting /\ [Next]_vars => SlotAccounting'
  BY SlotNext
<1> QED
  BY <1>1, <1>2, ProxyTypeCorrect, ProxyDownIsIdle, PTL DEF Spec

-----------------------------------------------------------------------------
(***************************************************************************)
(* The monthly cap.  The bound has to hold of the file too, which a start  *)
(* turns into usage.                                                       *)
(***************************************************************************)
\* What the sessions in flight may still add to k.
Pending(k) == MaxAmount * Cardinality(InFlight(k))

CapOK(a) ==
  /\ total[Username[a]] + Pending(Username[a]) <= CapWithOvershoot(a)
  /\ disk.total[Username[a]] <= CapWithOvershoot(a)

CapInv == \A a \in Capped : OneSpelling(a) => CapOK(a)

\* A capped account: its constants and their types.
LEMMA CappedFacts ==
  ASSUME NEW a \in Capped
  PROVE  /\ a \in Accounts /\ a \notin SuperAdmins /\ Username[a] \in Keys
         /\ LimitBytes[a] \in Int /\ LimitBytes[a] > 0
         /\ MaxAmount \in Nat
         /\ CapWithOvershoot(a) \in Nat
         /\ CapWithOvershoot(a) = LimitBytes[a] - 1 + MaxAmount * Cardinality(Sessions)
<1>1. /\ a \in Accounts /\ a \notin SuperAdmins /\ Username[a] \in Keys
      /\ LimitBytes[a] \in Int /\ LimitBytes[a] > 0 /\ MaxAmount \in Nat
  BY ProxyAssumption, TrackerAssumption DEF Capped
<1>2. Cardinality(Sessions) \in Nat
  BY ProxyAssumption, FS_CardinalityType
<1>3. MaxAmount * Cardinality(Sessions) \in Nat
  BY <1>1, <1>2
<1> QED
  BY <1>1, <1>3 DEF CapWithOvershoot

\* Products of naturals grow with their second factor.
LEMMA TimesMonotone ==
  ASSUME NEW m \in Nat, NEW c \in Nat, NEW d \in Nat, c <= d
  PROVE  m * c \in Nat /\ m * d \in Nat /\ m * c <= m * d
OBVIOUS

\* One factor less is one summand less.
LEMMA TimesNext ==
  ASSUME NEW m \in Nat, NEW c \in Nat, c > 0
  PROVE  m * (c - 1) + m = m * c
OBVIOUS

\* The sessions in flight, counted.
LEMMA PendingFacts ==
  ASSUME NEW k
  PROVE  /\ Cardinality(InFlight(k)) \in Nat /\ IsFiniteSet(InFlight(k))
         /\ Pending(k) \in Nat
         /\ Pending(k) <= MaxAmount * Cardinality(Sessions)
<1>1. /\ Cardinality(InFlight(k)) \in Nat /\ IsFiniteSet(InFlight(k))
      /\ Cardinality(Sessions) \in Nat
      /\ Cardinality(InFlight(k)) <= Cardinality(Sessions)
  BY GroupFinite DEF InFlight
<1> QED
  BY <1>1, TimesMonotone, TrackerAssumption DEF Pending

\* A session that enters under the key of account a is a's.
LEMMA EntryKeyOwner ==
  ASSUME SessTypeOK, NEW s \in Sessions, sess[s].pc # "idle",
         NEW a \in Accounts, EntryKey(s) = Username[a]
  PROVE  Account(s) = a
BY SessionFacts, ProxyAssumption DEF EntryKey, Account

\* Usage never grows at a month change.
LEMMA TotalsNowBelow ==
  ASSUME TrackerTypeOK, NEW k \in Keys
  PROVE  /\ TotalsNow[k] \in Nat /\ total[k] \in Nat
         /\ TotalsNow[k] <= total[k]
BY ZeroAt DEF TotalsNow, TrackerTypeOK, Usage

\* A step after which the account has no more usage and no more sessions in
\* flight than before.
LEMMA CapKept ==
  ASSUME NEW a \in Capped, CapOK(a), total[Username[a]] \in Nat,
         total'[Username[a]] \in Nat, total'[Username[a]] <= total[Username[a]],
         InFlight(Username[a])' \subseteq InFlight(Username[a]),
         disk'.total[Username[a]] <= CapWithOvershoot(a)
  PROVE  CapOK(a)'
<1> DEFINE U == Username[a]
<1>1. IsFiniteSet(InFlight(U)) /\ Cardinality(InFlight(U)) \in Nat
  BY PendingFacts
<1>2. /\ IsFiniteSet(InFlight(U)')
      /\ Cardinality(InFlight(U)') <= Cardinality(InFlight(U))
  BY <1>1, FS_Subset
<1>3. Cardinality(InFlight(U)') \in Nat
  BY <1>2, FS_CardinalityType
<1>4. /\ MaxAmount * Cardinality(InFlight(U)') \in Nat
      /\ MaxAmount * Cardinality(InFlight(U)) \in Nat
      /\ MaxAmount * Cardinality(InFlight(U)') <= MaxAmount * Cardinality(InFlight(U))
  BY <1>1, <1>2, <1>3, TimesMonotone, TrackerAssumption
<1>5. CapWithOvershoot(a)' = CapWithOvershoot(a) /\ CapWithOvershoot(a) \in Nat
  BY CappedFacts DEF CapWithOvershoot
<1>6. /\ Pending(U)' = MaxAmount * Cardinality(InFlight(U)')
      /\ Pending(U) = MaxAmount * Cardinality(InFlight(U))
  BY DEF Pending
<1>7. total[U] + Pending(U) <= CapWithOvershoot(a)
  BY DEF CapOK
<1>8. total'[U] + Pending(U)' <= CapWithOvershoot(a)
  BY <1>4, <1>5, <1>6, <1>7
<1> QED
  BY <1>5, <1>8 DEF CapOK

\* A save of a usage within the bound leaves a file within the bound.
LEMMA CapSaved ==
  ASSUME NEW a \in Capped, CapOK(a), NEW STATE m, NEW STATE t,
         saveToDiskLocked(m, t), t[Username[a]] <= CapWithOvershoot(a)
  PROVE  disk'.total[Username[a]] <= CapWithOvershoot(a)
<1>1. 0 <= CapWithOvershoot(a) /\ Username[a] \in Keys
  BY CappedFacts
<1>2. File(m, t, conns).total = t /\ Unreadable.total = Zero
  BY DEF File, Unreadable
<1>3. Zero[Username[a]] <= CapWithOvershoot(a)
  BY <1>1, ZeroAt
<1> QED
  BY <1>2, <1>3 DEF saveToDiskLocked, CapOK

\* checkMonthlyReset saves no usage at all.
LEMMA CapReset ==
  ASSUME NEW a \in Capped, CapOK(a), checkMonthlyReset
  PROVE  disk'.total[Username[a]] <= CapWithOvershoot(a)
<1>1. Zero[Username[a]] <= CapWithOvershoot(a)
  BY CappedFacts, ZeroAt
<1>2. CASE UNCHANGED disk
  BY <1>2 DEF CapOK
<1>3. CASE saveToDiskLocked(clock, Zero)
  BY <1>1, <1>3, CapSaved
<1> QED
  BY <1>2, <1>3 DEF checkMonthlyReset

\* A session that is idle or being screened is not in flight; nor is one at the
\* check of the quota or on its way out.
LEMMA AdmittedNot ==
  \A p \in {"idle", "screen", "allowance", "leave"} : p \notin Admitted
BY DEF Admitted

\* Every step keeps the bound of one account.
LEMMA CapNext ==
  ASSUME TypeOK, TypeOK', DownIsIdle, [Next]_vars,
         NEW a \in Capped, OneSpelling(a), CapOK(a)
  PROVE  CapOK(a)'
<1> DEFINE U == Username[a]
<1> DEFINE C == CapWithOvershoot(a)
<1>0. /\ SessTypeOK /\ TrackerTypeOK /\ TrackerTypeOK'
      /\ a \in Accounts /\ a \notin SuperAdmins /\ U \in Keys
      /\ C \in Nat /\ disk.total[U] <= C
  BY CappedFacts DEF TypeOK, SessTypeOK, CapOK
<1>1. /\ TotalsNow[U] \in Nat /\ total[U] \in Nat /\ total'[U] \in Nat
      /\ TotalsNow[U] <= total[U]
  BY <1>0, TotalsNowBelow DEF TrackerTypeOK, Usage
<1>2. /\ total[U] <= C
      /\ total[U] + Pending(U) <= C
      /\ Pending(U) \in Nat
  BY <1>0, <1>1, PendingFacts DEF CapOK
<1>3. ASSUME NEW s \in Sessions, End(s), total'[U] <= total[U], disk'.total[U] <= C
      PROVE  CapOK(a)'
  <2>1. InFlight(U)' = InFlight(U) \ {s}
    BY <1>0, <1>3, GroupEnd, AdmittedNot DEF InFlight
  <2> QED
    BY <1>1, <1>3, <2>1, CapKept
<1>4. ASSUME NEW s \in Sessions, NEW p \in Places, sess[s].pc # "idle", GoTo(s, p),
             \/ p \notin Admitted
             \/ sess[s].pc \in Admitted
             \/ EntryKey(s) # U,
             total'[U] <= total[U], disk'.total[U] <= C
      PROVE  CapOK(a)'
  <2>0. SessTypeOK /\ sess[s].pc # "idle" /\ GoTo(s, p)
    BY <1>0, <1>4
  <2>1. InFlight(U)' = IF p \in Admitted /\ EntryKey(s) = U
                         THEN InFlight(U) \cup {s} ELSE InFlight(U) \ {s}
    <3> HIDE DEF U
    <3> QED
      BY <2>0, GroupGoTo DEF InFlight
  <2>2. sess[s].pc \in Admitted /\ EntryKey(s) = U => s \in InFlight(U)
    BY DEF InFlight, Group
  <2>3. InFlight(U)' \subseteq InFlight(U)
    BY <1>4, <2>1, <2>2
  <2> QED
    BY <1>1, <1>4, <2>3, CapKept
<1>5. ASSUME NEW s \in Sessions, NEW p \in Ports, NEW n \in Keys, Accept(s, p, n)
      PROVE  CapOK(a)'
  <2>1. InFlight(U)' = InFlight(U)
    BY <1>0, <1>5, GroupAccept, AdmittedNot DEF InFlight
  <2>2. total' = total /\ disk' = disk
    BY <1>5 DEF Accept, trackerVars
  <2> QED
    BY <1>0, <1>1, <2>1, <2>2, CapKept
<1>6. ASSUME NEW s \in Sessions, Reject(s) PROVE CapOK(a)'
  BY <1>0, <1>1, <1>3, <1>6 DEF Reject, trackerVars
<1>7. ASSUME NEW s \in Sessions, Screen(s) PROVE CapOK(a)'
  <2>1. total' = total /\ disk' = disk /\ sess[s].pc = "screen"
    BY <1>7 DEF Screen, At, trackerVars
  <2>2. CASE GoTo(s, "allowance")
    BY <1>0, <1>1, <1>4, <2>1, <2>2, AdmittedNot DEF Places
  <2>3. CASE Account(s) \in SuperAdmins /\ GoTo(s, "enter")
    <3>1. EntryKey(s) # U
      BY <1>0, <2>1, <2>3, EntryKeyOwner
    <3> QED
      BY <1>0, <1>1, <1>4, <2>1, <2>3, <3>1 DEF Places
  <2> QED
    BY <1>7, <2>2, <2>3 DEF Screen
<1>8. ASSUME NEW s \in Sessions, CheckQuota(s) PROVE CapOK(a)'
  <2>1. PICK ok \in BOOLEAN :
          /\ CheckAllowance(sess[s].login, LimitBytes[Account(s)], ok)
          /\ \/ ok /\ GoTo(s, "connlimit")
             \/ ~ok /\ End(s)
    BY <1>8 DEF CheckQuota
  <2>2. sess[s].pc = "allowance"
    BY <1>8 DEF CheckQuota, At
  <2>3. total'[U] <= total[U] /\ disk'.total[U] <= C
    <3>1. CASE UNCHANGED <<total, month, disk>>
      BY <1>0, <1>1, <3>1
    <3>2. CASE checkMonthlyReset /\ total' = TotalsNow
      BY <1>1, <3>2, CapReset
    <3> QED
      BY <2>1, <3>1, <3>2 DEF CheckAllowance
  <2>4. CASE End(s)
    BY <1>3, <2>3, <2>4
  <2>5. CASE GoTo(s, "connlimit") /\ EntryKey(s) # U
    BY <1>4, <2>2, <2>3, <2>5 DEF Places
  <2>6. CASE ok /\ GoTo(s, "connlimit") /\ EntryKey(s) = U
    <3>1. Account(s) = a
      BY <1>0, <2>2, <2>6, EntryKeyOwner
    <3>2. sess[s].login = U
      BY <1>0, <2>2, <3>1, SessionFacts DEF OneSpelling, Account
    <3>3. LimitBytes[a] > 0 /\ LimitBytes[a] \in Int
      BY CappedFacts
    <3>4. TotalsNow[U] < LimitBytes[a] /\ total' = TotalsNow
      BY <2>1, <2>6, <3>1, <3>2, <3>3 DEF CheckAllowance
    <3>5. Pending(U)' <= MaxAmount * Cardinality(Sessions) /\ Pending(U)' \in Nat
      <4>1. InFlight(U)' \in SUBSET Sessions
        BY DEF InFlight, Group
      <4>2. /\ Cardinality(Sessions) \in Nat
            /\ Cardinality(InFlight(U)') \in Nat
            /\ Cardinality(InFlight(U)') <= Cardinality(Sessions)
        BY <4>1, ProxyAssumption, FS_Subset, FS_CardinalityType
      <4> QED
        BY <4>2, TimesMonotone, TrackerAssumption DEF Pending
    <3>6. C = LimitBytes[a] - 1 + MaxAmount * Cardinality(Sessions)
      BY CappedFacts
    <3>7. MaxAmount * Cardinality(Sessions) \in Nat
      BY ProxyAssumption, TrackerAssumption, FS_CardinalityType, TimesMonotone
    <3>8. total'[U] + Pending(U)' <= C
      BY <1>1, <3>3, <3>4, <3>5, <3>6, <3>7
    <3>9. C' = C
      BY DEF CapWithOvershoot
    <3> QED
      BY <2>3, <3>8, <3>9 DEF CapOK
  <2> QED
    BY <2>1, <2>4, <2>5, <2>6
<1>9. ASSUME NEW s \in Sessions, CheckSlots(s) \/ RelayFails(s) PROVE CapOK(a)'
  <2>1. total' = total /\ disk' = disk
    BY <1>9 DEF CheckSlots, RelayFails, trackerVars
  <2>2. \/ End(s)
        \/ sess[s].pc \in Admitted /\ GoTo(s, "enter")
        \/ sess[s].pc \in Admitted /\ GoTo(s, "leave")
    BY <1>9 DEF CheckSlots, RelayFails, At, Admitted
  <2> QED
    BY <1>0, <1>1, <1>3, <1>4, <2>1, <2>2, AdmittedNot DEF Places
<1>10. ASSUME NEW s \in Sessions, Enter(s) PROVE CapOK(a)'
  <2>1. total' = total /\ disk' = disk
    BY <1>10 DEF Enter, IncrementConns
  <2>2. sess[s].pc \in Admitted /\ sess[s].pc # "idle" /\ GoTo(s, "relay")
    BY <1>10 DEF Enter, At, Admitted
  <2> QED
    BY <1>0, <1>1, <1>4, <2>1, <2>2 DEF Places
<1>11. ASSUME NEW s \in Sessions, NEW n \in Amounts, RelayEnds(s, n) PROVE CapOK(a)'
  <2>1. /\ sess[s].pc = "relay" /\ GoTo(s, "leave") /\ checkMonthlyReset
        /\ total' = [TotalsNow EXCEPT ![EntryKey(s)] = @ + n]
    BY <1>11 DEF RelayEnds, At, RecordBytes
  <2>2. disk'.total[U] <= C
    BY <2>1, CapReset
  <2>3. TotalsNow \in Usage
    BY <1>0, TotalsNowType
  <2>4. CASE EntryKey(s) # U
    <3>1. total'[U] = TotalsNow[U]
      BY <1>0, <2>1, <2>3, <2>4 DEF Usage
    <3> QED
      BY <1>1, <1>4, <2>1, <2>2, <2>4, <3>1 DEF Places
  <2>5. CASE EntryKey(s) = U
    <3>1. total'[U] = TotalsNow[U] + n
      BY <1>0, <2>1, <2>3, <2>5 DEF Usage
    <3>2. s \in InFlight(U)
      BY <2>1, <2>5 DEF InFlight, Group, Admitted
    <3>3. InFlight(U)' = InFlight(U) \ {s}
      BY <1>0, <2>1, GroupGoTo, AdmittedNot DEF InFlight, Places
    <3>4. /\ IsFiniteSet(InFlight(U)) /\ Cardinality(InFlight(U)) \in Nat
          /\ Cardinality(InFlight(U)) > 0
      BY <3>2, PendingFacts, FS_EmptySet
    <3>5. Cardinality(InFlight(U)') = Cardinality(InFlight(U)) - 1
      BY <3>2, <3>3, <3>4, FS_RemoveElement
    <3>6. /\ MaxAmount * (Cardinality(InFlight(U)) - 1) + MaxAmount
               = MaxAmount * Cardinality(InFlight(U))
          /\ MaxAmount * (Cardinality(InFlight(U)) - 1) \in Nat
      BY <3>4, TimesNext, TimesMonotone, TrackerAssumption
    <3>7. Pending(U)' + MaxAmount = Pending(U) /\ Pending(U)' \in Nat
      BY <3>5, <3>6 DEF Pending
    <3>8. n \in Nat /\ n <= MaxAmount /\ MaxAmount \in Nat
      BY TrackerAssumption DEF Amounts
    <3>9. total'[U] + Pending(U)' <= C
      BY <1>0, <1>1, <1>2, <3>1, <3>7, <3>8
    <3>10. C' = C
      BY DEF CapWithOvershoot
    <3> QED
      BY <2>2, <3>9, <3>10 DEF CapOK
  <2> QED
    BY <2>4, <2>5
<1>12. ASSUME NEW s \in Sessions, Leave(s) PROVE CapOK(a)'
  BY <1>0, <1>1, <1>3, <1>12 DEF Leave, DecrementConns
<1>13. ASSUME sess' = sess, total' = total, disk'.total[U] <= C PROVE CapOK(a)'
  <2>1. InFlight(U)' = InFlight(U)
    BY <1>13, GroupSame DEF InFlight
  <2> QED
    BY <1>1, <1>13, <2>1, CapKept
<1>14. ASSUME \/ Cancel \/ SocksStops \/ HttpShutdown \/ HttpsShutdown \/ HttpsServeEnds
              \/ UNCHANGED vars
       PROVE  CapOK(a)'
  BY <1>0, <1>13, <1>14
  DEF Cancel, SocksStops, HttpShutdown, HttpsShutdown, HttpsServeEnds, vars, trackerVars
<1>15. ASSUME MainReturns \/ Background PROVE CapOK(a)'
  <2>1. sess' = sess /\ total' = total
    BY <1>15 DEF MainReturns, Stop, Background, BackgroundSave, MonthPasses
  <2>2. saveToDiskLocked(month, total) \/ disk' = disk
    BY <1>15 DEF MainReturns, Stop, Background, BackgroundSave, MonthPasses
  <2>3. disk'.total[U] <= C
    BY <1>0, <1>2, <2>2, CapSaved
  <2> QED
    BY <1>13, <2>1, <2>3
<1>16. ASSUME \A s \in Sessions : sess'[s].pc = "idle",
              total'[U] <= C, disk'.total[U] <= C
       PROVE  CapOK(a)'
  <2>1. InFlight(U)' = {}
    BY <1>16, AdmittedNot DEF InFlight, Group
  <2>2. Pending(U)' = 0
    BY <2>1, FS_EmptySet, TrackerAssumption DEF Pending
  <2>3. total'[U] + Pending(U)' <= C
    BY <1>0, <1>1, <1>16, <2>2
  <2>4. C' = C
    BY DEF CapWithOvershoot
  <2> QED
    BY <1>16, <2>3, <2>4 DEF CapOK
<1>17. ASSUME Crash PROVE CapOK(a)'
  <2>1. \A s \in Sessions : sess'[s].pc = "idle"
    BY <1>17 DEF Crash, Idle
  <2>2. total' = Zero /\ disk' \in {disk, Unreadable}
    BY <1>17 DEF Crash, ProcessEnds
  <2>3. Zero[U] <= C /\ Unreadable.total = Zero
    BY <1>0, ZeroAt DEF Unreadable
  <2> QED
    BY <1>0, <1>16, <2>1, <2>2, <2>3
<1>18. ASSUME Restart PROVE CapOK(a)'
  <2>1. \A s \in Sessions : sess'[s].pc = "idle"
    BY <1>18 DEF Restart, NewTracker, DownIsIdle
  <2>2. total' = Restored(disk) /\ disk' = disk
    BY <1>18 DEF Restart, NewTracker
  <2>3. Restored(disk)[U] <= C
    BY <1>0, ZeroAt DEF Restored
  <2> QED
    BY <1>0, <1>16, <2>1, <2>2, <2>3
<1> QED
  BY <1>5, <1>6, <1>7, <1>8, <1>9, <1>10, <1>11, <1>12, <1>14, <1>15, <1>17, <1>18
  DEF Next

\* The monthly cap of an account whose clients use one spelling is exceeded at
\* most by what the sessions admitted below the cap bring, for any number of
\* sessions, through month changes, failed writes, crashes and restarts.
THEOREM ProxyBoundsOvershoot == Spec => []CapOvershootBounded
<1>1. Init => CapInv
  <2> SUFFICES ASSUME Init, NEW a \in Capped PROVE CapOK(a)
    BY DEF CapInv
  <2> DEFINE U == Username[a]
  <2>1. InFlight(U) = {}
    BY AdmittedNot DEF Init, Idle, InFlight, Group
  <2>2. Pending(U) = 0
    BY <2>1, FS_EmptySet, TrackerAssumption DEF Pending
  <2>3. total = Zero /\ disk.total = Zero
    BY DEF Init, TrackerInit, Unreadable
  <2>4. U \in Keys /\ CapWithOvershoot(a) \in Nat
    BY CappedFacts
  <2>5. total[U] = 0 /\ disk.total[U] = 0
    BY <2>3, <2>4, ZeroAt
  <2> QED
    BY <2>2, <2>4, <2>5 DEF CapOK
<1>2. TypeOK /\ TypeOK' /\ DownIsIdle /\ CapInv /\ [Next]_vars => CapInv'
  <2> SUFFICES ASSUME TypeOK, TypeOK', DownIsIdle, CapInv, [Next]_vars,
                      NEW a \in Capped, OneSpelling(a)
               PROVE  CapOK(a)'
    BY DEF CapInv, OneSpelling, Capped
  <2>1. CapOK(a)
    BY DEF CapInv
  <2> QED
    BY <2>1, CapNext
<1>3. CapInv => CapOvershootBounded
  BY DEF CapInv, CapOK, Pending, CapOvershootBounded
<1> QED
  BY <1>1, <1>2, <1>3, ProxyTypeCorrect, ProxyDownIsIdle, PTL DEF Spec

=============================================================================
