------------------------------- MODULE Tracker -------------------------------
(***************************************************************************)
(* The bandwidth tracker, internal/bandwidth/tracker.go: per-key usage of  *)
(* the calendar month and open connections, kept in memory under t.mu and  *)
(* copied to a JSON file every five minutes, at a month change and at      *)
(* Stop.  Every method is one critical section of t.mu, hence one action.  *)
(*                                                                         *)
(* A key is the string the caller passes as username.  The map entry of a  *)
(* key that getOrCreate has not created yet is modelled as a zero entry,   *)
(* and a key's BytesUp and BytesDown by their sum TotalBytes.              *)
(***************************************************************************)
EXTENDS Integers

CONSTANTS
  Keys,        \* strings used as keys of Tracker.users
  Limits,      \* bandwidth_limit_gb values, in bytes, callers pass
  MaxAmount,   \* bound: bytes one RecordBytes call may add
  MaxBytes,    \* bound: bytes recorded for one key in one month
  LastMonth    \* bound: the last month the wall clock reaches

ASSUME TrackerAssumption ==
  /\ Limits \subseteq Int
  /\ MaxAmount \in Nat
  /\ MaxBytes \in Nat
  /\ LastMonth \in Nat

VARIABLES
  phase,       \* "up": after NewTracker, "stopped": after Stop, "down": no process
  total,       \* UserUsage.TotalBytes of each key
  conns,       \* UserUsage.ActiveConns of each key
  month,       \* Tracker.month
  clock,       \* the month of time.Now()
  disk,        \* the usage file
  carried,     \* history: bytes passed to RecordBytes in the month of the clock
  lost         \* history: of these, the bytes in no file when a process ended

trackerVars == <<phase, total, conns, month, clock, disk, carried, lost>>

Usage == [Keys -> Nat]

Zero == [k \in Keys |-> 0]

Amounts == 0..MaxAmount

-----------------------------------------------------------------------------
(***************************************************************************)
(* The usage file.  os.WriteFile truncates before it writes, so a write    *)
(* that fails or is cut short leaves no parsable JSON; loadFromDisk treats *)
(* that and a missing file alike.                                          *)
(***************************************************************************)
Files == [readable : BOOLEAN, month : Nat, total : Usage, conns : Usage]

File(m, t, c) == [readable |-> TRUE, month |-> m, total |-> t, conns |-> c]

Unreadable == [readable |-> FALSE, month |-> 0, total |-> Zero, conns |-> Zero]

\* The file is written, left truncated by a failed write, or left alone by a
\* failed open; the error is only logged.
saveToDiskLocked(m, t) == disk' \in {File(m, t, conns), Unreadable, disk}

\* What loadFromDisk takes over from file d: its totals, if d parses and is of
\* the current month.
Restored(d) == IF d.readable /\ d.month = clock THEN d.total ELSE Zero

\* Variant of TotalsNow: the map is not replaced when the month changes.
TotalsKept == total

\* The totals after checkMonthlyReset.
TotalsNow == IF month = clock THEN total ELSE Zero

\* Variant of checkMonthlyReset: the file is written before the map is emptied.
SaveBeforeReset ==
  /\ month' = clock
  /\ \/ month = clock /\ UNCHANGED disk
     \/ month # clock /\ saveToDiskLocked(clock, total)

checkMonthlyReset ==
  /\ month' = clock
  /\ \/ month = clock /\ UNCHANGED disk
     \/ month # clock /\ saveToDiskLocked(clock, Zero)

-----------------------------------------------------------------------------
TrackerInit ==
  /\ phase = "up"
  /\ total = Zero
  /\ conns = Zero
  /\ month = 0
  /\ clock = 0
  /\ disk = Unreadable
  /\ carried = Zero
  /\ lost = Zero

RecordBytes(k, n) ==
  /\ phase # "down"
  /\ carried[k] + n <= MaxBytes
  /\ checkMonthlyReset
  /\ total' = [TotalsNow EXCEPT ![k] = @ + n]
  /\ carried' = [carried EXCEPT ![k] = @ + n]
  /\ UNCHANGED <<phase, conns, clock, lost>>

\* Variant of CheckAllowance: the last byte of the limit is allowed twice.
AllowAtLimit(k, limit, ok) ==
  /\ phase # "down"
  /\ \/ limit <= 0 /\ ok /\ UNCHANGED <<total, month, disk>>
     \/ /\ limit > 0
        /\ ok <=> TotalsNow[k] <= limit
        /\ checkMonthlyReset
        /\ total' = TotalsNow
  /\ UNCHANGED <<phase, conns, clock, carried, lost>>

\* The call returns ok; a limit of zero or less means unlimited and returns
\* before the month is looked at.
CheckAllowance(k, limit, ok) ==
  /\ phase # "down"
  /\ \/ /\ limit <= 0
        /\ ok
        /\ UNCHANGED <<total, month, disk>>
     \/ /\ limit > 0
        /\ ok <=> TotalsNow[k] < limit
        /\ checkMonthlyReset
        /\ total' = TotalsNow
  /\ UNCHANGED <<phase, conns, clock, carried, lost>>

IncrementConns(k) ==
  /\ phase # "down"
  /\ conns' = [conns EXCEPT ![k] = @ + 1]
  /\ UNCHANGED <<phase, total, month, clock, disk, carried, lost>>

DecrementConns(k) ==
  /\ phase # "down"
  /\ conns' = [conns EXCEPT ![k] = IF @ > 0 THEN @ - 1 ELSE @]
  /\ UNCHANGED <<phase, total, month, clock, disk, carried, lost>>

CheckConnLimit(k, maxConns) == maxConns <= 0 \/ conns[k] < maxConns

\* backgroundLoop, at a tick of saveTicker: the month is not looked at, so
\* this may write the totals of a month that is over, under that month.
BackgroundSave ==
  /\ phase = "up"
  /\ saveToDiskLocked(month, total)
  /\ UNCHANGED <<phase, total, conns, month, clock, carried, lost>>

\* Stop closes stopCh, which ends backgroundLoop, and saves a last time.
Stop ==
  /\ phase = "up"
  /\ phase' = "stopped"
  /\ saveToDiskLocked(month, total)
  /\ UNCHANGED <<total, conns, month, clock, carried, lost>>

\* The process ends: main returns after Stop, log.Fatal skips the deferred
\* Stop, or the process is killed.  If it ends inside saveToDiskLocked the
\* file is left truncated.
ProcessEnds ==
  /\ phase # "down"
  /\ phase' = "down"
  /\ disk' \in {disk, Unreadable}
  /\ lost' = [k \in Keys |-> lost[k] + (TotalsNow[k] - Restored(disk')[k])]
  /\ total' = Zero
  /\ conns' = Zero
  /\ UNCHANGED <<month, clock, carried>>

\* NewTracker and the loadFromDisk it calls, which zeroes the ActiveConns the
\* file holds.
NewTracker ==
  /\ phase = "down"
  /\ phase' = "up"
  /\ month' = clock
  /\ total' = Restored(disk)
  /\ conns' = Zero
  /\ UNCHANGED <<clock, disk, carried, lost>>

\* The calendar month changes.
MonthPasses ==
  /\ clock < LastMonth
  /\ clock' = clock + 1
  /\ carried' = Zero
  /\ lost' = Zero
  /\ UNCHANGED <<phase, total, conns, month, disk>>

\* Any goroutine may call any method at any time.
TrackerNext ==
  \/ \E k \in Keys :
       \/ \E n \in Amounts : RecordBytes(k, n)
       \/ \E limit \in Limits, ok \in BOOLEAN : CheckAllowance(k, limit, ok)
       \/ IncrementConns(k)
       \/ DecrementConns(k)
  \/ BackgroundSave
  \/ Stop
  \/ ProcessEnds
  \/ NewTracker
  \/ MonthPasses

TrackerSpec == TrackerInit /\ [][TrackerNext]_trackerVars

-----------------------------------------------------------------------------
(***************************************************************************)
(* What the tracker promises.                                              *)
(***************************************************************************)
TrackerTypeOK ==
  /\ phase \in {"up", "stopped", "down"}
  /\ total \in Usage
  /\ conns \in Usage
  /\ month \in Nat
  /\ clock \in Nat
  /\ disk \in Files
  /\ carried \in Usage
  /\ lost \in Usage

\* The usage a user is charged with: what memory holds for the current month,
\* or what the next start will restore.
Charged == IF phase = "down" THEN Restored(disk) ELSE TotalsNow

\* Every byte recorded in the current month is charged exactly once, except
\* the ones that were in no readable file when a process ended, all of them if it
\* ended in the middle of a save: no reset, save, discarded file or restart loses,
\* repeats or carries over anything else (RecordBytes, checkMonthlyReset,
\* loadFromDisk).
BytesConserved == \A k \in Keys : Charged[k] + lost[k] = carried[k]

\* The file is never ahead of memory, so a restart never raises a user's usage;
\* with it, and with a file and a tracker of no later month than the clock's,
\* BytesConserved is inductive.
DiskNeverAhead ==
  /\ month <= clock
  /\ disk.readable => disk.month <= month
  /\ \A k \in Keys : Restored(disk)[k] <= Charged[k]

=============================================================================
