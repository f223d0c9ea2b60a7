----------------------------- MODULE StateStore -----------------------------
(***************************************************************************)
(* The state file that every process of one machine shares                 *)
(* (src/src/lib/stateStore.ts): withWriteLock, StateStore.mutate, persist  *)
(* and load.  A process runs one of them at a time, without an await, but  *)
(* processes run side by side, so every access to the file system is a     *)
(* step of its own.  AgentLedger.mutate takes the same steps, without the  *)
(* cache.                                                                  *)
(*                                                                         *)
(* A mutation is recordDao; the other record and set methods compute their *)
(* update from the state they are handed in the same way.                  *)
(*                                                                         *)
(* A definition marked "faulty" is a bug the properties must notice; the   *)
(* specification does not use it.                                          *)
(***************************************************************************)
EXTENDS Integers, Sequences

CONSTANTS
  Procs,        \* the processes
  Daos,         \* what they record
  MaxDaos,      \* MAX_DAOS
  Stale,        \* LOCK_STALE_MS
  Budget,       \* LOCK_BUDGET_MS
  CasAttempts,  \* CAS_ATTEMPTS
  Faults,       \* what the file system may do
  MaxWrites,    \* bound: mutations begun
  MaxTime       \* bound of the clock

\* "nolock": the lock file cannot be created, or not be written.  "nopublish":
\* the temporary file cannot be written, or its rename fails to the end.
\* "leak": a removal of the lock file is refused.  "noread": a file that exists
\* cannot be read.  "crash": a process ends at any point.
ASSUME StateFaultAssumption == Faults \subseteq {"nolock", "nopublish", "leak", "noread", "crash"}

ASSUME StateAssumption ==
  /\ MaxDaos \in Nat \ {0} /\ CasAttempts \in Nat \ {0}
  /\ Stale \in Nat /\ Budget \in Nat /\ Stale + 1 < Budget
  /\ MaxWrites \in Nat /\ MaxTime \in Nat

VARIABLES
  file,         \* [list |-> knownDaos on disk, ver |-> its stat signature]
  lock,         \* when the lock file was created, or NoLock
  pc,           \* process |-> its next access to the file system
  held,         \* process |-> withWriteLock's held
  since,        \* process |-> waitedFrom
  dao,          \* process |-> what it records
  seen,         \* process |-> the raw text its update was computed from
  attempt,      \* process |-> the compare-and-swap misses of this mutation
  cache,        \* process |-> cache, or Null
  stamp,        \* process |-> cacheStamp
  unpublished,  \* process |-> unpublished
  now, begun,
  unread,       \* history: process |-> its cache is what a failed read left
  clean         \* history: nobody entered the section beside a holder, or
                \* published unconditionally what a failed read left

procVars == <<pc, held, since, dao, seen, attempt>>
cacheVars == <<cache, stamp, unpublished, unread>>
clockVars == <<now, begun>>
stateVars == <<file, lock, procVars, cacheVars, clockVars, clean>>

NoLock == -1
Null == << "null" >>   \* no cache; a text that could not be read
NoStamp == 0   \* null: also the signature of a file that does not exist

Lists == UNION {[1..n -> Daos] : n \in 0..MaxDaos}
Section == {"read", "check", "publish", "stamp", "release"}

TypeOK ==
  /\ file.list \in Lists /\ file.ver \in Nat
  /\ lock \in {NoLock} \cup 0..MaxTime
  /\ pc \in [Procs -> Section \cup {"idle", "lock", "break", "load", "dead"}]
  /\ held \in [Procs -> BOOLEAN]
  /\ since \in [Procs -> 0..MaxTime]
  /\ dao \in [Procs -> Daos]
  /\ seen \in [Procs -> Lists \cup {Null}]
  /\ attempt \in [Procs -> 0..CasAttempts]
  /\ cache \in [Procs -> Lists \cup {Null}]
  /\ stamp \in [Procs -> Nat]
  /\ unpublished \in [Procs -> BOOLEAN] /\ unread \in [Procs -> BOOLEAN]
  /\ now \in 0..MaxTime /\ begun \in 0..MaxWrites /\ clean \in BOOLEAN

StateInit ==
  /\ file = [list |-> << >>, ver |-> NoStamp]
  /\ lock = NoLock
  /\ pc = [p \in Procs |-> "idle"]
  /\ held = [p \in Procs |-> FALSE]
  /\ since = [p \in Procs |-> 0]
  /\ dao \in [Procs -> Daos]
  /\ seen = [p \in Procs |-> << >>]
  /\ attempt = [p \in Procs |-> 0]
  /\ cache = [p \in Procs |-> Null]
  /\ stamp = [p \in Procs |-> NoStamp]
  /\ unpublished = [p \in Procs |-> FALSE] /\ unread = [p \in Procs |-> FALSE]
  /\ now = 0 /\ begun = 0 /\ clean = TRUE

\* recordDao's update: to the front, once, capped.
Recorded(list, d) ==
  LET all == << d >> \o SelectSeq(list, LAMBDA e : e # d)
  IN  SubSeq(all, 1, IF Len(all) > MaxDaos THEN MaxDaos ELSE Len(all))

Goes(p, to) == pc' = [pc EXCEPT ![p] = to]

-----------------------------------------------------------------------------
(* withWriteLock.                                                          *)

IsStaleAfterBudget == lock # NoLock /\ now - lock > Budget   \* faulty

\* lockIsStale()
IsStale == lock # NoLock /\ now - lock > Stale

Waiting(p) == now < since[p] + Budget

Begin(p, d) ==
  /\ pc[p] = "idle" /\ begun < MaxWrites
  /\ begun' = begun + 1
  /\ dao' = [dao EXCEPT ![p] = d]
  /\ since' = [since EXCEPT ![p] = now]
  /\ Goes(p, "lock")
  /\ UNCHANGED <<file, lock, held, seen, attempt, cacheVars, now, clean>>

FreeOrNot == TRUE   \* faulty: opened without "x", over another's
Free == lock = NoLock

\* open(lock, "wx")
Acquire(p) ==
  /\ pc[p] = "lock" /\ Waiting(p)
  /\ Free
  /\ lock' = now
  /\ held' = [held EXCEPT ![p] = TRUE]
  /\ Goes(p, "read")
  /\ UNCHANGED <<file, since, dao, seen, attempt, cacheVars, clockVars, clean>>

\* It exists and is old.
FindStale(p) ==
  /\ pc[p] = "lock" /\ Waiting(p)
  /\ IsStale
  /\ Goes(p, "break")
  /\ UNCHANGED <<file, lock, held, since, dao, seen, attempt, cacheVars, clockVars, clean>>

\* rm(lock): by now it may be another's.  If it is refused, try all over again.
Break(p) ==
  /\ pc[p] = "break"
  /\ \/ /\ lock' = NoLock
        /\ clean' = (clean /\ \A q \in Procs : ~ held[q])
     \/ "leak" \in Faults /\ UNCHANGED <<lock, clean>>
  /\ Goes(p, "lock")
  /\ UNCHANGED <<file, held, since, dao, seen, attempt, cacheVars, clockVars>>

\* Run unlocked: the budget is used up, the lock file cannot be created, or it
\* is created and cannot be written (held stays false, the file stays).
RunUnlocked(p) ==
  /\ pc[p] = "lock"
  /\ \/ ~ Waiting(p) /\ UNCHANGED lock
     \/ Waiting(p) /\ "nolock" \in Faults /\ UNCHANGED lock
     \/ Waiting(p) /\ "nolock" \in Faults /\ Free /\ lock' = now
  /\ clean' = FALSE
  /\ Goes(p, "read")
  /\ UNCHANGED <<file, held, since, dao, seen, attempt, cacheVars, clockVars>>

\* finally: rm(lock), whoever's it is.
Release(p) ==
  /\ pc[p] = "release"
  /\ \/ ~ held[p] /\ UNCHANGED lock
     \/ held[p] /\ lock' = NoLock
     \/ held[p] /\ "leak" \in Faults /\ UNCHANGED lock
  /\ held' = [held EXCEPT ![p] = FALSE]
  /\ since' = [since EXCEPT ![p] = 0]
  /\ seen' = [seen EXCEPT ![p] = << >>]
  /\ attempt' = [attempt EXCEPT ![p] = 0]
  /\ Goes(p, "idle")
  /\ UNCHANGED <<file, dao, cacheVars, clockVars, clean>>

-----------------------------------------------------------------------------
(* mutate() and persist().                                                 *)

\* The file exists, and a read of it fails this time.
Unreadable == "noread" \in Faults /\ file.ver # NoStamp

\* The raw text that snapshot() may come by, and the state that is.
Texts == {file.list} \cup {x \in {Null} : Unreadable}
State(text) == IF text = Null THEN << >> ELSE text

\* snapshot(); then the update, the cache and the temporary file, none of which
\* others see.  After the last miss the publish is unconditional.
Read(p) ==
  /\ pc[p] = "read"
  /\ \E text \in Texts :
       /\ seen' = [seen EXCEPT ![p] = text]
       /\ cache' = [cache EXCEPT ![p] = Recorded(State(text), dao[p])]
       /\ clean' = (clean /\ (text # Null \/ attempt[p] < CasAttempts))
  /\ stamp' = [stamp EXCEPT ![p] = NoStamp]
  /\ unread' = [unread EXCEPT ![p] = FALSE]
  /\ Goes(p, IF attempt[p] < CasAttempts THEN "check" ELSE "publish")
  /\ UNCHANGED <<file, lock, held, since, dao, attempt, unpublished, clockVars>>

StillHolds(p) == seen[p] # Null /\ file.list = seen[p]

\* diskStillHolds(); a file that cannot be read counts as changed.
Check(p) ==
  /\ pc[p] = "check"
  /\ \/ /\ StillHolds(p)
        /\ Goes(p, "publish")
        /\ UNCHANGED attempt
     \/ /\ ~ StillHolds(p) \/ Unreadable
        /\ Goes(p, "read")
        /\ attempt' = [attempt EXCEPT ![p] = @ + 1]
  /\ UNCHANGED <<file, lock, held, since, dao, seen, cacheVars, clockVars, clean>>

\* rename()
Publish(p) ==
  /\ pc[p] = "publish"
  /\ file' = [list |-> Recorded(State(seen[p]), dao[p]), ver |-> file.ver + 1]
  /\ unpublished' = [unpublished EXCEPT ![p] = FALSE]
  /\ Goes(p, "stamp")
  /\ UNCHANGED <<lock, held, since, dao, seen, attempt, cache, stamp, unread, clockVars, clean>>

\* The cache becomes the only copy of the record.
PublishFails(p) ==
  /\ pc[p] \in {"check", "publish"} /\ "nopublish" \in Faults
  /\ unpublished' = [unpublished EXCEPT ![p] = TRUE]
  /\ Goes(p, "release")
  /\ UNCHANGED <<file, lock, held, since, dao, seen, attempt, cache, stamp, unread, clockVars, clean>>

\* The stat after the rename.
Stamp(p) ==
  /\ pc[p] = "stamp"
  /\ stamp' = [stamp EXCEPT ![p] = file.ver]
  /\ Goes(p, "release")
  /\ UNCHANGED <<file, lock, held, since, dao, seen, attempt, cache, unpublished, unread, clockVars, clean>>

-----------------------------------------------------------------------------
(* load()                                                                  *)

ServesOnceLoaded(p) == cache[p] # Null   \* faulty: the load-once cache of old

Serves(p) ==
  cache[p] # Null /\ (unpublished[p] \/ file.ver = NoStamp \/ file.ver = stamp[p])

\* The stat finds another signature than the cache's.
Load(p) ==
  /\ pc[p] = "idle" /\ ~ Serves(p)
  /\ stamp' = [stamp EXCEPT ![p] = file.ver]
  /\ Goes(p, "load")
  /\ UNCHANGED <<file, lock, held, since, dao, seen, attempt, cache, unpublished, unread, clockVars, clean>>

LoadRead(p) ==
  /\ pc[p] = "load"
  /\ \E text \in Texts :
       /\ cache' = [cache EXCEPT ![p] = State(text)]
       /\ unread' = [unread EXCEPT ![p] = text = Null]
  /\ Goes(p, "idle")
  /\ UNCHANGED <<file, lock, held, since, dao, seen, attempt, stamp, unpublished, clockVars, clean>>

-----------------------------------------------------------------------------

\* One process ends, anywhere in the section or on its way there.
Crash(p) ==
  /\ "crash" \in Faults
  /\ pc[p] \in Section \cup {"lock", "break"}
  /\ \A q \in Procs : pc[q] # "dead"
  /\ held' = [held EXCEPT ![p] = FALSE]
  /\ Goes(p, "dead")
  /\ UNCHANGED <<file, lock, since, dao, seen, attempt, cacheVars, clockVars, clean>>

\* A unit of time is long beside the few milliseconds between two polls, so no
\* waiting process misses a lock it could have had, and to break one is not
\* refused for that long; a holder may be slow.
Tick ==
  /\ now < MaxTime
  /\ \A p \in Procs :
       /\ pc[p] # "break"
       /\ pc[p] = "lock" => ~ (Waiting(p) /\ (Free \/ IsStale))
  /\ now' = now + 1
  /\ UNCHANGED <<file, lock, procVars, cacheVars, begun, clean>>

ProcStep(p) ==
  \/ \E d \in Daos : Begin(p, d)
  \/ Acquire(p) \/ FindStale(p) \/ Break(p) \/ RunUnlocked(p) \/ Release(p)
  \/ Read(p) \/ Check(p) \/ Publish(p) \/ PublishFails(p) \/ Stamp(p)
  \/ Load(p) \/ LoadRead(p)
  \/ Crash(p)

StateNext == Tick \/ \E p \in Procs : ProcStep(p)

StateSpec == StateInit /\ [][StateNext]_stateVars

-----------------------------------------------------------------------------
(* Properties.                                                             *)

AddsOne == \E d \in Daos : file'.list = Recorded(file.list, d)

AddsUp == clean /\ file' # file => AddsOne

\* What the lock is for: as long as nobody ran beside a holder, every publish
\* adds one record to what the file holds at that moment, whatever becomes of
\* the other processes.
LockedWritesAddUp == [][AddsUp]_stateVars

\* As long as the lock works, a cache that load() serves without reading is the
\* file, although the stamp is taken apart from the read and from the rename:
\* unless it was never published, or its read failed.
CacheIsFresh ==
  \A p \in Procs :
    clean /\ pc[p] = "idle" /\ Serves(p) /\ ~ unpublished[p] /\ ~ unread[p]
      => cache[p] = file.list

\* No lock outlasts the budget of somebody who waits for it: a lock that a dead
\* process left is collected in time, and whoever runs unlocked in the end has
\* seen the lock change hands.
CorpsesAreCollected ==
  \A p \in Procs : pc[p] = "lock" /\ ~ Waiting(p) /\ lock # NoLock => lock > since[p]

\* "The cache is then the only copy of a DAO the user just paid gas for, so
\* load() must keep serving it and must never re-read over it."
UnpublishedIsServed ==
  [][\A p \in Procs :
       unpublished[p] => \E i \in DOMAIN cache'[p] : cache'[p][i] = Head(cache[p])]_stateVars
=============================================================================
