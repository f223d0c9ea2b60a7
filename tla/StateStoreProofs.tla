-------------------------- MODULE StateStoreProofs --------------------------
(***************************************************************************)
(* Proofs about StateStore, for any number of processes, any mutations and *)
(* every fault: what the lock is worth while it works, that it does not    *)
(* outlast its budget, and what load() serves.                             *)
(***************************************************************************)
EXTENDS StateStore, TLAPS

-----------------------------------------------------------------------------
(* The types the arguments need.                                           *)

Places == Section \cup {"idle", "lock", "break", "load", "dead"}

Typed ==
  /\ pc \in [Procs -> Places]
  /\ held \in [Procs -> BOOLEAN]
  /\ since \in [Procs -> Nat]
  /\ dao \in [Procs -> Daos]
  /\ seen = [p \in Procs |-> seen[p]]
  /\ cache = [p \in Procs |-> cache[p]]
  /\ stamp \in [Procs -> Nat]
  /\ unpublished \in [Procs -> BOOLEAN]
  /\ unread \in [Procs -> BOOLEAN]
  /\ lock \in {NoLock} \cup Nat
  /\ now \in Nat
  /\ file.ver \in Nat
  /\ clean \in BOOLEAN

\* Every step keeps the types.
LEMMA TypedStep == Typed /\ [StateNext]_stateVars => Typed'
<1> SUFFICES ASSUME Typed, [StateNext]_stateVars PROVE Typed'
  OBVIOUS
<1> USE DEF Typed, Places, Section, Goes, procVars, cacheVars, clockVars
<1>1. ASSUME Tick PROVE Typed'
  BY <1>1 DEF Tick
<1>2. ASSUME NEW p \in Procs, ProcStep(p) PROVE Typed'
  <2>1. ASSUME NEW d \in Daos, Begin(p, d) PROVE Typed'
    BY <2>1 DEF Begin
  <2>2. CASE Acquire(p)
    BY <2>2 DEF Acquire
  <2>3. CASE FindStale(p)
    BY <2>3 DEF FindStale
  <2>4. CASE Break(p)
    BY <2>4 DEF Break
  <2>5. CASE RunUnlocked(p)
    BY <2>5 DEF RunUnlocked
  <2>6. CASE Release(p)
    BY <2>6 DEF Release
  <2>7. CASE Read(p)
    BY <2>7 DEF Read, NoStamp
  <2>8. CASE Check(p)
    BY <2>8 DEF Check
  <2>9. CASE Publish(p)
    BY <2>9 DEF Publish
  <2>10. CASE PublishFails(p)
    BY <2>10 DEF PublishFails
  <2>11. CASE Stamp(p)
    BY <2>11 DEF Stamp
  <2>12. CASE Load(p)
    BY <2>12 DEF Load
  <2>13. CASE LoadRead(p)
    BY <2>13 DEF LoadRead
  <2>14. CASE Crash(p)
    BY <2>14 DEF Crash
  <2> QED
    BY <1>2, <2>1, <2>2, <2>3, <2>4, <2>5, <2>6, <2>7, <2>8, <2>9, <2>10, <2>11, <2>12, <2>13, <2>14
       DEF ProcStep
<1>3. CASE UNCHANGED stateVars
  BY <1>3 DEF stateVars
<1> QED
  BY <1>1, <1>2, <1>3 DEF StateNext

\* The first state has them.
LEMMA TypedInit == StateInit => Typed
  BY DEF StateInit, Typed, Places, Section, NoStamp

-----------------------------------------------------------------------------
(* While the lock works there is one process in the section, it holds the  *)
(* lock, and the file is what it read.                                     *)

HoldersAreInside == \A p \in Procs : held[p] => pc[p] \in Section

LockWorks ==
  clean =>
    /\ \A p \in Procs : pc[p] \in Section => held[p]
    /\ \A p \in Procs : held[p] => lock # NoLock
    /\ \A p, q \in Procs : held[p] /\ held[q] => p = q
    /\ \A p \in Procs : pc[p] = "publish" => seen[p] = file.list /\ seen[p] # Null

LockInv == HoldersAreInside /\ LockWorks

\* Every step keeps it.
LEMMA LockStep == Typed /\ LockInv /\ [StateNext]_stateVars => LockInv'
<1> SUFFICES ASSUME Typed, LockInv, [StateNext]_stateVars PROVE LockInv'
  OBVIOUS
<1> USE DEF Typed, LockInv, HoldersAreInside, LockWorks, Places, Section, Goes
<1>1. ASSUME Tick PROVE LockInv'
  BY <1>1 DEF Tick, procVars
<1>2. ASSUME NEW p \in Procs, ProcStep(p) PROVE LockInv'
  <2>1. ASSUME NEW d \in Daos, Begin(p, d) PROVE LockInv'
    BY <2>1 DEF Begin
  <2>2. CASE Acquire(p)
    BY <2>2 DEF Acquire, Free, NoLock
  <2>3. CASE FindStale(p)
    BY <2>3 DEF FindStale
  <2>4. CASE Break(p)
    BY <2>4 DEF Break
  <2>5. CASE RunUnlocked(p)
    BY <2>5 DEF RunUnlocked
  <2>6. CASE Release(p)
    BY <2>6 DEF Release
  <2>7. CASE Read(p)
    BY <2>7 DEF Read, Texts
  <2>8. CASE Check(p)
    BY <2>8 DEF Check, StillHolds
  <2>9. CASE Publish(p)
    BY <2>9 DEF Publish
  <2>10. CASE PublishFails(p)
    BY <2>10 DEF PublishFails
  <2>11. CASE Stamp(p)
    BY <2>11 DEF Stamp
  <2>12. CASE Load(p)
    BY <2>12 DEF Load
  <2>13. CASE LoadRead(p)
    BY <2>13 DEF LoadRead
  <2>14. CASE Crash(p)
    BY <2>14 DEF Crash
  <2> QED
    BY <1>2, <2>1, <2>2, <2>3, <2>4, <2>5, <2>6, <2>7, <2>8, <2>9, <2>10, <2>11, <2>12, <2>13, <2>14
       DEF ProcStep
<1>3. CASE UNCHANGED stateVars
  BY <1>3 DEF stateVars, procVars
<1> QED
  BY <1>1, <1>2, <1>3 DEF StateNext

\* Nothing but a publish changes the file.
LEMMA OnlyPublishWrites ==
  ASSUME [StateNext]_stateVars, file' # file
  PROVE  \E p \in Procs : Publish(p)
  BY DEF StateNext, stateVars, Tick, ProcStep, Begin, Acquire, FindStale, Break, RunUnlocked, Release,
         Read, Check, PublishFails, Stamp, Load, LoadRead, Crash

\* A publish under a working lock adds one record to the file.
LEMMA PublishAddsUp == Typed /\ LockInv /\ [StateNext]_stateVars => AddsUp
<1> SUFFICES ASSUME Typed, LockInv, [StateNext]_stateVars, clean, file' # file
             PROVE  AddsOne
  BY DEF AddsUp
<1>1. PICK p \in Procs : Publish(p)
  BY OnlyPublishWrites
<1>2. seen[p] = file.list /\ seen[p] # Null
  BY <1>1 DEF LockInv, LockWorks, Publish
<1>3. file'.list = Recorded(State(seen[p]), dao[p]) /\ dao[p] \in Daos
  BY <1>1 DEF Publish, Typed
<1> QED
  BY <1>2, <1>3 DEF AddsOne, State

\* The first state is locked well: nobody is inside.
LEMMA LockInit == StateInit => LockInv
  BY DEF StateInit, LockInv, HoldersAreInside, LockWorks, Section

\* As long as nobody ran beside a holder, no update is lost, whatever crashes,
\* leaks or fails around it and however slow the holders are.
THEOREM NothingIsLost == StateSpec => LockedWritesAddUp
  BY TypedInit, TypedStep, LockInit, LockStep, PublishAddsUp, PTL DEF StateSpec, LockedWritesAddUp

-----------------------------------------------------------------------------
(* The budget.                                                             *)

LockIsPast == lock # NoLock => lock <= now

\* Time stands still for a waiting process that could break its lock.
WaitsAreShort ==
  \A p \in Procs :
    pc[p] \in {"lock", "break"} /\ lock # NoLock /\ lock <= since[p]
      => now <= lock + Stale + 1 \/ now <= since[p]

WaitInv == LockIsPast /\ WaitsAreShort

\* Every step keeps it.
LEMMA WaitStep == Typed /\ WaitInv /\ [StateNext]_stateVars => WaitInv'
<1> SUFFICES ASSUME Typed, WaitInv, [StateNext]_stateVars PROVE WaitInv'
  OBVIOUS
<1> USE StateAssumption DEF Typed, WaitInv, LockIsPast, WaitsAreShort, Places, Section, Goes, NoLock,
                              clockVars
<1>1. ASSUME Tick PROVE WaitInv'
  <2>1. LockIsPast'
    BY <1>1 DEF Tick
  <2>2. ASSUME NEW p \in Procs, pc[p] \in {"lock", "break"}, lock # NoLock, lock <= since[p]
        PROVE  now + 1 <= lock + Stale + 1
    <3>1. since[p] \in Nat /\ lock \in Nat
      BY <2>2
    <3>2. CASE Waiting(p)
      BY <1>1, <2>2, <3>1, <3>2 DEF Tick, IsStale
    <3>3. CASE ~ Waiting(p)
      BY <2>2, <3>1, <3>3 DEF Waiting
    <3> QED
      BY <3>2, <3>3
  <2> QED
    BY <1>1, <2>1, <2>2 DEF Tick, procVars
<1>2. ASSUME NEW p \in Procs, ProcStep(p) PROVE WaitInv'
  <2>1. ASSUME NEW d \in Daos, Begin(p, d) PROVE WaitInv'
    BY <2>1 DEF Begin
  <2>2. CASE Acquire(p)
    BY <2>2 DEF Acquire
  <2>3. CASE FindStale(p)
    BY <2>3 DEF FindStale
  <2>4. CASE Break(p)
    BY <2>4 DEF Break
  <2>5. CASE RunUnlocked(p)
    BY <2>5 DEF RunUnlocked
  <2>6. CASE Release(p)
    BY <2>6 DEF Release
  <2>7. CASE Read(p)
    BY <2>7 DEF Read
  <2>8. CASE Check(p)
    BY <2>8 DEF Check
  <2>9. CASE Publish(p)
    BY <2>9 DEF Publish
  <2>10. CASE PublishFails(p)
    BY <2>10 DEF PublishFails
  <2>11. CASE Stamp(p)
    BY <2>11 DEF Stamp
  <2>12. CASE Load(p)
    BY <2>12 DEF Load
  <2>13. CASE LoadRead(p)
    BY <2>13 DEF LoadRead
  <2>14. CASE Crash(p)
    BY <2>14 DEF Crash
  <2> QED
    BY <1>2, <2>1, <2>2, <2>3, <2>4, <2>5, <2>6, <2>7, <2>8, <2>9, <2>10, <2>11, <2>12, <2>13, <2>14
       DEF ProcStep
<1>3. CASE UNCHANGED stateVars
  BY <1>3 DEF stateVars, procVars, clockVars
<1> QED
  BY <1>1, <1>2, <1>3 DEF StateNext

\* It says more than the property.
LEMMA WaitSuffices == Typed /\ WaitInv => CorpsesAreCollected
<1> SUFFICES ASSUME Typed, WaitInv, NEW p \in Procs,
                    pc[p] = "lock", ~ Waiting(p), lock # NoLock
             PROVE  lock > since[p]
  BY DEF CorpsesAreCollected
<1>1. since[p] \in Nat /\ lock \in Nat
  BY DEF Typed
<1> QED
  BY <1>1, StateAssumption DEF WaitInv, WaitsAreShort, Waiting, Typed

\* A lock left by a process that died is collected inside the budget of
\* everybody who waits for it.
THEOREM LocksDoNotOutlast == StateSpec => []CorpsesAreCollected
<1>1. StateInit => WaitInv
  BY DEF StateInit, WaitInv, LockIsPast, WaitsAreShort
<1> QED
  BY <1>1, TypedInit, TypedStep, WaitStep, WaitSuffices, PTL DEF StateSpec

-----------------------------------------------------------------------------
(* The cache.                                                              *)

Outside == {"idle", "lock", "break", "release", "load"}

\* Signatures only grow, and a file that does not exist holds nothing.
StampsArePast ==
  /\ \A p \in Procs : stamp[p] <= file.ver
  /\ file.ver = NoStamp => file.list = << >>
  /\ \A p \in Procs : pc[p] = "stamp" => file.ver # NoStamp

\* From the read to the stat the cache is the update, stamped with nothing.
CacheIsTheUpdate ==
  \A p \in Procs :
    pc[p] \in {"check", "publish", "stamp"}
      => cache[p] = Recorded(State(seen[p]), dao[p]) /\ stamp[p] = NoStamp

\* A stamp that is the file's belongs to a cache that is the file's.
StampsAreTrue ==
  clean =>
    /\ \A p \in Procs : pc[p] = "stamp" => cache[p] = file.list
    /\ \A p \in Procs :
         pc[p] \in Outside \ {"load"} /\ stamp[p] = file.ver /\ ~ unpublished[p] /\ ~ unread[p]
         /\ cache[p] # Null
           => cache[p] = file.list

\* Before the first publish there is nothing to serve but nothing.
NothingYet ==
  \A p \in Procs :
    file.ver = NoStamp /\ pc[p] \in Outside /\ ~ unpublished[p]
      => cache[p] \in {Null, << >>}

CacheInv == StampsArePast /\ CacheIsTheUpdate /\ StampsAreTrue /\ NothingYet

LEMMA CacheInit == StateInit => CacheInv
  BY DEF StateInit, CacheInv, StampsArePast, CacheIsTheUpdate, StampsAreTrue, NothingYet, NoStamp

\* Every step keeps it.
LEMMA CacheStep == Typed /\ LockInv /\ CacheInv /\ [StateNext]_stateVars => CacheInv'
<1> SUFFICES ASSUME Typed, LockInv, CacheInv, [StateNext]_stateVars PROVE CacheInv'
  OBVIOUS
<1> USE DEF Typed, CacheInv, StampsArePast, CacheIsTheUpdate, StampsAreTrue, NothingYet, Outside,
            Places, Section, Goes, NoStamp, cacheVars
<1>1. ASSUME Tick PROVE CacheInv'
  BY <1>1 DEF Tick, procVars
<1>2. ASSUME NEW p \in Procs, ProcStep(p) PROVE CacheInv'
  <2>1. ASSUME NEW d \in Daos, Begin(p, d) PROVE CacheInv'
    BY <2>1 DEF Begin
  <2>2. CASE Acquire(p)
    BY <2>2 DEF Acquire
  <2>3. CASE FindStale(p)
    BY <2>3 DEF FindStale
  <2>4. CASE Break(p)
    BY <2>4 DEF Break
  <2>5. CASE RunUnlocked(p)
    BY <2>5 DEF RunUnlocked
  <2>6. CASE Release(p)
    BY <2>6 DEF Release
  <2>7. CASE Read(p)
    BY <2>7 DEF Read
  <2>8. CASE Check(p)
    BY <2>8 DEF Check
  <2>9. CASE Publish(p)
    BY <2>9 DEF Publish, LockInv, LockWorks
  <2>10. CASE PublishFails(p)
    BY <2>10 DEF PublishFails
  <2>11. CASE Stamp(p)
    BY <2>11 DEF Stamp
  <2>12. CASE Load(p)
    BY <2>12 DEF Load
  <2>13. CASE LoadRead(p)
    BY <2>13 DEF LoadRead, Texts, State
  <2>14. CASE Crash(p)
    BY <2>14 DEF Crash
  <2> QED
    BY <1>2, <2>1, <2>2, <2>3, <2>4, <2>5, <2>6, <2>7, <2>8, <2>9, <2>10, <2>11, <2>12, <2>13, <2>14
       DEF ProcStep
<1>3. CASE UNCHANGED stateVars
  BY <1>3 DEF stateVars, procVars
<1> QED
  BY <1>1, <1>2, <1>3 DEF StateNext

\* It says more than the property.
LEMMA CacheSuffices == Typed /\ CacheInv => CacheIsFresh
  BY DEF Typed, CacheInv, StampsArePast, StampsAreTrue, NothingYet, Outside, CacheIsFresh, Serves, NoStamp, Null

\* Whatever races the stamps, load() serves the file while the lock works.
THEOREM LoadIsFresh == StateSpec => []CacheIsFresh
  BY TypedInit, TypedStep, LockInit, LockStep, CacheInit, CacheStep, CacheSuffices, PTL DEF StateSpec
=============================================================================
