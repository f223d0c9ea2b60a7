---------------------------- MODULE ApprovalStore ----------------------------
(***************************************************************************)
(* The in-memory store of owner approvals: class ApprovalStore of          *)
(* src/src/lib/approval/store.ts.                                          *)
(*                                                                         *)
(* An approval record goes                                                 *)
(*                                                                         *)
(*   pending --approve--> approved --take--> executing --finish--> consumed*)
(*                                                                         *)
(* and may leave that path for declined, expired or revoked.  The store    *)
(* holds the decrypted key of a record (its KeyHolder) from approve() to   *)
(* the call of close() that ends the record.                               *)
(*                                                                         *)
(* The class is modelled as an open component: every public operation is   *)
(* an action that any caller may take at any moment, and the two timers of *)
(* a record are actions of their own because node may fire them late.      *)
(* ApprovalManager composes these operations with the callers.             *)
(*                                                                         *)
(* A definition marked "faulty" is a bug the properties must notice; the   *)
(* specification does not use it.                                          *)
(***************************************************************************)
EXTENDS Integers, Sequences, FiniteSets

CONSTANTS
  Bindings,      \* the binding hashes (batchHash) that are put up for approval
  FlowOf,        \* binding |-> its flow: the (tool, from, chainId) it is for
  TTL,           \* StoreOptions.ttlMs
  UseWindow,     \* useWindowMs, already clamped to the TTL by the constructor
  Cooldown,      \* declineCooldownMs
  MaxPending,    \* maxPending
  CreateWindow,  \* the rolling minute of admitCreate
  MaxCreates,    \* maxCreatesPerMinute
  FailWindow,    \* FAILURE_WINDOW_MS
  Threshold,     \* globalFailureThreshold
  MaxFailures,   \* wrong passwords per approval
  BaseLockout,   \* baseLockoutMs
  MaxLockout,    \* MAX_LOCKOUT_MS
  MaxRecords,    \* bound: records ever created
  MaxLockouts,   \* bound: lockouts ever started
  MaxTime        \* bound: the clock

ASSUME BindingAssumption == Bindings # {}

ASSUME WindowAssumption ==
  /\ TTL \in Nat \ {0}
  /\ UseWindow \in 1..TTL
  /\ Cooldown \in Nat
  /\ CreateWindow \in Nat
  /\ FailWindow \in Nat

ASSUME LimitAssumption ==
  /\ MaxPending \in Nat
  /\ MaxCreates \in Nat
  /\ Threshold \in Nat \ {0}
  /\ MaxFailures \in Nat \ {0}

ASSUME LockoutAssumption == BaseLockout \in Nat /\ MaxLockout \in Nat

ASSUME BoundAssumption == MaxRecords \in Nat /\ MaxLockouts \in Nat /\ MaxTime \in Nat

VARIABLES
  now,           \* the clock every operation reads once (opts.now)
  made,          \* how many records were created
  recs,          \* the records, numbered in the order of their creation
  failureTimes,  \* wrong passwords since the last lockout
  lockouts,      \* lockouts so far
  lockedUntil    \* lockedUntilMs

lockVars == <<failureTimes, lockouts, lockedUntil>>
storeVars == <<now, made, recs, lockVars>>

Ids == 1..MaxRecords
NotDecided == -1
Terminal == {"consumed", "declined", "expired", "revoked"}
Live == {"pending", "approved", "executing"}
Status == {"absent"} \cup Live \cup Terminal

Absent == [batch |-> CHOOSE b \in Bindings : TRUE, status |-> "absent", createdAt |-> 0,
           decidedAt |-> NotDecided, failures |-> 0, key |-> FALSE, listed |-> FALSE]

Fresh(b, t) == [batch |-> b, status |-> "pending", createdAt |-> t,
                decidedAt |-> NotDecided, failures |-> 0, key |-> FALSE, listed |-> TRUE]

-----------------------------------------------------------------------------
(* The private helpers, as functions from a record (or from all records)   *)
(* and the time to the new value.                                          *)

FlowIsBinding(r) == r.batch   \* faulty: only a re-run of the same batch is superseded
Flow(r) == FlowOf[r.batch]

\* Faulty: the holder of a closed record is not released.
CloseKeepsKey(r, status, t) ==
  [r EXCEPT !.status = status,
            !.decidedAt = IF status # "consumed" \/ @ = NotDecided THEN t ELSE @]

\* close(): the status, the moment of the decision, and the key let go.
Close(r, status, t) ==
  [r EXCEPT !.status = status,
            !.decidedAt = IF status # "consumed" \/ @ = NotDecided THEN t ELSE @,
            !.key = FALSE]

\* Faulty: the use window is left to its timer.
DueByTTL(r, t) == r.status \in {"pending", "approved"} /\ t >= r.createdAt + TTL

\* Past the TTL, or approved and past the use window.
Due(r, t) ==
  \/ r.status \in {"pending", "approved"} /\ t >= r.createdAt + TTL
  \/ r.status = "approved" /\ t >= r.decidedAt + UseWindow

ExpireIfDue(r, t) == IF Due(r, t) THEN Close(r, "expired", t) ELSE r

\* What a scan of the map does to the records it passes, up to number `upto`.
Sweep(rs, t, upto) ==
  [i \in Ids |-> IF i <= upto /\ rs[i].listed THEN ExpireIfDue(rs[i], t) ELSE rs[i]]

SweepAll(rs, t) == Sweep(rs, t, MaxRecords)

KeepFor == 2 * (IF Cooldown >= TTL THEN Cooldown ELSE TTL)

\* Faulty: prunes by the age of the record, not of the decision.
PruneByAge(rs, t) ==
  [i \in Ids |->
     [rs[i] EXCEPT !.listed = @ /\ ~ (rs[i].status \in Terminal /\ rs[i].createdAt + TTL < t)]]

\* prune(): closed records leave the map; whoever still refers to one keeps it.
Prune(rs, t) ==
  [i \in Ids |->
     [rs[i] EXCEPT !.listed = @ /\ ~ (/\ rs[i].status \in Terminal
                                      /\ rs[i].decidedAt + KeepFor < t)]]

\* findByBatch after its scan `rs`: the listed records of this binding and status.
WithBatch(rs, b, status) ==
  {i \in Ids : rs[i].listed /\ rs[i].batch = b /\ rs[i].status = status}

\* recentDecline: a decline of exactly this binding still in its cooldown.
RecentDecline(rs, b, t) ==
  {i \in WithBatch(rs, b, "declined") : rs[i].decidedAt + Cooldown > t}

\* recentFlowDecline: the same for every binding of the flow.
RecentFlowDecline(rs, f, t) ==
  {i \in Ids : /\ rs[i].listed
               /\ rs[i].status = "declined"
               /\ Flow(rs[i]) = f
               /\ rs[i].decidedAt + Cooldown > t}

\* Faulty: one more than the limit.
AdmitsOneMore(rs, t) ==
  /\ Cardinality({i \in Ids : rs[i].listed /\ rs[i].status = "pending"}) < MaxPending
  /\ Cardinality({i \in 1..made : rs[i].createdAt > t - CreateWindow}) <= MaxCreates

\* admitCreate over records already swept by open().  createTimes is the
\* createdAt of every record made so far, pruned ones included.
Admits(rs, t) ==
  /\ Cardinality({i \in Ids : rs[i].listed /\ rs[i].status = "pending"}) < MaxPending
  /\ Cardinality({i \in 1..made : rs[i].createdAt > t - CreateWindow}) < MaxCreates

\* create(): prune, then the new record.
Created(rs, b, t) == [Prune(rs, t) EXCEPT ![made + 1] = Fresh(b, t)]

Granted(r, t) == [r EXCEPT !.status = "approved", !.decidedAt = t, !.key = TRUE]

\* approve(): i must still be pending once it was expired if due; the key is
\* kept and every other approved record of the flow is superseded.
Approved(rs, i, t) ==
  LET r == ExpireIfDue(rs[i], t) IN
  IF r.status # "pending"
  THEN [rs EXCEPT ![i] = r]
  ELSE [j \in Ids |->
          IF j = i THEN Granted(r, t)
          ELSE IF /\ rs[j].listed
                  /\ rs[j].status = "approved"
                  /\ Flow(rs[j]) = Flow(r)
               THEN Close(rs[j], "revoked", t)
               ELSE rs[j]]

\* decline(): from pending or approved, without looking at the clock.
Declined(rs, i, t) ==
  IF rs[i].status \in {"pending", "approved"}
  THEN [rs EXCEPT ![i] = Close(@, "declined", t)]
  ELSE rs

\* take(): may the holder be handed over (i expired first if due)?
CanTake(rs, i, t) == ExpireIfDue(rs[i], t).status = "approved" /\ rs[i].key

Taken(rs, i, t) ==
  LET r == ExpireIfDue(rs[i], t) IN
  [rs EXCEPT ![i] = IF CanTake(rs, i, t) THEN [r EXCEPT !.status = "executing"] ELSE r]

Finished(rs, i, t) ==
  IF rs[i].status = "executing" THEN [rs EXCEPT ![i] = Close(@, "consumed", t)] ELSE rs

\* Faulty: an approval that was taken can no longer be revoked.
RevokedUnused(rs, i, t) ==
  IF rs[i].status \in {"pending", "approved"} THEN [rs EXCEPT ![i] = Close(@, "revoked", t)] ELSE rs

Revoked(rs, i, t) ==
  IF rs[i].status \in Live THEN [rs EXCEPT ![i] = Close(@, "revoked", t)] ELSE rs

-----------------------------------------------------------------------------
(* Wrong passwords and the global lockout.                                 *)

\* The wrong passwords that still count at time t, and this one.  The times
\* are in order, so what filter() drops comes first.
Recent(times, t) ==
  LET dropped == Cardinality({k \in 1..Len(times) : times[k] <= t - FailWindow})
  IN  Append(SubSeq(times, dropped + 1, Len(times)), t)

LockoutFor(n) ==
  LET doubled == BaseLockout * 2 ^ (n - 1)
  IN  IF doubled <= MaxLockout THEN doubled ELSE MaxLockout

\* The global half of recordFailure().
CountFailure(t) ==
  LET times == Recent(failureTimes, t) IN
  IF Len(times) >= Threshold
  THEN /\ lockouts' = lockouts + 1
       /\ lockedUntil' = t + LockoutFor(lockouts + 1)
       /\ failureTimes' = << >>
  ELSE /\ failureTimes' = times
       /\ UNCHANGED <<lockouts, lockedUntil>>

\* Its per-approval half.
Failed(rs, i, t) ==
  IF rs[i].status # "pending" THEN rs
  ELSE IF rs[i].failures + 1 >= MaxFailures
       THEN Declined([rs EXCEPT ![i].failures = @ + 1], i, t)
       ELSE [rs EXCEPT ![i].failures = @ + 1]

Locked == lockedUntil > now

-----------------------------------------------------------------------------
(* The store as a component of its own: any caller, any order.             *)

StoreInit ==
  /\ now = 0
  /\ made = 0
  /\ recs = [i \in Ids |-> Absent]
  /\ failureTimes = << >>
  /\ lockouts = 0
  /\ lockedUntil = 0

Listed == {i \in Ids : recs[i].listed}

\* admitCreate() and create(), as acquire() calls them.  Bounds: MaxRecords,
\* and the record's whole lifetime fits under MaxTime.
Create(b) ==
  LET swept == SweepAll(recs, now) IN
  /\ made < MaxRecords
  /\ now + TTL <= MaxTime
  /\ Admits(swept, now)
  /\ recs' = Created(swept, b, now)
  /\ made' = made + 1
  /\ UNCHANGED <<now, lockVars>>

\* get() and getByToken(), alone.
Get(i) ==
  /\ recs' = [recs EXCEPT ![i] = ExpireIfDue(@, now)]
  /\ UNCHANGED <<now, made, lockVars>>

\* open(), alone.
Open ==
  /\ recs' = SweepAll(recs, now)
  /\ UNCHANGED <<now, made, lockVars>>

Approve(i) ==
  /\ recs' = Approved(recs, i, now)
  /\ UNCHANGED <<now, made, lockVars>>

Decline(i) ==
  /\ recs' = Declined(recs, i, now)
  /\ UNCHANGED <<now, made, lockVars>>

Take(i) ==
  /\ recs' = Taken(recs, i, now)
  /\ UNCHANGED <<now, made, lockVars>>

Finish(i) ==
  /\ recs' = Finished(recs, i, now)
  /\ UNCHANGED <<now, made, lockVars>>

Revoke(i) ==
  /\ recs' = Revoked(recs, i, now)
  /\ UNCHANGED <<now, made, lockVars>>

\* Bound: MaxLockouts.
RecordFailure(i) ==
  /\ lockouts < MaxLockouts
  /\ recs' = Failed(recs, i, now)
  /\ CountFailure(now)
  /\ UNCHANGED <<now, made>>

\* Faulty: the timers are cleared by approve().
TimerFiresPending(i) ==
  /\ recs[i].listed
  /\ recs[i].status = "pending"
  /\ Due(recs[i], now)
  /\ recs' = [recs EXCEPT ![i] = Close(@, "expired", now)]
  /\ UNCHANGED <<now, made, lockVars>>

\* The TTL timer or the use-window timer of a record fires, on time or late.
TimerFires(i) ==
  /\ recs[i].listed
  /\ Due(recs[i], now)
  /\ recs' = [recs EXCEPT ![i] = Close(@, "expired", now)]
  /\ UNCHANGED <<now, made, lockVars>>

\* Bound: MaxTime.
Tick ==
  /\ now < MaxTime
  /\ now' = now + 1
  /\ UNCHANGED <<made, recs, lockVars>>

StoreNext ==
  \/ Tick
  \/ Open
  \/ \E b \in Bindings : Create(b)
  \/ \E i \in Listed :
       \/ Get(i) \/ Approve(i) \/ Decline(i) \/ Take(i) \/ Finish(i)
       \/ Revoke(i) \/ RecordFailure(i) \/ TimerFires(i)

\* Time passes and node fires a due timer sooner or later.
StoreFairness ==
  /\ WF_storeVars(Tick)
  /\ \A i \in Ids : WF_storeVars(TimerFires(i))

StoreSpec == StoreInit /\ [][StoreNext]_storeVars /\ StoreFairness

-----------------------------------------------------------------------------
(* Properties.                                                             *)

Record == [batch : Bindings, status : Status, createdAt : Nat, decidedAt : Nat \cup {NotDecided},
           failures : Nat, key : BOOLEAN, listed : BOOLEAN]

\* The type of the state.
StoreTypeOK ==
  /\ now \in Nat
  /\ made \in 0..MaxRecords
  /\ recs \in [Ids -> Record]
  /\ failureTimes \in Seq(Nat)
  /\ lockouts \in Nat
  /\ lockedUntil \in Int

\* The store holds a key exactly while the record is approved or executing:
\* no reference to a decrypted key outlives the approval it was typed for,
\* whatever operations race on the record (store.ts header, lines 15-20).
KeyCustody == \A i \in Ids : recs[i].key <=> recs[i].status \in {"approved", "executing"}

\* At most one approved, unused approval per flow: a newer one supersedes
\* the older one, so a re-run can never pick up the key of a stale batch.
OneApprovedPerFlow ==
  \A i, j \in Ids :
    (/\ recs[i].status = "approved" /\ recs[j].status = "approved"
      /\ FlowOf[recs[i].batch] = FlowOf[recs[j].batch])
      => i = j

\* prune() forgets only what nothing refers to any more: a live record stays
\* reachable, and a decline stays visible as long as its cooldown.
PruneForgetsNothingNeeded ==
  \A i \in 1..made :
    ~ recs[i].listed => /\ recs[i].status \in Terminal
                        /\ recs[i].decidedAt + Cooldown <= now

\* The owner is asked at a bounded rate: no rolling window of CreateWindow
\* holds more than MaxCreates new approvals, and no more than MaxPending wait
\* at once.
BoundedNagging ==
  /\ \A t \in 0..now : Cardinality({i \in 1..made : recs[i].createdAt \in (t - CreateWindow + 1)..t}) <= MaxCreates
  /\ Cardinality({i \in 1..made : recs[i].status = "pending"}) <= MaxPending

TakesInTime ==
  \A i \in Ids :
    (recs[i].status # "executing" /\ recs'[i].status = "executing")
      => /\ recs[i].status = "approved"
         /\ now < recs[i].createdAt + TTL
         /\ now < recs[i].decidedAt + UseWindow

\* A key is handed out only inside both windows the owner was told about, and
\* only by the record the owner approved, even when the timers fire late.
TakeInTime == [][TakesInTime]_storeVars

KeepsVerdicts ==
  \A i \in Ids :
    recs[i].status \in Terminal
      => /\ recs'[i].status = recs[i].status
         /\ recs'[i].decidedAt = recs[i].decidedAt
         /\ recs'[i].batch = recs[i].batch

\* A closed approval stays closed, for its binding, with its verdict and the
\* time of the verdict: a late approve, decline, take, finish or timer cannot
\* reopen it.
FinalIsFinal == [][KeepsVerdicts]_storeVars

\* Every approval that waits for the owner or for its call leaves that state.
ApprovalsLapse ==
  \A i \in Ids : recs[i].status \in {"pending", "approved"}
                   ~> recs[i].status \notin {"pending", "approved"}
==============================================================================
