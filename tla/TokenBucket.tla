----------------------------- MODULE TokenBucket -----------------------------
(***************************************************************************)
(* The rate limiter of the HTTP transport (src/src/http/security.ts,       *)
(* TokenBucketLimiter).  take() runs to its end without an await, so it is *)
(* one action.  Tokens are counted in units: Cost of them are a token, and *)
(* a bucket gains Rate of them in a tick of the clock (the code's perMinute*)
(* and 60 000).  The clock is Date.now: it may be set back.                *)
(*                                                                         *)
(* A definition marked "faulty" is a bug the properties must notice; the   *)
(* specification does not use it.                                          *)
(***************************************************************************)
EXTENDS Integers, FiniteSets

CONSTANTS
  Keys,        \* clients, as rateLimitKey names them
  Never,       \* no time
  Burst,       \* tokens of a full bucket
  Cost, Rate,  \* units of a token; units gained in a tick
  Second,      \* ticks of a second
  SweepAfter,  \* ticks between two sweeps
  MaxKeys,
  MaxNow,      \* bound: the clock's last tick
  MayStepBack  \* whether the clock is ever set back

ASSUME BucketAssumption ==
  /\ IsFiniteSet(Keys) /\ Never \notin Int
  /\ Burst \in Nat \ {0} /\ Cost \in Nat \ {0} /\ Rate \in Nat \ {0} /\ Second \in Nat \ {0}
  /\ SweepAfter \in Nat /\ MaxKeys \in Nat \ {0} /\ MaxNow \in Nat /\ MayStepBack \in BOOLEAN

VARIABLES
  clock,
  present,    \* the keys of the Map
  newer,      \* key |-> the keys inserted into the Map after it
  tokens,     \* key |-> units in its bucket when it was last updated
  updated,
  lastSweep,
  answer,     \* what the last take() returned
  watch       \* history: an observer of one client

limiter == <<present, newer, tokens, updated, lastSweep>>
bucketVars == <<clock, limiter, answer, watch>>

Full == Burst * Cost
Smaller(a, b) == IF a <= b THEN a ELSE b

\* The observer counts what the client was granted since some time, recalls the
\* time it was told to come back at, and who has called since it last did.
Observer(k, t) == [key |-> k, since |-> t, granted |-> 0, due |-> Never, others |-> {}]

BucketInit ==
  /\ clock = 0 /\ lastSweep = 0
  /\ present = {} /\ newer = [k \in Keys |-> {}]
  /\ tokens = [k \in Keys |-> Full] /\ updated = [k \in Keys |-> 0]
  /\ answer = [allowed |-> TRUE, retry |-> 0]
  /\ watch \in {Observer(k, 0) : k \in Keys}

-----------------------------------------------------------------------------
(* The parts of take().                                                    *)

Refilled(k) == tokens[k] + (clock - updated[k]) * Rate

SweptEarly ==   \* faulty: half full is good enough
  IF clock - lastSweep < SweepAfter THEN {} ELSE {k \in present : 2 * Refilled(k) >= Full}

\* maybeSweep(): the buckets that have filled up again.
Swept == IF clock - lastSweep < SweepAfter THEN {} ELSE {k \in present : Refilled(k) >= Full}

Kept == present \ Swept

\* The oldest key of a Map that is full, when a new one comes.
Evicted(k) ==
  IF k \notin Kept /\ Cardinality(Kept) >= MaxKeys
  THEN {j \in Kept : Kept \ {j} \subseteq newer[j]} ELSE {}

\* What the client finds in its bucket.
Have(k) == IF k \in Kept THEN Smaller(Full, Refilled(k)) ELSE Full

\* Math.max(1, Math.ceil(...)): whole seconds until there is a token.
Wait(have) == (Cost - have + Rate * Second - 1) \div (Rate * Second)

MovesToEndIfNew(k) ==   \* faulty: no delete before the set
  newer' = [j \in Keys |-> IF j \notin present' \/ (j = k /\ k \notin Kept) THEN {}
                           ELSE (newer[j] \cap present') \cup ({k} \ Kept)]

\* delete and set: the key is the last of the Map.
MovesToEnd(k) ==
  newer' = [j \in Keys |-> IF j = k \/ j \notin present' THEN {} ELSE (newer[j] \cap present') \cup {k}]

\* The buckets that are left, and the one of k.
Stores(k, units) ==
  /\ tokens' = [j \in Keys |-> IF j = k THEN units ELSE IF j \in present' THEN tokens[j] ELSE Full]
  /\ updated' = [j \in Keys |-> IF j = k THEN clock ELSE IF j \in present' THEN updated[j] ELSE 0]

-----------------------------------------------------------------------------

Watches(k, evicted) ==
  watch' =
    IF k = watch.key
    THEN [watch EXCEPT !.granted = IF answer'.allowed THEN @ + 1 ELSE @,
                       !.due = IF answer'.allowed THEN Never ELSE clock + Second * answer'.retry,
                       !.others = {}]
    ELSE IF watch.key \in evicted THEN Observer(watch.key, clock)
    ELSE [watch EXCEPT !.others = @ \cup {k}]

TakeToken(k) ==
  /\ lastSweep' = IF clock - lastSweep < SweepAfter THEN lastSweep ELSE clock
  /\ present' = (Kept \ Evicted(k)) \cup {k}
  /\ MovesToEnd(k)
  /\ IF Have(k) >= Cost
     THEN Stores(k, Have(k) - Cost) /\ answer' = [allowed |-> TRUE, retry |-> 0]
     ELSE Stores(k, Have(k)) /\ answer' = [allowed |-> FALSE, retry |-> Wait(Have(k))]
  /\ Watches(k, Evicted(k))
  /\ UNCHANGED clock

TimePasses ==
  /\ clock < MaxNow /\ clock' = clock + 1
  /\ UNCHANGED <<limiter, answer, watch>>

\* Somebody sets the clock back: what was counted by it is worth nothing, but
\* what the client was told stands.
StepBack ==
  /\ MayStepBack /\ clock > 0
  /\ \E t \in 0..clock - 1 : clock' = t /\ watch' = [watch EXCEPT !.since = t, !.granted = 0]
  /\ UNCHANGED <<limiter, answer>>

\* The observer starts counting anew.
CountAgain ==
  /\ watch' = [watch EXCEPT !.since = clock, !.granted = 0]
  /\ UNCHANGED <<clock, limiter, answer>>

BucketNext == TimePasses \/ StepBack \/ CountAgain \/ \E k \in Keys : TakeToken(k)

BucketSpec == BucketInit /\ [][BucketNext]_bucketVars

-----------------------------------------------------------------------------
(* Properties.                                                             *)

\* A client's allowance, which a bucket that was swept or never made has whole.
Allowance(k) == IF k \in present THEN Smaller(Full, Refilled(k)) ELSE Full

\* The variables have their types, and the Map never holds more than maxKeys,
\* whatever the sweep finds.
BucketTypeOK ==
  /\ clock \in Nat /\ lastSweep \in Nat
  /\ present \subseteq Keys /\ newer \in [Keys -> SUBSET Keys]
  /\ tokens \in [Keys -> Int] /\ updated \in [Keys -> Nat]
  /\ answer.allowed \in BOOLEAN /\ answer.retry \in Nat
  /\ watch.key \in Keys /\ watch.since \in Nat /\ watch.granted \in Nat
  /\ watch.due \in Nat \cup {Never} /\ watch.others \subseteq Keys
  /\ Cardinality(present) <= MaxKeys

\* From any moment on a client is granted no more than a full bucket and what
\* the time since then refills, unless memory pressure made the limiter forget
\* it: sweeps, refusals and the buckets of others do not add to it.
NeverOvergrants ==
  watch.granted * Cost <= Full + (clock - watch.since) * Rate

\* A client that comes back when Retry-After says finds a token, whatever was
\* swept, evicted or set back meanwhile.
RetryIsHonest ==
  watch.due # Never /\ clock >= watch.due => Allowance(watch.key) >= Cost

\* A client is evicted, and forgiven, only when maxKeys others have called since
\* it last did: many addresses, not many requests.
EvictsTheIdlest ==
  [][watch.key \in present \ present' /\ Allowance(watch.key) < Full
       => Cardinality(watch.others \cup (present' \ present)) >= MaxKeys]_bucketVars

\* What take() does to a client is what RateLimit promises, for sweeping a full
\* bucket and making a full one cancel out.
Promise == INSTANCE RateLimit WITH avail <- [k \in Keys |-> Allowance(k)]
KeepsPromise == Promise!RateSpec
=============================================================================
