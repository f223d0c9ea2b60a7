--------------------------- MODULE BroadcastGuards ---------------------------
(***************************************************************************)
(* The guards that every transaction of a server-side key passes before it *)
(* is signed: runBroadcastGuards (src/src/lib/broadcastGuards.ts), between *)
(* a caller's decision to send and its place in the broadcast queue.       *)
(*                                                                         *)
(* The static guards (B6, B7, B12 and the chain comparison of B11) decide  *)
(* at once; the probe for code (B11) and the simulation (B9) ask the node  *)
(* and fail open; the rate limit (B10) keeps the times of the last         *)
(* admissions in an array which all calls of the process share.  An        *)
(* admission is counted whatever becomes of the transaction.               *)
(*                                                                         *)
(* The code counts with Date.now (`wall`), which somebody may set back.    *)
(* The properties are about time as it passes (`real`).                    *)
(*                                                                         *)
(* A definition marked "faulty" is a bug the properties must notice; the   *)
(* specification does not use it.                                          *)
(***************************************************************************)
EXTENDS Integers, Sequences, FiniteSets

CONSTANTS
  Senders,     \* the calls that send, one transaction at a time
  Composites,  \* those of composite flows: skipSimulation
  Limit,       \* cfg.signerMaxBroadcastsPerMin
  Minute,      \* 60_000, in ticks
  MaxReal,     \* bound of the time
  MaxStamps    \* bound: admissions ever made

ASSUME GuardAssumption ==
  /\ Composites \subseteq Senders
  /\ Limit \in Nat \ {0} /\ Minute \in Nat
  /\ MaxReal \in Nat /\ MaxStamps \in Nat

VARIABLES
  sending,   \* call |-> where its transaction stands
  stamps,    \* every time pushed; broadcastTimestamps is what `shifted` leaves of it
  shifted,   \* how many the prune loop has shifted off the front
  wall,
  real,
  passedAt,  \* history: the real times of the admissions
  steady     \* history: the clock was never set back

window == <<stamps, shifted, passedAt>>
time == <<wall, real, steady>>
guardVars == <<sending, window, time>>

\* "code", "simulation", "gate": it waits for that guard.  "refused", "full":
\* a guard, or the rate limit, has thrown.  "passed": on its way to the queue.
GuardPlaces == {"idle", "code", "simulation", "gate", "refused", "full", "passed"}

GuardInit ==
  /\ sending = [c \in Senders |-> "idle"]
  /\ stamps = << >> /\ shifted = 0 /\ passedAt = << >>
  /\ wall = 0 /\ real = 0 /\ steady = TRUE

Goes(c, place) == sending' = [sending EXCEPT ![c] = place]

-----------------------------------------------------------------------------
(* The guards before the rate limit.                                       *)

\* Where a transaction that has its code stands next.
AfterCode(c) == IF c \in Composites THEN "gate" ELSE "simulation"

\* B6, B7, B12 and the chain of B11.  A value transfer needs no code.
Begins(c) ==
  /\ sending[c] = "idle"
  /\ \E place \in {"refused", "code", AfterCode(c)} : Goes(c, place)
  /\ UNCHANGED <<window, time>>

\* B11: there is code, or the node does not say; or there is none.
CodeProbed(c) ==
  /\ sending[c] = "code"
  /\ \E place \in {"refused", AfterCode(c)} : Goes(c, place)
  /\ UNCHANGED <<window, time>>

\* B9: it succeeds, or the node does not say; or it reverts.
Simulated(c) ==
  /\ sending[c] = "simulation"
  /\ \E place \in {"refused", "gate"} : Goes(c, place)
  /\ UNCHANGED <<window, time>>

-----------------------------------------------------------------------------
(* B10, in one turn of rateLimitGate.                                      *)

\* What is older than that has left the window.
CutoffEarly(t) == t - Minute + 1   \* faulty: a tick too early
Cutoff(t) == t - Minute

\* The loop shifts while the first time is older: it stops with n shifted.
StopsAtStill(n) == n = shifted   \* faulty: no loop
StopsAt(n) ==
  /\ \A i \in shifted + 1..n : stamps[i] < Cutoff(wall)
  /\ n < Len(stamps) => stamps[n + 1] >= Cutoff(wall)

HasRoom(n) == Len(stamps) - n < Limit

Refuses(c) ==
  /\ sending[c] = "gate"
  /\ \E n \in shifted..Len(stamps) : StopsAt(n) /\ ~ HasRoom(n) /\ shifted' = n
  /\ Goes(c, "full")
  /\ UNCHANGED <<stamps, passedAt, time>>

Admits(c) ==
  /\ sending[c] = "gate" /\ Len(stamps) < MaxStamps
  /\ \E n \in shifted..Len(stamps) : StopsAt(n) /\ HasRoom(n) /\ shifted' = n
  /\ stamps' = Append(stamps, wall)
  /\ passedAt' = Append(passedAt, real)
  /\ Goes(c, "passed")
  /\ UNCHANGED time

-----------------------------------------------------------------------------
(* After the guards, and the time.                                         *)

\* The call goes on, to the queue or to its result, and may send again.  What
\* becomes of the transaction does not touch the window.
GoesOn(c) ==
  /\ sending[c] \in {"refused", "full", "passed"}
  /\ Goes(c, "idle")
  /\ UNCHANGED <<window, time>>

GuardTick ==
  /\ real < MaxReal
  /\ real' = real + 1 /\ wall' = wall + 1
  /\ UNCHANGED <<sending, window, steady>>

WallStepsBack ==
  /\ \E t \in 0..wall - 1 : wall' = t
  /\ steady' = FALSE
  /\ UNCHANGED <<sending, window, real>>

GuardNext ==
  \/ \E c \in Senders :
       \/ Begins(c) \/ CodeProbed(c) \/ Simulated(c)
       \/ Refuses(c) \/ Admits(c) \/ GoesOn(c)
  \/ GuardTick \/ WallStepsBack

GuardSpec == GuardInit /\ [][GuardNext]_guardVars

-----------------------------------------------------------------------------
(* Properties.                                                             *)

\* Of Limit + 1 admissions in a row, the last comes more than a minute after the
\* first: as time passes, whatever was done to the clock, however the calls
\* overlap.
WindowHolds ==
  \A i \in DOMAIN passedAt :
    i + Limit \in DOMAIN passedAt => passedAt[i + Limit] - passedAt[i] > Minute

\* On a clock that is never set back, the rate limit refuses only when Limit
\* admissions of the last minute fill it: nothing else takes a place.
RefusesWhenFull ==
  \A c \in Senders :
    steady /\ sending[c] # "full" /\ sending'[c] = "full"
      => \E i \in DOMAIN passedAt :
            /\ Len(passedAt) - i + 1 = Limit
            /\ \A j \in i..Len(passedAt) : passedAt[j] + Minute >= real
RefusesOnlyWhenFull == [][RefusesWhenFull]_guardVars
=============================================================================
