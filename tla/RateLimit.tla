------------------------------ MODULE RateLimit ------------------------------
(***************************************************************************)
(* What the rate limiter of the HTTP transport promises                    *)
(* (src/src/http/security.ts, TokenBucketLimiter): every client has an     *)
(* allowance that fills up with time, each request it is granted costs a   *)
(* token, and a refusal says when to come back.  Under memory pressure a   *)
(* client may be forgiven, and a wall clock that is set back may cost it   *)
(* some of its allowance; nothing else touches it.                         *)
(***************************************************************************)
EXTENDS Integers

CONSTANTS
  Keys,      \* clients
  Full,      \* an allowance that is full, in units
  Cost,      \* units of a token
  Rate,      \* units gained in a tick
  Second     \* ticks of a second

VARIABLES
  avail,     \* client |-> its allowance
  answer     \* of the last take()

Least(a, b) == IF a <= b THEN a ELSE b

RateInit ==
  /\ avail = [k \in Keys |-> Full]
  /\ answer = [allowed |-> TRUE, retry |-> 0]

Elapse ==
  /\ avail' = [k \in Keys |-> Least(Full, avail[k] + Rate)]
  /\ UNCHANGED answer

SetBack ==
  /\ DOMAIN avail' = Keys /\ \A k \in Keys : avail'[k] <= avail[k]
  /\ UNCHANGED answer

\* The seconds after which the allowance holds a token, and not one more than
\* that (but at least one).
Honest(have, seconds) ==
  /\ seconds >= 1
  /\ have + seconds * (Rate * Second) >= Cost
  /\ seconds > 1 => have + (seconds - 1) * (Rate * Second) < Cost

Take(k, forgiven) ==
  LET have(j) == IF j \in forgiven THEN Full ELSE avail[j]
  IN  /\ answer'.allowed <=> avail[k] >= Cost
      /\ ~ answer'.allowed => Honest(avail[k], answer'.retry)
      /\ avail' = [j \in Keys |-> IF j = k /\ answer'.allowed THEN avail[k] - Cost ELSE have(j)]

RateNext ==
  \/ Elapse \/ SetBack
  \/ \E k \in Keys : \E forgiven \in SUBSET (Keys \ {k}) : Take(k, forgiven)

RateSpec == RateInit /\ [][RateNext]_<<avail, answer>>
=============================================================================
