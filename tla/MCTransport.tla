----------------------------- MODULE MCTransport -----------------------------
(* The HTTP transport: the rate limiter of its clients, and the requests it  *)
(* lets through.  They share no state, so a behaviour here is about one of   *)
(* them and the other stands still: their states add up instead of           *)
(* multiplying.                                                              *)
EXTENDS TokenBucket, HttpServer

CONSTANT observed   \* the client that is watched: no client differs from another

VARIABLE subject    \* which of the two the behaviour is about

transportVars == <<subject, bucketVars, httpVars>>

TransportInit ==
  /\ subject \in {"limiter", "requests"}
  /\ BucketInit /\ watch.key = observed
  /\ HttpInit
  /\ subject = "limiter" => idle = {CHOOSE s \in Servers : TRUE}   \* one will do

TransportNext ==
  \/ subject = "limiter" /\ BucketNext /\ UNCHANGED <<subject, httpVars>>
  \/ subject = "requests" /\ HttpNext /\ UNCHANGED <<subject, bucketVars>>

\* HttpFairness, where it applies.
TransportFairness ==
  /\ \A r \in Requests : WF_httpVars(subject = "requests" /\ HandlerStep(r))
  /\ WF_httpVars(subject = "requests" /\ HangupAll)
  /\ WF_httpVars(subject = "requests" /\ Exit)

TransportSpec == TransportInit /\ [][TransportNext]_transportVars /\ TransportFairness
=============================================================================
