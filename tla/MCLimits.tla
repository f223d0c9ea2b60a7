------------------------------ MODULE MCLimits ------------------------------
(* Everything that counts against a limit: the payments of an AgentFastLane, *)
(* the transfers out of the funder's budget and the broadcasts of a minute.  *)
(* They share no state, so a behaviour here is about one of them and the     *)
(* others stand still: their states add up instead of multiplying.           *)
EXTENDS FastLane, FundBudget, BroadcastGuards, TLC

VARIABLE subject   \* which of them the behaviour is about

limitVars == <<subject, vars, fundVars, guardVars>>

\* While the behaviour is not about the lane, one lane is enough.
LimitInit ==
  /\ subject \in {"lane", "budget", "minute"}
  /\ Init /\ FundInit /\ GuardInit
  /\ subject # "lane" => today = 0 /\ allowed = {}

LimitNext ==
  \/ /\ subject = "lane" /\ Next
     /\ UNCHANGED <<subject, fundVars, guardVars>>
  \/ /\ subject = "budget" /\ FundNext
     /\ UNCHANGED <<subject, vars, guardVars>>
  \/ /\ subject = "minute" /\ GuardNext
     /\ UNCHANGED <<subject, vars, fundVars>>

LimitSpec == LimitInit /\ [][LimitNext]_limitVars

Symmetry == Permutations(Calls) \cup Permutations(Agents)
=============================================================================
