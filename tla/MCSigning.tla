----------------------------- MODULE MCSigning ------------------------------
(* What stands between a tool call and a signature: the store of approvals, *)
(* the batches that a hot key or an approval signs, and the phone.  The     *)
(* signer mode is fixed when the server starts, so a behaviour here is      *)
(* about one of them and the others stand still: their states add up        *)
(* instead of multiplying.                                                  *)
EXTENDS ApprovalStore, BatchSend, WalletConnect

CONSTANTS flow, single

VARIABLE subject   \* which of them the behaviour is about

signingVars == <<subject, storeVars, sendVars, wcVars>>

\* Bindings of one flow.
MCFlowOf == [b \in Bindings |-> "f"]

\* A flow of two steps; every other call sends one transaction.
MCSteps == [c \in Calls |-> IF c = flow THEN 2 ELSE 1]

SigningInit ==
  /\ subject \in {"approvals", "batches", "phone"}
  /\ StoreInit /\ SendInit /\ WcInit
  /\ subject # "batches" => mode = "keystore"

SigningNext ==
  \/ subject = "approvals" /\ StoreNext /\ UNCHANGED <<subject, sendVars, wcVars>>
  \/ subject = "batches" /\ SendNext /\ UNCHANGED <<subject, storeVars, wcVars>>
  \/ subject = "phone" /\ WcNext /\ UNCHANGED <<subject, storeVars, sendVars>>

\* StoreFairness, SendFairness and WcFairness, each where it applies.
SigningFairness ==
  /\ WF_storeVars(subject = "approvals" /\ Tick)
  /\ \A i \in Ids : WF_storeVars(subject = "approvals" /\ TimerFires(i))
  /\ \A c \in Calls : WF_sendVars(subject = "batches" /\ CallStep(c))
  /\ \A c \in Callers : WF_wcVars(subject = "phone" /\ Settles(c))
  /\ \A x \in Proposals : WF_wcVars(subject = "phone" /\ ProposalFails(x))

SigningSpec == SigningInit /\ [][SigningNext]_signingVars /\ SigningFairness
=============================================================================
