----------------------------- MODULE OwnerScope -----------------------------
(***************************************************************************)
(* What the owner is promised when typing the keystore password, said      *)
(* without keys, queues or nodes: an approval covers a list of             *)
(* transactions, and what is broadcast under it is a beginning of that     *)
(* list, in its order, each once, and only while the approval is in use.   *)
(* (class doc of ApprovedSigner, src/src/lib/approval/approvedSigner.ts)   *)
(***************************************************************************)
EXTENDS Integers, Sequences

CONSTANTS
  Calls,
  Lists   \* call |-> the lists of transactions that may be put up for it

VARIABLES
  scope,  \* call |-> the transactions its latest approval covers
  sent,   \* call |-> what was broadcast under that approval
  open    \* call |-> is the approval in use?

scopeVars == <<scope, sent, open>>

ScopeInit ==
  /\ scope = [c \in Calls |-> << >>]
  /\ sent = [c \in Calls |-> << >>]
  /\ open = [c \in Calls |-> FALSE]

\* The owner approves a list for this call.
Grant(c) ==
  /\ ~ open[c]
  /\ \E list \in Lists[c] : scope' = [scope EXCEPT ![c] = list]
  /\ sent' = [sent EXCEPT ![c] = << >>]
  /\ open' = [open EXCEPT ![c] = TRUE]

\* The next transaction of the list; the approval may end with it.
SendNext(c) ==
  /\ open[c]
  /\ Len(sent[c]) < Len(scope[c])
  /\ sent' = [sent EXCEPT ![c] = Append(@, scope[c][Len(@) + 1])]
  /\ \E more \in BOOLEAN : open' = [open EXCEPT ![c] = more]
  /\ UNCHANGED scope

\* Used up, revoked, halted or failed.
End(c) ==
  /\ open[c]
  /\ open' = [open EXCEPT ![c] = FALSE]
  /\ UNCHANGED <<scope, sent>>

ScopeNext == \E c \in Calls : Grant(c) \/ SendNext(c) \/ End(c)

ScopeSpec == ScopeInit /\ [][ScopeNext]_scopeVars
=============================================================================
