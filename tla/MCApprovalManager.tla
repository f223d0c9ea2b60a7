-------------------------- MODULE MCApprovalManager --------------------------
(* Small instances of the approval manager for TLC. *)
EXTENDS ApprovalManager, TLC

\* The bindings of one flow, except "otherFlow".
MCFlowOf == [b \in Bindings |-> IF b = "otherFlow" THEN "g" ELSE "f"]

\* Calls differ only in their names.
CallSymmetry == Permutations(Calls)
==============================================================================
