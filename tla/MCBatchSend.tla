---------------------------- MODULE MCBatchSend -----------------------------
(* Small instances of BatchSend: a flow beside a dexe_tx_send.      *)
EXTENDS BatchSend

CONSTANTS flow, single

\* A flow of two steps; every other call sends one transaction.
MCSteps == [c \in Calls |-> IF c = flow THEN 2 ELSE 1]
=============================================================================
