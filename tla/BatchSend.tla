----------------------------- MODULE BatchSend ------------------------------
(***************************************************************************)
(* Sending batches of transactions from one address, with everything that  *)
(* can go wrong on the way to the chain:                                   *)
(*                                                                         *)
(*   flow    sendWithKeystoreApproval and the hot-key loop of sendOrCollect*)
(*           (src/src/tools/flow.ts)                                       *)
(*   single  dexe_tx_send in either mode (src/src/tools/txSend.ts)         *)
(*                                                                         *)
(* and what they share: ApprovedSigner (lib/approval/approvedSigner.ts),   *)
(* the promise chain of withBroadcastLock (lib/signer.ts) and the waits of *)
(* lib/txWait.ts.  Every await is a step boundary, so the calls interleave *)
(* with each other, with the node and with the chain.  A call that failed  *)
(* is repeated when its own advice allows it.                              *)
(*                                                                         *)
(* In hot-key mode nobody is asked and no approval is kept.                *)
(*                                                                         *)
(* A definition marked "faulty" is a bug the properties must notice; the   *)
(* specification does not use it.                                          *)
(***************************************************************************)
EXTENDS Integers, Sequences, FiniteSets

CONSTANTS
  Calls,      \* the tool calls, all sending from the same address
  Singles,    \* the calls that are dexe_tx_send
  Steps,      \* flow |-> how many transactions its batch has
  Faults,     \* how a request to the node may fail in transport
  MaxRounds,  \* bound: how often one call is made
  MaxTxs      \* bound: transactions the node ever accepts

ASSUME CallAssumption ==
  /\ Singles \subseteq Calls
  /\ Steps \in [Calls -> Nat \ {0}]
  /\ \A c \in Singles : Steps[c] = 1

\* "timeout": the request's own TIMEOUT.  "reset": any other transport error,
\* like a 502 or a closed connection.
ASSUME FaultAssumption == Faults \subseteq {"timeout", "reset"}

ASSUME SendBoundAssumption == MaxRounds \in Nat /\ MaxTxs \in Nat

VARIABLES
  mode,     \* SignerManager.mode, of the two that sign here
  pc,       \* call |-> the await it stands at
  round,    \* call |-> how often it was made
  first,    \* call |-> the first step of this round's batch
  at,       \* call |-> the step in hand; those before it are in its ledger
  outcome,  \* call |-> the mode its last result carries
  advice,   \* call |-> what the result says about a re-run
  status,   \* call |-> the status of its approval record
  key,      \* call |-> does its ApprovedSigner still hold the key?
  cursor,   \* call |-> ApprovedSigner.cursor, as the step expected next
  queue,    \* broadcastQueues of the address: who waits, first the running task
  nonce,    \* call |-> the nonce its wallet has read
  txs       \* what the node accepted, in that order

callVars == <<pc, round, first, at, outcome, advice>>
approvalVars == <<status, key, cursor>>
accountVars == <<queue, nonce, txs>>
sendVars == <<mode, callVars, approvalVars, accountVars>>

\* Is the signer the keystore (else a hot key)?
Keystore == mode = "keystore"

Waits == {"idle", "before", "guards", "estimate", "queued", "broadcast", "receipt"}
Nonces == 0..MaxTxs

TypeOK ==
  /\ mode \in {"keystore", "unattended"}
  /\ pc \in [Calls -> Waits]
  /\ round \in [Calls -> 0..MaxRounds]
  /\ first \in [Calls -> Nat]
  /\ at \in [Calls -> Nat]
  /\ outcome \in [Calls -> {"none", "executed", "halted", "failed", "sent"}]
  /\ advice \in [Calls -> {"none", "rerun", "checkFirst"}]
  /\ status \in [Calls -> {"none", "executing", "consumed", "revoked"}]
  /\ key \in [Calls -> BOOLEAN]
  /\ cursor \in [Calls -> Nat]
  /\ queue \in Seq(Calls)
  /\ nonce \in [Calls -> Nonces]
  /\ txs \in Seq([call : Calls, round : 0..MaxRounds, step : Nat, nonce : Nonces,
                  state : {"pending", "mined", "reverted", "dropped"}])
  /\ Len(txs) <= MaxTxs

SendInit ==
  /\ mode \in {"keystore", "unattended"}
  /\ pc = [c \in Calls |-> "idle"]
  /\ round = [c \in Calls |-> 0]
  /\ first = [c \in Calls |-> 1]
  /\ at = [c \in Calls |-> 1]
  /\ outcome = [c \in Calls |-> "none"]
  /\ advice = [c \in Calls |-> "none"]
  /\ status = [c \in Calls |-> "none"]
  /\ key = [c \in Calls |-> FALSE]
  /\ cursor = [c \in Calls |-> 1]
  /\ queue = << >>
  /\ nonce = [c \in Calls |-> 0]
  /\ txs = << >>

-----------------------------------------------------------------------------
(* The chain as the calls see it.                                          *)

InState(s) == {k \in DOMAIN txs : txs[k].state = s}
Alive == InState("pending") \cup InState("mined") \cup InState("reverted")

\* eth_getTransactionCount(address, "pending"): the first nonce nobody holds.
PendingCount(n) ==
  /\ \A k \in Alive : txs[k].nonce # n
  /\ \A m \in 0..(n - 1) : \E k \in Alive : txs[k].nonce = m

\* The transactions of this round's step in hand.
InHand(c) ==
  {k \in DOMAIN txs : txs[k].call = c /\ txs[k].round = round[c] /\ txs[k].step = at[c]}

Done(c) == {s \in 1..Steps[c] : \E k \in InState("mined") : txs[k].call = c /\ txs[k].step = s}

FirstOfBatch(c, s) == s = 1   \* faulty: a re-run sends the whole batch again

\* A re-run re-reads the chain and leaves out what is already true.  A step is
\* sent only after the one before it was mined, so what is left is a suffix.
FirstUndone(c, s) == s \notin Done(c) /\ \A r \in 1..(s - 1) : r \in Done(c)

Mine(k) ==
  /\ txs[k].state = "pending"
  /\ \A n \in 0..(txs[k].nonce - 1) : \E j \in Alive : txs[j].nonce = n /\ txs[j].state # "pending"
  /\ \E s \in {"mined", "reverted"} : txs' = [txs EXCEPT ![k].state = s]
  /\ UNCHANGED <<mode, callVars, approvalVars, queue, nonce>>

\* The node forgets a transaction it accepted.
Forget(k) ==
  /\ txs[k].state = "pending"
  /\ txs' = [txs EXCEPT ![k].state = "dropped"]
  /\ UNCHANGED <<mode, callVars, approvalVars, queue, nonce>>

-----------------------------------------------------------------------------
(* How a call ends.                                                        *)

\* Faulty: the exit leaves the approval in use.
LeavesOpen(c) == UNCHANGED approvalVars

\* ApprovedSigner.revoke(): the key and the record go together.
RevokeApproval(c) ==
  IF Keystore
  THEN /\ status' = [status EXCEPT ![c] = "revoked"]
       /\ key' = [key EXCEPT ![c] = FALSE]
       /\ UNCHANGED cursor
  ELSE UNCHANGED approvalVars

\* ApprovedSigner.finish() with the cursor at n: used up if that is past the
\* last step.
FinishAt(c, n) ==
  IF Keystore
  THEN /\ status' = [status EXCEPT ![c] = IF n > Steps[c] THEN "consumed" ELSE "revoked"]
       /\ key' = [key EXCEPT ![c] = FALSE]
       /\ cursor' = [cursor EXCEPT ![c] = n]
  ELSE UNCHANGED approvalVars

Returns(c, result, says) ==
  /\ pc' = [pc EXCEPT ![c] = "idle"]
  /\ outcome' = [outcome EXCEPT ![c] = result]
  /\ advice' = [advice EXCEPT ![c] = says]

\* broadcastTimeout(): anything that carries ethers' TIMEOUT is told apart.
AdviceFor(c, why) ==
  IF c \in Singles THEN "none" ELSE IF why = "timeout" THEN "checkFirst" ELSE "rerun"

\* The catch of the loop.
Fail(c, why) ==
  /\ RevokeApproval(c)
  /\ Returns(c, "failed", AdviceFor(c, why))
  /\ UNCHANGED <<round, first, at>>

-----------------------------------------------------------------------------
(* One call.                                                               *)

\* The advice of the last result, followed: "checkFirst" names a transaction
\* to look up, and only an answer other than pending lets the call go on.
MayRepeat(c) ==
  /\ c \notin Singles
  /\ \/ outcome[c] = "halted"
     \/ advice[c] = "rerun"
     \/ /\ advice[c] = "checkFirst"
        /\ InHand(c) # {}
        /\ InHand(c) \cap InState("pending") = {}

\* The batch is put together and, with the keystore, approved and taken.
Begin(c, s) ==
  /\ pc[c] = "idle" /\ round[c] < MaxRounds
  /\ round[c] = 0 \/ MayRepeat(c)
  /\ FirstUndone(c, s)
  /\ round' = [round EXCEPT ![c] = @ + 1]
  /\ first' = [first EXCEPT ![c] = s]
  /\ at' = [at EXCEPT ![c] = s]
  /\ pc' = [pc EXCEPT ![c] = IF c \in Singles THEN "guards" ELSE "before"]
  /\ outcome' = [outcome EXCEPT ![c] = "none"]
  /\ advice' = [advice EXCEPT ![c] = "none"]
  /\ IF Keystore
     THEN /\ status' = [status EXCEPT ![c] = "executing"]
          /\ key' = [key EXCEPT ![c] = TRUE]
          /\ cursor' = [cursor EXCEPT ![c] = s]
     ELSE UNCHANGED approvalVars
  /\ UNCHANGED <<mode, accountVars>>

OnHalt(c) == RevokeApproval(c)

\* beforeStep() asks to stop.
Halt(c) ==
  /\ pc[c] = "before"
  /\ OnHalt(c)
  /\ Returns(c, "halted", "none")
  /\ UNCHANGED <<round, first, at, accountVars>>

\* beforeStep() lets the step go on, or throws, which counts the same.
Go(c) ==
  /\ pc[c] = "before"
  /\ pc' = [pc EXCEPT ![c] = "guards"]
  /\ UNCHANGED <<round, first, at, outcome, advice, approvalVars, accountVars>>

\* Faulty: the approval is closed when the last transaction is handed over.
EnqueueClosed(c) ==
  /\ queue' = Append(queue, c)
  /\ pc' = [pc EXCEPT ![c] = "queued"]
  /\ IF at[c] = Steps[c] THEN FinishAt(c, at[c] + 1) ELSE UNCHANGED approvalVars
  /\ UNCHANGED <<round, first, at, outcome, advice, nonce, txs>>

\* withBroadcastLock(): the task is chained behind the address's last one.
Enqueue(c) ==
  /\ queue' = Append(queue, c)
  /\ pc' = [pc EXCEPT ![c] = "queued"]
  /\ UNCHANGED approvalVars
  /\ UNCHANGED <<round, first, at, outcome, advice, nonce, txs>>

\* ApprovedSigner.send() before its first await: the key is there and the step
\* is the one expected next.
Expected(c) == key[c] /\ cursor[c] = at[c] /\ at[c] <= Steps[c]

\* runBroadcastGuards() answers; what follows it runs up to the next await.
GuardsPass(c) ==
  /\ pc[c] = "guards"
  /\ IF ~ Keystore
     THEN Enqueue(c)
     ELSE IF Expected(c)
     THEN /\ pc' = [pc EXCEPT ![c] = "estimate"]
          /\ UNCHANGED <<round, first, at, outcome, advice, approvalVars, accountVars>>
     ELSE Fail(c, "deviation") /\ UNCHANGED accountVars

GuardsRefuse(c) ==
  /\ pc[c] = "guards"
  /\ Fail(c, "refused")
  /\ UNCHANGED accountVars

\* The gas estimate answers, within the cap.
Estimated(c) ==
  /\ pc[c] = "estimate"
  /\ Enqueue(c)

\* It is over the cap, reverts, or the request fails.
EstimateFails(c) ==
  /\ pc[c] = "estimate"
  /\ \E why \in {"refused"} \cup Faults : Fail(c, why)
  /\ UNCHANGED accountVars

-----------------------------------------------------------------------------
(* The task under the broadcast lock: wallet.sendTransaction().            *)

RunsAtOnce(c) == queue # << >>   \* faulty: nobody waits for the task before

Running(c) == queue # << >> /\ Head(queue) = c

\* The wallet reads its next nonce.
ReadNonce(c) ==
  /\ pc[c] = "queued" /\ Running(c)
  /\ \E n \in Nonces : PendingCount(n) /\ nonce' = [nonce EXCEPT ![c] = n]
  /\ pc' = [pc EXCEPT ![c] = "broadcast"]
  /\ UNCHANGED <<round, first, at, outcome, advice, approvalVars, queue, txs>>

FailureStalls == UNCHANGED queue   \* faulty: a rejected task is not passed over

\* The queue goes on after a rejected task.
FailureIsIsolated == queue' = Tail(queue)

\* A request of the wallet fails before anything is sent, or the node refuses
\* the transaction.
SendFails(c) ==
  /\ pc[c] \in {"queued", "broadcast"} /\ Running(c)
  /\ \E why \in {"refused"} \cup Faults : Fail(c, why)
  /\ FailureIsIsolated
  /\ UNCHANGED <<nonce, txs>>

Accept(c) ==
  /\ Len(txs) < MaxTxs
  /\ txs' = Append(txs, [call |-> c, round |-> round[c], step |-> at[c],
                         nonce |-> nonce[c], state |-> "pending"])

\* The node accepts it and answers.  dexe_tx_send is then finished: waiting for
\* the receipt only words its answer.
Sent(c) ==
  /\ pc[c] = "broadcast" /\ Running(c)
  /\ Accept(c)
  /\ queue' = Tail(queue)
  /\ IF c \in Singles
     THEN FinishAt(c, at[c] + 1) /\ Returns(c, "sent", "none")
     ELSE /\ pc' = [pc EXCEPT ![c] = "receipt"]
          /\ IF Keystore
             THEN cursor' = [cursor EXCEPT ![c] = @ + 1] /\ UNCHANGED <<status, key>>
             ELSE UNCHANGED approvalVars
          /\ UNCHANGED <<outcome, advice>>
  /\ UNCHANGED <<round, first, at, nonce>>

\* The node accepts it and the answer is lost; a broadcast is never retried.
AnswerLost(c) ==
  /\ pc[c] = "broadcast" /\ Running(c)
  /\ Accept(c)
  /\ \E why \in Faults : Fail(c, why)
  /\ FailureIsIsolated
  /\ UNCHANGED nonce

-----------------------------------------------------------------------------
(* The receipt.                                                            *)

AnyReceipt(c) == InHand(c) \cap (InState("mined") \cup InState("reverted")) # {}  \* faulty

\* assertReceiptSuccess()
Succeeded(c) == InHand(c) \cap InState("mined") # {}

\* The step enters the ledger; after the last one the call is over.
Landed(c) ==
  /\ pc[c] = "receipt"
  /\ Succeeded(c)
  /\ at' = [at EXCEPT ![c] = @ + 1]
  /\ IF at[c] < Steps[c]
     THEN /\ pc' = [pc EXCEPT ![c] = "before"]
          /\ UNCHANGED <<outcome, advice, approvalVars>>
     ELSE Returns(c, "executed", "none") /\ FinishAt(c, cursor[c])
  /\ UNCHANGED <<round, first, accountVars>>

\* It was mined and reverted.
Reverted(c) ==
  /\ pc[c] = "receipt"
  /\ InHand(c) \cap InState("reverted") # {}
  /\ Fail(c, "reverted")
  /\ UNCHANGED accountVars

\* waitWithTimeout() gives up, or asking for the receipt fails.
WaitFails(c) ==
  /\ pc[c] = "receipt"
  /\ \E why \in {"timeout"} \cup Faults : Fail(c, why)
  /\ UNCHANGED accountVars

CallStep(c) ==
  /\ UNCHANGED mode
  /\ \/ Halt(c) \/ Go(c)
     \/ GuardsPass(c) \/ GuardsRefuse(c)
     \/ Estimated(c) \/ EstimateFails(c)
     \/ ReadNonce(c) \/ SendFails(c) \/ Sent(c) \/ AnswerLost(c)
     \/ Landed(c) \/ Reverted(c) \/ WaitFails(c)

SendNext ==
  \/ \E c \in Calls : CallStep(c) \/ \E s \in 1..Steps[c] : Begin(c, s)
  \/ \E k \in DOMAIN txs : Mine(k) \/ Forget(k)

\* Every await of a call is a timer or a request with a timeout of its own, so
\* it settles; nothing makes the chain move.
SendFairness == \A c \in Calls : WF_sendVars(CallStep(c))

SendSpec == SendInit /\ [][SendNext]_sendVars /\ SendFairness

-----------------------------------------------------------------------------
(* Properties.                                                             *)

\* What withBroadcastLock is for: two transactions the node holds never have
\* the same nonce, however the calls overlap.
NoncesNeverClash ==
  \A j, k \in Alive : j # k => txs[j].nonce # txs[k].nonce

\* A step is never broadcast on top of one that did not happen (R3): in every
\* round, the step before it was mined without a revert.
DependentStepsWait ==
  \A c \in Calls : \A k \in DOMAIN txs :
    txs[k].call = c => 1..(txs[k].step - 1) \subseteq Done(c)

\* A result's ledger is true: what a flow lists as landed has been mined, and
\* a flow that reports "executed" has done every step.
LedgerIsTrue ==
  \A c \in Calls \ Singles :
    /\ \A s \in 1..(at[c] - 1) : s \in Done(c)
    /\ outcome[c] = "executed" => Done(c) = 1..Steps[c]

\* Following the advice, no step of a flow takes effect twice.
StepsHappenOnce ==
  \A j, k \in InState("mined") :
    txs[j].call = txs[k].call /\ txs[j].step = txs[k].step => j = k

\* "Re-run this same call" is never said of a step whose transaction may still
\* be mined, or already was.
RerunNeverResends ==
  \A c \in Calls : advice[c] = "rerun" =>
    InHand(c) \cap (InState("pending") \cup InState("mined")) = {}

\* Whatever way a call ends, its key is gone and its record is closed.
NoCallLeavesItsKey ==
  \A c \in Calls :
    /\ key[c] => status[c] = "executing"
    /\ status[c] = "executing" => pc[c] # "idle"

\* A record says "consumed" only when every approved step was broadcast.
ConsumedMeansSent ==
  \A c \in Calls : status[c] = "consumed" =>
    \A s \in first[c]..Steps[c] :
      \E k \in DOMAIN txs : txs[k].call = c /\ txs[k].round = round[c] /\ txs[k].step = s

\* A call that began comes to a result: no failure of another call, and no
\* silence of the node, holds the address's queue for ever.
CallsReturn == \A c \in Calls : pc[c] # "idle" ~> pc[c] = "idle"

-----------------------------------------------------------------------------
(* What the owner is promised, with the approval as the code keeps it; with *)
(* a hot key nothing is promised.                                          *)

\* What an approval of the batch from step s on covers.
From(c, s) == [i \in 1..(Steps[c] - s + 1) |-> s + i - 1]

\* What the node accepted from this round of the call.
ThisRound(c) == {k \in DOMAIN txs : txs[k].call = c /\ txs[k].round = round[c]}

\* The i-th of some positions in a sequence.
Nth(I, i) == CHOOSE k \in I : Cardinality({j \in I : j <= k}) = i

\* The steps that this round broadcast, in the order of their broadcast.
Broadcasts(c) == [i \in 1..Cardinality(ThisRound(c)) |-> txs[Nth(ThisRound(c), i)].step]

Scope == INSTANCE OwnerScope WITH
  Lists <- [c \in Calls |-> {From(c, s) : s \in 1..Steps[c]}],
  scope <- [c \in Calls |-> IF round[c] = 0 \/ ~ Keystore THEN << >> ELSE From(c, first[c])],
  sent <- [c \in Calls |-> IF Keystore THEN Broadcasts(c) ELSE << >>],
  open <- [c \in Calls |-> status[c] = "executing"]

\* Under an approval only a beginning of what it covers is broadcast, in order,
\* each transaction once, and only while the approval is in use.
SendsWhatWasApproved == Scope!ScopeSpec
=============================================================================
