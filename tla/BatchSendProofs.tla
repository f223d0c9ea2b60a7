-------------------------- MODULE BatchSendProofs ---------------------------
(***************************************************************************)
(* Proofs about BatchSend, for any number of calls, steps and repetitions, *)
(* in both signing modes and with every transport failure.                 *)
(***************************************************************************)
EXTENDS BatchSend, FiniteSetTheorems, TLAPS

-----------------------------------------------------------------------------
(* The type, in three parts that the actions touch together.               *)

CallsTyped ==
  /\ pc \in [Calls -> Waits]
  /\ round \in [Calls -> 0..MaxRounds]
  /\ first \in [Calls -> Nat]
  /\ at \in [Calls -> Nat]
  /\ outcome \in [Calls -> {"none", "executed", "halted", "failed", "sent"}]
  /\ advice \in [Calls -> {"none", "rerun", "checkFirst"}]

ApprovalsTyped ==
  /\ status \in [Calls -> {"none", "executing", "consumed", "revoked"}]
  /\ key \in [Calls -> BOOLEAN]
  /\ cursor \in [Calls -> Nat]

Tx == [call : Calls, round : 0..MaxRounds, step : Nat, nonce : Nonces,
       state : {"pending", "mined", "reverted", "dropped"}]

AccountTyped ==
  /\ queue \in Seq(Calls)
  /\ nonce \in [Calls -> Nonces]
  /\ txs \in Seq(Tx)
  /\ Len(txs) <= MaxTxs

PartsTyped == CallsTyped /\ ApprovalsTyped /\ AccountTyped

\* The three parts and the mode are the type invariant.
LEMMA TypeParts == TypeOK <=> PartsTyped /\ mode \in {"keystore", "unattended"}
  BY DEF TypeOK, PartsTyped, CallsTyped, ApprovalsTyped, AccountTyped, Tx

\* The same of the state after a step.
LEMMA TypePartsNext == PartsTyped' /\ mode' \in {"keystore", "unattended"} => TypeOK'
  BY DEF TypeOK, PartsTyped, CallsTyped, ApprovalsTyped, AccountTyped, Tx

\* revoke() keeps the approvals typed.
LEMMA RevokeTyped ==
  ASSUME ApprovalsTyped, NEW c \in Calls, RevokeApproval(c)
  PROVE  ApprovalsTyped'
<1>1. CASE Keystore
  BY <1>1 DEF RevokeApproval, ApprovalsTyped
<1>2. CASE ~ Keystore
  BY <1>2 DEF RevokeApproval, ApprovalsTyped, approvalVars
<1> QED
  BY <1>1, <1>2

\* finish() keeps the approvals typed.
LEMMA FinishTyped ==
  ASSUME ApprovalsTyped, NEW c \in Calls, NEW n \in Nat, FinishAt(c, n)
  PROVE  ApprovalsTyped'
<1>1. CASE Keystore
  BY <1>1 DEF FinishAt, ApprovalsTyped
<1>2. CASE ~ Keystore
  BY <1>2 DEF FinishAt, ApprovalsTyped, approvalVars
<1> QED
  BY <1>1, <1>2

\* The catch of the loop keeps calls and approvals typed.
LEMMA FailTyped ==
  ASSUME CallsTyped, ApprovalsTyped, NEW c \in Calls, NEW why, Fail(c, why)
  PROVE  CallsTyped' /\ ApprovalsTyped'
<1>1. ApprovalsTyped'
  BY RevokeTyped DEF Fail
<1>2. AdviceFor(c, why) \in {"none", "rerun", "checkFirst"}
  BY DEF AdviceFor
<1>3. CallsTyped'
  BY <1>2 DEF Fail, Returns, CallsTyped, Waits
<1> QED
  BY <1>1, <1>3

\* Chaining a task keeps everything typed.
LEMMA EnqueueTyped ==
  ASSUME PartsTyped, NEW c \in Calls, Enqueue(c)
  PROVE  PartsTyped'
<1>1. CallsTyped'
  BY DEF PartsTyped, Enqueue, CallsTyped, Waits
<1>2. ApprovalsTyped'
  BY DEF PartsTyped, Enqueue, ApprovalsTyped, approvalVars
<1>3. AccountTyped'
  BY DEF PartsTyped, Enqueue, AccountTyped
<1> QED
  BY <1>1, <1>2, <1>3 DEF PartsTyped

\* An accepted transaction keeps the sequence typed.
LEMMA AcceptTyped ==
  ASSUME PartsTyped, NEW c \in Calls, Accept(c)
  PROVE  txs' \in Seq(Tx) /\ Len(txs') <= MaxTxs
<1> DEFINE t == [call |-> c, round |-> round[c], step |-> at[c], nonce |-> nonce[c], state |-> "pending"]
<1>1. t \in Tx
  BY DEF PartsTyped, CallsTyped, AccountTyped, Tx
<1>2. txs' = Append(txs, t) /\ Len(txs) < MaxTxs
  BY DEF Accept
<1>3. txs \in Seq(Tx) /\ MaxTxs \in Nat
  BY SendBoundAssumption DEF PartsTyped, AccountTyped
<1> HIDE DEF t
<1> QED
  BY <1>1, <1>2, <1>3

\* Every step keeps the parts typed.
LEMMA PartsStep == PartsTyped /\ [SendNext]_sendVars => PartsTyped'
<1> SUFFICES ASSUME PartsTyped, [SendNext]_sendVars PROVE PartsTyped'
  OBVIOUS
<1>0. CallsTyped /\ ApprovalsTyped /\ AccountTyped
  BY DEF PartsTyped
<1>1. ASSUME NEW c \in Calls, NEW s \in 1..Steps[c], Begin(c, s) PROVE PartsTyped'
  <2>0. s \in Nat
    BY <1>1, CallAssumption
  <2>1. CallsTyped'
    BY <1>0, <1>1, <2>0, SendBoundAssumption DEF Begin, CallsTyped, Waits
  <2>2. ApprovalsTyped'
    <3>1. CASE Keystore
      BY <1>0, <1>1, <2>0, <3>1 DEF Begin, ApprovalsTyped
    <3>2. CASE ~ Keystore
      BY <1>0, <1>1, <3>2 DEF Begin, ApprovalsTyped, approvalVars
    <3> QED
      BY <3>1, <3>2
  <2>3. AccountTyped'
    BY <1>0, <1>1 DEF Begin, AccountTyped, accountVars
  <2> QED
    BY <2>1, <2>2, <2>3 DEF PartsTyped
<1>2. ASSUME NEW c \in Calls, Halt(c) PROVE PartsTyped'
  <2>1. CallsTyped'
    BY <1>0, <1>2 DEF Halt, Returns, CallsTyped, Waits
  <2>2. ApprovalsTyped'
    BY <1>0, <1>2, RevokeTyped DEF Halt, OnHalt
  <2>3. AccountTyped'
    BY <1>0, <1>2 DEF Halt, AccountTyped, accountVars
  <2> QED
    BY <2>1, <2>2, <2>3 DEF PartsTyped
<1>3. ASSUME NEW c \in Calls, Go(c) PROVE PartsTyped'
  <2>1. CallsTyped'
    BY <1>0, <1>3 DEF Go, CallsTyped, Waits
  <2>2. ApprovalsTyped' /\ AccountTyped'
    BY <1>0, <1>3 DEF Go, AccountTyped, accountVars, ApprovalsTyped, approvalVars
  <2> QED
    BY <2>1, <2>2 DEF PartsTyped
<1>4. ASSUME NEW c \in Calls, NEW why, Fail(c, why), UNCHANGED accountVars PROVE PartsTyped'
  <2>1. CallsTyped' /\ ApprovalsTyped'
    BY <1>0, <1>4, FailTyped
  <2>2. AccountTyped'
    BY <1>0, <1>4 DEF AccountTyped, accountVars
  <2> QED
    BY <2>1, <2>2 DEF PartsTyped
<1>5. ASSUME NEW c \in Calls, GuardsPass(c) PROVE PartsTyped'
  <2>1. CASE ~ Keystore
    BY <1>5, <2>1, EnqueueTyped DEF GuardsPass
  <2>2. CASE Keystore /\ Expected(c)
    <3>1. CallsTyped'
      BY <1>0, <1>5, <2>2 DEF GuardsPass, CallsTyped, Waits
    <3>2. ApprovalsTyped' /\ AccountTyped'
      BY <1>0, <1>5, <2>2 DEF GuardsPass, AccountTyped, accountVars, ApprovalsTyped, approvalVars
    <3> QED
      BY <3>1, <3>2 DEF PartsTyped
  <2>3. CASE Keystore /\ ~ Expected(c)
    BY <1>4, <1>5, <2>3 DEF GuardsPass
  <2> QED
    BY <2>1, <2>2, <2>3
<1>6. ASSUME NEW c \in Calls, GuardsRefuse(c) PROVE PartsTyped'
  BY <1>4, <1>6 DEF GuardsRefuse
<1>7. ASSUME NEW c \in Calls, Estimated(c) PROVE PartsTyped'
  BY <1>7, EnqueueTyped DEF Estimated
<1>8. ASSUME NEW c \in Calls, EstimateFails(c) PROVE PartsTyped'
  BY <1>4, <1>8 DEF EstimateFails
<1>9. ASSUME NEW c \in Calls, ReadNonce(c) PROVE PartsTyped'
  <2>1. CallsTyped'
    BY <1>0, <1>9 DEF ReadNonce, CallsTyped, Waits
  <2>2. ApprovalsTyped'
    BY <1>0, <1>9 DEF ReadNonce, ApprovalsTyped, approvalVars
  <2>3. nonce' \in [Calls -> Nonces]
    BY <1>0, <1>9 DEF ReadNonce, AccountTyped
  <2>4. AccountTyped'
    BY <1>0, <1>9, <2>3 DEF ReadNonce, AccountTyped
  <2> QED
    BY <2>1, <2>2, <2>4 DEF PartsTyped
<1>10. ASSUME NEW c \in Calls, Running(c) PROVE Tail(queue) \in Seq(Calls)
  BY <1>0, <1>10 DEF Running, AccountTyped
<1>11. ASSUME NEW c \in Calls, SendFails(c) PROVE PartsTyped'
  <2>1. CallsTyped' /\ ApprovalsTyped'
    BY <1>0, <1>11, FailTyped DEF SendFails
  <2>2. AccountTyped'
    BY <1>0, <1>10, <1>11 DEF SendFails, FailureIsIsolated, AccountTyped
  <2> QED
    BY <2>1, <2>2 DEF PartsTyped
<1>12. ASSUME NEW c \in Calls, Sent(c) PROVE PartsTyped'
  <2>1. CallsTyped'
    <3>1. CASE c \in Singles
      BY <1>0, <1>12, <3>1 DEF Sent, Returns, CallsTyped, Waits
    <3>2. CASE c \notin Singles
      BY <1>0, <1>12, <3>2 DEF Sent, CallsTyped, Waits
    <3> QED
      BY <3>1, <3>2
  <2>2. ApprovalsTyped'
    <3>1. CASE c \in Singles
      <4>1. at[c] + 1 \in Nat
        BY <1>0, <1>12 DEF CallsTyped
      <4> QED
        BY <1>0, <1>12, <3>1, <4>1, FinishTyped DEF Sent
    <3>2. CASE c \notin Singles /\ Keystore
      <4>1. cursor' = [cursor EXCEPT ![c] = @ + 1] /\ UNCHANGED <<status, key>>
        BY <1>12, <3>2 DEF Sent
      <4>2. cursor[c] + 1 \in Nat
        BY <1>0 DEF ApprovalsTyped
      <4> QED
        BY <1>0, <4>1, <4>2 DEF ApprovalsTyped
    <3>3. CASE c \notin Singles /\ ~ Keystore
      BY <1>0, <1>12, <3>3 DEF Sent, ApprovalsTyped, approvalVars
    <3> QED
      BY <3>1, <3>2, <3>3
  <2>3. txs' \in Seq(Tx) /\ Len(txs') <= MaxTxs
    BY <1>12, AcceptTyped DEF Sent
  <2>4. AccountTyped'
    BY <1>0, <1>10, <1>12, <2>3 DEF Sent, AccountTyped
  <2> QED
    BY <2>1, <2>2, <2>4 DEF PartsTyped
<1>13. ASSUME NEW c \in Calls, AnswerLost(c) PROVE PartsTyped'
  <2>1. CallsTyped' /\ ApprovalsTyped'
    BY <1>0, <1>13, FailTyped DEF AnswerLost
  <2>2. txs' \in Seq(Tx) /\ Len(txs') <= MaxTxs
    BY <1>13, AcceptTyped DEF AnswerLost
  <2>3. AccountTyped'
    BY <1>0, <1>10, <1>13, <2>2 DEF AnswerLost, FailureIsIsolated, AccountTyped
  <2> QED
    BY <2>1, <2>3 DEF PartsTyped
<1>14. ASSUME NEW c \in Calls, Landed(c) PROVE PartsTyped'
  <2>1. CallsTyped'
    <3>1. CASE at[c] < Steps[c]
      BY <1>0, <1>14, <3>1 DEF Landed, CallsTyped, Waits
    <3>2. CASE ~ (at[c] < Steps[c])
      BY <1>0, <1>14, <3>2 DEF Landed, Returns, CallsTyped, Waits
    <3> QED
      BY <3>1, <3>2
  <2>2. ApprovalsTyped'
    <3>1. CASE at[c] < Steps[c]
      BY <1>0, <1>14, <3>1 DEF Landed, ApprovalsTyped, approvalVars
    <3>2. CASE ~ (at[c] < Steps[c])
      <4>1. cursor[c] \in Nat
        BY <1>0, <1>14 DEF ApprovalsTyped
      <4> QED
        BY <1>0, <1>14, <3>2, <4>1, FinishTyped DEF Landed
    <3> QED
      BY <3>1, <3>2
  <2>3. AccountTyped'
    BY <1>0, <1>14 DEF Landed, AccountTyped, accountVars
  <2> QED
    BY <2>1, <2>2, <2>3 DEF PartsTyped
<1>15. ASSUME NEW c \in Calls, Reverted(c) PROVE PartsTyped'
  BY <1>4, <1>15 DEF Reverted
<1>16. ASSUME NEW c \in Calls, WaitFails(c) PROVE PartsTyped'
  BY <1>4, <1>16 DEF WaitFails
<1>17. ASSUME NEW k \in DOMAIN txs, NEW s \in {"mined", "reverted", "dropped"},
              txs' = [txs EXCEPT ![k].state = s],
              UNCHANGED <<callVars, approvalVars, queue, nonce>>
       PROVE  PartsTyped'
  <2>1. txs' \in Seq(Tx) /\ Len(txs') = Len(txs)
    <3>1. txs \in Seq(Tx)
      BY <1>0 DEF AccountTyped
    <3>2. txs[k] \in Tx
      BY <3>1, <1>17
    <3>4. [txs[k] EXCEPT !.state = s] \in Tx
      BY <3>2, <1>17 DEF Tx
    <3>3. txs' = [txs EXCEPT ![k] = [txs[k] EXCEPT !.state = s]]
      BY <1>17
    <3> QED
      BY <3>1, <3>4, <3>3
  <2>2. CallsTyped' /\ ApprovalsTyped'
    BY <1>0, <1>17 DEF CallsTyped, callVars, ApprovalsTyped, approvalVars
  <2>3. AccountTyped'
    BY <1>0, <1>17, <2>1 DEF AccountTyped
  <2> QED
    BY <2>2, <2>3 DEF PartsTyped
<1>18. ASSUME NEW k \in DOMAIN txs, Mine(k) PROVE PartsTyped'
  BY <1>17, <1>18 DEF Mine
<1>19. ASSUME NEW k \in DOMAIN txs, Forget(k) PROVE PartsTyped'
  BY <1>17, <1>19 DEF Forget
<1>20. CASE UNCHANGED sendVars
  BY <1>0, <1>20 DEF PartsTyped, CallsTyped, ApprovalsTyped, AccountTyped, sendVars, callVars, approvalVars, accountVars
<1> QED
  BY <1>1, <1>2, <1>3, <1>5, <1>6, <1>7, <1>8, <1>9, <1>11, <1>12, <1>13, <1>14, <1>15, <1>16,
     <1>18, <1>19, <1>20 DEF SendNext, CallStep

\* The signing mode is chosen once.
LEMMA ModeKept == [SendNext]_sendVars => mode' = mode
  BY DEF SendNext, CallStep, Begin, Mine, Forget, sendVars

\* Every step keeps the type.
LEMMA TypeStep == TypeOK /\ [SendNext]_sendVars => TypeOK'
  BY TypeParts, PartsStep, ModeKept, TypePartsNext

\* The first state is typed.
LEMMA TypeInit == SendInit => TypeOK
  BY SendBoundAssumption DEF SendInit, TypeOK, Waits, Nonces

\* The state of the calls, the approvals and the account keeps its type.
THEOREM TypeCorrect == SendSpec => []TypeOK
  BY TypeInit, TypeStep, PTL DEF SendSpec

-----------------------------------------------------------------------------
(* Keys.  With the keystore a key is held by exactly the calls under way;  *)
(* with a hot key nothing is ever held.                                    *)

Custody ==
  \A c \in Calls :
    /\ Keystore => /\ key[c] <=> status[c] = "executing"
                   /\ status[c] = "executing" <=> pc[c] # "idle"
    /\ ~ Keystore => ~ key[c] /\ status[c] = "none"

\* Custody says more than the property.
LEMMA CustodySuffices == Custody => NoCallLeavesItsKey
  BY DEF Custody, NoCallLeavesItsKey

\* A call that stays under way and leaves the approvals alone keeps it.
LEMMA CustodyStays ==
  ASSUME TypeOK, Custody, NEW c \in Calls, pc[c] # "idle", NEW w \in Waits \ {"idle"},
         pc' = [pc EXCEPT ![c] = w], UNCHANGED <<mode, status, key>>
  PROVE  Custody'
  BY DEF TypeOK, Custody, Keystore

\* So does one that ends and gives its approval up.
LEMMA CustodyEnds ==
  ASSUME TypeOK, Custody, NEW c \in Calls, pc' = [pc EXCEPT ![c] = "idle"],
         UNCHANGED mode, \/ RevokeApproval(c)
                         \/ \E n \in Nat : FinishAt(c, n)
  PROVE  Custody'
<1>1. CASE Keystore
  <2>1. /\ key' = [key EXCEPT ![c] = FALSE]
        /\ \E s \in {"revoked", "consumed"} : status' = [status EXCEPT ![c] = s]
    BY <1>1 DEF RevokeApproval, FinishAt
  <2> QED
    BY <1>1, <2>1 DEF TypeOK, Custody, Keystore
<1>2. CASE ~ Keystore
  <2>1. UNCHANGED <<status, key>>
    BY <1>2 DEF RevokeApproval, FinishAt, approvalVars
  <2> QED
    BY <1>2, <2>1 DEF TypeOK, Custody, Keystore
<1> QED
  BY <1>1, <1>2

\* Every step keeps it.
LEMMA CustodyStep == TypeOK /\ Custody /\ [SendNext]_sendVars => Custody'
<1> SUFFICES ASSUME TypeOK, Custody, [SendNext]_sendVars PROVE Custody'
  OBVIOUS
<1> USE DEF approvalVars, Waits
<1>1. ASSUME NEW c \in Calls, NEW s \in 1..Steps[c], Begin(c, s) PROVE Custody'
  <2>1. CASE Keystore
    BY <1>1, <2>1 DEF Begin, TypeOK, Custody, Keystore
  <2>2. CASE ~ Keystore
    BY <1>1, <2>2 DEF Begin, TypeOK, Custody, Keystore
  <2> QED
    BY <2>1, <2>2
<1>2. ASSUME NEW c \in Calls, NEW why, Fail(c, why), UNCHANGED mode PROVE Custody'
  BY <1>2, CustodyEnds DEF Fail, Returns
<1>3. ASSUME NEW c \in Calls, Enqueue(c), pc[c] # "idle", UNCHANGED mode PROVE Custody'
  BY <1>3, CustodyStays DEF Enqueue
<1>4. ASSUME NEW c \in Calls, CallStep(c) PROVE Custody'
  <2>0. UNCHANGED mode
    BY <1>4 DEF CallStep
  <2>1. CASE Halt(c)
    BY <2>0, <2>1, CustodyEnds DEF Halt, OnHalt, Returns
  <2>2. CASE Go(c)
    BY <2>0, <2>2, CustodyStays DEF Go
  <2>3. CASE GuardsPass(c)
    <3>1. CASE ~ Keystore
      BY <1>3, <2>0, <2>3, <3>1 DEF GuardsPass
    <3>2. CASE Keystore /\ Expected(c)
      BY <2>0, <2>3, <3>2, CustodyStays DEF GuardsPass
    <3>3. CASE Keystore /\ ~ Expected(c)
      BY <1>2, <2>0, <2>3, <3>3 DEF GuardsPass
    <3> QED
      BY <3>1, <3>2, <3>3
  <2>4. CASE GuardsRefuse(c)
    BY <1>2, <2>0, <2>4 DEF GuardsRefuse
  <2>5. CASE Estimated(c)
    BY <1>3, <2>0, <2>5 DEF Estimated
  <2>6. CASE EstimateFails(c)
    BY <1>2, <2>0, <2>6 DEF EstimateFails
  <2>7. CASE ReadNonce(c)
    BY <2>0, <2>7, CustodyStays DEF ReadNonce
  <2>8. CASE SendFails(c)
    BY <1>2, <2>0, <2>8 DEF SendFails
  <2>9. CASE Sent(c)
    <3>1. CASE c \in Singles
      <4>1. at[c] + 1 \in Nat
        BY DEF TypeOK
      <4> QED
        BY <2>0, <2>9, <3>1, <4>1, CustodyEnds DEF Sent, Returns
    <3>2. CASE c \notin Singles
      BY <2>0, <2>9, <3>2, CustodyStays DEF Sent
    <3> QED
      BY <3>1, <3>2
  <2>10. CASE AnswerLost(c)
    BY <1>2, <2>0, <2>10 DEF AnswerLost
  <2>11. CASE Landed(c)
    <3>1. CASE at[c] < Steps[c]
      BY <2>0, <2>11, <3>1, CustodyStays DEF Landed
    <3>2. CASE ~ (at[c] < Steps[c])
      <4>1. cursor[c] \in Nat
        BY DEF TypeOK
      <4> QED
        BY <2>0, <2>11, <3>2, <4>1, CustodyEnds DEF Landed, Returns
    <3> QED
      BY <3>1, <3>2
  <2>12. CASE Reverted(c)
    BY <1>2, <2>0, <2>12 DEF Reverted
  <2>13. CASE WaitFails(c)
    BY <1>2, <2>0, <2>13 DEF WaitFails
  <2> QED
    BY <1>4, <2>1, <2>2, <2>3, <2>4, <2>5, <2>6, <2>7, <2>8, <2>9, <2>10, <2>11, <2>12, <2>13
       DEF CallStep
<1>5. ASSUME UNCHANGED <<mode, callVars, approvalVars>> PROVE Custody'
  BY <1>5 DEF Custody, Keystore, callVars
<1>6. ASSUME NEW k \in DOMAIN txs, Mine(k) \/ Forget(k) PROVE Custody'
  BY <1>5, <1>6 DEF Mine, Forget
<1> QED
  BY <1>1, <1>4, <1>5, <1>6 DEF SendNext, sendVars

\* Whatever way a call ends, with whatever error at whatever await, its key is
\* gone and its approval closed.
THEOREM KeysAreGivenUp == SendSpec => []NoCallLeavesItsKey
<1>1. SendInit => Custody
  BY DEF SendInit, Custody
<1> QED
  BY <1>1, TypeInit, TypeStep, CustodyStep, CustodySuffices, PTL DEF SendSpec

-----------------------------------------------------------------------------
(* Nonces.  A call that has read its nonce is the first of the queue until *)
(* it is done, so nobody else sends in between and the nonce stays free.   *)

TakesTurns == \A c \in Calls : pc[c] = "broadcast" => Running(c)

NonceIsFree ==
  \A c \in Calls : pc[c] = "broadcast" => \A k \in Alive : txs[k].nonce # nonce[c]

NonceInv == TakesTurns /\ NonceIsFree /\ NoncesNeverClash

\* A call that moves to another await than the broadcast, and leaves the
\* account alone, keeps it.
LEMMA NoncesQuiet ==
  ASSUME TypeOK, NonceInv, NEW c \in Calls, UNCHANGED <<queue, nonce, txs>>,
         \A d \in Calls : pc'[d] = "broadcast" => pc[d] = "broadcast"
  PROVE  NonceInv'
<1>1. TakesTurns'
  BY DEF NonceInv, TakesTurns, Running
<1>2. Alive' = Alive
  BY DEF Alive, InState
<1>3. NonceIsFree' /\ NoncesNeverClash'
  BY <1>2 DEF NonceInv, NonceIsFree, NoncesNeverClash
<1> QED
  BY <1>1, <1>3 DEF NonceInv

\* Whoever joins the queue does so at its end.
LEMMA NoncesQueued ==
  ASSUME TypeOK, NonceInv, NEW c \in Calls, Enqueue(c)
  PROVE  NonceInv'
<1>1. ASSUME NEW d \in Calls, pc'[d] = "broadcast" PROVE pc[d] = "broadcast"
  BY <1>1 DEF TypeOK, Enqueue
<1>2. ASSUME NEW d \in Calls, Running(d) PROVE Running(d)'
  <2>1. queue \in Seq(Calls) /\ queue # << >> /\ queue' = Append(queue, c)
    BY <1>2 DEF TypeOK, Enqueue, Running
  <2>2. queue' # << >> /\ Head(queue') = Head(queue)
    BY <2>1
  <2> QED
    BY <1>2, <2>2 DEF Running
<1>3. TakesTurns'
  BY <1>1, <1>2 DEF NonceInv, TakesTurns
<1>4. Alive' = Alive /\ UNCHANGED <<nonce, txs>>
  BY DEF Alive, InState, Enqueue
<1>5. NonceIsFree' /\ NoncesNeverClash'
  BY <1>1, <1>4 DEF NonceInv, NonceIsFree, NoncesNeverClash
<1> QED
  BY <1>3, <1>5 DEF NonceInv

\* The nonce a wallet reads is free.
LEMMA NoncesRead ==
  ASSUME TypeOK, NonceInv, NEW c \in Calls, ReadNonce(c)
  PROVE  NonceInv'
<1>1. /\ Running(c)
      /\ pc' = [pc EXCEPT ![c] = "broadcast"]
      /\ UNCHANGED <<queue, txs>>
  BY DEF ReadNonce
<1>2. PICK n \in Nonces : PendingCount(n) /\ nonce' = [nonce EXCEPT ![c] = n]
  BY DEF ReadNonce
<1>3. TakesTurns'
  BY <1>1 DEF TypeOK, NonceInv, TakesTurns, Running
<1>4. Alive' = Alive
  BY <1>1 DEF Alive, InState
<1>5. NonceIsFree'
  <2> SUFFICES ASSUME NEW d \in Calls, pc'[d] = "broadcast", NEW k \in Alive
               PROVE  txs[k].nonce # nonce'[d]
    BY <1>1, <1>4 DEF NonceIsFree
  <2>1. CASE d = c
    BY <1>2, <2>1 DEF TypeOK, PendingCount
  <2>2. CASE d # c
    BY <1>1, <1>2, <2>2 DEF TypeOK, NonceInv, NonceIsFree
  <2> QED
    BY <2>1, <2>2
<1>6. NoncesNeverClash'
  BY <1>1, <1>4 DEF NonceInv, NoncesNeverClash
<1> QED
  BY <1>3, <1>5, <1>6 DEF NonceInv

\* When the first of the queue leaves it, nobody is broadcasting.
LEMMA NobodyBroadcasts ==
  ASSUME TypeOK, TakesTurns, NEW c \in Calls, Running(c),
         NEW w \in Waits \ {"broadcast"}, pc' = [pc EXCEPT ![c] = w]
  PROVE  \A d \in Calls : pc'[d] # "broadcast"
  BY DEF TypeOK, TakesTurns, Running

\* A task that is over with nothing sent.
LEMMA NoncesFailed ==
  ASSUME TypeOK, NonceInv, \A d \in Calls : pc'[d] # "broadcast", UNCHANGED txs
  PROVE  NonceInv'
<1>1. Alive' = Alive
  BY DEF Alive, InState
<1> QED
  BY <1>1 DEF NonceInv, TakesTurns, NonceIsFree, NoncesNeverClash

\* A task that is over with its transaction accepted.
LEMMA NoncesAccepted ==
  ASSUME TypeOK, NonceInv, NEW c \in Calls, pc[c] = "broadcast", Accept(c),
         \A d \in Calls : pc'[d] # "broadcast"
  PROVE  NonceInv'
<1> DEFINE t == [call |-> c, round |-> round[c], step |-> at[c], nonce |-> nonce[c],
                 state |-> "pending"]
           N == Len(txs) + 1
<1>1. txs \in Seq(Tx) /\ txs' = Append(txs, t)
  BY DEF TypeOK, Accept, Tx
<1>2. t.nonce = nonce[c]
  OBVIOUS
<1> HIDE DEF t
<1>3. /\ DOMAIN txs' = DOMAIN txs \cup {N}
      /\ N \notin DOMAIN txs
      /\ \A k \in DOMAIN txs : txs'[k] = txs[k]
      /\ txs'[N] = t
  BY <1>1
<1>4. Alive \subseteq DOMAIN txs /\ Alive' \subseteq Alive \cup {N}
  BY <1>3 DEF Alive, InState
<1>5. \A k \in Alive : txs[k].nonce # nonce[c]
  BY DEF NonceInv, NonceIsFree
<1>6. NoncesNeverClash'
  <2> SUFFICES ASSUME NEW j \in Alive', NEW k \in Alive', j # k
               PROVE  txs'[j].nonce # txs'[k].nonce
    BY DEF NoncesNeverClash
  <2>1. CASE j \in Alive /\ k \in Alive
    BY <1>3, <1>4, <2>1 DEF NonceInv, NoncesNeverClash
  <2>2. CASE j = N /\ k \in Alive
    BY <1>2, <1>3, <1>4, <1>5, <2>2
  <2>3. CASE k = N /\ j \in Alive
    BY <1>2, <1>3, <1>4, <1>5, <2>3
  <2> QED
    BY <1>4, <2>1, <2>2, <2>3
<1>7. TakesTurns' /\ NonceIsFree'
  BY DEF TakesTurns, NonceIsFree
<1> QED
  BY <1>6, <1>7 DEF NonceInv

\* The chain only takes transactions away.
LEMMA NoncesOnChain ==
  ASSUME TypeOK, NonceInv, NEW k \in DOMAIN txs, NEW s, txs[k].state = "pending",
         txs' = [txs EXCEPT ![k].state = s], UNCHANGED <<callVars, queue, nonce>>
  PROVE  NonceInv'
<1>1. txs \in Seq(Tx)
  BY DEF TypeOK, Tx
<1>2. txs[k] \in Tx
  BY <1>1
<1>3. DOMAIN txs' = DOMAIN txs
  BY <1>1
<1>4. \A j \in DOMAIN txs : txs'[j].nonce = txs[j].nonce
  <2> TAKE j \in DOMAIN txs
  <2>1. CASE j = k
    BY <1>1, <1>2, <2>1 DEF Tx
  <2>2. CASE j # k
    BY <1>1, <2>2
  <2> QED
    BY <2>1, <2>2
<1>5. \A j \in DOMAIN txs : j # k => txs'[j] = txs[j]
  BY <1>1
<1>6. Alive \subseteq DOMAIN txs /\ Alive' \subseteq Alive
  BY <1>3, <1>5 DEF Alive, InState
<1>7. NoncesNeverClash'
  BY <1>4, <1>6 DEF NonceInv, NoncesNeverClash
<1>8. TakesTurns' /\ NonceIsFree'
  BY <1>4, <1>6 DEF NonceInv, TakesTurns, NonceIsFree, Running, callVars
<1> QED
  BY <1>7, <1>8 DEF NonceInv

\* Every step keeps it.
LEMMA NonceStep == TypeOK /\ NonceInv /\ [SendNext]_sendVars => NonceInv'
<1> SUFFICES ASSUME TypeOK, NonceInv, [SendNext]_sendVars PROVE NonceInv'
  OBVIOUS
<1> USE DEF Waits
<1>0. TakesTurns
  BY DEF NonceInv
<1>1. ASSUME NEW c \in Calls, NEW w \in Waits \ {"broadcast"}, pc' = [pc EXCEPT ![c] = w],
             UNCHANGED accountVars
      PROVE  NonceInv'
  <2>1. \A d \in Calls : pc'[d] = "broadcast" => pc[d] = "broadcast"
    BY <1>1 DEF TypeOK
  <2> QED
    BY <1>1, <2>1, NoncesQuiet DEF accountVars
<1>2. ASSUME NEW c \in Calls, NEW s \in 1..Steps[c], Begin(c, s) PROVE NonceInv'
  BY <1>1, <1>2 DEF Begin
<1>3. ASSUME NEW c \in Calls, NEW why, Fail(c, why), UNCHANGED accountVars PROVE NonceInv'
  BY <1>1, <1>3 DEF Fail, Returns
<1>4. ASSUME NEW c \in Calls, CallStep(c) PROVE NonceInv'
  <2>1. CASE Halt(c)
    BY <1>1, <2>1 DEF Halt, Returns
  <2>2. CASE Go(c)
    BY <1>1, <2>2 DEF Go
  <2>3. CASE GuardsPass(c)
    <3>1. CASE ~ Keystore
      BY <2>3, <3>1, NoncesQueued DEF GuardsPass
    <3>2. CASE Keystore /\ Expected(c)
      BY <1>1, <2>3, <3>2 DEF GuardsPass
    <3>3. CASE Keystore /\ ~ Expected(c)
      BY <1>3, <2>3, <3>3 DEF GuardsPass
    <3> QED
      BY <3>1, <3>2, <3>3
  <2>4. CASE GuardsRefuse(c)
    BY <1>3, <2>4 DEF GuardsRefuse
  <2>5. CASE Estimated(c)
    BY <2>5, NoncesQueued DEF Estimated
  <2>6. CASE EstimateFails(c)
    BY <1>3, <2>6 DEF EstimateFails
  <2>7. CASE ReadNonce(c)
    BY <2>7, NoncesRead
  <2>8. CASE SendFails(c)
    <3>1. Running(c) /\ pc' = [pc EXCEPT ![c] = "idle"] /\ UNCHANGED txs
      BY <2>8 DEF SendFails, Fail, Returns
    <3> QED
      BY <1>0, <3>1, NobodyBroadcasts, NoncesFailed
  <2>9. CASE Sent(c) \/ AnswerLost(c)
    <3>1. Running(c) /\ pc[c] = "broadcast" /\ Accept(c)
      BY <2>9 DEF Sent, AnswerLost
    <3>2. \E w \in Waits \ {"broadcast"} : pc' = [pc EXCEPT ![c] = w]
      BY <2>9 DEF Sent, AnswerLost, Fail, Returns
    <3> QED
      BY <1>0, <3>1, <3>2, NobodyBroadcasts, NoncesAccepted
  <2>10. CASE Landed(c)
    BY <1>1, <2>10 DEF Landed, Returns
  <2>11. CASE Reverted(c)
    BY <1>3, <2>11 DEF Reverted
  <2>12. CASE WaitFails(c)
    BY <1>3, <2>12 DEF WaitFails
  <2> QED
    BY <1>4, <2>1, <2>2, <2>3, <2>4, <2>5, <2>6, <2>7, <2>8, <2>9, <2>10, <2>11, <2>12
       DEF CallStep
<1>5. ASSUME NEW k \in DOMAIN txs, Mine(k) \/ Forget(k) PROVE NonceInv'
  <2>1. \E s \in {"mined", "reverted", "dropped"} : txs' = [txs EXCEPT ![k].state = s]
    BY <1>5 DEF Mine, Forget
  <2>2. txs[k].state = "pending" /\ UNCHANGED <<callVars, queue, nonce>>
    BY <1>5 DEF Mine, Forget
  <2> QED
    BY <2>1, <2>2, NoncesOnChain
<1>6. CASE UNCHANGED sendVars
  <2>1. UNCHANGED <<queue, nonce, txs, pc>>
    BY <1>6 DEF sendVars, callVars, accountVars
  <2>2. Alive' = Alive
    BY <2>1 DEF Alive, InState
  <2> QED
    BY <2>1, <2>2 DEF NonceInv, TakesTurns, NonceIsFree, NoncesNeverClash, Running
<1> QED
  BY <1>2, <1>4, <1>5, <1>6 DEF SendNext

\* However many calls overlap, two transactions the node holds never have the
\* same nonce.
THEOREM NoncesAreUnique == SendSpec => []NoncesNeverClash
<1>1. SendInit => NonceInv
  BY DEF SendInit, NonceInv, TakesTurns, NonceIsFree, NoncesNeverClash, Alive, InState
<1>2. NonceInv => NoncesNeverClash
  BY DEF NonceInv
<1> QED
  BY <1>1, <1>2, TypeInit, TypeStep, NonceStep, PTL DEF SendSpec

-----------------------------------------------------------------------------
(* The ledger.  What has been mined stays mined, and a call passes a step  *)
(* only when it has been.                                                  *)

PassesWhatIsDone == \A c \in Calls : \A s \in 1..(at[c] - 1) : s \in Done(c)

WithinBatch == \A c \in Calls : pc[c] # "idle" => at[c] \in 1..Steps[c]

ExecutedToTheEnd == \A c \in Calls : outcome[c] = "executed" => at[c] = Steps[c] + 1

LedgerInv == PassesWhatIsDone /\ WithinBatch /\ ExecutedToTheEnd /\ DependentStepsWait

\* LedgerInv says more than the property.
LEMMA LedgerSuffices == TypeOK /\ LedgerInv => LedgerIsTrue
<1> SUFFICES ASSUME TypeOK, LedgerInv, NEW c \in Calls
             PROVE  /\ \A s \in 1..(at[c] - 1) : s \in Done(c)
                    /\ outcome[c] = "executed" => Done(c) = 1..Steps[c]
  BY DEF LedgerIsTrue
<1>1. \A s \in 1..(at[c] - 1) : s \in Done(c)
  BY DEF LedgerInv, PassesWhatIsDone
<1>2. outcome[c] = "executed" => at[c] - 1 = Steps[c]
  BY CallAssumption DEF LedgerInv, ExecutedToTheEnd
<1>3. Done(c) \subseteq 1..Steps[c]
  BY DEF Done
<1> QED
  BY <1>1, <1>2, <1>3

\* Nothing a step does to the account takes a mined transaction away, and a
\* new one is for the step its call has in hand.
AccountGrows ==
  /\ \A d \in Calls : Done(d) \subseteq Done(d)'
  /\ \A k \in DOMAIN txs' :
       \/ /\ k \in DOMAIN txs
          /\ txs'[k].call = txs[k].call /\ txs'[k].step = txs[k].step
       \/ \E d \in Calls : txs'[k].call = d /\ txs'[k].step = at[d]

\* If the mined ones are kept, their steps stay done.
LEMMA DoneStays ==
  ASSUME \A k \in InState("mined") :
           k \in InState("mined")' /\ txs'[k].call = txs[k].call /\ txs'[k].step = txs[k].step
  PROVE  \A d \in Calls : Done(d) \subseteq Done(d)'
  BY DEF Done

\* An account left alone grows, in this sense.
LEMMA UntouchedGrows ==
  ASSUME UNCHANGED txs
  PROVE  AccountGrows
<1>1. InState("mined")' = InState("mined")
  BY DEF InState
<1> QED
  BY <1>1, DoneStays DEF AccountGrows

\* So does one that gets a transaction.
LEMMA AcceptGrows ==
  ASSUME TypeOK, NEW c \in Calls, Accept(c)
  PROVE  AccountGrows
<1> DEFINE t == [call |-> c, round |-> round[c], step |-> at[c], nonce |-> nonce[c],
                 state |-> "pending"]
           N == Len(txs) + 1
<1>1. txs \in Seq(Tx) /\ txs' = Append(txs, t)
  BY DEF TypeOK, Accept, Tx
<1>2. t.call = c /\ t.step = at[c]
  OBVIOUS
<1> HIDE DEF t
<1>3. /\ DOMAIN txs' = DOMAIN txs \cup {N}
      /\ \A k \in DOMAIN txs : txs'[k] = txs[k]
      /\ txs'[N] = t
  BY <1>1
<1>4. \A k \in InState("mined") : k \in InState("mined")' /\ txs'[k] = txs[k]
  BY <1>3 DEF InState
<1>5. \A d \in Calls : Done(d) \subseteq Done(d)'
  BY <1>4, DoneStays
<1>6. \A k \in DOMAIN txs' : k \in DOMAIN txs \/ k = N
  BY <1>3
<1> QED
  BY <1>2, <1>3, <1>5, <1>6 DEF AccountGrows

\* And one where the chain settles a transaction or the node forgets it.
LEMMA ChainGrows ==
  ASSUME TypeOK, NEW k \in DOMAIN txs, NEW s, txs[k].state = "pending",
         txs' = [txs EXCEPT ![k].state = s]
  PROVE  AccountGrows
<1>1. txs \in Seq(Tx)
  BY DEF TypeOK, Tx
<1>2. txs[k] \in Tx
  BY <1>1
<1>3. DOMAIN txs' = DOMAIN txs
  BY <1>1
<1>4. \A j \in DOMAIN txs : j # k => txs'[j] = txs[j]
  BY <1>1
<1>5. txs'[k].call = txs[k].call /\ txs'[k].step = txs[k].step
  BY <1>1, <1>2 DEF Tx
<1>6. \A j \in InState("mined") : j \in InState("mined")' /\ txs'[j] = txs[j]
  BY <1>3, <1>4 DEF InState
<1>7. \A d \in Calls : Done(d) \subseteq Done(d)'
  BY <1>6, DoneStays
<1> QED
  BY <1>3, <1>4, <1>5, <1>7 DEF AccountGrows

\* The order of the transactions survives a growing account.
LEMMA OrderKept ==
  ASSUME TypeOK, LedgerInv, AccountGrows
  PROVE  DependentStepsWait'
<1> SUFFICES ASSUME NEW c \in Calls, NEW k \in DOMAIN txs', txs'[k].call = c,
                    NEW r \in 1..(txs'[k].step - 1)
             PROVE  r \in Done(c)'
  BY DEF DependentStepsWait
<1>1. CASE /\ k \in DOMAIN txs
           /\ txs'[k].call = txs[k].call /\ txs'[k].step = txs[k].step
  <2>1. r \in Done(c)
    BY <1>1 DEF LedgerInv, DependentStepsWait
  <2> QED
    BY <2>1 DEF AccountGrows
<1>2. CASE \E d \in Calls : txs'[k].call = d /\ txs'[k].step = at[d]
  <2>1. r \in Done(c)
    BY <1>2 DEF LedgerInv, PassesWhatIsDone
  <2> QED
    BY <2>1 DEF AccountGrows
<1> QED
  BY <1>1, <1>2 DEF AccountGrows

\* A step that neither begins a batch nor passes a transaction keeps it.
LEMMA LedgerKept ==
  ASSUME TypeOK, LedgerInv, AccountGrows, UNCHANGED at,
         \A d \in Calls : pc'[d] # "idle" => pc[d] # "idle",
         \A d \in Calls : outcome'[d] = "executed" => outcome[d] = "executed"
  PROVE  LedgerInv'
<1>1. PassesWhatIsDone'
  BY DEF LedgerInv, PassesWhatIsDone, AccountGrows
<1>2. WithinBatch' /\ ExecutedToTheEnd'
  BY DEF LedgerInv, WithinBatch, ExecutedToTheEnd
<1> QED
  BY <1>1, <1>2, OrderKept DEF LedgerInv

\* A new batch begins behind what is done.
LEMMA LedgerBegins ==
  ASSUME TypeOK, LedgerInv, NEW c \in Calls, NEW s \in 1..Steps[c], Begin(c, s)
  PROVE  LedgerInv'
<1>1. UNCHANGED txs
  BY DEF Begin, accountVars
<1>2. AccountGrows
  BY <1>1, UntouchedGrows
<1>3. \A r \in 1..(s - 1) : r \in Done(c)
  BY DEF Begin, FirstUndone
<1>4. at' = [at EXCEPT ![c] = s] /\ outcome' = [outcome EXCEPT ![c] = "none"]
  BY DEF Begin
<1>5. \A d \in Calls : d # c => pc'[d] = pc[d]
  BY DEF Begin, TypeOK
<1>6. PassesWhatIsDone'
  <2> SUFFICES ASSUME NEW d \in Calls, NEW r \in 1..(at'[d] - 1) PROVE r \in Done(d)'
    BY DEF PassesWhatIsDone
  <2>1. r \in Done(d)
    BY <1>3, <1>4 DEF TypeOK, LedgerInv, PassesWhatIsDone
  <2> QED
    BY <1>2, <2>1 DEF AccountGrows
<1>7. WithinBatch'
  BY <1>4, <1>5 DEF TypeOK, LedgerInv, WithinBatch
<1>8. ExecutedToTheEnd'
  BY <1>4 DEF TypeOK, LedgerInv, ExecutedToTheEnd
<1> QED
  BY <1>2, <1>6, <1>7, <1>8, OrderKept DEF LedgerInv

\* A call passes a transaction that was mined.
LEMMA LedgerLands ==
  ASSUME TypeOK, LedgerInv, NEW c \in Calls, Landed(c)
  PROVE  LedgerInv'
<1>1. UNCHANGED txs
  BY DEF Landed, accountVars
<1>2. AccountGrows
  BY <1>1, UntouchedGrows
<1>3. at[c] \in 1..Steps[c] /\ Steps[c] \in Nat
  BY CallAssumption DEF Landed, LedgerInv, WithinBatch
<1>4. at[c] \in Done(c)
  BY <1>3 DEF Landed, Succeeded, InHand, Done
<1>5. at' = [at EXCEPT ![c] = at[c] + 1]
  BY DEF Landed
<1>6. PassesWhatIsDone'
  <2> SUFFICES ASSUME NEW d \in Calls, NEW r \in 1..(at'[d] - 1) PROVE r \in Done(d)'
    BY DEF PassesWhatIsDone
  <2>1. CASE d = c
    <3>1. r \in 1..(at[c] - 1) \/ r = at[c]
      BY <1>3, <1>5, <2>1 DEF TypeOK
    <3>2. r \in Done(c)
      BY <1>4, <3>1 DEF LedgerInv, PassesWhatIsDone
    <3> QED
      BY <1>2, <2>1, <3>2 DEF AccountGrows
  <2>2. CASE d # c
    <3>1. r \in Done(d)
      BY <1>5, <2>2 DEF TypeOK, LedgerInv, PassesWhatIsDone
    <3> QED
      BY <1>2, <3>1 DEF AccountGrows
  <2> QED
    BY <2>1, <2>2
<1>7. CASE at[c] < Steps[c]
  <2>1. pc' = [pc EXCEPT ![c] = "before"] /\ UNCHANGED outcome
    BY <1>7 DEF Landed
  <2>2. outcome[c] # "executed"
    BY <1>3, <1>7 DEF LedgerInv, ExecutedToTheEnd
  <2>3. WithinBatch'
    BY <1>3, <1>5, <1>7, <2>1 DEF TypeOK, LedgerInv, WithinBatch
  <2>4. ExecutedToTheEnd'
    BY <1>5, <2>1, <2>2 DEF TypeOK, LedgerInv, ExecutedToTheEnd
  <2> QED
    BY <1>2, <1>6, <2>3, <2>4, OrderKept DEF LedgerInv
<1>8. CASE ~ (at[c] < Steps[c])
  <2>1. pc' = [pc EXCEPT ![c] = "idle"] /\ outcome' = [outcome EXCEPT ![c] = "executed"]
    BY <1>8 DEF Landed, Returns
  <2>2. at[c] = Steps[c]
    BY <1>3, <1>8
  <2>3. WithinBatch'
    BY <1>5, <2>1 DEF TypeOK, LedgerInv, WithinBatch
  <2>4. ExecutedToTheEnd'
    BY <1>5, <2>1, <2>2 DEF TypeOK, LedgerInv, ExecutedToTheEnd
  <2> QED
    BY <1>2, <1>6, <2>3, <2>4, OrderKept DEF LedgerInv
<1> QED
  BY <1>7, <1>8

\* Every step keeps it.
LEMMA LedgerStep == TypeOK /\ LedgerInv /\ [SendNext]_sendVars => LedgerInv'
<1> SUFFICES ASSUME TypeOK, LedgerInv, [SendNext]_sendVars PROVE LedgerInv'
  OBVIOUS
<1> USE DEF accountVars
<1>1. ASSUME NEW c \in Calls, NEW why, Fail(c, why), AccountGrows, pc[c] # "idle" PROVE LedgerInv'
  <2>1. \A d \in Calls : pc'[d] # "idle" => pc[d] # "idle"
    BY <1>1 DEF TypeOK, Fail, Returns
  <2>2. \A d \in Calls : outcome'[d] = "executed" => outcome[d] = "executed"
    BY <1>1 DEF TypeOK, Fail, Returns
  <2>3. UNCHANGED at
    BY <1>1 DEF Fail
  <2> QED
    BY <1>1, <2>1, <2>2, <2>3, LedgerKept
<1>2. ASSUME NEW c \in Calls, pc[c] # "idle", NEW w \in Waits, pc' = [pc EXCEPT ![c] = w],
             UNCHANGED at, AccountGrows,
             \/ UNCHANGED outcome
             \/ \E r \in {"halted", "sent"} : outcome' = [outcome EXCEPT ![c] = r]
      PROVE  LedgerInv'
  <2>1. \A d \in Calls : pc'[d] # "idle" => pc[d] # "idle"
    BY <1>2 DEF TypeOK
  <2>2. \A d \in Calls : outcome'[d] = "executed" => outcome[d] = "executed"
    BY <1>2 DEF TypeOK
  <2> QED
    BY <1>2, <2>1, <2>2, LedgerKept
<1>3. ASSUME NEW c \in Calls, Enqueue(c), pc[c] # "idle" PROVE LedgerInv'
  BY <1>2, <1>3, UntouchedGrows DEF Enqueue, Waits
<1>4. ASSUME NEW c \in Calls, CallStep(c) PROVE LedgerInv'
  <2>1. CASE Halt(c)
    BY <1>2, <2>1, UntouchedGrows DEF Halt, Returns, Waits
  <2>2. CASE Go(c)
    BY <1>2, <2>2, UntouchedGrows DEF Go, Waits
  <2>3. CASE GuardsPass(c)
    <3>1. CASE ~ Keystore
      BY <1>3, <2>3, <3>1 DEF GuardsPass
    <3>2. CASE Keystore /\ Expected(c)
      BY <1>2, <2>3, <3>2, UntouchedGrows DEF GuardsPass, Waits
    <3>3. CASE Keystore /\ ~ Expected(c)
      BY <1>1, <2>3, <3>3, UntouchedGrows DEF GuardsPass
    <3> QED
      BY <3>1, <3>2, <3>3
  <2>4. CASE GuardsRefuse(c)
    BY <1>1, <2>4, UntouchedGrows DEF GuardsRefuse
  <2>5. CASE Estimated(c)
    BY <1>3, <2>5 DEF Estimated
  <2>6. CASE EstimateFails(c)
    BY <1>1, <2>6, UntouchedGrows DEF EstimateFails
  <2>7. CASE ReadNonce(c)
    BY <1>2, <2>7, UntouchedGrows DEF ReadNonce, Waits
  <2>8. CASE SendFails(c)
    BY <1>1, <2>8, UntouchedGrows DEF SendFails
  <2>9. CASE Sent(c)
    <3>1. AccountGrows
      BY <2>9, AcceptGrows DEF Sent
    <3>2. pc[c] # "idle" /\ UNCHANGED at
      BY <2>9 DEF Sent
    <3>3. CASE c \in Singles
      BY <1>2, <2>9, <3>1, <3>2, <3>3 DEF Sent, Returns, Waits
    <3>4. CASE c \notin Singles
      BY <1>2, <2>9, <3>1, <3>2, <3>4 DEF Sent, Waits
    <3> QED
      BY <3>3, <3>4
  <2>10. CASE AnswerLost(c)
    BY <1>1, <2>10, AcceptGrows DEF AnswerLost
  <2>11. CASE Landed(c)
    BY <2>11, LedgerLands
  <2>12. CASE Reverted(c)
    BY <1>1, <2>12, UntouchedGrows DEF Reverted
  <2>13. CASE WaitFails(c)
    BY <1>1, <2>13, UntouchedGrows DEF WaitFails
  <2> QED
    BY <1>4, <2>1, <2>2, <2>3, <2>4, <2>5, <2>6, <2>7, <2>8, <2>9, <2>10, <2>11, <2>12, <2>13
       DEF CallStep
<1>5. ASSUME UNCHANGED callVars, AccountGrows PROVE LedgerInv'
  BY <1>5, LedgerKept DEF callVars
<1>6. ASSUME NEW k \in DOMAIN txs, Mine(k) \/ Forget(k) PROVE LedgerInv'
  <2>1. txs[k].state = "pending" /\ UNCHANGED callVars
    BY <1>6 DEF Mine, Forget
  <2>2. \E s \in {"mined", "reverted", "dropped"} : txs' = [txs EXCEPT ![k].state = s]
    BY <1>6 DEF Mine, Forget
  <2> QED
    BY <1>5, <2>1, <2>2, ChainGrows
<1>7. CASE UNCHANGED sendVars
  BY <1>5, <1>7, UntouchedGrows DEF sendVars
<1> QED
  BY <1>4, <1>6, <1>7, LedgerBegins DEF SendNext

\* The first state has an empty ledger.
LEMMA LedgerInit == SendInit => LedgerInv
  BY DEF SendInit, LedgerInv, PassesWhatIsDone, WithinBatch, ExecutedToTheEnd, DependentStepsWait

\* What a flow lists as landed has been mined, and "executed" is said of a
\* finished batch only.
THEOREM LedgersAreTrue == SendSpec => []LedgerIsTrue
  BY LedgerInit, LedgerStep, LedgerSuffices, TypeInit, TypeStep, PTL DEF SendSpec

\* No transaction is ever handed to the chain before every earlier step of its
\* batch was mined without a revert.
THEOREM StepsAreOrdered == SendSpec => []DependentStepsWait
<1>1. LedgerInv => DependentStepsWait
  BY DEF LedgerInv
<1> QED
  BY <1>1, LedgerInit, LedgerStep, TypeInit, TypeStep, PTL DEF SendSpec

-----------------------------------------------------------------------------
(* What a record says.  The cursor follows the step in hand, and passes a    *)
(* step only when the node took its transaction.                             *)

\* Somebody's transaction of this round is for step s.
Broadcast(c, s) ==
  \E k \in DOMAIN txs : txs[k].call = c /\ txs[k].round = round[c] /\ txs[k].step = s

CursorFollows ==
  \A c \in Calls : status[c] = "executing" =>
    cursor[c] = IF pc[c] = "receipt" THEN at[c] + 1 ELSE at[c]

PassedAreSent ==
  \A c \in Calls : status[c] \in {"executing", "consumed"} =>
    \A s \in first[c]..(cursor[c] - 1) : Broadcast(c, s)

ConsumedToTheEnd == \A c \in Calls : status[c] = "consumed" => cursor[c] > Steps[c]

RecordInv == CursorFollows /\ PassedAreSent /\ ConsumedToTheEnd

\* RecordInv says more than the property.
LEMMA RecordSuffices == TypeOK /\ RecordInv => ConsumedMeansSent
<1> SUFFICES ASSUME TypeOK, RecordInv, NEW c \in Calls, status[c] = "consumed",
                    NEW s \in first[c]..Steps[c]
             PROVE  Broadcast(c, s)
  BY DEF ConsumedMeansSent, Broadcast
<1>1. first[c] \in Nat /\ cursor[c] \in Nat /\ Steps[c] \in Nat
  BY CallAssumption DEF TypeOK
<1>2. cursor[c] > Steps[c]
  BY DEF RecordInv, ConsumedToTheEnd
<1>3. s \in first[c]..(cursor[c] - 1)
  BY <1>1, <1>2
<1> QED
  BY <1>3 DEF RecordInv, PassedAreSent

\* No transaction is unsent: whatever the chain does to it, it was broadcast.
SendsStay == \A d \in Calls : \A s \in Nat : Broadcast(d, s) => Broadcast(d, s)'

\* Transactions that stay where they are keep their steps broadcast.
LEMMA SendsKept ==
  ASSUME UNCHANGED round,
         \A k \in DOMAIN txs : /\ k \in DOMAIN txs'
                               /\ txs'[k].call = txs[k].call
                               /\ txs'[k].round = txs[k].round
                               /\ txs'[k].step = txs[k].step
  PROVE  SendsStay
  BY DEF SendsStay, Broadcast

\* An accepted transaction leaves the others, and is itself broadcast.
LEMMA AcceptSends ==
  ASSUME TypeOK, NEW c \in Calls, Accept(c), UNCHANGED <<round, at>>
  PROVE  SendsStay /\ Broadcast(c, at[c])'
<1> DEFINE t == [call |-> c, round |-> round[c], step |-> at[c], nonce |-> nonce[c],
                 state |-> "pending"]
           N == Len(txs) + 1
<1>1. txs \in Seq(Tx) /\ txs' = Append(txs, t)
  BY DEF TypeOK, Accept, Tx
<1>2. t.call = c /\ t.step = at[c] /\ t.round = round[c]
  OBVIOUS
<1> HIDE DEF t
<1>3. /\ DOMAIN txs' = DOMAIN txs \cup {N}
      /\ \A k \in DOMAIN txs : txs'[k] = txs[k]
      /\ txs'[N] = t
  BY <1>1
<1>4. SendsStay
  BY <1>3, SendsKept
<1>5. Broadcast(c, at[c])'
  BY <1>2, <1>3 DEF Broadcast
<1> QED
  BY <1>4, <1>5

\* A step that leaves the record of every call alone but c's, and closes or
\* leaves c's, keeps it as long as c's cursor stays right.
LEMMA RecordKept ==
  ASSUME TypeOK, RecordInv, NEW c \in Calls, SendsStay, UNCHANGED <<first, at, cursor>>,
         \A d \in Calls : d # c => status'[d] = status[d] /\ pc'[d] = pc[d],
         status'[c] \in {status[c], "revoked"},
         status'[c] = "executing" => (pc'[c] = "receipt" <=> pc[c] = "receipt")
  PROVE  RecordInv'
<1>1. CursorFollows'
  <2> SUFFICES ASSUME NEW d \in Calls, status'[d] = "executing"
               PROVE  cursor'[d] = IF pc'[d] = "receipt" THEN at'[d] + 1 ELSE at'[d]
    BY DEF CursorFollows
  <2>1. status[d] = "executing" /\ (pc'[d] = "receipt" <=> pc[d] = "receipt")
    OBVIOUS
  <2> QED
    BY <2>1 DEF RecordInv, CursorFollows
<1>2. PassedAreSent'
  <2> SUFFICES ASSUME NEW d \in Calls, status'[d] \in {"executing", "consumed"},
                      NEW s \in first[d]..(cursor[d] - 1)
               PROVE  Broadcast(d, s)'
    BY DEF PassedAreSent
  <2>1. status[d] \in {"executing", "consumed"}
    OBVIOUS
  <2>2. s \in Nat
    BY DEF TypeOK
  <2>3. Broadcast(d, s)
    BY <2>1 DEF RecordInv, PassedAreSent
  <2> QED
    BY <2>2, <2>3 DEF SendsStay
<1>3. ConsumedToTheEnd'
  BY DEF RecordInv, ConsumedToTheEnd
<1> QED
  BY <1>1, <1>2, <1>3 DEF RecordInv

\* A revocation is such a step.
LEMMA RecordRevoked ==
  ASSUME TypeOK, RecordInv, NEW c \in Calls, SendsStay, RevokeApproval(c),
         UNCHANGED <<first, at>>, NEW w, pc' = [pc EXCEPT ![c] = w], Keystore
  PROVE  RecordInv'
<1>1. status'[c] \in {status[c], "revoked"} /\ status'[c] # "executing"
  BY DEF RevokeApproval, approvalVars, TypeOK
<1>2. \A d \in Calls : d # c => status'[d] = status[d] /\ pc'[d] = pc[d]
  BY DEF RevokeApproval, approvalVars, TypeOK
<1>3. UNCHANGED cursor
  BY DEF RevokeApproval, approvalVars
<1> QED
  BY <1>1, <1>2, <1>3, RecordKept

\* The owner's approval of a batch: the cursor and what was sent begin anew.
LEMMA RecordBegins ==
  ASSUME TypeOK, Custody, RecordInv, NEW c \in Calls, NEW s \in 1..Steps[c], Begin(c, s)
  PROVE  RecordInv'
<1> USE DEF accountVars
<1>0. s \in Nat
  BY CallAssumption
<1>1. UNCHANGED txs /\ \A d \in Calls : d # c => round'[d] = round[d]
  BY DEF Begin, TypeOK
<1>2. \A d \in Calls : d # c => \A r : Broadcast(d, r) => Broadcast(d, r)'
  BY <1>1 DEF Broadcast
<1>3. CASE Keystore
  <2>1. /\ first' = [first EXCEPT ![c] = s] /\ at' = [at EXCEPT ![c] = s]
        /\ status' = [status EXCEPT ![c] = "executing"]
        /\ cursor' = [cursor EXCEPT ![c] = s]
        /\ \E w \in {"guards", "before"} : pc' = [pc EXCEPT ![c] = w]
    BY <1>3 DEF Begin
  <2>2. CursorFollows'
    BY <2>1 DEF TypeOK, RecordInv, CursorFollows
  <2>3. PassedAreSent'
    <3> SUFFICES ASSUME NEW d \in Calls, status'[d] \in {"executing", "consumed"},
                        NEW r \in first'[d]..(cursor'[d] - 1)
                 PROVE  Broadcast(d, r)'
      BY DEF PassedAreSent
    <3>1. d # c
      BY <1>0, <2>1 DEF TypeOK
    <3>2. Broadcast(d, r)
      BY <2>1, <3>1 DEF TypeOK, RecordInv, PassedAreSent
    <3> QED
      BY <1>2, <3>1, <3>2
  <2>4. ConsumedToTheEnd'
    BY <2>1 DEF TypeOK, RecordInv, ConsumedToTheEnd
  <2> QED
    BY <2>2, <2>3, <2>4 DEF RecordInv
<1>4. CASE ~ Keystore
  <2>1. \A d \in Calls : status'[d] = "none"
    BY <1>4 DEF Begin, Custody, approvalVars
  <2> QED
    BY <2>1 DEF RecordInv, CursorFollows, PassedAreSent, ConsumedToTheEnd
<1> QED
  BY <1>3, <1>4

\* With a hot key there is no record, and nothing is said.
LEMMA RecordAbsent ==
  ASSUME Custody', ~ Keystore'
  PROVE  RecordInv'
  BY DEF Custody, RecordInv, CursorFollows, PassedAreSent, ConsumedToTheEnd

\* The node takes a transaction: the cursor passes it, and dexe_tx_send closes
\* its record with it.
LEMMA RecordSent ==
  ASSUME TypeOK, Custody, RecordInv, Keystore, NEW c \in Calls, Sent(c)
  PROVE  RecordInv'
<1>1. SendsStay /\ Broadcast(c, at[c])'
  BY AcceptSends DEF Sent
<1>2. UNCHANGED <<first, at>> /\ pc[c] = "broadcast"
  BY DEF Sent
<1>3. status[c] = "executing" /\ cursor[c] = at[c]
  BY <1>2 DEF Custody, RecordInv, CursorFollows
<1>4. cursor' = [cursor EXCEPT ![c] = at[c] + 1]
  BY <1>3 DEF Sent, FinishAt
<1>5. \/ /\ UNCHANGED status
         /\ pc' = [pc EXCEPT ![c] = "receipt"]
      \/ /\ status' = [status EXCEPT ![c] = IF at[c] + 1 > Steps[c] THEN "consumed" ELSE "revoked"]
         /\ pc' = [pc EXCEPT ![c] = "idle"]
  BY DEF Sent, FinishAt, Returns
<1>6. CursorFollows'
  BY <1>2, <1>3, <1>4, <1>5 DEF TypeOK, RecordInv, CursorFollows
<1>7. PassedAreSent'
  <2> SUFFICES ASSUME NEW d \in Calls, status'[d] \in {"executing", "consumed"},
                      NEW s \in first[d]..(cursor'[d] - 1)
               PROVE  Broadcast(d, s)'
    BY <1>2 DEF PassedAreSent
  <2>0. s \in Nat
    BY DEF TypeOK
  <2>1. CASE d = c /\ s = at[c]
    BY <1>1, <1>2, <2>1
  <2>2. CASE d # c \/ s # at[c]
    <3>1. s \in first[d]..(cursor[d] - 1)
      BY <1>3, <1>4, <2>2 DEF TypeOK
    <3>2. status[d] \in {"executing", "consumed"}
      BY <1>3, <1>5 DEF TypeOK
    <3>3. Broadcast(d, s)
      BY <3>1, <3>2 DEF RecordInv, PassedAreSent
    <3> QED
      BY <1>1, <2>0, <3>3 DEF SendsStay
  <2> QED
    BY <2>1, <2>2
<1>8. ConsumedToTheEnd'
  BY <1>3, <1>4, <1>5 DEF TypeOK, RecordInv, ConsumedToTheEnd
<1> QED
  BY <1>6, <1>7, <1>8 DEF RecordInv

\* A flow passes a mined step; after the last one its record is used up.
LEMMA RecordLands ==
  ASSUME TypeOK, Custody, RecordInv, Keystore, NEW c \in Calls, Landed(c)
  PROVE  RecordInv'
<1>1. UNCHANGED <<first, round, txs>> /\ at' = [at EXCEPT ![c] = at[c] + 1] /\ pc[c] = "receipt"
  BY DEF Landed, accountVars
<1>2. SendsStay
  BY <1>1, SendsKept
<1>3. status[c] = "executing" /\ cursor[c] = at[c] + 1
  BY <1>1 DEF Custody, RecordInv, CursorFollows
<1>4. \/ UNCHANGED <<status, cursor>> /\ pc' = [pc EXCEPT ![c] = "before"]
      \/ /\ status' = [status EXCEPT ![c] = IF cursor[c] > Steps[c] THEN "consumed" ELSE "revoked"]
         /\ cursor' = [cursor EXCEPT ![c] = cursor[c]]
         /\ pc' = [pc EXCEPT ![c] = "idle"]
  BY DEF Landed, FinishAt, Returns, approvalVars
<1>5. UNCHANGED cursor
  BY <1>4 DEF TypeOK
<1>6. CursorFollows'
  BY <1>1, <1>3, <1>4, <1>5 DEF TypeOK, RecordInv, CursorFollows
<1>7. PassedAreSent'
  <2> SUFFICES ASSUME NEW d \in Calls, status'[d] \in {"executing", "consumed"},
                      NEW s \in first[d]..(cursor[d] - 1)
               PROVE  Broadcast(d, s)'
    BY <1>1, <1>5 DEF PassedAreSent
  <2>1. status[d] \in {"executing", "consumed"}
    BY <1>3, <1>4 DEF TypeOK
  <2>2. Broadcast(d, s) /\ s \in Nat
    BY <2>1 DEF TypeOK, RecordInv, PassedAreSent
  <2> QED
    BY <1>2, <2>2 DEF SendsStay
<1>8. ConsumedToTheEnd'
  BY <1>4, <1>5 DEF TypeOK, RecordInv, ConsumedToTheEnd
<1> QED
  BY <1>6, <1>7, <1>8 DEF RecordInv

\* The chain moves, and no record does.
LEMMA RecordOnChain ==
  ASSUME TypeOK, RecordInv, UNCHANGED <<callVars, approvalVars>>, SendsStay
  PROVE  RecordInv'
<1> USE DEF callVars, approvalVars
<1>1. PassedAreSent'
  <2> SUFFICES ASSUME NEW d \in Calls, status[d] \in {"executing", "consumed"},
                      NEW s \in first[d]..(cursor[d] - 1)
               PROVE  Broadcast(d, s)'
    BY DEF PassedAreSent
  <2>1. Broadcast(d, s) /\ s \in Nat
    BY DEF TypeOK, RecordInv, PassedAreSent
  <2> QED
    BY <2>1 DEF SendsStay
<1>2. CursorFollows' /\ ConsumedToTheEnd'
  BY DEF RecordInv, CursorFollows, ConsumedToTheEnd
<1> QED
  BY <1>1, <1>2 DEF RecordInv

\* Every step keeps it.
LEMMA RecordStep == TypeOK /\ Custody /\ RecordInv /\ [SendNext]_sendVars => RecordInv'
<1> SUFFICES ASSUME TypeOK, Custody, RecordInv, [SendNext]_sendVars PROVE RecordInv'
  OBVIOUS
<1>0. CASE ~ Keystore
  BY <1>0, CustodyStep, ModeKept, RecordAbsent DEF Keystore
<1>1. CASE Keystore
  <2> USE <1>1 DEF accountVars
  <2>1. UNCHANGED <<round, txs>> => SendsStay
    BY SendsKept
  <2>2. ASSUME NEW c \in Calls, NEW why, Fail(c, why), SendsStay PROVE RecordInv'
    BY <2>2, RecordRevoked DEF Fail, Returns
  <2>3. ASSUME NEW c \in Calls, NEW why, Fail(c, why), UNCHANGED txs PROVE RecordInv'
    BY <2>1, <2>2, <2>3 DEF Fail
  <2>4. ASSUME NEW c \in Calls, pc[c] # "receipt", NEW w \in Waits \ {"receipt"},
               pc' = [pc EXCEPT ![c] = w], UNCHANGED <<first, at, round, txs, approvalVars>>
        PROVE  RecordInv'
    <3>1. /\ pc'[c] = w
          /\ \A d \in Calls : d # c => status'[d] = status[d] /\ pc'[d] = pc[d]
      BY <2>4 DEF TypeOK, approvalVars
    <3>2. UNCHANGED <<status, cursor>>
      BY <2>4 DEF approvalVars
    <3> QED
      BY <2>1, <2>4, <3>1, <3>2, RecordKept
  <2>5. ASSUME NEW c \in Calls, CallStep(c) PROVE RecordInv'
    <3>1. CASE Halt(c)
      BY <2>1, <3>1, RecordRevoked DEF Halt, OnHalt, Returns
    <3>2. CASE Go(c)
      BY <2>4, <3>2 DEF Go, Waits
    <3>3. CASE GuardsPass(c)
      <4>1. CASE Expected(c)
        BY <2>4, <3>3, <4>1 DEF GuardsPass, Waits
      <4>2. CASE ~ Expected(c)
        BY <2>3, <3>3, <4>2 DEF GuardsPass
      <4> QED
        BY <4>1, <4>2
    <3>4. CASE GuardsRefuse(c)
      BY <2>3, <3>4 DEF GuardsRefuse
    <3>5. CASE Estimated(c)
      BY <2>4, <3>5 DEF Estimated, Enqueue, Waits
    <3>6. CASE EstimateFails(c)
      BY <2>3, <3>6 DEF EstimateFails
    <3>7. CASE ReadNonce(c)
      BY <2>4, <3>7 DEF ReadNonce, Waits
    <3>8. CASE SendFails(c)
      BY <2>3, <3>8 DEF SendFails
    <3>9. CASE Sent(c)
      BY <3>9, RecordSent
    <3>10. CASE AnswerLost(c)
      <4>1. SendsStay
        BY <3>10, AcceptSends DEF AnswerLost, Fail
      <4> QED
        BY <2>2, <3>10, <4>1 DEF AnswerLost
    <3>11. CASE Landed(c)
      BY <3>11, RecordLands
    <3>12. CASE Reverted(c)
      BY <2>3, <3>12 DEF Reverted
    <3>13. CASE WaitFails(c)
      BY <2>3, <3>13 DEF WaitFails
    <3> QED
      BY <2>5, <3>1, <3>2, <3>3, <3>4, <3>5, <3>6, <3>7, <3>8, <3>9, <3>10, <3>11, <3>12, <3>13
         DEF CallStep
  <2>6. ASSUME NEW k \in DOMAIN txs, Mine(k) \/ Forget(k) PROVE RecordInv'
    <3>1. UNCHANGED <<callVars, approvalVars>>
      BY <2>6 DEF Mine, Forget
    <3>2. \E s \in {"mined", "reverted", "dropped"} : txs' = [txs EXCEPT ![k].state = s]
      BY <2>6 DEF Mine, Forget
    <3>3. txs \in Seq(Tx)
      BY DEF TypeOK, Tx
    <3>4. \A j \in DOMAIN txs : txs[j] \in Tx
      BY <3>3
    <3>5. \A j \in DOMAIN txs : /\ j \in DOMAIN txs'
                                /\ txs'[j].call = txs[j].call
                                /\ txs'[j].round = txs[j].round
                                /\ txs'[j].step = txs[j].step
      BY <3>2, <3>3, <3>4 DEF Tx
    <3>6. SendsStay
      BY <3>1, <3>5, SendsKept DEF callVars
    <3> QED
      BY <3>1, <3>6, RecordOnChain
  <2>7. CASE UNCHANGED sendVars
    BY <2>1, <2>7, RecordOnChain DEF sendVars, callVars
  <2> QED
    BY <2>5, <2>6, <2>7, RecordBegins DEF SendNext
<1> QED
  BY <1>0, <1>1

\* A record that says "consumed" stands for a batch whose every step was
\* broadcast, whatever was lost, refused or repeated on the way.
THEOREM RecordsAreTrue == SendSpec => []ConsumedMeansSent
<1>1. SendInit => Custody
  BY DEF SendInit, Custody
<1>2. SendInit => RecordInv
  BY DEF SendInit, RecordInv, CursorFollows, PassedAreSent, ConsumedToTheEnd
<1> QED
  BY <1>1, <1>2, RecordSuffices, RecordStep, CustodyStep, TypeInit, TypeStep, PTL DEF SendSpec

-----------------------------------------------------------------------------
(* Re-runs, when a transport fails only by its own TIMEOUT.  A transaction   *)
(* that may still take effect is one the next call of the flow asks about    *)
(* first, or one it does not send again.                                     *)

\* What may still take effect, or did.
Live == InState("pending") \cup InState("mined")

\* The call's live transactions from the step in hand on.
Beyond(c) == {k \in Live : txs[k].call = c /\ txs[k].step >= at[c]}

Sends == Waits \ {"idle", "receipt"}

\* The call will send the step in hand, or its result says it may.
SaysClear(c) == \/ pc[c] \in Sends
                \/ pc[c] = "idle" /\ (outcome[c] = "halted" \/ advice[c] = "rerun")

\* The call waits for the step in hand, or its result says to look it up.
SaysLook(c) == pc[c] = "receipt" \/ (pc[c] = "idle" /\ advice[c] = "checkFirst")

ClearIsClear == \A c \in Calls : SaysClear(c) => Beyond(c) = {}

LookIsInHand == \A c \in Calls : SaysLook(c) => Beyond(c) \subseteq InHand(c)

OneLive ==
  \A j, k \in Live : txs[j].call = txs[k].call /\ txs[j].step = txs[k].step => j = k

InItsRound ==
  \A k \in DOMAIN txs : /\ txs[k].round \in 1..round[txs[k].call]
                        /\ txs[k].step \in 1..Steps[txs[k].call]

OncePerRound ==
  \A j, k \in DOMAIN txs :
    /\ txs[j].call = txs[k].call
    /\ txs[j].round = txs[k].round
    /\ txs[j].step = txs[k].step
    => j = k

\* This round has sent the steps before the one in hand, and that one when its
\* receipt is waited for.
RoundSoFar ==
  \A c \in Calls, k \in DOMAIN txs :
    txs[k].call = c /\ txs[k].round = round[c] =>
      /\ pc[c] \in Sends => txs[k].step < at[c]
      /\ pc[c] = "receipt" => txs[k].step <= at[c]

UnderWay == \A c \in Calls : pc[c] # "idle" => round[c] >= 1 /\ advice[c] = "none"

OnceInv ==
  /\ ClearIsClear /\ LookIsInHand /\ OneLive
  /\ InItsRound /\ OncePerRound /\ RoundSoFar /\ UnderWay

\* What each transaction is made of.
LEMMA EachTyped ==
  ASSUME TypeOK
  PROVE  \A k \in DOMAIN txs :
           /\ txs[k].call \in Calls /\ txs[k].round \in Nat /\ txs[k].step \in Nat
           /\ txs[k] \in Tx
<1>1. txs \in Seq(Tx)
  BY DEF TypeOK, Tx
<1>2. \A k \in DOMAIN txs : txs[k] \in Tx
  BY <1>1
<1> QED
  BY <1>2 DEF Tx

\* OnceInv says more than the two properties.
LEMMA OnceSuffices == TypeOK /\ OnceInv => StepsHappenOnce /\ RerunNeverResends
<1> SUFFICES ASSUME TypeOK, OnceInv PROVE StepsHappenOnce /\ RerunNeverResends
  OBVIOUS
<1>1. StepsHappenOnce
  BY DEF OnceInv, OneLive, Live, StepsHappenOnce
<1>2. ASSUME NEW c \in Calls, advice[c] = "rerun", NEW k \in InHand(c) \cap Live PROVE FALSE
  <2>1. pc[c] = "idle"
    BY <1>2 DEF OnceInv, UnderWay
  <2>2. Beyond(c) = {}
    BY <1>2, <2>1 DEF OnceInv, ClearIsClear, SaysClear
  <2>3. at[c] >= at[c]
    BY DEF TypeOK
  <2> QED
    BY <1>2, <2>2, <2>3 DEF Beyond, InHand
<1> QED
  BY <1>1, <1>2 DEF RerunNeverResends, Live

\* A step that leaves the chain and the batch alone keeps it, if the call says
\* no more than it could before.
LEMMA OnceQuiet ==
  ASSUME TypeOK, OnceInv, NEW c \in Calls, UNCHANGED <<txs, round, at>>,
         \A d \in Calls : d # c =>
            pc'[d] = pc[d] /\ outcome'[d] = outcome[d] /\ advice'[d] = advice[d],
         pc'[c] # "idle" => pc[c] # "idle" /\ advice'[c] = "none",
         pc'[c] \in Sends => pc[c] \in Sends,
         pc'[c] = "receipt" => pc[c] = "receipt",
         SaysClear(c)' => SaysClear(c) \/ Beyond(c) = {},
         SaysLook(c)' => SaysClear(c) \/ SaysLook(c)
  PROVE  OnceInv'
<1>1. Live' = Live
  BY DEF Live, InState
<1>2. \A d \in Calls : Beyond(d)' = Beyond(d) /\ InHand(d)' = InHand(d)
  BY <1>1 DEF Beyond, InHand
<1>3. \A d \in Calls : d # c => (SaysClear(d)' <=> SaysClear(d)) /\ (SaysLook(d)' <=> SaysLook(d))
  BY DEF SaysClear, SaysLook
<1>4. ClearIsClear' /\ LookIsInHand'
  BY <1>2, <1>3 DEF OnceInv, ClearIsClear, LookIsInHand
<1>5. OneLive' /\ InItsRound' /\ OncePerRound'
  BY <1>1 DEF OnceInv, OneLive, InItsRound, OncePerRound
<1>6. RoundSoFar' /\ UnderWay'
  BY DEF OnceInv, RoundSoFar, UnderWay
<1> QED
  BY <1>4, <1>5, <1>6 DEF OnceInv

\* A call that had not yet sent the step in hand may say anything of it.
LEMMA OnceUnsent ==
  ASSUME TypeOK, OnceInv, NEW c \in Calls, UNCHANGED <<txs, round, at>>, pc[c] \in Sends,
         NEW w \in Sends \cup {"idle"}, pc' = [pc EXCEPT ![c] = w],
         \/ UNCHANGED <<outcome, advice>>
         \/ w = "idle" /\ \E r, v : /\ outcome' = [outcome EXCEPT ![c] = r]
                                    /\ advice' = [advice EXCEPT ![c] = v]
  PROVE  OnceInv'
<1>1. \A d \in Calls : d # c =>
        pc'[d] = pc[d] /\ outcome'[d] = outcome[d] /\ advice'[d] = advice[d]
  BY DEF TypeOK
<1>2. SaysClear(c)
  BY DEF SaysClear
<1>3. pc'[c] = w /\ (w # "idle" => UNCHANGED advice) /\ "receipt" \notin Sends /\ "idle" \notin Sends
  BY DEF TypeOK, Sends
<1>4. advice[c] = "none" /\ pc[c] # "idle"
  BY <1>3 DEF OnceInv, UnderWay
<1> QED
  BY <1>1, <1>2, <1>3, <1>4, OnceQuiet

\* The one transaction of a step is the only one of its round.
LEMMA OnlyOneInHand ==
  ASSUME OnceInv, NEW c \in Calls, NEW j \in InHand(c), NEW k \in InHand(c)
  PROVE  j = k
  BY DEF OnceInv, OncePerRound, InHand

\* A reverted step has nothing else that may take effect.
LEMMA OnceReverted ==
  ASSUME TypeOK, OnceInv, NEW c \in Calls, Reverted(c)
  PROVE  OnceInv'
<1> USE DEF accountVars
<1>1. PICK j \in InHand(c) : j \in InState("reverted") /\ j \notin Live
  BY DEF Reverted, Live, InState
<1>2. pc[c] = "receipt"
  BY DEF Reverted
<1>3. Beyond(c) \subseteq InHand(c)
  BY <1>2 DEF OnceInv, LookIsInHand, SaysLook
<1>4. Beyond(c) = {}
  BY <1>1, <1>3, OnlyOneInHand DEF Beyond
<1>5. UNCHANGED <<txs, round, at>> /\ pc' = [pc EXCEPT ![c] = "idle"]
  BY DEF Reverted, Fail, Returns
<1>6. \A d \in Calls : d # c => outcome'[d] = outcome[d] /\ advice'[d] = advice[d]
  BY DEF Reverted, Fail, Returns, TypeOK
<1>7. pc'[c] = "idle" /\ \A d \in Calls : d # c => pc'[d] = pc[d]
  BY <1>5 DEF TypeOK
<1> QED
  BY <1>2, <1>4, <1>5, <1>6, <1>7, OnceQuiet DEF SaysLook, Sends

\* A call that gives up waiting says to look the transaction up.
LEMMA OnceWaited ==
  ASSUME TypeOK, OnceInv, Faults \subseteq {"timeout"}, NEW c \in Calls, WaitFails(c)
  PROVE  OnceInv'
<1> USE DEF accountVars
<1>1. Fail(c, "timeout") /\ pc[c] = "receipt"
  BY DEF WaitFails
<1>2. UNCHANGED <<txs, round, at>> /\ pc' = [pc EXCEPT ![c] = "idle"]
  BY <1>1 DEF WaitFails, Fail, Returns
<1>3. /\ outcome' = [outcome EXCEPT ![c] = "failed"]
      /\ \E v \in {"none", "checkFirst"} : advice' = [advice EXCEPT ![c] = v]
  BY <1>1 DEF Fail, Returns, AdviceFor
<1>4. outcome'[c] # "halted" /\ advice'[c] # "rerun" /\ pc'[c] = "idle"
  BY <1>2, <1>3 DEF TypeOK
<1>5. \A d \in Calls : d # c =>
        pc'[d] = pc[d] /\ outcome'[d] = outcome[d] /\ advice'[d] = advice[d]
  BY <1>2, <1>3 DEF TypeOK
<1>6. ~ SaysClear(c)'
  BY <1>4 DEF SaysClear, Sends
<1>7. SaysLook(c)
  BY <1>1 DEF SaysLook
<1>8. "idle" \notin Sends
  BY DEF Sends
<1> QED
  BY <1>2, <1>4, <1>5, <1>6, <1>7, <1>8, OnceQuiet

\* A step that landed leaves nothing of the steps after it.
LEMMA OnceLanded ==
  ASSUME TypeOK, OnceInv, NEW c \in Calls, Landed(c)
  PROVE  OnceInv'
<1> USE DEF accountVars
<1>1. UNCHANGED <<txs, round>> /\ pc[c] = "receipt" /\ at' = [at EXCEPT ![c] = at[c] + 1]
  BY DEF Landed
<1>2. \/ pc' = [pc EXCEPT ![c] = "before"] /\ UNCHANGED <<outcome, advice>>
      \/ /\ pc' = [pc EXCEPT ![c] = "idle"]
         /\ outcome' = [outcome EXCEPT ![c] = "executed"]
         /\ advice' = [advice EXCEPT ![c] = "none"]
  BY DEF Landed, Returns
<1>3. Live' = Live
  BY <1>1 DEF Live, InState
<1>4. \A d \in Calls : d # c => /\ at'[d] = at[d] /\ pc'[d] = pc[d]
                                /\ outcome'[d] = outcome[d] /\ advice'[d] = advice[d]
  BY <1>1, <1>2 DEF TypeOK
<1>5. at'[c] = at[c] + 1 /\ at[c] \in Nat /\ pc'[c] \in {"before", "idle"} /\ ~ SaysLook(c)'
      /\ advice'[c] = "none"
  BY <1>1, <1>2 DEF TypeOK, SaysLook, OnceInv, UnderWay
<1>6. \A d \in Calls : d # c => Beyond(d)' = Beyond(d) /\ InHand(d)' = InHand(d)
  BY <1>1, <1>3, <1>4 DEF Beyond, InHand
<1>7. Beyond(c) \subseteq InHand(c)
  BY <1>1 DEF OnceInv, LookIsInHand, SaysLook
<1>8. \A k \in DOMAIN txs : txs[k].step \in Nat
  BY EachTyped
<1>9. Beyond(c)' = {}
  <2> SUFFICES ASSUME NEW k \in Live, txs[k].call = c, txs[k].step >= at[c] + 1 PROVE FALSE
    BY <1>1, <1>3, <1>5 DEF Beyond
  <2>1. k \in DOMAIN txs
    BY DEF Live, InState
  <2>2. k \in Beyond(c)
    BY <1>5, <1>8, <2>1 DEF Beyond
  <2>3. txs[k].step = at[c]
    BY <1>7, <2>2 DEF InHand
  <2> QED
    BY <1>5, <2>3
<1>10. ClearIsClear' /\ LookIsInHand'
  BY <1>4, <1>5, <1>6, <1>9 DEF OnceInv, ClearIsClear, LookIsInHand, SaysClear, SaysLook
<1>11. OneLive' /\ InItsRound' /\ OncePerRound'
  BY <1>1, <1>3 DEF OnceInv, OneLive, InItsRound, OncePerRound
<1>12. RoundSoFar'
  <2> SUFFICES ASSUME NEW d \in Calls, NEW k \in DOMAIN txs,
                      txs[k].call = d, txs[k].round = round[d]
               PROVE  /\ pc'[d] \in Sends => txs[k].step < at'[d]
                      /\ pc'[d] = "receipt" => txs[k].step <= at'[d]
    BY <1>1 DEF RoundSoFar
  <2>1. CASE d = c
    <3>1. txs[k].step <= at[c]
      BY <1>1, <2>1 DEF OnceInv, RoundSoFar
    <3> QED
      BY <1>5, <1>8, <2>1, <3>1
  <2>2. CASE d # c
    BY <1>4, <2>2 DEF OnceInv, RoundSoFar
  <2> QED
    BY <2>1, <2>2
<1>13. UnderWay'
  BY <1>1, <1>4, <1>5 DEF OnceInv, UnderWay
<1> QED
  BY <1>10, <1>11, <1>12, <1>13 DEF OnceInv

\* The node takes the transaction of the step in hand.
LEMMA OnceAccepted ==
  ASSUME TypeOK, OnceInv, LedgerInv, NEW c \in Calls, Accept(c), UNCHANGED <<round, at>>,
         pc[c] = "broadcast", NEW w \in {"receipt", "idle"}, pc' = [pc EXCEPT ![c] = w],
         \A d \in Calls : d # c => outcome'[d] = outcome[d] /\ advice'[d] = advice[d],
         w = "receipt" => advice'[c] = advice[c],
         ~ SaysClear(c)'
  PROVE  OnceInv'
<1> DEFINE t == [call |-> c, round |-> round[c], step |-> at[c], nonce |-> nonce[c],
                 state |-> "pending"]
           N == Len(txs) + 1
<1>1. txs \in Seq(Tx) /\ txs' = Append(txs, t)
  BY DEF TypeOK, Accept, Tx
<1>2. t.call = c /\ t.step = at[c] /\ t.round = round[c] /\ t.state = "pending"
  OBVIOUS
<1> HIDE DEF t
<1>3. /\ DOMAIN txs' = DOMAIN txs \cup {N} /\ N \notin DOMAIN txs
      /\ \A k \in DOMAIN txs : txs'[k] = txs[k]
      /\ txs'[N] = t
  BY <1>1
<1> HIDE DEF N
<1>4. Live' = Live \cup {N} /\ Live \subseteq DOMAIN txs
  BY <1>2, <1>3 DEF Live, InState
<1>5. pc[c] \in Sends /\ pc[c] # "idle" /\ "receipt" \notin Sends
  BY DEF Sends, Waits
<1>6. Beyond(c) = {} /\ round[c] >= 1 /\ advice[c] = "none"
  BY <1>5 DEF OnceInv, ClearIsClear, SaysClear, UnderWay
<1>7. round[c] \in Nat /\ at[c] \in Nat /\ at[c] \in 1..Steps[c]
  BY <1>5 DEF TypeOK, LedgerInv, WithinBatch
<1>8. pc'[c] = w /\ w \notin Sends /\ \A d \in Calls : d # c => pc'[d] = pc[d]
  BY DEF TypeOK, Sends
<1>9. \A d \in Calls : d # c => Beyond(d)' = Beyond(d) /\ InHand(d)' = InHand(d)
  BY <1>2, <1>3, <1>4 DEF Beyond, InHand
<1>10. Beyond(c)' \subseteq InHand(c)'
  <2> SUFFICES ASSUME NEW k \in Live', txs'[k].call = c, txs'[k].step >= at[c]
               PROVE  k = N
    BY <1>2, <1>3 DEF Beyond, InHand
  <2>1. k # N => k \in Beyond(c)
    BY <1>3, <1>4 DEF Beyond
  <2> QED
    BY <1>6, <2>1
<1>11. ClearIsClear' /\ LookIsInHand'
  BY <1>8, <1>9, <1>10 DEF OnceInv, ClearIsClear, LookIsInHand, SaysClear, SaysLook
<1>12. OneLive'
  <2>1. ASSUME NEW k \in Live, txs[k].call = c, txs[k].step = at[c] PROVE FALSE
    BY <1>6, <1>7, <2>1 DEF Beyond
  <2> QED
    BY <1>2, <1>3, <1>4, <2>1 DEF OnceInv, OneLive
<1>13. InItsRound'
  BY <1>2, <1>3, <1>6, <1>7 DEF OnceInv, InItsRound
<1>14. ASSUME NEW k \in DOMAIN txs, txs[k].call = c, txs[k].round = round[c]
       PROVE  txs[k].step < at[c]
  BY <1>5, <1>14 DEF OnceInv, RoundSoFar
<1>15. OncePerRound'
  <2>1. ASSUME NEW k \in DOMAIN txs,
               txs[k].call = c, txs[k].round = round[c], txs[k].step = at[c]
        PROVE  FALSE
    BY <1>7, <1>14, <2>1
  <2> QED
    BY <1>2, <1>3, <2>1 DEF OnceInv, OncePerRound
<1>16. RoundSoFar'
  <2> SUFFICES ASSUME NEW d \in Calls, NEW k \in DOMAIN txs',
                      txs'[k].call = d, txs'[k].round = round[d]
               PROVE  /\ pc'[d] \in Sends => txs'[k].step < at[d]
                      /\ pc'[d] = "receipt" => txs'[k].step <= at[d]
    BY DEF RoundSoFar
  <2>1. CASE d # c
    <3>1. k \in DOMAIN txs /\ txs'[k] = txs[k]
      BY <1>2, <1>3, <2>1
    <3> QED
      BY <1>8, <2>1, <3>1 DEF OnceInv, RoundSoFar
  <2>2. CASE d = c
    <3>1. k \in DOMAIN txs => txs'[k].step < at[c] /\ txs'[k].step \in Nat
      BY <1>3, <1>14, <2>2, EachTyped
    <3>2. k \notin DOMAIN txs => txs'[k].step = at[c]
      BY <1>2, <1>3
    <3> QED
      BY <1>7, <1>8, <2>2, <3>1, <3>2
  <2> QED
    BY <2>1, <2>2
<1>17. UnderWay'
  BY <1>6, <1>8 DEF OnceInv, UnderWay
<1> QED
  BY <1>11, <1>12, <1>13, <1>15, <1>16, <1>17 DEF OnceInv

\* The chain settles a transaction, or the node forgets it.
LEMMA OnceOnChain ==
  ASSUME TypeOK, OnceInv, UNCHANGED callVars, NEW k \in DOMAIN txs,
         txs[k].state = "pending", NEW s, txs' = [txs EXCEPT ![k].state = s]
  PROVE  OnceInv'
<1> USE DEF callVars
<1>1. txs \in Seq(Tx) /\ \A j \in DOMAIN txs : txs[j] \in Tx
  BY EachTyped DEF TypeOK, Tx
<1>2. /\ DOMAIN txs' = DOMAIN txs
      /\ \A j \in DOMAIN txs : /\ txs'[j].call = txs[j].call
                               /\ txs'[j].round = txs[j].round
                               /\ txs'[j].step = txs[j].step
  BY <1>1 DEF Tx
<1>3. \A j \in DOMAIN txs : j # k => txs'[j] = txs[j]
  BY <1>1
<1>4. Live' \subseteq Live /\ Live \subseteq DOMAIN txs
  BY <1>2, <1>3 DEF Live, InState
<1>5. \A d \in Calls : Beyond(d)' \subseteq Beyond(d) /\ InHand(d)' = InHand(d)
  BY <1>2, <1>4 DEF Beyond, InHand
<1>6. \A d \in Calls : (SaysClear(d)' <=> SaysClear(d)) /\ (SaysLook(d)' <=> SaysLook(d))
  BY DEF SaysClear, SaysLook
<1>7. ClearIsClear' /\ LookIsInHand'
  BY <1>5, <1>6 DEF OnceInv, ClearIsClear, LookIsInHand
<1>8. OneLive'
  BY <1>2, <1>4 DEF OnceInv, OneLive
<1>9. InItsRound' /\ OncePerRound' /\ RoundSoFar'
  BY <1>2 DEF OnceInv, InItsRound, OncePerRound, RoundSoFar
<1>10. UnderWay'
  BY DEF OnceInv, UnderWay
<1> QED
  BY <1>7, <1>8, <1>9, <1>10 DEF OnceInv

\* Whatever the advice was that led to it, a new batch begins behind everything
\* that may still take effect.
LEMMA RepeatIsClear ==
  ASSUME TypeOK, OnceInv, LedgerInv, NEW c \in Calls, NEW s \in 1..Steps[c], Begin(c, s),
         NEW k \in Live, txs[k].call = c, txs[k].step >= s
  PROVE  FALSE
<1>0. k \in DOMAIN txs
  BY DEF Live, InState
<1>1. pc[c] = "idle" /\ s \notin Done(c) /\ (round[c] = 0 \/ MayRepeat(c))
  BY DEF Begin, FirstUndone
<1>2. at[c] \in Nat /\ txs[k].step \in Nat /\ txs[k].step \in 1..Steps[c] /\ Steps[c] \in Nat
  BY <1>0, EachTyped, CallAssumption DEF TypeOK, OnceInv, InItsRound
<1>3. MayRepeat(c)
  BY <1>0, <1>1 DEF OnceInv, InItsRound
<1>4. s >= at[c]
  BY <1>1, <1>2 DEF LedgerInv, PassesWhatIsDone
<1>5. k \in Beyond(c)
  BY <1>2, <1>4 DEF Beyond
<1>6. CASE outcome[c] = "halted" \/ advice[c] = "rerun"
  BY <1>1, <1>5, <1>6 DEF OnceInv, ClearIsClear, SaysClear
<1>7. CASE advice[c] = "checkFirst" /\ InHand(c) \cap InState("pending") = {}
  <2>1. k \in InHand(c)
    BY <1>1, <1>5, <1>7 DEF OnceInv, LookIsInHand, SaysLook
  <2>2. k \in InState("mined")
    BY <1>7, <2>1 DEF Live
  <2>3. txs[k].step = s
    BY <1>2, <1>4, <2>1 DEF InHand
  <2> QED
    BY <1>1, <2>2, <2>3 DEF Done
<1> QED
  BY <1>3, <1>6, <1>7 DEF MayRepeat

\* A new batch keeps it.
LEMMA OnceBegins ==
  ASSUME TypeOK, OnceInv, LedgerInv, NEW c \in Calls, NEW s \in 1..Steps[c], Begin(c, s)
  PROVE  OnceInv'
<1> USE DEF accountVars
<1>1. /\ UNCHANGED txs
      /\ round' = [round EXCEPT ![c] = round[c] + 1]
      /\ at' = [at EXCEPT ![c] = s]
      /\ outcome' = [outcome EXCEPT ![c] = "none"]
      /\ advice' = [advice EXCEPT ![c] = "none"]
      /\ \E w \in {"guards", "before"} : pc' = [pc EXCEPT ![c] = w]
  BY DEF Begin
<1>2. /\ round'[c] = round[c] + 1 /\ round[c] \in Nat /\ at'[c] = s /\ advice'[c] = "none"
      /\ pc'[c] \in Sends /\ pc'[c] # "idle" /\ pc'[c] # "receipt"
  BY <1>1 DEF TypeOK, Sends, Waits
<1>3. \A d \in Calls : d # c =>
        /\ round'[d] = round[d] /\ at'[d] = at[d] /\ pc'[d] = pc[d]
        /\ outcome'[d] = outcome[d] /\ advice'[d] = advice[d]
  BY <1>1 DEF TypeOK
<1>4. Live' = Live
  BY <1>1 DEF Live, InState
<1>5. \A d \in Calls : d # c => Beyond(d)' = Beyond(d) /\ InHand(d)' = InHand(d)
  BY <1>1, <1>3, <1>4 DEF Beyond, InHand
<1>6. Beyond(c)' = {}
  BY <1>1, <1>2, <1>4, RepeatIsClear DEF Beyond
<1>7. ClearIsClear' /\ LookIsInHand'
  BY <1>2, <1>3, <1>5, <1>6 DEF OnceInv, ClearIsClear, LookIsInHand, SaysClear, SaysLook
<1>8. OneLive' /\ OncePerRound'
  BY <1>1, <1>4 DEF OnceInv, OneLive, OncePerRound
<1>9. \A k \in DOMAIN txs : txs[k].round \in 1..round[txs[k].call]
                            /\ txs[k].step \in 1..Steps[txs[k].call] /\ txs[k].call \in Calls
  BY EachTyped DEF OnceInv, InItsRound
<1>10. InItsRound'
  BY <1>1, <1>2, <1>3, <1>9 DEF InItsRound
<1>11. RoundSoFar'
  BY <1>1, <1>2, <1>3, <1>9 DEF OnceInv, RoundSoFar
<1>12. UnderWay'
  BY <1>2, <1>3 DEF OnceInv, UnderWay
<1> QED
  BY <1>7, <1>8, <1>10, <1>11, <1>12 DEF OnceInv

\* Every step keeps it.
LEMMA OnceStep ==
  ASSUME Faults \subseteq {"timeout"}
  PROVE  TypeOK /\ LedgerInv /\ OnceInv /\ [SendNext]_sendVars => OnceInv'
<1> SUFFICES ASSUME TypeOK, LedgerInv, OnceInv, [SendNext]_sendVars PROVE OnceInv'
  OBVIOUS
<1> USE DEF accountVars
<1>1. ASSUME NEW c \in Calls, NEW why, Fail(c, why), UNCHANGED txs, pc[c] \in Sends
      PROVE  OnceInv'
  BY <1>1, OnceUnsent DEF Fail, Returns
<1>2. ASSUME NEW c \in Calls, NEW w \in Sends, pc' = [pc EXCEPT ![c] = w], pc[c] \in Sends,
             UNCHANGED <<round, at, outcome, advice, txs>>
      PROVE  OnceInv'
  BY <1>2, OnceUnsent
<1>3. ASSUME NEW c \in Calls, CallStep(c) PROVE OnceInv'
  <2> USE DEF Sends, Waits
  <2>1. CASE Halt(c)
    BY <2>1, OnceUnsent DEF Halt, Returns
  <2>2. CASE Go(c)
    BY <1>2, <2>2 DEF Go
  <2>3. CASE GuardsPass(c)
    <3>1. CASE ~ Keystore
      BY <1>2, <2>3, <3>1 DEF GuardsPass, Enqueue
    <3>2. CASE Keystore /\ Expected(c)
      BY <1>2, <2>3, <3>2 DEF GuardsPass
    <3>3. CASE Keystore /\ ~ Expected(c)
      BY <1>1, <2>3, <3>3 DEF GuardsPass
    <3> QED
      BY <3>1, <3>2, <3>3
  <2>4. CASE GuardsRefuse(c)
    BY <1>1, <2>4 DEF GuardsRefuse
  <2>5. CASE Estimated(c)
    BY <1>2, <2>5 DEF Estimated, Enqueue
  <2>6. CASE EstimateFails(c)
    BY <1>1, <2>6 DEF EstimateFails
  <2>7. CASE ReadNonce(c)
    BY <1>2, <2>7 DEF ReadNonce
  <2>8. CASE SendFails(c)
    BY <1>1, <2>8 DEF SendFails
  <2>9. CASE Sent(c)
    <3>1. Accept(c) /\ pc[c] = "broadcast" /\ UNCHANGED <<round, at>>
      BY <2>9 DEF Sent
    <3>2. CASE c \in Singles
      <4>1. Returns(c, "sent", "none")
        BY <2>9, <3>2 DEF Sent
      <4>2. outcome'[c] = "sent" /\ advice'[c] = "none" /\ pc'[c] = "idle"
        BY <4>1 DEF Returns, TypeOK
      <4>3. ~ SaysClear(c)'
        BY <4>2 DEF SaysClear
      <4> QED
        BY <3>1, <4>1, <4>3, OnceAccepted DEF Returns, TypeOK
    <3>3. CASE c \notin Singles
      <4>1. pc' = [pc EXCEPT ![c] = "receipt"] /\ UNCHANGED <<outcome, advice>>
        BY <2>9, <3>3 DEF Sent
      <4>2. ~ SaysClear(c)'
        BY <4>1 DEF SaysClear, TypeOK
      <4> QED
        BY <3>1, <4>1, <4>2, OnceAccepted
    <3> QED
      BY <3>2, <3>3
  <2>10. CASE AnswerLost(c)
    <3>1. Accept(c) /\ pc[c] = "broadcast" /\ Fail(c, "timeout")
      BY <2>10 DEF AnswerLost
    <3>2. UNCHANGED <<round, at>> /\ pc' = [pc EXCEPT ![c] = "idle"]
      BY <3>1 DEF Fail, Returns
    <3>3. /\ outcome' = [outcome EXCEPT ![c] = "failed"]
          /\ \E v \in {"none", "checkFirst"} : advice' = [advice EXCEPT ![c] = v]
      BY <3>1 DEF Fail, Returns, AdviceFor
    <3>4. ~ SaysClear(c)'
      BY <3>2, <3>3 DEF SaysClear, TypeOK
    <3>5. \A d \in Calls : d # c => outcome'[d] = outcome[d] /\ advice'[d] = advice[d]
      BY <3>3 DEF TypeOK
    <3> QED
      BY <3>1, <3>2, <3>4, <3>5, OnceAccepted
  <2>11. CASE Landed(c)
    BY <2>11, OnceLanded
  <2>12. CASE Reverted(c)
    BY <2>12, OnceReverted
  <2>13. CASE WaitFails(c)
    BY <2>13, OnceWaited
  <2> QED
    BY <1>3, <2>1, <2>2, <2>3, <2>4, <2>5, <2>6, <2>7, <2>8, <2>9, <2>10, <2>11, <2>12, <2>13
       DEF CallStep
<1>4. ASSUME NEW k \in DOMAIN txs, Mine(k) \/ Forget(k) PROVE OnceInv'
  <2>1. txs[k].state = "pending" /\ UNCHANGED callVars
    BY <1>4 DEF Mine, Forget
  <2>2. \E s \in {"mined", "reverted", "dropped"} : txs' = [txs EXCEPT ![k].state = s]
    BY <1>4 DEF Mine, Forget
  <2> QED
    BY <2>1, <2>2, OnceOnChain
<1>5. CASE UNCHANGED sendVars
  <2>1. UNCHANGED <<pc, round, at, outcome, advice, txs>>
    BY <1>5 DEF sendVars, callVars
  <2>2. \A d \in Calls : Live' = Live /\ Beyond(d)' = Beyond(d) /\ InHand(d)' = InHand(d)
                         /\ SaysClear(d)' = SaysClear(d) /\ SaysLook(d)' = SaysLook(d)
    BY <2>1 DEF Live, InState, Beyond, InHand, SaysClear, SaysLook
  <2>3. ClearIsClear' /\ LookIsInHand'
    BY <2>2 DEF OnceInv, ClearIsClear, LookIsInHand
  <2>4. Live' = Live
    BY <2>1 DEF Live, InState
  <2> QED
    BY <2>1, <2>3, <2>4
       DEF OnceInv, OneLive, InItsRound, OncePerRound, RoundSoFar, UnderWay
<1> QED
  BY <1>3, <1>4, <1>5, OnceBegins DEF SendNext

\* The first state has sent nothing.
LEMMA OnceInit == SendInit => OnceInv
<1> SUFFICES ASSUME SendInit PROVE OnceInv
  OBVIOUS
<1>1. DOMAIN txs = {}
  BY DEF SendInit
<1>2. Live = {}
  BY <1>1 DEF Live, InState
<1>3. \A c \in Calls : Beyond(c) = {} /\ pc[c] = "idle"
  BY <1>2 DEF Beyond, SendInit
<1> QED
  BY <1>1, <1>2, <1>3
     DEF OnceInv, ClearIsClear, LookIsInHand, OneLive, InItsRound, OncePerRound, RoundSoFar,
         UnderWay, Sends

\* When a request fails in transport only by its own TIMEOUT, no step of a flow
\* takes effect twice, whatever fails where and however often the flow is
\* called again.
THEOREM NothingHappensTwice ==
  Faults \subseteq {"timeout"} => (SendSpec => []StepsHappenOnce)
<1> SUFFICES ASSUME Faults \subseteq {"timeout"} PROVE SendSpec => []StepsHappenOnce
  OBVIOUS
<1>1. TypeOK /\ LedgerInv /\ OnceInv /\ [SendNext]_sendVars => OnceInv'
  BY OnceStep
<1> QED
  BY <1>1, OnceInit, OnceSuffices, LedgerInit, LedgerStep, TypeInit, TypeStep, PTL DEF SendSpec

\* And "re-run this same call" is then only said when nothing of the step can
\* take effect any more: the other transport errors are what breaks it.
THEOREM RerunsAreSafe ==
  Faults \subseteq {"timeout"} => (SendSpec => []RerunNeverResends)
<1> SUFFICES ASSUME Faults \subseteq {"timeout"} PROVE SendSpec => []RerunNeverResends
  OBVIOUS
<1>1. TypeOK /\ LedgerInv /\ OnceInv /\ [SendNext]_sendVars => OnceInv'
  BY OnceStep
<1> QED
  BY <1>1, OnceInit, OnceSuffices, LedgerInit, LedgerStep, TypeInit, TypeStep, PTL DEF SendSpec

-----------------------------------------------------------------------------
(* What the owner is promised.  A round broadcasts the steps of its batch   *)
(* one after the other, so what the node accepted from it, read in the      *)
(* order of acceptance, is a beginning of the approved list.                *)

\* At which place of I is k?
Place(I, k) == Cardinality({j \in I : j <= k})

\* Every place of I is taken.
Ranked(I) == \A i \in 1..Cardinality(I) : \E k \in I : Place(I, k) = i

\* No transaction is of a round that its call has not begun.
NoneLater == \A k \in DOMAIN txs : txs[k].round <= round[txs[k].call]

\* The round has broadcast the steps from its first one to the one in hand.
Counted ==
  \A c \in Calls : pc[c] # "idle" =>
    /\ round[c] # 0 /\ first[c] \in 1..at[c]
    /\ Cardinality(ThisRound(c)) = (IF pc[c] = "receipt" THEN at[c] + 1 ELSE at[c]) - first[c]

AllRanked == \A c \in Calls : Ranked(ThisRound(c))

PromiseInv == NoneLater /\ Counted /\ AllRanked

LEMMA PositionsAreFew ==
  ASSUME NEW n \in Nat, NEW I \in SUBSET (1..n)
  PROVE  IsFiniteSet(I) /\ Cardinality(I) \in Nat
<1>1. IsFiniteSet(1..n)
  BY FS_Interval
<1>2. IsFiniteSet(I)
  BY <1>1, FS_Subset
<1> QED
  BY <1>2, FS_CardinalityType

\* Two positions never have the same place.
LEMMA OnePlace ==
  ASSUME NEW n \in Nat, NEW I \in SUBSET (1..n), NEW k \in I, NEW m \in I, Place(I, k) = Place(I, m)
  PROVE  k = m
<1>1. IsFiniteSet(I)
  BY PositionsAreFew
<1>2. ASSUME NEW a \in I, NEW b \in I, a < b, Place(I, a) = Place(I, b) PROVE FALSE
  <2> DEFINE A == {j \in I : j <= a}
             B == {j \in I : j <= b}
  <2>0. a \in Int /\ b \in Int /\ \A j \in I : j \in Int
    OBVIOUS
  <2>1. A \subseteq B /\ b \in B /\ b \notin A /\ B \subseteq I
    <3>1. \A j \in I : j <= a => j <= b
      BY <1>2, <2>0
    <3>2. b <= b /\ ~ (b <= a)
      BY <1>2, <2>0
    <3> QED
      BY <3>1, <3>2
  <2>2. Cardinality(A) = Cardinality(B)
    BY <1>2 DEF Place
  <2> HIDE DEF A, B
  <2>3. IsFiniteSet(B)
    BY <1>1, <2>1, FS_Subset
  <2>4. A = B
    BY <2>1, <2>2, <2>3, FS_Subset
  <2> QED
    BY <2>1, <2>4
<1>3. k \in Int /\ m \in Int
  OBVIOUS
<1> QED
  BY <1>2, <1>3

\* Nth finds the position at a place.
LEMMA NthIs ==
  ASSUME NEW n \in Nat, NEW I \in SUBSET (1..n), NEW k \in I
  PROVE  Nth(I, Place(I, k)) = k
<1> DEFINE m == Nth(I, Place(I, k))
<1>1. m \in I /\ Place(I, m) = Place(I, k)
  BY DEF Nth, Place
<1> HIDE DEF m
<1>2. m = k
  BY <1>1, OnePlace
<1> QED
  BY <1>2 DEF m

\* A new last position leaves the others at their places.
LEMMA LastPlace ==
  ASSUME NEW n \in Nat, NEW I \in SUBSET (1..n), Ranked(I), NEW J, J = I \cup {n + 1}
  PROVE  /\ Cardinality(I) \in Nat /\ Cardinality(J) = Cardinality(I) + 1
         /\ Ranked(J)
         /\ Nth(J, Cardinality(I) + 1) = n + 1
         /\ \A i \in 1..Cardinality(I) : Nth(I, i) \in I /\ Nth(J, i) = Nth(I, i)
<1> DEFINE N == Cardinality(I)
<1>1. IsFiniteSet(I) /\ N \in Nat
  BY PositionsAreFew
<1>2. n + 1 \notin I
  OBVIOUS
<1>3. Cardinality(J) = N + 1
  BY <1>1, <1>2, FS_AddElement
<1>4. J \in SUBSET (1..(n + 1)) /\ n + 1 \in Nat /\ n + 1 \in J /\ I \subseteq J
  OBVIOUS
<1>5. ASSUME NEW k \in I PROVE Place(J, k) = Place(I, k)
  <2>1. {j \in J : j <= k} = {j \in I : j <= k}
    OBVIOUS
  <2> QED
    BY <2>1 DEF Place
<1>6. Place(J, n + 1) = N + 1
  <2>1. {j \in J : j <= n + 1} = J
    <3>1. \A j \in J : j <= n + 1
      BY <1>4
    <3> QED
      BY <3>1
  <2> QED
    BY <1>3, <2>1 DEF Place
<1> HIDE DEF N
<1>7. \A i \in 1..N : \E k \in I : Place(I, k) = i
  BY DEF Ranked, N
<1>8. Nth(J, N + 1) = n + 1
  BY <1>4, <1>6, NthIs
<1>9. ASSUME NEW i \in 1..N PROVE Nth(I, i) \in I /\ Nth(J, i) = Nth(I, i)
  <2>1. PICK k \in I : Place(I, k) = i
    BY <1>7
  <2>2. Nth(I, i) = k
    BY <2>1, NthIs
  <2>3. Nth(J, i) = k
    BY <1>4, <1>5, <2>1, NthIs
  <2> QED
    BY <2>2, <2>3
<1>10. Ranked(J)
  <2> SUFFICES ASSUME NEW i \in 1..(N + 1) PROVE \E k \in J : Place(J, k) = i
    BY <1>3 DEF Ranked
  <2>1. i \in 1..N \/ i = N + 1
    BY <1>1
  <2> QED
    BY <1>4, <1>5, <1>6, <1>7, <2>1
<1> QED
  BY <1>1, <1>3, <1>8, <1>9, <1>10 DEF N

\* The round's transactions are positions of the account's.
LEMMA RoundInTxs ==
  ASSUME TypeOK, NEW c \in Calls
  PROVE  Len(txs) \in Nat /\ ThisRound(c) \in SUBSET (1..Len(txs))
<1>1. txs \in Seq(Tx)
  BY DEF TypeOK, Tx
<1> QED
  BY <1>1 DEF ThisRound

\* The steps and their order stay if the transactions do.
LEMMA SameBroadcasts ==
  ASSUME TypeOK, NEW c \in Calls, Ranked(ThisRound(c)), ThisRound(c)' = ThisRound(c),
         \A k \in ThisRound(c) : txs'[k].step = txs[k].step
  PROVE  Broadcasts(c)' = Broadcasts(c) /\ Ranked(ThisRound(c))'
<1> DEFINE I == ThisRound(c)
<1>1. Len(txs) \in Nat /\ I \in SUBSET (1..Len(txs))
  BY RoundInTxs
<1>2. ThisRound(c)' = I /\ Ranked(I) /\ \A k \in I : txs'[k].step = txs[k].step
  OBVIOUS
<1>3. Broadcasts(c) = [i \in 1..Cardinality(I) |-> txs[Nth(I, i)].step]
  BY DEF Broadcasts
<1>4. Broadcasts(c)' = [i \in 1..Cardinality(I) |-> txs'[Nth(I, i)].step]
  BY <1>2 DEF Broadcasts
<1> HIDE DEF I
<1>5. ASSUME NEW i \in 1..Cardinality(I) PROVE Nth(I, i) \in I
  <2>1. PICK k \in I : Place(I, k) = i
    BY <1>2 DEF Ranked
  <2>2. Nth(I, Place(I, k)) = k
    BY <1>1, NthIs
  <2> QED
    BY <2>1, <2>2
<1>6. Broadcasts(c)' = Broadcasts(c)
  BY <1>2, <1>3, <1>4, <1>5
<1>7. Ranked(ThisRound(c)')
  BY <1>2
<1> QED
  BY <1>6, <1>7 DEF Ranked, Place

\* The node takes one more.
LEMMA MoreBroadcasts ==
  ASSUME TypeOK, AllRanked, NoneLater, NEW c \in Calls, Accept(c), UNCHANGED <<round, at>>
  PROVE  /\ Broadcasts(c)' = Append(Broadcasts(c), at[c])
         /\ Cardinality(ThisRound(c)) \in Nat
         /\ Cardinality(ThisRound(c))' = Cardinality(ThisRound(c)) + 1
         /\ \A d \in Calls : d # c => ThisRound(d)' = ThisRound(d) /\ Broadcasts(d)' = Broadcasts(d)
         /\ AllRanked' /\ NoneLater'
<1> DEFINE t == [call |-> c, round |-> round[c], step |-> at[c], nonce |-> nonce[c], state |-> "pending"]
           n == Len(txs)
           I == ThisRound(c)
           N == Cardinality(I)
<1>1. txs \in Seq(Tx) /\ txs' = Append(txs, t)
  BY DEF TypeOK, Accept, Tx
<1>2. t.call = c /\ t.round = round[c] /\ t.step = at[c] /\ round[c] \in Nat /\ at[c] \in Nat
  BY DEF TypeOK
<1> HIDE DEF t
<1>3. /\ n \in Nat /\ DOMAIN txs = 1..n /\ DOMAIN txs' = DOMAIN txs \cup {n + 1}
      /\ \A k \in DOMAIN txs : txs'[k] = txs[k]
      /\ txs'[n + 1] = t
  BY <1>1
<1>4. I \in SUBSET (1..n) /\ Ranked(I)
  BY RoundInTxs DEF AllRanked
<1>5. ThisRound(c)' = I \cup {n + 1}
  BY <1>2, <1>3 DEF ThisRound
<1>6. ASSUME NEW d \in Calls, d # c
      PROVE  /\ ThisRound(d)' = ThisRound(d) /\ Broadcasts(d)' = Broadcasts(d)
             /\ Ranked(ThisRound(d))'
  <2>1. ThisRound(d)' = ThisRound(d)
    BY <1>2, <1>3, <1>6 DEF ThisRound
  <2>2. \A k \in ThisRound(d) : txs'[k].step = txs[k].step
    BY <1>3 DEF ThisRound
  <2> QED
    BY <2>1, <2>2, SameBroadcasts DEF AllRanked
<1> HIDE DEF n, I
<1>7. /\ N \in Nat /\ Cardinality(ThisRound(c)') = N + 1
      /\ Ranked(ThisRound(c)')
      /\ Nth(ThisRound(c)', N + 1) = n + 1
      /\ \A i \in 1..N : Nth(I, i) \in I /\ Nth(ThisRound(c)', i) = Nth(I, i)
  <2> DEFINE J == ThisRound(c)'
  <2>1. J = I \cup {n + 1} /\ n \in Nat
    BY <1>3, <1>5
  <2> HIDE DEF J
  <2>2. /\ N \in Nat /\ Cardinality(J) = N + 1
        /\ Ranked(J)
        /\ Nth(J, N + 1) = n + 1
        /\ \A i \in 1..N : Nth(I, i) \in I /\ Nth(J, i) = Nth(I, i)
    BY <1>4, <2>1, LastPlace
  <2> QED
    BY <2>2 DEF J
<1>8. Broadcasts(c) = [i \in 1..N |-> txs[Nth(I, i)].step]
  BY DEF Broadcasts, I
<1>9. Broadcasts(c)' = [i \in 1..(N + 1) |-> txs'[Nth(ThisRound(c)', i)].step]
  BY <1>7 DEF Broadcasts
<1>10. Broadcasts(c)' = Append(Broadcasts(c), at[c])
  <2> DEFINE B == Broadcasts(c)
             D == Broadcasts(c)'
  <2>1. \A i \in 1..N : D[i] = B[i]
    <3> SUFFICES ASSUME NEW i \in 1..N PROVE D[i] = B[i]
      OBVIOUS
    <3>0. i \in 1..(N + 1)
      <4> HIDE DEF N
      <4> QED
        BY <1>7
    <3>1. Nth(I, i) \in 1..n /\ Nth(ThisRound(c)', i) = Nth(I, i) /\ i \in 1..(N + 1)
      BY <1>4, <1>7, <3>0
    <3>2. txs'[Nth(I, i)] = txs[Nth(I, i)]
      BY <1>3, <3>1
    <3> QED
      BY <1>8, <1>9, <3>1, <3>2
  <2>2. D[N + 1] = at[c]
    BY <1>2, <1>3, <1>7, <1>9
  <2>3. B \in Seq(Nat) /\ Len(B) = N
    <3>1. \A i \in 1..N : txs[Nth(I, i)].step \in Nat
      <4> SUFFICES ASSUME NEW i \in 1..N PROVE txs[Nth(I, i)].step \in Nat
        OBVIOUS
      <4>1. Nth(I, i) \in DOMAIN txs
        BY <1>3, <1>4, <1>7
      <4>2. txs[Nth(I, i)] \in Tx
        BY <1>1, <4>1
      <4> QED
        BY <4>2 DEF Tx
    <3>2. B \in [1..N -> Nat]
      BY <1>8, <3>1
    <3> HIDE DEF B
    <3> QED
      BY <1>7, <3>2
  <2>4. D = [i \in 1..(N + 1) |-> D[i]]
    BY <1>9
  <2> HIDE DEF B, D
  <2>5. Append(B, at[c]) = [i \in 1..(N + 1) |-> IF i = N + 1 THEN at[c] ELSE B[i]]
    BY <1>2, <1>7, <2>3
  <2>6. \A i \in 1..(N + 1) : D[i] = IF i = N + 1 THEN at[c] ELSE B[i]
    BY <1>7, <2>1, <2>2
  <2>7. D = Append(B, at[c])
    BY <2>4, <2>5, <2>6
  <2> QED
    BY <2>7 DEF B, D
<1>11. AllRanked'
  <2>1. Ranked(ThisRound(c))'
    BY <1>7 DEF Ranked, Place
  <2> QED
    BY <1>6, <2>1 DEF AllRanked
<1>12. NoneLater'
  BY <1>2, <1>3 DEF NoneLater
<1> QED
  BY <1>6, <1>7, <1>10, <1>11, <1>12 DEF I

\* The same transactions, whatever became of them.
SameTxs ==
  /\ DOMAIN txs' = DOMAIN txs
  /\ \A k \in DOMAIN txs :
       txs'[k].call = txs[k].call /\ txs'[k].round = txs[k].round /\ txs'[k].step = txs[k].step

\* The state of OwnerScope that a state of the calls stands for.
Covered == [c \in Calls |-> IF round[c] = 0 \/ ~ Keystore THEN << >> ELSE From(c, first[c])]
Given == [c \in Calls |-> IF Keystore THEN Broadcasts(c) ELSE << >>]
Using == [c \in Calls |-> status[c] = "executing"]

\* A step the owner does not see, or one that OwnerScope allows.
Promised == Scope!ScopeNext \/ UNCHANGED <<Covered, Given, Using>>

\* With the keystore the approvals in use are those of the calls under way.
LEMMA UsingIsUnderWay == Custody /\ Keystore => Using = [c \in Calls |-> pc[c] # "idle"]
  BY DEF Custody, Using

LEMMA SameRounds ==
  ASSUME TypeOK, AllRanked, NoneLater, SameTxs, UNCHANGED round
  PROVE  /\ \A d \in Calls : ThisRound(d)' = ThisRound(d) /\ Broadcasts(d)' = Broadcasts(d)
         /\ AllRanked' /\ NoneLater'
<1>1. ASSUME NEW d \in Calls
      PROVE  /\ ThisRound(d)' = ThisRound(d) /\ Broadcasts(d)' = Broadcasts(d)
             /\ Ranked(ThisRound(d))'
  <2>1. ThisRound(d)' = ThisRound(d)
    BY DEF SameTxs, ThisRound
  <2>2. \A k \in ThisRound(d) : txs'[k].step = txs[k].step
    BY DEF SameTxs, ThisRound
  <2> QED
    BY <2>1, <2>2, SameBroadcasts DEF AllRanked
<1>2. NoneLater'
  BY DEF NoneLater, SameTxs
<1> QED
  BY <1>1, <1>2 DEF AllRanked

\* A call goes on with its step, or ends.
LEMMA PromiseQuiet ==
  ASSUME TypeOK, Custody, Custody', PromiseInv, SameTxs, UNCHANGED <<mode, round, first, at>>, Keystore,
         NEW c \in Calls, pc[c] # "idle", NEW w \in Waits,
         pc' = [pc EXCEPT ![c] = w], w = "idle" \/ (w = "receipt" <=> pc[c] = "receipt")
  PROVE  PromiseInv' /\ Promised
<1>1. /\ \A d \in Calls : ThisRound(d)' = ThisRound(d) /\ Broadcasts(d)' = Broadcasts(d)
      /\ AllRanked' /\ NoneLater'
  BY SameRounds DEF PromiseInv
<1>2. /\ pc \in [Calls -> Waits] /\ Keystore'
  BY DEF TypeOK, Keystore
<1>3. Counted'
  <2> SUFFICES ASSUME NEW d \in Calls, pc'[d] # "idle"
               PROVE  /\ round[d] # 0 /\ first[d] \in 1..at[d]
                      /\ Cardinality(ThisRound(d)) = (IF pc'[d] = "receipt" THEN at[d] + 1 ELSE at[d]) - first[d]
    BY <1>1 DEF Counted
  <2>1. pc[d] # "idle" /\ (pc'[d] = "receipt" <=> pc[d] = "receipt")
    BY <1>2
  <2> QED
    BY <2>1 DEF PromiseInv, Counted
<1>4. Covered' = Covered /\ Given' = Given
  BY <1>1, <1>2 DEF Covered, Given, From, Keystore
<1>5. Using = [d \in Calls |-> pc[d] # "idle"] /\ Using' = [d \in Calls |-> pc'[d] # "idle"]
  BY <1>2, UsingIsUnderWay DEF Custody, Using, Keystore
<1>6. CASE w # "idle"
  <2>1. Using' = Using
    BY <1>2, <1>5, <1>6
  <2> QED
    BY <1>1, <1>3, <1>4, <2>1 DEF PromiseInv, Promised
<1>7. CASE w = "idle"
  <2>1. Using[c] /\ Using' = [Using EXCEPT ![c] = FALSE]
    BY <1>2, <1>5, <1>7
  <2>2. Scope!End(c)
    BY <1>4, <2>1 DEF Scope!End, Covered, Given, Using
  <2> QED
    BY <1>1, <1>3, <2>2 DEF PromiseInv, Promised, Scope!ScopeNext
<1> QED
  BY <1>6, <1>7

\* A new round puts up what is not done and has broadcast nothing.
LEMMA PromiseBegins ==
  ASSUME TypeOK, Custody, Custody', PromiseInv, Keystore, NEW c \in Calls, NEW s \in 1..Steps[c], Begin(c, s)
  PROVE  PromiseInv' /\ Promised
<1>1. /\ pc[c] = "idle" /\ round' = [round EXCEPT ![c] = round[c] + 1] /\ first' = [first EXCEPT ![c] = s]
      /\ at' = [at EXCEPT ![c] = s] /\ txs' = txs /\ mode' = mode
      /\ pc' = [pc EXCEPT ![c] = IF c \in Singles THEN "guards" ELSE "before"]
  BY DEF Begin, accountVars
<1>2. /\ pc \in [Calls -> Waits] /\ round \in [Calls -> Nat] /\ first \in [Calls -> Nat]
      /\ at \in [Calls -> Nat] /\ s \in Nat /\ s >= 1 /\ Keystore'
  <2>1. Steps \in [Calls -> Nat \ {0}] /\ s \in 1..Steps[c]
    BY CallAssumption
  <2>2. s \in Nat /\ s >= 1
    BY <2>1
  <2>3. 0..MaxRounds \subseteq Nat
    OBVIOUS
  <2>4. round \in [Calls -> Nat]
    BY <2>3 DEF TypeOK
  <2> QED
    BY <1>1, <2>2, <2>4 DEF TypeOK, Keystore
<1>3. ThisRound(c)' = {}
  <2> SUFFICES ASSUME NEW k \in DOMAIN txs, txs[k].call = c, txs[k].round = round[c] + 1 PROVE FALSE
    BY <1>1, <1>2 DEF ThisRound
  <2>1. txs[k].round <= round[c]
    BY DEF PromiseInv, NoneLater
  <2> QED
    BY <1>2, <2>1
<1>4. ASSUME NEW d \in Calls, d # c
      PROVE  /\ ThisRound(d)' = ThisRound(d) /\ Broadcasts(d)' = Broadcasts(d)
             /\ Ranked(ThisRound(d))'
  <2>1. round'[d] = round[d]
    BY <1>1, <1>2, <1>4
  <2>2. ThisRound(d)' = ThisRound(d)
    BY <1>1, <2>1 DEF ThisRound
  <2>3. \A k \in ThisRound(d) : txs'[k].step = txs[k].step
    BY <1>1
  <2> QED
    BY <2>2, <2>3, SameBroadcasts DEF PromiseInv, AllRanked
<1>5. Cardinality(ThisRound(c)') = 0
  BY <1>3, FS_EmptySet
<1>6. AllRanked'
  <2>1. Ranked(ThisRound(c))'
    BY <1>5 DEF Ranked
  <2> QED
    BY <1>4, <2>1 DEF AllRanked
<1>7. NoneLater'
  <2> SUFFICES ASSUME NEW k \in DOMAIN txs PROVE txs[k].round <= round'[txs[k].call]
    BY <1>1 DEF NoneLater
  <2>0. txs \in Seq(Tx)
    BY DEF TypeOK, Tx
  <2>1. txs[k] \in Tx
    BY <2>0
  <2>2. txs[k].round \in Nat /\ txs[k].call \in Calls
    BY <2>1 DEF Tx
  <2>3. txs[k].round <= round[txs[k].call]
    BY DEF PromiseInv, NoneLater
  <2> QED
    BY <1>1, <1>2, <2>2, <2>3
<1>8. Counted'
  <2> SUFFICES ASSUME NEW d \in Calls, pc'[d] # "idle"
               PROVE  /\ round'[d] # 0 /\ first'[d] \in 1..at'[d]
                      /\ Cardinality(ThisRound(d)') = (IF pc'[d] = "receipt" THEN at'[d] + 1 ELSE at'[d]) - first'[d]
    BY DEF Counted
  <2>1. CASE d = c
    BY <1>1, <1>2, <1>5, <2>1
  <2>2. CASE d # c
    <3>1. first'[d] = first[d] /\ at'[d] = at[d] /\ pc'[d] = pc[d] /\ round'[d] = round[d]
      BY <1>1, <1>2, <2>2
    <3> QED
      BY <1>4, <2>2, <3>1 DEF PromiseInv, Counted
  <2> QED
    BY <2>1, <2>2
<1>9. Covered' = [Covered EXCEPT ![c] = From(c, s)]
  <2>1. Covered'[c] = From(c, s)
    <3>1. round'[c] # 0 /\ first'[c] = s
      BY <1>1, <1>2
    <3> QED
      BY <1>2, <3>1 DEF Covered, From
  <2>2. ASSUME NEW d \in Calls, d # c PROVE Covered'[d] = Covered[d]
    <3>1. round'[d] = round[d] /\ first'[d] = first[d]
      BY <1>1, <1>2, <2>2
    <3> QED
      BY <1>2, <3>1 DEF Covered, From
  <2> QED
    BY <2>1, <2>2 DEF Covered
<1>10. Given' = [Given EXCEPT ![c] = << >>]
  <2>1. Broadcasts(c)' = << >>
    BY <1>5 DEF Broadcasts
  <2>2. \A d \in Calls : Given'[d] = IF d = c THEN << >> ELSE Given[d]
    BY <1>2, <1>4, <2>1 DEF Given
  <2> QED
    BY <2>2 DEF Given
<1>11. ~ Using[c] /\ Using' = [Using EXCEPT ![c] = TRUE]
  <2>1. Using = [d \in Calls |-> pc[d] # "idle"] /\ Using' = [d \in Calls |-> pc'[d] # "idle"]
    BY <1>2, UsingIsUnderWay DEF Custody, Using, Keystore
  <2> QED
    BY <1>1, <1>2, <2>1
<1>12. Scope!Grant(c)
  <2>1. From(c, s) \in {From(c, r) : r \in 1..Steps[c]}
    OBVIOUS
  <2> QED
    BY <1>9, <1>10, <1>11, <2>1 DEF Scope!Grant, Covered, Given, Using
<1> QED
  BY <1>6, <1>7, <1>8, <1>12 DEF PromiseInv, Promised, Scope!ScopeNext

\* The node takes the step in hand, whether or not the call hears of it.
LEMMA PromiseSends ==
  ASSUME TypeOK, Custody, Custody', LedgerInv, PromiseInv, Keystore, NEW c \in Calls, pc[c] = "broadcast",
         Accept(c), UNCHANGED <<mode, round, first, at>>,
         NEW w \in {"idle", "receipt"}, pc' = [pc EXCEPT ![c] = w]
  PROVE  PromiseInv' /\ Promised
<1>1. /\ Broadcasts(c)' = Append(Broadcasts(c), at[c])
      /\ Cardinality(ThisRound(c)) \in Nat
      /\ Cardinality(ThisRound(c))' = Cardinality(ThisRound(c)) + 1
      /\ \A d \in Calls : d # c => ThisRound(d)' = ThisRound(d) /\ Broadcasts(d)' = Broadcasts(d)
      /\ AllRanked' /\ NoneLater'
  BY MoreBroadcasts DEF PromiseInv
<1>2. /\ pc \in [Calls -> Waits] /\ Keystore'
      /\ Steps[c] \in Nat /\ first[c] \in Nat /\ at[c] \in Nat
  <2>1. Steps[c] \in Nat
    BY CallAssumption
  <2> QED
    BY <2>1 DEF TypeOK, Keystore
<1>3. /\ first[c] \in 1..at[c] /\ Cardinality(ThisRound(c)) = at[c] - first[c] /\ at[c] \in 1..Steps[c]
      /\ round[c] # 0
  BY DEF PromiseInv, Counted, LedgerInv, WithinBatch
<1>4. Counted'
  <2> SUFFICES ASSUME NEW d \in Calls, pc'[d] # "idle"
               PROVE  /\ round[d] # 0 /\ first[d] \in 1..at[d]
                      /\ Cardinality(ThisRound(d)') = (IF pc'[d] = "receipt" THEN at[d] + 1 ELSE at[d]) - first[d]
    BY DEF Counted
  <2>1. CASE d = c
    BY <1>1, <1>2, <1>3, <2>1
  <2>2. CASE d # c
    <3>1. pc'[d] = pc[d]
      BY <1>2, <2>2
    <3> QED
      BY <1>1, <2>2, <3>1 DEF PromiseInv, Counted
  <2> QED
    BY <2>1, <2>2
<1>5. Covered' = Covered
  BY <1>2 DEF Covered, From, Keystore
<1>6. Given' = [Given EXCEPT ![c] = Append(Given[c], at[c])]
  <2>1. \A d \in Calls : Given'[d] = IF d = c THEN Append(Given[c], at[c]) ELSE Given[d]
    BY <1>1, <1>2 DEF Given
  <2> QED
    BY <2>1 DEF Given
<1>7. Using[c] /\ Using' = [Using EXCEPT ![c] = (w = "receipt")]
  <2>1. Using = [d \in Calls |-> pc[d] # "idle"] /\ Using' = [d \in Calls |-> pc'[d] # "idle"]
    BY <1>2, UsingIsUnderWay DEF Custody, Using, Keystore
  <2> QED
    BY <1>2, <2>1
<1>8. /\ Given[c] = Broadcasts(c) /\ Len(Broadcasts(c)) = at[c] - first[c]
  <2> DEFINE N == Cardinality(ThisRound(c))
  <2>1. DOMAIN Broadcasts(c) = 1..N /\ N \in Nat
    BY <1>1 DEF Broadcasts
  <2> HIDE DEF N
  <2>2. Len(Broadcasts(c)) = N
    BY <2>1
  <2> QED
    BY <1>2, <1>3, <2>2 DEF Given, N
<1>9. Covered[c] = From(c, first[c])
  <2>1. round[c] # 0
    BY DEF PromiseInv, Counted
  <2> QED
    BY <1>2, <2>1 DEF Covered
<1>10. Len(From(c, first[c])) = Steps[c] - first[c] + 1 /\ From(c, first[c])[(at[c] - first[c]) + 1] = at[c]
  BY <1>2, <1>3 DEF From
<1>11. Scope!SendNext(c)
  <2>1. /\ Len(Given[c]) < Len(Covered[c])
        /\ Given' = [Given EXCEPT ![c] = Append(@, Covered[c][Len(@) + 1])]
    BY <1>2, <1>3, <1>6, <1>8, <1>9, <1>10
  <2>2. Using[c] /\ \E more \in BOOLEAN : Using' = [Using EXCEPT ![c] = more]
    BY <1>7
  <2> QED
    BY <1>5, <2>1, <2>2 DEF Scope!SendNext, Covered, Given, Using
<1> QED
  BY <1>1, <1>4, <1>11 DEF PromiseInv, Promised, Scope!ScopeNext

\* A receipt comes in: on to the next step, or the batch is over.
LEMMA PromiseLands ==
  ASSUME TypeOK, Custody, Custody', PromiseInv, Keystore, UNCHANGED mode, NEW c \in Calls, Landed(c)
  PROVE  PromiseInv' /\ Promised
<1>1. /\ pc[c] = "receipt" /\ at' = [at EXCEPT ![c] = at[c] + 1]
      /\ UNCHANGED <<round, first, txs>>
      /\ pc' = [pc EXCEPT ![c] = IF at[c] < Steps[c] THEN "before" ELSE "idle"]
  BY DEF Landed, Returns, accountVars
<1>2. SameTxs
  BY <1>1 DEF SameTxs
<1>3. /\ \A d \in Calls : ThisRound(d)' = ThisRound(d) /\ Broadcasts(d)' = Broadcasts(d)
      /\ AllRanked' /\ NoneLater'
  BY <1>1, <1>2, SameRounds DEF PromiseInv
<1>4. /\ pc \in [Calls -> Waits] /\ Keystore' /\ at \in [Calls -> Nat] /\ first \in [Calls -> Nat]
  BY DEF TypeOK, Keystore
<1>5. Counted'
  <2> SUFFICES ASSUME NEW d \in Calls, pc'[d] # "idle"
               PROVE  /\ round[d] # 0 /\ first[d] \in 1..at'[d]
                      /\ Cardinality(ThisRound(d)) = (IF pc'[d] = "receipt" THEN at'[d] + 1 ELSE at'[d]) - first[d]
    BY <1>1, <1>3 DEF Counted
  <2>1. CASE d = c
    <3>0. pc[c] = "receipt" /\ pc[c] # "idle" /\ Counted
      BY <1>1 DEF PromiseInv
    <3>1. pc'[c] = "before" /\ at'[c] = at[c] + 1
      BY <1>1, <1>4, <2>1
    <3>2. round[c] # 0 /\ first[c] \in 1..at[c] /\ Cardinality(ThisRound(c)) = (at[c] + 1) - first[c]
      BY <3>0 DEF Counted
    <3>3. at[c] \in Nat /\ first[c] \in Nat
      BY <1>4
    <3> QED
      BY <2>1, <3>1, <3>2, <3>3
  <2>2. CASE d # c
    <3>1. pc'[d] = pc[d] /\ at'[d] = at[d]
      BY <1>1, <1>4, <2>2
    <3> QED
      BY <3>1 DEF PromiseInv, Counted
  <2> QED
    BY <2>1, <2>2
<1>6. Covered' = Covered /\ Given' = Given
  BY <1>1, <1>3, <1>4 DEF Covered, Given, From, Keystore
<1>7. Using = [d \in Calls |-> pc[d] # "idle"] /\ Using' = [d \in Calls |-> pc'[d] # "idle"]
  BY <1>4, UsingIsUnderWay DEF Custody, Using, Keystore
<1>8. CASE at[c] < Steps[c]
  <2>1. Using' = Using
    BY <1>1, <1>4, <1>7, <1>8
  <2> QED
    BY <1>3, <1>5, <1>6, <2>1 DEF PromiseInv, Promised
<1>9. CASE ~ (at[c] < Steps[c])
  <2>1. Using[c] /\ Using' = [Using EXCEPT ![c] = FALSE]
    BY <1>1, <1>4, <1>7, <1>9
  <2>2. Scope!End(c)
    BY <1>6, <2>1 DEF Scope!End, Covered, Given, Using
  <2> QED
    BY <1>3, <1>5, <2>2 DEF PromiseInv, Promised, Scope!ScopeNext
<1> QED
  BY <1>8, <1>9

\* A step of the chain, or none, is not the owner's business.
LEMMA PromiseOnChain ==
  ASSUME TypeOK, PromiseInv, SameTxs, Keystore, UNCHANGED <<mode, callVars, approvalVars>>
  PROVE  PromiseInv' /\ Promised
<1>1. UNCHANGED <<mode, pc, round, first, at, status>>
  BY DEF callVars, approvalVars
<1>2. /\ \A d \in Calls : ThisRound(d)' = ThisRound(d) /\ Broadcasts(d)' = Broadcasts(d)
      /\ AllRanked' /\ NoneLater'
  BY <1>1, SameRounds DEF PromiseInv
<1>3. Counted'
  BY <1>1, <1>2 DEF PromiseInv, Counted
<1>4. UNCHANGED <<Covered, Given, Using>>
  BY <1>1, <1>2 DEF Covered, Given, Using, From, Keystore
<1> QED
  BY <1>2, <1>3, <1>4 DEF PromiseInv, Promised

\* With a hot key nothing is promised and nothing moves.
LEMMA NothingPromised ==
  ASSUME Custody, Custody', ~ Keystore, UNCHANGED mode
  PROVE  UNCHANGED <<Covered, Given, Using>>
<1>1. \A c \in Calls : status[c] = "none" /\ status'[c] = "none"
  BY DEF Custody, Keystore
<1> QED
  BY <1>1 DEF Keystore, Covered, Given, Using

\* Every step keeps the invariant and is one that OwnerScope allows.
LEMMA PromiseStep ==
  TypeOK /\ Custody /\ LedgerInv /\ (Keystore => PromiseInv) /\ [SendNext]_sendVars
    => (Keystore => PromiseInv)' /\ Promised
<1> SUFFICES ASSUME TypeOK, Custody, LedgerInv, Keystore => PromiseInv, [SendNext]_sendVars
             PROVE  (Keystore => PromiseInv)' /\ Promised
  OBVIOUS
<1>0. Custody' /\ UNCHANGED mode
  BY CustodyStep, ModeKept
<1>1. CASE ~ Keystore
  BY <1>0, <1>1, NothingPromised DEF Promised, Keystore
<1>2. CASE Keystore
  <2>0. PromiseInv
    BY <1>2
  <2> SUFFICES PromiseInv' /\ Promised
    OBVIOUS
  <2> USE <1>0, <1>2, <2>0 DEF accountVars
  <2>1. UNCHANGED txs => SameTxs
    BY DEF SameTxs
  <2>2. ASSUME NEW c \in Calls, pc[c] # "idle", NEW w \in Waits,
               pc' = [pc EXCEPT ![c] = w], w = "idle" \/ (w = "receipt" <=> pc[c] = "receipt"),
               UNCHANGED <<round, first, at, txs>>
        PROVE  PromiseInv' /\ Promised
    BY <2>1, <2>2, PromiseQuiet
  <2>3. ASSUME NEW c \in Calls, pc[c] # "idle", NEW why, Fail(c, why), UNCHANGED txs
        PROVE  PromiseInv' /\ Promised
    BY <2>2, <2>3 DEF Fail, Returns, Waits
  <2>4. ASSUME NEW c \in Calls, CallStep(c) PROVE PromiseInv' /\ Promised
    <3>1. CASE Halt(c)
      BY <2>2, <3>1 DEF Halt, Returns, Waits
    <3>2. CASE Go(c)
      BY <2>2, <3>2 DEF Go, Waits
    <3>3. CASE GuardsPass(c)
      <4>1. CASE Expected(c)
        BY <2>2, <3>3, <4>1 DEF GuardsPass, Waits
      <4>2. CASE ~ Expected(c)
        BY <2>3, <3>3, <4>2 DEF GuardsPass
      <4> QED
        BY <4>1, <4>2
    <3>4. CASE GuardsRefuse(c)
      BY <2>3, <3>4 DEF GuardsRefuse
    <3>5. CASE Estimated(c)
      BY <2>2, <3>5 DEF Estimated, Enqueue, Waits
    <3>6. CASE EstimateFails(c)
      BY <2>3, <3>6 DEF EstimateFails
    <3>7. CASE ReadNonce(c)
      BY <2>2, <3>7 DEF ReadNonce, Waits
    <3>8. CASE SendFails(c)
      BY <2>3, <3>8 DEF SendFails
    <3>9. CASE Sent(c)
      BY <3>9, PromiseSends DEF Sent, Returns
    <3>10. CASE AnswerLost(c)
      BY <3>10, PromiseSends DEF AnswerLost, Fail, Returns
    <3>11. CASE Landed(c)
      BY <3>11, PromiseLands
    <3>12. CASE Reverted(c)
      BY <2>3, <3>12 DEF Reverted
    <3>13. CASE WaitFails(c)
      BY <2>3, <3>13 DEF WaitFails
    <3> QED
      BY <2>4, <3>1, <3>2, <3>3, <3>4, <3>5, <3>6, <3>7, <3>8, <3>9, <3>10, <3>11, <3>12, <3>13
         DEF CallStep
  <2>5. ASSUME NEW k \in DOMAIN txs, Mine(k) \/ Forget(k) PROVE PromiseInv' /\ Promised
    <3>1. UNCHANGED <<callVars, approvalVars>>
      BY <2>5 DEF Mine, Forget
    <3>2. \E s \in {"mined", "reverted", "dropped"} : txs' = [txs EXCEPT ![k].state = s]
      BY <2>5 DEF Mine, Forget
    <3>3. txs \in Seq(Tx)
      BY DEF TypeOK, Tx
    <3>4. \A j \in DOMAIN txs : txs[j] \in Tx
      BY <3>3
    <3>5. SameTxs
      BY <3>2, <3>3, <3>4 DEF SameTxs, Tx
    <3> QED
      BY <3>1, <3>5, PromiseOnChain
  <2>6. CASE UNCHANGED sendVars
    BY <2>1, <2>6, PromiseOnChain DEF sendVars
  <2> QED
    BY <2>4, <2>5, <2>6, PromiseBegins DEF SendNext
<1> QED
  BY <1>1, <1>2

\* Before the first call nothing is promised.
LEMMA PromiseBefore == SendInit => PromiseInv /\ Scope!ScopeInit
<1> SUFFICES ASSUME SendInit PROVE PromiseInv /\ Scope!ScopeInit
  OBVIOUS
<1>1. \A c \in Calls : pc[c] = "idle" /\ round[c] = 0 /\ status[c] = "none"
  BY DEF SendInit
<1>2. txs = << >>
  BY DEF SendInit
<1>3. \A c \in Calls : ThisRound(c) = {}
  BY <1>2 DEF ThisRound
<1>4. \A c \in Calls : Cardinality(ThisRound(c)) = 0
  BY <1>3, FS_EmptySet
<1>5. \A c \in Calls : Broadcasts(c) = << >>
  BY <1>4 DEF Broadcasts
<1>6. NoneLater /\ Counted
  BY <1>1, <1>2 DEF NoneLater, Counted
<1>7. AllRanked
  BY <1>4 DEF AllRanked, Ranked
<1>8. Scope!ScopeInit
  BY <1>1, <1>5 DEF Scope!ScopeInit
<1> QED
  BY <1>6, <1>7, <1>8 DEF PromiseInv

\* Whatever fails, is lost, refused or repeated: under an approval of the
\* keystore only a beginning of the approved list is broadcast, in its order,
\* each transaction once, and only while the approval is in use.
THEOREM OwnerGetsWhatWasApproved == SendSpec => SendsWhatWasApproved
<1>1. SendInit => Custody
  BY DEF SendInit, Custody
<1>2. Promised => [Scope!ScopeNext]_(Scope!scopeVars)
  BY DEF Promised, Scope!scopeVars, Covered, Given, Using
<1> QED
  BY <1>1, <1>2, PromiseBefore, PromiseStep, CustodyStep, LedgerInit, LedgerStep, TypeInit, TypeStep,
     PTL DEF SendSpec, SendsWhatWasApproved, Scope!ScopeSpec
=============================================================================
