-------------------------- MODULE FundBudgetProofs --------------------------
(***************************************************************************)
(* Proofs about FundBudget, for any number of calls and agents, any        *)
(* amounts and every fault: the ledger never under-counts what it knows to *)
(* have left; while it misses nothing, calls that overlap exceed the       *)
(* budget by a transfer each at most; and as long as answers and receipts  *)
(* come, they overfund an agent by a target each at most.                  *)
(***************************************************************************)
EXTENDS FundBudget, FiniteSetTheorems, TLAPS

-----------------------------------------------------------------------------
(* Which transfer an entry and a call stand for.                           *)

\* What a call has sent is what it has in hand.
InHand ==
  \A c \in Calls :
    /\ calls[c].pc # "idle" => calls[c].to \in Agents
    /\ calls[c].pc \in {"sent", "waiting"}
         => calls[c].tx \in DOMAIN txs /\ txs[calls[c].tx].value = Value(c)

\* An entry is charged with the value of its transfer, and with the most that
\* the fee can be until it is known.
EntryIsTrue(e) ==
  e.tx # NoTx
    => /\ e.outcome # "failed"
       /\ e.tx \in DOMAIN txs
       /\ e.value = txs[e.tx].value
       /\ e.gas = Gas \/ (txs[e.tx].status = "mined" /\ e.gas = txs[e.tx].fee)

LedgerIsTrue == \A i \in DOMAIN entries : EntryIsTrue(entries[i])

IInv == FundTypeOK /\ InHand /\ LedgerIsTrue

-----------------------------------------------------------------------------

\* A ledger to which one is appended holds that one and old ones.
LEMMA AppendedHolds ==
  ASSUME NEW e \in Records, entries \in Seq(Records)
  PROVE  /\ Appended(e) \in Seq(Records)
         /\ \A i \in DOMAIN Appended(e) :
              Appended(e)[i] = e \/ \E j \in DOMAIN entries : Appended(e)[i] = entries[j]
<1> DEFINE all == << e >> \o entries
<1> DEFINE n == IF Len(all) > Cap THEN Cap ELSE Len(all)
<1>1. all \in Seq(Records) /\ Len(all) = Len(entries) + 1
  OBVIOUS
<1>2. \A i \in 1..Len(all) : all[i] = e \/ \E j \in DOMAIN entries : all[i] = entries[j]
  OBVIOUS
<1>3. n \in Nat /\ n <= Len(all)
  BY <1>1, FundAssumption
<1>4. Appended(e) = SubSeq(all, 1, n)
  BY DEF Appended
<1> HIDE DEF all, n
<1>5. SubSeq(all, 1, n) \in Seq(Records) /\ Len(SubSeq(all, 1, n)) = n
  BY <1>1, <1>3
<1>6. \A i \in 1..n : SubSeq(all, 1, n)[i] = all[i]
  BY <1>1, <1>3
<1> QED
  BY <1>1, <1>2, <1>3, <1>4, <1>5, <1>6

LEMMA InvInit == FundInit => IInv
  BY FundAssumption DEF FundInit, IInv, FundTypeOK, InHand, LedgerIsTrue, IdleCall, NoPlan, NoTx, CallTypes

\* Whatever is recorded, a true entry keeps the ledger true.
LEMMA RecordKeeps ==
  ASSUME IInv, NEW e \in Records, EntryIsTrue(e), entries' = Appended(e), txs' = txs
  PROVE  entries' \in Seq(Records) /\ LedgerIsTrue'
<1>1. /\ entries' \in Seq(Records)
      /\ \A i \in DOMAIN entries' : entries'[i] = e \/ \E j \in DOMAIN entries : entries'[i] = entries[j]
  BY AppendedHolds DEF IInv, FundTypeOK
<1>2. \A i \in DOMAIN entries' : EntryIsTrue(entries'[i])
  BY <1>1 DEF IInv, LedgerIsTrue
<1> QED
  BY <1>1, <1>2 DEF LedgerIsTrue, EntryIsTrue

LEMMA PlanType == balance \in [Agents -> Nat] => Plan \in [Agents -> Nat]
  BY FundAssumption DEF Plan

\* Where a call goes from its loop's head.
LEMMA LegType ==
  ASSUME NEW c \in Calls, NEW plan \in [Agents -> Nat], NEW ledger, NextLeg(c, plan, ledger),
         calls \in [Calls -> CallTypes]
  PROVE  /\ calls' \in [Calls -> CallTypes]
         /\ \A d \in Calls \ {c} : calls'[d] = calls[d]
         /\ calls'[c].pc \in {"idle", "guards"}
         /\ calls'[c].pc # "idle" => calls'[c].to \in Agents
<1>1. CASE Ends(c)
  BY <1>1 DEF Ends, IdleCall, NoPlan, NoTx, CallTypes
<1>2. ASSUME NEW a \in Left(plan),
             calls' = [calls EXCEPT ![c] = [pc |-> "guards", plan |-> plan, to |-> a, tx |-> NoTx]]
      PROVE  /\ calls' \in [Calls -> CallTypes]
             /\ \A d \in Calls \ {c} : calls'[d] = calls[d]
             /\ calls'[c].pc = "guards"
             /\ calls'[c].to \in Agents
  BY <1>2 DEF Left, NoTx, CallTypes
<1> QED
  BY <1>1, <1>2 DEF NextLeg, Ends, IdleCall

\* A call that steps leaves the others with what they have in hand.
LEMMA OthersKeepTheirs ==
  ASSUME IInv, NEW c \in Calls,
         \A d \in Calls \ {c} : calls'[d] = calls[d],
         \A k \in DOMAIN txs : k \in DOMAIN txs' /\ txs'[k].value = txs[k].value,
         calls'[c].pc # "idle" => calls'[c].to \in Agents,
         calls'[c].pc \in {"sent", "waiting"}
           => /\ calls'[c].tx \in DOMAIN txs'
              /\ txs'[calls'[c].tx].value = calls'[c].plan[calls'[c].to]
  PROVE  InHand'
  BY DEF IInv, InHand, Value

\* Transfers are added, and mined once.
LEMMA TransfersKeepTheLedger ==
  ASSUME LedgerIsTrue, entries' = entries,
         \A k \in DOMAIN txs : /\ k \in DOMAIN txs' /\ txs'[k].value = txs[k].value
                               /\ txs[k].status = "mined" => txs'[k] = txs[k]
  PROVE  LedgerIsTrue'
  BY DEF LedgerIsTrue, EntryIsTrue

LEMMA RecordsAreKept ==
  ASSUME IInv, NEW e \in Records, EntryIsTrue(e), Record(e), txs' = txs
  PROVE  entries' \in Seq(Records) /\ LedgerIsTrue'
<1>1. CASE entries' = Appended(e)
  BY <1>1, RecordKeeps
<1>2. CASE entries' = entries
  BY <1>2 DEF IInv, FundTypeOK, LedgerIsTrue, EntryIsTrue
<1> QED
  BY <1>1, <1>2 DEF Record, Written

\* What a receipt does to the ledger.
LEMMA SettledKeeps ==
  ASSUME IInv, NEW k \in DOMAIN txs, txs[k].status = "mined", entries' = Settled(k), txs' = txs
  PROVE  entries' \in Seq(Records) /\ LedgerIsTrue'
<1>1. txs[k].fee \in Nat
  <2>1. txs[k] \in Transfers
    BY DEF IInv, FundTypeOK
  <2> QED
    BY <2>1, FundAssumption DEF Transfers
<1> DEFINE new(i) == IF entries[i].tx = k THEN Confirmed(entries[i], txs[k].fee) ELSE entries[i]
<1>2. DOMAIN entries = 1..Len(entries) /\ Len(entries) \in Nat
  BY DEF IInv, FundTypeOK
<1>3. entries' = [i \in 1..Len(entries) |-> new(i)]
  BY <1>2 DEF Settled
<1>4. ASSUME NEW i \in 1..Len(entries)
      PROVE  new(i) \in Records
  <2>1. entries[i] \in Records
    BY DEF IInv, FundTypeOK
  <2> QED
    BY <1>1, <2>1 DEF Records, Confirmed
<1>5. entries' \in Seq(Records)
  <2> HIDE DEF new
  <2> QED
    BY <1>2, <1>3, <1>4
<1>6. ASSUME NEW i \in DOMAIN entries
      PROVE  EntryIsTrue(new(i))
  <2>1. EntryIsTrue(entries[i])
    BY DEF IInv, LedgerIsTrue
  <2> QED
    BY <1>1, <2>1 DEF EntryIsTrue, Confirmed
<1>7. \A i \in DOMAIN entries' : EntryIsTrue(entries'[i])
  <2> HIDE DEF new
  <2> QED
    BY <1>2, <1>3, <1>6
<1> QED
  BY <1>5, <1>7 DEF LedgerIsTrue, EntryIsTrue

-----------------------------------------------------------------------------
(* The steps.                                                              *)

\* A new entry has the types, and is true if it is of no transfer or of the one
\* that the call has in hand.
LEMMA NewEntry ==
  ASSUME IInv, NEW c \in Calls, calls[c].pc # "idle"
  PROVE  /\ Entry(NoTx, "failed", Value(c), 0) \in Records
         /\ EntryIsTrue(Entry(NoTx, "failed", Value(c), 0))
         /\ calls[c].pc = "sent" =>
              /\ Entry(calls[c].tx, "broadcast", Value(c), Gas) \in Records
              /\ EntryIsTrue(Entry(calls[c].tx, "broadcast", Value(c), Gas))
<1>1. calls[c] \in CallTypes /\ calls[c].to \in Agents /\ now \in Nat
  BY DEF IInv, FundTypeOK, InHand
<1>2. Value(c) \in Nat
  BY <1>1 DEF Value, CallTypes
<1>3. calls[c].pc = "sent" =>
        calls[c].tx \in DOMAIN txs /\ calls[c].tx \in Nat /\ txs[calls[c].tx].value = Value(c)
  BY <1>1 DEF IInv, InHand, CallTypes
<1> QED
  BY <1>1, <1>2, <1>3, FundAssumption DEF Entry, Records, EntryIsTrue, NoTx

\* A call that ends.
LEMMA EndKeeps ==
  ASSUME IInv, NEW c \in Calls, Ends(c), txs' = txs
  PROVE  calls' \in [Calls -> CallTypes] /\ InHand'
<1>1. /\ calls' \in [Calls -> CallTypes]
      /\ \A d \in Calls \ {c} : calls'[d] = calls[d]
      /\ calls'[c].pc = "idle"
  BY DEF Ends, IInv, FundTypeOK, CallTypes, IdleCall, NoPlan, NoTx
<1> QED
  BY <1>1, OthersKeepTheirs

LEMMA CallKeeps ==
  ASSUME IInv, NEW c \in Calls, CallStep(c)
  PROVE  IInv'
<1>t. /\ txs \in Seq(Transfers) /\ entries \in Seq(Records) /\ balance \in [Agents -> Nat]
      /\ calls \in [Calls -> CallTypes] /\ now \in Nat
      /\ calls[c] \in CallTypes /\ LedgerIsTrue
  BY DEF IInv, FundTypeOK
<1>1. CASE Fund(c)
  <2>1. /\ NextLeg(c, Plan, entries) /\ txs' = txs /\ entries' = entries
        /\ balance' = balance /\ now' = now
    BY <1>1 DEF Fund
  <2>2. Plan \in [Agents -> Nat]
    BY <1>t, PlanType
  <2>3. /\ calls' \in [Calls -> CallTypes]
        /\ \A d \in Calls \ {c} : calls'[d] = calls[d]
        /\ calls'[c].pc \in {"idle", "guards"}
        /\ calls'[c].pc # "idle" => calls'[c].to \in Agents
    BY <1>t, <2>1, <2>2, LegType
  <2>4. InHand'
    BY <2>1, <2>3, OthersKeepTheirs
  <2>5. LedgerIsTrue'
    BY <1>t, <2>1, TransfersKeepTheLedger
  <2> QED
    BY <1>t, <2>1, <2>3, <2>4, <2>5 DEF IInv, FundTypeOK
<1>2. CASE GuardsRefuse(c) \/ WaitFails(c)
  <2>1. /\ Ends(c) /\ txs' = txs /\ entries' = entries /\ balance' = balance /\ now' = now
    BY <1>2 DEF GuardsRefuse, WaitFails
  <2>2. LedgerIsTrue'
    BY <1>t, <2>1, TransfersKeepTheLedger
  <2> QED
    BY <1>t, <2>1, <2>2, EndKeeps DEF IInv, FundTypeOK
<1>3. CASE Send(c)
  <2> DEFINE new == [to |-> calls[c].to, value |-> Value(c), at |-> now, status |-> "pending", fee |-> 0]
  <2>1. /\ calls[c].pc = "guards" /\ txs' = Append(txs, new)
        /\ calls' = [calls EXCEPT ![c] = [pc |-> "sent", plan |-> @.plan, to |-> @.to, tx |-> Len(txs) + 1]]
        /\ entries' = entries /\ balance' = balance /\ now' = now
    BY <1>3 DEF Send
  <2>2. calls[c].to \in Agents
    BY <2>1 DEF IInv, InHand
  <2>3. Value(c) \in Nat
    BY <1>t, <2>2 DEF Value, CallTypes
  <2>4. new \in Transfers
    BY <1>t, <2>2, <2>3, FundAssumption DEF Transfers
  <2> HIDE DEF new
  <2>5. /\ txs' \in Seq(Transfers) /\ Len(txs) \in Nat
        /\ DOMAIN txs = 1..Len(txs) /\ DOMAIN txs' = 1..(Len(txs) + 1)
        /\ \A k \in DOMAIN txs : txs'[k] = txs[k]
        /\ txs'[Len(txs) + 1] = new
    BY <1>t, <2>1, <2>4
  <2>7. /\ calls' \in [Calls -> CallTypes]
        /\ \A d \in Calls \ {c} : calls'[d] = calls[d]
        /\ calls'[c] = [pc |-> "sent", plan |-> calls[c].plan, to |-> calls[c].to, tx |-> Len(txs) + 1]
    BY <1>t, <2>1, <2>5 DEF CallTypes
  <2>8. txs'[Len(txs) + 1].value = calls[c].plan[calls[c].to]
    BY <2>5 DEF new, Value
  <2>9. InHand'
    BY <2>2, <2>5, <2>7, <2>8, OthersKeepTheirs
  <2>10. LedgerIsTrue'
    BY <1>t, <2>1, <2>5, TransfersKeepTheLedger
  <2> QED
    BY <1>t, <2>1, <2>5, <2>7, <2>9, <2>10 DEF IInv, FundTypeOK
<1>4. CASE Rejected(c)
  <2>1. /\ calls[c].pc # "idle" /\ Record(Entry(NoTx, "failed", Value(c), 0)) /\ Ends(c)
        /\ txs' = txs /\ balance' = balance /\ now' = now
    BY <1>4 DEF Rejected
  <2>2. entries' \in Seq(Records) /\ LedgerIsTrue'
    BY <2>1, NewEntry, RecordsAreKept
  <2> QED
    BY <1>t, <2>1, <2>2, EndKeeps DEF IInv, FundTypeOK
<1>5. CASE Answered(c)
  <2>1. /\ calls[c].pc = "sent" /\ Record(Entry(calls[c].tx, "broadcast", Value(c), Gas))
        /\ calls' = [calls EXCEPT ![c].pc = "waiting"]
        /\ txs' = txs /\ balance' = balance /\ now' = now
    BY <1>5 DEF Answered
  <2>2. entries' \in Seq(Records) /\ LedgerIsTrue'
    BY <2>1, NewEntry, RecordsAreKept
  <2>3. /\ calls' \in [Calls -> CallTypes]
        /\ \A d \in Calls \ {c} : calls'[d] = calls[d]
        /\ calls'[c].to = calls[c].to /\ calls'[c].tx = calls[c].tx /\ calls'[c].plan = calls[c].plan
    <3>1. /\ calls'[c] = [calls[c] EXCEPT !.pc = "waiting"]
          /\ \A d \in Calls \ {c} : calls'[d] = calls[d]
          /\ calls' = [d \in Calls |-> calls'[d]]
      BY <1>t, <2>1
    <3>2. /\ calls'[c] \in CallTypes
          /\ calls'[c].to = calls[c].to /\ calls'[c].tx = calls[c].tx /\ calls'[c].plan = calls[c].plan
      BY <1>t, <3>1 DEF CallTypes
    <3> QED
      BY <1>t, <3>1, <3>2
  <2>4. /\ calls[c].to \in Agents /\ calls[c].tx \in DOMAIN txs
        /\ txs[calls[c].tx].value = calls[c].plan[calls[c].to]
    BY <2>1 DEF IInv, InHand, Value
  <2>5. InHand'
    BY <2>1, <2>3, <2>4, OthersKeepTheirs
  <2> QED
    BY <1>t, <2>1, <2>2, <2>3, <2>5 DEF IInv, FundTypeOK
<1>6. CASE AnswerLost(c)
  <2>1. /\ calls[c].pc # "idle" /\ Ends(c)
        /\ entries' = entries \/ entries' = Appended(Entry(NoTx, "failed", Value(c), 0))
        /\ txs' = txs /\ balance' = balance /\ now' = now
    BY <1>6 DEF AnswerLost, Written
  <2>2. entries' \in Seq(Records) /\ LedgerIsTrue'
    BY <1>t, <2>1, NewEntry, RecordKeeps, TransfersKeepTheLedger
  <2> QED
    BY <1>t, <2>1, <2>2, EndKeeps DEF IInv, FundTypeOK
<1>7. CASE Receipt(c)
  <2> DEFINE k == calls[c].tx
  <2> DEFINE plan == [calls[c].plan EXCEPT ![calls[c].to] = 0]
  <2>0. PICK ledger \in Written(Settled(k)) :
          entries' = ledger /\ NextLeg(c, plan, ledger)
    BY <1>7, Zenon DEF Receipt
  <2>1. /\ calls[c].pc = "waiting" /\ txs[k].status = "mined"
        /\ txs' = txs /\ balance' = balance /\ now' = now
    BY <1>7 DEF Receipt
  <2>2. k \in DOMAIN txs
    BY <2>1 DEF IInv, InHand
  <2>3. plan \in [Agents -> Nat]
    BY <1>t DEF CallTypes
  <2> HIDE DEF k, plan
  <2>4. entries' \in Seq(Records) /\ LedgerIsTrue'
    BY <1>t, <2>0, <2>1, <2>2, SettledKeeps, TransfersKeepTheLedger DEF Written
  <2>5. /\ calls' \in [Calls -> CallTypes]
        /\ \A d \in Calls \ {c} : calls'[d] = calls[d]
        /\ calls'[c].pc \in {"idle", "guards"}
        /\ calls'[c].pc # "idle" => calls'[c].to \in Agents
    BY <1>t, <2>0, <2>3, LegType
  <2>6. InHand'
    BY <2>1, <2>5, OthersKeepTheirs
  <2> QED
    BY <1>t, <2>1, <2>4, <2>5, <2>6 DEF IInv, FundTypeOK
<1> QED
  BY <1>1, <1>2, <1>3, <1>4, <1>5, <1>6, <1>7 DEF CallStep

LEMMA MineKeeps ==
  ASSUME IInv, NEW k \in DOMAIN txs, Mine(k)
  PROVE  IInv'
<1>1. PICK fee \in Fees : txs' = [txs EXCEPT ![k] = Mined(@, fee)]
  BY DEF Mine
<1>2. /\ txs[k].status = "pending" /\ balance' = [balance EXCEPT ![txs[k].to] = @ + txs[k].value]
      /\ entries' = entries /\ calls' = calls /\ now' = now
  BY DEF Mine
<1>t. /\ txs \in Seq(Transfers) /\ txs[k] \in Transfers /\ fee \in 0..Gas
      /\ balance \in [Agents -> Nat]
  <2>1. txs \in Seq(Transfers) /\ balance \in [Agents -> Nat]
    BY DEF IInv, FundTypeOK
  <2> QED
    BY <2>1, FundAssumption
<1> DEFINE new == Mined(txs[k], fee)
<1>3. txs' = [txs EXCEPT ![k] = new]
  BY <1>1
<1>4. new \in Transfers /\ new.value = txs[k].value
  BY <1>t DEF Transfers, Mined
<1> HIDE DEF new
<1>5. /\ txs' \in Seq(Transfers)
      /\ \A i \in DOMAIN txs : /\ i \in DOMAIN txs' /\ txs'[i].value = txs[i].value
                               /\ txs[i].status = "mined" => txs'[i] = txs[i]
  BY <1>2, <1>3, <1>4, <1>t
<1>6. InHand'
  BY <1>2, <1>5 DEF IInv, InHand, Value
<1>7. LedgerIsTrue'
  <2>1. LedgerIsTrue
    BY DEF IInv
  <2> QED
    BY <2>1, <1>2, <1>5, TransfersKeepTheLedger
<1>8. balance' \in [Agents -> Nat]
  BY <1>2, <1>t DEF Transfers
<1> QED
  BY <1>2, <1>5, <1>6, <1>7, <1>8 DEF IInv, FundTypeOK

LEMMA AgentSpendsKeeps ==
  ASSUME IInv, NEW a \in Agents, AgentSpends(a)
  PROVE  IInv'
<1>1. /\ balance[a] >= Gas /\ balance' = [balance EXCEPT ![a] = @ - Gas]
      /\ Record(Entry(NoTx, "broadcast", 0, Gas))
      /\ txs' = txs /\ calls' = calls /\ now' = now
  BY DEF AgentSpends
<1>2. Entry(NoTx, "broadcast", 0, Gas) \in Records /\ EntryIsTrue(Entry(NoTx, "broadcast", 0, Gas))
  BY FundAssumption DEF Entry, Records, EntryIsTrue, NoTx, IInv, FundTypeOK
<1>3. entries' \in Seq(Records) /\ LedgerIsTrue'
  BY <1>1, <1>2, RecordsAreKept
<1>4. balance' \in [Agents -> Nat]
  BY <1>1, FundAssumption DEF IInv, FundTypeOK
<1> QED
  BY <1>1, <1>3, <1>4 DEF IInv, FundTypeOK, InHand, Value

\* Every step keeps the invariant.
LEMMA InvStep == IInv /\ [FundNext]_fundVars => IInv'
<1> SUFFICES ASSUME IInv, [FundNext]_fundVars PROVE IInv'
  OBVIOUS
<1>1. CASE Tick
  BY <1>1, FundAssumption DEF Tick, IInv, FundTypeOK, InHand, Value, LedgerIsTrue, EntryIsTrue
<1>2. CASE UNCHANGED fundVars
  BY <1>2 DEF fundVars, IInv, FundTypeOK, InHand, Value, LedgerIsTrue, EntryIsTrue
<1> QED
  BY <1>1, <1>2, CallKeeps, MineKeeps, AgentSpendsKeeps DEF FundNext

\* What is charged is no less than the cost.
LEMMA InvSuffices == IInv => Conservative
<1> SUFFICES ASSUME IInv, NEW i \in DOMAIN entries, entries[i].tx # NoTx
             PROVE  Charge(entries[i]) >= TransferCost(entries[i].tx)
  BY DEF Conservative
<1> DEFINE e == entries[i]
<1>1. e \in Records /\ EntryIsTrue(e)
  BY DEF IInv, FundTypeOK, LedgerIsTrue
<1>2. txs[e.tx] \in Transfers
  BY <1>1 DEF IInv, FundTypeOK, EntryIsTrue
<1>3. /\ e.value \in Nat /\ e.gas \in Nat /\ e.outcome # "failed"
      /\ e.value = txs[e.tx].value
      /\ txs[e.tx].fee \in 0..Gas
      /\ e.gas = Gas \/ e.gas = txs[e.tx].fee
  BY <1>1, <1>2 DEF Records, EntryIsTrue, Transfers
<1> HIDE DEF e
<1>4. Charge(e) >= TransferCost(e.tx)
  BY <1>3, FundAssumption DEF Charge, TransferCost
<1> QED
  BY <1>4 DEF e

\* "A budget guard that under-counts is a budget guard that lets the fleet
\* through" (effectiveSpend): whatever fails, whatever calls overlap, an entry
\* for a transfer that left is charged with at least what the transfer cost.
THEOREM LedgerIsConservative == FundSpec => []Conservative
<1>1. FundInit => IInv
  BY InvInit
<1>2. IInv /\ [FundNext]_fundVars => IInv'
  BY InvStep
<1>3. IInv => Conservative
  BY InvSuffices
<1> QED
  BY <1>1, <1>2, <1>3, PTL DEF FundSpec

\* The transfers, the ledger, the balances and the calls keep their types.
THEOREM TypeCorrect == FundSpec => []FundTypeOK
<1>1. IInv => FundTypeOK
  BY DEF IInv
<1> QED
  BY <1>1, InvInit, InvStep, PTL DEF FundSpec

-----------------------------------------------------------------------------
(* Adding up.  The community modules define a sum over a set by recursion   *)
(* on the set, so its laws are proved here by induction on the set's size,  *)
(* which rests on the least element of a set of numbers.                    *)

LEMMA LeastNumber ==
  ASSUME NEW T \in SUBSET Nat, T # {}
  PROVE  \E x \in T : \A y \in T : x <= y
<1> DEFINE R == {ss \in Nat \X Nat : ss[1] < ss[2]}
<1>1. IsWellFoundedOn(R, Nat)
  BY NatLessThanWellFounded DEF OpToRel
<1>2. \A x, y \in Nat : x < y => <<x, y>> \in R
  OBVIOUS
<1> HIDE DEF R
<1>3. \E x \in T : \A y \in T : ~ (<<y, x>> \in R)
  BY <1>1, WFMin
<1>4. PICK x \in T : \A y \in T : ~ (<<y, x>> \in R)
  BY <1>3
<1>5. ASSUME NEW y \in T PROVE x <= y
  <2>1. x \in Nat /\ y \in Nat /\ ~ (y < x)
    BY <1>2, <1>4
  <2> QED
    BY <2>1
<1> QED
  BY <1>5

LEMMA EveryNumber ==
  ASSUME NEW S, 0 \in S, \A n \in Nat : n \in S => n + 1 \in S
  PROVE  Nat \subseteq S
<1> SUFFICES ASSUME Nat \ S # {} PROVE FALSE
  OBVIOUS
<1>1. PICK x \in Nat \ S : \A y \in Nat \ S : x <= y
  BY LeastNumber
<1>2. x # 0 /\ x - 1 \in Nat /\ x - 1 \in S
  BY <1>1
<1>3. (x - 1) + 1 \in S
  BY <1>2
<1> QED
  BY <1>1, <1>3

\* What holds of the empty set and of every set that needs it of one element
\* less holds of a finite set.
LEMMA EverySet ==
  ASSUME NEW S, IsFiniteSet(S), NEW C, {} \in C,
         \A T \in SUBSET S : T # {} => \E x \in T : T \ {x} \in C => T \in C
  PROVE  S \in C
<1> DEFINE W == {n \in Nat : \A T \in SUBSET S : Cardinality(T) = n => T \in C}
<1>1. 0 \in W
  <2>1. \A T \in SUBSET S : Cardinality(T) = 0 => T = {}
    BY FS_Subset, FS_EmptySet
  <2> QED
    BY <2>1
<1>2. ASSUME NEW n \in Nat, n \in W PROVE n + 1 \in W
  <2> SUFFICES ASSUME NEW T \in SUBSET S, Cardinality(T) = n + 1 PROVE T \in C
    OBVIOUS
  <2>0. \A U \in SUBSET S : Cardinality(U) = n => U \in C
    BY <1>2
  <2> HIDE DEF W
  <2>1. IsFiniteSet(T) /\ T # {}
    BY FS_Subset, FS_EmptySet
  <2>2. PICK x \in T : T \ {x} \in C => T \in C
    BY <2>1
  <2>3. Cardinality(T \ {x}) = Cardinality(T) - 1
    BY <2>1, <2>2, FS_RemoveElement
  <2>4. Cardinality(T \ {x}) = n
    BY <2>3
  <2> QED
    BY <2>0, <2>2, <2>4
<1>3. Nat \subseteq W
  <2> HIDE DEF W
  <2> QED
    BY <1>1, <1>2, EveryNumber
<1>4. Cardinality(S) \in Nat
  BY FS_CardinalityType
<1> QED
  BY <1>3, <1>4

SumOf(f, S) == MapThenSumSet(LAMBDA x : f[x], S)

\* F adds f up over the subsets of S, in whatever order.
Adds(F, f, S) ==
  /\ F \in [SUBSET S -> Nat]
  /\ F[{}] = 0
  /\ \A T \in SUBSET S : \A x \in T : F[T] = f[x] + F[T \ {x}]

\* One that does exists.
LEMMA Additions ==
  ASSUME NEW S, IsFiniteSet(S), NEW f, \A x \in S : f[x] \in Nat
  PROVE  \E F : Adds(F, f, S)
<1> DEFINE C == {T \in SUBSET S : \E F : Adds(F, f, T)}
<1>1. {} \in C
  <2> DEFINE F == [T \in {{}} |-> 0]
  <2>1. Adds(F, f, {})
    BY DEF Adds
  <2> QED
    BY <2>1
<1>2. ASSUME NEW T \in SUBSET S, T \in C, NEW y \in S \ T PROVE T \cup {y} \in C
  <2>1. PICK F : Adds(F, f, T)
    BY <1>2
  <2> DEFINE G == [U \in SUBSET (T \cup {y}) |-> IF y \in U THEN f[y] + F[U \ {y}] ELSE F[U]]
  <2>2. \A U \in SUBSET (T \cup {y}) : U \ {y} \in SUBSET T /\ (y \notin U => U \in SUBSET T)
    OBVIOUS
  <2>3. F \in [SUBSET T -> Nat] /\ F[{}] = 0 /\ f[y] \in Nat
    BY <2>1 DEF Adds
  <2>4. G \in [SUBSET (T \cup {y}) -> Nat] /\ G[{}] = 0
    BY <2>2, <2>3
  <2>5. ASSUME NEW U \in SUBSET (T \cup {y}), NEW x \in U PROVE G[U] = f[x] + G[U \ {x}]
    <3>1. U \ {x} \in SUBSET (T \cup {y}) /\ f[x] \in Nat
      OBVIOUS
    <3>2. CASE x = y
      BY <3>1, <3>2
    <3>3. CASE x # y /\ y \in U
      <4>0. (U \ {y}) \ {x} = (U \ {x}) \ {y} /\ x \in U \ {y}
        BY <3>3
      <4>1. F[U \ {y}] = f[x] + F[(U \ {x}) \ {y}]
        <5>1. F[U \ {y}] = f[x] + F[(U \ {y}) \ {x}]
          BY <2>1, <2>2, <4>0 DEF Adds
        <5> QED
          BY <4>0, <5>1
      <4>2. F[(U \ {x}) \ {y}] \in Nat
        BY <2>2, <2>3, <3>1
      <4>3. G[U] = f[y] + F[U \ {y}] /\ G[U \ {x}] = f[y] + F[(U \ {x}) \ {y}]
        BY <3>1, <3>3
      <4> HIDE DEF G
      <4> QED
        BY <2>3, <3>1, <4>1, <4>2, <4>3
    <3>4. CASE y \notin U
      <4>1. F[U] = f[x] + F[U \ {x}]
        BY <2>1, <2>2, <3>4 DEF Adds
      <4>2. G[U] = F[U] /\ G[U \ {x}] = F[U \ {x}]
        BY <3>1, <3>4
      <4> QED
        BY <4>1, <4>2
    <3> QED
      BY <3>2, <3>3, <3>4
  <2> HIDE DEF G
  <2>6. Adds(G, f, T \cup {y})
    BY <2>4, <2>5 DEF Adds
  <2> QED
    BY <2>6
<1>3. S \in C
  <2> HIDE DEF C
  <2> QED
    <3>1. ASSUME NEW T \in SUBSET S, NEW x \in T, T \ {x} \in C PROVE T \in C
      <4>1. T = (T \ {x}) \cup {x} /\ x \in S \ (T \ {x}) /\ T \ {x} \in SUBSET S
        OBVIOUS
      <4>2. (T \ {x}) \cup {x} \in C
        BY <1>2, <3>1, <4>1
      <4> QED
        BY <4>1, <4>2
    <3>2. ASSUME NEW T \in SUBSET S, T # {}
          PROVE  \E x \in T : T \ {x} \in C => T \in C
      <4>1. PICK x \in T : TRUE
        BY <3>2
      <4> QED
        BY <3>1, <4>1
    <3> QED
      BY <1>1, <3>2, EverySet
<1> QED
  BY <1>3

\* The recursion of the community modules.
Recurs(it, f, S) ==
  it = [s \in SUBSET S |-> IF s = {} THEN 0
                           ELSE f[CHOOSE x \in s : TRUE] + it[s \ {CHOOSE x \in s : TRUE}]]

\* It computes the same.
LEMMA Iterates ==
  ASSUME NEW S, IsFiniteSet(S), NEW f, NEW F, Adds(F, f, S), NEW it, Recurs(it, f, S)
  PROVE  it[S] = F[S]
<1> DEFINE C == {T \in SUBSET S : it[T] = F[T]}
<1>1. {} \in C
  <2>1. it[{}] = 0
    BY DEF Recurs
  <2> QED
    BY <2>1 DEF Adds
<1>2. ASSUME NEW T \in SUBSET S, T # {}
      PROVE  \E x \in T : T \ {x} \in C => T \in C
  <2>1. PICK x \in T : it[T] = f[x] + it[T \ {x}]
    <3>1. (CHOOSE x \in T : TRUE) \in T
      BY <1>2
    <3> QED
      BY <1>2, <3>1 DEF Recurs
  <2>2. F[T] = f[x] + F[T \ {x}]
    BY DEF Adds
  <2> QED
    BY <2>1, <2>2
<1>3. S \in C
  <2> HIDE DEF C
  <2> QED
    BY <1>1, <1>2, EverySet
<1> QED
  BY <1>3

LEMMA AddsRecurs ==
  ASSUME NEW S, NEW f, NEW F, Adds(F, f, S)
  PROVE  Recurs(F, f, S)
<1>1. \A s \in SUBSET S : s # {} => (CHOOSE x \in s : TRUE) \in s
  OBVIOUS
<1> QED
  BY <1>1 DEF Adds, Recurs

LEMMA SumIs ==
  ASSUME NEW S, IsFiniteSet(S), NEW f, NEW F, Adds(F, f, S)
  PROVE  SumOf(f, S) = F[S]
<1>1. Recurs(F, f, S)
  BY AddsRecurs
<1>2. SumOf(f, S) = (CHOOSE it : Recurs(it, f, S))[S]
  BY DEF SumOf, MapThenSumSet, MapThenFoldSet, Recurs
<1>3. PICK it : Recurs(it, f, S) /\ SumOf(f, S) = it[S]
  BY <1>1, <1>2
<1> QED
  BY <1>3, Iterates

LEMMA SumOfNone == \A f : SumOf(f, {}) = 0
<1> SUFFICES ASSUME NEW f PROVE SumOf(f, {}) = 0
  OBVIOUS
<1>1. IsFiniteSet({})
  BY FS_EmptySet
<1>2. PICK F : Adds(F, f, {})
  BY <1>1, Additions
<1>3. SumOf(f, {}) = F[{}]
  BY <1>1, <1>2, SumIs
<1> QED
  BY <1>2, <1>3 DEF Adds

LEMMA SumType ==
  ASSUME NEW S, IsFiniteSet(S), NEW f, \A x \in S : f[x] \in Nat
  PROVE  SumOf(f, S) \in Nat
<1>1. PICK F : Adds(F, f, S)
  BY Additions
<1>2. SumOf(f, S) = F[S]
  BY <1>1, SumIs
<1> QED
  BY <1>1, <1>2 DEF Adds

\* One element less.
LEMMA SumWithout ==
  ASSUME NEW S, IsFiniteSet(S), NEW f, \A x \in S : f[x] \in Nat, NEW y \in S
  PROVE  /\ SumOf(f, S) = f[y] + SumOf(f, S \ {y})
         /\ IsFiniteSet(S \ {y})
         /\ SumOf(f, S) \in Nat /\ SumOf(f, S \ {y}) \in Nat
<1>1. PICK F : Adds(F, f, S)
  BY Additions
<1> DEFINE G == [T \in SUBSET (S \ {y}) |-> F[T]]
<1>2. Adds(G, f, S \ {y})
  <2>1. F \in [SUBSET S -> Nat] /\ F[{}] = 0
    BY <1>1 DEF Adds
  <2>2. G \in [SUBSET (S \ {y}) -> Nat] /\ G[{}] = 0
    BY <2>1
  <2>3. ASSUME NEW T \in SUBSET (S \ {y}), NEW x \in T PROVE G[T] = f[x] + G[T \ {x}]
    <3>1. T \in SUBSET S /\ T \ {x} \in SUBSET (S \ {y})
      OBVIOUS
    <3>2. F[T] = f[x] + F[T \ {x}]
      BY <1>1, <3>1 DEF Adds
    <3>3. G[T] = F[T] /\ G[T \ {x}] = F[T \ {x}]
      BY <3>1
    <3> QED
      BY <3>2, <3>3
  <2> HIDE DEF G
  <2> QED
    BY <2>2, <2>3 DEF Adds
<1>3. IsFiniteSet(S \ {y})
  BY FS_RemoveElement
<1>4. SumOf(f, S \ {y}) = G[S \ {y}] /\ G[S \ {y}] = F[S \ {y}]
  BY <1>2, <1>3, SumIs
<1>5. SumOf(f, S) = F[S]
  BY <1>1, SumIs
<1>6. F[S] = f[y] + F[S \ {y}]
  BY <1>1 DEF Adds
<1> QED
  BY <1>3, <1>4, <1>5, <1>6, SumType

\* Fewer or smaller ones add up to no more.
LEMMA SumLess ==
  ASSUME NEW T, IsFiniteSet(T), NEW S \in SUBSET T, NEW f, NEW g,
         \A x \in T : g[x] \in Nat, \A x \in S : f[x] \in Nat /\ f[x] <= g[x]
  PROVE  SumOf(f, S) <= SumOf(g, T)
<1> DEFINE C == {U \in SUBSET T : SumOf(f, U \cap S) <= SumOf(g, U)}
<1>1. {} \in C
  <2>1. {} \cap S = {}
    OBVIOUS
  <2> QED
    BY <2>1, SumOfNone
<1>2. ASSUME NEW U \in SUBSET T, NEW x \in U, U \ {x} \in C PROVE U \in C
  <2>1. IsFiniteSet(U) /\ IsFiniteSet(U \cap S)
    BY FS_Subset, FS_Intersection
  <2>2. SumOf(g, U) = g[x] + SumOf(g, U \ {x}) /\ SumOf(g, U \ {x}) \in Nat
    BY <2>1, SumWithout
  <2>3. CASE x \in S
    <3>1. (U \ {x}) \cap S = (U \cap S) \ {x} /\ x \in U \cap S
      BY <2>3
    <3>2. /\ SumOf(f, U \cap S) = f[x] + SumOf(f, (U \cap S) \ {x})
          /\ SumOf(f, (U \cap S) \ {x}) \in Nat
      BY <2>1, <3>1, SumWithout
    <3>3. SumOf(f, (U \cap S) \ {x}) <= SumOf(g, U \ {x})
      BY <1>2, <3>1
    <3>4. f[x] \in Nat /\ g[x] \in Nat /\ f[x] <= g[x]
      BY <2>3
    <3> QED
      BY <2>2, <3>2, <3>3, <3>4
  <2>4. CASE x \notin S
    <3>1. (U \ {x}) \cap S = U \cap S
      BY <2>4
    <3>2. SumOf(f, U \cap S) <= SumOf(g, U \ {x})
      BY <1>2, <3>1
    <3>3. SumOf(f, U \cap S) \in Nat /\ g[x] \in Nat
      BY <2>1, SumType
    <3> QED
      BY <2>2, <3>2, <3>3
  <2> QED
    BY <2>3, <2>4
<1>3. ASSUME NEW U \in SUBSET T, U # {} PROVE \E x \in U : U \ {x} \in C => U \in C
  <2> HIDE DEF C
  <2>1. PICK x \in U : TRUE
    BY <1>3
  <2> QED
    BY <1>2, <2>1
<1>4. T \in C
  <2> HIDE DEF C
  <2> QED
    BY <1>1, <1>3, EverySet
<1>5. T \cap S = S
  OBVIOUS
<1> QED
  BY <1>4, <1>5

\* Two sums over two sets that have nothing in common.
LEMMA SumOfBoth ==
  ASSUME NEW S, IsFiniteSet(S), NEW T, IsFiniteSet(T), S \cap T = {},
         NEW f, \A x \in S \cup T : f[x] \in Nat
  PROVE  SumOf(f, S \cup T) = SumOf(f, S) + SumOf(f, T)
<1> DEFINE C == {U \in SUBSET T : SumOf(f, S \cup U) = SumOf(f, S) + SumOf(f, U)}
<1>0. SumOf(f, S) \in Nat
  BY SumType
<1>1. {} \in C
  <2>1. S \cup {} = S
    OBVIOUS
  <2> QED
    BY <1>0, <2>1, SumOfNone
<1>2. ASSUME NEW U \in SUBSET T, NEW x \in U, U \ {x} \in C PROVE U \in C
  <2>1. IsFiniteSet(U) /\ IsFiniteSet(S \cup U)
    BY FS_Subset, FS_Union
  <2>2. SumOf(f, U) = f[x] + SumOf(f, U \ {x}) /\ SumOf(f, U \ {x}) \in Nat
    BY <2>1, SumWithout
  <2>3. SumOf(f, S \cup U) = f[x] + SumOf(f, (S \cup U) \ {x})
    BY <2>1, SumWithout
  <2>4. (S \cup U) \ {x} = S \cup (U \ {x})
    OBVIOUS
  <2>5. SumOf(f, S \cup (U \ {x})) = SumOf(f, S) + SumOf(f, U \ {x}) /\ f[x] \in Nat
    BY <1>2
  <2>6. SumOf(f, S \cup U) = f[x] + SumOf(f, S \cup (U \ {x}))
    BY <2>3, <2>4
  <2> QED
    BY <1>0, <2>2, <2>5, <2>6
<1>3. ASSUME NEW U \in SUBSET T, U # {} PROVE \E x \in U : U \ {x} \in C => U \in C
  <2> HIDE DEF C
  <2>1. PICK x \in U : TRUE
    BY <1>3
  <2> QED
    BY <1>2, <2>1
<1>4. T \in C
  <2> HIDE DEF C
  <2> QED
    BY <1>1, <1>3, EverySet
<1> QED
  BY <1>4

\* Each of them at most m.
LEMMA SumOfSmall ==
  ASSUME NEW S, IsFiniteSet(S), NEW m \in Nat, NEW f, \A x \in S : f[x] \in Nat /\ f[x] <= m
  PROVE  SumOf(f, S) <= Cardinality(S) * m
<1> DEFINE C == {U \in SUBSET S : SumOf(f, U) <= Cardinality(U) * m}
<1>1. {} \in C
  BY SumOfNone, FS_EmptySet
<1>2. ASSUME NEW U \in SUBSET S, NEW x \in U, U \ {x} \in C PROVE U \in C
  <2>1. IsFiniteSet(U) /\ IsFiniteSet(U \ {x})
    BY FS_Subset
  <2>2. SumOf(f, U) = f[x] + SumOf(f, U \ {x}) /\ SumOf(f, U \ {x}) \in Nat
    BY <2>1, SumWithout
  <2>3. Cardinality(U) \in Nat /\ Cardinality(U \ {x}) \in Nat /\ Cardinality(U) = Cardinality(U \ {x}) + 1
    BY <2>1, FS_RemoveElement, FS_CardinalityType
  <2>4. Cardinality(U) * m = Cardinality(U \ {x}) * m + m
    BY <2>3
  <2>5. SumOf(f, U \ {x}) <= Cardinality(U \ {x}) * m /\ f[x] \in Nat /\ f[x] <= m
    BY <1>2
  <2>6. Cardinality(U \ {x}) * m \in Nat
    BY <2>3
  <2> QED
    BY <2>2, <2>4, <2>5, <2>6
<1>3. ASSUME NEW U \in SUBSET S, U # {} PROVE \E x \in U : U \ {x} \in C => U \in C
  <2> HIDE DEF C
  <2>1. PICK x \in U : TRUE
    BY <1>3
  <2> QED
    BY <1>2, <2>1
<1>4. S \in C
  <2> HIDE DEF C
  <2> QED
    BY <1>1, <1>3, EverySet
<1> QED
  BY <1>4

\* What of each a counts has a b of its own, the ones of which a is the o, that
\* is no less.
LEMMA SumCovered ==
  ASSUME NEW A, IsFiniteSet(A), NEW B, IsFiniteSet(B), NEW o, NEW f, NEW g,
         \A a \in A : f[a] \in Nat, \A b \in B : g[b] \in Nat,
         \A a \in A : f[a] > 0 => \E b \in B : o[b] = a /\ f[a] <= g[b]
  PROVE  SumOf(f, A) <= SumOf(g, B)
<1> DEFINE Covers(U, V) == \A a \in U : f[a] > 0 => \E b \in V : o[b] = a /\ f[a] <= g[b]
           C == {U \in SUBSET A : \A V \in SUBSET B : Covers(U, V) => SumOf(f, U) <= SumOf(g, V)}
<1>1. {} \in C
  <2>1. ASSUME NEW V \in SUBSET B PROVE SumOf(g, V) \in Nat
    <3>1. IsFiniteSet(V)
      BY FS_Subset
    <3> QED
      BY <3>1, SumType
  <2> QED
    BY <2>1, SumOfNone
<1>2. ASSUME NEW U \in SUBSET A, NEW x \in U, U \ {x} \in C PROVE U \in C
  <2> SUFFICES ASSUME NEW V \in SUBSET B, Covers(U, V) PROVE SumOf(f, U) <= SumOf(g, V)
    OBVIOUS
  <2>0. \A W \in SUBSET B : Covers(U \ {x}, W) => SumOf(f, U \ {x}) <= SumOf(g, W)
    BY <1>2
  <2>1. IsFiniteSet(U) /\ IsFiniteSet(V)
    BY FS_Subset
  <2>2. SumOf(f, U) = f[x] + SumOf(f, U \ {x}) /\ SumOf(f, U \ {x}) \in Nat /\ f[x] \in Nat
    BY <2>1, SumWithout
  <2>3. CASE f[x] = 0
    <3>1. Covers(U \ {x}, V)
      OBVIOUS
    <3>2. SumOf(f, U \ {x}) <= SumOf(g, V)
      <4> HIDE DEF Covers
      <4> QED
        BY <2>0, <3>1
    <3>3. SumOf(f, U) = SumOf(f, U \ {x})
      BY <2>2, <2>3
    <3> QED
      BY <3>2, <3>3
  <2>4. CASE f[x] > 0
    <3>1. PICK b \in V : o[b] = x /\ f[x] <= g[b]
      BY <2>4
    <3>2. Covers(U \ {x}, V \ {b})
      BY <3>1
    <3>3. /\ SumOf(g, V) = g[b] + SumOf(g, V \ {b}) /\ SumOf(g, V \ {b}) \in Nat /\ g[b] \in Nat
      BY <2>1, SumWithout
    <3>4. SumOf(f, U \ {x}) <= SumOf(g, V \ {b})
      BY <2>0, <3>2
    <3> QED
      BY <2>2, <3>1, <3>3, <3>4
  <2> QED
    BY <2>2, <2>3, <2>4
<1>3. ASSUME NEW U \in SUBSET A, U # {} PROVE \E x \in U : U \ {x} \in C => U \in C
  <2> HIDE DEF C
  <2>1. PICK x \in U : TRUE
    BY <1>3
  <2> QED
    BY <1>2, <2>1
<1>4. A \in C
  <2> HIDE DEF C
  <2> QED
    BY <1>1, <1>3, EverySet
<1>5. Covers(A, B)
  OBVIOUS
<1> QED
  BY <1>4, <1>5

-----------------------------------------------------------------------------
(* The budget.  While the ledger misses nothing, a recent transfer is noted *)
(* in it or in the hand of the call that has just sent it, so the ledger    *)
(* and the calls between their check and their record bound what was spent. *)

\* The most that a transfer can still cost.
Worst(k) == txs[k].value + (IF txs[k].status = "mined" THEN txs[k].fee ELSE Gas)

Recent == {k \in DOMAIN txs : InWindow(txs[k].at)}
Counting(ledger) == {i \in DOMAIN ledger : InWindow(ledger[i].at)}
Asking == {c \in Calls : calls[c].pc = "guards"}
Unrecorded == {c \in Calls : calls[c].pc = "sent"}

Costs == [k \in DOMAIN txs |-> TransferCost(k)]
Worsts == [k \in DOMAIN txs |-> Worst(k)]
Charges(ledger) == [i \in DOMAIN ledger |-> Charge(ledger[i])]
Hands == [c \in Calls |-> Value(c) + Gas]

\* The ledger has an entry for the transfer, no older than it.
Noted(k, ledger) == \E i \in DOMAIN ledger : ledger[i].tx = k /\ ledger[i].at >= txs[k].at

Known(ledger) ==
  \A k \in Recent : Worst(k) > 0 => Noted(k, ledger) \/ \E c \in Unrecorded : calls[c].tx = k

NoneAhead == \A k \in DOMAIN txs : txs[k].at <= now
PlansFit == \A c \in Calls : \A a \in Agents : calls[c].plan[a] <= Target
Bounded == SumOf(Worsts, Recent) + SumOf(Hands, Asking) <= Budget + Overrun

BudgetInv == Len(entries) <= Cap /\ NoneAhead /\ PlansFit /\ (~ blind => Known(entries) /\ Bounded)

\* The numbers that are added up, and the finite sets they are added over.
LEMMA Addends ==
  ASSUME IInv
  PROVE  /\ now \in Nat /\ Gas \in Nat /\ Target \in Nat /\ Budget \in Nat /\ BudgetWindow \in Nat
         /\ IsFiniteSet(Calls)
         /\ IsFiniteSet(Recent) /\ Recent \subseteq DOMAIN txs
         /\ \A k \in DOMAIN txs :
              /\ k \in Nat /\ k # NoTx /\ txs[k] \in Transfers
              /\ txs[k].at \in Nat /\ txs[k].value \in Nat /\ txs[k].fee \in 0..Gas
              /\ Costs[k] \in Nat /\ Worsts[k] \in Nat
              /\ Worsts[k] = Worst(k) /\ Costs[k] <= Worsts[k]
         /\ \A c \in Asking \cup Unrecorded : Value(c) \in Nat /\ Hands[c] \in Nat /\ Hands[c] = Value(c) + Gas
         /\ IsFiniteSet(Asking) /\ IsFiniteSet(Unrecorded)
<1>1. /\ now \in Nat /\ Gas \in Nat /\ Target \in Nat /\ Budget \in Nat /\ BudgetWindow \in Nat
      /\ IsFiniteSet(Calls) /\ txs \in Seq(Transfers) /\ calls \in [Calls -> CallTypes]
  BY FundAssumption DEF IInv, FundTypeOK
<1>2. DOMAIN txs = 1..Len(txs) /\ Len(txs) \in Nat
  BY <1>1
<1>3. IsFiniteSet(Recent) /\ Recent \subseteq DOMAIN txs
  <2>1. IsFiniteSet(1..Len(txs))
    BY <1>2, FS_Interval
  <2> QED
    BY <1>2, <2>1, FS_Subset DEF Recent
<1>4. ASSUME NEW k \in DOMAIN txs
      PROVE  /\ k \in Nat /\ k # NoTx /\ txs[k] \in Transfers
             /\ txs[k].at \in Nat /\ txs[k].value \in Nat /\ txs[k].fee \in 0..Gas
             /\ Costs[k] \in Nat /\ Worsts[k] \in Nat
             /\ Worsts[k] = Worst(k) /\ Costs[k] <= Worsts[k]
  <2>1. k \in Nat /\ k # NoTx /\ txs[k] \in Transfers
    BY <1>1, <1>2 DEF NoTx
  <2>2. txs[k].at \in Nat /\ txs[k].value \in Nat /\ txs[k].fee \in 0..Gas
    BY <2>1 DEF Transfers
  <2>3. Worsts[k] = Worst(k) /\ Costs[k] = TransferCost(k)
    BY DEF Worsts, Costs
  <2> QED
    BY <1>1, <2>1, <2>2, <2>3 DEF Worst, TransferCost
<1>5. ASSUME NEW c \in Asking \cup Unrecorded
      PROVE  Value(c) \in Nat /\ Hands[c] \in Nat /\ Hands[c] = Value(c) + Gas
  <2>1. c \in Calls /\ calls[c] \in CallTypes /\ calls[c].to \in Agents
    BY <1>1 DEF Asking, Unrecorded, IInv, InHand
  <2>2. Value(c) \in Nat
    BY <2>1 DEF Value, CallTypes
  <2> QED
    BY <1>1, <2>1, <2>2 DEF Hands
<1>6. IsFiniteSet(Asking) /\ IsFiniteSet(Unrecorded)
  BY <1>1, FS_Subset DEF Asking, Unrecorded
<1> QED
  BY <1>1, <1>3, <1>4, <1>5, <1>6

AddendsTyped ==
  /\ IsFiniteSet(Recent) /\ Recent \subseteq DOMAIN txs /\ IsFiniteSet(Asking)
  /\ \A k \in DOMAIN txs : Worsts[k] \in Nat
  /\ \A c \in Asking : Hands[c] \in Nat /\ Hands[c] = Value(c) + Gas

LEMMA AddendsAre == IInv => AddendsTyped
  BY Addends DEF AddendsTyped

LEMMA AddendsNext == IInv' => AddendsTyped'
  BY AddendsAre, PTL

\* The bound is a number.
LEMMA OverrunType == Overrun \in Int /\ Gas \in Nat /\ Budget \in Nat /\ Gas <= Overrun
<1>1. Cardinality(Calls) \in Nat /\ Cardinality(Calls) # 0
  BY FundAssumption, FS_CardinalityType, FS_EmptySet
<1>2. Target \in Nat /\ Gas \in Nat /\ Budget \in Nat
  BY FundAssumption
<1> DEFINE n == Cardinality(Calls) - 1
<1>3. n \in Nat
  BY <1>1
<1>4. Overrun = Gas + n * (Target + Gas)
  BY DEF Overrun
<1> HIDE DEF n
<1>5. n * (Target + Gas) \in Nat
  BY <1>2, <1>3
<1> QED
  BY <1>2, <1>4, <1>5

LEMMA SpentIs == IInv => Spent = SumOf(Costs, Recent)
<1> SUFFICES ASSUME IInv PROVE Spent = SumOf(Costs, Recent)
  OBVIOUS
<1>1. /\ IsFiniteSet(Recent) /\ Recent \subseteq DOMAIN txs
      /\ \A k \in Recent : Costs[k] \in Nat /\ Costs[k] = TransferCost(k)
  BY Addends DEF Costs
<1> DEFINE R(it) == it = [s \in SUBSET Recent |->
                            IF s = {} THEN 0
                            ELSE TransferCost(CHOOSE x \in s : TRUE) + it[s \ {CHOOSE x \in s : TRUE}]]
<1>2. Spent = (CHOOSE it : R(it))[Recent]
  BY DEF Spent, Recent, MapThenSumSet, MapThenFoldSet
<1>3. ASSUME NEW it PROVE R(it) <=> Recurs(it, Costs, Recent)
  <2>1. ASSUME NEW s \in SUBSET Recent, s # {}
        PROVE  Costs[CHOOSE x \in s : TRUE] = TransferCost(CHOOSE x \in s : TRUE)
    <3>1. (CHOOSE x \in s : TRUE) \in s
      BY <2>1
    <3> QED
      BY <1>1, <3>1
  <2> QED
    BY <2>1 DEF Recurs
<1> HIDE DEF R
<1>4. PICK F : Adds(F, Costs, Recent)
  BY <1>1, Additions
<1>5. Recurs(F, Costs, Recent)
  BY <1>4, AddsRecurs
<1>6. PICK it : R(it) /\ Spent = it[Recent]
  BY <1>2, <1>3, <1>5
<1>7. it[Recent] = F[Recent]
  BY <1>1, <1>3, <1>4, <1>6, Iterates
<1> QED
  BY <1>1, <1>4, <1>6, <1>7, SumIs

LEMMA SpendSinceIs ==
  ASSUME IInv, NEW ledger \in Seq(Records)
  PROVE  /\ SpendSince(ledger) = SumOf(Charges(ledger), Counting(ledger))
         /\ IsFiniteSet(Counting(ledger))
         /\ \A i \in DOMAIN ledger : Charges(ledger)[i] \in Nat
<1> DEFINE S == Counting(ledger)
           f == Charges(ledger)
           R(it) == it = [s \in SUBSET S |->
                            IF s = {} THEN 0
                            ELSE Charge(ledger[CHOOSE x \in s : TRUE]) + it[s \ {CHOOSE x \in s : TRUE}]]
<1>1. DOMAIN ledger = 1..Len(ledger) /\ Len(ledger) \in Nat
  OBVIOUS
<1>2. IsFiniteSet(S) /\ S \subseteq DOMAIN ledger
  <2>1. IsFiniteSet(1..Len(ledger))
    BY <1>1, FS_Interval
  <2> QED
    BY <1>1, <2>1, FS_Subset DEF Counting
<1>3. ASSUME NEW i \in DOMAIN ledger PROVE f[i] \in Nat /\ f[i] = Charge(ledger[i])
  <2>1. ledger[i] \in Records
    BY <1>1
  <2> QED
    BY <2>1 DEF Charges, Charge, Records
<1>4. SpendSince(ledger) = (CHOOSE it : R(it))[S]
  BY DEF SpendSince, Counting, MapThenSumSet, MapThenFoldSet
<1>5. ASSUME NEW it PROVE R(it) <=> Recurs(it, f, S)
  <2>1. ASSUME NEW s \in SUBSET S, s # {}
        PROVE  f[CHOOSE x \in s : TRUE] = Charge(ledger[CHOOSE x \in s : TRUE])
    <3>1. (CHOOSE x \in s : TRUE) \in s
      BY <2>1
    <3> QED
      BY <1>2, <1>3, <3>1
  <2> HIDE DEF f, S
  <2> QED
    BY <2>1 DEF Recurs
<1> HIDE DEF R, f, S
<1>6. PICK F : Adds(F, f, S)
  BY <1>2, <1>3, Additions
<1>7. Recurs(F, f, S)
  BY <1>6, AddsRecurs
<1>8. PICK it : R(it) /\ SpendSince(ledger) = it[S]
  BY <1>4, <1>5, <1>7
<1>9. it[S] = F[S]
  BY <1>2, <1>5, <1>6, <1>8, Iterates
<1>10. SpendSince(ledger) = SumOf(f, S)
  BY <1>2, <1>6, <1>8, <1>9, SumIs
<1> QED
  BY <1>2, <1>3, <1>10 DEF f, S

\* What was spent of late is in the ledger or in hand.
LEMMA Covering ==
  ASSUME IInv, NEW ledger \in Seq(Records), \A i \in DOMAIN ledger : EntryIsTrue(ledger[i]), Known(ledger)
  PROVE  SumOf(Worsts, Recent) <= SpendSince(ledger) + SumOf(Hands, Unrecorded)
<1> DEFINE K == {k \in Recent : Noted(k, ledger)}
           L == Recent \ K
           S == Counting(ledger)
           f == Charges(ledger)
<1>1. /\ SpendSince(ledger) = SumOf(f, S) /\ IsFiniteSet(S)
      /\ \A i \in DOMAIN ledger : f[i] \in Nat
  BY SpendSinceIs
<1>2. IsFiniteSet(K) /\ IsFiniteSet(L) /\ K \cap L = {} /\ K \cup L = Recent
  <2>1. IsFiniteSet(Recent)
    BY Addends
  <2> QED
    BY <2>1, FS_Subset
<1>3. \A k \in Recent : Worsts[k] \in Nat /\ Worsts[k] = Worst(k)
  BY Addends
<1>4. SumOf(Worsts, K) <= SumOf(f, S)
  <2> DEFINE o == [i \in DOMAIN ledger |-> ledger[i].tx]
  <2>1. ASSUME NEW k \in K, Worsts[k] > 0
        PROVE  \E i \in S : o[i] = k /\ Worsts[k] <= f[i]
    <3>1. PICK i \in DOMAIN ledger : ledger[i].tx = k /\ ledger[i].at >= txs[k].at
      BY DEF Noted
    <3> DEFINE e == ledger[i]
    <3>2. e \in Records /\ EntryIsTrue(e) /\ e.tx = k /\ f[i] = Charge(e)
      BY <3>1 DEF Charges
    <3>3. /\ k \in DOMAIN txs /\ k # NoTx /\ txs[k].value \in Nat /\ txs[k].fee \in 0..Gas
          /\ txs[k].at \in Nat /\ now \in Nat /\ BudgetWindow \in Nat /\ Gas \in Nat
      BY Addends
    <3>4. i \in S
      <4>1. e.at \in Nat /\ e.at >= txs[k].at
        BY <3>1, <3>2 DEF Records
      <4>2. InWindow(txs[k].at)
        BY DEF Recent
      <4>3. InWindow(e.at)
        BY <3>3, <4>1, <4>2 DEF InWindow
      <4> QED
        BY <4>3 DEF Counting
    <3>5. Worst(k) <= Charge(e)
      <4>1. /\ e.outcome # "failed" /\ e.value = txs[k].value
            /\ e.gas = Gas \/ (txs[k].status = "mined" /\ e.gas = txs[k].fee)
        BY <3>2, <3>3 DEF EntryIsTrue
      <4> HIDE DEF e
      <4> QED
        BY <3>3, <4>1 DEF Worst, Charge
    <3> QED
      BY <1>3, <3>1, <3>2, <3>4, <3>5
  <2>2. \A i \in S : f[i] \in Nat
    BY <1>1 DEF Counting
  <2>3. \A k \in K : Worsts[k] \in Nat
    BY <1>3
  <2> HIDE DEF o, f, S, K
  <2> QED
    BY <1>1, <1>2, <2>1, <2>2, <2>3, SumCovered
<1>5. SumOf(Worsts, L) <= SumOf(Hands, Unrecorded)
  <2> DEFINE o == [c \in Calls |-> calls[c].tx]
  <2>1. ASSUME NEW k \in L, Worsts[k] > 0
        PROVE  \E c \in Unrecorded : o[c] = k /\ Worsts[k] <= Hands[c]
    <3>1. PICK c \in Unrecorded : calls[c].tx = k
      BY <1>3, <2>1 DEF Known
    <3>2. c \in Calls /\ txs[k].value = Value(c)
      BY <3>1 DEF IInv, InHand, Unrecorded
    <3>3. /\ txs[k].value \in Nat /\ txs[k].fee \in 0..Gas /\ Gas \in Nat
          /\ Hands[c] = Value(c) + Gas
      BY Addends
    <3>4. Worst(k) <= Hands[c]
      BY <3>2, <3>3 DEF Worst
    <3> QED
      BY <1>3, <3>1, <3>2, <3>4
  <2>2. IsFiniteSet(Unrecorded) /\ \A c \in Unrecorded : Hands[c] \in Nat
    BY Addends
  <2>3. \A k \in L : Worsts[k] \in Nat
    BY <1>3
  <2> HIDE DEF o, L
  <2> QED
    BY <1>2, <2>1, <2>2, <2>3, SumCovered
<1>6. SumOf(Worsts, Recent) = SumOf(Worsts, K) + SumOf(Worsts, L)
  <2>1. \A k \in K \cup L : Worsts[k] \in Nat
    BY <1>3
  <2> HIDE DEF K, L
  <2> QED
    BY <1>2, <2>1, SumOfBoth
<1>7. /\ SumOf(Worsts, K) \in Nat /\ SumOf(Worsts, L) \in Nat
      /\ SumOf(f, S) \in Nat /\ SumOf(Hands, Unrecorded) \in Nat
  <2>1. \A k \in K \cup L : Worsts[k] \in Nat
    BY <1>3
  <2>2. \A i \in S : f[i] \in Nat
    BY <1>1 DEF Counting
  <2>3. IsFiniteSet(Unrecorded) /\ \A c \in Unrecorded : Hands[c] \in Nat
    BY Addends
  <2> HIDE DEF K, L, f, S
  <2> QED
    BY <1>1, <1>2, <2>1, <2>2, <2>3, SumType
<1> HIDE DEF K, L, f, S
<1> QED
  BY <1>1, <1>4, <1>5, <1>6, <1>7

\* Fewer recent transfers, fewer calls past their check, no greater ones.
LEMMA BoundedKept ==
  ASSUME IInv, IInv', Bounded, Recent' \subseteq Recent, \A k \in Recent' : Worsts'[k] <= Worsts[k],
         Asking' \subseteq Asking, \A c \in Asking' : Value(c)' = Value(c)
  PROVE  Bounded'
<1>1. /\ IsFiniteSet(Recent) /\ IsFiniteSet(Asking) /\ Recent \subseteq DOMAIN txs
      /\ \A k \in DOMAIN txs : Worsts[k] \in Nat
      /\ \A c \in Asking : Hands[c] \in Nat /\ Hands[c] = Value(c) + Gas
  BY Addends
<1>2. /\ Recent' \subseteq DOMAIN txs' /\ IsFiniteSet(Recent') /\ IsFiniteSet(Asking')
      /\ \A k \in DOMAIN txs' : Worsts'[k] \in Nat
      /\ \A c \in Asking' : Hands'[c] \in Nat /\ Hands'[c] = Value(c)' + Gas
  BY AddendsNext DEF AddendsTyped
<1>3. SumOf(Worsts', Recent') <= SumOf(Worsts, Recent)
  <2>1. \A k \in Recent : Worsts[k] \in Nat
    BY <1>1
  <2>2. \A k \in Recent' : Worsts'[k] \in Nat /\ Worsts'[k] <= Worsts[k]
    BY <1>2
  <2> QED
    BY <1>1, <2>1, <2>2, SumLess
<1>4. SumOf(Hands', Asking') <= SumOf(Hands, Asking)
  <2>1. \A c \in Asking' : Hands'[c] \in Nat /\ Hands'[c] <= Hands[c]
    BY <1>1, <1>2
  <2> QED
    BY <1>1, <2>1, SumLess
<1>5. /\ SumOf(Worsts, Recent) \in Nat /\ SumOf(Hands, Asking) \in Nat
      /\ SumOf(Worsts', Recent') \in Nat /\ SumOf(Hands', Asking') \in Nat
  <2>1. \A k \in Recent : Worsts[k] \in Nat
    BY <1>1
  <2>2. \A k \in Recent' : Worsts'[k] \in Nat
    BY <1>2
  <2> QED
    BY <1>1, <1>2, <2>1, <2>2, SumType
<1>6. Budget + Overrun \in Int
  BY OverrunType
<1>7. SumOf(Worsts, Recent) + SumOf(Hands, Asking) <= Budget + Overrun
  BY DEF Bounded
<1>8. SumOf(Worsts', Recent') + SumOf(Hands', Asking') <= Budget + Overrun
  BY <1>3, <1>4, <1>5, <1>6, <1>7
<1> QED
  BY <1>8 DEF Bounded, Overrun

\* A call that passes its check is within the budget by what the ledger says;
\* what it does not say is in the hands of the others.
LEMMA Admitting ==
  ASSUME IInv, IInv', PlansFit, NEW c \in Calls, calls[c].pc \notin {"guards", "sent"},
         NEW ledger \in Seq(Records), \A i \in DOMAIN ledger : EntryIsTrue(ledger[i]), Known(ledger),
         NEW v \in Nat, ~ OverBudget(v, ledger),
         Worsts' = Worsts, Recent' = Recent, Asking' = Asking \cup {c},
         Value(c)' = v, \A d \in Asking : Value(d)' = Value(d)
  PROVE  Bounded'
<1> DEFINE m == Target + Gas
           U == Asking \cup Unrecorded
<1>1. /\ IsFiniteSet(Calls) /\ IsFiniteSet(Asking) /\ IsFiniteSet(Unrecorded) /\ IsFiniteSet(Recent)
      /\ Target \in Nat /\ Gas \in Nat /\ Budget \in Nat
      /\ Recent \subseteq DOMAIN txs
      /\ \A k \in DOMAIN txs : Worsts[k] \in Nat
      /\ \A d \in U : Value(d) \in Nat /\ Hands[d] \in Nat /\ Hands[d] = Value(d) + Gas
  BY Addends
<1>2. \A d \in Asking' : Hands'[d] \in Nat /\ Hands'[d] = Value(d)' + Gas
  BY AddendsNext DEF AddendsTyped
<1>3. c \notin Asking /\ c \notin Unrecorded /\ Asking \cap Unrecorded = {} /\ U \subseteq Calls \ {c}
  BY DEF Asking, Unrecorded
<1>4. \A d \in U : Hands[d] <= m
  <2> SUFFICES ASSUME NEW d \in U PROVE Hands[d] <= m
    OBVIOUS
  <2>1. d \in Calls /\ calls[d].to \in Agents
    BY DEF Asking, Unrecorded, IInv, InHand
  <2>2. Value(d) <= Target
    BY <2>1 DEF PlansFit, Value
  <2> QED
    BY <1>1, <2>2
<1>5. IsFiniteSet(U) /\ Cardinality(U) \in Nat /\ Cardinality(Calls) \in Nat /\ Cardinality(U) <= Cardinality(Calls) - 1
  <2>1. IsFiniteSet(Calls \ {c}) /\ Cardinality(Calls \ {c}) = Cardinality(Calls) - 1
    BY <1>1, FS_RemoveElement
  <2>2. IsFiniteSet(U) /\ Cardinality(U) <= Cardinality(Calls \ {c})
    BY <1>3, <2>1, FS_Subset
  <2> QED
    BY <1>1, <2>1, <2>2, FS_CardinalityType
<1>6. SumOf(Hands, U) = SumOf(Hands, Asking) + SumOf(Hands, Unrecorded)
  BY <1>1, <1>3, SumOfBoth
<1>7. SumOf(Hands, U) <= Cardinality(U) * m
  <2>1. m \in Nat
    BY <1>1
  <2> HIDE DEF U, m
  <2> QED
    BY <1>1, <1>4, <1>5, <2>1, SumOfSmall
<1>8. Cardinality(U) * m <= (Cardinality(Calls) - 1) * m
  <2>1. m \in Nat
    BY <1>1
  <2>2. \A x, y, z \in Nat : x <= y - 1 => x * z <= (y - 1) * z
    OBVIOUS
  <2> HIDE DEF U, m
  <2> QED
    BY <1>5, <2>1, <2>2
<1>9. SumOf(Worsts, Recent) <= SpendSince(ledger) + SumOf(Hands, Unrecorded)
  BY Covering
<1>10. SpendSince(ledger) + v <= Budget /\ SpendSince(ledger) \in Nat
  <2>1. SpendSince(ledger) \in Nat
    <3>1. /\ SpendSince(ledger) = SumOf(Charges(ledger), Counting(ledger)) /\ IsFiniteSet(Counting(ledger))
          /\ \A i \in Counting(ledger) : Charges(ledger)[i] \in Nat
      BY SpendSinceIs DEF Counting
    <3> QED
      BY <3>1, SumType
  <2> QED
    BY <1>1, <2>1 DEF OverBudget
<1>11. SumOf(Hands', Asking') = (v + Gas) + SumOf(Hands', Asking) /\ SumOf(Hands', Asking) \in Nat
  <2>1. IsFiniteSet(Asking') /\ c \in Asking' /\ Asking' \ {c} = Asking
    BY <1>1, <1>3, FS_AddElement
  <2>2. Hands'[c] = v + Gas
    BY <1>2, <2>1
  <2> QED
    BY <1>2, <2>1, <2>2, SumWithout
<1>12. SumOf(Hands', Asking) <= SumOf(Hands, Asking)
  <2>1. \A d \in Asking : Hands'[d] \in Nat /\ Hands'[d] <= Hands[d]
    BY <1>1, <1>2
  <2> QED
    BY <1>1, <2>1, SumLess
<1>13. /\ SumOf(Worsts, Recent) \in Nat /\ SumOf(Hands, Asking) \in Nat /\ SumOf(Hands, Unrecorded) \in Nat
  <2>1. \A k \in Recent : Worsts[k] \in Nat
    BY <1>1
  <2> QED
    BY <1>1, <2>1, SumType
<1>14. Cardinality(U) * m \in Nat /\ (Cardinality(Calls) - 1) * m \in Int
  BY <1>1, <1>5
<1>15. Overrun = Gas + (Cardinality(Calls) - 1) * m
  BY DEF Overrun
<1> HIDE DEF U, m
<1>16. SumOf(Worsts, Recent) + SumOf(Hands', Asking') <= Budget + (Gas + (Cardinality(Calls) - 1) * m)
  BY <1>1, <1>6, <1>7, <1>8, <1>9, <1>10, <1>11, <1>12, <1>13, <1>14
<1> QED
  BY <1>15, <1>16 DEF Bounded, Overrun

-----------------------------------------------------------------------------
(* What the steps do to it.                                                *)

\* An entry is charged with the most that its transfer can still cost.
LEMMA EntryCovers ==
  ASSUME IInv, NEW e \in Records, EntryIsTrue(e), e.tx \in DOMAIN txs
  PROVE  Worst(e.tx) <= Charge(e)
<1>1. /\ e.tx # NoTx /\ txs[e.tx].value \in Nat /\ txs[e.tx].fee \in 0..Gas /\ Gas \in Nat
  BY Addends
<1>2. /\ e.outcome # "failed" /\ e.value = txs[e.tx].value
      /\ e.gas = Gas \/ (txs[e.tx].status = "mined" /\ e.gas = txs[e.tx].fee)
  BY <1>1 DEF EntryIsTrue
<1> QED
  BY <1>1, <1>2 DEF Worst, Charge

\* The new entry comes first, and the old ones move on by one place.
LEMMA AppendedIs ==
  ASSUME NEW e \in Records, entries \in Seq(Records)
  PROVE  /\ Len(Appended(e)) <= Cap
         /\ 1 \in DOMAIN Appended(e) /\ Appended(e)[1] = e
         /\ \A i \in DOMAIN entries :
              i + 1 <= Cap => i + 1 \in DOMAIN Appended(e) /\ Appended(e)[i + 1] = entries[i]
<1> DEFINE all == << e >> \o entries
           n == IF Len(all) > Cap THEN Cap ELSE Len(all)
<1>1. /\ all \in Seq(Records) /\ Len(all) = Len(entries) + 1 /\ Len(entries) \in Nat
      /\ DOMAIN entries = 1..Len(entries)
  OBVIOUS
<1>2. all[1] = e /\ \A i \in 1..Len(entries) : all[i + 1] = entries[i]
  OBVIOUS
<1>3. n \in Nat /\ n <= Len(all) /\ n <= Cap /\ 1 <= n /\ Cap \in Nat
  BY <1>1, FundAssumption
<1>4. \A i \in 1..Len(entries) : i + 1 <= Cap => i + 1 \in 1..n
  BY <1>1
<1>5. Appended(e) = SubSeq(all, 1, n)
  BY DEF Appended
<1> HIDE DEF all, n
<1>6. SubSeq(all, 1, n) \in Seq(Records) /\ Len(SubSeq(all, 1, n)) = n
  BY <1>1, <1>3
<1>7. \A i \in 1..n : SubSeq(all, 1, n)[i] = all[i]
  BY <1>1, <1>3
<1>8. DOMAIN Appended(e) = 1..n /\ Len(Appended(e)) = n
  BY <1>5, <1>6
<1> QED
  BY <1>1, <1>2, <1>3, <1>4, <1>5, <1>7, <1>8

\* Unless the ledger misses something, what was noted stays so, and so does the
\* new entry if it is charged.
LEMMA RecordNotes ==
  ASSUME IInv, Len(entries) <= Cap, NEW e \in Records, Record(e), ~ blind'
  PROVE  /\ ~ blind
         /\ \A k \in Recent : Worst(k) > 0 /\ Noted(k, entries) => Noted(k, entries')
         /\ Charge(e) > 0 => \E i \in DOMAIN entries' : entries'[i] = e
<1>1. PICK ledger \in Written(Appended(e)) : entries' = ledger /\ blind' = (blind \/ Misses(e, ledger))
  BY DEF Record
<1>2. ~ blind /\ ~ Misses(e, ledger)
  BY <1>1
<1>3. ledger = Appended(e) \/ ledger = entries
  BY DEF Written
<1>4. CASE ledger # Appended(e)
  <2>1. ~ (Charge(e) > 0)
    BY <1>2, <1>4 DEF Misses
  <2> QED
    BY <1>1, <1>2, <1>3, <1>4, <2>1
<1>5. CASE ledger = Appended(e)
  <2>1. ~ Forgets
    BY <1>2, <1>5 DEF Misses
  <2>2. entries \in Seq(Records) /\ Cap \in Nat
    BY FundAssumption DEF IInv, FundTypeOK
  <2>3. /\ 1 \in DOMAIN entries' /\ entries'[1] = e
        /\ \A i \in DOMAIN entries :
             i + 1 <= Cap => i + 1 \in DOMAIN entries' /\ entries'[i + 1] = entries[i]
    BY <1>1, <1>5, <2>2, AppendedIs
  <2>4. ASSUME NEW k \in Recent, Worst(k) > 0, Noted(k, entries) PROVE Noted(k, entries')
    <3>1. PICK i \in DOMAIN entries : entries[i].tx = k /\ entries[i].at >= txs[k].at
      BY <2>4 DEF Noted
    <3>2. CASE i + 1 <= Cap
      BY <2>3, <3>1, <3>2 DEF Noted
    <3>3. CASE ~ (i + 1 <= Cap)
      <4>1. i = Cap /\ Len(entries) = Cap
        BY <2>2, <3>3
      <4> DEFINE old == entries[i]
      <4>2. old \in Records /\ EntryIsTrue(old)
        BY <2>2 DEF IInv, LedgerIsTrue
      <4>3. k \in DOMAIN txs /\ InWindow(txs[k].at)
        BY DEF Recent
      <4>4. Worst(k) <= Charge(old) /\ Worst(k) \in Nat
        BY <3>1, <4>2, <4>3, EntryCovers, Addends
      <4>5. /\ now \in Nat /\ BudgetWindow \in Nat /\ txs[k].at \in Nat
            /\ old.at \in Nat /\ old.at >= txs[k].at /\ Charge(old) \in Nat
        BY <3>1, <4>2, <4>3, Addends DEF Records, Charge
      <4> HIDE DEF old
      <4>6. InWindow(old.at) /\ Charge(old) > 0
        BY <2>4, <4>3, <4>4, <4>5 DEF InWindow
      <4>7. FALSE
        BY <2>1, <4>1, <4>6 DEF Forgets, old
      <4> QED
        BY <4>7
    <3> QED
      BY <3>2, <3>3
  <2> QED
    BY <1>2, <2>3, <2>4
<1> QED
  BY <1>4, <1>5

\* The recent transfers and what they can cost, when none is added.
LEMMA SameTransfers ==
  ASSUME UNCHANGED <<txs, now>>
  PROVE  Recent' = Recent /\ Worsts' = Worsts
BY DEF Recent, InWindow, Worsts, Worst

\* What was known stays known if it stays noted or in hand.
LEMMA KnownKept ==
  ASSUME UNCHANGED <<txs, now>>, Known(entries),
         \A k \in Recent : Worst(k) > 0 /\ Noted(k, entries) => Noted(k, entries'),
         \A c \in Unrecorded : Worst(calls[c].tx) > 0 =>
           \/ c \in Unrecorded' /\ calls'[c].tx = calls[c].tx
           \/ Noted(calls[c].tx, entries')
  PROVE  Known(entries)'
<1>1. /\ Recent' = Recent
      /\ \A k : Worst(k)' = Worst(k) /\ Noted(k, entries)' = Noted(k, entries')
  BY DEF Recent, InWindow, Worst, Noted
<1>2. ASSUME NEW k \in Recent, Worst(k) > 0
      PROVE  Noted(k, entries') \/ \E c \in Unrecorded' : calls'[c].tx = k
  BY <1>2 DEF Known
<1> QED
  BY <1>1, <1>2 DEF Known

\* A call that ends is in nobody's way.
LEMMA EndsBudget ==
  ASSUME IInv, IInv', NEW c \in Calls, Ends(c), UNCHANGED <<txs, now>>
  PROVE  /\ PlansFit => PlansFit'
         /\ Bounded => Bounded'
         /\ \A d \in Unrecorded : d # c => d \in Unrecorded' /\ calls'[d].tx = calls[d].tx
<1>1. /\ \A d \in Calls \ {c} : calls'[d] = calls[d]
      /\ calls'[c] = IdleCall
  BY DEF Ends, IInv, FundTypeOK
<1>2. PlansFit => PlansFit'
  <2> SUFFICES ASSUME PlansFit, NEW d \in Calls, NEW a \in Agents PROVE calls'[d].plan[a] <= Target
    BY DEF PlansFit
  <2>1. calls'[c].plan[a] = 0 /\ 0 <= Target
    BY <1>1, FundAssumption DEF IdleCall, NoPlan
  <2> QED
    BY <1>1, <2>1 DEF PlansFit
<1>3. Bounded => Bounded'
  <2> SUFFICES ASSUME Bounded PROVE Bounded'
    OBVIOUS
  <2>1. Recent' = Recent /\ Worsts' = Worsts /\ \A k \in Recent' : Worsts[k] \in Nat
    BY Addends, SameTransfers
  <2>2. Asking' \subseteq Asking
    BY <1>1 DEF Asking, IdleCall
  <2>3. \A d \in Asking' : Value(d)' = Value(d)
    BY <1>1 DEF Asking, IdleCall, Value
  <2> QED
    BY <2>1, <2>2, <2>3, BoundedKept
<1>4. \A d \in Unrecorded : d # c => d \in Unrecorded' /\ calls'[d].tx = calls[d].tx
  BY <1>1 DEF Unrecorded
<1> QED
  BY <1>2, <1>3, <1>4

\* On to the next transfer, checked against a ledger that is known, or the end.
LEMMA LegBudget ==
  ASSUME IInv, IInv', PlansFit, NEW c \in Calls, calls[c].pc \notin {"guards", "sent"},
         NEW ledger \in Seq(Records), \A i \in DOMAIN ledger : EntryIsTrue(ledger[i]),
         NEW plan \in [Agents -> Nat], \A a \in Agents : plan[a] <= Target,
         NextLeg(c, plan, ledger), UNCHANGED <<txs, now>>
  PROVE  /\ PlansFit'
         /\ Bounded /\ Known(ledger) => Bounded'
         /\ \A d \in Unrecorded : d \in Unrecorded' /\ calls'[d].tx = calls[d].tx
<1>0. c \notin Unrecorded
  BY DEF Unrecorded
<1>1. CASE Ends(c)
  BY <1>0, <1>1, EndsBudget
<1>2. ASSUME NEW a \in Left(plan), ~ OverBudget(plan[a], ledger),
             calls' = [calls EXCEPT ![c] = [pc |-> "guards", plan |-> plan, to |-> a, tx |-> NoTx]]
      PROVE  /\ PlansFit'
             /\ Bounded /\ Known(ledger) => Bounded'
             /\ \A d \in Unrecorded : d \in Unrecorded' /\ calls'[d].tx = calls[d].tx
  <2>1. /\ \A d \in Calls \ {c} : calls'[d] = calls[d]
        /\ calls'[c] = [pc |-> "guards", plan |-> plan, to |-> a, tx |-> NoTx]
        /\ a \in Agents
    BY <1>2 DEF IInv, FundTypeOK, Left
  <2>2. PlansFit'
    BY <2>1 DEF PlansFit
  <2>3. \A d \in Unrecorded : d \in Unrecorded' /\ calls'[d].tx = calls[d].tx
    BY <1>0, <2>1 DEF Unrecorded
  <2>4. Asking' = Asking \cup {c} /\ c \notin Asking
    BY <2>1 DEF Asking
  <2>5. Value(c)' = plan[a] /\ plan[a] \in Nat
    BY <2>1 DEF Value
  <2>6. \A d \in Asking : Value(d)' = Value(d)
    BY <2>1, <2>4 DEF Value, Asking
  <2>7. Recent' = Recent /\ Worsts' = Worsts
    BY SameTransfers
  <2>8. Known(ledger) => Bounded'
    BY <1>2, <2>4, <2>5, <2>6, <2>7, Admitting
  <2> QED
    BY <2>2, <2>3, <2>8
<1> QED
  BY <1>1, <1>2 DEF NextLeg

\* A step that leaves the calls, the transfers and the time alone.
LEMMA LedgerBudget ==
  ASSUME IInv, IInv', BudgetInv, UNCHANGED <<txs, now, calls>>, Len(entries') <= Cap,
         ~ blind' => ~ blind /\ \A k \in Recent : Worst(k) > 0 /\ Noted(k, entries) => Noted(k, entries')
  PROVE  BudgetInv'
<1>1. NoneAhead' /\ PlansFit'
  BY DEF BudgetInv, NoneAhead, PlansFit
<1>2. ASSUME ~ blind' PROVE Known(entries)' /\ Bounded'
  <2>1. ~ blind /\ Known(entries) /\ Bounded
    BY <1>2 DEF BudgetInv
  <2>2. Unrecorded' = Unrecorded
    BY DEF Unrecorded
  <2>3. Known(entries)'
    BY <1>2, <2>1, <2>2, KnownKept
  <2>4. Bounded'
    BY <2>1 DEF Bounded, Worsts, Worst, Recent, InWindow, Hands, Value, Asking
  <2> QED
    BY <2>3, <2>4
<1> QED
  BY <1>1, <1>2 DEF BudgetInv

\* What Record does to the length of the ledger.
LEMMA RecordFits ==
  ASSUME IInv, Len(entries) <= Cap, NEW e \in Records, Record(e)
  PROVE  Len(entries') <= Cap
<1>1. entries' = Appended(e) \/ entries' = entries
  BY DEF Record, Written
<1>2. entries \in Seq(Records)
  BY DEF IInv, FundTypeOK
<1> QED
  BY <1>1, <1>2, AppendedIs

LEMMA FundBudgets ==
  ASSUME IInv, IInv', BudgetInv, NEW c \in Calls, Fund(c)
  PROVE  BudgetInv'
<1>1. /\ calls[c].pc = "idle" /\ NextLeg(c, Plan, entries)
      /\ UNCHANGED <<txs, entries, now, blind>>
  BY DEF Fund
<1>2. Plan \in [Agents -> Nat] /\ \A a \in Agents : Plan[a] <= Target
  <2>1. balance \in [Agents -> Nat]
    BY DEF IInv, FundTypeOK
  <2> QED
    BY <2>1, FundAssumption DEF Plan
<1>3. entries \in Seq(Records) /\ \A i \in DOMAIN entries : EntryIsTrue(entries[i])
  BY DEF IInv, FundTypeOK, LedgerIsTrue
<1>4. /\ PlansFit'
      /\ Bounded /\ Known(entries) => Bounded'
      /\ \A d \in Unrecorded : d \in Unrecorded' /\ calls'[d].tx = calls[d].tx
  BY <1>1, <1>2, <1>3, LegBudget DEF BudgetInv
<1>5. NoneAhead' /\ Len(entries') <= Cap
  BY <1>1 DEF BudgetInv, NoneAhead
<1>6. Known(entries) => Known(entries)'
  BY <1>1, <1>4, KnownKept
<1> QED
  BY <1>1, <1>4, <1>5, <1>6 DEF BudgetInv

LEMMA EndBudgets ==
  ASSUME IInv, IInv', BudgetInv, NEW c \in Calls, GuardsRefuse(c) \/ WaitFails(c)
  PROVE  BudgetInv'
<1>1. Ends(c) /\ UNCHANGED <<txs, entries, now, blind>> /\ c \notin Unrecorded
  BY DEF GuardsRefuse, WaitFails, Unrecorded
<1>2. /\ PlansFit'
      /\ Bounded => Bounded'
      /\ \A d \in Unrecorded : d \in Unrecorded' /\ calls'[d].tx = calls[d].tx
  BY <1>1, EndsBudget DEF BudgetInv
<1>3. NoneAhead' /\ Len(entries') <= Cap
  BY <1>1 DEF BudgetInv, NoneAhead
<1>4. Known(entries) => Known(entries)'
  BY <1>1, <1>2, KnownKept
<1> QED
  BY <1>1, <1>2, <1>3, <1>4 DEF BudgetInv

LEMMA RejectedBudgets ==
  ASSUME IInv, IInv', BudgetInv, NEW c \in Calls, Rejected(c)
  PROVE  BudgetInv'
<1> DEFINE e == Entry(NoTx, "failed", Value(c), 0)
<1>1. /\ calls[c].pc = "guards" /\ Record(e) /\ Ends(c) /\ UNCHANGED <<txs, now>> /\ c \notin Unrecorded
  BY DEF Rejected, Unrecorded
<1>2. e \in Records
  BY <1>1, NewEntry
<1> HIDE DEF e
<1>3. /\ PlansFit'
      /\ Bounded => Bounded'
      /\ \A d \in Unrecorded : d \in Unrecorded' /\ calls'[d].tx = calls[d].tx
  BY <1>1, EndsBudget DEF BudgetInv
<1>4. NoneAhead' /\ Len(entries') <= Cap
  BY <1>1, <1>2, RecordFits DEF BudgetInv, NoneAhead
<1>5. ASSUME ~ blind' PROVE Known(entries)' /\ Bounded'
  <2>1. ~ blind /\ \A k \in Recent : Worst(k) > 0 /\ Noted(k, entries) => Noted(k, entries')
    BY <1>1, <1>2, <1>5, RecordNotes DEF BudgetInv
  <2>2. Known(entries) /\ Bounded
    BY <2>1 DEF BudgetInv
  <2> QED
    BY <1>1, <1>3, <2>1, <2>2, KnownKept
<1> QED
  BY <1>3, <1>4, <1>5 DEF BudgetInv

LEMMA AnsweredBudgets ==
  ASSUME IInv, IInv', BudgetInv, NEW c \in Calls, Answered(c)
  PROVE  BudgetInv'
<1> DEFINE k == calls[c].tx
           e == Entry(k, "broadcast", Value(c), Gas)
<1>1. /\ calls[c].pc = "sent" /\ Record(e) /\ calls' = [calls EXCEPT ![c].pc = "waiting"]
      /\ UNCHANGED <<txs, now>>
  BY DEF Answered
<1>2. e \in Records /\ EntryIsTrue(e) /\ e.tx = k /\ e.at = now
  BY <1>1, NewEntry DEF Entry
<1>3. k \in DOMAIN txs
  BY <1>1 DEF IInv, InHand
<1>4. Worst(k) <= Charge(e) /\ Worst(k) \in Nat /\ Charge(e) \in Nat
  BY <1>2, <1>3, EntryCovers, Addends DEF Charge, Records
<1>5. /\ \A d \in Calls \ {c} : calls'[d] = calls[d]
      /\ calls'[c].pc = "waiting" /\ calls'[c].plan = calls[c].plan
  <2>1. calls \in [Calls -> CallTypes] /\ calls[c] \in CallTypes
    BY DEF IInv, FundTypeOK
  <2>2. calls'[c] = [calls[c] EXCEPT !.pc = "waiting"] /\ \A d \in Calls \ {c} : calls'[d] = calls[d]
    BY <1>1, <2>1
  <2> QED
    BY <2>1, <2>2 DEF CallTypes
<1> HIDE DEF e
<1>6. PlansFit' /\ NoneAhead' /\ Len(entries') <= Cap
  BY <1>1, <1>2, <1>5, RecordFits DEF BudgetInv, PlansFit, NoneAhead
<1>7. ASSUME ~ blind' PROVE Known(entries)' /\ Bounded'
  <2>1. /\ ~ blind
        /\ \A j \in Recent : Worst(j) > 0 /\ Noted(j, entries) => Noted(j, entries')
        /\ Charge(e) > 0 => \E i \in DOMAIN entries' : entries'[i] = e
    BY <1>1, <1>2, <1>7, RecordNotes DEF BudgetInv
  <2>2. Known(entries) /\ Bounded
    BY <2>1 DEF BudgetInv
  <2>3. Worst(k) > 0 => Noted(k, entries')
    <3> SUFFICES ASSUME Worst(k) > 0 PROVE Noted(k, entries')
      OBVIOUS
    <3>1. PICK i \in DOMAIN entries' : entries'[i] = e
      BY <1>4, <2>1
    <3>2. now >= txs[k].at
      BY <1>3, Addends DEF BudgetInv, NoneAhead
    <3> QED
      BY <1>2, <3>1, <3>2 DEF Noted
  <2>4. \A d \in Unrecorded : d # c => d \in Unrecorded' /\ calls'[d].tx = calls[d].tx
    BY <1>5 DEF Unrecorded
  <2>5. Known(entries)'
    BY <1>1, <2>1, <2>2, <2>3, <2>4, KnownKept
  <2>6. Bounded'
    <3>1. Recent' = Recent /\ Worsts' = Worsts /\ \A j \in Recent' : Worsts[j] \in Nat
      BY <1>1, Addends, SameTransfers
    <3>2. Asking' \subseteq Asking
      BY <1>5 DEF Asking
    <3>3. \A d \in Asking' : Value(d)' = Value(d)
      BY <1>5 DEF Asking, Value
    <3> QED
      BY <2>2, <3>1, <3>2, <3>3, BoundedKept
  <2> QED
    BY <2>5, <2>6
<1> QED
  BY <1>6, <1>7 DEF BudgetInv

LEMMA LostBudgets ==
  ASSUME IInv, IInv', BudgetInv, NEW c \in Calls, AnswerLost(c)
  PROVE  BudgetInv'
<1> DEFINE e == Entry(NoTx, "failed", Value(c), 0)
<1>1. /\ calls[c].pc = "sent" /\ Ends(c) /\ UNCHANGED <<txs, now>> /\ blind'
      /\ entries' = entries \/ entries' = Appended(e)
  BY DEF AnswerLost, Written
<1>2. e \in Records /\ entries \in Seq(Records)
  BY <1>1, NewEntry DEF IInv, FundTypeOK
<1> HIDE DEF e
<1>3. PlansFit'
  BY <1>1, EndsBudget DEF BudgetInv
<1>4. NoneAhead' /\ Len(entries') <= Cap
  BY <1>1, <1>2, AppendedIs DEF BudgetInv, NoneAhead
<1> QED
  BY <1>1, <1>3, <1>4 DEF BudgetInv

LEMMA SendBudgets ==
  ASSUME IInv, IInv', BudgetInv, NEW c \in Calls, Send(c)
  PROVE  BudgetInv'
<1> DEFINE n == Len(txs)
           t == [to |-> calls[c].to, value |-> Value(c), at |-> now, status |-> "pending", fee |-> 0]
<1>1. /\ calls[c].pc = "guards" /\ txs' = Append(txs, t) /\ UNCHANGED <<entries, now, blind>>
      /\ calls' = [calls EXCEPT ![c] = [pc |-> "sent", plan |-> @.plan, to |-> @.to, tx |-> n + 1]]
  BY DEF Send
<1>2. t.value = Value(c) /\ t.at = now /\ t.status = "pending"
  OBVIOUS
<1>3. t \in Transfers
  <2>1. calls[c] \in CallTypes /\ calls[c].to \in Agents /\ now \in Nat
    BY <1>1 DEF IInv, FundTypeOK, InHand
  <2> QED
    BY <2>1, FundAssumption DEF Transfers, Value, CallTypes
<1> HIDE DEF t
<1>4. /\ n \in Nat /\ DOMAIN txs = 1..n /\ DOMAIN txs' = DOMAIN txs \cup {n + 1}
      /\ \A k \in DOMAIN txs : txs'[k] = txs[k]
      /\ txs'[n + 1] = t
  <2>1. txs \in Seq(Transfers)
    BY DEF IInv, FundTypeOK
  <2> QED
    BY <1>1, <1>3, <2>1
<1>5. /\ \A d \in Calls \ {c} : calls'[d] = calls[d]
      /\ calls'[c] = [pc |-> "sent", plan |-> calls[c].plan, to |-> calls[c].to, tx |-> n + 1]
  BY <1>1 DEF IInv, FundTypeOK
<1>6. now \in Nat /\ BudgetWindow \in Nat /\ Gas \in Nat
  BY Addends
<1> HIDE DEF n
<1>7. PlansFit' /\ Len(entries') <= Cap
  BY <1>1, <1>5 DEF BudgetInv, PlansFit
<1>8. NoneAhead'
  BY <1>1, <1>2, <1>4, <1>6 DEF BudgetInv, NoneAhead
<1>9. /\ Recent' = Recent \cup {n + 1} /\ n + 1 \notin Recent
      /\ \A k \in Recent : Worst(k)' = Worst(k) /\ Worsts'[k] = Worsts[k]
      /\ Worsts'[n + 1] = Value(c) + Gas
  <2>1. InWindow(now)
    BY <1>6 DEF InWindow
  <2>2. Recent' = Recent \cup {n + 1}
    BY <1>1, <1>2, <1>4, <2>1 DEF Recent, InWindow
  <2>3. \A k \in Recent : Worst(k)' = Worst(k) /\ Worsts'[k] = Worsts[k]
    BY <1>4 DEF Recent, Worst, Worsts
  <2>4. Worsts'[n + 1] = Value(c) + Gas
    BY <1>2, <1>4 DEF Worsts, Worst
  <2>5. n + 1 \notin Recent
    BY <1>4 DEF Recent
  <2> QED
    BY <2>2, <2>3, <2>4, <2>5
<1>10. ASSUME Known(entries) PROVE Known(entries)'
  <2> SUFFICES ASSUME NEW k \in Recent', Worst(k)' > 0
               PROVE  Noted(k, entries)' \/ \E d \in Unrecorded' : calls'[d].tx = k
    BY DEF Known
  <2>1. CASE k = n + 1
    BY <1>5, <2>1 DEF Unrecorded
  <2>2. CASE k # n + 1
    <3>1. k \in Recent /\ Worst(k) > 0 /\ k \in DOMAIN txs
      BY <1>9, <2>2 DEF Recent
    <3>2. CASE Noted(k, entries)
      BY <1>1, <1>4, <3>1, <3>2 DEF Noted
    <3>3. ASSUME NEW d \in Unrecorded, calls[d].tx = k PROVE d \in Unrecorded' /\ calls'[d].tx = k
      BY <1>1, <1>5, <3>3 DEF Unrecorded
    <3> QED
      BY <1>10, <3>1, <3>2, <3>3 DEF Known
  <2> QED
    BY <2>1, <2>2
<1>11. ASSUME Bounded PROVE Bounded'
  <2>1. /\ IsFiniteSet(Recent) /\ Recent \subseteq DOMAIN txs /\ IsFiniteSet(Asking)
        /\ \A k \in DOMAIN txs : Worsts[k] \in Nat
        /\ \A d \in Asking : Hands[d] \in Nat /\ Hands[d] = Value(d) + Gas
    BY Addends
  <2>2. /\ IsFiniteSet(Recent') /\ Recent' \subseteq DOMAIN txs'
        /\ \A k \in DOMAIN txs' : Worsts'[k] \in Nat
        /\ \A d \in Asking' : Hands'[d] \in Nat /\ Hands'[d] = Value(d)' + Gas
    BY AddendsNext DEF AddendsTyped
  <2>3. c \in Asking /\ Asking' = Asking \ {c}
    BY <1>1, <1>5 DEF Asking
  <2>4. \A d \in Asking' : Hands'[d] = Hands[d]
    <3>1. \A d \in Asking' : Value(d)' = Value(d)
      BY <1>5, <2>3 DEF Asking, Value
    <3> QED
      BY <2>1, <2>2, <2>3, <3>1
  <2>5. /\ SumOf(Worsts', Recent') = (Value(c) + Gas) + SumOf(Worsts', Recent)
        /\ SumOf(Worsts', Recent) \in Nat
    <3>1. Recent' \ {n + 1} = Recent /\ n + 1 \in Recent'
      BY <1>9
    <3>2. \A k \in Recent' : Worsts'[k] \in Nat
      BY <2>2
    <3> QED
      BY <1>9, <2>2, <3>1, <3>2, SumWithout
  <2>6. SumOf(Worsts', Recent) <= SumOf(Worsts, Recent)
    <3>1. \A k \in Recent : Worsts[k] \in Nat /\ Worsts'[k] \in Nat /\ Worsts'[k] <= Worsts[k]
      BY <1>9, <2>1
    <3> QED
      BY <2>1, <3>1, SumLess
  <2>7. /\ SumOf(Hands, Asking) = (Value(c) + Gas) + SumOf(Hands, Asking')
        /\ SumOf(Hands, Asking') \in Nat /\ Value(c) + Gas \in Nat
    BY <2>1, <2>3, SumWithout
  <2>8. SumOf(Hands', Asking') <= SumOf(Hands, Asking') /\ SumOf(Hands', Asking') \in Nat
    <3>1. IsFiniteSet(Asking')
      BY <2>1, <2>3, FS_RemoveElement
    <3>2. \A d \in Asking' : Hands[d] \in Nat /\ Hands'[d] \in Nat /\ Hands'[d] <= Hands[d]
      BY <2>1, <2>3, <2>4
    <3> QED
      BY <3>1, <3>2, SumLess, SumType
  <2>9. SumOf(Worsts, Recent) \in Nat
    <3>1. \A k \in Recent : Worsts[k] \in Nat
      BY <2>1
    <3> QED
      BY <2>1, <3>1, SumType
  <2>10. SumOf(Worsts, Recent) + SumOf(Hands, Asking) <= Budget + Overrun /\ Budget + Overrun \in Int
    BY <1>11, OverrunType DEF Bounded
  <2>11. SumOf(Worsts', Recent') + SumOf(Hands', Asking') <= Budget + Overrun
    BY <2>5, <2>6, <2>7, <2>8, <2>9, <2>10
  <2> QED
    BY <2>11 DEF Bounded, Overrun
<1> QED
  BY <1>1, <1>7, <1>8, <1>10, <1>11 DEF BudgetInv

LEMMA ReceiptBudgets ==
  ASSUME IInv, IInv', BudgetInv, NEW c \in Calls, Receipt(c)
  PROVE  BudgetInv'
<1> DEFINE k == calls[c].tx
           plan == [calls[c].plan EXCEPT ![calls[c].to] = 0]
<1>1. /\ calls[c].pc = "waiting" /\ UNCHANGED <<txs, now, blind>>
  BY DEF Receipt
<1>2. PICK ledger \in Written(Settled(k)) : entries' = ledger /\ NextLeg(c, plan, ledger)
  BY Zenon DEF Receipt
<1>3. /\ plan \in [Agents -> Nat] /\ \A a \in Agents : plan[a] <= Target
  <2>1. calls[c] \in CallTypes /\ Target \in Nat
    BY FundAssumption DEF IInv, FundTypeOK
  <2>2. calls[c].plan \in [Agents -> Nat] /\ \A a \in Agents : calls[c].plan[a] <= Target
    BY <2>1 DEF CallTypes, BudgetInv, PlansFit
  <2>3. plan \in [Agents -> Nat]
    BY <2>2
  <2>4. \A a \in Agents : plan[a] = (IF a = calls[c].to THEN 0 ELSE calls[c].plan[a])
    BY <2>2
  <2> HIDE DEF plan
  <2> QED
    BY <2>1, <2>2, <2>3, <2>4
<1> HIDE DEF k, plan
<1>4. /\ ledger \in Seq(Records) /\ \A i \in DOMAIN ledger : EntryIsTrue(ledger[i])
  <2>1. entries' \in Seq(Records) /\ \A i \in DOMAIN entries' : EntryIsTrue(entries[i])'
    BY DEF IInv, FundTypeOK, LedgerIsTrue
  <2>2. \A i \in DOMAIN entries' : EntryIsTrue(entries'[i])
    BY <1>1, <2>1 DEF EntryIsTrue
  <2> QED
    BY <1>2, <2>1, <2>2
<1>5. /\ Len(ledger) <= Cap
      /\ \A j : Noted(j, entries) => Noted(j, ledger)
  <2>1. CASE ledger = entries
    BY <2>1 DEF BudgetInv
  <2>2. CASE ledger = Settled(k)
    <3>1. entries \in Seq(Records) /\ DOMAIN entries = 1..Len(entries) /\ Len(entries) \in Nat
      BY DEF IInv, FundTypeOK
    <3>2. /\ DOMAIN ledger = DOMAIN entries
          /\ \A i \in DOMAIN entries : ledger[i].tx = entries[i].tx /\ ledger[i].at = entries[i].at
      BY <2>2 DEF Settled, Confirmed
    <3>3. Len(ledger) = Len(entries)
      BY <1>4, <3>1, <3>2
    <3> QED
      BY <3>2, <3>3 DEF BudgetInv, Noted
  <2> QED
    BY <1>2, <2>1, <2>2 DEF Written
<1>6. Known(entries) => Known(ledger)
  BY <1>5 DEF Known
<1>7. /\ PlansFit'
      /\ Bounded /\ Known(ledger) => Bounded'
      /\ \A d \in Unrecorded : d \in Unrecorded' /\ calls'[d].tx = calls[d].tx
  BY <1>1, <1>2, <1>3, <1>4, LegBudget DEF BudgetInv
<1>8. Known(entries) => Known(entries)'
  BY <1>1, <1>2, <1>5, <1>7, KnownKept
<1>9. NoneAhead'
  BY <1>1 DEF BudgetInv, NoneAhead
<1> QED
  BY <1>1, <1>2, <1>5, <1>6, <1>7, <1>8, <1>9 DEF BudgetInv

LEMMA MineBudgets ==
  ASSUME IInv, IInv', BudgetInv, NEW k \in DOMAIN txs, Mine(k)
  PROVE  BudgetInv'
<1>1. PICK fee \in Fees : txs' = [txs EXCEPT ![k] = Mined(txs[k], fee)]
  BY DEF Mine
<1>2. txs[k].status = "pending" /\ UNCHANGED <<entries, calls, now, blind>>
  BY DEF Mine
<1>3. /\ fee \in 0..Gas /\ fee \in Nat /\ fee <= Gas /\ Gas \in Nat
  BY FundAssumption
<1>4. /\ txs \in Seq(Transfers) /\ DOMAIN txs' = DOMAIN txs
      /\ \A j \in DOMAIN txs : j # k => txs'[j] = txs[j]
      /\ txs'[k].at = txs[k].at /\ txs'[k].value = txs[k].value
      /\ txs'[k].status = "mined" /\ txs'[k].fee = fee
  BY <1>1 DEF IInv, FundTypeOK, Mined
<1>5. \A j \in DOMAIN txs : txs'[j].at = txs[j].at
  BY <1>4
<1>6. Recent' = Recent
  BY <1>2, <1>4, <1>5 DEF Recent, InWindow
<1>7. \A j \in DOMAIN txs : Worst(j)' <= Worst(j) /\ Worst(j) \in Nat /\ Worst(j)' \in Nat
  <2> SUFFICES ASSUME NEW j \in DOMAIN txs PROVE Worst(j)' <= Worst(j) /\ Worst(j) \in Nat /\ Worst(j)' \in Nat
    OBVIOUS
  <2>1. txs[j].value \in Nat /\ Worst(j) \in Nat
    BY Addends
  <2>2. CASE j = k
    BY <1>2, <1>3, <1>4, <2>1, <2>2 DEF Worst
  <2>3. CASE j # k
    BY <1>4, <2>1, <2>3 DEF Worst
  <2> QED
    BY <2>2, <2>3
<1>8. NoneAhead' /\ PlansFit' /\ Len(entries') <= Cap
  BY <1>2, <1>4, <1>5 DEF BudgetInv, NoneAhead, PlansFit
<1>9. ASSUME Known(entries) PROVE Known(entries)'
  <2> SUFFICES ASSUME NEW j \in Recent', Worst(j)' > 0
               PROVE  Noted(j, entries)' \/ \E d \in Unrecorded' : calls'[d].tx = j
    BY DEF Known
  <2>1. j \in Recent /\ j \in DOMAIN txs
    BY <1>6 DEF Recent
  <2>2. Worst(j) > 0
    BY <1>7, <2>1
  <2>3. Noted(j, entries) \/ \E d \in Unrecorded : calls[d].tx = j
    BY <1>9, <2>1, <2>2 DEF Known
  <2> QED
    BY <1>2, <1>5, <2>1, <2>3 DEF Noted, Unrecorded
<1>10. ASSUME Bounded PROVE Bounded'
  <2>1. \A j \in Recent' : Worsts'[j] <= Worsts[j]
    <3>1. \A j \in DOMAIN txs : Worsts'[j] = Worst(j)' /\ Worsts[j] = Worst(j)
      BY <1>4 DEF Worsts
    <3> QED
      BY <1>6, <1>7, <3>1 DEF Recent
  <2>2. Asking' = Asking /\ \A d \in Asking' : Value(d)' = Value(d)
    BY <1>2 DEF Asking, Value
  <2> QED
    BY <1>6, <1>10, <2>1, <2>2, BoundedKept
<1> QED
  BY <1>2, <1>8, <1>9, <1>10 DEF BudgetInv

LEMMA TickBudgets ==
  ASSUME IInv, IInv', BudgetInv, Tick
  PROVE  BudgetInv'
<1>1. now' = now + 1 /\ UNCHANGED <<txs, entries, calls, blind>>
  BY DEF Tick
<1>2. /\ now \in Nat /\ BudgetWindow \in Nat
      /\ \A k \in DOMAIN txs : txs[k].at \in Nat /\ Worsts[k] \in Nat
  BY Addends
<1>3. NoneAhead' /\ PlansFit' /\ Len(entries') <= Cap
  BY <1>1, <1>2 DEF BudgetInv, NoneAhead, PlansFit
<1>4. Recent' \subseteq Recent
  BY <1>1, <1>2 DEF Recent, InWindow
<1>5. Known(entries) => Known(entries)'
  BY <1>1, <1>4 DEF Known, Worst, Noted, Unrecorded
<1>6. ASSUME Bounded PROVE Bounded'
  <2>1. \A k \in Recent' : Worsts'[k] <= Worsts[k]
    BY <1>1, <1>2 DEF Worsts, Worst, Recent
  <2>2. Asking' = Asking /\ \A d \in Asking' : Value(d)' = Value(d)
    BY <1>1 DEF Asking, Value
  <2> QED
    BY <1>4, <1>6, <2>1, <2>2, BoundedKept
<1> QED
  BY <1>1, <1>3, <1>5, <1>6 DEF BudgetInv

LEMMA AgentBudgets ==
  ASSUME IInv, IInv', BudgetInv, NEW a \in Agents, AgentSpends(a)
  PROVE  BudgetInv'
<1> DEFINE e == Entry(NoTx, "broadcast", 0, Gas)
<1>1. Record(e) /\ UNCHANGED <<txs, calls, now>>
  BY DEF AgentSpends
<1>2. e \in Records
  BY FundAssumption DEF Entry, Records, NoTx, IInv, FundTypeOK
<1> HIDE DEF e
<1>3. Len(entries') <= Cap
  BY <1>1, <1>2, RecordFits DEF BudgetInv
<1>4. ~ blind' => ~ blind /\ \A k \in Recent : Worst(k) > 0 /\ Noted(k, entries) => Noted(k, entries')
  BY <1>1, <1>2, RecordNotes DEF BudgetInv
<1> QED
  BY <1>1, <1>3, <1>4, LedgerBudget

\* Every step keeps it.
LEMMA BudgetStep == IInv /\ BudgetInv /\ [FundNext]_fundVars => BudgetInv'
<1> SUFFICES ASSUME IInv, BudgetInv, [FundNext]_fundVars PROVE BudgetInv'
  OBVIOUS
<1>0. IInv'
  BY InvStep
<1>1. ASSUME NEW c \in Calls, CallStep(c) PROVE BudgetInv'
  BY <1>0, <1>1, FundBudgets, EndBudgets, SendBudgets, RejectedBudgets, AnsweredBudgets, LostBudgets,
     ReceiptBudgets DEF CallStep
<1>2. CASE UNCHANGED fundVars
  <2>1. UNCHANGED <<txs, now, calls, entries, blind>>
    BY <1>2 DEF fundVars
  <2>2. Len(entries') <= Cap
    BY <2>1 DEF BudgetInv
  <2> QED
    BY <1>0, <2>1, <2>2, LedgerBudget
<1> QED
  BY <1>0, <1>1, <1>2, MineBudgets, AgentBudgets, TickBudgets DEF FundNext

LEMMA BudgetBegins == FundInit => BudgetInv
<1> SUFFICES ASSUME FundInit PROVE BudgetInv
  OBVIOUS
<1>1. /\ txs = << >> /\ entries = << >> /\ now = 0
      /\ \A c \in Calls : calls[c] = IdleCall
  BY DEF FundInit
<1>2. Len(entries) <= Cap /\ NoneAhead
  BY <1>1, FundAssumption DEF NoneAhead
<1>3. PlansFit
  BY <1>1, FundAssumption DEF PlansFit, IdleCall, NoPlan
<1>4. Recent = {} /\ Asking = {}
  BY <1>1 DEF Recent, Asking, IdleCall
<1>5. Known(entries)
  BY <1>4 DEF Known
<1>6. Bounded
  <2>1. SumOf(Worsts, Recent) = 0 /\ SumOf(Hands, Asking) = 0
    BY <1>4, SumOfNone
  <2>2. Overrun \in Int /\ Budget \in Nat /\ Gas \in Nat /\ Gas <= Overrun
    BY OverrunType
  <2>3. SumOf(Worsts, Recent) + SumOf(Hands, Asking) <= Budget + Overrun
    BY <2>1, <2>2
  <2> QED
    BY <2>3 DEF Bounded
<1> QED
  BY <1>2, <1>3, <1>5, <1>6 DEF BudgetInv

\* What was spent is no more than what it could still cost.
LEMMA BudgetSuffices == IInv /\ BudgetInv => BoundedOverrun
<1> SUFFICES ASSUME IInv, BudgetInv, ~ blind PROVE Spent <= Budget + Overrun
  BY DEF BoundedOverrun
<1>1. /\ IsFiniteSet(Recent) /\ IsFiniteSet(Asking)
      /\ \A k \in Recent : Costs[k] \in Nat /\ Worsts[k] \in Nat /\ Costs[k] <= Worsts[k]
      /\ \A c \in Asking : Hands[c] \in Nat
  BY Addends
<1>2. SumOf(Costs, Recent) <= SumOf(Worsts, Recent)
  BY <1>1, SumLess
<1>3. SumOf(Costs, Recent) \in Nat /\ SumOf(Worsts, Recent) \in Nat /\ SumOf(Hands, Asking) \in Nat
  BY <1>1, SumType
<1>4. SumOf(Worsts, Recent) + SumOf(Hands, Asking) <= Budget + Overrun /\ Budget + Overrun \in Int
  BY OverrunType DEF BudgetInv, Bounded
<1>5. Spent = SumOf(Costs, Recent)
  BY SpentIs
<1> QED
  BY <1>2, <1>3, <1>4, <1>5

\* Whatever calls overlap, for any number of them, and whatever fails: while
\* the ledger misses no spend, what left in the last day is over the budget by
\* no more than one transfer of each other call and the fees.
THEOREM OverrunIsBounded == FundSpec => []BoundedOverrun
<1> QED
  BY InvInit, InvStep, BudgetBegins, BudgetStep, BudgetSuffices, PTL DEF FundSpec

-----------------------------------------------------------------------------
(* Overfunding.  The run FundRerun shows that a call made again after an    *)
(* answer or a receipt that did not come sends twice.  As long as they all  *)
(* come, only calls that overlap do: what a call has planned for an agent   *)
(* and not seen mined is at most the target, and so is what the agent has   *)
(* when a call plans anything for it.                                       *)

\* What the call may still put into the agent's hands.
Owes(c, a) ==
  IF calls[c].pc \in {"sent", "waiting"} /\ a = calls[c].to /\ txs[calls[c].tx].status = "mined"
    THEN 0
    ELSE calls[c].plan[a]

Owed(a) == [c \in Calls |-> Owes(c, a)]

Room == \A a \in Agents : balance[a] + SumOf(Owed(a), Calls) <= Cardinality(Calls) * Target

\* A transfer on its way is in the hand of the call that sent it.
OnItsWay ==
  \A k \in DOMAIN txs :
    txs[k].status = "pending"
      => \E c \in Calls : calls[c].pc \in {"sent", "waiting"} /\ calls[c].tx = k /\ calls[c].to = txs[k].to

\* The receipts and the answers come.
AllCome == Faults \cap {"lost", "timeout"} = {}

\* No agent ever holds more than one target for each call that may run beside
\* the others.
NoMoreThanOneEach == \A a \in Agents : balance[a] <= Cardinality(Calls) * Target

\* What is owed is a number.
LEMMA OwesType ==
  ASSUME IInv, NEW a \in Agents, NEW c \in Calls
  PROVE  /\ Owes(c, a) \in Nat /\ Owed(a)[c] = Owes(c, a)
         /\ calls[c].plan[a] \in Nat /\ Owes(c, a) <= calls[c].plan[a]
<1>1. calls[c].plan[a] \in Nat
  BY DEF IInv, FundTypeOK, CallTypes
<1>2. Owes(c, a) \in {0, calls[c].plan[a]}
  BY DEF Owes
<1> QED
  BY <1>1, <1>2 DEF Owed

OwesTyped ==
  /\ \A a \in Agents : balance[a] \in Nat
  /\ \A a \in Agents : \A c \in Calls : Owes(c, a) \in Nat /\ Owed(a)[c] = Owes(c, a)

LEMMA OwesAre == IInv => OwesTyped
<1> SUFFICES ASSUME IInv PROVE OwesTyped
  OBVIOUS
<1>1. \A a \in Agents : balance[a] \in Nat
  BY DEF IInv, FundTypeOK
<1> QED
  BY <1>1, OwesType DEF OwesTyped

LEMMA OwesNext == IInv' => OwesTyped'
  BY OwesAre, PTL

\* The limit is a number, and one call's share of it is the target.
LEMMA Shares ==
  /\ IsFiniteSet(Calls) /\ Target \in Nat
  /\ Cardinality(Calls) * Target \in Nat
  /\ \A c \in Calls : /\ IsFiniteSet(Calls \ {c})
                      /\ Cardinality(Calls \ {c}) * Target + Target = Cardinality(Calls) * Target
                      /\ Cardinality(Calls \ {c}) * Target \in Nat
<1>1. IsFiniteSet(Calls) /\ Target \in Nat /\ Cardinality(Calls) \in Nat
  BY FundAssumption, FS_CardinalityType
<1>2. Cardinality(Calls) * Target \in Nat
  BY <1>1
<1>3. ASSUME NEW c \in Calls
      PROVE  /\ IsFiniteSet(Calls \ {c})
             /\ Cardinality(Calls \ {c}) * Target + Target = Cardinality(Calls) * Target
             /\ Cardinality(Calls \ {c}) * Target \in Nat
  <2>1. IsFiniteSet(Calls \ {c}) /\ Cardinality(Calls \ {c}) = Cardinality(Calls) - 1
    BY <1>1, FS_RemoveElement
  <2>2. Cardinality(Calls \ {c}) \in Nat
    BY <2>1, FS_CardinalityType
  <2> DEFINE n == Cardinality(Calls \ {c})
  <2>3. Cardinality(Calls) = n + 1 /\ n \in Nat
    BY <1>1, <2>1, <2>2
  <2> HIDE DEF n
  <2>4. n * Target + Target = (n + 1) * Target /\ n * Target \in Nat
    BY <1>1, <2>3
  <2> QED
    BY <2>1, <2>3, <2>4 DEF n
<1> QED
  BY <1>1, <1>2, <1>3

\* Nobody gets or is owed more than before.
LEMMA RoomKept ==
  ASSUME IInv, IInv', Room,
         \A a \in Agents : balance'[a] <= balance[a],
         \A a \in Agents : \A c \in Calls : Owes(c, a)' <= Owes(c, a)
  PROVE  Room'
<1> SUFFICES ASSUME NEW a \in Agents
             PROVE  balance'[a] + SumOf(Owed(a)', Calls) <= Cardinality(Calls) * Target
  BY DEF Room
<1>1. OwesTyped /\ OwesTyped'
  BY OwesAre, OwesNext
<1>2. \A c \in Calls : Owed(a)[c] \in Nat /\ Owed(a)'[c] \in Nat /\ Owed(a)'[c] <= Owed(a)[c]
  BY <1>1 DEF OwesTyped
<1> DEFINE f == Owed(a)'
           g == Owed(a)
<1>3. \A c \in Calls : g[c] \in Nat /\ f[c] \in Nat /\ f[c] <= g[c]
  BY <1>2
<1>4. balance[a] + SumOf(g, Calls) <= Cardinality(Calls) * Target
  BY DEF Room
<1>5. balance[a] \in Nat /\ balance'[a] \in Nat /\ balance'[a] <= balance[a]
  BY <1>1 DEF OwesTyped
<1> HIDE DEF f, g
<1>6. SumOf(f, Calls) <= SumOf(g, Calls) /\ SumOf(f, Calls) \in Nat /\ SumOf(g, Calls) \in Nat
  BY <1>3, Shares, SumLess, SumType
<1>7. balance'[a] + SumOf(f, Calls) <= Cardinality(Calls) * Target
  BY <1>4, <1>5, <1>6, Shares
<1> QED
  BY <1>7 DEF f

\* A call that leaves its place leaves what the others owe and have sent.
LEMMA OthersOwe ==
  ASSUME NEW c \in Calls, \A d \in Calls \ {c} : calls'[d] = calls[d],
         \A d \in Calls \ {c} : calls[d].pc \in {"sent", "waiting"} => txs'[calls[d].tx] = txs[calls[d].tx]
  PROVE  \A a \in Agents : \A d \in Calls \ {c} : Owes(d, a)' = Owes(d, a)
  BY DEF Owes

\* On to the next transfer, or the end.
LEMMA LegOwes ==
  ASSUME IInv, NEW c \in Calls, NEW plan \in [Agents -> Nat], NEW ledger, NextLeg(c, plan, ledger), txs' = txs
  PROVE  /\ \A a \in Agents : \A d \in Calls \ {c} : Owes(d, a)' = Owes(d, a)
         /\ \A a \in Agents : Owes(c, a)' <= plan[a]
         /\ \A d \in Calls \ {c} : calls'[d] = calls[d]
<1>1. calls \in [Calls -> CallTypes]
  BY DEF IInv, FundTypeOK
<1>2. /\ \A d \in Calls \ {c} : calls'[d] = calls[d]
      /\ calls'[c].pc \in {"idle", "guards"}
  BY <1>1, LegType
<1>3. \A a \in Agents : Owes(c, a)' = calls'[c].plan[a]
  BY <1>2 DEF Owes
<1>4. \A a \in Agents : calls'[c].plan[a] <= plan[a]
  <2>1. CASE Ends(c)
    BY <1>1, <2>1 DEF Ends, IdleCall, NoPlan
  <2>2. ASSUME NEW b, calls' = [calls EXCEPT ![c] = [pc |-> "guards", plan |-> plan, to |-> b, tx |-> NoTx]]
        PROVE  \A a \in Agents : calls'[c].plan[a] <= plan[a]
    BY <1>1, <2>2
  <2> QED
    BY <2>1, <2>2 DEF NextLeg
<1> QED
  BY <1>2, <1>3, <1>4, OthersOwe

\* A call plans: what it plans for an agent lifts the agent to the target, and
\* each of the others owes at most the target.
LEMMA FundHasRoom ==
  ASSUME IInv, IInv', PlansFit, PlansFit', Room, OnItsWay, NEW c \in Calls, Fund(c)
  PROVE  Room' /\ OnItsWay'
<1>1. /\ calls[c].pc = "idle" /\ NextLeg(c, Plan, entries)
      /\ txs' = txs /\ balance' = balance
  BY DEF Fund
<1>2. balance \in [Agents -> Nat] /\ Plan \in [Agents -> Nat]
  BY PlanType DEF IInv, FundTypeOK
<1>3. /\ \A a \in Agents : \A d \in Calls \ {c} : Owes(d, a)' = Owes(d, a)
      /\ \A a \in Agents : Owes(c, a)' <= Plan[a]
      /\ \A d \in Calls \ {c} : calls'[d] = calls[d]
  BY <1>1, <1>2, LegOwes
<1>4. OnItsWay'
  BY <1>1, <1>3 DEF OnItsWay
<1>5. ASSUME NEW a \in Agents PROVE balance'[a] + SumOf(Owed(a)', Calls) <= Cardinality(Calls) * Target
  <2> DEFINE f == Owed(a)'
             g == Owed(a)
  <2>1. OwesTyped /\ OwesTyped'
    BY OwesAre, OwesNext
  <2>2. /\ \A d \in Calls : f[d] \in Nat /\ g[d] \in Nat
        /\ \A d \in Calls \ {c} : f[d] = g[d]
        /\ f[c] <= Plan[a]
    BY <1>3, <2>1 DEF OwesTyped
  <2>3. ASSUME NEW d \in Calls \ {c} PROVE f[d] \in Nat /\ f[d] <= Target
    <3>1. Owes(d, a) \in Nat /\ Owes(d, a) <= calls[d].plan[a] /\ calls[d].plan[a] \in Nat
      BY OwesType
    <3>2. calls[d].plan[a] <= Target
      BY DEF PlansFit
    <3>3. f[d] = Owes(d, a)
      BY <1>3, <2>1 DEF OwesTyped
    <3> HIDE DEF f, g
    <3> QED
      BY <3>1, <3>2, <3>3, Shares
  <2>4. balance[a] + SumOf(g, Calls) <= Cardinality(Calls) * Target
    BY DEF Room
  <2>5. balance[a] \in Nat /\ balance'[a] = balance[a]
    BY <1>1, <1>2
  <2> HIDE DEF f, g
  <2>6. CASE balance[a] < Target
    <3>1. Plan[a] = Target - balance[a]
      BY <2>6 DEF Plan
    <3>2. /\ SumOf(f, Calls) = f[c] + SumOf(f, Calls \ {c})
          /\ SumOf(f, Calls \ {c}) \in Nat
      BY <2>2, Shares, SumWithout
    <3>3. SumOf(f, Calls \ {c}) <= Cardinality(Calls \ {c}) * Target
      BY <2>3, Shares, SumOfSmall
    <3> DEFINE rest == SumOf(f, Calls \ {c})
               most == Cardinality(Calls \ {c}) * Target
    <3>4. /\ SumOf(f, Calls) = f[c] + rest /\ rest \in Nat /\ rest <= most /\ most \in Nat
          /\ most + Target = Cardinality(Calls) * Target /\ Target \in Nat
          /\ f[c] \in Nat /\ f[c] <= Target - balance[a]
      BY <2>2, <3>1, <3>2, <3>3, Shares
    <3> HIDE DEF rest, most
    <3>5. balance'[a] + SumOf(f, Calls) <= Cardinality(Calls) * Target
      BY <2>5, <3>4
    <3> QED
      BY <3>5 DEF f
  <2>7. CASE balance[a] >= Target
    <3>1. Plan[a] = 0
      BY <2>5, <2>7, Shares DEF Plan
    <3>2. \A d \in Calls : f[d] <= g[d]
      BY <2>2, <3>1
    <3>3. SumOf(f, Calls) <= SumOf(g, Calls) /\ SumOf(f, Calls) \in Nat /\ SumOf(g, Calls) \in Nat
      BY <2>2, <3>2, Shares, SumLess, SumType
    <3>4. balance'[a] + SumOf(f, Calls) <= Cardinality(Calls) * Target
      BY <2>4, <2>5, <3>3, Shares
    <3> QED
      BY <3>4 DEF f
  <2> QED
    BY <2>5, <2>6, <2>7, Shares
<1> QED
  BY <1>4, <1>5 DEF Room

\* A call that ends before it has sent.
LEMMA EndHasRoom ==
  ASSUME IInv, IInv', Room, OnItsWay, NEW c \in Calls, calls[c].pc = "guards", Ends(c),
         txs' = txs, balance' = balance
  PROVE  Room' /\ OnItsWay'
<1>1. /\ \A d \in Calls \ {c} : calls'[d] = calls[d]
      /\ calls'[c] = IdleCall
  BY DEF Ends, IInv, FundTypeOK
<1>2. \A a \in Agents : \A d \in Calls \ {c} : Owes(d, a)' = Owes(d, a)
  BY <1>1, OthersOwe
<1>3. \A a \in Agents : Owes(c, a)' = 0
  BY <1>1 DEF Owes, IdleCall, NoPlan
<1>4. OwesTyped
  BY OwesAre
<1>5. \A a \in Agents : \A d \in Calls : Owes(d, a)' <= Owes(d, a)
  BY <1>2, <1>3, <1>4 DEF OwesTyped
<1>6. \A a \in Agents : balance'[a] <= balance[a]
  BY <1>4 DEF OwesTyped
<1>7. OnItsWay'
  BY <1>1 DEF OnItsWay
<1> QED
  BY <1>5, <1>6, <1>7, RoomKept

\* What is sent is owed until it is mined.
LEMMA SendHasRoom ==
  ASSUME IInv, IInv', Room, OnItsWay, NEW c \in Calls, Send(c)
  PROVE  Room' /\ OnItsWay'
<1> DEFINE n == Len(txs) + 1
<1>1. /\ calls[c].pc = "guards" /\ balance' = balance
      /\ txs \in Seq(Transfers) /\ calls \in [Calls -> CallTypes]
  BY DEF Send, IInv, FundTypeOK
<1>2. /\ DOMAIN txs = 1..Len(txs) /\ Len(txs) \in Nat
      /\ DOMAIN txs' = 1..n
      /\ \A k \in DOMAIN txs : txs'[k] = txs[k]
      /\ txs'[n].status = "pending" /\ txs'[n].to = calls[c].to
  BY <1>1 DEF Send
<1>3. /\ \A d \in Calls \ {c} : calls'[d] = calls[d]
      /\ calls'[c] = [pc |-> "sent", plan |-> calls[c].plan, to |-> calls[c].to, tx |-> n]
  BY <1>1 DEF Send
<1> HIDE DEF n
<1>4. \A d \in Calls \ {c} : calls[d].pc \in {"sent", "waiting"} => txs'[calls[d].tx] = txs[calls[d].tx]
  BY <1>2 DEF IInv, InHand
<1>5. \A a \in Agents : \A d \in Calls \ {c} : Owes(d, a)' = Owes(d, a)
  BY <1>3, <1>4, OthersOwe
<1>6. \A a \in Agents : Owes(c, a)' = Owes(c, a)
  BY <1>1, <1>2, <1>3 DEF Owes
<1>7. OwesTyped
  BY OwesAre
<1>8. \A a \in Agents : balance'[a] <= balance[a] /\ \A d \in Calls : Owes(d, a)' <= Owes(d, a)
  BY <1>1, <1>5, <1>6, <1>7 DEF OwesTyped
<1>9. OnItsWay'
  <2> SUFFICES ASSUME NEW k \in DOMAIN txs', txs'[k].status = "pending"
               PROVE  \E d \in Calls : /\ calls'[d].pc \in {"sent", "waiting"} /\ calls'[d].tx = k
                                       /\ calls'[d].to = txs'[k].to
    BY DEF OnItsWay
  <2>1. CASE k = n
    BY <1>2, <1>3, <2>1
  <2>2. CASE k # n
    <3>1. k \in DOMAIN txs /\ txs'[k] = txs[k]
      BY <1>2, <2>2 DEF n
    <3>2. PICK d \in Calls : calls[d].pc \in {"sent", "waiting"} /\ calls[d].tx = k /\ calls[d].to = txs[k].to
      BY <3>1 DEF OnItsWay
    <3> QED
      BY <1>1, <1>3, <3>1, <3>2
  <2> QED
    BY <2>1, <2>2
<1> QED
  BY <1>8, <1>9, RoomKept

LEMMA AnswerHasRoom ==
  ASSUME IInv, IInv', Room, OnItsWay, NEW c \in Calls, Answered(c)
  PROVE  Room' /\ OnItsWay'
<1>1. /\ calls[c].pc = "sent" /\ calls' = [calls EXCEPT ![c].pc = "waiting"]
      /\ txs' = txs /\ balance' = balance /\ calls \in [Calls -> CallTypes]
  BY DEF Answered, IInv, FundTypeOK
<1>2. /\ \A d \in Calls \ {c} : calls'[d] = calls[d]
      /\ calls'[c] = [calls[c] EXCEPT !.pc = "waiting"]
  BY <1>1
<1>3. calls'[c].pc = "waiting" /\ calls'[c].plan = calls[c].plan /\ calls'[c].to = calls[c].to /\ calls'[c].tx = calls[c].tx
  BY <1>1, <1>2 DEF CallTypes
<1>4. \A a \in Agents : \A d \in Calls : Owes(d, a)' = Owes(d, a)
  BY <1>1, <1>2, <1>3 DEF Owes
<1>5. OwesTyped
  BY OwesAre
<1>6. \A a \in Agents : balance'[a] <= balance[a] /\ \A d \in Calls : Owes(d, a)' <= Owes(d, a)
  BY <1>1, <1>4, <1>5 DEF OwesTyped
<1>7. OnItsWay'
  BY <1>1, <1>2, <1>3 DEF OnItsWay
<1> QED
  BY <1>6, <1>7, RoomKept

\* A call goes on when its transfer is mined.
LEMMA ReceiptHasRoom ==
  ASSUME IInv, IInv', Room, OnItsWay, NEW c \in Calls, Receipt(c)
  PROVE  Room' /\ OnItsWay'
<1> DEFINE plan == [calls[c].plan EXCEPT ![calls[c].to] = 0]
<1>1. PICK ledger : NextLeg(c, plan, ledger)
  BY Zenon DEF Receipt
<1>2. /\ calls[c].pc = "waiting" /\ txs[calls[c].tx].status = "mined"
      /\ txs' = txs /\ balance' = balance
      /\ calls[c] \in CallTypes
  BY DEF Receipt, IInv, FundTypeOK
<1>3. /\ plan \in [Agents -> Nat] /\ plan[calls[c].to] = 0 /\ calls[c].to \in Agents
      /\ \A a \in Agents : a # calls[c].to => plan[a] = calls[c].plan[a]
  BY <1>2 DEF CallTypes, IInv, InHand
<1> HIDE DEF plan
<1>4. /\ \A a \in Agents : \A d \in Calls \ {c} : Owes(d, a)' = Owes(d, a)
      /\ \A a \in Agents : Owes(c, a)' <= plan[a]
      /\ \A d \in Calls \ {c} : calls'[d] = calls[d]
  BY <1>1, <1>2, <1>3, LegOwes
<1>5. \A a \in Agents : Owes(c, a) = plan[a]
  BY <1>2, <1>3 DEF Owes
<1>6. OwesTyped
  BY OwesAre
<1>7. \A a \in Agents : balance'[a] <= balance[a] /\ \A d \in Calls : Owes(d, a)' <= Owes(d, a)
  BY <1>2, <1>4, <1>5, <1>6 DEF OwesTyped
<1>8. OnItsWay'
  BY <1>2, <1>4 DEF OnItsWay
<1> QED
  BY <1>7, <1>8, RoomKept

\* What is mined is owed no longer.
LEMMA MineHasRoom ==
  ASSUME IInv, IInv', Room, OnItsWay, NEW k \in DOMAIN txs, Mine(k)
  PROVE  Room' /\ OnItsWay'
<1>1. PICK fee \in Fees : txs' = [txs EXCEPT ![k] = Mined(txs[k], fee)]
  BY DEF Mine
<1>2. /\ txs[k].status = "pending" /\ calls' = calls
      /\ balance' = [balance EXCEPT ![txs[k].to] = @ + txs[k].value]
      /\ txs \in Seq(Transfers) /\ balance \in [Agents -> Nat]
  BY DEF Mine, IInv, FundTypeOK
<1>3. /\ DOMAIN txs' = DOMAIN txs
      /\ \A j \in DOMAIN txs : j # k => txs'[j] = txs[j]
      /\ txs'[k].status = "mined"
      /\ txs[k].to \in Agents /\ txs[k].value \in Nat
  <2>1. txs[k] \in Transfers
    BY <1>2
  <2> QED
    BY <1>1, <1>2, <2>1 DEF Mined, Transfers
<1>4. PICK c \in Calls : calls[c].pc \in {"sent", "waiting"} /\ calls[c].tx = k /\ calls[c].to = txs[k].to
  BY <1>2 DEF OnItsWay
<1>5. calls[c].plan[txs[k].to] = txs[k].value
  BY <1>4 DEF IInv, InHand, Value
<1>6. \A a \in Agents : \A d \in Calls : Owes(d, a)' <= Owes(d, a)
  <2> SUFFICES ASSUME NEW a \in Agents, NEW d \in Calls PROVE Owes(d, a)' <= Owes(d, a)
    OBVIOUS
  <2>1. /\ Owes(d, a) \in Nat /\ Owes(d, a) <= calls[d].plan[a]
        /\ calls[d].plan[a] \in Nat
    BY OwesType
  <2>2. CASE calls[d].pc \in {"sent", "waiting"}
    <3>1. calls[d].tx \in DOMAIN txs
      BY <2>2 DEF IInv, InHand
    <3>2. txs[calls[d].tx].status = "mined" => txs'[calls[d].tx].status = "mined"
      BY <1>2, <1>3, <3>1
    <3>3. Owes(d, a)' = Owes(d, a) \/ Owes(d, a)' = 0
      BY <1>2, <3>2 DEF Owes
    <3> QED
      BY <2>1, <3>3
  <2>3. CASE calls[d].pc \notin {"sent", "waiting"}
    BY <1>2, <2>1, <2>3 DEF Owes
  <2> QED
    BY <2>2, <2>3
<1>7. \A a \in Agents : a = txs[k].to => Owes(c, a) = txs[k].value /\ Owes(c, a)' = 0
  BY <1>2, <1>3, <1>4, <1>5 DEF Owes
<1>8. ASSUME NEW a \in Agents PROVE balance'[a] + SumOf(Owed(a)', Calls) <= Cardinality(Calls) * Target
  <2> DEFINE f == Owed(a)'
             g == Owed(a)
  <2>1. OwesTyped /\ OwesTyped'
    BY OwesAre, OwesNext
  <2>2. \A d \in Calls : f[d] \in Nat /\ g[d] \in Nat /\ f[d] <= g[d]
    BY <1>6, <2>1 DEF OwesTyped
  <2>3. a = txs[k].to => g[c] = txs[k].value /\ f[c] = 0
    BY <1>7, <2>1 DEF OwesTyped
  <2>4. balance[a] + SumOf(g, Calls) <= Cardinality(Calls) * Target
    BY DEF Room
  <2>5. balance[a] \in Nat /\ balance'[a] = IF a = txs[k].to THEN balance[a] + txs[k].value ELSE balance[a]
    BY <1>2
  <2> HIDE DEF f, g
  <2>6. /\ SumOf(f, Calls) = f[c] + SumOf(f, Calls \ {c}) /\ SumOf(f, Calls \ {c}) \in Nat
        /\ SumOf(g, Calls) = g[c] + SumOf(g, Calls \ {c}) /\ SumOf(g, Calls \ {c}) \in Nat
    BY <2>2, Shares, SumWithout
  <2>7. SumOf(f, Calls \ {c}) <= SumOf(g, Calls \ {c})
    BY <2>2, Shares, SumLess
  <2>8. f[c] \in Nat /\ g[c] \in Nat /\ f[c] <= g[c]
    BY <2>2
  <2>9. balance'[a] + SumOf(f, Calls) <= balance[a] + SumOf(g, Calls)
    BY <1>3, <2>3, <2>5, <2>6, <2>7, <2>8
  <2>10. SumOf(f, Calls) \in Nat /\ SumOf(g, Calls) \in Nat /\ balance'[a] \in Nat
    BY <1>3, <2>5, <2>6, <2>8
  <2>11. balance'[a] + SumOf(f, Calls) <= Cardinality(Calls) * Target
    BY <2>4, <2>5, <2>9, <2>10, Shares
  <2> QED
    BY <2>11 DEF f
<1>9. OnItsWay'
  <2> SUFFICES ASSUME NEW j \in DOMAIN txs', txs'[j].status = "pending"
               PROVE  \E d \in Calls : /\ calls'[d].pc \in {"sent", "waiting"} /\ calls'[d].tx = j
                                       /\ calls'[d].to = txs'[j].to
    BY DEF OnItsWay
  <2>1. j \in DOMAIN txs /\ j # k /\ txs'[j] = txs[j]
    BY <1>3
  <2> QED
    BY <1>2, <2>1 DEF OnItsWay
<1> QED
  BY <1>8, <1>9 DEF Room

\* The rest of the world takes from an agent at most.
LEMMA OthersHaveRoom ==
  ASSUME IInv, IInv', Room, OnItsWay, (\E a \in Agents : AgentSpends(a)) \/ Tick \/ UNCHANGED fundVars
  PROVE  Room' /\ OnItsWay'
<1>1. txs' = txs /\ calls' = calls
  BY DEF AgentSpends, Tick, fundVars
<1>2. OwesTyped
  BY OwesAre
<1>3. \A a \in Agents : balance'[a] <= balance[a]
  <2>1. ASSUME NEW b \in Agents, AgentSpends(b) PROVE \A a \in Agents : balance'[a] <= balance[a]
    <3>1. balance' = [balance EXCEPT ![b] = @ - Gas] /\ balance \in [Agents -> Nat]
      BY <2>1 DEF AgentSpends, IInv, FundTypeOK
    <3> QED
      BY <3>1, FundAssumption
  <2>2. CASE Tick \/ UNCHANGED fundVars
    BY <1>2, <2>2 DEF Tick, fundVars, OwesTyped
  <2> QED
    BY <2>1, <2>2
<1>4. \A a \in Agents : \A d \in Calls : Owes(d, a)' <= Owes(d, a)
  BY <1>1, <1>2 DEF Owes, OwesTyped
<1>5. OnItsWay'
  BY <1>1 DEF OnItsWay
<1> QED
  BY <1>3, <1>4, <1>5, RoomKept

RoomInv == IInv /\ BudgetInv /\ Room /\ OnItsWay

LEMMA RoomStep ==
  ASSUME AllCome
  PROVE  RoomInv /\ [FundNext]_fundVars => RoomInv'
<1> SUFFICES ASSUME RoomInv, [FundNext]_fundVars PROVE RoomInv'
  OBVIOUS
<1>0. /\ IInv /\ IInv' /\ BudgetInv /\ BudgetInv' /\ Room /\ OnItsWay
      /\ PlansFit /\ PlansFit'
  BY InvStep, BudgetStep DEF RoomInv, BudgetInv
<1>1. ASSUME NEW c \in Calls, CallStep(c) PROVE Room' /\ OnItsWay'
  <2>1. ~ AnswerLost(c) /\ ~ WaitFails(c)
    BY DEF AllCome, AnswerLost, WaitFails
  <2>2. CASE GuardsRefuse(c) \/ Rejected(c)
    <3>1. calls[c].pc = "guards" /\ Ends(c) /\ txs' = txs /\ balance' = balance
      BY <2>2 DEF GuardsRefuse, Rejected
    <3> QED
      BY <1>0, <3>1, EndHasRoom
  <2> QED
    BY <1>0, <1>1, <2>1, <2>2, FundHasRoom, SendHasRoom, AnswerHasRoom, ReceiptHasRoom DEF CallStep
<1>2. Room' /\ OnItsWay'
  BY <1>0, <1>1, MineHasRoom, OthersHaveRoom DEF FundNext
<1> QED
  BY <1>0, <1>2 DEF RoomInv

LEMMA RoomBegins == FundInit => RoomInv
<1> SUFFICES ASSUME FundInit PROVE RoomInv
  OBVIOUS
<1>1. IInv /\ BudgetInv
  BY InvInit, BudgetBegins
<1>2. OnItsWay
  BY DEF FundInit, OnItsWay
<1>3. ASSUME NEW a \in Agents PROVE balance[a] + SumOf(Owed(a), Calls) <= Cardinality(Calls) * Target
  <2> DEFINE g == Owed(a)
  <2>1. balance[a] = 0 /\ \A c \in Calls : g[c] = 0
    BY DEF FundInit, IdleCall, NoPlan, Owed, Owes
  <2> HIDE DEF g
  <2>2. SumOf(g, Calls) <= Cardinality(Calls) * 0 /\ SumOf(g, Calls) \in Nat
    BY <2>1, Shares, SumOfSmall, SumType
  <2>3. Cardinality(Calls) * 0 = 0
    BY Shares, FS_CardinalityType
  <2>4. balance[a] + SumOf(g, Calls) <= Cardinality(Calls) * Target
    BY <2>1, <2>2, <2>3, Shares
  <2> QED
    BY <2>4 DEF g
<1> QED
  BY <1>1, <1>2, <1>3 DEF RoomInv, Room

LEMMA RoomSuffices == RoomInv => NoMoreThanOneEach
<1> SUFFICES ASSUME RoomInv, NEW a \in Agents PROVE balance[a] <= Cardinality(Calls) * Target
  BY DEF NoMoreThanOneEach
<1> DEFINE g == Owed(a)
<1>1. balance[a] \in Nat /\ \A c \in Calls : g[c] \in Nat
  BY OwesAre DEF RoomInv, OwesTyped
<1>2. balance[a] + SumOf(g, Calls) <= Cardinality(Calls) * Target
  BY DEF RoomInv, Room
<1> HIDE DEF g
<1>3. SumOf(g, Calls) \in Nat
  BY <1>1, Shares, SumType
<1> QED
  BY <1>1, <1>2, <1>3, Shares

\* Top-ups, re-run as often as the caller likes: when every broadcast is
\* answered and every receipt comes, calls that overlap leave an agent with no
\* more than one target for each of them, whatever is refused or not recorded.
THEOREM OverlapsOverfundLittle ==
  ASSUME AllCome
  PROVE  FundSpec => []NoMoreThanOneEach
<1>1. RoomInv /\ [FundNext]_fundVars => RoomInv'
  BY RoomStep
<1> QED
  BY <1>1, RoomBegins, RoomSuffices, PTL DEF FundSpec

\* So re-running is safe, as the tool's description says, for one call at a
\* time whose answers and receipts come.  FundRerun shows the other case.
THEOREM RerunningIsSafe ==
  ASSUME AllCome, Cardinality(Calls) = 1
  PROVE  FundSpec => []NeverOverfunded
<1>1. 1 * Target = Target
  BY FundAssumption
<1>2. NoMoreThanOneEach => NeverOverfunded
  BY <1>1 DEF NoMoreThanOneEach, NeverOverfunded
<1>3. FundSpec => []NoMoreThanOneEach
  BY OverlapsOverfundLittle
<1> QED
  BY <1>2, <1>3, PTL
=============================================================================
