----------------------------- MODULE FundBudget -----------------------------
(***************************************************************************)
(* dexe_agents_fund (src/src/tools/agents.ts) over the agent ledger        *)
(* (src/src/lib/agentLedger.ts): a confirmed call tops up agent wallets    *)
(* one transfer after the other, each checked against what the ledger      *)
(* says the last day has cost.                                             *)
(*                                                                         *)
(* An action is one run of the event loop between two awaits of a call, or *)
(* a step of the chain.  A read or a mutation of the ledger is one step:   *)
(* StateStore models how it is made so.  The calls may run in one process  *)
(* or in several: the broadcast lock orders the sends only, and the budget *)
(* is checked outside of it.                                               *)
(*                                                                         *)
(* The coin is the native one.  An ERC20 transfer takes the same steps, at *)
(* no cost to the budget but its gas.                                      *)
(*                                                                         *)
(* A definition marked "faulty" is a bug the properties must notice; the   *)
(* specification does not use it.                                          *)
(***************************************************************************)
EXTENDS Integers, Sequences, FiniteSets, FiniteSetsExt

CONSTANTS
  Calls,      \* calls of dexe_agents_fund
  Agents,     \* the keyring
  Nobody,
  Target,     \* the amount every agent shall have
  Budget,     \* SWARM_DAILY_BNB_BUDGET
  Gas,        \* the most a transfer's fee may be: gasLimit times price
  Fees,       \* what it may be in the end
  BudgetWindow,  \* DAY_MS
  Cap,        \* maxLedgerEntries()
  Faults,     \* what may go wrong
  MaxOps,     \* bound: calls made and broadcasts of the agents
  MaxTime     \* bound of the clock

\* "rejected": the node refuses a transaction.  "lost": it takes one and the
\* answer is lost.  "timeout": the receipt does not come in time.  "nowrite":
\* the ledger cannot be written.
ASSUME FundFaultAssumption == Faults \subseteq {"rejected", "lost", "timeout", "nowrite"}

ASSUME FundAssumption ==
  /\ IsFiniteSet(Calls) /\ Calls # {}
  /\ Nobody \notin Agents /\ Target \in Nat \ {0} /\ Budget \in Nat
  /\ Gas \in Nat /\ Fees \subseteq 0..Gas
  /\ BudgetWindow \in Nat /\ Cap \in Nat \ {0}
  /\ MaxOps \in Nat /\ MaxTime \in Nat

VARIABLES
  balance,   \* agent |-> its coins, as mined
  txs,       \* the transfers a node took: [to, value, at, status, fee]
  entries,   \* the ledger, newest first: [tx, at, outcome, value, gas]
  calls,     \* call |-> [pc, plan, to, tx]: plan is agent |-> p.send, 0 if none
  now, ops,
  blind      \* history: the ledger dropped or missed a spend it should count

fundVars == <<balance, txs, entries, calls, now, ops, blind>>

NoTx == 0   \* not a transfer of dexe_agents_fund
NoPlan == [a \in Agents |-> 0]
IdleCall == [pc |-> "idle", plan |-> NoPlan, to |-> Nobody, tx |-> NoTx]

Transfers == [to : Agents, value : Nat, at : Nat, status : {"pending", "mined"}, fee : 0..Gas]
Records == [tx : Nat, at : Nat, outcome : {"broadcast", "confirmed", "failed"}, value : Nat, gas : Nat]
CallTypes == [pc : {"idle", "guards", "sent", "waiting"},
              plan : [Agents -> Nat], to : Agents \cup {Nobody}, tx : Nat]

FundTypeOK ==
  /\ txs \in Seq(Transfers)
  /\ entries \in Seq(Records)
  /\ balance \in [Agents -> Nat]
  /\ calls \in [Calls -> CallTypes]
  /\ now \in Nat

FundInit ==
  /\ balance = [a \in Agents |-> 0]
  /\ txs = << >> /\ entries = << >>
  /\ calls = [c \in Calls |-> IdleCall]
  /\ now = 0 /\ ops = 0 /\ blind = FALSE

-----------------------------------------------------------------------------
(* The ledger.                                                             *)

ChargeSettled(e) == IF e.outcome = "confirmed" THEN e.value + e.gas ELSE 0   \* faulty

\* effectiveSpend(); coins sent to a wallet are never "reverted".
Charge(e) == IF e.outcome = "failed" THEN 0 ELSE e.value + e.gas

InWindow(at) == at >= now - BudgetWindow

\* spendSince()
SpendSince(ledger) ==
  MapThenSumSet(LAMBDA i : Charge(ledger[i]), {i \in DOMAIN ledger : InWindow(ledger[i].at)})

Appended(e) ==
  LET all == << e >> \o entries
  IN  SubSeq(all, 1, IF Len(all) > Cap THEN Cap ELSE Len(all))

\* The entry that does not fit any more still counted.
Forgets == Len(entries) = Cap /\ InWindow(entries[Cap].at) /\ Charge(entries[Cap]) > 0

\* mutate(); a ledger that cannot be written stays as it is.
Written(ledger) == {ledger} \cup {old \in {entries} : "nowrite" \in Faults}

\* The entry is the spend that the ledger misses.
Misses(e, ledger) == IF ledger = Appended(e) THEN Forgets ELSE Charge(e) > 0

\* record()
Record(e) ==
  \E ledger \in Written(Appended(e)) :
    /\ entries' = ledger
    /\ blind' = (blind \/ Misses(e, ledger))

Entry(k, outcome, value, gas) ==
  [tx |-> k, at |-> now, outcome |-> outcome, value |-> value, gas |-> gas]

Confirmed(e, fee) == [tx |-> e.tx, at |-> e.at, outcome |-> "confirmed", value |-> e.value, gas |-> fee]

\* settle(), by the entry's id, if it is still there.
Settled(k) ==
  [i \in DOMAIN entries |->
     IF entries[i].tx = k THEN Confirmed(entries[i], txs[k].fee) ELSE entries[i]]

-----------------------------------------------------------------------------
(* A call.                                                                 *)

\* The shortfalls.
Plan == [a \in Agents |-> IF balance[a] < Target THEN Target - balance[a] ELSE 0]

Left(plan) == {a \in Agents : plan[a] > 0}

OverBudgetBefore(cost, ledger) == SpendSince(ledger) > Budget   \* faulty

\* evaluateBudget() with the transfer's value: its fee is not known yet.
OverBudget(cost, ledger) == SpendSince(ledger) + cost > Budget

Ends(c) == calls' = [calls EXCEPT ![c] = IdleCall]

\* On to the next transfer, in whatever order the caller listed the agents, or
\* the end of the call: done, or refused.
NextLeg(c, plan, ledger) ==
  \/ Left(plan) = {} /\ Ends(c)
  \/ \E a \in Left(plan) :
       IF OverBudget(plan[a], ledger)
         THEN Ends(c)
         ELSE calls' = [calls EXCEPT ![c] = [pc |-> "guards", plan |-> plan, to |-> a, tx |-> NoTx]]

\* What the call has in hand.
Value(c) == calls[c].plan[calls[c].to]

\* The balances are read.
Fund(c) ==
  /\ calls[c].pc = "idle" /\ ops < MaxOps
  /\ ops' = ops + 1
  /\ NextLeg(c, Plan, entries)
  /\ UNCHANGED <<balance, txs, entries, now, blind>>

\* runBroadcastGuards() throws.
GuardsRefuse(c) ==
  /\ calls[c].pc = "guards"
  /\ Ends(c)
  /\ UNCHANGED <<balance, txs, entries, now, ops, blind>>

\* A node takes the transfer.
Send(c) ==
  /\ calls[c].pc = "guards"
  /\ txs' = Append(txs, [to |-> calls[c].to, value |-> Value(c), at |-> now, status |-> "pending", fee |-> 0])
  /\ calls' = [calls EXCEPT ![c] = [pc |-> "sent", plan |-> @.plan, to |-> @.to, tx |-> Len(txs) + 1]]
  /\ UNCHANGED <<balance, entries, now, ops, blind>>

\* It does not.
Rejected(c) ==
  /\ calls[c].pc = "guards" /\ "rejected" \in Faults
  /\ Record(Entry(NoTx, "failed", Value(c), 0))
  /\ Ends(c)
  /\ UNCHANGED <<balance, txs, now, ops>>

\* The answer comes, and is recorded at once.
Answered(c) ==
  /\ calls[c].pc = "sent"
  /\ Record(Entry(calls[c].tx, "broadcast", Value(c), Gas))
  /\ calls' = [calls EXCEPT ![c].pc = "waiting"]
  /\ UNCHANGED <<balance, txs, now, ops>>

\* It does not come, and is recorded as a transaction that never left.
AnswerLost(c) ==
  /\ calls[c].pc = "sent" /\ "lost" \in Faults
  /\ entries' \in Written(Appended(Entry(NoTx, "failed", Value(c), 0)))
  /\ blind' = TRUE
  /\ Ends(c)
  /\ UNCHANGED <<balance, txs, now, ops>>

\* The receipt comes: settle, and on to the next transfer.
Receipt(c) ==
  /\ calls[c].pc = "waiting" /\ txs[calls[c].tx].status = "mined"
  /\ \E ledger \in Written(Settled(calls[c].tx)) :
       /\ entries' = ledger
       /\ NextLeg(c, [calls[c].plan EXCEPT ![calls[c].to] = 0], ledger)
  /\ UNCHANGED <<balance, txs, now, ops, blind>>

\* It does not come in time.
WaitFails(c) ==
  /\ calls[c].pc = "waiting" /\ "timeout" \in Faults
  /\ Ends(c)
  /\ UNCHANGED <<balance, txs, entries, now, ops, blind>>

CallStep(c) ==
  Fund(c) \/ GuardsRefuse(c) \/ Send(c) \/ Rejected(c) \/ Answered(c) \/ AnswerLost(c) \/ Receipt(c) \/ WaitFails(c)

-----------------------------------------------------------------------------
(* The rest of the world.                                                  *)

Mined(t, fee) == [to |-> t.to, value |-> t.value, at |-> t.at, status |-> "mined", fee |-> fee]

Mine(k) ==
  /\ txs[k].status = "pending"
  /\ \E fee \in Fees :
       txs' = [txs EXCEPT ![k] = Mined(@, fee)]
  /\ balance' = [balance EXCEPT ![txs[k].to] = @ + txs[k].value]
  /\ UNCHANGED <<entries, calls, now, ops, blind>>

\* An agent broadcasts something: its gas counts as well, unchecked.
AgentSpends(a) ==
  /\ balance[a] >= Gas /\ ops < MaxOps
  /\ ops' = ops + 1
  /\ balance' = [balance EXCEPT ![a] = @ - Gas]
  /\ Record(Entry(NoTx, "broadcast", 0, Gas))
  /\ UNCHANGED <<txs, calls, now>>

Tick ==
  /\ now < MaxTime
  /\ now' = now + 1
  /\ UNCHANGED <<balance, txs, entries, calls, ops, blind>>

FundNext ==
  \/ \E c \in Calls : CallStep(c)
  \/ \E k \in DOMAIN txs : Mine(k)
  \/ \E a \in Agents : AgentSpends(a)
  \/ Tick

FundSpec == FundInit /\ [][FundNext]_fundVars

-----------------------------------------------------------------------------
(* Properties.                                                             *)

TransferCost(k) == IF txs[k].status = "mined" THEN txs[k].value + txs[k].fee ELSE 0

\* "Deliberately conservative - a budget guard that under-counts is a budget
\* guard that lets the fleet through": what the ledger knows to have left it
\* charges with at least what it cost, whatever the chain has done with it.
Conservative ==
  \A i \in DOMAIN entries :
    entries[i].tx # NoTx => Charge(entries[i]) >= TransferCost(entries[i].tx)

Spent == MapThenSumSet(TransferCost, {k \in DOMAIN txs : InWindow(txs[k].at)})

Overrun == Gas + (Cardinality(Calls) - 1) * (Target + Gas)

\* The check and the record of a transfer are several awaits apart, so calls
\* that overlap do exceed the budget: by the transfer each of the others has in
\* hand and the fees, and by no more, in every window, over any number of calls,
\* as long as the ledger misses nothing.
BoundedOverrun == ~ blind => Spent <= Budget + Overrun

\* "Top-up semantics - only the shortfall is sent, agents already at the target
\* are skipped, so re-running after a partial failure is safe."
NeverOverfunded == \A a \in Agents : balance[a] <= Target
=============================================================================
