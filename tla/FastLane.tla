------------------------------- MODULE FastLane -------------------------------
(***************************************************************************)
(* The capped payment lane of an agent treasury: contract AgentFastLane    *)
(* (src/contracts/AgentFastLane.sol).                                      *)
(*                                                                         *)
(* The lane keeps what it paid in the last Window days (30) in three       *)
(* storage fields that are updated only when it pays: the running total    *)
(* _spent, one bucket per day, and a mask of the days with a payment.      *)
(* _settle rolls them forward to today, reading only the buckets the mask  *)
(* names.  Each turn of its loop is one step here; a transaction runs      *)
(* alone, so nothing else happens between its steps.                       *)
(*                                                                         *)
(* paidThrough is a history variable: what was paid up to and including a  *)
(* day.  It says what the fields mean, and no action reads it.             *)
(*                                                                         *)
(* A definition marked "faulty" is a bug the properties must notice; the   *)
(* specification does not use it.                                          *)
(***************************************************************************)
EXTENDS Integers

CONSTANTS
  Window,       \* WINDOW_DAYS
  PaymentCap,   \* perPaymentCap
  WindowCap,    \* windowCap
  Recipients,   \* the addresses of the model
  MaxActions,   \* MAX_ACTIONS
  SettleReads,  \* VALIDATE_SETTLE_READS
  MaxDay        \* bound: the last day

ASSUME LaneAssumption ==
  /\ Window \in Nat \ {0}
  /\ PaymentCap \in Nat \ {0}
  /\ WindowCap \in Nat
  /\ PaymentCap <= WindowCap
  /\ MaxActions \in Nat \ {0}
  /\ SettleReads \in Nat
  /\ MaxDay \in Nat

VARIABLES
  today,        \* block.timestamp / 1 days
  lastDay,      \* _lastDay
  mask,         \* _mask, as the set of its bits
  spent,        \* _spent
  dayBuckets,
  allowed,      \* the recipients on the allowlist
  call,         \* the call being executed: pay or validate, in _settle
  paidThrough   \* history: everything paid on the days up to this one

storage == <<lastDay, mask, spent, dayBuckets>>
vars == <<today, storage, allowed, call, paidThrough>>

Days == 0..MaxDay
Bits == 0..(Window - 1)

NoCall == [op |-> "none", amount |-> 0, k |-> Window, reads |-> 0, acc |-> 0,
           bits |-> {}, shift |-> 0, exact |-> TRUE]

Init ==
  /\ today \in Days
  /\ lastDay = 0
  /\ mask = {}
  /\ spent = 0
  /\ dayBuckets = [d \in Days |-> 0]
  /\ allowed \in SUBSET Recipients
  /\ call = NoCall
  /\ paidThrough = [d \in Days |-> 0]

-----------------------------------------------------------------------------
(* _settle.                                                                *)

\* The index of the newest bucket that left the window.
FirstExpiredTooNew(delta) == Window - delta - 1   \* faulty: a day too new
FirstExpired(delta) == Window - delta

\* Up to its loop: nothing to roll, everything expired, or start at the
\* first expired one.
Settle(op, amount) ==
  LET delta == today - lastDay
      entry(k, acc, bits, shift) ==
        [op |-> op, amount |-> amount, k |-> k, reads |-> 0, acc |-> acc,
         bits |-> bits, shift |-> shift, exact |-> TRUE]
  IN  IF today <= lastDay THEN entry(Window, spent, mask, 0)
      ELSE IF delta >= Window \/ spent = 0 THEN entry(Window, 0, {}, 0)
      ELSE entry(FirstExpired(delta), spent, mask, delta)

InLoop == call.op # "none" /\ call.k < Window
AfterLoop(op) == call.op = op /\ call.k = Window

\* pay settles every bucket; validate reads at most SettleReads of them.
OutOfReads == call.op = "validate" /\ call.reads = SettleReads

SkipEmpty ==
  /\ InLoop
  /\ call.k \notin call.bits
  /\ call' = [call EXCEPT !.k = @ + 1]
  /\ UNCHANGED <<today, storage, allowed, paidThrough>>

Subtract ==
  /\ InLoop
  /\ call.k \in call.bits
  /\ ~ OutOfReads
  /\ call' = [call EXCEPT !.acc = @ - dayBuckets[lastDay - call.k], !.reads = @ + 1, !.k = @ + 1]
  /\ UNCHANGED <<today, storage, allowed, paidThrough>>

\* Faulty: the buckets that were not read are taken for the whole total.
StopReadingAtZero ==
  /\ InLoop
  /\ call.k \in call.bits
  /\ OutOfReads
  /\ call' = [call EXCEPT !.k = Window, !.exact = FALSE, !.acc = 0]
  /\ UNCHANGED <<today, storage, allowed, paidThrough>>

\* The early return of an inexact settle.
StopReading ==
  /\ InLoop
  /\ call.k \in call.bits
  /\ OutOfReads
  /\ call' = [call EXCEPT !.k = Window, !.exact = FALSE]
  /\ UNCHANGED <<today, storage, allowed, paidThrough>>

\* (mask << delta) & MASK_30
Shifted(bits, n) == {b \in Bits : b - n \in bits}

-----------------------------------------------------------------------------
(* The entry points.                                                       *)

\* pay up to its call of _settle; a failed require reverts without a trace.
PayStarts(to, amount) ==
  /\ call.op = "none"
  /\ to \in allowed
  /\ amount \in 1..PaymentCap
  /\ call' = Settle("pay", amount)
  /\ UNCHANGED <<today, storage, allowed, paidThrough>>

Credited(amount) == [dayBuckets EXCEPT ![today] = @ + amount]

PayCommits ==
  /\ AfterLoop("pay")
  /\ call.acc + call.amount <= WindowCap
  /\ lastDay' = today
  /\ mask' = Shifted(call.bits, call.shift) \cup {0}
  /\ spent' = call.acc + call.amount
  /\ dayBuckets' = Credited(call.amount)
  /\ paidThrough' = [d \in Days |-> IF d >= today THEN paidThrough[d] + call.amount ELSE paidThrough[d]]
  /\ call' = NoCall
  /\ UNCHANGED <<today, allowed>>

\* Over the cap, or the token transfer failed: the transaction reverts.
PayReverts ==
  /\ AfterLoop("pay")
  /\ call' = NoCall
  /\ UNCHANGED <<today, storage, allowed, paidThrough>>

\* validate of n well-formed payments to allowlisted recipients, `total` in
\* all; anything else returns false before _settle.
ValidateStarts(n, total) ==
  /\ call.op = "none"
  /\ allowed # {}
  /\ total \in n..(n * PaymentCap)
  /\ call' = Settle("validate", total)
  /\ UNCHANGED <<today, storage, allowed, paidThrough>>

Accepts == AfterLoop("validate") /\ call.acc + call.amount <= WindowCap

\* The verdict is returned; the storage is untouched.
ValidateEnds ==
  /\ AfterLoop("validate")
  /\ call' = NoCall
  /\ UNCHANGED <<today, storage, allowed, paidThrough>>

\* adminSetAllowed, through the admin child contract.
SetAllowed(r, on) ==
  /\ call.op = "none"
  /\ allowed' = IF on THEN allowed \cup {r} ELSE allowed \ {r}
  /\ UNCHANGED <<today, storage, call, paidThrough>>

\* Bound: MaxDay.
NextDay ==
  /\ call.op = "none"
  /\ today < MaxDay
  /\ today' = today + 1
  /\ UNCHANGED <<storage, allowed, call, paidThrough>>

Next ==
  \/ NextDay
  \/ SkipEmpty
  \/ Subtract
  \/ StopReading
  \/ PayCommits
  \/ PayReverts
  \/ ValidateEnds
  \/ \E to \in Recipients, amount \in 1..PaymentCap : PayStarts(to, amount)
  \/ \E n \in 1..MaxActions : \E total \in n..(n * PaymentCap) : ValidateStarts(n, total)
  \/ \E r \in Recipients, on \in BOOLEAN : SetAllowed(r, on)

Spec == Init /\ [][Next]_vars

-----------------------------------------------------------------------------
(* Properties.                                                             *)

Call == [op : {"none", "pay", "validate"}, amount : Nat, k : 0..Window, reads : Nat, acc : Int,
         bits : SUBSET Bits, shift : Nat, exact : BOOLEAN]

\* The type of the state.
TypeOK ==
  /\ today \in Days
  /\ lastDay \in Days
  /\ mask \in SUBSET Bits
  /\ spent \in Int
  /\ dayBuckets \in [Days -> Nat]
  /\ allowed \in SUBSET Recipients
  /\ call \in Call
  /\ paidThrough \in [Days -> Nat]

Through(d) == IF d < 0 THEN 0 ELSE paidThrough[d]

\* What was really paid in the Window days that end with day d.
PaidInWindow(d) == Through(d) - Through(d - Window)

\* The lane's purpose: whatever window of Window days one looks at, no more
\* than windowCap was paid in it.
RollingCap == \A d \in Days : PaidInWindow(d) <= WindowCap

\* The comment on the storage slot (AgentFastLane.sol:108): _spent is the exact
\* total of the window that ends on _lastDay, and the mask names exactly the
\* days of that window that have a payment.
StorageExact ==
  /\ spent = PaidInWindow(lastDay)
  /\ mask = {k \in Bits : lastDay - k >= 0 /\ dayBuckets[lastDay - k] # 0}

\* Nobody can be refused by pay after validate accepted the same payments on
\* the same day: "it never accepts one pay would refuse".
AcceptedIsPayable == Accepts => PaidInWindow(today) + call.amount <= WindowCap

\* validate never reverts (a reverting validate counts as allowed): the loop
\* reads only existing days and its checked subtraction never underflows.
NeverUnderflows ==
  (InLoop /\ call.k \in call.bits)
     => lastDay - call.k >= 0 /\ dayBuckets[lastDay - call.k] <= call.acc

\* pay decides on the exact spend: it refuses nothing the cap allows.
PayIsExact == AfterLoop("pay") => call.acc = PaidInWindow(today)

PastKept ==
  \A d \in Days : d < today => /\ dayBuckets'[d] = dayBuckets[d]
                               /\ paidThrough'[d] = paidThrough[d]

\* A payment that is over does not disappear: what was paid on earlier days is
\* never rewritten by a later payment or roll.
PastIsFixed == [][PastKept]_vars
==============================================================================
