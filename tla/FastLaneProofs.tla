---------------------------- MODULE FastLaneProofs ----------------------------
(***************************************************************************)
(* Proofs about FastLane, for every window, cap, allowlist and horizon.    *)
(*                                                                         *)
(* The properties are about what the storage fields and the result of      *)
(* _settle MEAN, so the inductive invariant says what they mean in terms   *)
(* of the history paidThrough:                                             *)
(*                                                                         *)
(*   HistoryOK   the history grows and is flat after the last payment;     *)
(*   BucketsOK   a bucket is the difference of two days of the history;    *)
(*   StorageExact  _spent and _mask describe the window of _lastDay;       *)
(*   RollingCap  no window of the history exceeds the cap;                 *)
(*   LoopOK      between two turns of the loop the accumulator is the      *)
(*               spend of today's window plus the expired days that are    *)
(*               still to be subtracted;                                   *)
(*   BitsOK      the shifted mask names the days of today's window.        *)
(***************************************************************************)
EXTENDS FastLane, TLAPS

HistoryOK ==
  /\ lastDay <= today
  /\ \A d, e \in Days : d <= e => paidThrough[d] <= paidThrough[e]
  /\ \A d \in Days : d >= lastDay => paidThrough[d] = paidThrough[lastDay]

BucketsOK == \A d \in Days : dayBuckets[d] = Through(d) - Through(d - 1)

CallOK ==
  /\ call.op = "none" => call.k = Window
  /\ call.op = "pay" => call.amount > 0 /\ call.exact

LoopOK ==
  /\ InLoop => /\ call.exact
               /\ call.bits = mask
               /\ call.k >= Window - (today - lastDay)
               /\ today - lastDay < Window
  /\ (call.op # "none" /\ call.exact)
       => call.acc = PaidInWindow(today) + (Through(lastDay - call.k) - Through(lastDay - Window))
  /\ (call.op # "none" /\ ~ call.exact)
       => call.k = Window /\ call.acc >= PaidInWindow(today)

BitsOK ==
  call.op # "none"
    => \A b \in Bits : b - call.shift \in call.bits <=> today - b >= 0 /\ dayBuckets[today - b] # 0

IInv == TypeOK /\ HistoryOK /\ BucketsOK /\ CallOK /\ StorageExact /\ RollingCap /\ LoopOK /\ BitsOK

-----------------------------------------------------------------------------
(* Facts about the history.                                                *)

\* The history is a growing sequence of naturals, also before day 0.
LEMMA ThroughGrows ==
  ASSUME TypeOK, HistoryOK
  PROVE  /\ \A d \in Int : d <= MaxDay => Through(d) \in Nat
         /\ \A d, e \in Int : d <= e /\ e <= MaxDay => Through(d) <= Through(e)
         /\ \A d \in Int : lastDay <= d /\ d <= MaxDay => Through(d) = Through(lastDay)
BY LaneAssumption DEF TypeOK, HistoryOK, Through, Days

\* A bucket after the last payment is empty.
LEMMA LateBucketsEmpty ==
  ASSUME TypeOK, HistoryOK, BucketsOK, NEW d \in Days, d > lastDay
  PROVE  dayBuckets[d] = 0
<1>1. d \in Int /\ d - 1 \in Int /\ d <= MaxDay /\ d - 1 <= MaxDay /\ lastDay <= d - 1 /\ lastDay <= d
  BY LaneAssumption DEF TypeOK, Days
<1>2. Through(d) = Through(lastDay) /\ Through(d - 1) = Through(lastDay)
  BY <1>1, ThroughGrows
<1>3. Through(lastDay) \in Nat
  BY ThroughGrows, LaneAssumption DEF TypeOK, Days
<1>4. dayBuckets[d] = Through(d) - Through(d - 1)
  BY DEF BucketsOK
<1> QED
  BY <1>2, <1>3, <1>4

\* A step that touches nothing but the call, the allowlist and the clock
\* (which may only advance) keeps what the storage means.
LEMMA StorageFrame ==
  ASSUME TypeOK, HistoryOK, BucketsOK, StorageExact, RollingCap,
         today' \in Days, today <= today', UNCHANGED <<storage, paidThrough>>
  PROVE  HistoryOK' /\ BucketsOK' /\ StorageExact' /\ RollingCap'
<1>1. HistoryOK'
  BY DEF HistoryOK, storage, TypeOK, Days
<1>2. BucketsOK' /\ StorageExact' /\ RollingCap'
  BY DEF BucketsOK, StorageExact, RollingCap, PaidInWindow, Through, storage
<1> QED
  BY <1>1, <1>2

-----------------------------------------------------------------------------
(* _settle up to its loop establishes the invariant of the loop.           *)

LEMMA SettleStartsLoop ==
  ASSUME IInv, NEW op \in {"pay", "validate"}, NEW amount \in Nat,
         op = "pay" => amount > 0,
         call' = Settle(op, amount), UNCHANGED <<today, storage, paidThrough>>
  PROVE  call' \in Call /\ CallOK' /\ LoopOK' /\ BitsOK'
<1> DEFINE delta == today - lastDay
<1>0. /\ today \in Nat /\ lastDay \in Nat /\ today <= MaxDay /\ lastDay <= MaxDay /\ MaxDay \in Nat
      /\ Window \in Nat /\ Window > 0 /\ lastDay <= today /\ mask \in SUBSET Bits /\ spent \in Int
  BY LaneAssumption DEF IInv, TypeOK, HistoryOK, Days
<1>1. TypeOK /\ HistoryOK /\ BucketsOK /\ StorageExact
  BY DEF IInv
<1>2. /\ \A d \in Int : d <= MaxDay => Through(d) \in Nat
      /\ \A d, e \in Int : d <= e /\ e <= MaxDay => Through(d) <= Through(e)
      /\ \A d \in Int : lastDay <= d /\ d <= MaxDay => Through(d) = Through(lastDay)
  BY <1>1, ThroughGrows
<1>3. UNCHANGED <<today, lastDay, mask, spent, dayBuckets, paidThrough>>
  BY DEF storage
<1>4. \A d \in Int : Through(d)' = Through(d)
  BY <1>3 DEF Through
<1>5. PaidInWindow(today)' = PaidInWindow(today) /\ PaidInWindow(today) = Through(today) - Through(today - Window)
  BY <1>3 DEF PaidInWindow, Through
<1>6. CASE today <= lastDay
  <2>1. call' = [op |-> op, amount |-> amount, k |-> Window, reads |-> 0, acc |-> spent,
                 bits |-> mask, shift |-> 0, exact |-> TRUE]
    BY <1>6 DEF Settle
  <2>2. call' \in Call /\ CallOK'
    BY <2>1, <1>0 DEF Call, CallOK
  <2>3. spent = PaidInWindow(today) /\ today = lastDay
    BY <1>0, <1>1, <1>6 DEF StorageExact
  <2>4. LoopOK'
    BY <2>1, <2>3, <1>0, <1>2, <1>3, <1>4, <1>5 DEF LoopOK, InLoop
  <2>5. BitsOK'
    BY <2>1, <2>3, <1>0, <1>1, <1>3 DEF BitsOK, StorageExact, Bits
  <2> QED
    BY <2>2, <2>4, <2>5
<1>7. CASE today > lastDay /\ (delta >= Window \/ spent = 0)
  <2>1. call' = [op |-> op, amount |-> amount, k |-> Window, reads |-> 0, acc |-> 0,
                 bits |-> {}, shift |-> 0, exact |-> TRUE]
    BY <1>0, <1>7 DEF Settle
  <2>2. call' \in Call /\ CallOK'
    BY <2>1, <1>0 DEF Call, CallOK
  <2>3. PaidInWindow(today) = 0
    <3>1. CASE delta >= Window
      BY <3>1, <1>0, <1>2, <1>5
    <3>2. CASE spent = 0
      <4>1. Through(lastDay) - Through(lastDay - Window) = 0
        BY <3>2, <1>1 DEF StorageExact, PaidInWindow
      <4>2. Through(today) = Through(lastDay)
        BY <1>0, <1>2
      <4>3. Through(lastDay - Window) <= Through(today - Window) /\ Through(today - Window) <= Through(today)
        BY <1>0, <1>2
      <4>4. Through(lastDay) \in Nat /\ Through(lastDay - Window) \in Nat /\ Through(today - Window) \in Nat
        BY <1>0, <1>2
      <4> QED
        BY <4>1, <4>2, <4>3, <4>4, <1>5
    <3> QED
      BY <1>7, <3>1, <3>2
  <2>4. LoopOK'
    BY <2>1, <2>3, <1>0, <1>2, <1>3, <1>4, <1>5 DEF LoopOK, InLoop
  <2>5. \A b \in Bits : today - b >= 0 => dayBuckets[today - b] = 0
    <3> SUFFICES ASSUME NEW b \in Bits, today - b >= 0
                 PROVE  dayBuckets[today - b] = 0
      OBVIOUS
    <3>1. b \in Nat /\ b < Window /\ today - b \in Days
      BY <1>0 DEF Bits, Days
    <3>2. dayBuckets[today - b] = Through(today - b) - Through(today - b - 1)
      BY <3>1, <1>1 DEF BucketsOK
    <3>3. /\ Through(today - Window) <= Through(today - b - 1)
          /\ Through(today - b - 1) <= Through(today - b)
          /\ Through(today - b) <= Through(today)
      BY <3>1, <1>0, <1>2
    <3>4. /\ Through(today - Window) \in Nat /\ Through(today - b - 1) \in Nat
          /\ Through(today - b) \in Nat /\ Through(today) \in Nat
      BY <3>1, <1>0, <1>2
    <3> QED
      BY <3>2, <3>3, <3>4, <2>3, <1>5
  <2>6. BitsOK'
    BY <2>1, <2>5, <1>0, <1>3 DEF BitsOK, Bits
  <2> QED
    BY <2>2, <2>4, <2>6
<1>8. CASE today > lastDay /\ ~ (delta >= Window \/ spent = 0)
  <2>1. call' = [op |-> op, amount |-> amount, k |-> Window - delta, reads |-> 0, acc |-> spent,
                 bits |-> mask, shift |-> delta, exact |-> TRUE]
    BY <1>0, <1>8 DEF Settle, FirstExpired
  <2>2. call' \in Call /\ CallOK'
    BY <2>1, <1>0, <1>8 DEF Call, CallOK
  <2>3. /\ spent = Through(lastDay) - Through(lastDay - Window)
        /\ Through(today) = Through(lastDay)
        /\ lastDay - (Window - delta) = today - Window
    BY <1>0, <1>1, <1>2 DEF StorageExact, PaidInWindow
  <2>4. LoopOK'
    <3>1. /\ Through(lastDay) \in Nat /\ Through(lastDay - Window) \in Nat /\ Through(today - Window) \in Nat
      BY <1>0, <1>2
    <3>2. spent = PaidInWindow(today) + (Through(today - Window) - Through(lastDay - Window))
      BY <2>3, <3>1, <1>5
    <3>3. /\ Through(lastDay - call.k)' = Through(today - Window)
          /\ Through(lastDay - Window)' = Through(lastDay - Window)
      BY <2>1, <2>3, <1>3, <1>0 DEF Through
    <3> QED
      BY <2>1, <3>2, <3>3, <1>0, <1>3, <1>5, <1>8 DEF LoopOK, InLoop
  <2>5. \A b \in Bits : b - delta \in mask <=> today - b >= 0 /\ dayBuckets[today - b] # 0
    <3> SUFFICES ASSUME NEW b \in Bits
                 PROVE  b - delta \in mask <=> today - b >= 0 /\ dayBuckets[today - b] # 0
      OBVIOUS
    <3>1. b \in Nat /\ b < Window /\ lastDay - (b - delta) = today - b
      BY <1>0 DEF Bits
    <3>2. CASE b >= delta
      <4>1. b - delta \in Bits
        BY <3>1, <3>2, <1>0, <1>8 DEF Bits
      <4> QED
        BY <4>1, <3>1, <1>1 DEF StorageExact
    <3>3. CASE b < delta
      <4>1. b - delta \notin mask
        BY <3>1, <3>3, <1>0 DEF Bits
      <4>2. today - b > lastDay /\ today - b \in Days
        BY <3>1, <3>3, <1>0 DEF Days
      <4> QED
        BY <4>1, <4>2, <1>1, LateBucketsEmpty
    <3> QED
      BY <3>1, <3>2, <3>3, <1>0
  <2>6. BitsOK'
    BY <2>1, <2>5, <1>0, <1>3 DEF BitsOK, Bits
  <2> QED
    BY <2>2, <2>4, <2>6
<1> QED
  BY <1>0, <1>6, <1>7, <1>8

-----------------------------------------------------------------------------
(* The turns of the loop.                                                  *)

LEMMA LoopTurns ==
  ASSUME IInv, SkipEmpty \/ Subtract \/ StopReading
  PROVE  call' \in Call /\ CallOK' /\ LoopOK' /\ BitsOK'
<1> DEFINE day == lastDay - call.k
<1>0. /\ today \in Nat /\ lastDay \in Nat /\ today <= MaxDay /\ lastDay <= MaxDay /\ MaxDay \in Nat
      /\ Window \in Nat /\ Window > 0 /\ lastDay <= today /\ call \in Call
      /\ mask \in SUBSET Bits /\ dayBuckets \in [Days -> Nat]
  BY LaneAssumption DEF IInv, TypeOK, HistoryOK, Days
<1>1. TypeOK /\ HistoryOK /\ BucketsOK /\ StorageExact /\ CallOK /\ LoopOK /\ BitsOK
  BY DEF IInv
<1>2. /\ \A d \in Int : d <= MaxDay => Through(d) \in Nat
      /\ \A d, e \in Int : d <= e /\ e <= MaxDay => Through(d) <= Through(e)
  BY <1>1, ThroughGrows
<1>3. UNCHANGED <<today, lastDay, mask, spent, dayBuckets, paidThrough>>
  BY DEF SkipEmpty, Subtract, StopReading, storage
<1>4. /\ InLoop /\ call.op \in {"pay", "validate"} /\ call.k \in Nat /\ call.k < Window
      /\ call.acc \in Int /\ call.reads \in Nat /\ call.shift \in Nat /\ call.exact /\ call.bits = mask
      /\ call.k >= Window - (today - lastDay)
      /\ today - lastDay < Window
  BY <1>0, <1>1 DEF SkipEmpty, Subtract, StopReading, InLoop, Call, LoopOK
<1>5. call.acc = PaidInWindow(today) + (Through(day) - Through(lastDay - Window))
  BY <1>1, <1>4 DEF LoopOK
<1>6. /\ day \in Int /\ day <= MaxDay /\ day - 1 = lastDay - (call.k + 1) /\ lastDay - Window <= day - 1
      /\ lastDay - Window \in Int /\ lastDay - Window <= MaxDay
      /\ Through(day) \in Nat /\ Through(day - 1) \in Nat /\ Through(lastDay - Window) \in Nat
      /\ Through(lastDay - Window) <= Through(day - 1) /\ Through(day - 1) <= Through(day)
  BY <1>0, <1>2, <1>4
<1>7. PaidInWindow(today) \in Int
  BY <1>0, <1>2 DEF PaidInWindow
<1>8. PaidInWindow(today)' = PaidInWindow(today)
  BY <1>3 DEF PaidInWindow, Through
<1>9. Through(lastDay - Window)' = Through(lastDay - Window)
  BY <1>3 DEF Through
<1>10. call'.bits = call.bits /\ call'.shift = call.shift /\ call'.op = call.op /\ call'.amount = call.amount
  BY <1>0 DEF SkipEmpty, Subtract, StopReading, Call
<1>11. BitsOK'
  BY <1>1, <1>3, <1>10 DEF BitsOK
<1>12. CASE SkipEmpty
  <2>1. call' = [call EXCEPT !.k = @ + 1] /\ call.k \notin mask
    BY <1>12, <1>4 DEF SkipEmpty
  <2>2. call' \in Call /\ CallOK'
    BY <2>1, <1>0, <1>1, <1>4 DEF Call, CallOK
  <2>3. Through(day) = Through(day - 1)
    <3>1. CASE day < 0
      BY <3>1, <1>6 DEF Through
    <3>2. CASE day >= 0
      <4>1. day \in Days
        BY <3>2, <1>6, LaneAssumption DEF Days
      <4>2. call.k \in Bits
        BY <1>4, LaneAssumption DEF Bits
      <4>3. dayBuckets[day] = 0
        BY <2>1, <3>2, <4>2, <1>1 DEF StorageExact
      <4>4. dayBuckets[day] = Through(day) - Through(day - 1)
        BY <4>1, <1>1 DEF BucketsOK
      <4> QED
        BY <4>3, <4>4, <1>6
    <3> QED
      BY <3>1, <3>2, <1>6
  <2>4. Through(lastDay - call.k)' = Through(day - 1)
    BY <2>1, <1>0, <1>3, <1>6 DEF Through, Call
  <2>5. call'.acc = call.acc /\ call'.k = call.k + 1 /\ call'.exact
    BY <2>1, <1>0, <1>4 DEF Call
  <2>6. LoopOK'
    BY <2>3, <2>4, <2>5, <1>0, <1>3, <1>4, <1>5, <1>8, <1>9, <1>10 DEF LoopOK, InLoop
  <2> QED
    BY <2>2, <2>6, <1>11
<1>13. CASE Subtract
  <2>1. /\ call' = [call EXCEPT !.acc = @ - dayBuckets[lastDay - call.k], !.reads = @ + 1, !.k = @ + 1]
        /\ call.k \in mask
    BY <1>13, <1>4 DEF Subtract
  <2>2. day \in Days
    BY <2>1, <1>1, <1>0, <1>4 DEF StorageExact, Days
  <2>3. dayBuckets[day] = Through(day) - Through(day - 1) /\ dayBuckets[day] \in Nat
    BY <2>2, <1>1, <1>0 DEF BucketsOK
  <2>4. call'.acc = call.acc - dayBuckets[day] /\ call'.k = call.k + 1 /\ call'.exact /\ call'.reads = call.reads + 1
    BY <2>1, <1>0, <1>4 DEF Call
  <2>5. call' \in Call /\ CallOK'
    <3>1. call.acc - dayBuckets[day] \in Int /\ call.reads + 1 \in Nat /\ call.k + 1 \in 0..Window
      BY <2>3, <1>0, <1>4
    <3>2. call' \in Call
      BY <2>1, <3>1, <1>0 DEF Call
    <3>3. CallOK'
      BY <2>4, <1>1, <1>4, <1>10 DEF CallOK
    <3> QED
      BY <3>2, <3>3
  <2>6. Through(lastDay - call.k)' = Through(day - 1)
    BY <2>1, <1>0, <1>3, <1>6 DEF Through, Call
  <2>7. call'.acc = PaidInWindow(today) + (Through(day - 1) - Through(lastDay - Window))
    BY <2>3, <2>4, <1>5, <1>6, <1>7
  <2>8. call'.acc = (PaidInWindow(today) + (Through(lastDay - call.k) - Through(lastDay - Window)))'
    BY <2>6, <2>7, <1>8, <1>9
  <2>9. LoopOK'
    BY <2>4, <2>8, <1>0, <1>3, <1>4, <1>10 DEF LoopOK, InLoop
  <2> QED
    BY <2>5, <2>9, <1>11
<1>14. CASE StopReading
  <2>1. call' = [call EXCEPT !.k = Window, !.exact = FALSE] /\ call.op = "validate"
    BY <1>14 DEF StopReading, OutOfReads
  <2>2. call'.acc = call.acc /\ call'.k = Window /\ ~ call'.exact
    BY <2>1, <1>0 DEF Call
  <2>3. call' \in Call /\ CallOK'
    <3> DEFINE stopped == [call EXCEPT !.k = Window]
    <3>1. stopped \in Call
      BY <1>0 DEF Call
    <3>2. call' = [stopped EXCEPT !.exact = FALSE]
      BY <2>1
    <3> HIDE DEF stopped
    <3>3. call' \in Call
      BY <3>1, <3>2 DEF Call
    <3>4. CallOK'
      BY <2>1, <1>10 DEF CallOK
    <3> QED
      BY <3>3, <3>4
  <2>4. call.acc >= PaidInWindow(today)
    BY <1>5, <1>6, <1>7
  <2>5. call'.acc >= PaidInWindow(today)'
    BY <2>2, <2>4, <1>8
  <2>6. LoopOK'
    BY <2>2, <2>5, <1>0 DEF LoopOK, InLoop
  <2> QED
    BY <2>3, <2>6, <1>11
<1> QED
  BY <1>12, <1>13, <1>14

-----------------------------------------------------------------------------
(* A payment commits.                                                      *)

\* What the accumulator is when the loop is over.
LEMMA AfterTheLoop ==
  ASSUME IInv, call.op # "none", call.k = Window
  PROVE  /\ PaidInWindow(today) \in Nat
         /\ call.acc >= PaidInWindow(today)
         /\ call.exact => call.acc = PaidInWindow(today)
<1>1. TypeOK /\ HistoryOK /\ LoopOK
  BY DEF IInv
<1>2. /\ today \in Int /\ lastDay \in Int /\ today <= MaxDay /\ lastDay <= MaxDay /\ MaxDay \in Nat
      /\ Window \in Nat
  BY <1>1, LaneAssumption DEF TypeOK, Days
<1>3. /\ Through(today) \in Nat /\ Through(today - Window) \in Nat /\ Through(today - Window) <= Through(today)
      /\ Through(lastDay - Window) \in Nat
  BY <1>1, <1>2, ThroughGrows
<1>4. PaidInWindow(today) = Through(today) - Through(today - Window)
  BY DEF PaidInWindow
<1>5. call.exact => call.acc = PaidInWindow(today) + (Through(lastDay - Window) - Through(lastDay - Window))
  BY <1>1 DEF LoopOK
<1>6. call.exact => call.acc = PaidInWindow(today)
  BY <1>3, <1>4, <1>5
<1>7. ~ call.exact => call.acc >= PaidInWindow(today)
  BY <1>1 DEF LoopOK
<1> QED
  BY <1>3, <1>4, <1>6, <1>7

LEMMA PaymentCommits ==
  ASSUME IInv, PayCommits
  PROVE  IInv'
<1> DEFINE paid == call.amount
<1>0. /\ today \in Nat /\ lastDay \in Nat /\ today <= MaxDay /\ lastDay <= MaxDay /\ MaxDay \in Nat
      /\ Window \in Nat /\ Window > 0 /\ lastDay <= today /\ call \in Call /\ today \in Days
      /\ dayBuckets \in [Days -> Nat] /\ paidThrough \in [Days -> Nat] /\ WindowCap \in Nat
  BY LaneAssumption DEF IInv, TypeOK, HistoryOK, Days
<1>1. TypeOK /\ HistoryOK /\ BucketsOK /\ StorageExact /\ RollingCap /\ CallOK /\ LoopOK /\ BitsOK
  BY DEF IInv
<1>2. /\ \A d \in Int : d <= MaxDay => Through(d) \in Nat
      /\ \A d, e \in Int : d <= e /\ e <= MaxDay => Through(d) <= Through(e)
      /\ \A d \in Int : lastDay <= d /\ d <= MaxDay => Through(d) = Through(lastDay)
  BY <1>1, ThroughGrows
<1>3. /\ call.op = "pay" /\ call.k = Window /\ call.exact /\ paid \in Nat /\ paid > 0
      /\ call.acc \in Int /\ call.acc + paid <= WindowCap /\ call.shift \in Nat
  BY <1>0, <1>1 DEF PayCommits, AfterLoop, CallOK, Call
<1>4. call.acc = PaidInWindow(today) /\ PaidInWindow(today) = Through(today) - Through(today - Window)
  BY <1>3, AfterTheLoop DEF PaidInWindow
<1>5. /\ lastDay' = today /\ today' = today /\ spent' = call.acc + paid /\ allowed' = allowed
      /\ mask' = Shifted(call.bits, call.shift) \cup {0}
      /\ dayBuckets' = [dayBuckets EXCEPT ![today] = @ + paid]
      /\ paidThrough' = [d \in Days |-> IF d >= today THEN paidThrough[d] + paid ELSE paidThrough[d]]
      /\ call' = NoCall
  BY DEF PayCommits, Credited
<1>6. \A d \in Int : d <= MaxDay => Through(d)' = IF d >= today THEN Through(d) + paid ELSE Through(d)
  BY <1>0, <1>5 DEF Through, Days
<1>7. TypeOK'
  <2>1. dayBuckets' \in [Days -> Nat] /\ paidThrough' \in [Days -> Nat]
    BY <1>0, <1>3, <1>5
  <2>2. mask' \in SUBSET Bits
    BY <1>0, <1>5 DEF Shifted, Bits
  <2>3. call' \in Call
    BY <1>0, <1>5 DEF NoCall, Call
  <2> QED
    BY <2>1, <2>2, <2>3, <1>0, <1>1, <1>3, <1>5 DEF TypeOK
<1>8. HistoryOK'
  <2>1. \A d, e \in Days : d <= e => (paidThrough[d])' <= (paidThrough[e])'
    <3> SUFFICES ASSUME NEW d \in Days, NEW e \in Days, d <= e
                 PROVE  paidThrough'[d] <= paidThrough'[e]
      OBVIOUS
    <3>1. paidThrough[d] <= paidThrough[e] /\ paidThrough[d] \in Nat /\ paidThrough[e] \in Nat
      BY <1>0, <1>1 DEF HistoryOK
    <3>2. /\ paidThrough'[d] = (IF d >= today THEN paidThrough[d] + paid ELSE paidThrough[d])
          /\ paidThrough'[e] = (IF e >= today THEN paidThrough[e] + paid ELSE paidThrough[e])
      BY <1>5
    <3>3. d \in Int /\ e \in Int
      BY DEF Days
    <3> QED
      BY <3>1, <3>2, <3>3, <1>0, <1>3
  <2>2. \A d \in Days : d >= today => (paidThrough[d])' = (paidThrough[today])'
    BY <1>0, <1>1, <1>3, <1>5 DEF HistoryOK, Days
  <2> QED
    BY <2>1, <2>2, <1>0, <1>5 DEF HistoryOK
<1>9. BucketsOK'
  <2> SUFFICES ASSUME NEW d \in Days
               PROVE  dayBuckets'[d] = Through(d)' - Through(d - 1)'
    BY DEF BucketsOK
  <2>1. d \in Int /\ d <= MaxDay /\ d - 1 \in Int /\ d - 1 <= MaxDay /\ Through(d) \in Nat /\ Through(d - 1) \in Nat
    BY <1>0, <1>2 DEF Days
  <2>2. dayBuckets[d] = Through(d) - Through(d - 1)
    BY <1>1 DEF BucketsOK
  <2>3. dayBuckets'[d] = IF d = today THEN dayBuckets[d] + paid ELSE dayBuckets[d]
    BY <1>0, <1>5
  <2>4. Through(d)' = (IF d >= today THEN Through(d) + paid ELSE Through(d))
    BY <2>1, <1>6
  <2>5. Through(d - 1)' = (IF d - 1 >= today THEN Through(d - 1) + paid ELSE Through(d - 1))
    BY <2>1, <1>6
  <2> QED
    BY <2>1, <2>2, <2>3, <2>4, <2>5, <1>0, <1>3
<1>10. StorageExact'
  <2>1. spent' = PaidInWindow(lastDay)'
    <3>1. Through(today)' = Through(today) + paid /\ Through(today - Window)' = Through(today - Window)
      BY <1>0, <1>5 DEF Through, Days
    <3>2. PaidInWindow(lastDay)' = Through(today)' - Through(today - Window)'
      BY <1>5 DEF PaidInWindow, Through
    <3> QED
      BY <3>1, <3>2, <1>0, <1>2, <1>3, <1>4, <1>5
  <2>2. \A b \in Bits : b \in mask' <=> today - b >= 0 /\ dayBuckets'[today - b] # 0
    <3> SUFFICES ASSUME NEW b \in Bits
                 PROVE  b \in mask' <=> today - b >= 0 /\ dayBuckets'[today - b] # 0
      OBVIOUS
    <3>1. b \in mask' <=> b - call.shift \in call.bits \/ b = 0
      BY <1>5 DEF Shifted
    <3>2. b - call.shift \in call.bits <=> today - b >= 0 /\ dayBuckets[today - b] # 0
      BY <1>1, <1>3 DEF BitsOK
    <3>3. CASE b = 0
      <4>1. dayBuckets'[today] = dayBuckets[today] + paid /\ dayBuckets[today] \in Nat /\ today - b = today
        BY <3>3, <1>0, <1>5
      <4> QED
        BY <4>1, <3>1, <3>3, <1>0, <1>3
    <3>4. CASE b # 0
      <4>1. b \in Nat /\ today - b # today
        BY <3>4, <1>0 DEF Bits
      <4>2. today - b >= 0 => dayBuckets'[today - b] = dayBuckets[today - b]
        BY <4>1, <1>0, <1>5 DEF Days
      <4> QED
        BY <4>2, <3>1, <3>2, <3>4
    <3> QED
      BY <3>3, <3>4
  <2> QED
    BY <2>1, <2>2, <1>5, <1>7 DEF StorageExact, TypeOK
<1>11. RollingCap'
  <2> SUFFICES ASSUME NEW d \in Days
               PROVE  Through(d)' - Through(d - Window)' <= WindowCap
    BY DEF RollingCap, PaidInWindow
  <2>1. /\ d \in Int /\ d <= MaxDay /\ d - Window \in Int /\ d - Window <= MaxDay
        /\ Through(d) \in Nat /\ Through(d - Window) \in Nat
        /\ Through(today) \in Nat /\ Through(today - Window) \in Nat
    BY <1>0, <1>2 DEF Days
  <2>2. Through(d) - Through(d - Window) <= WindowCap
    BY <1>1 DEF RollingCap, PaidInWindow
  <2>3. Through(d)' = (IF d >= today THEN Through(d) + paid ELSE Through(d))
    BY <2>1, <1>6
  <2>4. Through(d - Window)' = (IF d - Window >= today THEN Through(d - Window) + paid ELSE Through(d - Window))
    BY <2>1, <1>6
  <2>5. CASE d >= today /\ d - Window < today
    <3>1. Through(d) = Through(today)
      BY <2>1, <2>5, <1>0, <1>2
    <3>2. Through(today - Window) <= Through(d - Window)
      BY <2>1, <2>5, <1>0, <1>2
    <3> QED
      BY <3>1, <3>2, <2>1, <2>3, <2>4, <2>5, <1>0, <1>3, <1>4
  <2>6. CASE ~ (d >= today /\ d - Window < today)
    BY <2>1, <2>2, <2>3, <2>4, <2>6, <1>0, <1>3
  <2> QED
    BY <2>5, <2>6
<1>12. CallOK' /\ LoopOK' /\ BitsOK'
  BY <1>0, <1>5 DEF CallOK, LoopOK, BitsOK, InLoop, NoCall
<1> QED
  BY <1>7, <1>8, <1>9, <1>10, <1>11, <1>12 DEF IInv

-----------------------------------------------------------------------------
(* The inductive invariant.                                                *)

LEMMA InitEstablishes == Init => IInv
<1> SUFFICES ASSUME Init PROVE IInv
  OBVIOUS
<1> USE LaneAssumption
<1>1. TypeOK
  BY DEF Init, TypeOK, Days, NoCall, Call
<1>2. \A d \in Int : d <= MaxDay => Through(d) = 0
  BY DEF Init, Through, Days
<1>3. HistoryOK /\ BucketsOK
  BY <1>2 DEF Init, HistoryOK, BucketsOK, Days
<1>4. \A d \in Days : PaidInWindow(d) = 0
  BY <1>2 DEF PaidInWindow, Days
<1>5. StorageExact
  <2>1. spent = PaidInWindow(lastDay)
    BY <1>4 DEF Init, Days
  <2>2. \A k \in Bits : ~ (lastDay - k >= 0 /\ dayBuckets[lastDay - k] # 0)
    BY DEF Init, Days, Bits
  <2> QED
    BY <2>1, <2>2 DEF Init, StorageExact
<1>6. RollingCap
  BY <1>4 DEF RollingCap
<1>7. CallOK /\ LoopOK /\ BitsOK
  BY DEF Init, NoCall, CallOK, LoopOK, BitsOK, InLoop
<1> QED
  BY <1>1, <1>3, <1>5, <1>6, <1>7 DEF IInv

\* A transaction that ends without effect, and the steps between transactions.
LEMMA IdleKeeps ==
  ASSUME IInv, call' = NoCall \/ (call.op = "none" /\ UNCHANGED call),
         allowed' \in SUBSET Recipients, today' \in Days, today <= today',
         UNCHANGED <<storage, paidThrough>>
  PROVE  IInv'
<1>1. HistoryOK' /\ BucketsOK' /\ StorageExact' /\ RollingCap'
  BY StorageFrame DEF IInv
<1>2. call' \in Call /\ call'.op = "none" /\ call'.k = Window
  <2>1. NoCall \in Call /\ NoCall.op = "none" /\ NoCall.k = Window
    BY LaneAssumption DEF NoCall, Call
  <2>2. call.op = "none" => call \in Call /\ call.k = Window
    BY DEF IInv, TypeOK, CallOK
  <2> QED
    BY <2>1, <2>2
<1>3. TypeOK'
  BY <1>2 DEF IInv, TypeOK, storage
<1>4. CallOK' /\ LoopOK' /\ BitsOK'
  BY <1>2, LaneAssumption DEF CallOK, LoopOK, BitsOK, InLoop
<1> QED
  BY <1>1, <1>3, <1>4 DEF IInv

\* A step of _settle, or its start: nothing but the call changes.
LEMMA CallKeeps ==
  ASSUME IInv, call' \in Call, CallOK', LoopOK', BitsOK', UNCHANGED <<today, storage, allowed, paidThrough>>
  PROVE  IInv'
<1>1. HistoryOK' /\ BucketsOK' /\ StorageExact' /\ RollingCap'
  BY StorageFrame, LaneAssumption DEF IInv, TypeOK, Days
<1>2. TypeOK'
  BY DEF IInv, TypeOK, storage
<1> QED
  BY <1>1, <1>2 DEF IInv

LEMMA NextKeeps == IInv /\ [Next]_vars => IInv'
<1> SUFFICES ASSUME IInv, [Next]_vars PROVE IInv'
  OBVIOUS
<1> USE LaneAssumption
<1>0. today \in Days /\ today \in Int /\ today <= today /\ allowed \in SUBSET Recipients /\ MaxDay \in Nat
  BY DEF IInv, TypeOK, Days
<1>1. CASE NextDay
  BY <1>0, <1>1, IdleKeeps DEF NextDay, Days
<1>2. CASE SkipEmpty \/ Subtract \/ StopReading
  BY <1>2, LoopTurns, CallKeeps DEF SkipEmpty, Subtract, StopReading
<1>3. CASE PayCommits
  BY <1>3, PaymentCommits
<1>4. CASE PayReverts \/ ValidateEnds
  BY <1>0, <1>4, IdleKeeps DEF PayReverts, ValidateEnds
<1>5. ASSUME NEW to \in Recipients, NEW amount \in 1..PaymentCap, PayStarts(to, amount)
      PROVE  IInv'
  <2>1. amount \in Nat /\ amount > 0
    OBVIOUS
  <2> QED
    BY <1>5, <2>1, SettleStartsLoop, CallKeeps DEF PayStarts
<1>6. ASSUME NEW n \in 1..MaxActions, NEW total \in n..(n * PaymentCap), ValidateStarts(n, total)
      PROVE  IInv'
  <2>1. total \in Nat
    OBVIOUS
  <2> QED
    BY <1>6, <2>1, SettleStartsLoop, CallKeeps DEF ValidateStarts
<1>7. ASSUME NEW r \in Recipients, NEW on \in BOOLEAN, SetAllowed(r, on)
      PROVE  IInv'
  BY <1>0, <1>7, IdleKeeps DEF SetAllowed
<1>8. CASE UNCHANGED vars
  <2>1. CASE call.op = "none"
    BY <1>0, <1>8, <2>1, IdleKeeps DEF vars
  <2>2. CASE call.op # "none"
    BY <1>8 DEF vars, storage, IInv, TypeOK, HistoryOK, BucketsOK, CallOK, StorageExact, RollingCap,
                LoopOK, BitsOK, InLoop, PaidInWindow, Through
  <2> QED
    BY <2>1, <2>2
<1> QED
  BY <1>1, <1>2, <1>3, <1>4, <1>5, <1>6, <1>7, <1>8 DEF Next

THEOREM InvariantHolds == Spec => []IInv
BY InitEstablishes, NextKeeps, PTL DEF Spec

-----------------------------------------------------------------------------
(* The properties of the contract.                                         *)

\* The state always has its type.
THEOREM TypeCorrect == Spec => []TypeOK
<1>1. IInv => TypeOK
  BY DEF IInv
<1> QED
  BY <1>1, InvariantHolds, PTL

\* No window of Window days ever holds more payments than windowCap.
THEOREM CapHolds == Spec => []RollingCap
<1>1. IInv => RollingCap
  BY DEF IInv
<1> QED
  BY <1>1, InvariantHolds, PTL

\* _spent and _mask are exact for the window that ends on _lastDay.
THEOREM StorageIsExact == Spec => []StorageExact
<1>1. IInv => StorageExact
  BY DEF IInv
<1> QED
  BY <1>1, InvariantHolds, PTL

\* validate accepts nothing that pay would refuse on the same day, although
\* it may stop reading buckets early.
THEOREM ValidateIsSafe == Spec => []AcceptedIsPayable
<1>1. IInv => AcceptedIsPayable
  <2> SUFFICES ASSUME IInv, Accepts PROVE PaidInWindow(today) + call.amount <= WindowCap
    BY DEF AcceptedIsPayable
  <2>1. PaidInWindow(today) \in Nat /\ call.acc >= PaidInWindow(today)
    BY AfterTheLoop DEF Accepts, AfterLoop
  <2>2. call.acc \in Int /\ call.amount \in Nat /\ WindowCap \in Nat /\ call.acc + call.amount <= WindowCap
    BY LaneAssumption DEF IInv, TypeOK, Call, Accepts
  <2> QED
    BY <2>1, <2>2
<1> QED
  BY <1>1, InvariantHolds, PTL

\* pay decides on the exact spend of the window.
THEOREM PayDecidesExactly == Spec => []PayIsExact
<1>1. IInv => PayIsExact
  BY AfterTheLoop DEF PayIsExact, AfterLoop, IInv, CallOK
<1> QED
  BY <1>1, InvariantHolds, PTL

\* The loop never reads a bucket before day 0 and never underflows, so
\* validate never reverts.
THEOREM ValidateNeverReverts == Spec => []NeverUnderflows
<1>1. IInv => NeverUnderflows
  <2> SUFFICES ASSUME IInv, InLoop, call.k \in call.bits
               PROVE  lastDay - call.k >= 0 /\ dayBuckets[lastDay - call.k] <= call.acc
    BY DEF NeverUnderflows
  <2> DEFINE day == lastDay - call.k
  <2>0. /\ TypeOK /\ HistoryOK /\ BucketsOK /\ StorageExact /\ LoopOK
        /\ call.exact /\ call.bits = mask /\ call.op # "none"
    BY DEF IInv, InLoop, LoopOK
  <2>1. /\ today \in Int /\ today <= MaxDay /\ lastDay \in Int /\ lastDay <= MaxDay /\ MaxDay \in Nat
        /\ Window \in Nat /\ call.k \in Nat /\ call.k < Window /\ call.acc \in Int
    BY <2>0, LaneAssumption DEF TypeOK, Days, InLoop, Call
  <2>2. day >= 0
    BY <2>0, <2>1 DEF StorageExact
  <2>3. day \in Days /\ day - 1 \in Int /\ day - 1 <= MaxDay /\ lastDay - Window <= day - 1
    BY <2>1, <2>2 DEF Days
  <2>4. dayBuckets[day] = Through(day) - Through(day - 1)
    BY <2>0, <2>3 DEF BucketsOK
  <2>5. call.acc = PaidInWindow(today) + (Through(day) - Through(lastDay - Window))
    BY <2>0 DEF LoopOK
  <2>6. /\ Through(day) \in Nat /\ Through(day - 1) \in Nat /\ Through(lastDay - Window) \in Nat
        /\ Through(lastDay - Window) <= Through(day - 1)
        /\ Through(today) \in Nat /\ Through(today - Window) \in Nat /\ Through(today - Window) <= Through(today)
    BY <2>0, <2>1, <2>3, ThroughGrows
  <2>7. PaidInWindow(today) = Through(today) - Through(today - Window)
    BY DEF PaidInWindow
  <2> QED
    BY <2>2, <2>4, <2>5, <2>6, <2>7
<1> QED
  BY <1>1, InvariantHolds, PTL

\* What was paid on a past day is never rewritten.
THEOREM PastStays == Spec => PastIsFixed
<1>1. IInv /\ [Next]_vars => [PastKept]_vars
  <2> SUFFICES ASSUME IInv, Next, NEW d \in Days, d < today
               PROVE  dayBuckets'[d] = dayBuckets[d] /\ paidThrough'[d] = paidThrough[d]
    BY DEF PastKept
  <2>1. dayBuckets \in [Days -> Nat] /\ today \in Int /\ d \in Int
    BY DEF IInv, TypeOK, Days
  <2>2. CASE PayCommits
    BY <2>1, <2>2 DEF PayCommits, Credited
  <2>3. CASE ~ PayCommits
    <3>1. UNCHANGED <<dayBuckets, paidThrough>>
      BY <2>3 DEF Next, NextDay, SkipEmpty, Subtract, StopReading, PayReverts, ValidateEnds,
                  PayStarts, ValidateStarts, SetAllowed, storage
    <3> QED
      BY <3>1
  <2> QED
    BY <2>2, <2>3
<1> QED
  BY <1>1, InvariantHolds, PTL DEF Spec, PastIsFixed
==============================================================================
