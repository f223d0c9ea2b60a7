---------------------------- MODULE ApprovalProofs ----------------------------
(***************************************************************************)
(* Proofs about ApprovalStore and ApprovalManager, for every set of        *)
(* bindings, flows and calls, every window, limit and bound.               *)
(*                                                                         *)
(* The store.  Good(r, t) is what holds of one record at time t.  Every    *)
(* helper of the store maps good records to good records, which gives the  *)
(* inductive invariant; OneApprovedPerFlow is kept because a record that   *)
(* is approved is in the map, so that approve() meets and supersedes it.   *)
(*                                                                         *)
(* The manager.  Its operations are the store's helpers in a row, so the   *)
(* same facts serve.  What it adds is who holds what: most of its steps    *)
(* are Calm (no record comes alive, none is taken or given up), and the    *)
(* few that are not move one record and the one call that goes with it.    *)
(***************************************************************************)
EXTENDS ApprovalManager, FiniteSetTheorems, TLAPS

Decided == Status \ {"absent", "pending"}

Good(r, t) ==
  /\ r \in Record
  /\ r.key <=> r.status \in {"approved", "executing"}
  /\ r.status \in Live => r.listed
  /\ r.status # "absent" => r.createdAt <= t
  /\ r.decidedAt <= t
  /\ r.status \in Decided => r.decidedAt # NotDecided
  /\ r.status = "absent" => ~ r.listed
  /\ (r.status \in Terminal /\ ~ r.listed) => r.decidedAt + Cooldown <= t

\* What an operation at time t may make of a record r that it does not approve.
Kept(r, q, t) ==
  /\ Good(q, t)
  /\ q.batch = r.batch /\ q.createdAt = r.createdAt
  /\ q.status = "absent" <=> r.status = "absent"
  /\ r.status \in Terminal => q.status = r.status /\ q.decidedAt = r.decidedAt
  /\ q.status = "pending" => r.status = "pending"
  /\ q.status = "approved" => r.status = "approved" /\ q.decidedAt = r.decidedAt
  /\ (q.status = "executing" /\ r.status # "executing")
       => /\ r.status = "approved"
          /\ t < r.createdAt + TTL
          /\ t < r.decidedAt + UseWindow

KeptAll(rs, qs, t) == qs \in [Ids -> Record] /\ \A i \in Ids : Kept(rs[i], qs[i], t)

AllGood(rs, t) == rs \in [Ids -> Record] /\ \A i \in Ids : Good(rs[i], t)

MadeOK == \A i \in Ids : recs[i].status = "absent" <=> i > made

IInv == StoreTypeOK /\ AllGood(recs, now) /\ MadeOK /\ OneApprovedPerFlow /\ BoundedNagging

-----------------------------------------------------------------------------
(* What the helpers do to one record.                                      *)

\* close() sets the status and lets the key go; it keeps whose record it is.
LEMMA CloseFields ==
  ASSUME NEW r \in Record, NEW status \in Terminal, NEW t \in Nat
  PROVE  /\ Close(r, status, t) \in Record
         /\ Close(r, status, t).status = status
         /\ Close(r, status, t).key = FALSE
         /\ Close(r, status, t).listed = r.listed
         /\ Close(r, status, t).batch = r.batch
         /\ Close(r, status, t).createdAt = r.createdAt
         /\ Close(r, status, t).decidedAt \in {r.decidedAt, t} \ {NotDecided}
<1> DEFINE at == IF status # "consumed" \/ r.decidedAt = NotDecided THEN t ELSE r.decidedAt
           r1 == [r EXCEPT !.status = status]
           r2 == [r1 EXCEPT !.decidedAt = at]
           r3 == [r2 EXCEPT !.key = FALSE]
<1>1. status \in Status
  BY DEF Status
<1>2. at \in {r.decidedAt, t} \ {NotDecided} /\ at \in Nat
  BY DEF NotDecided, Record
<1>3. /\ r1 \in Record /\ r1.status = status /\ r1.listed = r.listed /\ r1.batch = r.batch
      /\ r1.createdAt = r.createdAt /\ r1.decidedAt = r.decidedAt
  BY <1>1 DEF Record
<1>4. Close(r, status, t) = r3
  BY <1>3 DEF Close
<1> HIDE DEF r1, at
<1>5. /\ r2 \in Record /\ r2.status = status /\ r2.listed = r.listed /\ r2.batch = r.batch
      /\ r2.createdAt = r.createdAt /\ r2.decidedAt = at
  BY <1>2, <1>3 DEF Record
<1> HIDE DEF r2
<1>6. /\ r3 \in Record /\ r3.status = status /\ r3.listed = r.listed /\ r3.batch = r.batch
      /\ r3.createdAt = r.createdAt /\ r3.decidedAt = at /\ r3.key = FALSE
  BY <1>5 DEF Record
<1> QED
  BY <1>2, <1>4, <1>6

\* A record of the map that is closed at time t is good at time t.
LEMMA CloseGood ==
  ASSUME NEW t \in Nat, NEW r, Good(r, t), r.listed, NEW status \in Terminal
  PROVE  Good(Close(r, status, t), t)
<1>1. r \in Record /\ r.status # "absent" /\ r.createdAt <= t
  BY DEF Good
<1>2. Close(r, status, t).decidedAt <= t /\ Close(r, status, t).decidedAt # NotDecided
  <2>1. CASE Close(r, status, t).decidedAt = t
    BY <2>1, <1>1 DEF NotDecided
  <2>2. CASE Close(r, status, t).decidedAt = r.decidedAt
    BY <2>2, <1>1, CloseFields DEF Good
  <2> QED
    BY <1>1, <2>1, <2>2, CloseFields
<1> DEFINE c == Close(r, status, t)
<1>3. /\ c \in Record /\ c.status = status /\ c.key = FALSE /\ c.listed = r.listed
      /\ c.createdAt = r.createdAt
  BY <1>1, CloseFields
<1>4. c.decidedAt <= t /\ c.decidedAt # NotDecided
  BY <1>2
<1> HIDE DEF c
<1>5. status # "absent" /\ status \notin {"approved", "executing"} /\ status \notin Live
  BY DEF Terminal, Live
<1>6. Good(c, t)
  BY <1>1, <1>3, <1>4, <1>5 DEF Good
<1> QED
  BY <1>6 DEF c

LEMMA KeptItself ==
  ASSUME NEW t \in Nat, NEW r, Good(r, t)
  PROVE  Kept(r, r, t)
BY DEF Kept

\* Closing a live record of the map is a legal move.
LEMMA CloseKept ==
  ASSUME NEW t \in Nat, NEW r, Good(r, t), r.status \in Live, NEW status \in Terminal
  PROVE  Kept(r, Close(r, status, t), t) /\ Close(r, status, t).status = status
<1> DEFINE c == Close(r, status, t)
<1>1. r \in Record /\ r.listed /\ r.status \notin Terminal /\ r.status # "absent"
  BY DEF Good, Live, Terminal
<1>2. Good(c, t)
  BY <1>1, CloseGood
<1>3. c.status = status /\ c.batch = r.batch /\ c.createdAt = r.createdAt
  BY <1>1, CloseFields
<1> HIDE DEF c
<1>4. status \notin {"absent", "pending", "approved", "executing"}
  BY DEF Terminal
<1>5. Kept(r, c, t)
  BY <1>1, <1>2, <1>3, <1>4 DEF Kept
<1> QED
  BY <1>3, <1>5 DEF c

\* expireIfDue() is a legal move, after which an approved record is in time.
LEMMA ExpireKept ==
  ASSUME NEW t \in Nat, NEW r, Good(r, t)
  PROVE  /\ Kept(r, ExpireIfDue(r, t), t)
         /\ ExpireIfDue(r, t).status \in {r.status, "expired"}
         /\ ExpireIfDue(r, t).status \in Live => ExpireIfDue(r, t) = r /\ ~ Due(r, t)
<1>1. CASE Due(r, t)
  <2>1. r.status \in Live /\ "expired" \in Terminal /\ r \in Record
    BY <1>1 DEF Due, Live, Terminal, Good
  <2>2. ExpireIfDue(r, t) = Close(r, "expired", t)
    BY <1>1 DEF ExpireIfDue
  <2>3. Kept(r, Close(r, "expired", t), t) /\ Close(r, "expired", t).status = "expired"
    BY <2>1, CloseKept
  <2>4. "expired" \notin Live
    BY DEF Live
  <2> QED
    BY <2>2, <2>3, <2>4
<1>2. CASE ~ Due(r, t)
  BY <1>2, KeptItself DEF ExpireIfDue
<1> QED
  BY <1>1, <1>2

LEMMA KeptTwice ==
  ASSUME NEW t \in Nat, NEW r, NEW q, NEW p, Kept(r, q, t), Kept(q, p, t)
  PROVE  Kept(r, p, t)
BY DEF Kept

LEMMA SweepKept ==
  ASSUME NEW t \in Nat, NEW rs, AllGood(rs, t)
  PROVE  \A upto \in Nat : KeptAll(rs, Sweep(rs, t, upto), t)
<1> SUFFICES ASSUME NEW upto \in Nat PROVE KeptAll(rs, Sweep(rs, t, upto), t)
  OBVIOUS
<1>1. ASSUME NEW i \in Ids
      PROVE  Kept(rs[i], Sweep(rs, t, upto)[i], t)
  <2>1. Good(rs[i], t)
    BY DEF AllGood
  <2>2. Sweep(rs, t, upto)[i] \in {rs[i], ExpireIfDue(rs[i], t)}
    BY DEF Sweep
  <2> QED
    BY <2>1, <2>2, ExpireKept, KeptItself
<1>2. \A i \in Ids : Sweep(rs, t, upto)[i] \in Record
  BY <1>1 DEF Kept, Good
<1> QED
  BY <1>1, <1>2 DEF KeptAll, Sweep

\* prune() takes only records out of the map whose cooldown has passed.
LEMMA PruneKept ==
  ASSUME NEW t \in Nat, NEW rs, AllGood(rs, t)
  PROVE  KeptAll(rs, Prune(rs, t), t)
<1>1. ASSUME NEW i \in Ids
      PROVE  Kept(rs[i], Prune(rs, t)[i], t)
  <2> DEFINE r == rs[i]
             gone == r.status \in Terminal /\ r.decidedAt + KeepFor < t
             q == [r EXCEPT !.listed = @ /\ ~ gone]
  <2>1. Good(r, t) /\ r \in Record
    BY DEF AllGood, Good
  <2>2. Prune(rs, t)[i] = q
    BY DEF Prune
  <2>3. /\ q \in Record /\ q.listed = (r.listed /\ ~ gone) /\ q.status = r.status /\ q.batch = r.batch
        /\ q.createdAt = r.createdAt /\ q.decidedAt = r.decidedAt /\ q.key = r.key
    BY <2>1 DEF Record
  <2>4. gone => r.decidedAt + Cooldown <= t
    BY <2>1, WindowAssumption DEF KeepFor, Record, NotDecided
  <2>5. gone => r.status \notin Live /\ r.status \in Terminal
    BY DEF Live, Terminal
  <2> HIDE DEF q, gone
  <2>6. Good(q, t)
    BY <2>1, <2>3, <2>4, <2>5 DEF Good
  <2>7. Kept(r, q, t)
    BY <2>1, <2>3, <2>6 DEF Kept
  <2> QED
    BY <2>2, <2>7
<1>2. \A i \in Ids : Prune(rs, t)[i] \in Record
  BY <1>1 DEF Kept, Good
<1> QED
  BY <1>1, <1>2 DEF KeptAll, Prune

\* Two operations at the same moment.
LEMMA KeptAllTwice ==
  ASSUME NEW t \in Nat, NEW rs, NEW qs, NEW ps, KeptAll(rs, qs, t), KeptAll(qs, ps, t)
  PROVE  KeptAll(rs, ps, t)
BY KeptTwice DEF KeptAll

LEMMA KeptIsGood ==
  ASSUME NEW t, NEW rs, NEW qs, KeptAll(rs, qs, t)
  PROVE  AllGood(qs, t)
BY DEF KeptAll, Kept, AllGood

\* An operation on one record.
LEMMA OneKept ==
  ASSUME NEW t \in Nat, NEW rs, AllGood(rs, t), NEW i \in Ids, NEW q, Kept(rs[i], q, t)
  PROVE  KeptAll(rs, [rs EXCEPT ![i] = q], t)
<1>1. q \in Record /\ rs \in [Ids -> Record]
  BY DEF Kept, Good, AllGood
<1> QED
  BY <1>1, KeptItself DEF KeptAll, AllGood

-----------------------------------------------------------------------------
(* What the operations do to the records.                                  *)

LEMMA GetKept ==
  ASSUME NEW t \in Nat, NEW rs, AllGood(rs, t), NEW i \in Ids
  PROVE  KeptAll(rs, [rs EXCEPT ![i] = ExpireIfDue(@, t)], t)
<1>1. Kept(rs[i], ExpireIfDue(rs[i], t), t)
  BY ExpireKept DEF AllGood
<1> QED
  BY <1>1, OneKept

LEMMA DeclinedKept ==
  ASSUME NEW t \in Nat, NEW rs, AllGood(rs, t), NEW i \in Ids
  PROVE  KeptAll(rs, Declined(rs, i, t), t)
<1>1. Good(rs[i], t) /\ "declined" \in Terminal
  BY DEF AllGood, Terminal
<1>2. CASE rs[i].status \in {"pending", "approved"}
  <2>1. Kept(rs[i], Close(rs[i], "declined", t), t)
    BY <1>1, <1>2, CloseKept DEF Live
  <2> QED
    BY <1>2, <2>1, OneKept DEF Declined
<1>3. CASE rs[i].status \notin {"pending", "approved"}
  BY <1>3, KeptItself DEF Declined, KeptAll, AllGood
<1> QED
  BY <1>2, <1>3

LEMMA FinishedKept ==
  ASSUME NEW t \in Nat, NEW rs, AllGood(rs, t), NEW i \in Ids
  PROVE  KeptAll(rs, Finished(rs, i, t), t)
<1>1. Good(rs[i], t) /\ "consumed" \in Terminal
  BY DEF AllGood, Terminal
<1>2. CASE rs[i].status = "executing"
  <2>1. Kept(rs[i], Close(rs[i], "consumed", t), t)
    BY <1>1, <1>2, CloseKept DEF Live
  <2> QED
    BY <1>2, <2>1, OneKept DEF Finished
<1>3. CASE rs[i].status # "executing"
  BY <1>3, KeptItself DEF Finished, KeptAll, AllGood
<1> QED
  BY <1>2, <1>3

LEMMA RevokedKept ==
  ASSUME NEW t \in Nat, NEW rs, AllGood(rs, t), NEW i \in Ids
  PROVE  KeptAll(rs, Revoked(rs, i, t), t)
<1>1. Good(rs[i], t) /\ "revoked" \in Terminal
  BY DEF AllGood, Terminal
<1>2. CASE rs[i].status \in Live
  <2>1. Kept(rs[i], Close(rs[i], "revoked", t), t)
    BY <1>1, <1>2, CloseKept
  <2> QED
    BY <1>2, <2>1, OneKept DEF Revoked
<1>3. CASE rs[i].status \notin Live
  BY <1>3, KeptItself DEF Revoked, KeptAll, AllGood
<1> QED
  BY <1>2, <1>3

\* take() moves on only what is approved and in time.
LEMMA TakenKept ==
  ASSUME NEW t \in Nat, NEW rs, AllGood(rs, t), NEW i \in Ids
  PROVE  KeptAll(rs, Taken(rs, i, t), t)
<1> DEFINE r == ExpireIfDue(rs[i], t)
           q == [r EXCEPT !.status = "executing"]
<1>1. Good(rs[i], t) /\ Kept(rs[i], r, t) /\ Good(r, t) /\ r \in Record
  BY ExpireKept DEF AllGood, Kept, Good
<1>2. CASE CanTake(rs, i, t)
  <2>1. r.status = "approved" /\ r.status \in Live
    BY <1>2 DEF CanTake, Live
  <2>2. r = rs[i] /\ ~ Due(rs[i], t)
    BY <1>1, <2>1, ExpireKept
  <2>3. "executing" \in Status /\ "executing" \notin Terminal /\ "executing" \in Live
    BY DEF Status, Live, Terminal
  <2>4. /\ q \in Record /\ q.status = "executing" /\ q.listed = r.listed /\ q.batch = r.batch
        /\ q.createdAt = r.createdAt /\ q.decidedAt = r.decidedAt /\ q.key = r.key
    BY <1>1, <2>3 DEF Record
  <2>5. r.decidedAt # NotDecided /\ r.status \notin Terminal
    BY <1>1, <2>1 DEF Good, Decided, Status, Terminal, Live
  <2>6. t < rs[i].createdAt + TTL /\ t < rs[i].decidedAt + UseWindow
    BY <2>1, <2>2, <1>1, WindowAssumption DEF Due, Record, NotDecided
  <2>7. Taken(rs, i, t) = [rs EXCEPT ![i] = q]
    BY <1>2 DEF Taken
  <2>8. rs[i].status = "approved"
    BY <2>1, <2>2
  <2> HIDE DEF q
  <2>9. Good(q, t)
    BY <1>1, <2>1, <2>3, <2>4, <2>5 DEF Good
  <2>10. Kept(rs[i], q, t)
    BY <2>2, <2>3, <2>4, <2>5, <2>6, <2>8, <2>9 DEF Kept
  <2>11. KeptAll(rs, [rs EXCEPT ![i] = q], t)
    BY <2>10, OneKept
  <2> QED
    BY <2>7, <2>11
<1>3. CASE ~ CanTake(rs, i, t)
  <2>1. Taken(rs, i, t) = [rs EXCEPT ![i] = r]
    BY <1>3 DEF Taken
  <2>2. KeptAll(rs, [rs EXCEPT ![i] = r], t)
    BY <1>1, OneKept
  <2> QED
    BY <2>1, <2>2
<1> QED
  BY <1>2, <1>3

LEMMA FailedKept ==
  ASSUME NEW t \in Nat, NEW rs, AllGood(rs, t), NEW i \in Ids
  PROVE  KeptAll(rs, Failed(rs, i, t), t)
<1> DEFINE q == [rs[i] EXCEPT !.failures = @ + 1]
           counted == [rs EXCEPT ![i].failures = @ + 1]
<1>1. Good(rs[i], t) /\ rs[i] \in Record /\ rs \in [Ids -> Record]
  BY DEF AllGood, Good
<1>2. CASE rs[i].status # "pending"
  BY <1>2, KeptItself DEF Failed, KeptAll, AllGood
<1>3. CASE rs[i].status = "pending"
  <2>1. /\ q \in Record /\ q.status = rs[i].status /\ q.listed = rs[i].listed /\ q.batch = rs[i].batch
        /\ q.createdAt = rs[i].createdAt /\ q.decidedAt = rs[i].decidedAt /\ q.key = rs[i].key
    BY <1>1 DEF Record
  <2>2. counted = [rs EXCEPT ![i] = q]
    BY <1>1
  <2> HIDE DEF q, counted
  <2>3. Kept(rs[i], q, t)
    BY <1>1, <2>1 DEF Kept, Good
  <2>4. KeptAll(rs, counted, t)
    BY <2>2, <2>3, OneKept
  <2>5. KeptAll(rs, Declined(counted, i, t), t)
    BY <2>4, KeptIsGood, DeclinedKept, KeptAllTwice
  <2> USE DEF counted
  <2>6. Failed(rs, i, t) \in {counted, Declined(counted, i, t)}
    BY <1>3 DEF Failed
  <2> QED
    BY <2>4, <2>5, <2>6
<1> QED
  BY <1>2, <1>3

-----------------------------------------------------------------------------
(* approve() and create(), the two operations that do more than that.      *)

\* The record itself may become approved, and then no other of its flow is.
LEMMA ApprovedMoves ==
  ASSUME NEW t \in Nat, NEW rs, AllGood(rs, t), NEW i \in Ids, rs[i].status # "absent"
  PROVE  LET qs == Approved(rs, i, t) IN
         /\ qs \in [Ids -> Record]
         /\ \A j \in Ids \ {i} : Kept(rs[j], qs[j], t)
         /\ \/ Kept(rs[i], qs[i], t)
            \/ /\ Good(qs[i], t) /\ qs[i].batch = rs[i].batch /\ qs[i].createdAt = rs[i].createdAt
               /\ rs[i].status = "pending" /\ qs[i].status = "approved"
               /\ \A j \in Ids \ {i} :
                    qs[j].status = "approved" => FlowOf[rs[j].batch] # FlowOf[rs[i].batch]
<1> DEFINE r == ExpireIfDue(rs[i], t)
           qs == Approved(rs, i, t)
<1>1. /\ Good(rs[i], t) /\ Kept(rs[i], r, t) /\ Good(r, t) /\ r \in Record /\ rs \in [Ids -> Record]
      /\ r.batch = rs[i].batch
      /\ r.status \in Live => r = rs[i]
  BY ExpireKept DEF AllGood, Kept, Good
<1>2. CASE r.status # "pending"
  <2>1. qs = [rs EXCEPT ![i] = r]
    BY <1>2 DEF Approved
  <2>2. KeptAll(rs, [rs EXCEPT ![i] = r], t)
    BY <1>1, OneKept
  <2> QED
    BY <2>1, <2>2 DEF KeptAll
<1>3. CASE r.status = "pending"
  <2> DEFINE q == Granted(r, t)
             r1 == [r EXCEPT !.status = "approved"]
             r2 == [r1 EXCEPT !.decidedAt = t]
             r3 == [r2 EXCEPT !.key = TRUE]
             Superseded(j) == rs[j].listed /\ rs[j].status = "approved" /\ Flow(rs[j]) = Flow(r)
  <2>1. "approved" \in Status /\ "approved" \notin Terminal /\ "approved" \in Live /\ "pending" \in Live
    BY DEF Status, Terminal, Live
  <2>2. r = rs[i] /\ rs[i].status = "pending" /\ r.listed
    BY <1>1, <1>3, <2>1 DEF Good
  <2>3. q = r3
    BY <1>1 DEF Granted
  <2>4. /\ r1 \in Record /\ r1.status = "approved" /\ r1.listed = r.listed /\ r1.batch = r.batch
        /\ r1.createdAt = r.createdAt
    BY <1>1, <2>1 DEF Record
  <2> HIDE DEF r1
  <2>5. /\ r2 \in Record /\ r2.status = "approved" /\ r2.listed = r.listed /\ r2.batch = r.batch
        /\ r2.createdAt = r.createdAt /\ r2.decidedAt = t
    BY <2>4 DEF Record
  <2> HIDE DEF r2
  <2>6. /\ r3 \in Record /\ r3.status = "approved" /\ r3.listed = r.listed /\ r3.batch = r.batch
        /\ r3.createdAt = r.createdAt /\ r3.decidedAt = t /\ r3.key = TRUE
    BY <2>5 DEF Record
  <2> HIDE DEF r3
  <2>7. /\ Good(q, t) /\ q.status = "approved" /\ q.batch = rs[i].batch /\ q.createdAt = rs[i].createdAt
        /\ q \in Record
    <3>1. t # NotDecided /\ r.createdAt <= t
      BY <1>1, <1>3 DEF NotDecided, Good
    <3>2. Good(r3, t)
      BY <2>1, <2>2, <2>6, <3>1 DEF Good
    <3> QED
      BY <1>1, <2>2, <2>3, <2>6, <3>2
  <2> HIDE DEF q
  <2>8. qs = [j \in Ids |-> IF j = i THEN q ELSE IF Superseded(j) THEN Close(rs[j], "revoked", t) ELSE rs[j]]
    BY <1>3 DEF Approved, q
  <2>9. ASSUME NEW j \in Ids \ {i}
        PROVE  /\ Kept(rs[j], qs[j], t)
               /\ qs[j].status = "approved" => FlowOf[rs[j].batch] # FlowOf[rs[i].batch]
    <3>1. Good(rs[j], t)
      BY DEF AllGood
    <3>2. CASE Superseded(j)
      <4>1. qs[j] = Close(rs[j], "revoked", t)
        BY <2>8, <3>2
      <4>2. "revoked" \in Terminal
        BY DEF Terminal
      <4>3. Kept(rs[j], Close(rs[j], "revoked", t), t) /\ Close(rs[j], "revoked", t).status = "revoked"
        BY <2>1, <3>1, <3>2, <4>2, CloseKept
      <4> QED
        BY <4>1, <4>3
    <3>3. CASE ~ Superseded(j)
      <4>1. qs[j] = rs[j]
        BY <2>8, <3>3
      <4>2. rs[j].status = "approved" => rs[j].listed
        BY <2>1, <3>1 DEF Good
      <4>3. rs[j].status = "approved" => FlowOf[rs[j].batch] # FlowOf[rs[i].batch]
        BY <2>2, <3>3, <4>2 DEF Flow
      <4> QED
        BY <3>1, <4>1, <4>3, KeptItself
    <3> QED
      BY <3>2, <3>3
  <2>10. qs[i] = q
    BY <2>8
  <2>11. qs \in [Ids -> Record]
    <3>1. \A j \in Ids : qs[j] \in Record
      BY <2>7, <2>9, <2>10 DEF Kept, Good
    <3> QED
      BY <2>8, <3>1
  <2> HIDE DEF qs
  <2> QED
    BY <2>2, <2>7, <2>9, <2>10, <2>11 DEF qs
<1> QED
  BY <1>2, <1>3

\* The new record is pending and good; the others are what prune() leaves.
LEMMA CreatedMoves ==
  ASSUME NEW t \in Nat, NEW rs, AllGood(rs, t), NEW b \in Bindings, made + 1 \in Ids
  PROVE  LET qs == Created(rs, b, t) IN
         /\ qs \in [Ids -> Record]
         /\ \A j \in Ids \ {made + 1} : Kept(rs[j], qs[j], t)
         /\ Good(qs[made + 1], t) /\ qs[made + 1].status = "pending" /\ qs[made + 1].createdAt = t
<1>1. Good(Fresh(b, t), t) /\ Fresh(b, t).status = "pending" /\ Fresh(b, t).createdAt = t
  BY DEF Good, Fresh, Record, Status, Live, Terminal, NotDecided, Decided
<1>2. KeptAll(rs, Prune(rs, t), t)
  BY PruneKept
<1>3. Fresh(b, t) \in Record
  BY <1>1 DEF Good
<1>4. Created(rs, b, t) = [Prune(rs, t) EXCEPT ![made + 1] = Fresh(b, t)]
  BY DEF Created
<1> QED
  BY <1>1, <1>2, <1>3, <1>4 DEF KeptAll

-----------------------------------------------------------------------------
(* The counters of wrong passwords keep their types.                       *)

LockTypeOK == failureTimes \in Seq(Nat) /\ lockouts \in Nat /\ lockedUntil \in Int

LEMMA RecentType ==
  ASSUME NEW times \in Seq(Nat), NEW t \in Nat
  PROVE  Recent(times, t) \in Seq(Nat)
<1> DEFINE old == {k \in 1..Len(times) : times[k] <= t - FailWindow}
           n == Cardinality(old)
<1>1. Len(times) \in Nat
  OBVIOUS
<1>2. IsFiniteSet(1..Len(times)) /\ Cardinality(1..Len(times)) = Len(times)
  <2> DEFINE len == Len(times)
  <2>1. len \in Int /\ 1 \in Int /\ len >= 0
    BY <1>1
  <2> HIDE DEF len
  <2>2. IsFiniteSet(1..len) /\ Cardinality(1..len) = IF 1 > len THEN 0 ELSE len - 1 + 1
    BY <2>1, FS_Interval
  <2>3. Cardinality(1..len) = len
    BY <2>1, <2>2
  <2> QED
    BY <2>2, <2>3 DEF len
<1>3. old \subseteq 1..Len(times)
  OBVIOUS
<1> HIDE DEF old
<1>4. n \in Nat /\ n <= Len(times)
  <2>1. IsFiniteSet(old) /\ Cardinality(old) <= Cardinality(1..Len(times))
    BY <1>2, <1>3, FS_Subset
  <2>2. Cardinality(old) \in Nat
    BY <2>1, FS_CardinalityType
  <2> QED
    BY <2>1, <2>2, <1>2
<1> HIDE DEF n
<1>5. SubSeq(times, n + 1, Len(times)) \in Seq(Nat)
  BY <1>1, <1>4
<1>6. Recent(times, t) = Append(SubSeq(times, n + 1, Len(times)), t)
  BY DEF Recent, n, old
<1> QED
  BY <1>5, <1>6

LEMMA CountFailureType ==
  ASSUME StoreTypeOK, CountFailure(now)
  PROVE  LockTypeOK'
<1>1. now \in Nat /\ failureTimes \in Seq(Nat) /\ lockouts \in Nat /\ lockedUntil \in Int
  BY DEF StoreTypeOK
<1>2. Recent(failureTimes, now) \in Seq(Nat)
  BY <1>1, RecentType
<1>3. LockoutFor(lockouts + 1) \in Int
  <2>1. 2 ^ ((lockouts + 1) - 1) \in Int
    BY <1>1
  <2>2. BaseLockout * 2 ^ ((lockouts + 1) - 1) \in Int
    BY <2>1, LockoutAssumption
  <2> QED
    BY <2>2, LockoutAssumption DEF LockoutFor
<1>4. CASE Len(Recent(failureTimes, now)) >= Threshold
  BY <1>1, <1>3, <1>4 DEF CountFailure, LockTypeOK
<1>5. CASE ~ (Len(Recent(failureTimes, now)) >= Threshold)
  BY <1>1, <1>2, <1>5 DEF CountFailure, LockTypeOK
<1> QED
  BY <1>4, <1>5

-----------------------------------------------------------------------------
(* The steps of the store.                                                 *)

\* What every step of the store guarantees.
StepOK == IInv' /\ KeepsVerdicts /\ TakesInTime

\* Of the first n records, those that wait and those put up in the window that
\* ends at t.
WaitingOf(rs, n) == {i \in 1..n : rs[i].status = "pending"}
AskedAround(rs, n, t) == {i \in 1..n : rs[i].createdAt \in (t - CreateWindow + 1)..t}

LEMMA PartOfMade ==
  ASSUME NEW n \in Nat, NEW A \in SUBSET (1..n), NEW B \in SUBSET A
  PROVE  IsFiniteSet(A) /\ Cardinality(A) \in Nat /\ Cardinality(B) \in Nat /\ Cardinality(B) <= Cardinality(A)
<1>1. IsFiniteSet(1..n)
  BY FS_Interval
<1>2. IsFiniteSet(A)
  BY <1>1, FS_Subset
<1>3. IsFiniteSet(B) /\ Cardinality(B) <= Cardinality(A)
  BY <1>2, FS_Subset
<1> QED
  BY <1>2, <1>3, FS_CardinalityType

\* Nothing new waits or was put up.
LEMMA NagsStand ==
  ASSUME StoreTypeOK, BoundedNagging, UNCHANGED <<now, made>>,
         \A i \in Ids :
           /\ recs'[i].createdAt = recs[i].createdAt
           /\ recs'[i].status = "pending" => recs[i].status = "pending"
  PROVE  BoundedNagging'
<1>1. made \in Nat /\ \A i \in 1..made : i \in Ids
  BY BoundAssumption DEF StoreTypeOK, Ids
<1> DEFINE qs == recs'
<1>2. \A i \in 1..made :
        /\ qs[i].createdAt = recs[i].createdAt
        /\ qs[i].status = "pending" => recs[i].status = "pending"
  BY <1>1
<1> HIDE DEF qs
<1>3. WaitingOf(qs, made) \subseteq WaitingOf(recs, made)
  BY <1>2 DEF WaitingOf
<1>4. \A t \in 0..now : AskedAround(qs, made, t) = AskedAround(recs, made, t)
  BY <1>2 DEF AskedAround
<1>5. /\ Cardinality(WaitingOf(recs, made)) <= MaxPending
      /\ \A t \in 0..now : Cardinality(AskedAround(recs, made, t)) <= MaxCreates
  BY DEF BoundedNagging, WaitingOf, AskedAround
<1>6. Cardinality(WaitingOf(qs, made)) <= MaxPending
  <2>1. WaitingOf(recs, made) \subseteq 1..made
    BY DEF WaitingOf
  <2>2. /\ Cardinality(WaitingOf(qs, made)) <= Cardinality(WaitingOf(recs, made))
        /\ Cardinality(WaitingOf(qs, made)) \in Nat /\ Cardinality(WaitingOf(recs, made)) \in Nat
    BY <1>1, <1>3, <2>1, PartOfMade
  <2> QED
    BY <1>5, <2>2, LimitAssumption
<1>7. \A t \in 0..now : Cardinality(AskedAround(qs, made, t)) <= MaxCreates
  BY <1>4, <1>5
<1>8. now' = now /\ made' = made
  OBVIOUS
<1> QED
  BY <1>6, <1>7, <1>8 DEF BoundedNagging, WaitingOf, AskedAround, qs

\* Time moves the window on, and nothing was put up at the new moment.
LEMMA NagsAge ==
  ASSUME IInv, now' = now + 1, UNCHANGED <<made, recs>>
  PROVE  BoundedNagging'
<1>1. made \in Nat /\ 1..made \subseteq Ids /\ now \in Nat /\ CreateWindow \in Nat /\ MaxCreates \in Nat
  BY BoundAssumption, WindowAssumption, LimitAssumption DEF IInv, StoreTypeOK, Ids
<1>2. \A i \in 1..made : recs[i].createdAt \in Nat /\ recs[i].createdAt <= now
  <2> SUFFICES ASSUME NEW i \in 1..made PROVE recs[i].createdAt \in Nat /\ recs[i].createdAt <= now
    OBVIOUS
  <2>1. i \in Ids /\ ~ (i > made)
    BY <1>1
  <2>2. recs[i].status # "absent" /\ Good(recs[i], now)
    BY <2>1 DEF IInv, MadeOK, AllGood
  <2> QED
    BY <2>2 DEF Good, Record
<1>3. AskedAround(recs, made, now + 1) \subseteq AskedAround(recs, made, now)
  BY <1>1, <1>2 DEF AskedAround
<1>4. /\ Cardinality(WaitingOf(recs, made)) <= MaxPending
      /\ \A t \in 0..now : Cardinality(AskedAround(recs, made, t)) <= MaxCreates
  BY DEF IInv, BoundedNagging, WaitingOf, AskedAround
<1>5. Cardinality(AskedAround(recs, made, now + 1)) <= MaxCreates
  <2>1. AskedAround(recs, made, now) \subseteq 1..made
    BY DEF AskedAround
  <2>2. Cardinality(AskedAround(recs, made, now + 1)) <= Cardinality(AskedAround(recs, made, now))
    BY <1>1, <1>3, <2>1, PartOfMade
  <2>3. Cardinality(AskedAround(recs, made, now)) <= MaxCreates
    BY <1>1, <1>4
  <2>4. /\ Cardinality(AskedAround(recs, made, now)) \in Nat
        /\ Cardinality(AskedAround(recs, made, now + 1)) \in Nat
    BY <1>1, <1>3, <2>1, PartOfMade
  <2> QED
    BY <1>1, <2>2, <2>3, <2>4
<1>6. \A t \in 0..now' : t \in 0..now \/ t = now + 1
  BY <1>1
<1>7. \A t \in 0..now' : Cardinality(AskedAround(recs, made, t)) <= MaxCreates
  BY <1>4, <1>5, <1>6
<1> QED
  BY <1>4, <1>7 DEF BoundedNagging, WaitingOf, AskedAround

\* One more is put up now, and the limits had room for it: every record that
\* waits is in the map, where admitCreate counts it.
LEMMA NagsBounded ==
  ASSUME IInv, NEW swept, Admits(swept, now), now' = now, made' = made + 1, made + 1 \in Ids,
         recs'[made + 1].createdAt = now,
         \A i \in Ids : i # made + 1 =>
           /\ recs'[i].createdAt = swept[i].createdAt
           /\ recs'[i].status = "pending" => swept[i].status = "pending" /\ swept[i].listed
           /\ swept[i].createdAt = recs[i].createdAt
  PROVE  BoundedNagging'
<1> DEFINE n == made + 1
           counted == {i \in Ids : swept[i].listed /\ swept[i].status = "pending"}
           lately == {i \in 1..made : swept[i].createdAt > now - CreateWindow}
<1>1. /\ made \in Nat /\ MaxRecords \in Nat /\ 1..made \subseteq Ids /\ now \in Nat /\ CreateWindow \in Nat
      /\ MaxCreates \in Nat /\ MaxPending \in Nat /\ n \in Nat /\ n \notin 1..made
      /\ \A i \in 1..n : i \in Ids /\ (i = n \/ i \in 1..made)
  BY BoundAssumption, WindowAssumption, LimitAssumption DEF IInv, StoreTypeOK, Ids
<1>2. Cardinality(counted) < MaxPending /\ Cardinality(lately) < MaxCreates
  BY DEF Admits
<1>3. counted \in SUBSET (1..MaxRecords) /\ lately \in SUBSET (1..made)
  BY DEF Ids
<1>4. \A i \in 1..made : recs[i].createdAt \in Nat
  BY <1>1 DEF IInv, AllGood, Record
<1>5. WaitingOf(recs', n) \subseteq counted \cup {n}
  BY <1>1 DEF WaitingOf
<1>6. AskedAround(recs', n, now) \subseteq lately \cup {n}
  BY <1>1, <1>4 DEF AskedAround
<1>7. \A t \in 0..now : t # now => AskedAround(recs', n, t) = AskedAround(recs, made, t)
  BY <1>1, <1>4 DEF AskedAround
<1> HIDE DEF counted, lately
<1>8. ASSUME NEW m \in Nat, NEW A \in SUBSET (1..m), NEW B, B \subseteq A \cup {n}, NEW limit \in Nat, Cardinality(A) < limit
      PROVE  Cardinality(B) <= limit
  <2>1. IsFiniteSet(A) /\ Cardinality(A) \in Nat
    BY <1>8, PartOfMade
  <2>2. IsFiniteSet(A \cup {n}) /\ Cardinality(A \cup {n}) <= Cardinality(A) + 1 /\ Cardinality(A \cup {n}) \in Nat
    <3> HIDE DEF n
    <3>1. /\ IsFiniteSet(A \cup {n})
          /\ Cardinality(A \cup {n}) = IF n \in A THEN Cardinality(A) ELSE Cardinality(A) + 1
      BY <2>1, FS_AddElement
    <3> QED
      BY <2>1, <3>1
  <2>3. IsFiniteSet(B) /\ Cardinality(B) <= Cardinality(A \cup {n})
    BY <1>8, <2>2, FS_Subset
  <2>4. Cardinality(B) \in Nat
    BY <2>3, FS_CardinalityType
  <2> QED
    BY <1>8, <2>1, <2>2, <2>3, <2>4
<1>9. Cardinality(WaitingOf(recs', n)) <= MaxPending
  BY <1>1, <1>2, <1>3, <1>5, <1>8
<1>10. Cardinality(AskedAround(recs', n, now)) <= MaxCreates
  BY <1>1, <1>2, <1>3, <1>6, <1>8
<1>11. \A t \in 0..now : Cardinality(AskedAround(recs, made, t)) <= MaxCreates
  BY DEF IInv, BoundedNagging, AskedAround
<1>12. \A t \in 0..now : Cardinality(AskedAround(recs', n, t)) <= MaxCreates
  BY <1>7, <1>10, <1>11
<1> QED
  BY <1>9, <1>12 DEF BoundedNagging, WaitingOf, AskedAround

\* A step that approves and creates nothing.
LEMMA KeptStep ==
  ASSUME IInv, KeptAll(recs, recs', now), UNCHANGED <<now, made>>, LockTypeOK'
  PROVE  StepOK
<1>1. now \in Nat /\ made \in 0..MaxRecords
  BY DEF IInv, StoreTypeOK
<1>2. AllGood(recs', now) /\ \A i \in Ids : Kept(recs[i], recs'[i], now)
  BY KeptIsGood DEF KeptAll
<1>3. AllGood(recs, now)'
  BY <1>2 DEF AllGood
<1>4. StoreTypeOK'
  BY <1>1, <1>3 DEF AllGood, LockTypeOK, StoreTypeOK
<1>5. MadeOK'
  BY <1>2 DEF IInv, MadeOK, Kept
<1>6. OneApprovedPerFlow'
  BY <1>2 DEF IInv, OneApprovedPerFlow, Kept
<1>9. BoundedNagging'
  BY <1>2, NagsStand DEF IInv, Kept
<1>7. KeepsVerdicts
  BY <1>2 DEF KeepsVerdicts, Kept
<1>8. TakesInTime
  BY <1>2 DEF TakesInTime, Kept
<1> QED
  BY <1>3, <1>4, <1>5, <1>6, <1>7, <1>8, <1>9 DEF IInv, StepOK

LEMMA ApproveStep ==
  ASSUME IInv, NEW i \in Ids, recs[i].status # "absent", Approve(i)
  PROVE  StepOK
<1>1. now \in Nat /\ made \in 0..MaxRecords /\ AllGood(recs, now) /\ UNCHANGED <<now, made, lockVars>>
  BY DEF IInv, StoreTypeOK, Approve
<1>2. LockTypeOK'
  BY <1>1 DEF IInv, StoreTypeOK, LockTypeOK, lockVars
<1>3. i \in Ids /\ recs[i].status # "absent"
  OBVIOUS
<1>4. recs' = Approved(recs, i, now)
  BY DEF Approve
<1>5. /\ recs' \in [Ids -> Record]
      /\ \A j \in Ids \ {i} : Kept(recs[j], recs'[j], now)
      /\ \/ Kept(recs[i], recs'[i], now)
         \/ /\ Good(recs'[i], now) /\ recs'[i].batch = recs[i].batch /\ recs'[i].createdAt = recs[i].createdAt
            /\ recs[i].status = "pending" /\ recs'[i].status = "approved"
            /\ \A j \in Ids \ {i} :
                 recs'[j].status = "approved" => FlowOf[recs[j].batch] # FlowOf[recs[i].batch]
  BY <1>1, <1>3, <1>4, ApprovedMoves
<1>6. CASE Kept(recs[i], recs'[i], now)
  <2>1. KeptAll(recs, recs', now)
    BY <1>5, <1>6 DEF KeptAll
  <2> QED
    BY <2>1, <1>1, <1>2, KeptStep
<1>7. CASE ~ Kept(recs[i], recs'[i], now)
  <2>1. AllGood(recs, now)'
    BY <1>1, <1>5, <1>7 DEF AllGood, Kept
  <2>2. StoreTypeOK'
    BY <1>1, <1>2, <2>1 DEF AllGood, LockTypeOK, StoreTypeOK
  <2>3. MadeOK'
    BY <1>1, <1>3, <1>5, <1>7 DEF IInv, MadeOK, Kept
  <2>4. OneApprovedPerFlow'
    BY <1>5, <1>7 DEF IInv, OneApprovedPerFlow, Kept
  <2>5. KeepsVerdicts
    BY <1>5, <1>7 DEF KeepsVerdicts, Kept, Terminal
  <2>6. TakesInTime
    BY <1>5, <1>7 DEF TakesInTime, Kept
  <2>7. BoundedNagging'
    BY <1>1, <1>5, <1>7, NagsStand DEF IInv, Kept
  <2> QED
    BY <2>1, <2>2, <2>3, <2>4, <2>5, <2>6, <2>7 DEF IInv, StepOK
<1> QED
  BY <1>6, <1>7

\* A record is created after `swept`, whatever has been done to get there.
LEMMA CreatedStep ==
  ASSUME IInv, NEW b \in Bindings, NEW swept, KeptAll(recs, swept, now),
         Admits(swept, now), made < MaxRecords, made' = made + 1, recs' = Created(swept, b, now),
         UNCHANGED <<now, lockVars>>
  PROVE  StepOK
<1> DEFINE n == made + 1
<1>1. /\ now \in Nat /\ made \in 0..MaxRecords /\ AllGood(recs, now) /\ MaxRecords \in Nat
      /\ made < MaxRecords /\ made' = n /\ UNCHANGED <<now, lockVars>> /\ recs' = Created(swept, b, now)
  BY BoundAssumption DEF IInv, StoreTypeOK
<1>2. LockTypeOK'
  BY <1>1 DEF IInv, StoreTypeOK, LockTypeOK, lockVars
<1>3. n \in Ids /\ made' \in 0..MaxRecords
  BY <1>1 DEF Ids
<1>4. KeptAll(recs, swept, now)
  OBVIOUS
<1>5. AllGood(swept, now)
  BY <1>4, KeptIsGood
<1>6. /\ recs' \in [Ids -> Record]
      /\ \A j \in Ids \ {n} : Kept(swept[j], recs'[j], now)
      /\ Good(recs'[n], now) /\ recs'[n].status = "pending" /\ recs'[n].createdAt = now
  BY <1>1, <1>3, <1>5, CreatedMoves
<1>7. \A j \in Ids \ {n} : Kept(recs[j], recs'[j], now)
  BY <1>1, <1>4, <1>6, KeptTwice DEF KeptAll
<1>8. recs[n].status = "absent"
  BY <1>1, <1>3 DEF IInv, MadeOK
<1>9. AllGood(recs, now)'
  BY <1>1, <1>6, <1>7 DEF AllGood, Kept
<1>10. StoreTypeOK'
  BY <1>1, <1>2, <1>3, <1>9 DEF AllGood, LockTypeOK, StoreTypeOK
<1>11. MadeOK'
  <2> SUFFICES ASSUME NEW j \in Ids PROVE recs'[j].status = "absent" <=> j > made'
    BY DEF MadeOK
  <2>1. recs[j].status = "absent" <=> j > made
    BY DEF IInv, MadeOK
  <2>2. CASE j = n
    BY <2>2, <1>1, <1>6
  <2>3. CASE j # n
    <3>1. recs'[j].status = "absent" <=> recs[j].status = "absent"
      BY <2>3, <1>7 DEF Kept
    <3> QED
      BY <2>1, <2>3, <3>1, <1>1 DEF Ids
  <2> QED
    BY <2>2, <2>3
<1>12. OneApprovedPerFlow'
  BY <1>6, <1>7 DEF IInv, OneApprovedPerFlow, Kept
<1>13. KeepsVerdicts
  BY <1>7, <1>8 DEF KeepsVerdicts, Kept, Terminal
<1>14. TakesInTime
  BY <1>6, <1>7 DEF TakesInTime, Kept
<1>15. BoundedNagging'
  <2>1. ASSUME NEW j \in Ids, j # n
        PROVE  /\ recs'[j].createdAt = swept[j].createdAt
               /\ recs'[j].status = "pending" => swept[j].status = "pending" /\ swept[j].listed
               /\ swept[j].createdAt = recs[j].createdAt
    <3>1. Kept(swept[j], recs'[j], now) /\ Kept(recs[j], swept[j], now) /\ Good(swept[j], now)
      BY <1>4, <1>5, <1>6, <2>1 DEF KeptAll, AllGood
    <3> QED
      BY <3>1 DEF Kept, Good, Live
  <2>2. Admits(swept, now) /\ swept \in [Ids -> Record]
    BY <1>4 DEF KeptAll
  <2> QED
    BY <1>1, <1>3, <1>6, <2>1, <2>2, NagsBounded DEF IInv
<1> QED
  BY <1>9, <1>10, <1>11, <1>12, <1>13, <1>14, <1>15 DEF IInv, StepOK

LEMMA InitEstablishes == StoreInit => IInv
<1> SUFFICES ASSUME StoreInit PROVE IInv
  OBVIOUS
<1>1. /\ now = 0 /\ made = 0 /\ recs = [i \in Ids |-> Absent]
      /\ failureTimes = << >> /\ lockouts = 0 /\ lockedUntil = 0
  BY DEF StoreInit
<1>2. Absent \in Record /\ Absent.status = "absent" /\ Good(Absent, 0)
  BY BindingAssumption, WindowAssumption DEF Absent, Record, Status, Live, Terminal, Decided, NotDecided, Good
<1>3. AllGood(recs, now)
  BY <1>1, <1>2 DEF AllGood
<1>4. StoreTypeOK
  BY <1>1, <1>3, BoundAssumption DEF StoreTypeOK, AllGood
<1>5. MadeOK /\ OneApprovedPerFlow
  BY <1>1, <1>2 DEF MadeOK, OneApprovedPerFlow, Ids
<1>6. BoundedNagging
  <2>1. \A i \in 1..made : FALSE
    BY <1>1
  <2>2. /\ {i \in 1..made : recs[i].status = "pending"} = {}
        /\ \A t \in 0..now : {i \in 1..made : recs[i].createdAt \in (t - CreateWindow + 1)..t} = {}
    BY <2>1
  <2> QED
    <3>1. Cardinality({}) = 0 /\ 0 <= MaxPending /\ 0 <= MaxCreates
      BY FS_EmptySet, LimitAssumption
    <3>2. Cardinality({i \in 1..made : recs[i].status = "pending"}) <= MaxPending
      BY <2>2, <3>1
    <3>3. \A t \in 0..now : Cardinality({i \in 1..made : recs[i].createdAt \in (t - CreateWindow + 1)..t}) <= MaxCreates
      BY <2>2, <3>1
    <3> QED
      BY <3>2, <3>3 DEF BoundedNagging
<1> QED
  BY <1>3, <1>4, <1>5, <1>6 DEF IInv

LEMMA StoreStep == IInv /\ StoreNext => StepOK
<1> SUFFICES ASSUME IInv, StoreNext PROVE StepOK
  OBVIOUS
<1>0. /\ now \in Nat /\ AllGood(recs, now) /\ StoreTypeOK /\ LockTypeOK
      /\ \A i \in Listed : i \in Ids /\ Good(recs[i], now)
  BY DEF IInv, StoreTypeOK, LockTypeOK, Listed, AllGood
<1>1. UNCHANGED lockVars => LockTypeOK'
  BY <1>0 DEF lockVars, LockTypeOK
<1>2. CASE Tick
  <2>1. now' = now + 1 /\ UNCHANGED <<made, recs, lockVars>>
    BY <1>2 DEF Tick
  <2>2. \A i \in Ids : Good(recs[i], now)
    BY <1>0 DEF AllGood
  <2>3. \A i \in Ids : Good(recs[i], now + 1)
    <3> SUFFICES ASSUME NEW i \in Ids PROVE Good(recs[i], now + 1)
      OBVIOUS
    <3>1. Good(recs[i], now) /\ recs[i].createdAt \in Int /\ recs[i].decidedAt \in Int
      BY <2>2 DEF Good, Record, NotDecided
    <3> QED
      BY <3>1, <1>0, WindowAssumption DEF Good
  <2>4. AllGood(recs, now)'
    BY <2>1, <2>3, <1>0 DEF AllGood
  <2>5. StoreTypeOK'
    BY <2>1, <1>0, <1>1 DEF StoreTypeOK, LockTypeOK
  <2>6. MadeOK' /\ OneApprovedPerFlow'
    BY <2>1 DEF IInv, MadeOK, OneApprovedPerFlow
  <2>7. KeepsVerdicts /\ TakesInTime
    BY <2>1 DEF KeepsVerdicts, TakesInTime
  <2>8. BoundedNagging'
    BY <2>1, NagsAge
  <2> QED
    BY <2>4, <2>5, <2>6, <2>7, <2>8 DEF IInv, StepOK
<1>3. CASE Open
  <2>1. KeptAll(recs, recs', now)
    BY <1>0, <1>3, SweepKept, BoundAssumption DEF Open, SweepAll
  <2> QED
    BY <2>1, <1>1, <1>3, KeptStep DEF Open
<1>4. ASSUME NEW b \in Bindings, Create(b) PROVE StepOK
  <2>1. KeptAll(recs, SweepAll(recs, now), now)
    BY <1>0, SweepKept, BoundAssumption DEF SweepAll
  <2> QED
    BY <1>4, <2>1, CreatedStep DEF Create
<1>5. ASSUME NEW i \in Listed, Get(i) PROVE StepOK
  <2>1. KeptAll(recs, recs', now)
    BY <1>0, <1>5, GetKept DEF Get
  <2> QED
    BY <2>1, <1>1, <1>5, KeptStep DEF Get
<1>6. ASSUME NEW i \in Listed, Approve(i) PROVE StepOK
  <2>1. recs[i].status # "absent"
    BY <1>0 DEF Good, Listed
  <2> QED
    BY <1>0, <1>6, <2>1, ApproveStep
<1>7. ASSUME NEW i \in Listed, Decline(i) PROVE StepOK
  <2>1. KeptAll(recs, recs', now)
    BY <1>0, <1>7, DeclinedKept DEF Decline
  <2> QED
    BY <2>1, <1>1, <1>7, KeptStep DEF Decline
<1>8. ASSUME NEW i \in Listed, Take(i) PROVE StepOK
  <2>1. KeptAll(recs, recs', now)
    BY <1>0, <1>8, TakenKept DEF Take
  <2> QED
    BY <2>1, <1>1, <1>8, KeptStep DEF Take
<1>9. ASSUME NEW i \in Listed, Finish(i) PROVE StepOK
  <2>1. KeptAll(recs, recs', now)
    BY <1>0, <1>9, FinishedKept DEF Finish
  <2> QED
    BY <2>1, <1>1, <1>9, KeptStep DEF Finish
<1>10. ASSUME NEW i \in Listed, Revoke(i) PROVE StepOK
  <2>1. KeptAll(recs, recs', now)
    BY <1>0, <1>10, RevokedKept DEF Revoke
  <2> QED
    BY <2>1, <1>1, <1>10, KeptStep DEF Revoke
<1>11. ASSUME NEW i \in Listed, RecordFailure(i) PROVE StepOK
  <2>1. KeptAll(recs, recs', now)
    BY <1>0, <1>11, FailedKept DEF RecordFailure
  <2>2. LockTypeOK'
    BY <1>0, <1>11, CountFailureType DEF RecordFailure
  <2> QED
    BY <2>1, <2>2, <1>11, KeptStep DEF RecordFailure
<1>12. ASSUME NEW i \in Listed, TimerFires(i) PROVE StepOK
  <2>1. Due(recs[i], now) /\ recs' = [recs EXCEPT ![i] = Close(recs[i], "expired", now)]
    BY <1>12 DEF TimerFires
  <2>2. recs' = [recs EXCEPT ![i] = ExpireIfDue(recs[i], now)]
    BY <2>1 DEF ExpireIfDue
  <2>3. KeptAll(recs, recs', now)
    BY <1>0, <2>2, GetKept
  <2> QED
    BY <2>3, <1>1, <1>12, KeptStep DEF TimerFires
<1> QED
  BY <1>2, <1>3, <1>4, <1>5, <1>6, <1>7, <1>8, <1>9, <1>10, <1>11, <1>12 DEF StoreNext

LEMMA IInvKept == IInv /\ [StoreNext]_storeVars => IInv'
<1>1. IInv /\ StoreNext => IInv'
  BY StoreStep DEF StepOK
<1>2. IInv /\ UNCHANGED storeVars => IInv'
  BY DEF IInv, storeVars, lockVars, StoreTypeOK, AllGood, MadeOK, OneApprovedPerFlow, BoundedNagging
<1> QED
  BY <1>1, <1>2

THEOREM InvariantHolds == StoreSpec => []IInv
BY InitEstablishes, IInvKept, PTL DEF StoreSpec

-----------------------------------------------------------------------------
(* The properties of the store.                                            *)

\* The state always has its type.
THEOREM TypeCorrect == StoreSpec => []StoreTypeOK
<1>1. IInv => StoreTypeOK
  BY DEF IInv
<1> QED
  BY <1>1, InvariantHolds, PTL

\* The store holds a key exactly while the record is approved or executing.
THEOREM KeysAreReleased == StoreSpec => []KeyCustody
<1>1. IInv => KeyCustody
  BY DEF IInv, AllGood, Good, KeyCustody
<1> QED
  BY <1>1, InvariantHolds, PTL

\* A flow has at most one approved, unused approval.
THEOREM NewerSupersedes == StoreSpec => []OneApprovedPerFlow
<1>1. IInv => OneApprovedPerFlow
  BY DEF IInv
<1> QED
  BY <1>1, InvariantHolds, PTL

\* prune() forgets neither a live record nor a decline in its cooldown.
THEOREM PruningIsSafe == StoreSpec => []PruneForgetsNothingNeeded
<1>1. IInv => PruneForgetsNothingNeeded
  <2> SUFFICES ASSUME IInv, NEW i \in 1..made, ~ recs[i].listed
               PROVE  recs[i].status \in Terminal /\ recs[i].decidedAt + Cooldown <= now
    BY DEF PruneForgetsNothingNeeded
  <2>1. i \in Ids
    BY BoundAssumption DEF IInv, StoreTypeOK, Ids
  <2>2. Good(recs[i], now) /\ recs[i].status # "absent"
    <3>1. ~ (i > made)
      BY DEF IInv, StoreTypeOK
    <3> QED
      BY <2>1, <3>1 DEF IInv, AllGood, MadeOK
  <2>3. recs[i].status \in Terminal
    BY <2>2 DEF Good, Record, Status
  <2> QED
    BY <2>2, <2>3 DEF Good
<1> QED
  BY <1>1, InvariantHolds, PTL

\* However many calls ask and however records end: no window of CreateWindow
\* has more than MaxCreates new approvals, and no more than MaxPending wait.
THEOREM OwnerIsAskedSparingly == StoreSpec => []BoundedNagging
<1>1. IInv => BoundedNagging
  BY DEF IInv
<1> QED
  BY <1>1, InvariantHolds, PTL

\* A key is handed out only for an approved record inside both its windows.
THEOREM KeysAreTakenInTime == StoreSpec => TakeInTime
<1>1. IInv /\ [StoreNext]_storeVars => [TakesInTime]_storeVars
  BY StoreStep DEF StepOK
<1> QED
  BY <1>1, InvariantHolds, PTL DEF StoreSpec, TakeInTime

\* The verdict on a closed record never changes.
THEOREM VerdictsAreFinal == StoreSpec => FinalIsFinal
<1>1. IInv /\ [StoreNext]_storeVars => [KeepsVerdicts]_storeVars
  BY StoreStep DEF StepOK
<1> QED
  BY <1>1, InvariantHolds, PTL DEF StoreSpec, FinalIsFinal

-----------------------------------------------------------------------------
(* The manager: its invariant.                                             *)

\* What a call or a password check refers to was put up.
Known ==
  /\ \A c \in Calls : calls[c].pc # "idle" =>
       calls[c].rec \in Ids /\ recs[calls[c].rec].status # "absent"
  /\ checking # NoRecord => recs[checking].status # "absent"

MInv == IInv /\ TypeOK /\ Known /\ OneLivePerBinding /\ SoleHolder

\* No record comes alive, and outside of X none is taken or given up.
Calm(rs, qs, X) ==
  \A i \in Ids :
    /\ qs[i].batch = rs[i].batch
    /\ qs[i].status = "absent" <=> rs[i].status = "absent"
    /\ qs[i].status \in Live => rs[i].status \in Live
    /\ qs[i].status \in {"pending", "approved"} => qs[i].status = rs[i].status
    /\ i \notin X => (qs[i].status = "executing" <=> rs[i].status = "executing")

\* At most, the record stops being live; and not while it is in use.
Ebbs(r, q) ==
  /\ q.batch = r.batch
  /\ q.status \in Live => q.status = r.status
  /\ r.status = "executing" => q.status = "executing"

\* The ways in which a step moves the records, for the owner's consent.
Lapses == \A i \in Ids : Ebbs(recs[i], recs'[i])

OthersEbb(i) == \A j \in Ids \ {i} : Ebbs(recs[j], recs'[j])

Grants(i) ==
  /\ recs[i].status = "pending" /\ recs'[i].status = "approved" /\ recs'[i].batch = recs[i].batch
  /\ OthersEbb(i)
  /\ \A j \in Ids \ {i} : recs'[j].status = "approved" => FlowOf[recs[j].batch] # FlowOf[recs[i].batch]

Uses(i) ==
  /\ recs[i].status = "approved" /\ recs'[i].status = "executing" /\ recs'[i].batch = recs[i].batch
  /\ OthersEbb(i)

Spends(i) ==
  /\ recs[i].status = "executing" /\ recs'[i].status \notin Live /\ recs'[i].batch = recs[i].batch
  /\ \A j \in Ids \ {i} : recs'[j] = recs[j]

PutsUp(i) ==
  /\ recs[i].status = "absent" /\ recs'[i].status = "pending" /\ recs'[i].batch \in Bindings
  /\ OthersEbb(i)
  /\ \A j \in Ids \ {i} : recs[j].batch = recs'[i].batch => recs[j].status # "executing"

Moved == Lapses \/ \E i \in Ids : Grants(i) \/ Uses(i) \/ Spends(i) \/ PutsUp(i)

\* The manager's map names every approval that can be handed over.
Ready2Hand == \A i \in Ids : recs[i].status = "approved" => i \in handed

LEMMA KeptIsCalm ==
  ASSUME NEW t \in Nat, NEW rs, AllGood(rs, t), NEW qs, KeptAll(rs, qs, t), NEW X,
         \A i \in Ids \ X : qs[i].status = "executing" <=> rs[i].status = "executing"
  PROVE  Calm(rs, qs, X)
<1> SUFFICES ASSUME NEW i \in Ids
             PROVE  /\ qs[i].batch = rs[i].batch
                    /\ qs[i].status = "absent" <=> rs[i].status = "absent"
                    /\ qs[i].status \in Live => rs[i].status \in Live
                    /\ qs[i].status \in {"pending", "approved"} => qs[i].status = rs[i].status
  BY DEF Calm
<1>1. Kept(rs[i], qs[i], t) /\ rs[i].status \in Status
  BY DEF KeptAll, AllGood, Good, Record
<1>2. rs[i].status \in Terminal => qs[i].status \in Terminal
  BY <1>1 DEF Kept
<1> QED
  BY <1>1, <1>2 DEF Kept, Status, Live, Terminal

LEMMA CalmTwice ==
  ASSUME NEW rs, NEW qs, NEW ps, NEW X, Calm(rs, qs, {}), Calm(qs, ps, X)
  PROVE  Calm(rs, ps, X)
BY DEF Calm

LEMMA CalmKeepsOne ==
  ASSUME OneLivePerBinding, NEW X, Calm(recs, recs', X)
  PROVE  OneLivePerBinding'
BY DEF OneLivePerBinding, Calm

\* Expiry spares what is in use.
LEMMA ExpirySpares ==
  ASSUME NEW t \in Nat, NEW r, Good(r, t)
  PROVE  ExpireIfDue(r, t).status = "executing" <=> r.status = "executing"
<1>1. r.status = "executing" => ~ Due(r, t)
  BY DEF Due
<1>2. r.status = "executing" => ExpireIfDue(r, t) = r
  BY <1>1 DEF ExpireIfDue
<1> QED
  BY <1>2, ExpireKept

LEMMA SweepCalm ==
  ASSUME NEW t \in Nat, NEW rs, AllGood(rs, t), NEW upto \in Nat
  PROVE  Calm(rs, Sweep(rs, t, upto), {})
<1>1. KeptAll(rs, Sweep(rs, t, upto), t)
  BY SweepKept
<1>2. \A i \in Ids : Sweep(rs, t, upto)[i].status = "executing" <=> rs[i].status = "executing"
  BY ExpirySpares DEF Sweep, AllGood
<1> QED
  BY <1>1, <1>2, KeptIsCalm

-----------------------------------------------------------------------------
(* The manager: what a step does to the calls.                             *)

LEMMA CalmLapses ==
  ASSUME Calm(recs, recs', {})
  PROVE  Lapses
BY DEF Lapses, Ebbs, Calm, Live

LEMMA CalmUses ==
  ASSUME NEW i \in Ids, Calm(recs, recs', {i}), recs[i].status = "approved", recs'[i].status = "executing"
  PROVE  Uses(i)
BY DEF Uses, OthersEbb, Ebbs, Calm, Live

\* A call that holds nothing comes to another place, where it holds nothing.
LEMMA MovesOn ==
  ASSUME MInv, IInv', NEW c \in Calls, calls[c].pc # "holding",
         NEW s \in CallState, Become(c, s), s.pc # "holding",
         s.pc # "idle" => s.rec \in Ids /\ recs'[s.rec].status # "absent",
         Calm(recs, recs', {}), Ready2Hand', handed' \subseteq Ids, UNCHANGED ownerVars
  PROVE  MInv' /\ Moved
<1>1. /\ calls \in [Calls -> CallState] /\ calls' = [calls EXCEPT ![c] = s]
      /\ queue' = queue /\ checking' = checking
  BY DEF MInv, TypeOK, Become, ownerVars
<1>2. TypeOK'
  BY <1>1 DEF MInv, TypeOK, IInv
<1>3. Known'
  BY <1>1 DEF MInv, TypeOK, Known, Calm, NoRecord
<1>4. OneLivePerBinding'
  BY CalmKeepsOne DEF MInv
<1>5. \A d \in Calls, i \in Ids :
        (calls'[d].pc = "holding" /\ calls'[d].rec = i) <=> (calls[d].pc = "holding" /\ calls[d].rec = i)
  BY <1>1
<1>6. \A d \in Calls : calls'[d].pc = "holding" => calls[d].pc = "holding" /\ calls'[d].rec = calls[d].rec
  BY <1>1
<1>7. SoleHolder'
  BY <1>5, <1>6 DEF MInv, SoleHolder, Calm, Ready2Hand
<1>8. Moved
  BY CalmLapses DEF Moved
<1> QED
  BY <1>2, <1>3, <1>4, <1>7, <1>8 DEF MInv

\* A call takes an approval that nobody holds.
LEMMA TakesHold ==
  ASSUME MInv, IInv', NEW c \in Calls, calls[c].pc # "holding", NEW i \in Ids,
         Become(c, At("holding", i)),
         recs[i].status = "approved", recs'[i].status = "executing",
         Calm(recs, recs', {i}), Ready2Hand', handed' \subseteq Ids, UNCHANGED ownerVars
  PROVE  MInv' /\ Moved
<1>1. /\ calls \in [Calls -> CallState] /\ calls' = [calls EXCEPT ![c] = At("holding", i)]
      /\ queue' = queue /\ checking' = checking
  BY DEF MInv, TypeOK, Become, ownerVars
<1>2. At("holding", i) \in CallState /\ At("holding", i).pc = "holding" /\ At("holding", i).rec = i
  BY DEF At, CallState
<1>3. TypeOK'
  BY <1>1, <1>2 DEF MInv, TypeOK, IInv
<1>4. Known'
  BY <1>1, <1>2 DEF MInv, TypeOK, Known, Calm, NoRecord
<1>5. OneLivePerBinding'
  BY CalmKeepsOne DEF MInv
<1>6. \A d \in Calls : ~ (calls[d].pc = "holding" /\ calls[d].rec = i)
  BY DEF MInv, SoleHolder
<1>7. /\ calls'[c].pc = "holding" /\ calls'[c].rec = i
      /\ \A d \in Calls : d # c => calls'[d] = calls[d]
  BY <1>1, <1>2
<1>8. ASSUME NEW j \in Ids
      PROVE  recs'[j].status = "executing" <=> \E d \in Calls : calls'[d].pc = "holding" /\ calls'[d].rec = j
  <2>1. CASE j = i
    BY <2>1, <1>7
  <2>2. CASE j # i
    <3>1. recs'[j].status = "executing" <=> recs[j].status = "executing"
      BY <2>2 DEF Calm
    <3>2. recs[j].status = "executing" <=> \E d \in Calls : calls[d].pc = "holding" /\ calls[d].rec = j
      BY DEF MInv, SoleHolder
    <3> QED
      BY <2>2, <3>1, <3>2, <1>7
  <2> QED
    BY <2>1, <2>2
<1>9. SoleHolder'
  BY <1>6, <1>7, <1>8 DEF MInv, SoleHolder, Ready2Hand
<1>10. Moved
  BY CalmUses DEF Moved
<1> QED
  BY <1>3, <1>4, <1>5, <1>9, <1>10 DEF MInv

\* A call ends the approval that it holds.
LEMMA GivesUp ==
  ASSUME MInv, IInv', NEW c \in Calls, calls[c].pc = "holding", NEW result,
         Become(c, Returned(result)), recs'[calls[c].rec].status \notin Live,
         \A j \in Ids \ {calls[c].rec} : recs'[j] = recs[j],
         Calm(recs, recs', {calls[c].rec}), Ready2Hand', UNCHANGED <<handed, ownerVars>>
  PROVE  MInv' /\ Moved
<1> DEFINE i == calls[c].rec
<1>1. /\ calls \in [Calls -> CallState] /\ calls' = [calls EXCEPT ![c] = Returned(result)]
      /\ queue' = queue /\ checking' = checking /\ handed' = handed
  BY DEF MInv, TypeOK, Become, ownerVars
<1>2. Returned(result) \in CallState /\ Returned(result).pc = "idle"
  BY DEF Returned, CallState, NoRecord
<1>3. TypeOK'
  BY <1>1, <1>2 DEF MInv, TypeOK, IInv
<1>4. Known'
  BY <1>1, <1>2 DEF MInv, TypeOK, Known, Calm, NoRecord
<1>5. OneLivePerBinding'
  BY CalmKeepsOne DEF MInv
<1>6. \A d \in Calls : calls[d].pc = "holding" /\ calls[d].rec = i => d = c
  BY DEF MInv, SoleHolder
<1>7. /\ calls'[c].pc = "idle"
      /\ \A d \in Calls : d # c => calls'[d] = calls[d]
  BY <1>1, <1>2
<1>8. ASSUME NEW j \in Ids
      PROVE  recs'[j].status = "executing" <=> \E d \in Calls : calls'[d].pc = "holding" /\ calls'[d].rec = j
  <2>1. CASE j = i
    BY <2>1, <1>6, <1>7 DEF Live
  <2>2. CASE j # i
    <3>1. recs'[j].status = "executing" <=> recs[j].status = "executing"
      BY <2>2 DEF Calm
    <3>2. recs[j].status = "executing" <=> \E d \in Calls : calls[d].pc = "holding" /\ calls[d].rec = j
      BY DEF MInv, SoleHolder
    <3> QED
      BY <2>2, <3>1, <3>2, <1>7
  <2> QED
    BY <2>1, <2>2
<1>9. \A d, e \in Calls :
        (calls'[d].pc = "holding" /\ calls'[e].pc = "holding" /\ calls'[d].rec = calls'[e].rec) => d = e
  BY <1>7 DEF MInv, SoleHolder
<1>10. SoleHolder'
  BY <1>8, <1>9 DEF SoleHolder, Ready2Hand
<1>11. i \in Ids /\ recs[i].status = "executing"
  BY DEF MInv, SoleHolder, Known
<1>12. Moved
  BY <1>11 DEF Moved, Spends, Calm
<1> QED
  BY <1>3, <1>4, <1>5, <1>10, <1>12 DEF MInv

\* The calls stand still.
LEMMA CallsStand ==
  ASSUME MInv, IInv', UNCHANGED calls, Calm(recs, recs', {}), Ready2Hand',
         handed' \subseteq Ids, queue' \in Seq(Ids),
         checking' \in Ids => recs'[checking'].status # "absent",
         checking' \in Ids \cup {NoRecord}
  PROVE  MInv' /\ Moved
<1>1. TypeOK'
  BY DEF MInv, TypeOK, IInv
<1>2. Known'
  BY DEF MInv, Known, Calm
<1>3. OneLivePerBinding'
  BY CalmKeepsOne DEF MInv
<1>4. SoleHolder'
  BY DEF MInv, SoleHolder, Calm, Ready2Hand
<1>5. Moved
  BY CalmLapses DEF Moved
<1> QED
  BY <1>1, <1>2, <1>3, <1>4, <1>5 DEF MInv

-----------------------------------------------------------------------------
(* The manager: what its steps do to the records.                          *)

LEMMA Facts ==
  ASSUME MInv
  PROVE  /\ now \in Nat /\ AllGood(recs, now) /\ LockTypeOK /\ made \in 0..MaxRecords
         /\ MaxRecords \in Nat /\ KeptAll(recs, recs, now) /\ Calm(recs, recs, {}) /\ Ready2Hand
<1>1. /\ now \in Nat /\ AllGood(recs, now) /\ LockTypeOK /\ made \in 0..MaxRecords
      /\ MaxRecords \in Nat /\ Ready2Hand
  BY BoundAssumption DEF MInv, IInv, StoreTypeOK, LockTypeOK, SoleHolder, Ready2Hand
<1>2. KeptAll(recs, recs, now)
  BY <1>1, KeptItself DEF KeptAll, AllGood
<1>3. Calm(recs, recs, {})
  BY DEF Calm
<1> QED
  BY <1>1, <1>2, <1>3

LEMMA KeptInv ==
  ASSUME MInv, KeptAll(recs, recs', now), UNCHANGED <<now, made, lockVars>>
  PROVE  IInv'
<1>1. LockTypeOK'
  BY Facts DEF LockTypeOK, lockVars
<1> QED
  BY <1>1, KeptStep DEF MInv, StepOK

\* Nothing becomes an approval by being kept.
LEMMA KeptApproved ==
  ASSUME NEW t, NEW rs, NEW qs, KeptAll(rs, qs, t), NEW i \in Ids, qs[i].status = "approved"
  PROVE  rs[i].status = "approved" /\ rs[i].batch = qs[i].batch
BY DEF KeptAll, Kept

LEMMA RevokedEnds ==
  ASSUME NEW t \in Nat, NEW rs, AllGood(rs, t), NEW i \in Ids
  PROVE  /\ Revoked(rs, i, t)[i].status \notin Live
         /\ \A j \in Ids \ {i} : Revoked(rs, i, t)[j] = rs[j]
<1>1. rs \in [Ids -> Record] /\ Good(rs[i], t) /\ "revoked" \in Terminal
  BY DEF AllGood, Terminal
<1>2. rs[i].status \in Live => Close(rs[i], "revoked", t).status = "revoked"
  BY <1>1, CloseKept
<1> QED
  BY <1>1, <1>2 DEF Revoked, Live

LEMMA DeclinedCalm ==
  ASSUME NEW t \in Nat, NEW rs, AllGood(rs, t), NEW i \in Ids
  PROVE  Calm(rs, Declined(rs, i, t), {})
<1>1. rs \in [Ids -> Record] /\ Good(rs[i], t) /\ "declined" \in Terminal
  BY DEF AllGood, Terminal
<1>2. rs[i].status \in Live => Close(rs[i], "declined", t).status = "declined"
  BY <1>1, CloseKept
<1>3. \A j \in Ids : Declined(rs, i, t)[j].status = "executing" <=> rs[j].status = "executing"
  BY <1>1, <1>2 DEF Declined, Live
<1> QED
  BY <1>3, DeclinedKept, KeptIsCalm

LEMMA TakenOne ==
  ASSUME NEW t \in Nat, NEW rs, AllGood(rs, t), NEW i \in Ids
  PROVE  /\ \A j \in Ids \ {i} : Taken(rs, i, t)[j] = rs[j]
         /\ CanTake(rs, i, t) => Taken(rs, i, t)[i].status = "executing" /\ rs[i].status = "approved"
<1> DEFINE r == ExpireIfDue(rs[i], t)
<1>1. rs \in [Ids -> Record] /\ Good(rs[i], t)
  BY DEF AllGood
<1>2. Kept(rs[i], r, t) /\ r \in Record
  BY <1>1, ExpireKept DEF Kept, Good
<1>3. CanTake(rs, i, t) => rs[i].status = "approved"
  BY <1>2 DEF CanTake, Kept
<1>4. [r EXCEPT !.status = "executing"].status = "executing"
  BY <1>2 DEF Record
<1> QED
  BY <1>1, <1>3, <1>4 DEF Taken

\* The least of a set of one.
LEMMA FirstOfOne ==
  ASSUME NEW S, S \subseteq Ids, \A i, j \in S : i = j, NEW i \in S
  PROVE  First(S) = i
<1>1. S = {i}
  OBVIOUS
<1>2. i \in Int
  BY BoundAssumption DEF Ids
<1>3. \E k \in {i} : \A j \in {i} : k <= j
  BY <1>2
<1>4. First({i}) \in {i}
  BY <1>3 DEF First
<1> QED
  BY <1>1, <1>4

\* At most one approval is ready for a binding.
LEMMA ReadyOne ==
  ASSUME MInv, NEW b \in Bindings
  PROVE  /\ Ready(b) \subseteq Ids
         /\ \A i \in Ready(b) : recs[i].status = "approved" /\ recs[i].batch = b
         /\ \A i, j \in Ready(b) : i = j
         /\ \A i \in Ready(b) : First(Ready(b)) = i
<1>1. KeptAll(recs, SweepAll(recs, now), now)
  BY Facts, SweepKept DEF SweepAll
<1>2. /\ Ready(b) \subseteq Ids
      /\ \A i \in Ready(b) : recs[i].status = "approved" /\ recs[i].batch = b
  BY <1>1, KeptApproved DEF Ready, WithBatch
<1>3. \A i, j \in Ready(b) : i = j
  BY <1>2 DEF MInv, OneLivePerBinding, Live
<1>4. \A i \in Ready(b) : First(Ready(b)) = i
  BY <1>2, <1>3, FirstOfOne
<1> QED
  BY <1>2, <1>3, <1>4

\* After the look for an approval to take, none of the binding is left.
LEMMA LookedFacts ==
  ASSUME MInv, NEW b \in Bindings
  PROVE  /\ KeptAll(recs, Looked(b), now) /\ AllGood(Looked(b), now)
         /\ Calm(recs, Looked(b), {})
         /\ \A i \in Ids : Looked(b)[i].status = "approved" =>
              recs[i].status = "approved" /\ i \notin Ready(b) /\ Looked(b)[i].batch # b
<1> DEFINE swept == SweepAll(recs, now)
<1>1. KeptAll(recs, swept, now) /\ Calm(recs, swept, {}) /\ AllGood(swept, now)
  BY Facts, SweepKept, SweepCalm, KeptIsGood DEF SweepAll
<1>2. \A i \in Ids : swept[i].status = "approved" /\ swept[i].batch = b => i \in Ready(b)
  BY <1>1 DEF AllGood, Good, Live, Ready, WithBatch
<1>3. CASE Ready(b) = {}
  <2>1. Looked(b) = swept
    BY <1>3 DEF Looked
  <2> QED
    BY <1>1, <1>2, <1>3, <2>1, KeptApproved
<1>4. CASE Ready(b) # {}
  <2>1. PICK i \in Ready(b) : TRUE
    BY <1>4
  <2>2. i \in Ids /\ First(Ready(b)) = i /\ recs[i].status = "approved" /\ Ready(b) = {i}
    BY <2>1, ReadyOne
  <2>3. Looked(b) = Revoked(swept, i, now)
    BY <1>4, <2>2 DEF Looked
  <2>4. swept[i].status = "approved"
    BY <2>1 DEF Ready, WithBatch
  <2> HIDE DEF swept
  <2>5. KeptAll(swept, Looked(b), now)
    BY <1>1, <2>2, <2>3, RevokedKept, Facts
  <2>6. /\ Looked(b)[i].status \notin Live
        /\ \A j \in Ids \ {i} : Looked(b)[j] = swept[j]
    BY <1>1, <2>2, <2>3, RevokedEnds, Facts
  <2>7. Calm(swept, Looked(b), {})
    BY <1>1, <2>4, <2>5, <2>6, KeptIsCalm, Facts DEF Live
  <2>8. KeptAll(recs, Looked(b), now) /\ AllGood(Looked(b), now) /\ Calm(recs, Looked(b), {})
    BY <1>1, <2>5, <2>7, KeptAllTwice, KeptIsGood, CalmTwice, Facts
  <2>9. ASSUME NEW j \in Ids, Looked(b)[j].status = "approved"
        PROVE  recs[j].status = "approved" /\ j \notin Ready(b) /\ Looked(b)[j].batch # b
    <3>1. j # i /\ Looked(b)[j] = swept[j]
      BY <2>6, <2>9 DEF Live
    <3> QED
      BY <1>2, <2>2, <2>8, <2>9, <3>1, KeptApproved
  <2> QED
    BY <2>8, <2>9
<1> QED
  BY <1>3, <1>4

LEMMA Still ==
  ASSUME MInv, UNCHANGED storeVars
  PROVE  IInv' /\ Calm(recs, recs', {})
<1>1. IInv'
  BY IInvKept DEF MInv
<1>2. recs' = recs
  BY DEF storeVars
<1> QED
  BY <1>1, <1>2 DEF Calm

\* Prune() leaves every status as it is.
LEMMA PruneStatus ==
  ASSUME NEW t \in Nat, NEW rs, AllGood(rs, t), NEW i \in Ids
  PROVE  Prune(rs, t)[i].status = rs[i].status
<1> DEFINE r == rs[i]
           kept == r.listed /\ ~ (r.status \in Terminal /\ r.decidedAt + KeepFor < t)
           q == [r EXCEPT !.listed = kept]
<1>1. r \in Record
  BY DEF AllGood
<1>2. Prune(rs, t)[i] = q
  BY <1>1 DEF Prune
<1> HIDE DEF kept
<1>3. q.status = r.status
  BY <1>1 DEF Record
<1> QED
  BY <1>2, <1>3

\* What is neither approved nor in use is not taken by being kept.
LEMMA NotTaken ==
  ASSUME NEW t, NEW rs, NEW qs, KeptAll(rs, qs, t), NEW i \in Ids, qs[i].status = "executing"
  PROVE  rs[i].status \in {"approved", "executing"}
BY DEF KeptAll, Kept

\* Only one record moves, and that one neither from nor to a use.
LEMMA OneMoveCalm ==
  ASSUME NEW t \in Nat, NEW rs, AllGood(rs, t), NEW qs, KeptAll(rs, qs, t), NEW i \in Ids,
         \A j \in Ids \ {i} : qs[j] = rs[j]
  PROVE  /\ Calm(rs, qs, {i})
         /\ (qs[i].status = "executing" <=> rs[i].status = "executing") => Calm(rs, qs, {})
<1>1. \A j \in Ids \ {i} : qs[j].status = "executing" <=> rs[j].status = "executing"
  OBVIOUS
<1>2. Calm(rs, qs, {i})
  BY <1>1, KeptIsCalm
<1>3. ASSUME qs[i].status = "executing" <=> rs[i].status = "executing" PROVE Calm(rs, qs, {})
  BY <1>2, <1>3 DEF Calm
<1> QED
  BY <1>2, <1>3

-----------------------------------------------------------------------------
(* The manager: acquire().                                                 *)

LEMMA ReturnedType ==
  ASSUME NEW result
  PROVE  Returned(result) \in CallState /\ Returned(result).pc = "idle"
BY DEF Returned, CallState, NoRecord

LEMMA AtType ==
  ASSUME NEW pc \in {"starting", "waiting", "holding"}, NEW i \in Ids
  PROVE  At(pc, i) \in CallState /\ At(pc, i).pc = pc /\ At(pc, i).rec = i
BY DEF At, CallState

\* The call looked for an approval to take, found none, and goes on.
LEMMA LookStep ==
  ASSUME MInv, NEW c \in Calls, NEW b \in Bindings, Enters(c, b), recs' = Looked(b), UNCHANGED made,
         NEW s \in CallState, Become(c, s), s.pc # "holding",
         s.pc # "idle" => s.rec \in Ids /\ recs'[s.rec].status # "absent"
  PROVE  MInv' /\ Moved
<1>1. /\ calls[c].pc # "holding" /\ handed' = handed \ Ready(b)
      /\ UNCHANGED <<now, lockVars>> /\ UNCHANGED ownerVars
  BY DEF Enters
<1>2. /\ KeptAll(recs, recs', now) /\ Calm(recs, recs', {})
      /\ \A i \in Ids : recs'[i].status = "approved" => recs[i].status = "approved" /\ i \notin Ready(b)
  BY LookedFacts
<1>3. IInv'
  BY <1>1, <1>2, KeptInv
<1>4. Ready2Hand' /\ handed' \subseteq Ids
  BY <1>1, <1>2, Facts DEF Ready2Hand, MInv, TypeOK
<1> QED
  BY <1>1, <1>2, <1>3, <1>4, MovesOn

LEMMA RefuseFlowInv == ASSUME MInv, NEW c \in Calls, NEW b \in Bindings, RefuseFlow(c, b) PROVE MInv' /\ Moved
<1>1. /\ calls[c].pc # "holding" /\ Become(c, Returned("declined"))
      /\ UNCHANGED storeVars /\ handed' = handed /\ UNCHANGED ownerVars
  BY DEF RefuseFlow
<1>2. Ready2Hand' /\ handed' \subseteq Ids
  BY <1>1, Facts DEF Ready2Hand, MInv, TypeOK, storeVars
<1> QED
  BY <1>1, <1>2, Still, ReturnedType, MovesOn

LEMMA RefuseInv ==
  ASSUME MInv, NEW c \in Calls, NEW b \in Bindings,
         RefuseDeclined(c, b) \/ RefuseExecuting(c, b) \/ Throttle(c, b)
  PROVE  MInv' /\ Moved
<1>1. PICK result : /\ Enters(c, b) /\ recs' = Looked(b) /\ UNCHANGED made
                    /\ Become(c, Returned(result))
  BY DEF RefuseDeclined, RefuseExecuting, Throttle, Asks
<1> QED
  BY <1>1, ReturnedType, LookStep

LEMMA JoinPendingInv == ASSUME MInv, NEW c \in Calls, NEW b \in Bindings, JoinPending(c, b) PROVE MInv' /\ Moved
<1> DEFINE pending == WithBatch(Looked(b), b, "pending")
<1>1. /\ Enters(c, b) /\ recs' = Looked(b) /\ UNCHANGED made /\ pending # {}
      /\ Become(c, At("starting", First(pending)))
  BY DEF JoinPending, Asks
<1>2. /\ pending \subseteq Ids
      /\ \A i \in pending : Looked(b)[i].status = "pending" /\ Looked(b)[i].batch = b
  BY DEF WithBatch
<1>3. \A i \in pending : recs[i].status \in Live /\ recs[i].batch = b
  BY <1>2, LookedFacts DEF Calm, Live
<1>4. \A i, j \in pending : i = j
  BY <1>2, <1>3 DEF MInv, OneLivePerBinding
<1>5. PICK i \in pending : TRUE
  BY <1>1
<1>6. First(pending) = i /\ i \in Ids /\ recs'[i].status = "pending"
  BY <1>1, <1>2, <1>4, <1>5, FirstOfOne
<1> QED
  BY <1>1, <1>6, AtType, LookStep

LEMMA TakeReadyInv == ASSUME MInv, NEW c \in Calls, NEW b \in Bindings, TakeReady(c, b) PROVE MInv' /\ Moved
<1> DEFINE i == First(Ready(b))
           scanned == Sweep(recs, now, i)
<1>1. /\ calls[c].pc # "holding" /\ Ready(b) # {} /\ CanTake(scanned, i, now)
      /\ recs' = Taken(scanned, i, now) /\ handed' = handed \ {i}
      /\ Become(c, At("holding", i)) /\ UNCHANGED <<now, made, lockVars>> /\ UNCHANGED ownerVars
  BY DEF TakeReady, CanHandOver
<1>2. i \in Ids /\ i \in Nat /\ recs[i].status = "approved"
  BY <1>1, ReadyOne DEF Ids
<1>3. KeptAll(recs, scanned, now) /\ AllGood(scanned, now) /\ Calm(recs, scanned, {})
  BY <1>2, Facts, SweepKept, SweepCalm, KeptIsGood
<1> HIDE DEF i, scanned
<1>4. KeptAll(scanned, recs', now) /\ KeptAll(recs, recs', now)
  BY <1>1, <1>2, <1>3, TakenKept, KeptAllTwice, Facts
<1>5. /\ recs'[i].status = "executing"
      /\ \A j \in Ids \ {i} : recs'[j] = scanned[j]
  BY <1>1, <1>2, <1>3, TakenOne, Facts
<1>6. Calm(recs, recs', {i})
  BY <1>2, <1>3, <1>4, <1>5, OneMoveCalm, CalmTwice, Facts
<1>7. IInv'
  BY <1>1, <1>4, KeptInv
<1>8. \A j \in Ids : recs'[j].status = "approved" => recs[j].status = "approved" /\ j # i
  BY <1>4, <1>5, KeptApproved
<1>9. Ready2Hand' /\ handed' \subseteq Ids
  BY <1>1, <1>8, Facts DEF Ready2Hand, MInv, TypeOK
<1> QED
  BY <1>1, <1>2, <1>5, <1>6, <1>7, <1>9, TakesHold

\* A page is put up: no record of its binding was live any more.
LEMMA AskOwnerInv == ASSUME MInv, NEW c \in Calls, NEW b \in Bindings, AskOwner(c, b) PROVE MInv' /\ Moved
<1> DEFINE n == made + 1
           rs == Looked(b)
<1>1. /\ calls[c].pc # "holding" /\ handed' = handed \ Ready(b)
      /\ UNCHANGED <<now, lockVars>> /\ UNCHANGED ownerVars
      /\ WithBatch(rs, b, "executing") = {} /\ WithBatch(rs, b, "pending") = {}
      /\ made < MaxRecords /\ recs' = Created(rs, b, now) /\ made' = made + 1
      /\ Admits(rs, now) /\ Become(c, At("starting", n))
  BY DEF AskOwner, Asks, Enters
<1>2. /\ n \in Ids /\ recs[n].status = "absent" /\ now \in Nat
  BY <1>1, Facts DEF Ids, MInv, IInv, MadeOK
<1>3. /\ KeptAll(recs, rs, now) /\ AllGood(rs, now) /\ Calm(recs, rs, {})
      /\ \A i \in Ids : rs[i].status = "approved" =>
           recs[i].status = "approved" /\ i \notin Ready(b) /\ rs[i].batch # b
  BY LookedFacts
<1> HIDE DEF rs, n
<1>4. IInv'
  BY <1>1, <1>3, CreatedStep DEF StepOK, MInv
<1>5. recs'[n] = Fresh(b, now) /\ \A j \in Ids \ {n} : recs'[j] = Prune(rs, now)[j]
  BY <1>1, <1>2 DEF Created, n, Prune
<1>6. recs'[n].status = "pending" /\ recs'[n].batch = b
  BY <1>5 DEF Fresh
<1>7. \A j \in Ids \ {n} : recs'[j].status = rs[j].status /\ recs'[j].batch = rs[j].batch
  <2>1. \A j \in Ids : Prune(rs, now)[j].status = rs[j].status
    BY <1>2, <1>3, PruneStatus
  <2>2. \A j \in Ids : Prune(rs, now)[j].batch = rs[j].batch
    BY <1>2, <1>3, PruneKept DEF KeptAll, Kept
  <2> QED
    BY <1>5, <2>1, <2>2
<1>8. \A j \in Ids \ {n} : recs'[j].status \in Live => recs'[j].batch # b
  <2> SUFFICES ASSUME NEW j \in Ids \ {n}, recs'[j].status \in Live, recs'[j].batch = b PROVE FALSE
    OBVIOUS
  <2>1. rs[j].status \in Live /\ rs[j].batch = b /\ rs[j].listed
    BY <1>3, <1>7 DEF AllGood, Good
  <2>2. rs[j].status \notin {"pending", "executing"}
    BY <1>1, <2>1 DEF WithBatch
  <2> QED
    BY <1>3, <2>1, <2>2 DEF Live
<1>9. OneLivePerBinding'
  BY <1>3, <1>6, <1>7, <1>8 DEF MInv, OneLivePerBinding, Calm
<1>10. /\ calls \in [Calls -> CallState] /\ calls' = [calls EXCEPT ![c] = At("starting", n)]
       /\ queue' = queue /\ checking' = checking /\ handed' \subseteq Ids
       /\ At("starting", n) \in CallState /\ At("starting", n).pc = "starting" /\ At("starting", n).rec = n
  BY <1>1, <1>2, AtType DEF MInv, TypeOK, Become, ownerVars
<1>11. TypeOK'
  BY <1>4, <1>10 DEF MInv, TypeOK, IInv
<1>12. \A j \in Ids : recs[j].status # "absent" => recs'[j].status # "absent"
  BY <1>2, <1>3, <1>7 DEF Calm
<1>13. Known'
  <2>1. ASSUME NEW d \in Calls, calls'[d].pc # "idle"
        PROVE  calls'[d].rec \in Ids /\ recs'[calls'[d].rec].status # "absent"
    <3>1. CASE d = c
      BY <3>1, <1>2, <1>6, <1>10
    <3>2. CASE d # c
      <4>1. calls'[d] = calls[d]
        BY <3>2, <1>10
      <4> QED
        BY <2>1, <4>1, <1>12 DEF MInv, Known
    <3> QED
      BY <3>1, <3>2
  <2>2. checking' # NoRecord => recs'[checking'].status # "absent"
    BY <1>10, <1>12 DEF MInv, Known, TypeOK
  <2> QED
    BY <2>1, <2>2 DEF Known
<1>14. \A d \in Calls :
         /\ calls'[d].pc = "holding" <=> calls[d].pc = "holding"
         /\ calls'[d].pc = "holding" => calls'[d].rec = calls[d].rec
  BY <1>1, <1>10
<1>15. \A i \in Ids : recs'[i].status = "executing" <=> recs[i].status = "executing"
  BY <1>2, <1>3, <1>6, <1>7 DEF Calm
<1>16. \A i \in Ids : recs'[i].status = "approved" => i \in handed'
  <2>1. \A i \in Ids : recs'[i].status = "approved" => rs[i].status = "approved"
    BY <1>6, <1>7
  <2> QED
    BY <1>1, <1>3, <2>1, Facts DEF Ready2Hand
<1>17. SoleHolder'
  BY <1>14, <1>15, <1>16 DEF MInv, SoleHolder
<1>18. PutsUp(n)
  <2>1. OthersEbb(n)
    BY <1>3, <1>7 DEF OthersEbb, Ebbs, Calm, Live
  <2>2. ASSUME NEW j \in Ids \ {n}, recs[j].batch = b PROVE recs[j].status # "executing"
    <3>1. rs[j].status = "executing" => rs[j].batch = b /\ rs[j].listed
      BY <1>3, <2>2 DEF AllGood, Good, Live, Calm
    <3> QED
      BY <1>1, <1>3, <3>1 DEF WithBatch, Calm
  <2> QED
    BY <1>2, <1>6, <2>1, <2>2 DEF PutsUp
<1> QED
  BY <1>2, <1>4, <1>9, <1>11, <1>13, <1>17, <1>18 DEF MInv, Moved

LEMMA RequestInv == ASSUME MInv, NEW c \in Calls, NEW b \in Bindings, Request(c, b) PROVE MInv' /\ Moved
BY RefuseFlowInv, TakeReadyInv, RefuseInv, JoinPendingInv, AskOwnerInv DEF Request

LEMMA ChannelsFailInv == ASSUME MInv, NEW c \in Calls, ChannelsFail(c) PROVE MInv' /\ Moved
<1>1. /\ calls[c].pc # "holding" /\ Become(c, Returned("error"))
      /\ UNCHANGED storeVars /\ handed' = handed /\ UNCHANGED ownerVars
  BY DEF ChannelsFail
<1>2. Ready2Hand' /\ handed' \subseteq Ids
  BY <1>1, Facts DEF Ready2Hand, MInv, TypeOK, storeVars
<1> QED
  BY <1>1, <1>2, Still, ReturnedType, MovesOn

LEMMA WaitForOwnerInv == ASSUME MInv, NEW c \in Calls, WaitForOwner(c) PROVE MInv' /\ Moved
<1>1. /\ calls[c].pc = "starting" /\ Become(c, At("waiting", calls[c].rec))
      /\ UNCHANGED storeVars /\ handed' = handed /\ UNCHANGED ownerVars
  BY DEF WaitForOwner
<1>2. Ready2Hand' /\ handed' \subseteq Ids
  BY <1>1, Facts DEF Ready2Hand, MInv, TypeOK, storeVars
<1>3. calls[c].rec \in Ids /\ recs'[calls[c].rec].status # "absent"
  BY <1>1 DEF MInv, Known, storeVars
<1> QED
  BY <1>1, <1>2, <1>3, Still, AtType, MovesOn

\* After the wait: nothing to take, a key to take, or nobody to hand it over.
LEMMA ResumeInv == ASSUME MInv, NEW c \in Calls, Resume(c) PROVE MInv' /\ Moved
<1> DEFINE i == calls[c].rec
           seen == IF calls[c].pc = "waiting" THEN [recs EXCEPT ![i] = ExpireIfDue(@, now)] ELSE recs
           taken == Taken(seen, i, now)
           closed == Revoked(taken, i, now)
<1>1. /\ calls[c].pc \in {"starting", "waiting"}
      /\ UNCHANGED <<now, made, lockVars>> /\ UNCHANGED ownerVars
      /\ \/ /\ seen[i].status # "approved"
            /\ recs' = seen /\ handed' = handed /\ Become(c, Returned(Verdict(seen[i].status)))
         \/ /\ seen[i].status = "approved" /\ handed' = handed \ {i}
            /\ CanTake(seen, i, now) /\ recs' = taken /\ Become(c, At("holding", i))
         \/ /\ seen[i].status = "approved" /\ handed' = handed \ {i}
            /\ recs' = closed /\ Become(c, Returned(Verdict(closed[i].status)))
  BY DEF Resume, WaitEnds, CanHandOver
<1>2. i \in Ids /\ now \in Nat /\ AllGood(recs, now) /\ calls[c].pc # "holding"
  BY <1>1, Facts DEF MInv, Known
<1>3. KeptAll(recs, seen, now) /\ Calm(recs, seen, {})
  <2>1. CASE calls[c].pc = "waiting"
    <3>1. KeptAll(recs, seen, now) /\ \A j \in Ids \ {i} : seen[j] = recs[j]
      BY <1>2, <2>1, GetKept
    <3>2. seen[i].status = "executing" <=> recs[i].status = "executing"
      BY <1>2, <2>1, ExpirySpares DEF AllGood
    <3> QED
      BY <1>2, <3>1, <3>2, OneMoveCalm
  <2>2. CASE calls[c].pc # "waiting"
    BY <2>2, Facts
  <2> QED
    BY <2>1, <2>2
<1> HIDE DEF i, seen
<1>4. AllGood(seen, now)
  BY <1>3, KeptIsGood
<1>5. KeptAll(seen, taken, now) /\ KeptAll(recs, taken, now) /\ AllGood(taken, now)
  BY <1>2, <1>3, <1>4, TakenKept, KeptAllTwice, KeptIsGood
<1>6. /\ \A j \in Ids \ {i} : taken[j] = seen[j]
      /\ CanTake(seen, i, now) => taken[i].status = "executing" /\ seen[i].status = "approved"
  BY <1>2, <1>4, TakenOne
<1> HIDE DEF taken
<1>7. KeptAll(recs, closed, now) /\ KeptAll(seen, closed, now)
  BY <1>2, <1>5, RevokedKept, KeptAllTwice
<1>8. closed[i].status \notin Live /\ \A j \in Ids \ {i} : closed[j] = taken[j]
  BY <1>2, <1>5, RevokedEnds
<1> HIDE DEF closed
<1>9. KeptAll(recs, recs', now)
  BY <1>1, <1>3, <1>5, <1>7
<1>10. IInv'
  BY <1>1, <1>9, KeptInv
<1>11. seen[i].status = "approved" => recs[i].status = "approved"
  BY <1>2, <1>3, KeptApproved
<1>12. \A j \in Ids : recs'[j].status = "approved" => recs[j].status = "approved"
  BY <1>9, KeptApproved
<1>13. CASE seen[i].status # "approved"
  <2>1. recs' = seen /\ handed' = handed /\ Become(c, Returned(Verdict(seen[i].status)))
    BY <1>1, <1>13
  <2>2. Ready2Hand' /\ handed' \subseteq Ids
    BY <2>1, <1>12, Facts DEF Ready2Hand, MInv, TypeOK
  <2> QED
    BY <1>1, <1>2, <1>3, <1>10, <2>1, <2>2, ReturnedType, MovesOn
<1>14. CASE /\ seen[i].status = "approved" /\ handed' = handed \ {i}
            /\ CanTake(seen, i, now) /\ recs' = taken /\ Become(c, At("holding", i))
  <2>1. Calm(recs, recs', {i})
    BY <1>2, <1>3, <1>4, <1>5, <1>6, <1>14, OneMoveCalm, CalmTwice
  <2>2. Ready2Hand' /\ handed' \subseteq Ids
    BY <1>6, <1>12, <1>14, Facts DEF Ready2Hand, MInv, TypeOK
  <2> QED
    BY <1>1, <1>2, <1>6, <1>10, <1>11, <1>14, <2>1, <2>2, TakesHold
<1>15. CASE /\ seen[i].status = "approved" /\ handed' = handed \ {i}
            /\ recs' = closed /\ Become(c, Returned(Verdict(closed[i].status)))
  <2>1. closed[i].status # "executing" /\ closed[i].status # "approved"
    BY <1>8 DEF Live
  <2>2. Calm(recs, recs', {})
    <3>1. \A j \in Ids \ {i} : closed[j] = seen[j]
      BY <1>6, <1>8
    <3>2. seen[i].status # "executing"
      BY <1>15
    <3>3. Calm(seen, closed, {})
      BY <1>2, <1>4, <1>7, <2>1, <3>1, <3>2, OneMoveCalm
    <3> QED
      BY <1>3, <1>15, <3>3, CalmTwice
  <2>3. Ready2Hand' /\ handed' \subseteq Ids
    BY <2>1, <1>12, <1>15, Facts DEF Ready2Hand, MInv, TypeOK
  <2> QED
    BY <1>1, <1>2, <1>10, <1>15, <2>2, <2>3, ReturnedType, MovesOn
<1> QED
  BY <1>1, <1>13, <1>14, <1>15

\* The call that holds the key ends its approval, used or given back.
LEMMA EndsInv == ASSUME MInv, NEW c \in Calls, Sign(c) \/ GiveBack(c) PROVE MInv' /\ Moved
<1> DEFINE i == calls[c].rec
<1>1. /\ calls[c].pc = "holding" /\ UNCHANGED <<now, made, lockVars>> /\ UNCHANGED <<handed, ownerVars>>
      /\ \/ recs' = Finished(recs, i, now) /\ Become(c, Returned("signed"))
         \/ recs' = Revoked(recs, i, now) /\ Become(c, Returned("revoked"))
  BY DEF Sign, GiveBack
<1>2. i \in Ids /\ recs[i].status = "executing" /\ now \in Nat /\ AllGood(recs, now)
  BY <1>1, Facts DEF MInv, Known, SoleHolder
<1> HIDE DEF i
<1>3. KeptAll(recs, recs', now)
  BY <1>1, <1>2, FinishedKept, RevokedKept
<1>4. recs'[i].status \notin Live /\ \A j \in Ids \ {i} : recs'[j] = recs[j]
  <2>1. CASE recs' = Finished(recs, i, now)
    <3>1. Close(recs[i], "consumed", now).status = "consumed"
      BY <1>2, CloseKept DEF AllGood, Live, Terminal
    <3>2. recs' = [recs EXCEPT ![i] = Close(recs[i], "consumed", now)] /\ recs \in [Ids -> Record]
      BY <1>2, <2>1 DEF Finished, AllGood
    <3> QED
      BY <1>2, <3>1, <3>2 DEF Live
  <2>2. CASE recs' = Revoked(recs, i, now)
    BY <1>2, <2>2, RevokedEnds
  <2> QED
    BY <1>1, <2>1, <2>2
<1>5. Calm(recs, recs', {i})
  BY <1>2, <1>3, <1>4, OneMoveCalm DEF Live
<1>6. IInv'
  BY <1>1, <1>3, KeptInv
<1>7. Ready2Hand'
  BY <1>1, <1>3, KeptApproved, Facts DEF Ready2Hand
<1>8. PICK result : Become(c, Returned(result))
  BY <1>1
<1> QED
  BY <1>1, <1>4, <1>5, <1>6, <1>7, <1>8, GivesUp DEF i

-----------------------------------------------------------------------------
(* The manager: the owner, the clock, and every step.                      *)

LEMMA SubmitPasswordInv == ASSUME MInv, NEW i \in Ids, SubmitPassword(i) PROVE MInv' /\ Moved
<1>1. /\ UNCHANGED storeVars /\ handed' = handed /\ checking' = checking /\ calls' = calls
      /\ queue' = Append(queue, i)
  BY DEF SubmitPassword
<1>2. /\ Ready2Hand' /\ handed' \subseteq Ids /\ queue' \in Seq(Ids)
      /\ checking' \in Ids \cup {NoRecord}
      /\ checking' \in Ids => recs'[checking'].status # "absent"
  BY <1>1, Facts DEF Ready2Hand, MInv, TypeOK, Known, NoRecord, Ids, storeVars
<1> QED
  BY <1>1, <1>2, Still, CallsStand

LEMMA OwnerDeclinesInv == ASSUME MInv, NEW i \in Ids, OwnerDeclines(i) PROVE MInv' /\ Moved
<1>1. /\ recs' = Declined(recs, i, now) /\ UNCHANGED <<now, made, lockVars>>
      /\ handed' = handed /\ queue' = queue /\ checking' = checking /\ calls' = calls
  BY DEF OwnerDeclines, ownerVars
<1>2. KeptAll(recs, recs', now) /\ Calm(recs, recs', {})
  BY <1>1, Facts, DeclinedKept, DeclinedCalm
<1>3. IInv'
  BY <1>1, <1>2, KeptInv
<1>4. Ready2Hand' /\ handed' \subseteq Ids
  BY <1>1, <1>2, KeptApproved, Facts DEF Ready2Hand, MInv, TypeOK
<1>5. /\ queue' \in Seq(Ids) /\ checking' \in Ids \cup {NoRecord}
      /\ checking' \in Ids => recs'[checking'].status # "absent"
  BY <1>1, <1>2 DEF MInv, TypeOK, Known, Calm, NoRecord, Ids
<1> QED
  BY <1>1, <1>2, <1>3, <1>4, <1>5, CallsStand

\* The next password is refused, or its check begins.
LEMMA NextPasswordInv == ASSUME MInv, RefuseCheck \/ StartCheck PROVE MInv' /\ Moved
<1>1. /\ UNCHANGED storeVars /\ handed' = handed /\ calls' = calls /\ queue # << >>
      /\ queue' = Tail(queue)
      /\ \/ checking' = checking
         \/ checking' = Head(queue) /\ recs[Head(queue)].status = "pending"
  BY DEF RefuseCheck, StartCheck
<1>2. queue \in Seq(Ids) /\ Head(queue) \in Ids /\ Tail(queue) \in Seq(Ids)
  BY <1>1 DEF MInv, TypeOK
<1>3. Ready2Hand' /\ handed' \subseteq Ids
  BY <1>1, Facts DEF Ready2Hand, MInv, TypeOK, storeVars
<1>4. recs' = recs
  BY <1>1 DEF storeVars
<1>5. /\ checking' \in Ids \cup {NoRecord}
      /\ checking' \in Ids => recs'[checking'].status # "absent"
  BY <1>1, <1>2, <1>4 DEF MInv, TypeOK, Known, NoRecord, Ids
<1> QED
  BY <1>1, <1>2, <1>3, <1>5, Still, CallsStand

\* The decryption ends without an approval.
LEMMA CheckFailsInv ==
  ASSUME MInv, CheckEnds, handed' = handed, IInv', KeptAll(recs, recs', now), Calm(recs, recs', {})
  PROVE  MInv' /\ Moved
<1>1. queue' = queue /\ checking' = NoRecord /\ calls' = calls
  BY DEF CheckEnds
<1>2. Ready2Hand' /\ handed' \subseteq Ids
  BY KeptApproved, Facts DEF Ready2Hand, MInv, TypeOK
<1>3. /\ queue' \in Seq(Ids) /\ checking' \in Ids \cup {NoRecord} /\ checking' \notin Ids
  BY <1>1 DEF MInv, TypeOK, NoRecord, Ids
<1> QED
  BY <1>1, <1>2, <1>3, CallsStand

LEMMA CheckedOne ==
  ASSUME MInv, CheckEnds
  PROVE  checking \in Ids /\ recs[checking].status # "absent"
BY DEF MInv, TypeOK, Known, CheckEnds

LEMMA WrongPasswordInv == ASSUME MInv, WrongPassword PROVE MInv' /\ Moved
<1> DEFINE i == checking
           counted == [recs EXCEPT ![i].failures = @ + 1]
<1>1. /\ CheckEnds /\ handed' = handed /\ recs' = Failed(recs, i, now) /\ CountFailure(now)
      /\ UNCHANGED <<now, made>>
  BY DEF WrongPassword, CheckEnds
<1>2. i \in Ids /\ AllGood(recs, now) /\ now \in Nat /\ recs \in [Ids -> Record]
  BY <1>1, CheckedOne, Facts DEF AllGood
<1>3. KeptAll(recs, recs', now)
  BY <1>1, <1>2, FailedKept
<1>4. IInv'
  BY <1>1, <1>3, CountFailureType, KeptStep DEF StepOK, MInv, IInv
<1>5. \A j \in Ids \ {i} : recs'[j] = recs[j]
  BY <1>1, <1>2 DEF Failed, Declined
<1>6. recs'[i].status = "executing" <=> recs[i].status = "executing"
  <2>1. CASE recs[i].status = "pending"
    BY <1>2, <1>3, <2>1, NotTaken
  <2>2. CASE recs[i].status # "pending"
    BY <1>1, <2>2 DEF Failed
  <2> QED
    BY <2>1, <2>2
<1> HIDE DEF i
<1>7. Calm(recs, recs', {})
  BY <1>2, <1>3, <1>5, <1>6, OneMoveCalm
<1> QED
  BY <1>1, <1>3, <1>4, <1>7, CheckFailsInv

LEMMA WrongKeystoreInv == ASSUME MInv, WrongKeystore PROVE MInv' /\ Moved
<1>1. /\ CheckEnds /\ handed' = handed /\ recs' = Declined(recs, checking, now)
      /\ UNCHANGED <<now, made, lockVars>>
  BY DEF WrongKeystore, CheckEnds
<1>2. KeptAll(recs, recs', now) /\ Calm(recs, recs', {})
  BY <1>1, CheckedOne, Facts, DeclinedKept, DeclinedCalm
<1> QED
  BY <1>1, <1>2, KeptInv, CheckFailsInv

LEMMA NoKeystoreInv == ASSUME MInv, NoKeystore PROVE MInv' /\ Moved
<1>1. CheckEnds /\ handed' = handed /\ recs' = recs /\ UNCHANGED <<now, made, lockVars>>
  BY DEF NoKeystore, CheckEnds
<1>2. KeptAll(recs, recs', now) /\ Calm(recs, recs', {})
  BY <1>1, Facts
<1> QED
  BY <1>1, <1>2, KeptInv, CheckFailsInv

\* approve() supersedes approvals, never one in use.
LEMMA ApprovedSpares ==
  ASSUME NEW t \in Nat, NEW rs, AllGood(rs, t), NEW i \in Ids, rs[i].status # "absent", NEW j \in Ids
  PROVE  Approved(rs, i, t)[j].status = "executing" <=> rs[j].status = "executing"
<1> DEFINE r == ExpireIfDue(rs[i], t)
           qs == Approved(rs, i, t)
<1>1. /\ rs \in [Ids -> Record] /\ Good(rs[i], t) /\ Good(rs[j], t)
      /\ r.status = "executing" <=> rs[i].status = "executing"
  BY ExpirySpares DEF AllGood
<1>2. Kept(rs[j], qs[j], t) \/ (qs[j].status = "approved" /\ rs[j].status = "pending")
  BY ApprovedMoves
<1>3. qs[j].status = "executing" => rs[j].status \in {"approved", "executing"}
  BY <1>2 DEF Kept
<1>4. CASE r.status # "pending"
  <2>1. qs = [rs EXCEPT ![i] = r]
    BY <1>4 DEF Approved
  <2> QED
    BY <1>1, <2>1
<1>5. CASE r.status = "pending"
  <2>1. rs[i].status = "pending"
    BY <1>1, <1>5, ExpireKept
  <2>2. j # i => qs[j] \in {rs[j], Close(rs[j], "revoked", t)}
    BY <1>5 DEF Approved
  <2>3. j # i /\ rs[j].status # "approved" => qs[j] = rs[j]
    BY <1>5 DEF Approved
  <2>4. j # i /\ rs[j].status = "approved" => qs[j].status # "executing"
    <3>1. rs[j].status = "approved" => Close(rs[j], "revoked", t).status = "revoked"
      BY <1>1, CloseKept DEF Live, Terminal
    <3> QED
      BY <2>2, <3>1
  <2>5. j = i => qs[j].status # "executing"
    BY <1>3, <2>1
  <2> QED
    BY <2>1, <2>3, <2>4, <2>5
<1> QED
  BY <1>4, <1>5

\* The owner's password fits: the record may become approved, with its holder.
LEMMA RightPasswordInv == ASSUME MInv, RightPassword PROVE MInv' /\ Moved
<1> DEFINE i == checking
<1>1. /\ recs' = Approved(recs, i, now) /\ UNCHANGED <<now, made, lockVars>>
      /\ handed' = IF recs'[i].status = "approved" THEN handed \cup {i} ELSE handed
      /\ queue' = queue /\ checking' = NoRecord /\ calls' = calls
  BY DEF RightPassword, CheckEnds
<1>2. i \in Ids /\ recs[i].status # "absent" /\ AllGood(recs, now) /\ now \in Nat
  BY CheckedOne, Facts DEF RightPassword
<1>3. IInv'
  BY <1>1, <1>2, ApproveStep DEF Approve, StepOK, MInv
<1>4. /\ \A j \in Ids \ {i} : Kept(recs[j], recs'[j], now)
      /\ \/ Kept(recs[i], recs'[i], now)
         \/ /\ recs'[i].batch = recs[i].batch
            /\ recs[i].status = "pending" /\ recs'[i].status = "approved"
            /\ \A j \in Ids \ {i} :
                 recs'[j].status = "approved" => FlowOf[recs[j].batch] # FlowOf[recs[i].batch]
  BY <1>1, <1>2, ApprovedMoves
<1>5. \A j \in Ids : recs'[j].status = "executing" <=> recs[j].status = "executing"
  BY <1>1, <1>2, ApprovedSpares
<1> HIDE DEF i
<1>6. \A j \in Ids :
        /\ recs'[j].batch = recs[j].batch
        /\ recs'[j].status = "absent" <=> recs[j].status = "absent"
        /\ recs'[j].status \in Live => recs[j].status \in Live
        /\ Kept(recs[j], recs'[j], now) => Ebbs(recs[j], recs'[j])
  <2> SUFFICES ASSUME NEW j \in Ids
               PROVE  /\ recs'[j].batch = recs[j].batch
                      /\ recs'[j].status = "absent" <=> recs[j].status = "absent"
                      /\ recs'[j].status \in Live => recs[j].status \in Live
                      /\ Kept(recs[j], recs'[j], now) => Ebbs(recs[j], recs'[j])
    OBVIOUS
  <2>1. CASE Kept(recs[j], recs'[j], now)
    <3>1. recs'[j].status \in Live => recs'[j].status = recs[j].status
      BY <1>5, <2>1 DEF Kept, Live
    <3> QED
      BY <1>5, <2>1, <3>1 DEF Kept, Ebbs
  <2>2. CASE ~ Kept(recs[j], recs'[j], now)
    BY <1>4, <2>2 DEF Live
  <2> QED
    BY <2>1, <2>2
<1>7. Ready2Hand'
  <2>1. ASSUME NEW j \in Ids, recs'[j].status = "approved", j # i
        PROVE  j \in handed
    BY <1>4, <2>1, Facts DEF Kept, Ready2Hand
  <2> QED
    BY <1>1, <2>1 DEF Ready2Hand
<1>8. handed' \subseteq Ids
  BY <1>1, <1>2 DEF MInv, TypeOK
<1>9. queue' \in Seq(Ids)
  BY <1>1 DEF MInv, TypeOK
<1>10. checking' \in Ids \cup {NoRecord} /\ checking' \notin Ids
  BY <1>1 DEF NoRecord, Ids
<1>11. TypeOK'
  BY <1>1, <1>3, <1>8, <1>9, <1>10 DEF MInv, TypeOK, IInv
<1>12. Known'
  BY <1>1, <1>6 DEF MInv, Known
<1>13. OneLivePerBinding'
  BY <1>6 DEF MInv, OneLivePerBinding
<1>14. SoleHolder'
  BY <1>1, <1>5, <1>7 DEF MInv, SoleHolder, Ready2Hand
<1>15. Moved
  <2>1. CASE Kept(recs[i], recs'[i], now)
    BY <1>4, <1>6, <2>1 DEF Moved, Lapses
  <2>2. CASE ~ Kept(recs[i], recs'[i], now)
    <3>1. Grants(i)
      BY <1>4, <1>6, <2>2 DEF Grants, OthersEbb
    <3> QED
      BY <1>2, <3>1 DEF Moved
  <2> QED
    BY <2>1, <2>2
<1> QED
  BY <1>3, <1>11, <1>12, <1>13, <1>14, <1>15 DEF MInv

LEMMA ClockTicksInv == ASSUME MInv, ClockTicks PROVE MInv' /\ Moved
<1>1. /\ Tick /\ handed' = handed /\ queue' = queue /\ checking' = checking /\ calls' = calls
      /\ recs' = recs
  BY DEF ClockTicks, Tick
<1>2. IInv'
  BY <1>1, IInvKept DEF MInv, StoreNext
<1>3. Calm(recs, recs', {})
  BY <1>1 DEF Calm
<1>4. /\ Ready2Hand' /\ handed' \subseteq Ids /\ queue' \in Seq(Ids)
      /\ checking' \in Ids \cup {NoRecord}
      /\ checking' \in Ids => recs'[checking'].status # "absent"
  BY <1>1, Facts DEF Ready2Hand, MInv, TypeOK, Known, NoRecord, Ids
<1> QED
  BY <1>1, <1>2, <1>3, <1>4, CallsStand

LEMMA RecordTimerInv == ASSUME MInv, NEW i \in Listed, RecordTimer(i) PROVE MInv' /\ Moved
<1>1. /\ TimerFires(i) /\ handed' = handed /\ queue' = queue /\ checking' = checking /\ calls' = calls
  BY DEF RecordTimer
<1>2. i \in Ids /\ recs' = [recs EXCEPT ![i] = ExpireIfDue(recs[i], now)]
  BY <1>1 DEF TimerFires, ExpireIfDue, Listed
<1>3. IInv'
  BY <1>1, IInvKept DEF MInv, StoreNext
<1>4. KeptAll(recs, recs', now) /\ AllGood(recs, now) /\ now \in Nat /\ recs \in [Ids -> Record]
  BY <1>2, Facts, GetKept DEF AllGood
<1>5. recs'[i].status = "executing" <=> recs[i].status = "executing"
  BY <1>2, <1>4, ExpirySpares DEF AllGood
<1>6. \A j \in Ids \ {i} : recs'[j] = recs[j]
  BY <1>2, <1>4
<1>7. Calm(recs, recs', {})
  BY <1>2, <1>4, <1>5, <1>6, OneMoveCalm
<1>8. Ready2Hand' /\ handed' \subseteq Ids
  BY <1>1, <1>4, KeptApproved, Facts DEF Ready2Hand, MInv, TypeOK
<1>9. /\ queue' \in Seq(Ids) /\ checking' \in Ids \cup {NoRecord}
      /\ checking' \in Ids => recs'[checking'].status # "absent"
  BY <1>1, <1>7 DEF MInv, TypeOK, Known, Calm, NoRecord, Ids
<1> QED
  BY <1>1, <1>3, <1>7, <1>8, <1>9, CallsStand

LEMMA MInvInit == Init => MInv
<1> SUFFICES ASSUME Init PROVE MInv
  OBVIOUS
<1>1. /\ StoreInit /\ handed = {} /\ queue = << >> /\ checking = NoRecord
      /\ calls = [c \in Calls |-> Returned("nothing")]
  BY DEF Init
<1>2. IInv
  BY <1>1, InitEstablishes
<1>3. Returned("nothing") \in CallState /\ Returned("nothing").pc = "idle"
  BY ReturnedType
<1>4. \A i \in Ids : recs[i].status = "absent"
  BY <1>1 DEF StoreInit, Absent
<1>5. TypeOK /\ Known
  BY <1>1, <1>2, <1>3 DEF TypeOK, Known, IInv
<1>6. OneLivePerBinding /\ SoleHolder
  BY <1>1, <1>3, <1>4 DEF OneLivePerBinding, SoleHolder, Live
<1> QED
  BY <1>2, <1>5, <1>6 DEF MInv

LEMMA MInvStep == MInv /\ [Next]_vars => MInv' /\ Moved
<1> SUFFICES ASSUME MInv, [Next]_vars PROVE MInv' /\ Moved
  OBVIOUS
<1>1. CASE UNCHANGED vars
  <2>1. IInv' /\ Moved
    BY <1>1, Still, CalmLapses DEF vars, Moved
  <2>2. TypeOK' /\ Known' /\ OneLivePerBinding' /\ SoleHolder'
    BY <1>1, <2>1 DEF vars, storeVars, MInv, IInv, TypeOK, Known, OneLivePerBinding, SoleHolder
  <2> QED
    BY <2>1, <2>2 DEF MInv
<1>2. CASE ClockTicks
  BY <1>2, ClockTicksInv
<1>3. CASE Check
  BY <1>3, NextPasswordInv, RightPasswordInv, WrongPasswordInv, WrongKeystoreInv, NoKeystoreInv DEF Check
<1>4. ASSUME NEW i \in Listed, RecordTimer(i) \/ SubmitPassword(i) \/ OwnerDeclines(i)
      PROVE  MInv' /\ Moved
  BY <1>4, RecordTimerInv, SubmitPasswordInv, OwnerDeclinesInv DEF Listed
<1>5. ASSUME NEW c \in Calls, ChannelsFail(c) \/ WaitForOwner(c) \/ Resume(c) \/ Sign(c) \/ GiveBack(c)
      PROVE  MInv' /\ Moved
  BY <1>5, ChannelsFailInv, WaitForOwnerInv, ResumeInv, EndsInv
<1>6. ASSUME NEW c \in Calls, NEW b \in Bindings, Request(c, b)
      PROVE  MInv' /\ Moved
  BY <1>6, RequestInv
<1> QED
  BY <1>1, <1>2, <1>3, <1>4, <1>5, <1>6 DEF Next

THEOREM ManagerInvariant == Spec => []MInv
BY MInvInit, MInvStep, PTL DEF Spec

-----------------------------------------------------------------------------
(* The properties of the manager.                                          *)

\* The state of the manager always has its type.
THEOREM ManagerTypes == Spec => []TypeOK
<1>1. MInv => TypeOK
  BY DEF MInv
<1> QED
  BY <1>1, ManagerInvariant, PTL

\* The limits hold of the manager: of every call that asks, joins, waits or
\* gives back.
THEOREM ManagerAsksSparingly == Spec => []BoundedNagging
<1>1. MInv => BoundedNagging
  BY DEF MInv, IInv
<1> QED
  BY <1>1, ManagerInvariant, PTL

\* Calls that race between the scan and the creation never put up a second
\* page for a binding that has an open one.
THEOREM OnePagePerBatch == Spec => []OneLivePerBinding
<1>1. MInv => OneLivePerBinding
  BY DEF MInv
<1> QED
  BY <1>1, ManagerInvariant, PTL

\* Exactly one call holds the key of an executing approval, and an approved
\* one always has a holder to hand over, whatever calls wait for it.
THEOREM KeysHaveOneHolder == Spec => []SoleHolder
<1>1. MInv => SoleHolder
  BY DEF MInv
<1> QED
  BY <1>1, ManagerInvariant, PTL

-----------------------------------------------------------------------------
(* The manager: its action properties.                                     *)

\* A decryption never runs while entry is locked.
CheckedUnlocked == checking # NoRecord => ~ Locked

LEMMA CheckedUnlockedStep == MInv /\ CheckedUnlocked /\ [Next]_vars => CheckedUnlocked'
<1> SUFFICES ASSUME MInv, CheckedUnlocked, [Next]_vars PROVE CheckedUnlocked'
  OBVIOUS
<1>1. now \in Nat /\ lockedUntil \in Int
  BY Facts DEF LockTypeOK
<1>2. CASE UNCHANGED <<now, lockVars, checking>>
  BY <1>2 DEF CheckedUnlocked, Locked, lockVars
<1>3. CASE checking' = NoRecord
  BY <1>3 DEF CheckedUnlocked
<1>4. CASE StartCheck
  BY <1>4 DEF StartCheck, CheckedUnlocked, Locked, storeVars, lockVars
<1>5. CASE ClockTicks
  BY <1>1, <1>5 DEF ClockTicks, Tick, CheckedUnlocked, Locked, lockVars
<1>6. Next => UNCHANGED <<now, lockVars, checking>> \/ checking' = NoRecord \/ StartCheck \/ ClockTicks
  BY DEF Next, Check, RefuseCheck, RightPassword, WrongPassword, WrongKeystore, NoKeystore, CheckEnds,
         RecordTimer, TimerFires, SubmitPassword, OwnerDeclines, ChannelsFail, WaitForOwner, Resume,
         Sign, GiveBack, Request, RefuseFlow, TakeReady, RefuseDeclined, RefuseExecuting, JoinPending,
         Throttle, AskOwner, Asks, Enters, ownerVars, storeVars
<1>7. UNCHANGED vars => UNCHANGED <<now, lockVars, checking>>
  BY DEF vars, storeVars
<1> QED
  BY <1>2, <1>3, <1>4, <1>5, <1>6, <1>7

\* No password is checked while entry is locked, so no lockout starts before
\* the last one has ended, and each has the full length of its turn.
THEOREM LockoutsAreServed == Spec => LockoutHolds
<1> DEFINE Served ==
      /\ (checking # NoRecord /\ checking' = NoRecord) => ~ Locked
      /\ lockouts' # lockouts => /\ ~ Locked
                                 /\ lockedUntil' = now + LockoutFor(lockouts')
<1>1. Init => CheckedUnlocked
  BY DEF Init, CheckedUnlocked
<1>2. MInv /\ CheckedUnlocked /\ [Next]_vars => [Served]_vars
  <2> SUFFICES ASSUME MInv, CheckedUnlocked, Next PROVE Served
    OBVIOUS
  <2>1. (checking # NoRecord /\ checking' = NoRecord) => ~ Locked
    BY DEF CheckedUnlocked
  <2>2. CASE WrongPassword
    <3>1. checking # NoRecord /\ CountFailure(now)
      BY <2>2 DEF WrongPassword, CheckEnds
    <3>2. lockouts' # lockouts => lockedUntil' = now + LockoutFor(lockouts')
      BY <3>1 DEF CountFailure
    <3> QED
      BY <2>1, <3>1, <3>2 DEF CheckedUnlocked
  <2>3. CASE ~ WrongPassword
    <3>1. lockouts' = lockouts
      BY <2>3 DEF Next, Check, RefuseCheck, StartCheck, RightPassword, WrongKeystore, NoKeystore, ClockTicks, Tick,
             RecordTimer, TimerFires, SubmitPassword, OwnerDeclines, ChannelsFail, WaitForOwner, Resume,
             Sign, GiveBack, Request, RefuseFlow, TakeReady, RefuseDeclined, RefuseExecuting, JoinPending,
             Throttle, AskOwner, Asks, Enters, storeVars, lockVars
    <3> QED
      BY <2>1, <3>1
  <2> QED
    BY <2>2, <2>3
<1>3. Spec => []CheckedUnlocked
  BY <1>1, CheckedUnlockedStep, ManagerInvariant, PTL DEF Spec
<1> QED
  BY <1>2, <1>3, ManagerInvariant, PTL DEF Spec, LockoutHolds

\* Only AskOwner puts up a page.
LEMMA OnlyAskMakes ==
  ASSUME Next, made' # made
  PROVE  \E c \in Calls, b \in Bindings : AskOwner(c, b)
BY DEF Next, Check, RefuseCheck, StartCheck, RightPassword, WrongPassword, WrongKeystore, NoKeystore, CheckEnds,
       ClockTicks, Tick, RecordTimer, TimerFires, SubmitPassword, OwnerDeclines, ChannelsFail, WaitForOwner,
       Resume, Sign, GiveBack, Request, RefuseFlow, TakeReady, RefuseDeclined, RefuseExecuting, JoinPending,
       Throttle, Enters, storeVars

\* A decline holds for its binding, and for a login message for its flow,
\* through pruning and expiry, until its cooldown is over.
THEOREM DeclinesAreHeeded == Spec => DeclineHolds
<1> DEFINE Heeded ==
      made' # made =>
        LET b == recs'[made'].batch IN
        \A j \in 1..made :
          (/\ recs[j].status = "declined"
           /\ recs[j].batch = b \/ (b \in Messages /\ FlowOf[recs[j].batch] = FlowOf[b]))
            => now >= recs[j].decidedAt + Cooldown
<1>1. MInv /\ [Next]_vars => [Heeded]_vars
  <2> SUFFICES ASSUME MInv, Next, made' # made PROVE Heeded
    OBVIOUS
  <2>1. PICK c \in Calls, b \in Bindings : AskOwner(c, b)
    BY OnlyAskMakes
  <2> DEFINE rs == Looked(b)
  <2>2. /\ made' = made + 1 /\ made + 1 \in Ids /\ now \in Nat
        /\ recs' = Created(rs, b, now) /\ RecentDecline(rs, b, now) = {}
        /\ b \in Messages => RecentFlowDecline(recs, FlowOf[b], now) = {}
    BY <2>1, Facts DEF AskOwner, Asks, Enters, FlowDeclined, Ids
  <2>3. KeptAll(recs, rs, now) /\ AllGood(rs, now) /\ AllGood(recs, now)
    BY LookedFacts, Facts
  <2> HIDE DEF rs
  <2>4. recs'[made'].batch = b
    BY <2>2 DEF Created, Prune, Fresh
  <2> SUFFICES ASSUME NEW j \in 1..made, recs[j].status = "declined",
                      recs[j].batch = b \/ (b \in Messages /\ FlowOf[recs[j].batch] = FlowOf[b])
               PROVE  now >= recs[j].decidedAt + Cooldown
    BY <2>4
  <2>5. j \in Ids /\ "declined" \in Terminal
    BY Facts DEF Ids, Terminal
  <2>6. recs[j].decidedAt \in Int /\ Cooldown \in Nat
    BY <2>3, <2>5, WindowAssumption DEF AllGood, Record, NotDecided
  <2>7. CASE recs[j].batch = b
    <3>1. rs[j].status = "declined" /\ rs[j].decidedAt = recs[j].decidedAt /\ rs[j].batch = b /\ Good(rs[j], now)
      BY <2>3, <2>5, <2>7 DEF KeptAll, Kept
    <3>2. CASE rs[j].listed
      BY <2>2, <2>5, <2>6, <3>1, <3>2 DEF RecentDecline, WithBatch
    <3>3. CASE ~ rs[j].listed
      BY <2>2, <2>5, <2>6, <3>1, <3>3 DEF Good
    <3> QED
      BY <3>2, <3>3
  <2>8. CASE b \in Messages /\ FlowOf[recs[j].batch] = FlowOf[b]
    <3>1. Good(recs[j], now)
      BY <2>3, <2>5 DEF AllGood
    <3>2. CASE recs[j].listed
      BY <2>2, <2>5, <2>6, <2>8, <3>2 DEF RecentFlowDecline, Flow
    <3>3. CASE ~ recs[j].listed
      BY <2>2, <2>5, <2>6, <3>1, <3>3 DEF Good
    <3> QED
      BY <3>2, <3>3
  <2> QED
    BY <2>7, <2>8
<1> QED
  BY <1>1, ManagerInvariant, PTL DEF Spec, DeclineHolds

-----------------------------------------------------------------------------
(* The manager keeps the promise of OwnerConsent.                          *)

Name(status) ==
  CASE status = "pending" -> "asked"
    [] status = "approved" -> "granted"
    [] status = "executing" -> "inUse"

\* Where the consent for a binding stands is where its live record stands.
Stands ==
  \A b \in Bindings :
    /\ \A i \in Ids : (recs[i].status \in Live /\ recs[i].batch = b) => ConsentOf(b) = Name(recs[i].status)
    /\ (\A i \in Ids : recs[i].status \in Live => recs[i].batch # b) => ConsentOf(b) = "none"

LEMMA ConsentStands == MInv => Stands
<1> SUFFICES ASSUME MInv, NEW b \in Bindings
             PROVE  /\ \A i \in Ids : (recs[i].status \in Live /\ recs[i].batch = b) => ConsentOf(b) = Name(recs[i].status)
                    /\ (\A i \in Ids : recs[i].status \in Live => recs[i].batch # b) => ConsentOf(b) = "none"
  BY DEF Stands
<1>1. ASSUME NEW i \in Ids, recs[i].status \in Live, recs[i].batch = b
      PROVE  ConsentOf(b) = Name(recs[i].status)
  <2>1. /\ LiveOf(b) \subseteq Ids /\ i \in LiveOf(b)
        /\ \A j, k \in LiveOf(b) : j = k
    BY <1>1 DEF LiveOf, MInv, OneLivePerBinding
  <2>2. First(LiveOf(b)) = i /\ LiveOf(b) # {}
    BY <2>1, FirstOfOne
  <2> QED
    BY <2>2 DEF ConsentOf, Name
<1>2. ASSUME \A i \in Ids : recs[i].status \in Live => recs[i].batch # b
      PROVE  ConsentOf(b) = "none"
  <2>1. LiveOf(b) = {}
    BY <1>2 DEF LiveOf
  <2> QED
    BY <2>1 DEF ConsentOf
<1> QED
  BY <1>1, <1>2

LEMMA ConsentStandsNext == MInv' => Stands'
BY ConsentStands, PTL

\* The consent for a binding whose records only ebb.
LEMMA EbbingConsent ==
  ASSUME Stands, Stands', AllGood(recs, now), NEW b \in Bindings,
         \A i \in Ids :
           \/ recs[i].status \in Live /\ recs[i].batch = b
           \/ recs'[i].status \in Live /\ recs'[i].batch = b
           => Ebbs(recs[i], recs'[i])
  PROVE  /\ ConsentOf(b)' \in {ConsentOf(b), "none"}
         /\ ConsentOf(b)' # ConsentOf(b) => ConsentOf(b) \in {"asked", "granted"}
<1>1. CASE \E i \in Ids : recs'[i].status \in Live /\ recs'[i].batch = b
  <2>1. PICK i \in Ids : recs'[i].status \in Live /\ recs'[i].batch = b
    BY <1>1
  <2>2. recs[i].status = recs'[i].status /\ recs[i].batch = b
    BY <2>1 DEF Ebbs
  <2>3. ConsentOf(b)' = Name(recs'[i].status)
    BY <2>1 DEF Stands
  <2>4. ConsentOf(b) = Name(recs[i].status)
    BY <2>1, <2>2 DEF Stands
  <2> QED
    BY <2>2, <2>3, <2>4
<1>2. CASE \A i \in Ids : recs'[i].status \in Live => recs'[i].batch # b
  <2>1. ConsentOf(b)' = "none"
    BY <1>2 DEF Stands
  <2>2. CASE \E i \in Ids : recs[i].status \in Live /\ recs[i].batch = b
    <3>1. PICK i \in Ids : recs[i].status \in Live /\ recs[i].batch = b
      BY <2>2
    <3>2. recs[i].status # "executing"
      BY <1>2, <3>1 DEF Ebbs, Live
    <3>3. ConsentOf(b) = Name(recs[i].status)
      BY <3>1 DEF Stands
    <3>4. ConsentOf(b) \in {"asked", "granted"}
      BY <3>1, <3>2, <3>3 DEF Name, Live
    <3> QED
      BY <2>1, <3>4
  <2>3. CASE \A i \in Ids : recs[i].status \in Live => recs[i].batch # b
    <3>1. ConsentOf(b) = "none"
      BY <2>3 DEF Stands
    <3> QED
      BY <2>1, <3>1
  <2> QED
    BY <2>2, <2>3
<1> QED
  BY <1>1, <1>2

\* The bindings other than d whose consent lapses with this step.
Lapsing(d) == {b \in Bindings \ {d} : ConsentOf(b)' # ConsentOf(b)}

\* One record moves, the others ebb: so does the consent for other bindings.
LEMMA OthersLapse ==
  ASSUME Stands, Stands', AllGood(recs, now), NEW i \in Ids, OthersEbb(i), NEW d,
         recs'[i].batch = d, recs[i].batch = d \/ recs[i].status = "absent"
  PROVE  /\ Lapsing(d) \in SUBSET (Consent!Unused \ {d})
         /\ \A b \in Bindings \ {d} : ConsentOf(b)' = IF b \in Lapsing(d) THEN "none" ELSE ConsentOf(b)
<1>1. ASSUME NEW b \in Bindings \ {d}
      PROVE  /\ ConsentOf(b)' \in {ConsentOf(b), "none"}
             /\ ConsentOf(b)' # ConsentOf(b) => ConsentOf(b) \in {"asked", "granted"}
  <2>1. recs[i].status \in Live => recs[i].batch = d
    BY DEF Live
  <2>2. \A j \in Ids :
          \/ recs[j].status \in Live /\ recs[j].batch = b
          \/ recs'[j].status \in Live /\ recs'[j].batch = b
          => Ebbs(recs[j], recs'[j])
    BY <2>1 DEF OthersEbb
  <2> QED
    BY <2>2, EbbingConsent
<1> QED
  BY <1>1 DEF Lapsing, Consent!Unused

\* However a step moves the records, it moves the consent as promised.
LEMMA ConsentMoves ==
  ASSUME MInv, MInv', Moved
  PROVE  Consent!Next
<1> DEFINE Con == [b \in Bindings |-> ConsentOf(b)]
<1>1. Stands /\ Stands' /\ AllGood(recs, now)
  BY ConsentStands, ConsentStandsNext, Facts
<1>2. CASE Lapses
  <2> DEFINE S == {b \in Bindings : ConsentOf(b)' # ConsentOf(b)}
  <2>1. \A b \in Bindings :
          /\ ConsentOf(b)' \in {ConsentOf(b), "none"}
          /\ ConsentOf(b)' # ConsentOf(b) => ConsentOf(b) \in {"asked", "granted"}
    BY <1>1, <1>2, EbbingConsent DEF Lapses
  <2>2. S \in SUBSET Consent!Unused
    BY <2>1 DEF Consent!Unused
  <2>3. Con' = Consent!Lapsed(S)
    BY <2>1 DEF Consent!Lapsed
  <2> HIDE DEF S
  <2>4. Consent!Lapse
    BY <2>2, <2>3 DEF Consent!Lapse
  <2> QED
    BY <2>4 DEF Consent!Next
<1>3. ASSUME NEW i \in Ids, Grants(i) \/ Uses(i) \/ Spends(i) \/ PutsUp(i)
      PROVE  Consent!Next
  <2>1. PICK d \in Bindings : recs'[i].batch = d
    BY <1>1, <1>3 DEF Grants, Uses, Spends, PutsUp, AllGood, Good, Record
  <2> DEFINE S == Lapsing(d)
  <2>2. recs'[i].status \in Live => ConsentOf(d)' = Name(recs'[i].status)
    BY <1>1, <2>1 DEF Stands
  <2>3. recs[i].status \in Live /\ recs[i].batch = d => ConsentOf(d) = Name(recs[i].status)
    BY <1>1, <2>1 DEF Stands
  <2>4. OthersEbb(i)
    BY <1>3 DEF Grants, Uses, Spends, PutsUp, OthersEbb, Ebbs
  <2>5. /\ S \in SUBSET (Consent!Unused \ {d})
        /\ \A b \in Bindings \ {d} : ConsentOf(b)' = IF b \in S THEN "none" ELSE ConsentOf(b)
    BY <1>1, <1>3, <2>1, <2>4, OthersLapse DEF Grants, Uses, Spends, PutsUp
  <2> HIDE DEF S
  <2>6. ASSUME NEW value, ConsentOf(d)' = value
        PROVE  Con' = [Consent!Lapsed(S) EXCEPT ![d] = value]
    BY <2>1, <2>5, <2>6 DEF Consent!Lapsed
  <2>7. CASE Grants(i)
    <3>1. ConsentOf(d) = "asked" /\ ConsentOf(d)' = "granted"
      BY <2>1, <2>2, <2>3, <2>7 DEF Grants, Name, Live
    <3>2. \A b \in Bindings \ {d} : (ConsentOf(b) = "granted" /\ FlowOf[b] = FlowOf[d]) => b \in S
      <4> SUFFICES ASSUME NEW b \in Bindings \ {d}, ConsentOf(b) = "granted", FlowOf[b] = FlowOf[d], b \notin S
                   PROVE  FALSE
        OBVIOUS
      <4>1. ConsentOf(b)' = "granted"
        BY <2>1, <2>5
      <4>2. PICK j \in Ids : recs'[j].status \in Live /\ recs'[j].batch = b
        BY <1>1, <2>1, <4>1 DEF Stands
      <4>3. recs'[j].status = "approved"
        BY <1>1, <2>1, <4>1, <4>2 DEF Stands, Name, Live
      <4>4. j # i /\ recs[j].batch = b
        BY <2>1, <2>7, <4>2 DEF Grants, OthersEbb, Ebbs
      <4> QED
        BY <2>1, <2>7, <4>3, <4>4 DEF Grants
    <3>3. Consent!Grant(d)
      BY <2>1, <2>5, <2>6, <3>1, <3>2 DEF Consent!Grant
    <3> QED
      BY <2>1, <3>3 DEF Consent!Next
  <2>8. CASE Uses(i)
    <3>1. ConsentOf(d) = "granted" /\ ConsentOf(d)' = "inUse"
      BY <2>1, <2>2, <2>3, <2>8 DEF Uses, Name, Live
    <3>2. Consent!Use(d)
      BY <2>1, <2>5, <2>6, <3>1 DEF Consent!Use
    <3> QED
      BY <2>1, <3>2 DEF Consent!Next
  <2>9. CASE Spends(i)
    <3>1. ConsentOf(d) = "inUse"
      BY <2>1, <2>3, <2>9 DEF Spends, Name, Live
    <3>2. \A j \in Ids : recs'[j].status \in Live => recs'[j].batch # d
      <4> SUFFICES ASSUME NEW j \in Ids, recs'[j].status \in Live, recs'[j].batch = d PROVE FALSE
        OBVIOUS
      <4>1. j # i /\ recs[j].status \in Live /\ recs[j].batch = d
        BY <2>1, <2>9 DEF Spends
      <4>2. recs[i].status \in Live /\ recs[i].batch = d
        BY <2>1, <2>9 DEF Spends, Live
      <4> QED
        BY <4>1, <4>2 DEF MInv, OneLivePerBinding
    <3>3. ConsentOf(d)' = "none"
      BY <1>1, <2>1, <3>2 DEF Stands
    <3>4. S = {}
      <4> SUFFICES ASSUME NEW b \in S PROVE FALSE
        OBVIOUS
      <4>1. b \in Bindings \ {d} /\ ConsentOf(b)' = "none" /\ ConsentOf(b) \in {"asked", "granted"}
        BY <2>1, <2>5 DEF Consent!Unused
      <4>2. PICK j \in Ids : recs[j].status \in Live /\ recs[j].batch = b
        BY <1>1, <2>1, <4>1 DEF Stands
      <4>3. recs'[j] = recs[j]
        BY <2>1, <2>9, <4>1, <4>2 DEF Spends
      <4>4. ConsentOf(b)' = Name(recs'[j].status)
        BY <1>1, <2>1, <4>1, <4>2, <4>3 DEF Stands
      <4> QED
        BY <4>1, <4>2, <4>3, <4>4 DEF Name, Live
    <3>5. Con' = [Con EXCEPT ![d] = "none"]
      BY <2>1, <2>5, <3>3, <3>4
    <3>6. Consent!Spend(d)
      BY <2>1, <3>1, <3>5 DEF Consent!Spend
    <3> QED
      BY <2>1, <3>6 DEF Consent!Next
  <2>10. CASE PutsUp(i)
    <3>1. ConsentOf(d)' = "asked"
      BY <2>1, <2>2, <2>10 DEF PutsUp, Name, Live
    <3>2. ConsentOf(d) # "inUse"
      <4> SUFFICES ASSUME ConsentOf(d) = "inUse" PROVE FALSE
        OBVIOUS
      <4>1. PICK j \in Ids : recs[j].status \in Live /\ recs[j].batch = d
        BY <1>1, <2>1 DEF Stands
      <4>2. recs[j].status = "executing"
        BY <1>1, <2>1, <4>1 DEF Stands, Name, Live
      <4> QED
        BY <2>1, <2>10, <4>1, <4>2 DEF PutsUp
    <3>3. Consent!Ask(d)
      BY <2>1, <2>5, <2>6, <3>1, <3>2 DEF Consent!Ask
    <3> QED
      BY <2>1, <3>3 DEF Consent!Next
  <2> QED
    BY <1>3, <2>7, <2>8, <2>9, <2>10
<1> QED
  BY <1>2, <1>3 DEF Moved

LEMMA ConsentBegins == Init => Consent!Init
<1> SUFFICES ASSUME Init PROVE Consent!Init
  OBVIOUS
<1>1. Stands /\ \A i \in Ids : recs[i].status = "absent"
  BY MInvInit, ConsentStands DEF Init, StoreInit, Absent
<1>2. \A b \in Bindings : ConsentOf(b) = "none"
  BY <1>1 DEF Stands, Live
<1> QED
  BY <1>2 DEF Consent!Init

\* The manager keeps the promise to the owner: nothing is signed under a
\* binding unless the owner was asked for it and granted it, one grant is used
\* by one call, once, and a newer grant of a flow ends the older ones.
THEOREM ConsentIsKept == Spec => KeepsConsent
<1>1. MInv /\ MInv' /\ [Next]_vars => [Consent!Next]_[b \in Bindings |-> ConsentOf(b)]
  BY MInvStep, ConsentMoves
<1> QED
  BY <1>1, ConsentBegins, ManagerInvariant, PTL DEF Spec, KeepsConsent, Consent!Spec
==============================================================================
