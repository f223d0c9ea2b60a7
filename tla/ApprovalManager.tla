--------------------------- MODULE ApprovalManager ---------------------------
(***************************************************************************)
(* The approval flow of one keystore-mode server: class ApprovalManager    *)
(* (src/src/lib/approval/index.ts) over the store, with the two channels   *)
(* through which the owner decides (server.ts, control.ts) and the tool    *)
(* calls that wait for an approval and sign under it.                      *)
(*                                                                         *)
(* Every action is one run of node's event loop between two awaits.  The   *)
(* awaits of the code are the places where actions interleave: starting    *)
(* the channels, waiting for the owner, the decryption of the keystore     *)
(* (scrypt), and the use of the key by the call that took it.              *)
(***************************************************************************)
EXTENDS ApprovalStore

CONSTANTS
  Calls,      \* tool calls that can be in flight at once
  Messages,   \* the bindings that are login messages (kind "message")
  MaxQueue    \* bound: passwords typed and not yet checked

\* The bindings of one flow are of one kind: a tool asks for one kind.
ASSUME MessageAssumption ==
  /\ Messages \subseteq Bindings
  /\ \A b, d \in Bindings : FlowOf[b] = FlowOf[d] => (b \in Messages <=> d \in Messages)

VARIABLES
  handed,     \* ApprovalManager.holders: approved, the holder not handed over
  queue,      \* attemptChain: the approvals whose password waits for its check
  checking,   \* the approval whose password is being decrypted, or NoRecord
  calls       \* each tool call: where it is, its record, its last result

vars == <<storeVars, handed, queue, checking, calls>>

NoRecord == 0
\* `awaiting`: the last result of the call was awaiting_approval ("pending").
Returned(result) == [pc |-> "idle", rec |-> NoRecord, awaiting |-> result = "pending"]
At(pc, i) == [pc |-> pc, rec |-> i, awaiting |-> FALSE]

Init ==
  /\ StoreInit
  /\ handed = {}
  /\ queue = << >>
  /\ checking = NoRecord
  /\ calls = [c \in Calls |-> Returned("nothing")]

ownerVars == <<queue, checking>>

Become(c, state) == calls' = [calls EXCEPT ![c] = state]

-----------------------------------------------------------------------------
(* acquire(): everything up to its first await is one step.                *)

\* The approved record this binding would take, after the first findByBatch.
Ready(b) == WithBatch(SweepAll(recs, now), b, "approved")

First(S) == CHOOSE i \in S : \A j \in S : i <= j

\* The records once taking an approved one was tried and failed, or there was none.
Looked(b) ==
  IF Ready(b) = {} THEN SweepAll(recs, now)
  ELSE Revoked(SweepAll(recs, now), First(Ready(b)), now)

CanHandOver(rs, i) == CanTake(rs, i, now) /\ i \in handed

\* Faulty: a new nonce makes a new binding, so the decline is never seen.
BindingDeclined(b) == b \in Messages /\ RecentDecline(recs, b, now) # {}

\* assertNoRecentDecline: a login message is refused for its whole flow.
FlowDeclined(b) == b \in Messages /\ RecentFlowDecline(recs, FlowOf[b], now) # {}

\* The call reaches acquire() and does not find an approved holder to take.
Enters(c, b) ==
  /\ calls[c].pc = "idle"
  /\ ~ FlowDeclined(b)
  /\ \A i \in Ready(b) : ~ CanHandOver(SweepAll(recs, now), First(Ready(b)))
  /\ handed' = handed \ Ready(b)
  /\ UNCHANGED <<now, lockVars, ownerVars>>

RefuseFlow(c, b) ==
  /\ calls[c].pc = "idle"
  /\ FlowDeclined(b)
  /\ Become(c, Returned("declined"))
  /\ UNCHANGED <<storeVars, handed, ownerVars>>

\* The re-run path: an approved and unused approval of exactly this binding.
TakeReady(c, b) ==
  /\ calls[c].pc = "idle"
  /\ ~ FlowDeclined(b)
  /\ Ready(b) # {}
  /\ LET i == First(Ready(b))
         scanned == Sweep(recs, now, i)
     IN  /\ CanHandOver(scanned, i)
         /\ recs' = Taken(scanned, i, now)
         /\ handed' = handed \ {i}
         /\ Become(c, At("holding", i))
  /\ UNCHANGED <<now, made, lockVars, ownerVars>>

RefuseDeclined(c, b) ==
  /\ Enters(c, b)
  /\ RecentDecline(Looked(b), b, now) # {}
  /\ recs' = Looked(b)
  /\ Become(c, Returned("declined"))
  /\ UNCHANGED made

RefuseExecuting(c, b) ==
  /\ Enters(c, b)
  /\ RecentDecline(Looked(b), b, now) = {}
  /\ WithBatch(Looked(b), b, "executing") # {}
  /\ recs' = Looked(b)
  /\ Become(c, Returned("executing"))
  /\ UNCHANGED made

\* None of the refusals above: join the pending approval or put up a new one.
Asks(c, b) ==
  /\ Enters(c, b)
  /\ RecentDecline(Looked(b), b, now) = {}
  /\ WithBatch(Looked(b), b, "executing") = {}

JoinPending(c, b) ==
  /\ Asks(c, b)
  /\ WithBatch(Looked(b), b, "pending") # {}
  /\ recs' = Looked(b)
  /\ Become(c, At("starting", First(WithBatch(Looked(b), b, "pending"))))
  /\ UNCHANGED made

Throttle(c, b) ==
  /\ Asks(c, b)
  /\ WithBatch(Looked(b), b, "pending") = {}
  /\ ~ Admits(Looked(b), now)
  /\ recs' = Looked(b)
  /\ Become(c, Returned("throttled"))
  /\ UNCHANGED made

\* Faulty: puts up an approval although one is pending.
AskOwnerAgain(c, b) ==
  /\ Asks(c, b)
  /\ Admits(Looked(b), now)
  /\ made < MaxRecords /\ now + TTL <= MaxTime
  /\ recs' = Created(Looked(b), b, now)
  /\ made' = made + 1
  /\ Become(c, At("starting", made + 1))

\* Bounds: MaxRecords and MaxTime, as in Create.
AskOwner(c, b) ==
  /\ Asks(c, b)
  /\ WithBatch(Looked(b), b, "pending") = {}
  /\ Admits(Looked(b), now)
  /\ made < MaxRecords /\ now + TTL <= MaxTime
  /\ recs' = Created(Looked(b), b, now)
  /\ made' = made + 1
  /\ Become(c, At("starting", made + 1))

Request(c, b) ==
  \/ RefuseFlow(c, b)
  \/ TakeReady(c, b)
  \/ RefuseDeclined(c, b)
  \/ RefuseExecuting(c, b)
  \/ JoinPending(c, b)
  \/ Throttle(c, b)
  \/ AskOwner(c, b)

-----------------------------------------------------------------------------
(* acquire() after the channels are up.                                    *)

\* startChannels() rejects: the call fails, its record stays up.
ChannelsFail(c) ==
  /\ calls[c].pc = "starting"
  /\ Become(c, Returned("error"))
  /\ UNCHANGED <<storeVars, handed, ownerVars>>

\* The wait loop is entered (waitMs > 0 and the record still pending).
WaitForOwner(c) ==
  /\ calls[c].pc = "starting"
  /\ recs[calls[c].rec].status = "pending"
  /\ Become(c, At("waiting", calls[c].rec))
  /\ UNCHANGED <<storeVars, handed, ownerVars>>

\* What acquire() throws for a record it could not take.
Verdict(status) == IF status \in {"declined", "expired"} THEN status ELSE "pending"

\* Faulty: neither the deadline nor the end of the record wakes the call.
WaitEndsOnVerdict(c) ==
  calls[c].pc \in {"starting", "waiting"} /\ recs[calls[c].rec].status \in {"approved", "declined"}

\* A decision, the deadline, or the client's abort; or the wait is skipped.
WaitEnds(c) == calls[c].pc \in {"starting", "waiting"}

\* The wait is over.  waitForDecision re-reads the record through get().
Resume(c) ==
  /\ WaitEnds(c)
  /\ LET i == calls[c].rec
         seen == IF calls[c].pc = "waiting"
                 THEN [recs EXCEPT ![i] = ExpireIfDue(@, now)]
                 ELSE recs
     IN  IF seen[i].status # "approved"
         THEN /\ recs' = seen
              /\ UNCHANGED handed
              /\ Become(c, Returned(Verdict(seen[i].status)))
         ELSE /\ handed' = handed \ {i}
              /\ IF CanHandOver(seen, i)
                 THEN /\ recs' = Taken(seen, i, now)
                      /\ Become(c, At("holding", i))
                 ELSE LET closed == Revoked(Taken(seen, i, now), i, now)
                      IN  /\ recs' = closed
                          /\ Become(c, Returned(Verdict(closed[i].status)))
  /\ UNCHANGED <<now, made, lockVars, ownerVars>>

\* The call signed everything the approval covers: finish().
Sign(c) ==
  /\ calls[c].pc = "holding"
  /\ recs' = Finished(recs, calls[c].rec, now)
  /\ Become(c, Returned("signed"))
  /\ UNCHANGED <<now, made, lockVars, handed, ownerVars>>

\* Faulty: a failed send leaves the approval usable for the re-run.
GiveBackForRetry(c) ==
  /\ calls[c].pc = "holding"
  /\ recs' = [recs EXCEPT ![calls[c].rec].status = "approved"]
  /\ handed' = handed \cup {calls[c].rec}
  /\ Become(c, Returned("revoked"))
  /\ UNCHANGED <<now, made, lockVars, ownerVars>>

\* A deviation, a guard, a failed send, or abandon(): revoke().
GiveBack(c) ==
  /\ calls[c].pc = "holding"
  /\ recs' = Revoked(recs, calls[c].rec, now)
  /\ Become(c, Returned("revoked"))
  /\ UNCHANGED <<now, made, lockVars, handed, ownerVars>>

-----------------------------------------------------------------------------
(* The owner, on the page or in the terminal.                              *)

\* POST .../approve and op "approve": the record was loaded before the body
\* was read, only its status is looked at afterwards.  Bound: MaxQueue.
SubmitPassword(i) ==
  /\ recs[i].status = "pending"
  /\ ~ Locked
  /\ Len(queue) < MaxQueue
  /\ queue' = Append(queue, i)
  /\ UNCHANGED <<storeVars, handed, checking, calls>>

OwnerDeclines(i) ==
  /\ recs[i].status = "pending"
  /\ recs' = Declined(recs, i, now)
  /\ UNCHANGED <<now, made, lockVars, handed, ownerVars, calls>>

\* The next password of the chain; it may be refused without a decryption
\* (locked meanwhile, decided meanwhile).
RefuseCheck ==
  /\ checking = NoRecord
  /\ queue # << >>
  /\ Locked \/ recs[Head(queue)].status # "pending"
  /\ queue' = Tail(queue)
  /\ UNCHANGED <<storeVars, handed, checking, calls>>

\* Faulty: the lockout is only looked at when the password arrives.
StartCheckUnguarded ==
  /\ checking = NoRecord
  /\ queue # << >>
  /\ recs[Head(queue)].status = "pending"
  /\ checking' = Head(queue)
  /\ queue' = Tail(queue)
  /\ UNCHANGED <<storeVars, handed, calls>>

StartCheck ==
  /\ checking = NoRecord
  /\ queue # << >>
  /\ ~ Locked
  /\ recs[Head(queue)].status = "pending"
  /\ checking' = Head(queue)
  /\ queue' = Tail(queue)
  /\ UNCHANGED <<storeVars, handed, calls>>

CheckEnds ==
  /\ checking # NoRecord
  /\ checking' = NoRecord
  /\ UNCHANGED <<now, made, queue, calls>>

RightPassword ==
  /\ CheckEnds
  /\ recs' = Approved(recs, checking, now)
  /\ handed' = IF recs'[checking].status = "approved" THEN handed \cup {checking} ELSE handed
  /\ UNCHANGED lockVars

\* Bound: MaxLockouts.
WrongPassword ==
  /\ CheckEnds
  /\ lockouts < MaxLockouts
  /\ recs' = Failed(recs, checking, now)
  /\ CountFailure(now)
  /\ UNCHANGED handed

\* The keystore file holds another address.
WrongKeystore ==
  /\ CheckEnds
  /\ recs' = Declined(recs, checking, now)
  /\ UNCHANGED <<lockVars, handed>>

\* The file is unreadable, not a keystore, or its KDF is too cheap.
NoKeystore ==
  /\ CheckEnds
  /\ UNCHANGED <<recs, lockVars, handed>>

ClockTicks == Tick /\ UNCHANGED <<handed, queue, checking, calls>>

\* Also what a page, a status poll or a list does to a record that is due.
RecordTimer(i) == TimerFires(i) /\ UNCHANGED <<handed, queue, checking, calls>>

Check == RefuseCheck \/ StartCheck \/ RightPassword \/ WrongPassword \/ WrongKeystore \/ NoKeystore

Next ==
  \/ ClockTicks
  \/ Check
  \/ \E i \in Listed : RecordTimer(i) \/ SubmitPassword(i) \/ OwnerDeclines(i)
  \/ \E c \in Calls :
       \/ ChannelsFail(c) \/ WaitForOwner(c) \/ Resume(c) \/ Sign(c) \/ GiveBack(c)
       \/ \E b \in Bindings : Request(c, b)

\* Time passes, node runs its timers and its ready callbacks, the decryption
\* ends, and a call that waits or holds a key goes on.  Nothing is assumed of
\* the owner or of the clients that make calls.
Fairness ==
  /\ WF_vars(ClockTicks)
  /\ WF_vars(Check)
  /\ \A i \in Ids : WF_vars(RecordTimer(i))
  /\ \A c \in Calls : WF_vars(Resume(c)) /\ WF_vars(Sign(c) \/ GiveBack(c))

Spec == Init /\ [][Next]_vars /\ Fairness

-----------------------------------------------------------------------------
(* Properties.                                                             *)

CallState == [pc : {"idle", "starting", "waiting", "holding"}, rec : Ids \cup {NoRecord},
              awaiting : BOOLEAN]

\* The type of the state.
TypeOK ==
  /\ StoreTypeOK
  /\ handed \subseteq Ids
  /\ queue \in Seq(Ids)
  /\ checking \in Ids \cup {NoRecord}
  /\ calls \in [Calls -> CallState]

\* At most one open approval per binding, although calls race between the
\* scan for an open one and the creation: two pages for one batch would let
\* one consent be given twice.
OneLivePerBinding ==
  \A i, j \in Ids :
    (recs[i].status \in Live /\ recs[j].status \in Live /\ recs[i].batch = recs[j].batch) => i = j

\* An executing approval has exactly one call that holds its key and will end
\* it; two calls that wait for one approval never both get it ("never leave it
\* executing with a key and no one to finish it").  The manager's map and the
\* store's agree, so takeApproved() always finds a holder to hand over.
SoleHolder ==
  /\ \A i \in Ids : recs[i].status = "executing" <=> \E c \in Calls : calls[c].pc = "holding" /\ calls[c].rec = i
  /\ \A c, d \in Calls : (calls[c].pc = "holding" /\ calls[d].pc = "holding" /\ calls[c].rec = calls[d].rec) => c = d
  /\ \A i \in Ids : recs[i].status = "approved" => i \in handed

\* No page is put up while a decline of the same binding, or for a login
\* message of the same flow, is in its cooldown; pruning and expiry included.
DeclineHolds ==
  [][made' # made =>
       LET b == recs'[made'].batch IN
       \A j \in 1..made :
         (/\ recs[j].status = "declined"
          /\ recs[j].batch = b \/ (b \in Messages /\ FlowOf[recs[j].batch] = FlowOf[b]))
           => now >= recs[j].decidedAt + Cooldown]_vars

\* No password is checked while entry is locked, however the attempts were
\* queued; so a lockout never starts before the earlier one has ended, and its
\* length is the full backoff.
LockoutHolds ==
  [][/\ (checking # NoRecord /\ checking' = NoRecord) => ~ Locked
     /\ lockouts' # lockouts => /\ ~ Locked
                                /\ lockedUntil' = now + LockoutFor(lockouts')]_vars

\* Every call returns: with the signatures, or with a halt.
CallsReturn == \A c \in Calls : calls[c].pc # "idle" ~> calls[c].pc = "idle"

\* docs/SIGNING.md:151 says a call returns awaiting_approval until the owner
\* approves, and AWAITING_APPROVAL_NEXT (scope.ts:89) that nothing was signed
\* yet: a call told "pending" left behind an approval that is still pending.
AwaitingMeansPending ==
  [][\A c \in Calls :
       (calls[c].pc # "idle" /\ calls'[c].awaiting)
         => recs'[calls[c].rec].status = "pending"]_vars

-----------------------------------------------------------------------------
(* The promise to the owner.                                               *)

LiveOf(b) == {i \in Ids : recs[i].status \in Live /\ recs[i].batch = b}

ConsentOf(b) ==
  IF LiveOf(b) = {} THEN "none"
  ELSE CASE recs[First(LiveOf(b))].status = "pending" -> "asked"
         [] recs[First(LiveOf(b))].status = "approved" -> "granted"
         [] recs[First(LiveOf(b))].status = "executing" -> "inUse"

Consent == INSTANCE OwnerConsent WITH consent <- [b \in Bindings |-> ConsentOf(b)]

\* The manager keeps the promise of OwnerConsent.
KeepsConsent == Consent!Spec
==============================================================================
