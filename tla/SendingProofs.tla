---------------------------- MODULE SendingProofs ----------------------------
(***************************************************************************)
(* Proofs about what dexe_tx_send meets on its way out: BroadcastGuards,   *)
(* for any limit, window and number of calls, and WalletConnect, for one   *)
(* call at a time and any relay, phones, accounts and proposals.           *)
(*                                                                         *)
(* The rate limit counts on a clock that may be set back, and is right     *)
(* about time as it passes, because since any admission at least as much   *)
(* time has passed as the clock shows (ClockLags).  So what the loop has   *)
(* shifted is older than a minute (GoneIsOld), and an admission needs the  *)
(* one Limit before it to be gone.  On a clock that was never set back the *)
(* times pushed are the times of the admissions, in order (Steady), so     *)
(* that a loop that stops at the first it must keep keeps nothing else.    *)
(*                                                                         *)
(* The manager of the WalletConnect session keeps its promises to one call *)
(* at a time, because init() then runs once (OneProvider), and because no  *)
(* call begins while a proposal waits for its URI (Awaited).               *)
(***************************************************************************)
EXTENDS BroadcastGuards, WalletConnect, TLAPS

GuardTypeOK ==
  /\ sending \in [Senders -> GuardPlaces]
  /\ stamps \in Seq(Int) /\ passedAt \in Seq(Int) /\ Len(stamps) = Len(passedAt)
  /\ shifted \in 0..Len(stamps)
  /\ wall \in Int /\ real \in Int /\ steady \in BOOLEAN

ClockLags == \A i \in 1..Len(stamps) : wall - stamps[i] <= real - passedAt[i]

GoneIsOld == \A i \in 1..shifted : passedAt[i] + Minute < real

InOrder ==
  /\ \A i \in 1..Len(passedAt) : passedAt[i] <= real
  /\ \A i, j \in 1..Len(passedAt) : i <= j => passedAt[i] <= passedAt[j]

Steady == steady => wall = real /\ \A i \in 1..Len(stamps) : stamps[i] = passedAt[i]

Spaced ==
  \A i \in 1..Len(passedAt) :
    i + Limit <= Len(passedAt) => passedAt[i + Limit] - passedAt[i] > Minute

GuardInv == GuardTypeOK /\ ClockLags /\ GoneIsOld /\ InOrder /\ Steady /\ Spaced

\* The calls come and go without the window and the time.
LEMMA CallsStandApart ==
  ASSUME GuardInv, UNCHANGED <<window, time>>, sending' \in [Senders -> GuardPlaces]
  PROVE  GuardInv'
BY DEF GuardInv, GuardTypeOK, ClockLags, GoneIsOld, InOrder, Steady, Spaced, window, time

\* What the loop shifts is older than a minute, whatever the clock showed.
LEMMA ShiftedIsOld ==
  ASSUME GuardInv, NEW n \in shifted..Len(stamps), StopsAt(n)
  PROVE  \A i \in 1..n : passedAt[i] + Minute < real
<1> USE DEF GuardInv, GuardTypeOK
<1> SUFFICES ASSUME NEW i \in 1..n PROVE passedAt[i] + Minute < real
  OBVIOUS
<1>0. Minute \in Int /\ i \in 1..Len(stamps) /\ i \in Int
  BY GuardAssumption
<1>1. CASE i <= shifted
  BY <1>1 DEF GoneIsOld
<1>2. CASE i > shifted
  <2>1. stamps[i] < wall - Minute
    BY <1>0, <1>2 DEF StopsAt, Cutoff
  <2>2. wall - stamps[i] <= real - passedAt[i]
    BY <1>0 DEF ClockLags
  <2>3. stamps[i] \in Int /\ passedAt[i] \in Int
    BY <1>0
  <2> QED
    BY <1>0, <2>1, <2>2, <2>3
<1> QED
  BY <1>0, <1>1, <1>2

LEMMA RefusingKeeps ==
  ASSUME GuardInv, NEW c \in Senders, Refuses(c)
  PROVE  GuardInv'
<1>1. PICK n \in shifted..Len(stamps) : StopsAt(n) /\ shifted' = n
  BY DEF Refuses
<1>2. \A i \in 1..n : passedAt[i] + Minute < real
  BY <1>1, ShiftedIsOld
<1>3. UNCHANGED <<stamps, passedAt, wall, real, steady>>
  BY DEF Refuses, time
<1>4. sending' \in [Senders -> GuardPlaces]
  BY DEF Refuses, Goes, GuardPlaces, GuardInv, GuardTypeOK
<1>5. GuardTypeOK'
  BY <1>1, <1>3, <1>4 DEF GuardInv, GuardTypeOK
<1>6. GoneIsOld'
  BY <1>1, <1>2, <1>3 DEF GoneIsOld
<1> QED
  BY <1>3, <1>5, <1>6 DEF GuardInv, ClockLags, InOrder, Steady, Spaced

LEMMA AdmittingKeeps ==
  ASSUME GuardInv, NEW c \in Senders, Admits(c)
  PROVE  GuardInv'
<1> DEFINE last == Len(stamps) + 1
<1>0. /\ GuardTypeOK /\ Limit \in Nat \ {0} /\ Minute \in Nat
      /\ last \in Nat \ {0} /\ last = Len(passedAt) + 1
  BY GuardAssumption DEF GuardInv, GuardTypeOK
<1>1. PICK n \in shifted..Len(stamps) : StopsAt(n) /\ HasRoom(n) /\ shifted' = n
  BY DEF Admits
<1>2. \A i \in 1..n : passedAt[i] + Minute < real
  BY <1>1, ShiftedIsOld
<1>3. /\ stamps' = Append(stamps, wall) /\ passedAt' = Append(passedAt, real)
      /\ UNCHANGED <<wall, real, steady>>
  BY DEF Admits, time
<1>4. sending' \in [Senders -> GuardPlaces]
  BY <1>0 DEF Admits, Goes, GuardPlaces, GuardTypeOK
<1>5. /\ Len(stamps') = last /\ Len(passedAt') = last
      /\ stamps'[last] = wall /\ passedAt'[last] = real
      /\ \A i \in 1..Len(stamps) : stamps'[i] = stamps[i] /\ passedAt'[i] = passedAt[i]
  BY <1>0, <1>3 DEF GuardTypeOK
<1>6. \A i \in 1..last : i \in 1..Len(stamps) \/ i = last
  BY <1>0
<1>7. GuardTypeOK'
  BY <1>0, <1>1, <1>3, <1>4, <1>5 DEF GuardTypeOK
<1>8. ClockLags'
  BY <1>0, <1>3, <1>5, <1>6 DEF GuardInv, ClockLags, GuardTypeOK
<1>9. GoneIsOld'
  BY <1>0, <1>1, <1>2, <1>3, <1>5 DEF GoneIsOld, GuardTypeOK
<1>10. InOrder'
  BY <1>0, <1>3, <1>5, <1>6 DEF GuardInv, InOrder, GuardTypeOK
<1>11. Steady'
  BY <1>0, <1>3, <1>5, <1>6 DEF GuardInv, Steady, GuardTypeOK
<1>12. Spaced'
  <2> SUFFICES ASSUME NEW i \in 1..last, i + Limit <= last
               PROVE  passedAt'[i + Limit] - passedAt'[i] > Minute
    BY <1>5 DEF Spaced
  <2>1. CASE i + Limit = last
    <3>1. i <= n /\ i \in 1..Len(stamps)
      BY <1>0, <1>1, <2>1 DEF HasRoom, GuardTypeOK
    <3>2. passedAt[i] + Minute < real /\ passedAt'[i] = passedAt[i] /\ passedAt'[i + Limit] = real
      BY <1>0, <1>1, <1>2, <1>5, <2>1, <3>1
    <3>3. passedAt[i] \in Int /\ real \in Int
      BY <1>0, <3>1 DEF GuardTypeOK
    <3> QED
      BY <1>0, <3>2, <3>3
  <2>2. CASE i + Limit # last
    <3>1. i \in 1..Len(stamps) /\ i + Limit \in 1..Len(stamps)
      BY <1>0, <2>2
    <3> QED
      BY <1>0, <1>5, <3>1 DEF GuardInv, Spaced
  <2> QED
    BY <2>1, <2>2
<1> QED
  BY <1>7, <1>8, <1>9, <1>10, <1>11, <1>12 DEF GuardInv

LEMMA TimeKeeps ==
  ASSUME GuardInv, GuardTick \/ WallStepsBack
  PROVE  GuardInv'
<1>0. GuardTypeOK /\ Minute \in Nat
  BY GuardAssumption DEF GuardInv
<1>1. UNCHANGED <<sending, stamps, shifted, passedAt>>
  BY DEF GuardTick, WallStepsBack, window
<1>2. \A i \in 1..Len(stamps) : stamps[i] \in Int /\ passedAt[i] \in Int
  BY <1>0 DEF GuardTypeOK
<1>3. CASE GuardTick
  <2>1. real' = real + 1 /\ wall' = wall + 1 /\ steady' = steady /\ real \in Int /\ wall \in Int
    BY <1>0, <1>3 DEF GuardTick, GuardTypeOK
  <2>2. GuardTypeOK'
    BY <1>0, <1>1, <2>1 DEF GuardTypeOK
  <2>3. ClockLags'
    BY <1>1, <1>2, <2>1 DEF GuardInv, ClockLags
  <2>4. GoneIsOld' /\ InOrder'
    <3>1. shifted \in Int /\ shifted <= Len(stamps) /\ Len(stamps) = Len(passedAt) /\ Len(stamps) \in Nat
      BY <1>0 DEF GuardTypeOK
    <3>2. GoneIsOld'
      BY <1>0, <1>1, <1>2, <2>1, <3>1 DEF GuardInv, GoneIsOld
    <3>3. InOrder'
      BY <1>1, <1>2, <2>1, <3>1 DEF GuardInv, InOrder
    <3> QED
      BY <3>2, <3>3
  <2>5. Steady' /\ Spaced'
    BY <1>1, <2>1 DEF GuardInv, Steady, Spaced
  <2> QED
    BY <2>2, <2>3, <2>4, <2>5 DEF GuardInv
<1>4. CASE WallStepsBack
  <2>1. real' = real /\ steady' = FALSE
    BY <1>4 DEF WallStepsBack
  <2>2. wall' \in Int /\ wall' < wall
    BY <1>0, <1>4 DEF WallStepsBack, GuardTypeOK
  <2>3. GuardTypeOK'
    BY <1>0, <1>1, <2>1, <2>2 DEF GuardTypeOK
  <2>4. ClockLags'
    <3>1. wall \in Int /\ real \in Int
      BY <1>0 DEF GuardTypeOK
    <3> QED
      BY <1>1, <1>2, <2>1, <2>2, <3>1 DEF GuardInv, ClockLags
  <2>5. GoneIsOld' /\ InOrder' /\ Spaced'
    BY <1>1, <2>1 DEF GuardInv, GoneIsOld, InOrder, Spaced
  <2>6. Steady'
    BY <2>1 DEF Steady
  <2> QED
    BY <2>3, <2>4, <2>5, <2>6 DEF GuardInv
<1> QED
  BY <1>3, <1>4

LEMMA GuardInvHolds == GuardSpec => []GuardInv
<1>1. GuardInit => GuardInv
  BY DEF GuardInit, GuardInv, GuardTypeOK, GuardPlaces, ClockLags, GoneIsOld, InOrder, Steady, Spaced
<1>2. GuardInv /\ [GuardNext]_guardVars => GuardInv'
  <2> SUFFICES ASSUME GuardInv, [GuardNext]_guardVars PROVE GuardInv'
    OBVIOUS
  <2>1. ASSUME NEW c \in Senders, Begins(c) \/ CodeProbed(c) \/ Simulated(c) \/ GoesOn(c)
        PROVE  GuardInv'
    <3>1. UNCHANGED <<window, time>>
      BY <2>1 DEF Begins, CodeProbed, Simulated, GoesOn
    <3>2. sending' \in [Senders -> GuardPlaces]
      BY <2>1 DEF Begins, CodeProbed, Simulated, GoesOn, Goes, AfterCode, GuardPlaces, GuardInv, GuardTypeOK
    <3> QED
      BY <3>1, <3>2, CallsStandApart
  <2>2. CASE UNCHANGED guardVars
    BY <2>2, CallsStandApart DEF guardVars, GuardInv, GuardTypeOK
  <2> QED
    BY <2>1, <2>2, RefusingKeeps, AdmittingKeeps, TimeKeeps DEF GuardNext
<1> QED
  BY <1>1, <1>2, PTL DEF GuardSpec

\* Any Limit + 1 admissions in a row take more than a minute, on a clock that
\* may be set back at any time.
THEOREM MinuteHolds == GuardSpec => []WindowHolds
<1>1. GuardInv => WindowHolds
  <2> SUFFICES ASSUME GuardInv, NEW i \in DOMAIN passedAt, i + Limit \in DOMAIN passedAt
               PROVE  passedAt[i + Limit] - passedAt[i] > Minute
    BY DEF WindowHolds
  <2>1. DOMAIN passedAt = 1..Len(passedAt)
    BY DEF GuardInv, GuardTypeOK
  <2> QED
    BY <2>1 DEF GuardInv, Spaced
<1> QED
  BY <1>1, GuardInvHolds, PTL

\* While the clock is never set back, whoever is refused finds Limit admissions
\* of the last minute.
THEOREM RefusalsAreDue == GuardSpec => RefusesOnlyWhenFull
<1>1. GuardInv /\ [GuardNext]_guardVars => [RefusesWhenFull]_guardVars
  <2> SUFFICES ASSUME GuardInv, GuardNext,
                      NEW c \in Senders, steady, sending[c] # "full", sending'[c] = "full"
               PROVE  \E i \in DOMAIN passedAt :
                        /\ Len(passedAt) - i + 1 = Limit
                        /\ \A j \in i..Len(passedAt) : passedAt[j] + Minute >= real
    BY DEF RefusesWhenFull
  <2>0. GuardTypeOK /\ Limit \in Nat \ {0} /\ Minute \in Nat /\ DOMAIN passedAt = 1..Len(passedAt)
    BY GuardAssumption DEF GuardInv, GuardTypeOK
  <2>1. Refuses(c)
    <3>1. ASSUME NEW d \in Senders, Begins(d) \/ CodeProbed(d) \/ Simulated(d) \/ Admits(d) \/ GoesOn(d)
          PROVE  FALSE
      BY <3>1, <2>0 DEF Begins, CodeProbed, Simulated, Admits, GoesOn, Goes, AfterCode, GuardTypeOK
    <3>2. ~ (GuardTick \/ WallStepsBack)
      BY DEF GuardTick, WallStepsBack
    <3>3. ASSUME NEW d \in Senders, Refuses(d) PROVE d = c
      BY <3>3, <2>0 DEF Refuses, Goes, GuardTypeOK
    <3> QED
      BY <3>1, <3>2, <3>3 DEF GuardNext
  <2>2. PICK n \in shifted..Len(stamps) : StopsAt(n) /\ ~ HasRoom(n)
    BY <2>1 DEF Refuses
  <2> DEFINE i == Len(passedAt) - Limit + 1
  <2>3. i \in DOMAIN passedAt /\ n + 1 <= i /\ n + 1 \in 1..Len(passedAt) /\ n < Len(stamps)
    BY <2>0, <2>2 DEF HasRoom, GuardTypeOK
  <2>4. passedAt[n + 1] + Minute >= real
    <3>1. stamps[n + 1] >= wall - Minute
      BY <2>2, <2>3 DEF StopsAt, Cutoff
    <3>2. stamps[n + 1] = passedAt[n + 1] /\ wall = real
      BY <2>0, <2>3 DEF GuardInv, Steady, GuardTypeOK
    <3> QED
      BY <2>0, <2>3, <3>1, <3>2 DEF GuardTypeOK
  <2>5. ASSUME NEW j \in i..Len(passedAt) PROVE passedAt[j] + Minute >= real
    <3>1. j \in 1..Len(passedAt) /\ n + 1 <= j
      BY <2>0, <2>3 DEF GuardTypeOK
    <3>2. passedAt[n + 1] <= passedAt[j]
      BY <2>3, <3>1 DEF GuardInv, InOrder
    <3>3. passedAt[n + 1] \in Int /\ passedAt[j] \in Int /\ real \in Int
      BY <2>0, <2>3, <3>1 DEF GuardTypeOK
    <3> QED
      BY <2>0, <2>4, <3>2, <3>3
  <2>6. Len(passedAt) - i + 1 = Limit
    BY <2>0 DEF GuardTypeOK
  <2> QED
    BY <2>3, <2>5, <2>6
<1> QED
  BY <1>1, GuardInvHolds, PTL DEF GuardSpec, RefusesOnlyWhenFull

-----------------------------------------------------------------------------
(* WalletConnect.  With several calls the manager's fields are not what     *)
(* they promise (ApprovedIsConnected, HandedUriIsLive).  Here: one call at  *)
(* a time, as often as the client likes, whatever the relay and the phones  *)
(* do in between.                                                           *)

CallPlaces == {"idle", "init", "uri", "handed", "guards", "phone", "leaving", "done"}

WcCall == [pc : CallPlaces, tool : {"none", "connect", "send", "disconnect"},
           own : Proposals \cup {None}, uri : Proposals \cup {None},
           from : Accounts \cup {None}, sender : Accounts \cup {None},
           answer : {"none", "error", "uri", "refused", "rejected", "hash", "ok"},
           request : {"none", "asked", "sent", "declined"}]

WcProposal == [state : {"unused", "sent", "shown", "approved", "failed"}, of : Providers \cup {None}]

WcTypeOK ==
  /\ provider \in Providers \cup {None} /\ connecting \in BOOLEAN /\ lastUri \in Proposals \cup {None}
  /\ inited \in SUBSET Providers /\ listening \in SUBSET Proposals
  /\ session \in [Providers -> Accounts \cup {None}]
  /\ proposal \in [Proposals -> WcProposal]
  /\ call \in [Callers -> WcCall]

OneAtATime == \A c, d \in Callers : c = d

\* init() has made the provider that the manager has, and no other.
OneProvider ==
  /\ inited = IF provider = None THEN {} ELSE {provider}
  /\ \A c \in Callers : /\ call[c].pc = "init" => provider = None
                        /\ call[c].pc = "leaving" => provider # None
  /\ \A x \in Proposals : proposal[x].state # "unused" => proposal[x].of \in inited
  /\ \A p \in Providers : session[p] # None => p \in inited

\* A proposal without its URI has a call that waits for it; without such a call,
\* the URI kept for the next one can be scanned.
Awaited ==
  /\ \A x \in Proposals :
       proposal[x].state = "sent" => x \in listening /\ \E c \in Callers : call[c].pc = "uri" /\ call[c].own = x
  /\ connecting /\ lastUri # None
       => proposal[lastUri].state = "shown" \/ \E c \in Callers : call[c].pc = "uri"

\* A phone is asked for a call that waits for it, or did.
Requested == \A c \in Callers : call[c].request = "asked" => call[c].pc \in {"phone", "done"}

WcInv == WcTypeOK /\ OneProvider /\ Awaited /\ Requested

LEMMA WcBegins == WcInit => WcInv
<1> SUFFICES ASSUME WcInit PROVE WcInv
  OBVIOUS
<1>1. /\ Idle \in WcCall /\ Idle.pc = "idle" /\ Idle.request = "none"
      /\ Unused \in WcProposal /\ Unused.state = "unused"
  BY DEF Idle, Unused, WcCall, WcProposal, CallPlaces
<1>2. /\ provider = None /\ connecting = FALSE /\ lastUri = None /\ inited = {} /\ listening = {}
      /\ session = [p \in Providers |-> None]
      /\ proposal = [x \in Proposals |-> Unused]
      /\ call = [c \in Callers |-> Idle]
  BY DEF WcInit
<1>3. WcTypeOK
  BY <1>1, <1>2 DEF WcTypeOK
<1>4. OneProvider
  BY <1>1, <1>2 DEF OneProvider
<1>5. Awaited /\ Requested
  BY <1>1, <1>2 DEF Awaited, Requested
<1> QED
  BY <1>3, <1>4, <1>5 DEF WcInv

\* A step of a call that does not touch the manager and the relay.
LEMMA WcStands ==
  ASSUME WcInv, NEW c \in Callers, NEW r \in WcCall, Set(c, r), UNCHANGED <<manager, relay>>,
         call[c].pc # "uri", r.pc = "init" => provider = None, r.pc = "leaving" => provider # None,
         r.request = "asked" => r.pc \in {"phone", "done"}
  PROVE  WcInv'
<1>1. /\ call' \in [Callers -> WcCall] /\ call'[c] = r
      /\ \A d \in Callers \ {c} : call'[d] = call[d]
  BY DEF WcInv, WcTypeOK, Set
<1>2. UNCHANGED <<provider, connecting, lastUri, inited, session, proposal, listening>>
  BY DEF manager, relay
<1>3. WcTypeOK'
  BY <1>1, <1>2 DEF WcInv, WcTypeOK
<1>4. OneProvider'
  BY <1>1, <1>2 DEF WcInv, OneProvider
<1>5. Awaited'
  BY <1>1, <1>2 DEF WcInv, Awaited
<1>6. Requested'
  BY <1>1 DEF WcInv, Requested
<1> QED
  BY <1>3, <1>4, <1>5, <1>6 DEF WcInv

\* A call puts up a proposal of the provider p, which the manager has from now on.
LEMMA WcAsks ==
  ASSUME WcInv, OneAtATime, NEW c \in Callers, NEW p \in Providers, NEW x \in FreshUris, NEW r \in WcCall,
         r.pc = "uri", r.own = x, r.request # "asked", Set(c, r),
         \/ provider = None /\ inited' = inited \cup {p}
         \/ provider = p /\ inited' = inited,
         provider' = p, connecting' = TRUE, listening' = listening \cup {x},
         proposal' = [proposal EXCEPT ![x] = [state |-> "sent", of |-> p]],
         UNCHANGED <<lastUri, session>>,
         \A y \in Proposals : proposal[y].state # "sent"
  PROVE  WcInv'
<1>1. /\ call' \in [Callers -> WcCall] /\ call'[c] = r
      /\ \A d \in Callers : d = c
  BY DEF WcInv, WcTypeOK, Set, OneAtATime
<1>2. x \in Proposals /\ p # None
  BY WalletAssumption DEF FreshUris
<1>3. [state |-> "sent", of |-> p] \in WcProposal
  BY DEF WcProposal
<1>4. /\ proposal' \in [Proposals -> WcProposal]
      /\ proposal'[x] = [state |-> "sent", of |-> p]
      /\ \A y \in Proposals \ {x} : proposal'[y] = proposal[y]
  BY <1>2, <1>3 DEF WcInv, WcTypeOK
<1>5. inited' = {p}
  BY <1>2 DEF WcInv, OneProvider
<1>6. WcTypeOK'
  BY <1>1, <1>2, <1>4, <1>5 DEF WcInv, WcTypeOK
<1>7. inited \subseteq inited'
  BY <1>5 DEF WcInv, OneProvider
<1>8. OneProvider'
  BY <1>1, <1>2, <1>4, <1>5, <1>7 DEF WcInv, OneProvider
<1>9. Awaited'
  BY <1>1, <1>2, <1>4 DEF Awaited
<1>10. Requested'
  BY <1>1 DEF Requested
<1> QED
  BY <1>6, <1>8, <1>9, <1>10 DEF WcInv

\* With one call nothing is pending while it is elsewhere.
LEMMA NothingSent ==
  ASSUME Awaited, OneAtATime, NEW c \in Callers, call[c].pc # "uri"
  PROVE  \A y \in Proposals : proposal[y].state # "sent"
  BY DEF Awaited, OneAtATime

\* connect() on behalf of a tool.
LEMMA WcConnects ==
  ASSUME WcInv, OneAtATime, NEW c \in Callers, NEW tool \in {"connect", "send"},
         call[c].pc = "idle", Connects(c, tool)
  PROVE  WcInv'
<1>1. CASE provider # None
  <2>1. PICK x \in FreshUris :
          /\ connecting' = TRUE
          /\ proposal' = [proposal EXCEPT ![x] = [state |-> "sent", of |-> provider]]
          /\ listening' = listening \cup {x}
          /\ Set(c, [Idle EXCEPT !.pc = "uri", !.tool = tool, !.own = x])
          /\ UNCHANGED <<provider, lastUri, inited, session>>
    BY <1>1 DEF Connects, Proposes
  <2> DEFINE r == [Idle EXCEPT !.pc = "uri", !.tool = tool, !.own = x]
  <2>2. r \in WcCall /\ r.pc = "uri" /\ r.own = x /\ r.request # "asked"
    BY DEF Idle, WcCall, CallPlaces, FreshUris
  <2> HIDE DEF r
  <2>3. provider \in Providers
    BY <1>1 DEF WcInv, WcTypeOK
  <2>4. \A y \in Proposals : proposal[y].state # "sent"
    BY NothingSent DEF WcInv
  <2>5. Set(c, r)
    BY <2>1 DEF r
  <2> QED
    BY <2>1, <2>2, <2>3, <2>4, <2>5, WcAsks
<1>2. CASE provider = None
  <2> DEFINE r == [Idle EXCEPT !.pc = "init", !.tool = tool]
  <2>1. Set(c, r) /\ UNCHANGED <<manager, relay>>
    BY <1>2 DEF Connects
  <2>2. r \in WcCall /\ r.request # "asked" /\ r.pc = "init"
    BY DEF Idle, WcCall, CallPlaces
  <2> HIDE DEF r
  <2> QED
    BY <1>2, <2>1, <2>2, WcStands
<1> QED
  BY <1>1, <1>2

\* A call that answers, or moves on, at one of its awaits.
LEMMA WcMoves ==
  ASSUME WcInv, NEW c \in Callers, UNCHANGED <<manager, relay>>,
         \/ InitFails(c) \/ DisconnectFails(c) \/ HandsOver(c) \/ WcGuardsRefuse(c) \/ WcGuardsPass(c) \/ CallTimesOut(c)
         \/ PhoneSends(c) \/ PhoneDeclines(c) \/ NextCall(c) \/ CallDisconnect(c)
  PROVE  WcInv'
<1>1. call[c] \in WcCall /\ session \in [Providers -> Accounts \cup {None}] /\ provider \in Providers \cup {None}
  BY DEF WcInv, WcTypeOK
<1>2. ASSUME NEW r, Set(c, r), r \in WcCall, call[c].pc # "uri", r.pc # "init", r.pc = "leaving" => IsConnected,
             r.request = "asked" => r.pc \in {"phone", "done"}
      PROVE  WcInv'
  BY <1>2, WcStands DEF IsConnected
<1>3. ASSUME NEW a \in {"error", "uri", "refused", "rejected"}, Answers(c, a), call[c].pc # "uri" PROVE WcInv'
  <2> DEFINE r == [call[c] EXCEPT !.pc = "done", !.answer = a]
  <2>1. r \in WcCall /\ r.pc = "done"
    BY <1>1 DEF WcCall, CallPlaces
  <2>2. Set(c, r)
    BY <1>3 DEF Answers
  <2> HIDE DEF r
  <2> QED
    BY <1>2, <1>3, <2>1, <2>2
<1>4. CASE InitFails(c) \/ DisconnectFails(c) \/ HandsOver(c) \/ WcGuardsRefuse(c) \/ CallTimesOut(c)
  BY <1>3, <1>4 DEF InitFails, DisconnectFails, HandsOver, WcGuardsRefuse, CallTimesOut
<1>5. CASE WcGuardsPass(c)
  <2>1. CASE IsConnected
    <3> DEFINE r == [call[c] EXCEPT !.pc = "phone", !.sender = Account, !.request = "asked"]
    <3>1. Account \in Accounts \cup {None}
      BY <1>1, <2>1 DEF Account, IsConnected
    <3>2. r \in WcCall /\ r.pc = "phone"
      BY <1>1, <3>1 DEF WcCall, CallPlaces
    <3>3. Set(c, r) /\ call[c].pc # "uri"
      BY <1>5, <2>1 DEF WcGuardsPass
    <3> HIDE DEF r
    <3> QED
      BY <1>2, <3>2, <3>3
  <2>2. CASE ~ IsConnected
    BY <1>3, <1>5, <2>2 DEF WcGuardsPass
  <2> QED
    BY <2>1, <2>2
<1>6. ASSUME NEW s \in {"sent", "declined"}, NEW a \in {"hash", "rejected"}, call[c].request = "asked",
             Set(c, [call[c] EXCEPT !.request = s,
                                    !.pc = IF @ = "phone" THEN "done" ELSE @,
                                    !.answer = IF call[c].pc = "phone" THEN a ELSE @])
      PROVE  WcInv'
  <2> DEFINE r == [call[c] EXCEPT !.request = s,
                                  !.pc = IF @ = "phone" THEN "done" ELSE @,
                                  !.answer = IF call[c].pc = "phone" THEN a ELSE @]
  <2>1. call[c].pc \in {"phone", "done"}
    BY <1>6 DEF WcInv, Requested
  <2>2. r \in WcCall /\ r.pc = "done"
    BY <1>1, <2>1 DEF WcCall, CallPlaces
  <2>3. Set(c, r)
    BY <1>6
  <2> HIDE DEF r
  <2> QED
    BY <1>2, <2>1, <2>2, <2>3
<1>7. CASE PhoneSends(c) \/ PhoneDeclines(c)
  BY <1>6, <1>7 DEF PhoneSends, PhoneDeclines
<1>8. CASE NextCall(c)
  <2>1. Idle \in WcCall /\ Idle.pc = "idle" /\ Idle.request = "none"
    BY DEF Idle, WcCall, CallPlaces
  <2> QED
    BY <1>2, <1>8, <2>1 DEF NextCall
<1>9. CASE CallDisconnect(c)
  <2> DEFINE r == [Idle EXCEPT !.tool = "disconnect", !.pc = IF IsConnected THEN "leaving" ELSE "done"]
  <2>1. r \in WcCall /\ r.pc # "init" /\ (r.pc = "leaving" => IsConnected) /\ r.request = "none"
    BY DEF Idle, WcCall, CallPlaces
  <2>2. Set(c, r) /\ call[c].pc # "uri"
    BY <1>9 DEF CallDisconnect
  <2> HIDE DEF r
  <2> QED
    BY <1>2, <2>1, <2>2
<1> QED
  BY <1>4, <1>5, <1>7, <1>8, <1>9

LEMMA WcInits ==
  ASSUME WcInv, OneAtATime, NEW c \in Callers, InitDone(c)
  PROVE  WcInv'
<1>1. PICK p \in Providers \ inited, x \in FreshUris :
        /\ inited' = inited \cup {p} /\ provider' = p
        /\ connecting' = TRUE
        /\ proposal' = [proposal EXCEPT ![x] = [state |-> "sent", of |-> p]]
        /\ listening' = listening \cup {x}
        /\ Set(c, [call[c] EXCEPT !.pc = "uri", !.own = x])
  BY DEF InitDone
<1> DEFINE r == [call[c] EXCEPT !.pc = "uri", !.own = x]
<1>2. call[c].pc = "init" /\ UNCHANGED <<lastUri, session>>
  BY DEF InitDone
<1>3. call[c] \in WcCall /\ call[c].request # "asked"
  BY <1>2 DEF WcInv, WcTypeOK, Requested
<1>4. r \in WcCall /\ r.pc = "uri" /\ r.own = x /\ r.request # "asked"
  BY <1>3 DEF WcCall, CallPlaces, FreshUris
<1>5. Set(c, r)
  BY <1>1
<1> HIDE DEF r
<1>6. provider = None /\ p \in Providers
  BY <1>2 DEF WcInv, OneProvider
<1>7. \A y \in Proposals : proposal[y].state # "sent"
  BY <1>2, NothingSent DEF WcInv
<1> QED
  BY <1>1, <1>2, <1>4, <1>5, <1>6, <1>7, WcAsks

\* What a URI or a failure does to the call that waits for it.
LEMMA WcHears ==
  ASSUME WcInv, NEW x \in Proposals, UriShown(x) \/ ProposalFails(x)
  PROVE  /\ call' \in [Callers -> WcCall] /\ Requested'
         /\ \A c \in Callers : call'[c].pc \in {"init", "leaving"} => call'[c].pc = call[c].pc
<1>1. \A c \in Callers :
        \/ call'[c] = call[c]
        \/ call[c].pc = "uri" /\ call'[c] = [call[c] EXCEPT !.pc = "handed", !.uri = x]
        \/ call[c].pc = "uri" /\ call'[c] = [call[c] EXCEPT !.pc = "done", !.answer = "error"]
  BY DEF UriShown, ProposalFails
<1>2. \E f \in [Callers -> {call'[c] : c \in Callers}] : call' = f
  <2>1. call' = [c \in Callers |-> call'[c]]
    BY DEF UriShown, ProposalFails
  <2> QED
    BY <2>1
<1>3. ASSUME NEW c \in Callers
      PROVE  /\ call'[c] \in WcCall
             /\ call'[c].request = "asked" => call'[c].pc \in {"phone", "done"}
             /\ call'[c].pc \in {"init", "leaving"} => call'[c].pc = call[c].pc
  <2>1. call[c] \in WcCall /\ (call[c].request = "asked" => call[c].pc \in {"phone", "done"})
    BY DEF WcInv, WcTypeOK, Requested
  <2>2. CASE call'[c] = call[c]
    BY <2>1, <2>2
  <2>3. CASE call[c].pc = "uri" /\ call'[c] = [call[c] EXCEPT !.pc = "handed", !.uri = x]
    <3>1. call[c].request # "asked"
      BY <2>1, <2>3
    <3>2. /\ [call[c] EXCEPT !.pc = "handed", !.uri = x] \in WcCall
          /\ [call[c] EXCEPT !.pc = "handed", !.uri = x].pc = "handed"
          /\ [call[c] EXCEPT !.pc = "handed", !.uri = x].request = call[c].request
      BY <2>1 DEF WcCall, CallPlaces
    <3> QED
      BY <2>3, <3>1, <3>2
  <2>4. CASE call[c].pc = "uri" /\ call'[c] = [call[c] EXCEPT !.pc = "done", !.answer = "error"]
    <3>1. /\ [call[c] EXCEPT !.pc = "done", !.answer = "error"] \in WcCall
          /\ [call[c] EXCEPT !.pc = "done", !.answer = "error"].pc = "done"
      BY <2>1 DEF WcCall, CallPlaces
    <3> QED
      BY <2>4, <3>1
  <2> QED
    BY <1>1, <2>2, <2>3, <2>4
<1> QED
  BY <1>2, <1>3 DEF Requested

\* With one call it is the one that waits for this URI.
LEMMA WcShows ==
  ASSUME WcInv, OneAtATime, NEW x \in Proposals, UriShown(x)
  PROVE  WcInv' /\ \A c \in Callers : call[c].pc # "handed" /\ call'[c].pc = "handed"
                      => call'[c].uri = x /\ proposal'[x].state = "shown"
<1>1. /\ call' \in [Callers -> WcCall] /\ Requested'
      /\ \A c \in Callers : call'[c].pc \in {"init", "leaving"} => call'[c].pc = call[c].pc
  BY WcHears
<1>2. proposal[x].state = "sent" /\ UNCHANGED <<provider, connecting, inited, session>>
  BY DEF UriShown
<1>3. /\ proposal \in [Proposals -> WcProposal] /\ proposal' = [proposal EXCEPT ![x].state = "shown"]
      /\ listening' \subseteq listening
  BY DEF WcInv, WcTypeOK, UriShown
<1>4. /\ proposal'[x] = [proposal[x] EXCEPT !.state = "shown"]
      /\ \A y \in Proposals \ {x} : proposal'[y] = proposal[y]
      /\ proposal' = [y \in Proposals |-> proposal'[y]]
  BY <1>3
<1>5. /\ proposal' \in [Proposals -> WcProposal]
      /\ proposal'[x].state = "shown" /\ proposal'[x].of = proposal[x].of
  <2>1. proposal[x] \in WcProposal
    BY <1>3
  <2>2. proposal'[x] \in WcProposal /\ proposal'[x].state = "shown" /\ proposal'[x].of = proposal[x].of
    BY <1>4, <2>1 DEF WcProposal
  <2> QED
    BY <1>3, <1>4, <2>2
<1>6. lastUri' = x
  <2>1. x \in listening
    BY <1>2 DEF WcInv, Awaited
  <2>2. x \in {y \in listening : proposal[y].of = proposal[x].of}
    BY <2>1
  <2> QED
    BY <2>2 DEF UriShown
<1>7. \A y \in Proposals \ {x} : proposal[y].state # "sent"
  BY <1>2 DEF WcInv, Awaited, OneAtATime
<1>8. WcTypeOK'
  BY <1>1, <1>2, <1>3, <1>5, <1>6 DEF WcInv, WcTypeOK
<1>9. OneProvider'
  BY <1>1, <1>2, <1>4, <1>5 DEF WcInv, OneProvider
<1>10. Awaited'
  BY <1>4, <1>5, <1>6, <1>7 DEF Awaited
<1>11. \A c \in Callers : call[c].pc # "handed" /\ call'[c].pc = "handed" => call'[c].uri = x
  <2> SUFFICES ASSUME NEW c \in Callers, call[c].pc # "handed", call'[c].pc = "handed" PROVE call'[c].uri = x
    OBVIOUS
  <2>1. call'[c] = [call[c] EXCEPT !.pc = "handed", !.uri = x]
    BY DEF UriShown
  <2>2. call[c] \in WcCall
    BY DEF WcInv, WcTypeOK
  <2> QED
    BY <2>1, <2>2 DEF WcCall
<1> QED
  BY <1>1, <1>5, <1>8, <1>9, <1>10, <1>11 DEF WcInv

LEMMA WcFails ==
  ASSUME WcInv, OneAtATime, NEW x \in Proposals, ProposalFails(x)
  PROVE  WcInv'
<1>1. /\ call' \in [Callers -> WcCall] /\ Requested'
      /\ \A c \in Callers : call'[c].pc \in {"init", "leaving"} => call'[c].pc = call[c].pc
  BY WcHears
<1>2. /\ connecting' = FALSE /\ listening' = listening \ {x} /\ proposal[x].state # "unused"
      /\ proposal' = [proposal EXCEPT ![x].state = "failed"]
      /\ proposal \in [Proposals -> WcProposal]
      /\ UNCHANGED <<provider, lastUri, inited, session>>
  BY DEF ProposalFails, WcInv, WcTypeOK
<1>3. /\ proposal'[x] = [proposal[x] EXCEPT !.state = "failed"]
      /\ \A y \in Proposals \ {x} : proposal'[y] = proposal[y]
      /\ proposal' = [y \in Proposals |-> proposal'[y]]
  BY <1>2
<1>4. /\ proposal' \in [Proposals -> WcProposal]
      /\ proposal'[x].state = "failed" /\ proposal'[x].of = proposal[x].of
  <2>1. proposal[x] \in WcProposal
    BY <1>2
  <2>2. proposal'[x] \in WcProposal /\ proposal'[x].state = "failed" /\ proposal'[x].of = proposal[x].of
    BY <1>3, <2>1 DEF WcProposal
  <2> QED
    BY <1>2, <1>3, <2>2
<1>5. WcTypeOK'
  BY <1>1, <1>2, <1>4 DEF WcInv, WcTypeOK
<1>6. OneProvider'
  BY <1>1, <1>2, <1>3, <1>4 DEF WcInv, OneProvider
<1>7. Awaited'
  <2> SUFFICES ASSUME NEW y \in Proposals, proposal'[y].state = "sent"
               PROVE  y \in listening' /\ \E c \in Callers : call'[c].pc = "uri" /\ call'[c].own = y
    BY <1>2 DEF Awaited
  <2>1. y # x /\ proposal[y].state = "sent"
    BY <1>3, <1>4
  <2>2. PICK c \in Callers : y \in listening /\ call[c].pc = "uri" /\ call[c].own = y
    BY <2>1 DEF WcInv, Awaited
  <2>3. call'[c] = call[c]
    BY <2>1, <2>2 DEF ProposalFails
  <2> QED
    BY <1>2, <2>1, <2>2, <2>3
<1> QED
  BY <1>1, <1>5, <1>6, <1>7 DEF WcInv

\* The session changes; a URI that could be scanned is forgotten.
LEMMA WcSessions ==
  ASSUME WcInv, NEW p \in Providers, NEW a \in Accounts \cup {None}, a # None => p \in inited,
         session' = [session EXCEPT ![p] = a], connecting' \in BOOLEAN, lastUri' = None,
         UNCHANGED <<provider, inited, listening>>,
         \/ UNCHANGED proposal
         \/ \E x \in Proposals : /\ proposal[x].state = "shown"
                                 /\ proposal' = [proposal EXCEPT ![x].state = "approved"],
         \/ UNCHANGED call
         \/ \E c \in Callers : Disconnected(c)
  PROVE  WcInv'
<1>1. /\ call' \in [Callers -> WcCall] /\ Requested'
      /\ \A c \in Callers : /\ call'[c].pc \in {"init", "leaving"} => call'[c].pc = call[c].pc
                            /\ call[c].pc = "uri" => call'[c] = call[c]
  <2>1. CASE UNCHANGED call
    BY <2>1 DEF WcInv, WcTypeOK, Requested
  <2>2. ASSUME NEW c \in Callers, Disconnected(c)
        PROVE  /\ call' \in [Callers -> WcCall] /\ Requested'
               /\ \A d \in Callers : /\ call'[d].pc \in {"init", "leaving"} => call'[d].pc = call[d].pc
                                     /\ call[d].pc = "uri" => call'[d] = call[d]
    <3> DEFINE r == [call[c] EXCEPT !.pc = "done", !.answer = "ok"]
    <3>1. call' = [call EXCEPT ![c] = r] /\ call[c].pc = "leaving"
      BY <2>2 DEF Disconnected, Answers, Set
    <3>2. call \in [Callers -> WcCall] /\ Requested
      BY DEF WcInv, WcTypeOK
    <3>3. r \in WcCall /\ r.pc = "done"
      BY <3>2 DEF WcCall, CallPlaces
    <3> HIDE DEF r
    <3> QED
      BY <3>1, <3>2, <3>3 DEF Requested
  <2> QED
    BY <2>1, <2>2
<1>2. /\ proposal' \in [Proposals -> WcProposal]
      /\ \A x \in Proposals : /\ proposal'[x].of = proposal[x].of
                              /\ proposal'[x].state # "unused" => proposal[x].state # "unused"
                              /\ proposal'[x].state = "sent" => proposal[x].state = "sent"
  <2>0. proposal \in [Proposals -> WcProposal]
    BY DEF WcInv, WcTypeOK
  <2>1. ASSUME NEW x \in Proposals, proposal[x].state = "shown",
               proposal' = [proposal EXCEPT ![x].state = "approved"]
        PROVE  /\ proposal' \in [Proposals -> WcProposal]
               /\ \A y \in Proposals : /\ proposal'[y].of = proposal[y].of
                                       /\ proposal'[y].state # "unused" => proposal[y].state # "unused"
                                       /\ proposal'[y].state = "sent" => proposal[y].state = "sent"
    <3> DEFINE q == [proposal[x] EXCEPT !.state = "approved"]
    <3>1. proposal' = [proposal EXCEPT ![x] = q]
      BY <2>1
    <3>2. q \in WcProposal /\ q.state = "approved" /\ q.of = proposal[x].of
      BY <2>0 DEF WcProposal
    <3> HIDE DEF q
    <3> QED
      BY <2>0, <2>1, <3>1, <3>2
  <2> QED
    BY <2>0, <2>1
<1>3. WcTypeOK'
  BY <1>1, <1>2 DEF WcInv, WcTypeOK
<1>4. OneProvider'
  <2>1. OneProvider /\ session \in [Providers -> Accounts \cup {None}]
    BY DEF WcInv, WcTypeOK
  <2>2. \A q \in Providers : session'[q] # None => q \in inited'
    BY <2>1 DEF OneProvider
  <2>3. \A x \in Proposals : proposal'[x].state # "unused" => proposal'[x].of \in inited'
    BY <1>2, <2>1 DEF OneProvider
  <2>4. \A c \in Callers : /\ call'[c].pc = "init" => provider' = None
                           /\ call'[c].pc = "leaving" => provider' # None
    BY <1>1, <2>1 DEF OneProvider
  <2>5. inited' = IF provider' = None THEN {} ELSE {provider'}
    BY <2>1 DEF OneProvider
  <2> QED
    BY <2>2, <2>3, <2>4, <2>5 DEF OneProvider
<1>5. Awaited'
  <2>1. Awaited
    BY DEF WcInv
  <2>2. ASSUME NEW x \in Proposals, proposal'[x].state = "sent"
        PROVE  x \in listening' /\ \E c \in Callers : call'[c].pc = "uri" /\ call'[c].own = x
    <3>1. PICK c \in Callers : x \in listening /\ call[c].pc = "uri" /\ call[c].own = x
      BY <1>2, <2>1, <2>2 DEF Awaited
    <3>2. call'[c] = call[c]
      BY <1>1, <3>1
    <3> QED
      BY <3>1, <3>2
  <2> QED
    BY <2>2 DEF Awaited
<1> QED
  BY <1>1, <1>3, <1>4, <1>5 DEF WcInv

\* Every step of the world with one call keeps the invariant.
LEMMA WcStep ==
  ASSUME OneAtATime
  PROVE  WcInv /\ [WcNext]_wcVars => WcInv'
<1> SUFFICES ASSUME WcInv, [WcNext]_wcVars PROVE WcInv'
  OBVIOUS
<1>0. /\ session \in [Providers -> Accounts \cup {None}]
      /\ \A x \in Proposals : proposal[x].state # "unused" => proposal[x].of \in inited
      /\ inited \subseteq Providers /\ connecting \in BOOLEAN
      /\ provider \in Providers \cup {None}
  BY DEF WcInv, WcTypeOK, OneProvider
<1>1. ASSUME NEW c \in Callers, CallConnect(c) PROVE WcInv'
  <2>1. CASE ~ IsConnected
    BY <1>1, <2>1, WcConnects DEF CallConnect
  <2>2. CASE IsConnected
    <3> DEFINE r == [Idle EXCEPT !.pc = "done", !.tool = "connect", !.answer = "error"]
    <3>1. r \in WcCall /\ r.pc = "done"
      BY DEF Idle, WcCall, CallPlaces
    <3>2. Set(c, r) /\ UNCHANGED <<manager, relay>> /\ call[c].pc = "idle"
      BY <1>1, <2>2 DEF CallConnect
    <3> HIDE DEF r
    <3> QED
      BY <3>1, <3>2, WcStands
  <2> QED
    BY <2>1, <2>2
<1>2. ASSUME NEW c \in Callers, CallSend(c) PROVE WcInv'
  <2>1. CASE IsConnected
    <3> DEFINE r == [Idle EXCEPT !.pc = "guards", !.tool = "send", !.from = Account]
    <3>1. Account \in Accounts \cup {None}
      BY <1>0, <2>1 DEF Account, IsConnected
    <3>2. r \in WcCall /\ r.pc = "guards" /\ r.request = "none"
      BY <3>1 DEF Idle, WcCall, CallPlaces
    <3>3. Set(c, r) /\ UNCHANGED <<manager, relay>> /\ call[c].pc = "idle"
      BY <1>2, <2>1 DEF CallSend
    <3> HIDE DEF r
    <3> QED
      BY <3>2, <3>3, WcStands
  <2>2. CASE ~ IsConnected /\ connecting /\ lastUri # None
    <3> DEFINE r == [Idle EXCEPT !.pc = "handed", !.tool = "send", !.uri = lastUri]
    <3>1. lastUri \in Proposals \cup {None}
      BY DEF WcInv, WcTypeOK
    <3>2. r \in WcCall /\ r.pc = "handed" /\ r.request = "none"
      BY <3>1 DEF Idle, WcCall, CallPlaces
    <3>3. Set(c, r) /\ UNCHANGED <<manager, relay>> /\ call[c].pc = "idle"
      BY <1>2, <2>2 DEF CallSend
    <3> HIDE DEF r
    <3> QED
      BY <3>2, <3>3, WcStands
  <2>3. CASE ~ IsConnected /\ ~ (connecting /\ lastUri # None)
    BY <1>2, <2>3, WcConnects DEF CallSend
  <2> QED
    BY <2>1, <2>2, <2>3
<1>3. ASSUME NEW c \in Callers, Disconnected(c) PROVE WcInv'
  <2>1. provider \in Providers
    BY <1>0, <1>3 DEF Disconnected, WcInv, OneProvider
  <2>2. /\ session' = [session EXCEPT ![provider] = None] /\ lastUri' = None /\ connecting' \in BOOLEAN
        /\ UNCHANGED <<provider, inited, listening, proposal>>
    BY <1>3 DEF Disconnected
  <2> QED
    BY <1>3, <2>1, <2>2, WcSessions
<1>4. ASSUME NEW c \in Callers, Settles(c) \/ PhoneSends(c) \/ PhoneDeclines(c) \/ NextCall(c) \/ CallDisconnect(c)
      PROVE  WcInv'
  <2>1. CASE InitDone(c)
    BY <2>1, WcInits
  <2>2. CASE Disconnected(c)
    BY <1>3, <2>2
  <2>3. CASE InitFails(c) \/ DisconnectFails(c) \/ HandsOver(c) \/ WcGuardsRefuse(c) \/ WcGuardsPass(c) \/ CallTimesOut(c)
             \/ PhoneSends(c) \/ PhoneDeclines(c) \/ NextCall(c) \/ CallDisconnect(c)
    <3>1. UNCHANGED <<manager, relay>>
      BY <2>3 DEF InitFails, DisconnectFails, HandsOver, WcGuardsRefuse, WcGuardsPass, CallTimesOut, PhoneSends,
                  PhoneDeclines, NextCall, CallDisconnect
    <3> QED
      BY <2>3, <3>1, WcMoves
  <2> QED
    BY <1>4, <2>1, <2>2, <2>3 DEF Settles
<1>5. ASSUME NEW x \in Proposals, PhoneApproves(x) PROVE WcInv'
  <2>1. PICK a \in Accounts : session' = [session EXCEPT ![proposal[x].of] = a]
    BY <1>5 DEF PhoneApproves
  <2>2. /\ proposal[x].state = "shown" /\ proposal' = [proposal EXCEPT ![x].state = "approved"]
        /\ connecting' = FALSE /\ lastUri' = None /\ UNCHANGED <<provider, inited, listening, call>>
    BY <1>5 DEF PhoneApproves
  <2>3. proposal[x].of \in inited /\ proposal[x].of \in Providers
    BY <1>0, <2>2
  <2> QED
    BY <2>1, <2>2, <2>3, WcSessions
<1>6. ASSUME NEW p \in Providers, PhoneEnds(p) PROVE WcInv'
  <2>1. /\ session' = [session EXCEPT ![p] = None] /\ lastUri' = None
        /\ UNCHANGED <<provider, connecting, inited, proposal, listening, call>>
    BY <1>6 DEF PhoneEnds
  <2> QED
    BY <1>0, <2>1, WcSessions
<1>7. CASE UNCHANGED wcVars
  BY <1>7 DEF wcVars, manager, relay, WcInv, WcTypeOK, OneProvider, Awaited, Requested
<1> QED
  BY <1>1, <1>2, <1>4, <1>5, <1>6, <1>7, WcShows, WcFails DEF WcNext

\* A session on the manager's provider is the only one there can be.
LEMMA WcConnected == WcInv => ApprovedIsConnected
  BY WalletAssumption DEF WcInv, OneProvider, ApprovedIsConnected, IsConnected

\* A URI is handed over when it is shown, or later while no pairing has failed
\* or come to an end since.
LEMMA WcHandsLive ==
  ASSUME OneAtATime
  PROVE  WcInv /\ [WcNext]_wcVars
           => [\A c \in Callers : call[c].pc # "handed" /\ call'[c].pc = "handed"
                => proposal'[call'[c].uri].state = "shown"]_wcVars
<1> SUFFICES ASSUME WcInv, WcNext, NEW c \in Callers, call[c].pc # "handed", call'[c].pc = "handed"
             PROVE  proposal'[call'[c].uri].state = "shown"
  OBVIOUS
<1>0. call \in [Callers -> WcCall]
  BY DEF WcInv, WcTypeOK
<1>1. ASSUME NEW d \in Callers, NEW r, Set(d, r), r.pc # "handed" PROVE FALSE
  BY <1>0, <1>1 DEF Set
<1>2. ASSUME NEW d \in Callers, NEW a, Answers(d, a) PROVE FALSE
  <2> DEFINE r == [call[d] EXCEPT !.pc = "done", !.answer = a]
  <2>1. call[d] \in WcCall
    BY <1>0
  <2>2. r.pc = "done"
    BY <2>1 DEF WcCall
  <2>3. Set(d, r)
    BY <1>2 DEF Answers
  <2> HIDE DEF r
  <2> QED
    BY <1>1, <2>2, <2>3
<1>3. ASSUME NEW d \in Callers, NEW tool, Connects(d, tool) PROVE FALSE
  <2>1. \A x : [Idle EXCEPT !.pc = "uri", !.tool = tool, !.own = x].pc # "handed"
    BY DEF Idle
  <2>2. [Idle EXCEPT !.pc = "init", !.tool = tool].pc # "handed"
    BY DEF Idle
  <2> QED
    BY <1>1, <1>3, <2>1, <2>2 DEF Connects, Proposes
<1>4. ASSUME NEW d \in Callers, CallSend(d) PROVE proposal'[call'[c].uri].state = "shown"
  <2>1. d = c
    BY DEF OneAtATime
  <2>2. [Idle EXCEPT !.pc = "guards", !.tool = "send", !.from = Account].pc # "handed"
    BY DEF Idle
  <2>3. /\ connecting /\ lastUri # None
        /\ Set(c, [Idle EXCEPT !.pc = "handed", !.tool = "send", !.uri = lastUri])
        /\ UNCHANGED <<manager, relay>> /\ call[c].pc = "idle"
    BY <1>1, <1>3, <1>4, <2>1, <2>2 DEF CallSend
  <2>4. call'[c].uri = lastUri /\ proposal' = proposal
    BY <1>0, <2>3 DEF Set, Idle, relay
  <2>5. proposal[lastUri].state = "shown"
    BY <2>3 DEF WcInv, Awaited, OneAtATime
  <2> QED
    BY <2>4, <2>5
<1>5. ASSUME NEW d \in Callers, CallConnect(d) PROVE FALSE
  <2>1. [Idle EXCEPT !.pc = "done", !.tool = "connect", !.answer = "error"].pc # "handed"
    BY DEF Idle
  <2> QED
    BY <1>1, <1>3, <1>5, <2>1 DEF CallConnect
<1>6. ASSUME NEW d \in Callers, CallDisconnect(d) \/ NextCall(d) PROVE FALSE
  <2> DEFINE r == [Idle EXCEPT !.tool = "disconnect", !.pc = IF IsConnected THEN "leaving" ELSE "done"]
  <2>1. r.pc # "handed" /\ Idle.pc # "handed"
    BY DEF Idle
  <2>2. Set(d, r) \/ Set(d, Idle)
    BY <1>6 DEF CallDisconnect, NextCall
  <2> HIDE DEF r
  <2> QED
    BY <1>1, <2>1, <2>2
<1>7. ASSUME NEW d \in Callers, Settles(d) PROVE FALSE
  <2>0. call[d] \in WcCall
    BY <1>0
  <2>1. CASE InitDone(d)
    <3>1. PICK x : Set(d, [call[d] EXCEPT !.pc = "uri", !.own = x])
      BY <2>1 DEF InitDone
    <3>2. [call[d] EXCEPT !.pc = "uri", !.own = x].pc # "handed"
      BY <2>0 DEF WcCall
    <3> QED
      BY <1>1, <3>1, <3>2
  <2>2. CASE WcGuardsPass(d)
    <3>1. [call[d] EXCEPT !.pc = "phone", !.sender = Account, !.request = "asked"].pc # "handed"
      BY <2>0 DEF WcCall
    <3> QED
      BY <1>1, <1>2, <2>2, <3>1 DEF WcGuardsPass
  <2> QED
    BY <1>2, <1>7, <2>1, <2>2 DEF Settles, InitFails, DisconnectFails, HandsOver, Disconnected, WcGuardsRefuse, CallTimesOut
<1>8. ASSUME NEW d \in Callers, PhoneSends(d) \/ PhoneDeclines(d) PROVE FALSE
  <2>1. call[d].pc \in {"phone", "done"} /\ call[d] \in WcCall
    BY <1>0, <1>8 DEF PhoneSends, PhoneDeclines, WcInv, Requested
  <2>2. PICK s \in {"sent", "declined"}, a \in {"hash", "rejected"} :
          Set(d, [call[d] EXCEPT !.request = s,
                                 !.pc = IF @ = "phone" THEN "done" ELSE @,
                                 !.answer = IF call[d].pc = "phone" THEN a ELSE @])
    BY <1>8 DEF PhoneSends, PhoneDeclines
  <2> DEFINE r == [call[d] EXCEPT !.request = s,
                                  !.pc = IF @ = "phone" THEN "done" ELSE @,
                                  !.answer = IF call[d].pc = "phone" THEN a ELSE @]
  <2>3. r.pc = "done"
    BY <2>1 DEF WcCall
  <2>4. Set(d, r)
    BY <2>2
  <2> HIDE DEF r
  <2> QED
    BY <1>1, <2>3, <2>4
<1>9. ASSUME NEW x \in Proposals, UriShown(x) PROVE proposal'[call'[c].uri].state = "shown"
  BY <1>9, WcShows
<1>10. ASSUME NEW x \in Proposals, ProposalFails(x) PROVE FALSE
  <2>1. call[c] \in WcCall
    BY <1>0
  <2>2. call'[c] = call[c] \/ call'[c] = [call[c] EXCEPT !.pc = "done", !.answer = "error"]
    BY <1>10 DEF ProposalFails
  <2> QED
    BY <2>1, <2>2 DEF WcCall
<1>11. ASSUME NEW x \in Proposals, PhoneApproves(x) PROVE FALSE
  BY <1>11 DEF PhoneApproves
<1>12. ASSUME NEW p \in Providers, PhoneEnds(p) PROVE FALSE
  BY <1>12 DEF PhoneEnds
<1> QED
  BY <1>4, <1>5, <1>6, <1>7, <1>8, <1>9, <1>10, <1>11, <1>12 DEF WcNext

\* With one call at a time, repeated as often as the client likes, a session that
\* a phone has approved is the one the tools see: what isConnected() promises and
\* two first calls that overlap break, as each makes a provider.
THEOREM OneCallSeesTheSession ==
  ASSUME OneAtATime
  PROVE  WcSpec => []ApprovedIsConnected
<1>1. WcInv /\ [WcNext]_wcVars => WcInv'
  BY WcStep
<1> QED
  BY <1>1, WcBegins, WcConnected, PTL DEF WcSpec

\* Under the same assumption no call is handed a URI whose pairing has failed:
\* that the catch of connect() keeps lastUri harms only a call that begins while
\* another one waits for its URI.
THEOREM OneCallHandsLiveUris ==
  ASSUME OneAtATime
  PROVE  WcSpec => HandedUriIsLive
<1>1. WcInv /\ [WcNext]_wcVars => WcInv'
  BY WcStep
<1>2. WcInv /\ [WcNext]_wcVars
        => [\A c \in Callers : call[c].pc # "handed" /\ call'[c].pc = "handed"
             => proposal'[call'[c].uri].state = "shown"]_wcVars
  BY WcHandsLive
<1> QED
  BY <1>1, <1>2, WcBegins, PTL DEF WcSpec, HandedUriIsLive
=============================================================================
