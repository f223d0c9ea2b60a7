------------------------ MODULE CouncilRunnerProofs ------------------------
(***************************************************************************)
(* Proofs about CouncilRunner, for any proposals, agents, number of faults *)
(* and number of crashes.                                                  *)
(***************************************************************************)
EXTENDS CouncilRunner, TLAPS

-----------------------------------------------------------------------------
(* Types, and what the runner has at hand at each place of its loop.       *)

Deciding == {"ask", "log"}
Calling == {"call", "sent", "after", "execute"}

Places ==
  /\ pc \in Deciding \cup Calling \cup {"vote"} => cur \in Proposals
  /\ pc \in Calling => agent \in Agents /\ Side \in Sides
  /\ pc = "write" => entry \in Entries
  /\ pc = "write" /\ entry.kind # "error" => cur \in Proposals

\* A call that was given up casts what was decided; it dies with its process.
Pledged ==
  /\ pc = "down" => unsent = AllKeys(0)
  /\ \A p \in Proposals, a \in Agents : unsent[p][a] > 0 => mem[p][a].decision \in Sides

TypeInv == TypeOK /\ Places /\ Pledged

LEMMA Marked ==
  /\ Marker("none").kind = "none" /\ Marker("clean").kind = "clean" /\ Marker("torn").kind = "torn"
  /\ Marker("clean") \notin Entries /\ Marker("torn") \notin Entries /\ Marker("none") \notin Entries
BY DEF Marker, Entries

LEMMA EntryTypes ==
  ASSUME NEW e \in Entries
  PROVE  /\ e.kind \in {"decision", "dry", "ok", "failed", "error"} /\ e.p \in Proposals
         /\ e.kind # "error" => e.a \in Agents
         /\ e.kind = "decision" => e.side \in Sides
BY DEF Entries

LEMMA WithTypes ==
  ASSUME NEW s \in Summaries, NEW e \in Entries
  PROVE  /\ With(s, e) \in Summaries
         /\ With(s, e).decision = IF e.kind = "decision" THEN e.side ELSE s.decision
         /\ With(s, e).dry <=> (s.dry \/ e.kind = "dry")
         /\ With(s, e).voted <=> (s.voted \/ e.kind = "ok")
         /\ With(s, e).failed = IF e.kind = "failed" THEN s.failed + 1 ELSE s.failed
<1>1. With(s, e) \in Summaries
  BY EntryTypes DEF With, Summaries
<1>2. /\ With(s, e).dry = (s.dry \/ e.kind = "dry")
      /\ With(s, e).voted = (s.voted \/ e.kind = "ok")
  BY DEF With
<1>3. /\ With(s, e).decision = IF e.kind = "decision" THEN e.side ELSE s.decision
      /\ With(s, e).failed = IF e.kind = "failed" THEN s.failed + 1 ELSE s.failed
  BY DEF With
<1> QED
  BY <1>1, <1>2, <1>3

\* Adding an entry changes one summary.
LEMMA AddTypes ==
  ASSUME NEW log \in Keys(Summaries), NEW e \in Entries
  PROVE  /\ Add(log, e) \in Keys(Summaries)
         /\ \A p \in Proposals, a \in Agents :
              Add(log, e)[p][a] = IF e.kind # "error" /\ e.p = p /\ e.a = a
                                  THEN With(log[p][a], e) ELSE log[p][a]
<1>1. CASE e.kind = "error"
  BY <1>1 DEF Add
<1>2. CASE e.kind # "error"
  <2>1. e.p \in Proposals /\ e.a \in Agents
    BY <1>2, EntryTypes
  <2>2. log[e.p][e.a] \in Summaries
    BY <2>1 DEF Keys
  <2>3. With(log[e.p][e.a], e) \in Summaries
    BY <2>2, WithTypes
  <2> DEFINE w == With(log[e.p][e.a], e)
  <2>4. Add(log, e) = [log EXCEPT ![e.p][e.a] = w]
    BY <1>2 DEF Add
  <2> HIDE DEF w
  <2>5. w \in Summaries
    BY <2>3 DEF w
  <2>6. Add(log, e) \in Keys(Summaries)
    BY <2>1, <2>4, <2>5 DEF Keys
  <2>7. \A p \in Proposals, a \in Agents :
          Add(log, e)[p][a] = IF e.p = p /\ e.a = a THEN w ELSE log[p][a]
    BY <2>1, <2>4 DEF Keys
  <2> QED
    BY <1>2, <2>6, <2>7 DEF w
<1> QED
  BY <1>1, <1>2

LEMMA BlankTypes == AllKeys(Blank) \in Keys(Summaries)
BY DEF AllKeys, Blank, Keys, Summaries

LEMMA OnDiskTypes ==
  ASSUME TypeOK
  PROVE  OnDisk \in Keys(Summaries)
BY AddTypes, Marked DEF TypeOK, OnDisk

LEMMA TypeInit == CouncilInit => TypeInv
<1> SUFFICES ASSUME CouncilInit PROVE TypeInv
  OBVIOUS
<1>1. mem \in Keys(Summaries) /\ lines \in Keys(Summaries)
  BY BlankTypes DEF CouncilInit
<1>2. /\ votes \in Keys(Sides \cup {"none", "created"})
      /\ asks \in Keys(Nat) /\ saidFor \in Keys(BOOLEAN) /\ sends \in Keys(Nat)
  BY DEF CouncilInit, Keys, AllKeys
<1>3. reply \in [Agents -> Sides \cup {"none"}]
  BY DEF CouncilInit, NoReply
<1>4. faults \in 0..MaxFaults /\ crashes \in 0..MaxCrashes
  BY CouncilAssumption DEF CouncilInit
<1>5. Places
  BY DEF CouncilInit, Places, Deciding, Calling
<1>6. unsent \in Keys(Nat) /\ Pledged
  BY DEF CouncilInit, Keys, AllKeys, Pledged
<1> QED
  BY <1>1, <1>2, <1>3, <1>4, <1>5, <1>6 DEF CouncilInit, TypeInv, TypeOK

LEMMA NoneUnsent == AllKeys(0) \in Keys(Nat)
BY DEF AllKeys, Keys

LEMMA LogsTypes ==
  ASSUME NEW p \in Proposals, NEW a \in Agents, NEW kind \in {"ok", "failed"}, Logs(p, a, kind)
  PROVE  /\ pc' = "write" /\ agent' = NoAgent
         /\ entry' = [kind |-> kind, p |-> p, a |-> a, side |-> "none"]
         /\ entry' \in Entries /\ entry'.kind = kind /\ entry'.p = p /\ entry'.a = a
BY DEF Logs, Entries

LEMMA CastTypes ==
  ASSUME votes \in Keys(Sides \cup {"none", "created"}), NEW tx \in Txs, Cast(tx)
  PROVE  /\ votes' \in Keys(Sides \cup {"none", "created"})
         /\ \A p \in Proposals, a \in Agents :
              votes'[p][a] = IF tx.p = p /\ tx.a = a THEN tx.side ELSE votes[p][a]
<1> DEFINE V == Sides \cup {"none", "created"}
<1>1. tx.p \in Proposals /\ tx.a \in Agents /\ tx.side \in V
  BY DEF Txs
<1> HIDE DEF V
<1>2. votes \in [Proposals -> [Agents -> V]] /\ votes' = [votes EXCEPT ![tx.p][tx.a] = tx.side]
  BY DEF V, Keys, Cast
<1>3. votes' \in [Proposals -> [Agents -> V]]
  BY <1>1, <1>2
<1> QED
  BY <1>1, <1>2, <1>3 DEF V, Keys

\* The steps between two rounds and those that pick a proposal.
LEMMA TypeRounds ==
  ASSUME TypeInv,
         \/ Start \/ Stop \/ BeginRound \/ ListFails \/ RoundEnds
         \/ \E p \in Proposals : SkipProposal(p) \/ Review(p) \/ ReviewFails(p) \/ NothingToAsk(p)
  PROVE  TypeOK' /\ Places'
<1> USE DEF TypeInv, Places, Deciding, Calling, roundVars, logVars, chainVars, toolVars, history, Side
<1>1. CASE Start
  BY <1>1, OnDiskTypes DEF Start, TypeOK
<1>2. CASE Stop
  BY <1>2, BlankTypes, NoneUnsent DEF Stop, TypeOK
<1>3. CASE BeginRound
  BY <1>3 DEF BeginRound, TypeOK
<1>4. CASE ListFails
  BY <1>4, CouncilAssumption DEF ListFails, Fault, TypeOK
<1>5. CASE RoundEnds
  BY <1>5 DEF RoundEnds, TypeOK
<1>6. ASSUME NEW p \in Proposals, SkipProposal(p) PROVE TypeOK' /\ Places'
  BY <1>6 DEF SkipProposal, TypeOK
<1>7. ASSUME NEW p \in Proposals, Review(p) PROVE TypeOK' /\ Places'
  <2>1. ToVote(p) \subseteq Agents /\ Undecided(p) \subseteq Agents
    BY DEF ToVote, Undecided
  <2>2. asks' \in Keys(Nat)
    BY <1>7 DEF Review, TypeOK, Keys
  <2> QED
    BY <1>7, <2>1, <2>2 DEF Review, TypeOK
<1>8. ASSUME NEW p \in Proposals, ReviewFails(p) PROVE TypeOK' /\ Places'
  <2>1. entry' \in Entries /\ entry'.kind = "error"
    BY <1>8 DEF ReviewFails, Entries
  <2> QED
    BY <1>8, <2>1, CouncilAssumption DEF ReviewFails, Fault, TypeOK
<1>9. ASSUME NEW p \in Proposals, NothingToAsk(p) PROVE TypeOK' /\ Places'
  <2>1. ToVote(p) \subseteq Agents
    BY DEF ToVote
  <2> QED
    BY <1>9, <2>1 DEF NothingToAsk, TypeOK
<1> QED
  BY <1>1, <1>2, <1>3, <1>4, <1>5, <1>6, <1>7, <1>8, <1>9

\* The steps that decide and log.
LEMMA TypeDecisions ==
  ASSUME TypeInv,
         \/ \E a \in Agents : \/ \E answer \in Sides \cup {"none"} : Decide(a, answer)
                              \/ LogDecision(a)
         \/ DecisionsLogged \/ Write
  PROVE  TypeOK' /\ Places'
<1> USE DEF TypeInv, Places, Deciding, Calling, roundVars, logVars, chainVars, toolVars, history, Side
<1>1. ASSUME NEW a \in Agents, NEW answer \in Sides \cup {"none"}, Decide(a, answer) PROVE TypeOK' /\ Places'
  <2>1. Decision(answer) \in Sides
    BY DEF Decision, Sides
  <2>2. reply' \in [Agents -> Sides \cup {"none"}]
    BY <1>1, <2>1 DEF Decide, TypeOK
  <2>3. saidFor' \in Keys(BOOLEAN)
    BY <1>1 DEF Decide, TypeOK, Keys
  <2> QED
    BY <1>1, <2>2, <2>3 DEF Decide, TypeOK
<1>2. ASSUME NEW a \in Agents, LogDecision(a) PROVE TypeOK' /\ Places'
  <2>1. reply[a] \in Sides /\ cur \in Proposals
    BY <1>2 DEF LogDecision, First, TypeOK
  <2>2. entry' \in Entries
    BY <1>2, <2>1 DEF LogDecision, Entries
  <2>3. reply' \in [Agents -> Sides \cup {"none"}]
    BY <1>2 DEF LogDecision, TypeOK
  <2> QED
    BY <1>2, <2>1, <2>2, <2>3 DEF LogDecision, TypeOK
<1>3. CASE DecisionsLogged
  BY <1>3 DEF DecisionsLogged, TypeOK
<1>4. CASE Write
  <2>1. entry \in Entries
    BY <1>4 DEF Write
  <2>2. mem' \in Keys(Summaries) /\ lines' \in Keys(Summaries) /\ tail' = Marker("clean")
    BY <1>4, <2>1, AddTypes DEF Write, Append, TypeOK
  <2>3. pc' \in {"next", "log", "vote"} /\ (entry.kind = "error" => pc' = "next")
    BY <1>4, <2>1, EntryTypes DEF Write
  <2> QED
    BY <1>4, <2>1, <2>2, <2>3 DEF Write, TypeOK
<1> QED
  BY <1>1, <1>2, <1>3, <1>4

\* The steps of a vote.
LEMMA TypeVotes ==
  ASSUME TypeInv,
         \/ VotesCast
         \/ \E a \in Agents : CheckState(a) \/ StateUnread(a)
         \/ FindsVotingOver \/ FindsVote \/ CallRefused \/ Broadcast
         \/ Receipt \/ ClientGivesUp \/ ReadsOn \/ Executes \/ DoesNotExecute
  PROVE  TypeOK' /\ Places'
<1> USE DEF TypeInv, Places, Deciding, Calling, roundVars, logVars, chainVars, toolVars, history, Side
<1>1. CASE VotesCast
  BY <1>1 DEF VotesCast, TypeOK
<1>2. ASSUME NEW a \in Agents, CheckState(a) PROVE TypeOK' /\ Places'
  <2>1. cur \in Proposals /\ mem[cur][a] \in Summaries /\ mem[cur][a].decision \in Sides
    BY <1>2 DEF CheckState, TypeOK, Keys, Summaries
  <2>2. CASE state[cur] = "Voting"
    BY <1>2, <2>1, <2>2 DEF CheckState, TypeOK
  <2>3. CASE state[cur] # "Voting"
    BY <1>2, <2>1, <2>3, LogsTypes DEF CheckState, TypeOK
  <2> QED
    BY <2>2, <2>3
<1>3. ASSUME NEW a \in Agents, StateUnread(a) PROVE TypeOK' /\ Places'
  BY <1>3, LogsTypes, CouncilAssumption DEF StateUnread, Fault, TypeOK
<1>4. CASE FindsVotingOver
  BY <1>4, LogsTypes DEF FindsVotingOver, Outcome, TypeOK
<1>5. CASE FindsVote
  BY <1>5, LogsTypes DEF FindsVote, Outcome, TypeOK
<1>6. CASE CallRefused
  BY <1>6, LogsTypes, CouncilAssumption DEF CallRefused, Fault, Outcome, TypeOK
<1>7. CASE Broadcast
  <2>1. sends' \in Keys(Nat)
    BY <1>7 DEF Broadcast, TypeOK, Keys
  <2> QED
    BY <1>7, <2>1 DEF Broadcast, TypeOK
<1>8. CASE Receipt
  <2>1. cur \in Proposals /\ agent \in Agents /\ Side \in Sides
    BY <1>8 DEF Receipt
  <2>2. votes' \in Keys(Sides \cup {"none", "created"})
    <3>1. Tx \in Txs
      BY <2>1 DEF Tx, Txs
    <3> QED
      BY <1>8, <3>1, CastTypes DEF Receipt, TypeOK
  <2> QED
    BY <1>8, <2>1, <2>2, LogsTypes DEF Receipt, Outcome, TypeOK
<1>9. CASE ClientGivesUp
  <2>1. cur \in Proposals /\ agent \in Agents /\ Tx \in Txs
    BY <1>9 DEF ClientGivesUp, Tx, Txs
  <2>2. unsent' \in Keys(Nat)
    BY <1>9, <2>1 DEF ClientGivesUp, TypeOK, Keys
  <2>3. late' \subseteq Txs /\ detached' \subseteq Detached
    BY <1>9, <2>1 DEF ClientGivesUp, TypeOK, GivenUp, Detached
  <2> QED
    BY <1>9, <2>1, <2>2, <2>3, LogsTypes, CouncilAssumption DEF ClientGivesUp, Fault, Outcome, TypeOK
<1>10. CASE ReadsOn
  BY <1>10, LogsTypes DEF ReadsOn, Outcome, TypeOK
<1>11. CASE Executes
  <2>1. /\ state' \in [Proposals -> {"Voting", "Passed", "Over"}]
        /\ executor' \in [Proposals -> Agents \cup {NoAgent}]
    BY <1>11 DEF Executes, TypeOK
  <2> QED
    BY <1>11, <2>1, LogsTypes DEF Executes, Outcome, TypeOK
<1>12. CASE DoesNotExecute
  BY <1>12, LogsTypes DEF DoesNotExecute, Outcome, TypeOK
<1> QED
  BY <1>1, <1>2, <1>3, <1>4, <1>5, <1>6, <1>7, <1>8, <1>9, <1>10, <1>11, <1>12

\* The chain's steps and the crash.
LEMMA TypeWorld ==
  ASSUME TypeInv,
         \/ Crash
         \/ \E p \in Proposals : CloseVoting(p) \/ OthersExecute(p)
         \/ \E tx \in late : LateTx(tx)
         \/ \E p \in Proposals, a \in Agents : SendsLate(p, a) \/ SendsNothing(p, a)
         \/ \E d \in detached : ExecutesLate(d)
  PROVE  TypeOK' /\ Places'
<1> USE DEF TypeInv, Places, Deciding, Calling, roundVars, logVars, chainVars, toolVars, history, Side
<1>1. CASE Crash
  <2>1. mem' \in Keys(Summaries) /\ reply' \in [Agents -> Sides \cup {"none"}]
    BY <1>1, BlankTypes DEF Crash, NoReply
  <2>2. tail' \in Entries \cup {Marker("clean"), Marker("torn")}
    BY <1>1 DEF Crash, Partial, TypeOK
  <2>3. late' \subseteq Txs
    BY <1>1 DEF Crash, Tx, Txs, TypeOK
  <2>4. crashes' \in 0..MaxCrashes
    BY <1>1, CouncilAssumption DEF Crash, TypeOK
  <2> QED
    BY <1>1, <2>1, <2>2, <2>3, <2>4, NoneUnsent DEF Crash, TypeOK
<1>2. ASSUME NEW p \in Proposals, CloseVoting(p) PROVE TypeOK' /\ Places'
  BY <1>2 DEF CloseVoting, TypeOK
<1>3. ASSUME NEW p \in Proposals, OthersExecute(p) PROVE TypeOK' /\ Places'
  BY <1>3 DEF OthersExecute, TypeOK
<1>4. ASSUME NEW tx \in late, LateTx(tx) PROVE TypeOK' /\ Places'
  <2>1. tx \in Txs
    BY DEF TypeOK
  <2>2. votes' \in Keys(Sides \cup {"none", "created"})
    BY <1>4, <2>1, CastTypes DEF LateTx, TypeOK
  <2>3. detached' \subseteq Detached
    BY <1>4, <2>1 DEF LateTx, TypeOK, Txs, GivenUp, Detached
  <2> QED
    BY <1>4, <2>2, <2>3 DEF LateTx, TypeOK
<1>5. ASSUME NEW p \in Proposals, NEW a \in Agents, SendsLate(p, a) PROVE TypeOK' /\ Places'
  <2>1. unsent[p][a] \in Nat /\ unsent[p][a] > 0 /\ Given(p, a) \in Txs
    BY <1>5 DEF SendsLate, Pledged, Given, Txs, TypeOK, Keys
  <2>2. unsent' \in Keys(Nat)
    BY <1>5, <2>1 DEF SendsLate, TypeOK, Keys
  <2>3. sends' \in Keys(Nat)
    BY <1>5 DEF SendsLate, TypeOK, Keys
  <2>4. late' \subseteq Txs /\ detached' \subseteq Detached
    BY <1>5, <2>1 DEF SendsLate, TypeOK, GivenUp, Detached
  <2> QED
    BY <1>5, <2>2, <2>3, <2>4 DEF SendsLate, TypeOK
<1>6. ASSUME NEW p \in Proposals, NEW a \in Agents, SendsNothing(p, a) PROVE TypeOK' /\ Places'
  <2>1. unsent[p][a] \in Nat /\ unsent[p][a] > 0
    BY <1>6 DEF SendsNothing, TypeOK, Keys
  <2>2. unsent' \in Keys(Nat)
    BY <1>6, <2>1 DEF SendsNothing, TypeOK, Keys
  <2>3. detached' \subseteq Detached
    BY <1>6 DEF SendsNothing, TypeOK, GivenUp, Detached
  <2> QED
    BY <1>6, <2>2, <2>3 DEF SendsNothing, TypeOK
<1>7. ASSUME NEW d \in detached, ExecutesLate(d) PROVE TypeOK' /\ Places'
  <2>1. d.p \in Proposals /\ d.a \in Agents
    BY DEF TypeOK, Detached
  <2>2. /\ state' \in [Proposals -> {"Voting", "Passed", "Over"}]
        /\ executor' \in [Proposals -> Agents \cup {NoAgent}]
    BY <1>7, <2>1 DEF ExecutesLate, TypeOK
  <2> QED
    BY <1>7, <2>2 DEF ExecutesLate, TypeOK
<1> QED
  BY <1>1, <1>2, <1>3, <1>4, <1>5, <1>6, <1>7

\* A decision is not taken back while the process lives.
LEMMA PledgedStep ==
  ASSUME TypeInv, [CouncilNext]_councilVars
  PROVE  Pledged'
<1> USE DEF TypeInv, roundVars, logVars, chainVars, toolVars, history
<1>1. CASE UNCHANGED <<mem, unsent>> /\ (pc' = "down" => pc = "down")
  BY <1>1 DEF Pledged
<1>2. CASE Start
  BY <1>2 DEF Start, Pledged, AllKeys
<1>3. CASE Stop \/ Crash
  BY <1>3 DEF Stop, Crash, Pledged, AllKeys
<1>4. CASE Write
  <2>1. entry \in Entries /\ mem' = Add(mem, entry) /\ unsent' = unsent /\ pc' # "down"
    BY <1>4 DEF Write, Append, Places
  <2>2. ASSUME NEW p \in Proposals, NEW a \in Agents, mem[p][a].decision \in Sides
        PROVE  mem'[p][a].decision \in Sides
    <3>1. mem \in Keys(Summaries) /\ mem[p][a] \in Summaries
      BY DEF TypeOK, Keys
    <3> QED
      BY <2>1, <2>2, <3>1, AddTypes, WithTypes, EntryTypes
  <2> QED
    BY <2>1, <2>2 DEF Pledged
<1>5. CASE ClientGivesUp
  <2>1. cur \in Proposals /\ agent \in Agents /\ mem[cur][agent].decision \in Sides
    BY <1>5 DEF ClientGivesUp, Places, Calling, Side
  <2>2. pc' = "write" /\ mem' = mem
    BY <1>5 DEF ClientGivesUp, Outcome, Logs
  <2>3. \A p \in Proposals, a \in Agents : p # cur \/ a # agent => unsent'[p][a] = unsent[p][a]
    BY <1>5, <2>1 DEF ClientGivesUp, TypeOK, Keys
  <2> QED
    BY <2>1, <2>2, <2>3 DEF Pledged
<1>6. ASSUME NEW p \in Proposals, NEW a \in Agents, SendsLate(p, a) \/ SendsNothing(p, a)
      PROVE  Pledged'
  <2>1. unsent[p][a] \in Nat /\ unsent[p][a] > 0 /\ unsent' = [unsent EXCEPT ![p][a] = @ - 1]
    BY <1>6 DEF SendsLate, SendsNothing, TypeOK, Keys
  <2>2. mem' = mem /\ pc' = pc /\ pc # "down"
    BY <1>6, <2>1 DEF SendsLate, SendsNothing, Pledged, AllKeys
  <2>3. \A q \in Proposals, b \in Agents : q # p \/ b # a => unsent'[q][b] = unsent[q][b]
    BY <2>1 DEF TypeOK, Keys
  <2> QED
    BY <2>1, <2>2, <2>3 DEF Pledged
<1>7. CASE \/ BeginRound \/ ListFails \/ RoundEnds \/ DecisionsLogged \/ VotesCast
           \/ FindsVotingOver \/ FindsVote \/ CallRefused \/ Broadcast \/ Receipt
           \/ ReadsOn \/ Executes \/ DoesNotExecute
           \/ \E q \in Proposals : \/ SkipProposal(q) \/ Review(q) \/ ReviewFails(q) \/ NothingToAsk(q)
                                   \/ CloseVoting(q) \/ OthersExecute(q)
           \/ \E b \in Agents : \/ \E answer \in Sides \cup {"none"} : Decide(b, answer)
                                \/ LogDecision(b) \/ CheckState(b) \/ StateUnread(b)
           \/ \E d \in detached : ExecutesLate(d)
           \/ \E tx \in late : LateTx(tx)
           \/ UNCHANGED councilVars
  <2>1. UNCHANGED <<mem, unsent>>
    BY <1>7 DEF BeginRound, ListFails, RoundEnds, DecisionsLogged, VotesCast, FindsVotingOver, FindsVote,
       CallRefused, Broadcast, Receipt, ReadsOn, Executes, DoesNotExecute, SkipProposal, Review,
       ReviewFails, NothingToAsk, CloseVoting, OthersExecute, Decide, LogDecision, CheckState, StateUnread,
       ExecutesLate, LateTx, councilVars
  <2>2. pc' = "down" => pc = "down"
    BY <1>7 DEF BeginRound, ListFails, RoundEnds, DecisionsLogged, VotesCast, FindsVotingOver, FindsVote,
       CallRefused, Broadcast, Receipt, ReadsOn, Executes, DoesNotExecute, SkipProposal, Review,
       ReviewFails, NothingToAsk, CloseVoting, OthersExecute, Decide, LogDecision, CheckState, StateUnread,
       ExecutesLate, LateTx, councilVars, Outcome, Logs
  <2> QED
    BY <1>1, <2>1, <2>2
<1> QED
  BY <1>2, <1>3, <1>4, <1>5, <1>6, <1>7 DEF CouncilNext, RunnerStep

LEMMA TypeStep == TypeInv /\ [CouncilNext]_councilVars => TypeInv'
<1> SUFFICES ASSUME TypeInv, [CouncilNext]_councilVars PROVE TypeOK' /\ Places'
  BY PledgedStep DEF TypeInv
<1>1. CASE UNCHANGED councilVars
  BY <1>1 DEF councilVars, roundVars, logVars, chainVars, toolVars, history, TypeInv, TypeOK, Places, Deciding, Calling, Side
<1> QED
  BY <1>1, TypeRounds, TypeDecisions, TypeVotes, TypeWorld DEF CouncilNext, RunnerStep

\* Every value of every variable has its type, however long the runner goes.
THEOREM CouncilTypes == CouncilSpec => []TypeOK
<1>1. TypeInv => TypeOK
  BY DEF TypeInv
<1> QED
  BY <1>1, TypeInit, TypeStep, PTL DEF CouncilSpec

-----------------------------------------------------------------------------
(* Nothing is left over from an earlier proposal.                          *)

Tidy ==
  /\ pc # "ask" => waiting = {}
  /\ pc \notin {"ask", "log", "write"} => reply = NoReply
  /\ pc = "write" /\ entry.kind \notin {"decision", "dry"} => reply = NoReply

LEMMA TidyStep == TypeInv /\ Tidy /\ [CouncilNext]_councilVars => Tidy'
<1> SUFFICES ASSUME TypeInv, Tidy, [CouncilNext]_councilVars PROVE Tidy'
  OBVIOUS
<1> USE DEF Tidy, roundVars, logVars, chainVars, toolVars, history
<1>1. CASE UNCHANGED councilVars
  BY <1>1 DEF councilVars
<1>2. CASE Start \/ Stop \/ BeginRound \/ ListFails \/ RoundEnds
  BY <1>2 DEF Start, Stop, BeginRound, ListFails, RoundEnds
<1>3. ASSUME NEW p \in Proposals, SkipProposal(p) \/ Review(p) \/ ReviewFails(p) \/ NothingToAsk(p)
      PROVE  Tidy'
  BY <1>3 DEF SkipProposal, Review, ReviewFails, NothingToAsk
<1>4. ASSUME NEW a \in Agents, NEW answer \in Sides \cup {"none"}, Decide(a, answer) PROVE Tidy'
  BY <1>4 DEF Decide
<1>5. ASSUME NEW a \in Agents, LogDecision(a) PROVE Tidy'
  <2>1. entry'.kind \in {"decision", "dry"} /\ waiting' = waiting /\ pc' = "write" /\ pc = "log"
    BY <1>5 DEF LogDecision
  <2> QED
    BY <2>1
<1>6. CASE DecisionsLogged
  BY <1>6 DEF DecisionsLogged
<1>7. CASE Write
  <2>1. entry \in Entries
    BY <1>7 DEF Write, TypeInv, Places
  <2>2. /\ entry.kind = "error" => pc' = "next"
        /\ entry.kind \in {"decision", "dry"} => pc' = "log"
        /\ entry.kind \in {"ok", "failed"} => pc' = "vote"
    BY <1>7, <2>1, EntryTypes DEF Write
  <2>3. waiting' = waiting /\ reply' = reply /\ pc = "write"
    BY <1>7 DEF Write
  <2> QED
    BY <2>1, <2>2, <2>3, EntryTypes
<1>8. ASSUME NEW a \in Agents, CheckState(a) \/ StateUnread(a) PROVE Tidy'
  <2>1. /\ pc = "vote" /\ waiting' = waiting /\ reply' = reply /\ pc' \in {"call", "write"}
    BY <1>8 DEF CheckState, StateUnread, Logs
  <2> QED
    BY <2>1
<1>9. CASE \/ VotesCast \/ FindsVotingOver \/ FindsVote \/ CallRefused \/ Broadcast
           \/ Receipt \/ ClientGivesUp \/ ReadsOn \/ Executes \/ DoesNotExecute
  <2>1. /\ pc \in Calling \cup {"vote"} /\ waiting' = waiting /\ reply' = reply
        /\ pc' \in Calling \cup {"write", "next"}
    BY <1>9 DEF VotesCast, FindsVotingOver, FindsVote, CallRefused, Broadcast, Receipt, ClientGivesUp,
                ReadsOn, Executes, DoesNotExecute, Outcome, Logs, Calling
  <2> QED
    BY <2>1 DEF Calling
<1>10. CASE Crash
  BY <1>10 DEF Crash
<1>11. ASSUME NEW p \in Proposals, CloseVoting(p) \/ OthersExecute(p) PROVE Tidy'
  BY <1>11 DEF CloseVoting, OthersExecute
<1>12. ASSUME NEW tx \in late, LateTx(tx) PROVE Tidy'
  BY <1>12 DEF LateTx
<1>13. ASSUME NEW p \in Proposals, NEW a \in Agents, SendsLate(p, a) \/ SendsNothing(p, a) PROVE Tidy'
  BY <1>13 DEF SendsLate, SendsNothing
<1>14. ASSUME NEW d \in detached, ExecutesLate(d) PROVE Tidy'
  BY <1>14 DEF ExecutesLate
<1> QED
  BY <1>1, <1>2, <1>3, <1>4, <1>5, <1>6, <1>7, <1>8, <1>9, <1>10, <1>11, <1>12, <1>13, <1>14 DEF CouncilNext, RunnerStep

-----------------------------------------------------------------------------
(* Fail closed: whatever may yet become a FOR vote was said by a model.    *)

HonestLog(log) == \A p \in Proposals, a \in Agents : log[p][a].decision = "for" => saidFor[p][a]
HonestEntry(e) == e.kind = "decision" /\ e.side = "for" => saidFor[e.p][e.a]

Honest ==
  /\ HonestLog(mem) /\ HonestLog(lines) /\ HonestEntry(entry) /\ HonestEntry(tail)
  /\ ~dry => \A a \in Agents : reply[a] = "for" => saidFor[cur][a]
  /\ pc \in {"after", "execute"} => Side = "for"
  /\ \A d \in detached : saidFor[d.p][d.a]
  /\ ForNeedsAModel

HonestInv == TypeInv /\ Tidy /\ Honest

LEMMA AddIsHonest ==
  ASSUME NEW log \in Keys(Summaries), NEW e \in Entries, HonestLog(log), HonestEntry(e)
  PROVE  HonestLog(Add(log, e))
<1> SUFFICES ASSUME NEW p \in Proposals, NEW a \in Agents, Add(log, e)[p][a].decision = "for"
             PROVE  saidFor[p][a]
  BY DEF HonestLog
<1>1. log[p][a] \in Summaries
  BY DEF Keys
<1> QED
  BY <1>1, AddTypes, WithTypes, EntryTypes DEF HonestLog, HonestEntry

LEMMA BlankIsHonest == HonestLog(AllKeys(Blank))
BY DEF HonestLog, AllKeys, Blank

LEMMA LogsIsHonest ==
  ASSUME NEW p \in Proposals, NEW a \in Agents, NEW kind \in {"ok", "failed"}, Logs(p, a, kind)
  PROVE  entry'.kind # "decision"
BY LogsTypes

LEMMA HonestRounds ==
  ASSUME HonestInv,
         \/ Start \/ Stop \/ BeginRound \/ ListFails \/ RoundEnds
         \/ \E p \in Proposals : SkipProposal(p) \/ Review(p) \/ ReviewFails(p) \/ NothingToAsk(p)
  PROVE  Honest'
<1> USE DEF HonestInv, Honest, HonestEntry, roundVars, logVars, chainVars, toolVars, history, Side, ForNeedsAModel
<1>1. CASE Start
  <2>1. HonestLog(OnDisk)
    BY AddIsHonest, Marked DEF TypeInv, TypeOK, OnDisk
  <2>2. \A a \in Agents : reply[a] = "none"
    BY <1>1 DEF Start, Tidy, NoReply
  <2> QED
    BY <1>1, <2>1, <2>2 DEF Start, HonestLog
<1>2. CASE Stop
  <2>1. \A a \in Agents : reply[a] = "none"
    BY <1>2 DEF Stop, Tidy, NoReply
  <2> QED
    BY <1>2, <2>1, BlankIsHonest DEF Stop, HonestLog
<1>3. CASE BeginRound \/ ListFails
  BY <1>3 DEF BeginRound, ListFails, HonestLog
<1>4. CASE RoundEnds
  <2>1. \A a \in Agents : reply[a] = "none"
    BY <1>4 DEF RoundEnds, Tidy, NoReply
  <2> QED
    BY <1>4, <2>1 DEF RoundEnds, HonestLog
<1>5. ASSUME NEW p \in Proposals, SkipProposal(p) \/ Review(p) \/ ReviewFails(p) \/ NothingToAsk(p)
      PROVE  Honest'
  <2>1. \A a \in Agents : reply[a] = "none"
    BY <1>5 DEF SkipProposal, Review, ReviewFails, NothingToAsk, Tidy, NoReply
  <2>2. entry' = entry \/ entry'.kind = "error"
    BY <1>5 DEF SkipProposal, Review, ReviewFails, NothingToAsk
  <2> QED
    BY <1>5, <2>1, <2>2 DEF SkipProposal, Review, ReviewFails, NothingToAsk, HonestLog
<1> QED
  BY <1>1, <1>2, <1>3, <1>4, <1>5

LEMMA HonestDecisions ==
  ASSUME HonestInv,
         \/ \E a \in Agents : \/ \E answer \in Sides \cup {"none"} : Decide(a, answer)
                              \/ LogDecision(a)
         \/ DecisionsLogged \/ Write
  PROVE  Honest'
<1> USE DEF HonestInv, Honest, roundVars, logVars, chainVars, toolVars, history, Side
<1>1. ASSUME NEW a \in Agents, NEW answer \in Sides \cup {"none"}, Decide(a, answer) PROVE Honest'
  <2>1. cur \in Proposals
    BY <1>1 DEF Decide, TypeInv, Places, Deciding
  <2>2. \A p \in Proposals, b \in Agents :
          saidFor'[p][b] = IF p = cur /\ b = a THEN saidFor[p][b] \/ (~dry /\ answer = "for")
                           ELSE saidFor[p][b]
    BY <1>1, <2>1 DEF Decide, TypeInv, TypeOK, Keys
  <2>3. \A b \in Agents : reply'[b] = IF b = a THEN Decision(answer) ELSE reply[b]
    BY <1>1 DEF Decide, TypeInv, TypeOK
  <2>4. \A p \in Proposals, b \in Agents : saidFor[p][b] => saidFor'[p][b]
    BY <2>2
  <2>5. ~dry => \A b \in Agents : reply'[b] = "for" => saidFor'[cur][b]
    BY <2>1, <2>2, <2>3 DEF Decision
  <2>6. ForNeedsAModel' /\ \A d \in detached' : saidFor'[d.p][d.a]
    BY <1>1, <2>4 DEF Decide, ForNeedsAModel, TypeInv, TypeOK, Txs, Detached
  <2>7. HonestLog(mem)' /\ HonestLog(lines)'
    BY <1>1, <2>4 DEF Decide, HonestLog
  <2>8. HonestEntry(entry)' /\ HonestEntry(tail)'
    BY <1>1, <2>4, EntryTypes DEF Decide, HonestEntry, TypeInv, TypeOK, Marker
  <2> QED
    BY <1>1, <2>5, <2>6, <2>7, <2>8 DEF Decide
<1>2. ASSUME NEW a \in Agents, LogDecision(a) PROVE Honest'
  <2>1. cur \in Proposals /\ saidFor' = saidFor
    BY <1>2 DEF LogDecision, TypeInv, Places, Deciding
  <2>2. HonestEntry(entry)'
    BY <1>2, <2>1 DEF LogDecision, HonestEntry
  <2>3. \A b \in Agents : reply'[b] = "for" => reply[b] = "for"
    BY <1>2 DEF LogDecision, TypeInv, TypeOK
  <2> QED
    BY <1>2, <2>1, <2>2, <2>3 DEF LogDecision, HonestLog, HonestEntry, ForNeedsAModel
<1>3. CASE DecisionsLogged
  BY <1>3 DEF DecisionsLogged, HonestLog, HonestEntry, ForNeedsAModel
<1>4. CASE Write
  <2>1. entry \in Entries
    BY <1>4 DEF Write, TypeInv, Places
  <2>2. HonestLog(Add(mem, entry)) /\ HonestLog(Add(lines, entry))
    BY <2>1, AddIsHonest DEF TypeInv, TypeOK
  <2>3. HonestLog(mem)' /\ HonestLog(lines)' /\ HonestEntry(tail)' /\ HonestEntry(entry)'
    BY <1>4, <2>2, Marked DEF Write, Append, HonestLog, HonestEntry
  <2>4. pc' \in {"next", "log", "vote"}
    BY <1>4, <2>1, EntryTypes DEF Write
  <2> QED
    BY <1>4, <2>3, <2>4 DEF Write, ForNeedsAModel
<1> QED
  BY <1>1, <1>2, <1>3, <1>4

LEMMA HonestVotes ==
  ASSUME HonestInv,
         \/ VotesCast
         \/ \E a \in Agents : CheckState(a) \/ StateUnread(a)
         \/ FindsVotingOver \/ FindsVote \/ CallRefused \/ Broadcast
         \/ Receipt \/ ClientGivesUp \/ ReadsOn \/ Executes \/ DoesNotExecute
  PROVE  Honest'
<1> USE DEF HonestInv, Honest, roundVars, logVars, chainVars, toolVars, history, Side
<1>1. CASE VotesCast
  BY <1>1 DEF VotesCast, HonestLog, HonestEntry, ForNeedsAModel
<1>2. ASSUME NEW a \in Agents, CheckState(a) \/ StateUnread(a) PROVE Honest'
  <2>1. /\ cur \in Proposals
        /\ entry' = entry \/ entry'.kind # "decision"
    BY <1>2, LogsIsHonest DEF CheckState, StateUnread, TypeInv, Places, Calling
  <2>2. HonestEntry(entry)'
    BY <1>2, <2>1 DEF CheckState, StateUnread, HonestEntry
  <2>3. pc' \in {"call", "write"}
    BY <1>2 DEF CheckState, StateUnread, Logs
  <2> QED
    BY <1>2, <2>2, <2>3 DEF CheckState, StateUnread, HonestLog, HonestEntry, ForNeedsAModel
<1>3. CASE FindsVotingOver \/ FindsVote \/ CallRefused \/ ReadsOn \/ DoesNotExecute
  <2>1. cur \in Proposals /\ agent \in Agents
    BY <1>3 DEF FindsVotingOver, FindsVote, CallRefused, ReadsOn, DoesNotExecute, TypeInv, Places, Calling
  <2>2. \/ pc' = "write" /\ entry'.kind # "decision"
        \/ pc' \in {"after", "execute"} /\ agent' = agent /\ entry' = entry /\ Side = "for"
    BY <1>3, <2>1, LogsIsHonest, LogsTypes
       DEF FindsVotingOver, FindsVote, CallRefused, ReadsOn, DoesNotExecute, Outcome, AutoExecute
  <2>3. UNCHANGED <<dry, cur, reply, mem, lines, tail, votes, late, detached, saidFor, executor>>
    BY <1>3 DEF FindsVotingOver, FindsVote, CallRefused, ReadsOn, DoesNotExecute
  <2> QED
    BY <2>2, <2>3 DEF HonestLog, HonestEntry, ForNeedsAModel
<1>4. CASE Broadcast
  BY <1>4 DEF Broadcast, HonestLog, HonestEntry, ForNeedsAModel
<1>5. CASE Receipt
  <2>1. cur \in Proposals /\ agent \in Agents /\ Tx \in Txs /\ (Side = "for" => saidFor[cur][agent])
    BY <1>5 DEF Receipt, TypeInv, Places, Calling, HonestLog, Tx, Txs
  <2>2. \/ pc' = "write" /\ entry'.kind # "decision"
        \/ pc' = "after" /\ agent' = agent /\ entry' = entry /\ Side = "for"
    BY <1>5, <2>1, LogsIsHonest, LogsTypes DEF Receipt, Outcome, AutoExecute
  <2>3. UNCHANGED <<dry, cur, reply, mem, lines, tail, late, detached, saidFor, executor>>
    BY <1>5 DEF Receipt
  <2>4. \A p \in Proposals, a \in Agents : votes'[p][a] = "for" => saidFor[p][a]
    <3>1. CASE UNCHANGED votes
      BY <3>1 DEF ForNeedsAModel
    <3>2. CASE Cast(Tx)
      BY <2>1, <3>2, CastTypes DEF ForNeedsAModel, TypeInv, TypeOK, Tx
    <3> QED
      BY <1>5, <3>1, <3>2 DEF Receipt
  <2> QED
    BY <2>2, <2>3, <2>4 DEF HonestLog, HonestEntry, ForNeedsAModel
<1>6. CASE ClientGivesUp
  <2>1. cur \in Proposals /\ agent \in Agents /\ (Side = "for" => saidFor[cur][agent])
    BY <1>6 DEF ClientGivesUp, TypeInv, Places, Calling, HonestLog
  <2>2. pc' = "write" /\ entry'.kind # "decision"
    BY <1>6, <2>1, LogsIsHonest, LogsTypes DEF ClientGivesUp, Outcome
  <2>3. UNCHANGED <<dry, cur, reply, mem, lines, tail, votes, saidFor, executor>>
    BY <1>6 DEF ClientGivesUp
  <2>4. \A tx \in late' : tx.side = "for" => saidFor[tx.p][tx.a]
    BY <1>6, <2>1 DEF ClientGivesUp, Tx, ForNeedsAModel
  <2>5. \A d \in detached' : saidFor[d.p][d.a]
    BY <1>6, <2>1 DEF ClientGivesUp, AutoExecute, GivenUp
  <2> QED
    BY <2>2, <2>3, <2>4, <2>5 DEF HonestLog, HonestEntry, ForNeedsAModel
<1>7. CASE Executes
  <2>1. cur \in Proposals /\ agent \in Agents /\ saidFor[cur][agent]
    BY <1>7 DEF Executes, TypeInv, Places, Calling, HonestLog
  <2>2. pc' = "write" /\ entry'.kind # "decision"
    BY <1>7, <2>1, LogsIsHonest, LogsTypes DEF Executes, Outcome
  <2>3. UNCHANGED <<dry, cur, reply, mem, lines, tail, votes, late, detached, saidFor>>
    BY <1>7 DEF Executes
  <2>4. \A p \in Proposals, a \in Agents : executor'[p] = a => saidFor[p][a]
    BY <1>7, <2>1 DEF Executes, ForNeedsAModel, TypeInv, TypeOK
  <2> QED
    BY <2>2, <2>3, <2>4 DEF HonestLog, HonestEntry, ForNeedsAModel
<1> QED
  BY <1>1, <1>2, <1>3, <1>4, <1>5, <1>6, <1>7

LEMMA HonestWorld ==
  ASSUME HonestInv,
         \/ Crash
         \/ \E p \in Proposals : CloseVoting(p) \/ OthersExecute(p)
         \/ \E tx \in late : LateTx(tx)
         \/ \E p \in Proposals, a \in Agents : SendsLate(p, a) \/ SendsNothing(p, a)
         \/ \E d \in detached : ExecutesLate(d)
  PROVE  Honest'
<1> USE DEF HonestInv, Honest, roundVars, logVars, chainVars, toolVars, history, Side
<1>1. CASE Crash
  <2>1. HonestEntry(tail)' /\ HonestEntry(entry)'
    BY <1>1, Marked DEF Crash, Partial, HonestEntry
  <2>2. HonestLog(mem)' /\ HonestLog(lines)'
    BY <1>1, BlankIsHonest DEF Crash, HonestLog
  <2>3. \A tx \in late' : tx.side = "for" => saidFor[tx.p][tx.a]
    BY <1>1 DEF Crash, Tx, ForNeedsAModel, HonestLog, TypeInv, Places, Calling
  <2> QED
    BY <1>1, <2>1, <2>2, <2>3 DEF Crash, ForNeedsAModel, NoReply
<1>2. ASSUME NEW p \in Proposals, CloseVoting(p) \/ OthersExecute(p) PROVE Honest'
  BY <1>2 DEF CloseVoting, OthersExecute, HonestLog, HonestEntry, ForNeedsAModel
<1>3. ASSUME NEW tx \in late, LateTx(tx) PROVE Honest'
  <2>1. \A p \in Proposals, a \in Agents : votes'[p][a] = "for" => saidFor[p][a]
    <3>1. CASE UNCHANGED votes
      BY <3>1 DEF ForNeedsAModel
    <3>2. CASE Cast(tx)
      <4>1. tx \in Txs
        BY DEF TypeInv, TypeOK
      <4> QED
        BY <3>2, <4>1, CastTypes DEF ForNeedsAModel, TypeInv, TypeOK
    <3> QED
      BY <1>3, <3>1, <3>2 DEF LateTx
  <2>2. \A d \in detached' : saidFor[d.p][d.a]
    BY <1>3 DEF LateTx, GivenUp
  <2> QED
    BY <1>3, <2>1, <2>2 DEF LateTx, HonestLog, HonestEntry, ForNeedsAModel
<1>4. ASSUME NEW p \in Proposals, NEW a \in Agents, SendsLate(p, a) PROVE Honest'
  <2>1. Given(p, a).side = "for" => saidFor[p][a]
    BY DEF Given, HonestLog
  <2>2. /\ \A d \in detached' : saidFor[d.p][d.a]
        /\ \A tx \in late' : tx.side = "for" => saidFor[tx.p][tx.a]
    BY <1>4, <2>1 DEF SendsLate, Given, GivenUp, ForNeedsAModel
  <2> QED
    BY <1>4, <2>2 DEF SendsLate, HonestLog, HonestEntry, ForNeedsAModel
<1>5. ASSUME NEW p \in Proposals, NEW a \in Agents, SendsNothing(p, a) PROVE Honest'
  <2>1. saidFor[p][a]
    BY <1>5 DEF SendsNothing, Given, HonestLog
  <2>2. \A d \in detached' : saidFor[d.p][d.a]
    BY <1>5, <2>1 DEF SendsNothing, GivenUp
  <2> QED
    BY <1>5, <2>2 DEF SendsNothing, HonestLog, HonestEntry, ForNeedsAModel
<1>6. ASSUME NEW d \in detached, ExecutesLate(d) PROVE Honest'
  <2>1. d.p \in Proposals /\ d.a \in Agents /\ saidFor[d.p][d.a]
    BY DEF TypeInv, TypeOK, Detached
  <2>2. \A p \in Proposals, a \in Agents : executor'[p] = a => saidFor[p][a]
    BY <1>6, <2>1 DEF ExecutesLate, ForNeedsAModel, TypeInv, TypeOK
  <2> QED
    BY <1>6, <2>2 DEF ExecutesLate, HonestLog, HonestEntry, ForNeedsAModel
<1> QED
  BY <1>1, <1>2, <1>3, <1>4, <1>5, <1>6

LEMMA HonestInit == CouncilInit => HonestInv
<1> SUFFICES ASSUME CouncilInit PROVE HonestInv
  OBVIOUS
<1>1. Tidy
  BY DEF CouncilInit, Tidy
<1>2. HonestLog(mem) /\ HonestLog(lines) /\ HonestEntry(entry) /\ HonestEntry(tail)
  BY BlankIsHonest, Marked DEF CouncilInit, HonestEntry
<1>3. ForNeedsAModel
  BY CouncilAssumption DEF CouncilInit, ForNeedsAModel, NoAgent
<1> QED
  BY <1>1, <1>2, <1>3, TypeInit DEF CouncilInit, HonestInv, Honest, NoReply

LEMMA HonestStep == HonestInv /\ [CouncilNext]_councilVars => HonestInv'
<1> SUFFICES ASSUME HonestInv, [CouncilNext]_councilVars PROVE HonestInv'
  OBVIOUS
<1>1. TypeInv' /\ Tidy'
  BY TypeStep, TidyStep DEF HonestInv
<1>2. CASE UNCHANGED councilVars
  BY <1>1, <1>2 DEF councilVars, roundVars, logVars, chainVars, toolVars, history, HonestInv, Honest, HonestLog,
                    HonestEntry, ForNeedsAModel, Side
<1> QED
  BY <1>1, <1>2, HonestRounds, HonestDecisions, HonestVotes, HonestWorld DEF HonestInv, CouncilNext, RunnerStep

\* A model that is down, answers nonsense or was asked by a dry run never
\* becomes a FOR vote, and no call of an AGAINST agent executes a proposal,
\* whatever crashes and whatever of the log is lost (runner.ts: "Adapter errors
\* and unparseable replies both fail closed").
THEOREM CouncilFailsClosed == CouncilSpec => []ForNeedsAModel
<1>1. HonestInv => ForNeedsAModel
  BY DEF HonestInv, Honest
<1> QED
  BY <1>1, HonestInit, HonestStep, PTL DEF CouncilSpec

-----------------------------------------------------------------------------
(* Done is done.                                                           *)

Settled(p, a) == state[p] # "Voting" \/ votes[p][a] # "none"
SettledLog(log) == \A p \in Proposals, a \in Agents : log[p][a].voted => Settled(p, a)
SettledEntry(e) == e.kind = "ok" => Settled(e.p, e.a)

AllSettled ==
  /\ SettledLog(mem) /\ SettledLog(lines) /\ SettledEntry(entry) /\ SettledEntry(tail)
  /\ pc \in {"after", "execute"} => Settled(cur, agent)

SettledInv == TypeInv /\ AllSettled

\* Voting does not open again, and a vote is not taken back.
LEMMA SettledStays ==
  ASSUME TypeInv, [CouncilNext]_councilVars, NEW p \in Proposals, NEW a \in Agents, Settled(p, a)
  PROVE  Settled(p, a)'
<1>1. CASE UNCHANGED <<state, votes>>
  BY <1>1 DEF Settled
<1>2. CASE Executes
  BY <1>2 DEF Executes, Settled, TypeInv, TypeOK
<1>3. ASSUME NEW q \in Proposals, CloseVoting(q) \/ OthersExecute(q) PROVE Settled(p, a)'
  BY <1>3 DEF CloseVoting, OthersExecute, Settled, TypeInv, TypeOK
<1>4. ASSUME NEW tx \in Txs, Cast(tx), state' = state PROVE Settled(p, a)'
  BY <1>4, CastTypes DEF Settled, TypeInv, TypeOK, Txs, Sides
<1>5. CASE Receipt
  <2>1. Tx \in Txs
    BY <1>5 DEF Receipt, TypeInv, Places, Calling, Tx, Txs
  <2> QED
    BY <1>1, <1>4, <1>5, <2>1 DEF Receipt
<1>6. ASSUME NEW tx \in late, LateTx(tx) PROVE Settled(p, a)'
  BY <1>1, <1>4, <1>6 DEF LateTx, TypeInv, TypeOK
<1>6a. ASSUME NEW d \in detached, ExecutesLate(d) PROVE Settled(p, a)'
  BY <1>6a DEF ExecutesLate, Settled, TypeInv, TypeOK
<1>6b. ASSUME NEW q \in Proposals, NEW b \in Agents, SendsLate(q, b) \/ SendsNothing(q, b)
       PROVE  Settled(p, a)'
  BY <1>1, <1>6b DEF SendsLate, SendsNothing
<1>7. CASE UNCHANGED councilVars
  BY <1>1, <1>7 DEF councilVars, chainVars
<1>8. CASE \/ Start \/ Stop \/ BeginRound \/ ListFails \/ RoundEnds \/ DecisionsLogged \/ Write \/ VotesCast
           \/ FindsVotingOver \/ FindsVote \/ CallRefused \/ Broadcast \/ ClientGivesUp \/ ReadsOn
           \/ DoesNotExecute \/ Crash
           \/ \E q \in Proposals : SkipProposal(q) \/ Review(q) \/ ReviewFails(q) \/ NothingToAsk(q)
           \/ \E b \in Agents : \/ \E answer \in Sides \cup {"none"} : Decide(b, answer)
                                \/ LogDecision(b) \/ CheckState(b) \/ StateUnread(b)
  BY <1>1, <1>8 DEF Start, Stop, BeginRound, ListFails, RoundEnds, DecisionsLogged, Write, VotesCast,
     FindsVotingOver, FindsVote, CallRefused, Broadcast, ClientGivesUp, ReadsOn, DoesNotExecute, Crash,
     SkipProposal, Review, ReviewFails, NothingToAsk, Decide, LogDecision, CheckState, StateUnread, chainVars
<1> QED
  BY <1>2, <1>3, <1>5, <1>6, <1>6a, <1>6b, <1>7, <1>8 DEF CouncilNext, RunnerStep

LEMMA AddIsSettled ==
  ASSUME NEW log \in Keys(Summaries), NEW e \in Entries, SettledLog(log), SettledEntry(e)
  PROVE  SettledLog(Add(log, e))
<1> SUFFICES ASSUME NEW p \in Proposals, NEW a \in Agents, Add(log, e)[p][a].voted
             PROVE  Settled(p, a)
  BY DEF SettledLog
<1>1. log[p][a] \in Summaries
  BY DEF Keys
<1> QED
  BY <1>1, AddTypes, WithTypes, EntryTypes DEF SettledLog, SettledEntry

LEMMA DiskIsSettled == SettledInv => SettledLog(OnDisk)
BY AddIsSettled, Marked DEF SettledInv, AllSettled, TypeInv, TypeOK, OnDisk

LEMMA BlankIsSettled == SettledLog(AllKeys(Blank))
BY DEF SettledLog, AllKeys, Blank

\* The runner writes "ok" only behind a vote on the chain or a closed voting.
LEMMA OkIsSettled ==
  ASSUME SettledInv, [CouncilNext]_councilVars
  PROVE  SettledEntry(entry)' /\ (pc \in {"after", "execute"} => Settled(cur, agent))'
<1> USE DEF roundVars, logVars, chainVars, toolVars, history
<1>1. \A p \in Proposals, a \in Agents : Settled(p, a) => Settled(p, a)'
  BY SettledStays DEF SettledInv
<1>2. \A p \in Proposals, a \in Agents :
        \/ entry.kind = "ok" /\ entry.p = p /\ entry.a = a
        \/ pc \in {"after", "execute"} /\ cur = p /\ agent = a
        => Settled(p, a)'
  BY <1>1, EntryTypes DEF SettledInv, AllSettled, SettledEntry
<1>2a. entry.kind = "ok" => entry.p \in Proposals /\ entry.a \in Agents
  BY EntryTypes, Marked DEF SettledInv, TypeInv, TypeOK
<1>2b. pc \in {"after", "execute"} => cur \in Proposals /\ agent \in Agents
  BY DEF SettledInv, TypeInv, Places, Calling
<1>3. CASE UNCHANGED <<entry, pc, cur, agent>>
  BY <1>2, <1>2a, <1>2b, <1>3 DEF SettledEntry, Settled
<1>4. CASE entry' = entry /\ pc' \notin {"after", "execute"}
  BY <1>2, <1>2a, <1>4 DEF SettledEntry, Settled
<1>5. CASE entry'.kind # "ok" /\ pc' \notin {"after", "execute"}
  BY <1>5 DEF SettledEntry
<1>6. ASSUME NEW p \in Proposals, NEW a \in Agents, NEW kind \in {"ok", "failed"}, Logs(p, a, kind),
             kind = "ok" => Settled(p, a)'
      PROVE  SettledEntry(entry)' /\ pc' \notin {"after", "execute"}
  BY <1>6, LogsTypes DEF SettledEntry, Settled
<1>7. ASSUME NEW a \in Agents, CheckState(a) \/ StateUnread(a)
      PROVE  SettledEntry(entry)' /\ pc' \notin {"after", "execute"}
  <2>1. cur \in Proposals /\ state' = state
    BY <1>7 DEF CheckState, StateUnread, SettledInv, TypeInv, Places
  <2>2. CASE state[cur] # "Voting" \/ StateUnread(a)
    BY <1>6, <1>7, <2>1, <2>2 DEF CheckState, StateUnread, Settled
  <2>3. CASE state[cur] = "Voting" /\ CheckState(a)
    BY <1>2, <1>2a, <2>3 DEF CheckState, SettledEntry, Settled
  <2> QED
    BY <1>7, <2>2, <2>3
<1>8. CASE FindsVotingOver \/ FindsVote \/ CallRefused \/ Receipt \/ ClientGivesUp \/ ReadsOn \/ Executes \/ DoesNotExecute
  <2>1. PICK p \in Proposals, a \in Agents : p = cur /\ a = agent
    BY <1>8 DEF FindsVotingOver, FindsVote, CallRefused, Receipt, ClientGivesUp, ReadsOn, Executes,
                DoesNotExecute, SettledInv, TypeInv, Places, Calling
  <2>2. \/ pc' \in {"after", "execute"} /\ cur' = p /\ agent' = a /\ entry' = entry /\ Settled(p, a)'
        \/ \E kind \in {"ok", "failed"} : Logs(p, a, kind) /\ (kind = "ok" => Settled(p, a)')
    <3>1. CASE Receipt
      <4>1. Tx \in Txs /\ Tx.p = p /\ Tx.a = a /\ Tx.side # "none"
        BY <2>1, <3>1 DEF Receipt, Tx, Txs, Sides, SettledInv, TypeInv, Places, Calling
      <4>2. Cast(Tx) => Settled(p, a)'
        <5> SUFFICES ASSUME Cast(Tx) PROVE votes'[p][a] # "none"
          BY DEF Settled
        <5> QED
          BY <4>1, CastTypes DEF SettledInv, TypeInv, TypeOK
      <4> QED
        BY <2>1, <3>1, <4>2 DEF Receipt, Outcome
    <3>2. CASE FindsVotingOver
      <4>1. Settled(p, a)
        BY <2>1, <3>2 DEF FindsVotingOver, Settled
      <4> QED
        BY <1>1, <2>1, <3>2, <4>1 DEF FindsVotingOver, Outcome
    <3>3. CASE FindsVote
      <4>1. Settled(p, a)
        BY <2>1, <3>3 DEF FindsVote, Settled
      <4> QED
        BY <1>1, <2>1, <3>3, <4>1 DEF FindsVote, Outcome
    <3>4. CASE ReadsOn \/ Executes \/ DoesNotExecute
      <4>1. Settled(p, a)'
        BY <1>2, <2>1, <3>4 DEF ReadsOn, Executes, DoesNotExecute
      <4> QED
        BY <2>1, <3>4, <4>1 DEF ReadsOn, Executes, DoesNotExecute, Outcome
    <3>5. CASE CallRefused \/ ClientGivesUp
      BY <2>1, <3>5 DEF CallRefused, ClientGivesUp, Outcome
    <3> QED
      BY <1>8, <3>1, <3>2, <3>3, <3>4, <3>5
  <2>3. CASE pc' \in {"after", "execute"} /\ cur' = p /\ agent' = a /\ entry' = entry /\ Settled(p, a)'
    BY <1>2, <1>2a, <2>3 DEF SettledEntry, Settled
  <2> QED
    BY <1>6, <2>2, <2>3
<1>9. ASSUME NEW a \in Agents, LogDecision(a) PROVE entry'.kind # "ok" /\ pc' \notin {"after", "execute"}
  BY <1>9 DEF LogDecision
<1>10. ASSUME NEW p \in Proposals, ReviewFails(p) PROVE entry'.kind # "ok" /\ pc' \notin {"after", "execute"}
  BY <1>10 DEF ReviewFails
<1>11. CASE Write
  BY <1>5, <1>11, EntryTypes, Marked DEF Write, SettledInv, TypeInv, Places
<1>12. CASE Crash
  BY <1>5, <1>12, Marked DEF Crash
<1>13. CASE Start \/ Stop \/ BeginRound \/ ListFails \/ RoundEnds \/ DecisionsLogged \/ VotesCast \/ Broadcast
  BY <1>3, <1>4, <1>13 DEF Start, Stop, BeginRound, ListFails, RoundEnds, DecisionsLogged, VotesCast, Broadcast
<1>14. ASSUME NEW p \in Proposals, SkipProposal(p) \/ Review(p) \/ NothingToAsk(p)
       PROVE  entry' = entry /\ pc' \notin {"after", "execute"}
  BY <1>14 DEF SkipProposal, Review, NothingToAsk
<1>15. ASSUME NEW a \in Agents, NEW answer \in Sides \cup {"none"}, Decide(a, answer)
       PROVE  entry' = entry /\ pc' \notin {"after", "execute"}
  BY <1>15 DEF Decide
<1>16. ASSUME NEW p \in Proposals, CloseVoting(p) \/ OthersExecute(p) PROVE UNCHANGED <<entry, pc, cur, agent>>
  BY <1>16 DEF CloseVoting, OthersExecute
<1>17. ASSUME NEW tx \in late, LateTx(tx) PROVE UNCHANGED <<entry, pc, cur, agent>>
  BY <1>17 DEF LateTx
<1>17a. ASSUME NEW p \in Proposals, NEW a \in Agents, SendsLate(p, a) \/ SendsNothing(p, a)
        PROVE  UNCHANGED <<entry, pc, cur, agent>>
  BY <1>17a DEF SendsLate, SendsNothing
<1>17b. ASSUME NEW d \in detached, ExecutesLate(d) PROVE UNCHANGED <<entry, pc, cur, agent>>
  BY <1>17b DEF ExecutesLate
<1>18. CASE UNCHANGED councilVars
  BY <1>3, <1>18 DEF councilVars
<1> QED
  BY <1>3, <1>4, <1>5, <1>7, <1>8, <1>9, <1>10, <1>11, <1>12, <1>13, <1>14, <1>15, <1>16, <1>17,
     <1>17a, <1>17b, <1>18 DEF CouncilNext, RunnerStep

LEMMA SettledStep == SettledInv /\ [CouncilNext]_councilVars => SettledInv'
<1> SUFFICES ASSUME SettledInv, [CouncilNext]_councilVars PROVE SettledInv'
  OBVIOUS
<1>1. TypeInv'
  BY TypeStep DEF SettledInv
<1>2. \A p \in Proposals, a \in Agents : Settled(p, a) => Settled(p, a)'
  BY SettledStays DEF SettledInv
<1>3. SettledEntry(entry)' /\ (pc \in {"after", "execute"} => Settled(cur, agent))'
  BY OkIsSettled
<1>4. SettledLog(mem)' /\ SettledLog(lines)' /\ SettledEntry(tail)'
  <2>1. CASE UNCHANGED logVars
    BY <1>2, <2>1, EntryTypes, Marked DEF logVars, SettledInv, AllSettled, SettledLog, SettledEntry, Settled, TypeInv, TypeOK
  <2>2. CASE Start
    BY <1>2, <2>2, DiskIsSettled, EntryTypes, Marked
       DEF Start, SettledInv, AllSettled, SettledLog, SettledEntry, Settled, TypeInv, TypeOK
  <2>3. CASE Stop
    BY <1>2, <2>3, BlankIsSettled, EntryTypes, Marked
       DEF Stop, SettledInv, AllSettled, SettledLog, SettledEntry, Settled, TypeInv, TypeOK
  <2>4. CASE Crash
    <3>1. SettledLog(mem)' /\ SettledLog(lines)'
      BY <1>2, <2>4, BlankIsSettled DEF Crash, SettledInv, AllSettled, SettledLog, Settled
    <3>2. tail' \in {Marker("torn"), entry, tail}
      BY <2>4 DEF Crash, Partial
    <3>3. SettledEntry(tail)'
      BY <1>2, <3>2, EntryTypes, Marked DEF SettledInv, AllSettled, SettledEntry, Settled, TypeInv, TypeOK
    <3> QED
      BY <3>1, <3>3
  <2>5. CASE Write
    <3>1. entry \in Entries
      BY <2>5 DEF Write, SettledInv, TypeInv, Places
    <3>2. SettledLog(Add(mem, entry)) /\ SettledLog(Add(lines, entry)) /\ SettledLog(lines)
      BY <3>1, AddIsSettled DEF SettledInv, AllSettled, TypeInv, TypeOK
    <3>3. /\ mem' = Add(mem, entry) /\ (lines' = lines \/ lines' = Add(lines, entry))
          /\ tail'.kind # "ok"
      BY <2>5, Marked DEF Write, Append
    <3> QED
      BY <1>2, <3>2, <3>3 DEF SettledLog, SettledEntry, Settled
  <2>6. CASE \/ BeginRound \/ ListFails \/ RoundEnds \/ DecisionsLogged \/ VotesCast
             \/ FindsVotingOver \/ FindsVote \/ CallRefused \/ Broadcast \/ Receipt \/ ClientGivesUp
             \/ ReadsOn \/ Executes \/ DoesNotExecute
             \/ \E q \in Proposals : \/ SkipProposal(q) \/ Review(q) \/ ReviewFails(q) \/ NothingToAsk(q)
                                     \/ CloseVoting(q) \/ OthersExecute(q)
             \/ \E b \in Agents : \/ \E answer \in Sides \cup {"none"} : Decide(b, answer)
                                  \/ LogDecision(b) \/ CheckState(b) \/ StateUnread(b)
             \/ \E tx \in late : LateTx(tx)
             \/ \E q \in Proposals, b \in Agents : SendsLate(q, b) \/ SendsNothing(q, b)
             \/ \E d \in detached : ExecutesLate(d)
             \/ UNCHANGED councilVars
    <3>1. UNCHANGED logVars
      BY <2>6 DEF BeginRound, ListFails, RoundEnds, DecisionsLogged, VotesCast, FindsVotingOver, FindsVote,
         CallRefused, Broadcast, Receipt, ClientGivesUp, ReadsOn, Executes, DoesNotExecute, SkipProposal, Review,
         ReviewFails, NothingToAsk, CloseVoting, OthersExecute, Decide, LogDecision, CheckState, StateUnread,
         LateTx, SendsLate, SendsNothing, ExecutesLate, councilVars
    <3> QED
      BY <2>1, <3>1
  <2> QED
    BY <2>2, <2>3, <2>4, <2>5, <2>6 DEF CouncilNext, RunnerStep
<1> QED
  BY <1>1, <1>3, <1>4 DEF SettledInv, AllSettled

LEMMA SettledInit == CouncilInit => SettledInv
<1> SUFFICES ASSUME CouncilInit PROVE SettledInv
  OBVIOUS
<1>1. SettledLog(mem) /\ SettledLog(lines) /\ SettledEntry(entry) /\ SettledEntry(tail)
  BY BlankIsSettled, Marked DEF CouncilInit, SettledEntry
<1> QED
  BY <1>1, TypeInit DEF CouncilInit, SettledInv, AllSettled

\* "a "vote" entry with ok:true -> done, skipped" (runner.ts): after any crash
\* and whatever the log has lost, an agent that is skipped for good has its vote
\* on the chain, or there is nothing to vote on any more.
THEOREM CouncilDoneIsDone == CouncilSpec => []DoneIsDone
<1>1. SettledInv => DoneIsDone
  BY DiskIsSettled DEF SettledLog, Settled, DoneIsDone
<1> QED
  BY <1>1, SettledInit, SettledStep, PTL DEF CouncilSpec

-----------------------------------------------------------------------------
(* Bounded rework.  What a process knows covers the file's complete lines, *)
(* and it only works on votes that it believes to be open.                 *)

Open(s) == ~s.voted /\ s.failed < MaxVoteAttempts

Covers(log, part) ==
  \A p \in Proposals, a \in Agents :
    /\ part[p][a].decision # "none" => log[p][a].decision # "none"
    /\ part[p][a].voted => log[p][a].voted
    /\ part[p][a].failed <= log[p][a].failed

VoteEntry(e) == e.kind \in {"ok", "failed"}

Trials ==
  /\ pc # "down" => Covers(mem, lines)
  /\ pc \in Calling \cup {"vote"} => ~dry
  /\ ~dry /\ (pc \in Deciding \cup Calling \cup {"vote"} \/ (pc = "write" /\ entry.kind # "error"))
       => \A a \in pending : Open(mem[cur][a])
  /\ pc \in Calling => agent \notin pending /\ Open(mem[cur][agent])
  /\ pc = "write" /\ VoteEntry(entry)
       => ~dry /\ entry.a \notin pending /\ Open(mem[entry.p][entry.a])

TrialsInv == TypeInv /\ Tidy /\ Trials

LEMMA AddCovers ==
  ASSUME NEW log \in Keys(Summaries), NEW e \in Entries
  PROVE  Covers(Add(log, e), log)
<1> SUFFICES ASSUME NEW p \in Proposals, NEW a \in Agents
             PROVE  /\ log[p][a].decision # "none" => Add(log, e)[p][a].decision # "none"
                    /\ log[p][a].voted => Add(log, e)[p][a].voted
                    /\ log[p][a].failed <= Add(log, e)[p][a].failed
  BY DEF Covers
<1>1. log[p][a] \in Summaries
  BY DEF Keys
<1>2. CASE e.kind # "error" /\ e.p = p /\ e.a = a
  <2>1. Add(log, e)[p][a] = With(log[p][a], e)
    BY <1>2, AddTypes
  <2>2. e.kind = "decision" => e.side \in Sides
    BY EntryTypes
  <2> QED
    BY <1>1, <2>1, <2>2, WithTypes DEF Sides, Summaries
<1>3. CASE ~(e.kind # "error" /\ e.p = p /\ e.a = a)
  <2>1. Add(log, e)[p][a] = log[p][a]
    BY <1>3, AddTypes
  <2> QED
    BY <1>1, <2>1 DEF Summaries
<1> QED
  BY <1>2, <1>3

LEMMA CoversSelf ==
  ASSUME NEW log \in Keys(Summaries)
  PROVE  Covers(log, log)
BY DEF Covers, Keys, Summaries

\* One entry added to both keeps the cover.
LEMMA AddBoth ==
  ASSUME NEW log \in Keys(Summaries), NEW part \in Keys(Summaries), NEW e \in Entries, Covers(log, part)
  PROVE  Covers(Add(log, e), Add(part, e)) /\ Covers(Add(log, e), part)
<1>1. ASSUME NEW p \in Proposals, NEW a \in Agents
      PROVE  /\ Add(part, e)[p][a].decision # "none" => Add(log, e)[p][a].decision # "none"
             /\ Add(part, e)[p][a].voted => Add(log, e)[p][a].voted
             /\ Add(part, e)[p][a].failed <= Add(log, e)[p][a].failed
  <2>1. log[p][a] \in Summaries /\ part[p][a] \in Summaries
    BY DEF Keys
  <2>2. /\ part[p][a].decision # "none" => log[p][a].decision # "none"
        /\ part[p][a].voted => log[p][a].voted
        /\ part[p][a].failed <= log[p][a].failed
    BY DEF Covers
  <2>3. CASE e.kind # "error" /\ e.p = p /\ e.a = a
    <3>1. Add(log, e)[p][a] = With(log[p][a], e) /\ Add(part, e)[p][a] = With(part[p][a], e)
      BY <2>3, AddTypes
    <3>2. e.kind = "decision" => e.side \in Sides
      BY EntryTypes
    <3> QED
      BY <2>1, <2>2, <3>1, <3>2, WithTypes DEF Sides, Summaries
  <2>4. CASE ~(e.kind # "error" /\ e.p = p /\ e.a = a)
    <3>1. Add(log, e)[p][a] = log[p][a] /\ Add(part, e)[p][a] = part[p][a]
      BY <2>4, AddTypes
    <3> QED
      BY <2>2, <3>1
  <2> QED
    BY <2>3, <2>4
<1>2. ASSUME NEW p \in Proposals, NEW a \in Agents
      PROVE  /\ part[p][a].decision # "none" => Add(log, e)[p][a].decision # "none"
             /\ part[p][a].voted => Add(log, e)[p][a].voted
             /\ part[p][a].failed <= Add(log, e)[p][a].failed
  <2>1. log[p][a] \in Summaries /\ part[p][a] \in Summaries /\ Add(log, e)[p][a] \in Summaries
    BY AddTypes DEF Keys
  <2>2. /\ log[p][a].decision # "none" => Add(log, e)[p][a].decision # "none"
        /\ log[p][a].voted => Add(log, e)[p][a].voted
        /\ log[p][a].failed <= Add(log, e)[p][a].failed
    BY AddCovers DEF Covers
  <2>3. /\ part[p][a].decision # "none" => log[p][a].decision # "none"
        /\ part[p][a].voted => log[p][a].voted
        /\ part[p][a].failed <= log[p][a].failed
    BY DEF Covers
  <2>4. part[p][a].failed \in Nat /\ log[p][a].failed \in Nat /\ Add(log, e)[p][a].failed \in Nat
    BY <2>1 DEF Summaries
  <2> QED
    BY <2>2, <2>3, <2>4
<1> QED
  BY <1>1, <1>2 DEF Covers

LEMMA DiskCovers == TypeOK => Covers(OnDisk, lines)
BY AddCovers, CoversSelf, Marked DEF TypeOK, OnDisk

LEMMA TrialsRounds ==
  ASSUME TrialsInv,
         \/ Start \/ Stop \/ BeginRound \/ ListFails \/ RoundEnds
         \/ \E p \in Proposals : SkipProposal(p) \/ Review(p) \/ ReviewFails(p) \/ NothingToAsk(p)
  PROVE  Trials'
<1> USE DEF TrialsInv, Trials, VoteEntry, Deciding, Calling, roundVars, logVars, chainVars, toolVars, history
<1>1. CASE Start
  <2>1. Covers(OnDisk, lines)
    BY DiskCovers DEF TypeInv
  <2> QED
    BY <1>1, <2>1 DEF Start, Covers
<1>2. CASE Stop \/ BeginRound \/ ListFails \/ RoundEnds
  BY <1>2 DEF Stop, BeginRound, ListFails, RoundEnds, Covers
<1>3. ASSUME NEW p \in Proposals, SkipProposal(p) \/ ReviewFails(p) PROVE Trials'
  BY <1>3 DEF SkipProposal, ReviewFails, Covers
<1>4. ASSUME NEW p \in Proposals, Review(p) \/ NothingToAsk(p) PROVE Trials'
  <2>1. ~dry => \A a \in ToVote(p) : Open(mem[p][a])
    BY DEF ToVote, Open
  <2>2. /\ pc = "next" /\ pending' = ToVote(p) /\ cur' = p /\ mem' = mem /\ lines' = lines /\ dry' = dry
        /\ pc' \in {"ask", "vote"}
    BY <1>4 DEF Review, NothingToAsk
  <2>3. pc' = "vote" => ~dry
    BY <1>4 DEF Review, NothingToAsk, Undecided, TypeInv, TypeOK
  <2> QED
    BY <2>1, <2>2, <2>3 DEF Covers, Open
<1> QED
  BY <1>1, <1>2, <1>3, <1>4

LEMMA TrialsDecisions ==
  ASSUME TrialsInv,
         \/ \E a \in Agents : \/ \E answer \in Sides \cup {"none"} : Decide(a, answer)
                              \/ LogDecision(a)
         \/ DecisionsLogged \/ Write
  PROVE  Trials'
<1> USE DEF TrialsInv, Trials, VoteEntry, Deciding, Calling, roundVars, logVars, chainVars, toolVars, history
<1>1. ASSUME NEW a \in Agents, NEW answer \in Sides \cup {"none"}, Decide(a, answer) PROVE Trials'
  BY <1>1 DEF Decide, Covers, Open
<1>2. ASSUME NEW a \in Agents, LogDecision(a) PROVE Trials'
  BY <1>2 DEF LogDecision, Covers, Open
<1>3. CASE DecisionsLogged
  BY <1>3 DEF DecisionsLogged, Covers, Open
<1>4. CASE Write
  <2>1. entry \in Entries /\ (entry.kind # "error" => cur \in Proposals)
    BY <1>4 DEF Write, TypeInv, Places
  <2>2. Covers(mem', lines')
    <3>1. Covers(Add(mem, entry), Add(lines, entry)) /\ Covers(Add(mem, entry), lines)
      BY <1>4, <2>1, AddBoth DEF Write, TypeInv, TypeOK
    <3>2. mem' = Add(mem, entry) /\ (lines' = lines \/ lines' = Add(lines, entry))
      BY <1>4 DEF Write, Append
    <3> QED
      BY <3>1, <3>2
  <2>3. /\ entry.kind = "error" => pc' = "next"
        /\ entry.kind \in {"decision", "dry"} => pc' = "log"
        /\ entry.kind \in {"ok", "failed"} => pc' = "vote"
    BY <1>4, <2>1, EntryTypes DEF Write
  <2>4. pc = "write" /\ pending' = pending /\ cur' = cur /\ dry' = dry
    BY <1>4 DEF Write
  <2>5. ~dry /\ entry.kind # "error" => \A a \in pending : Open(mem'[cur][a])
    <3> SUFFICES ASSUME ~dry, entry.kind # "error", NEW a \in pending PROVE Open(mem'[cur][a])
      OBVIOUS
    <3>1. a \in Agents /\ Open(mem[cur][a]) /\ mem[cur][a] \in Summaries
      BY <1>4, <2>1 DEF Write, TypeInv, TypeOK, Keys
    <3>2. mem'[cur][a] = mem[cur][a] \/ (mem'[cur][a] = With(mem[cur][a], entry) /\ entry.a = a)
      BY <1>4, <2>1, <3>1, AddTypes DEF Write, Append, TypeInv, TypeOK
    <3>3. entry.a = a => entry.kind \in {"decision", "dry"}
      BY <1>4, <2>1, EntryTypes DEF Write
    <3> QED
      BY <2>1, <3>1, <3>2, <3>3, WithTypes DEF Open
  <2>6. entry.kind \in {"ok", "failed"} => ~dry
    BY <1>4 DEF Write
  <2> QED
    BY <2>1, <2>2, <2>3, <2>4, <2>5, <2>6, EntryTypes
<1> QED
  BY <1>1, <1>2, <1>3, <1>4

LEMMA TrialsVotes ==
  ASSUME TrialsInv,
         \/ VotesCast
         \/ \E a \in Agents : CheckState(a) \/ StateUnread(a)
         \/ FindsVotingOver \/ FindsVote \/ CallRefused \/ Broadcast
         \/ Receipt \/ ClientGivesUp \/ ReadsOn \/ Executes \/ DoesNotExecute
  PROVE  Trials'
<1> USE DEF TrialsInv, Trials, VoteEntry, Deciding, Calling, roundVars, logVars, chainVars, toolVars, history
<1>1. CASE VotesCast
  BY <1>1 DEF VotesCast, Covers
<1>2. ASSUME NEW a \in Agents, CheckState(a) \/ StateUnread(a) PROVE Trials'
  <2>1. /\ cur \in Proposals /\ pc = "vote" /\ a \in pending /\ pending' = pending \ {a}
        /\ mem' = mem /\ lines' = lines /\ dry' = dry /\ cur' = cur
    BY <1>2 DEF CheckState, StateUnread, First, TypeInv, Places
  <2>2. \/ pc' = "call" /\ agent' = a
        \/ pc' = "write" /\ entry'.kind \in {"ok", "failed"} /\ entry'.p = cur /\ entry'.a = a
    BY <1>2, <2>1, LogsTypes DEF CheckState, StateUnread
  <2> QED
    BY <2>1, <2>2 DEF Covers, Open
<1>3. CASE \/ FindsVotingOver \/ FindsVote \/ CallRefused \/ Broadcast
           \/ Receipt \/ ClientGivesUp \/ ReadsOn \/ Executes \/ DoesNotExecute
  <2>1. /\ pc \in Calling /\ cur \in Proposals /\ agent \in Agents
        /\ pending' = pending /\ mem' = mem /\ lines' = lines /\ dry' = dry /\ cur' = cur
    BY <1>3 DEF FindsVotingOver, FindsVote, CallRefused, Broadcast, Receipt, ClientGivesUp, ReadsOn, Executes,
                DoesNotExecute, TypeInv, Places
  <2>2. \/ pc' \in Calling /\ agent' = agent
        \/ pc' = "write" /\ entry'.kind \in {"ok", "failed"} /\ entry'.p = cur /\ entry'.a = agent
    BY <1>3, <2>1, LogsTypes DEF FindsVotingOver, FindsVote, CallRefused, Broadcast, Receipt, ClientGivesUp,
       ReadsOn, Executes, DoesNotExecute, Outcome
  <2> QED
    BY <2>1, <2>2 DEF Covers, Open
<1> QED
  BY <1>1, <1>2, <1>3

LEMMA TrialsStep == TrialsInv /\ [CouncilNext]_councilVars => TrialsInv'
<1> SUFFICES ASSUME TrialsInv, [CouncilNext]_councilVars PROVE TrialsInv'
  OBVIOUS
<1>1. TypeInv' /\ Tidy'
  BY TypeStep, TidyStep DEF TrialsInv
<1>2. CASE \/ Crash \/ \E p \in Proposals : CloseVoting(p) \/ OthersExecute(p)
           \/ \E tx \in late : LateTx(tx)
           \/ \E p \in Proposals, a \in Agents : SendsLate(p, a) \/ SendsNothing(p, a)
           \/ \E d \in detached : ExecutesLate(d)
           \/ UNCHANGED councilVars
  <2> USE DEF TrialsInv, Trials, VoteEntry, Deciding, Calling, roundVars, logVars, chainVars, toolVars, history
  <2>1. CASE Crash
    BY <1>1, <2>1 DEF Crash
  <2>2. CASE UNCHANGED <<pc, dry, roundVars, entry, logVars>>
    BY <1>1, <2>2 DEF Covers, Open
  <2> QED
    BY <1>2, <2>1, <2>2 DEF CloseVoting, OthersExecute, LateTx, SendsLate, SendsNothing, ExecutesLate, councilVars
<1> QED
  BY <1>1, <1>2, TrialsRounds, TrialsDecisions, TrialsVotes DEF TrialsInv, CouncilNext, RunnerStep

LEMMA TrialsInit == CouncilInit => TrialsInv
<1> SUFFICES ASSUME CouncilInit PROVE TrialsInv
  OBVIOUS
<1>1. Tidy /\ Trials
  BY DEF CouncilInit, Tidy, Trials, VoteEntry, Deciding, Calling
<1> QED
  BY <1>1, TypeInit DEF TrialsInv

\* A question is paid for by the decision it leads to, a vote by its outcome; what
\* has not reached the file yet is owed, and a crash writes off two of each.  The
\* failure logged for a call that was given up pays for the vote it may yet send.
One(b) == IF b THEN 1 ELSE 0
Cut == One(tail.kind # "clean")

Owed(p, a) ==
  /\ ~dry
  /\ \/ pc = "ask" /\ cur = p /\ a \in waiting
     \/ pc \in {"ask", "log", "write"} /\ cur = p /\ reply[a] # "none"
     \/ pc = "write" /\ entry.kind = "decision" /\ entry.p = p /\ entry.a = a

Trying(p, a) ==
  \/ pc \in {"sent", "after", "execute"} /\ cur = p /\ agent = a
  \/ pc = "write" /\ VoteEntry(entry) /\ entry.p = p /\ entry.a = a

Asked(p, a) == asks[p][a] + Cut <= 2 * crashes + One(lines[p][a].decision # "none" \/ Owed(p, a))
Voted(p, a) == lines[p][a].failed + One(lines[p][a].voted)
Sent(p, a) == sends[p][a] + unsent[p][a] + Cut <= 2 * crashes + Voted(p, a) + One(Trying(p, a))

Credit(p, a) == Asked(p, a) /\ Sent(p, a) /\ Voted(p, a) <= MaxVoteAttempts
CreditInv == TrialsInv /\ \A p \in Proposals, a \in Agents : Credit(p, a)

\* A step that leaves the counters and the file alone keeps what is owed.
Keeps(p, a) ==
  /\ asks'[p][a] = asks[p][a] /\ sends'[p][a] = sends[p][a]
  /\ unsent'[p][a] \in {unsent[p][a], 0}
  /\ UNCHANGED <<lines, tail, crashes>>
  /\ (Owed(p, a) => Owed(p, a)') /\ (Trying(p, a) => Trying(p, a)')

LEMMA KeepsCredit ==
  ASSUME TypeOK, TypeOK', NEW p \in Proposals, NEW a \in Agents, Credit(p, a), Keeps(p, a)
  PROVE  Credit(p, a)'
<1>1. /\ asks[p][a] \in Nat /\ sends[p][a] \in Nat /\ unsent[p][a] \in Nat /\ crashes \in Nat
      /\ lines[p][a].failed \in Nat
  BY CouncilAssumption DEF TypeOK, Keys, Summaries
<1>2. /\ asks'[p][a] = asks[p][a] /\ sends'[p][a] = sends[p][a]
      /\ unsent'[p][a] \in {unsent[p][a], 0}
      /\ lines' = lines /\ tail' = tail /\ crashes' = crashes
      /\ (Owed(p, a) => Owed(p, a)') /\ (Trying(p, a) => Trying(p, a)')
  BY DEF Keeps
<1>3. Cut' = Cut /\ Cut \in Nat /\ Voted(p, a)' = Voted(p, a) /\ Voted(p, a) \in Nat
  BY <1>1, <1>2 DEF Cut, Voted, One
<1>4. Asked(p, a)'
  BY <1>1, <1>2, <1>3 DEF Credit, Asked, One
<1>5. Sent(p, a)'
  BY <1>1, <1>2, <1>3 DEF Credit, Sent, One
<1> QED
  BY <1>3, <1>4, <1>5 DEF Credit

LEMMA CreditRounds ==
  ASSUME TrialsInv, NEW p \in Proposals, NEW a \in Agents,
         \/ Start \/ Stop \/ BeginRound \/ ListFails \/ RoundEnds
         \/ \E q \in Proposals : SkipProposal(q) \/ ReviewFails(q) \/ NothingToAsk(q)
  PROVE  Keeps(p, a)
<1> USE DEF Keeps, Owed, Trying, VoteEntry, roundVars, logVars, chainVars, toolVars, history
<1>1. CASE Start \/ Stop \/ BeginRound \/ ListFails \/ RoundEnds
  BY <1>1 DEF AllKeys, Start, Stop, BeginRound, ListFails, RoundEnds
<1>2. ASSUME NEW q \in Proposals, SkipProposal(q) \/ ReviewFails(q) \/ NothingToAsk(q) PROVE Keeps(p, a)
  BY <1>2 DEF SkipProposal, ReviewFails, NothingToAsk
<1> QED
  BY <1>1, <1>2

LEMMA CreditDecisions ==
  ASSUME TrialsInv, NEW p \in Proposals, NEW a \in Agents,
         \/ \E b \in Agents : \/ \E answer \in Sides \cup {"none"} : Decide(b, answer)
                              \/ LogDecision(b)
         \/ DecisionsLogged \/ VotesCast
  PROVE  Keeps(p, a)
<1> USE DEF VoteEntry, roundVars, logVars, chainVars, toolVars, history
<1>1. ASSUME NEW b \in Agents, NEW answer \in Sides \cup {"none"}, Decide(b, answer) PROVE Keeps(p, a)
  <2>1. /\ pc = "ask" /\ pc' \in {"ask", "log"} /\ (pc' = "log" => waiting' = {})
        /\ cur' = cur /\ dry' = dry /\ waiting' = waiting \ {b}
        /\ UNCHANGED <<asks, sends, unsent, lines, tail, crashes>>
    BY <1>1 DEF Decide
  <2>2. reply'[b] # "none" /\ (a # b => reply'[a] = reply[a])
    BY <1>1 DEF Decide, Decision, TrialsInv, TypeInv, TypeOK
  <2> QED
    BY <2>1, <2>2 DEF Keeps, Owed, Trying
<1>2. ASSUME NEW b \in Agents, LogDecision(b) PROVE Keeps(p, a)
  <2>1. /\ pc = "log" /\ pc' = "write" /\ cur' = cur /\ dry' = dry
        /\ (~dry => entry'.kind = "decision") /\ entry'.p = cur /\ entry'.a = b
        /\ UNCHANGED <<asks, sends, unsent, lines, tail, crashes>>
    BY <1>2 DEF LogDecision
  <2>2. a # b => reply'[a] = reply[a]
    BY <1>2 DEF LogDecision, TrialsInv, TypeInv, TypeOK
  <2> QED
    BY <2>1, <2>2 DEF Keeps, Owed, Trying
<1>3. CASE DecisionsLogged
  BY <1>3 DEF DecisionsLogged, NoReply, Keeps, Owed, Trying
<1>4. CASE VotesCast
  BY <1>4 DEF VotesCast, Keeps, Owed, Trying
<1> QED
  BY <1>1, <1>2, <1>3, <1>4

LEMMA CreditVotes ==
  ASSUME TrialsInv, NEW p \in Proposals, NEW a \in Agents,
         \/ \E b \in Agents : CheckState(b) \/ StateUnread(b)
         \/ FindsVotingOver \/ FindsVote \/ CallRefused
         \/ Receipt \/ ReadsOn \/ Executes \/ DoesNotExecute
  PROVE  Keeps(p, a)
<1> USE DEF VoteEntry, roundVars, logVars, chainVars, toolVars, history
<1>1. ASSUME NEW b \in Agents, CheckState(b) \/ StateUnread(b) PROVE Keeps(p, a)
  <2>1. pc = "vote" /\ UNCHANGED <<asks, sends, unsent, lines, tail, crashes>>
    BY <1>1 DEF CheckState, StateUnread
  <2> QED
    BY <2>1 DEF Keeps, Owed, Trying
<1>2. CASE \/ FindsVotingOver \/ FindsVote \/ CallRefused
           \/ Receipt \/ ReadsOn \/ Executes \/ DoesNotExecute
  <2>1. pc \in Calling /\ cur' = cur /\ UNCHANGED <<asks, sends, unsent, lines, tail, crashes>>
    BY <1>2 DEF FindsVotingOver, FindsVote, CallRefused, Receipt, ReadsOn, Executes,
                DoesNotExecute, Calling
  <2>2. cur \in Proposals /\ agent \in Agents
    BY <2>1 DEF TrialsInv, TypeInv, Places
  <2>3. \/ pc' \in {"after", "execute"} /\ agent' = agent
        \/ pc' = "write" /\ entry'.kind \in {"ok", "failed"} /\ entry'.p = cur /\ entry'.a = agent
    BY <1>2, <2>2, LogsTypes DEF FindsVotingOver, FindsVote, CallRefused, Receipt, ReadsOn,
       Executes, DoesNotExecute, Outcome
  <2> QED
    BY <2>1, <2>3 DEF Keeps, Owed, Trying, Calling
<1> QED
  BY <1>1, <1>2

LEMMA CreditReview ==
  ASSUME CreditInv, TypeOK', NEW q \in Proposals, Review(q), NEW p \in Proposals, NEW a \in Agents
  PROVE  Credit(p, a)'
<1> USE DEF roundVars, logVars, chainVars, toolVars, history
<1>1. /\ pc = "next" /\ pc' = "ask" /\ cur' = q /\ dry' = dry /\ waiting' = Undecided(q)
      /\ UNCHANGED <<sends, unsent, lines, tail, crashes>>
  BY DEF Review
<1>2. ~Owed(p, a) /\ ~Trying(p, a)
  BY <1>1 DEF Owed, Trying
<1>3. CASE dry \/ p # q \/ a \notin Undecided(q)
  <2>1. asks'[p][a] = asks[p][a]
    BY <1>3 DEF Review, CreditInv, TrialsInv, TypeInv, TypeOK, Keys
  <2>2. Keeps(p, a)
    BY <1>1, <1>2, <2>1 DEF Keeps
  <2> QED
    BY <2>2, KeepsCredit DEF CreditInv, TrialsInv, TypeInv
<1>4. CASE ~dry /\ p = q /\ a \in Undecided(q)
  <2>1. asks'[p][a] = asks[p][a] + 1
    BY <1>4 DEF Review, CreditInv, TrialsInv, TypeInv, TypeOK, Keys
  <2>2. lines[p][a].decision = "none"
    BY <1>1, <1>4 DEF Undecided, CreditInv, TrialsInv, Trials, Covers
  <2>3. Owed(p, a)'
    BY <1>1, <1>4 DEF Owed
  <2>4. /\ asks[p][a] \in Nat /\ sends[p][a] \in Nat /\ unsent[p][a] \in Nat /\ crashes \in Nat
        /\ lines[p][a].failed \in Nat
    BY CouncilAssumption DEF CreditInv, TrialsInv, TypeInv, TypeOK, Keys, Summaries
  <2>5. Cut' = Cut /\ Cut \in Nat /\ Voted(p, a)' = Voted(p, a) /\ Voted(p, a) \in Nat
    BY <1>1, <2>4 DEF Cut, Voted, One
  <2>6. Asked(p, a) /\ Sent(p, a) /\ Voted(p, a) <= MaxVoteAttempts
    BY DEF CreditInv, Credit
  <2>7. Asked(p, a)'
    BY <1>1, <1>2, <2>1, <2>2, <2>3, <2>4, <2>5, <2>6 DEF Asked, One
  <2>8. Sent(p, a)'
    BY <1>1, <1>2, <2>4, <2>5, <2>6 DEF Sent, One
  <2> QED
    BY <2>5, <2>6, <2>7, <2>8 DEF Credit
<1> QED
  BY <1>3, <1>4

LEMMA CreditTypes ==
  ASSUME TypeOK, NEW p \in Proposals, NEW a \in Agents
  PROVE  /\ asks[p][a] \in Nat /\ sends[p][a] \in Nat /\ unsent[p][a] \in Nat /\ crashes \in Nat
         /\ lines[p][a].failed \in Nat
         /\ Cut \in 0..1 /\ Voted(p, a) \in Nat
BY CouncilAssumption DEF TypeOK, Keys, Summaries, Cut, Voted, One

\* An attempt under way is within the limit.
LEMMA TryingIsOpen ==
  ASSUME TrialsInv, NEW p \in Proposals, NEW a \in Agents, Trying(p, a)
  PROVE  Voted(p, a) < MaxVoteAttempts
<1>1. Open(mem[p][a]) /\ Covers(mem, lines)
  BY DEF Trying, TrialsInv, Trials, Calling
<1>2. /\ mem[p][a].failed \in Nat /\ mem[p][a].failed < MaxVoteAttempts
      /\ lines[p][a].failed \in Nat /\ lines[p][a].failed <= mem[p][a].failed
      /\ ~lines[p][a].voted
  BY <1>1 DEF Open, Covers, TrialsInv, TypeInv, TypeOK, Keys, Summaries
<1> QED
  BY <1>2, CouncilAssumption DEF Voted, One

LEMMA CreditBroadcast ==
  ASSUME CreditInv, TypeOK', Broadcast, NEW p \in Proposals, NEW a \in Agents
  PROVE  Credit(p, a)'
<1> USE DEF roundVars, logVars, chainVars, toolVars, history
<1>1. /\ pc = "call" /\ pc' = "sent" /\ cur' = cur /\ agent' = agent
      /\ UNCHANGED <<asks, unsent, lines, tail, crashes>>
  BY DEF Broadcast
<1>2. ~Owed(p, a) /\ ~Trying(p, a)
  BY <1>1 DEF Owed, Trying
<1>3. PICK q \in Proposals, b \in Agents : q = cur /\ b = agent
  BY <1>1 DEF CreditInv, TrialsInv, TypeInv, Places, Calling
<1>4. sends' = [sends EXCEPT ![q][b] = @ + 1] /\ sends \in [Proposals -> [Agents -> Nat]]
  BY <1>3 DEF Broadcast, CreditInv, TrialsInv, TypeInv, TypeOK, Keys
<1>5. CASE p # q \/ a # b
  <2>1. sends'[p][a] = sends[p][a]
    BY <1>3, <1>4, <1>5
  <2>2. Keeps(p, a)
    BY <1>1, <1>2, <2>1 DEF Keeps
  <2> QED
    BY <2>2, KeepsCredit DEF CreditInv, TrialsInv, TypeInv
<1>6. CASE p = q /\ a = b
  <2>1. sends'[p][a] = sends[p][a] + 1
    BY <1>3, <1>4, <1>6
  <2>2. Trying(p, a)'
    BY <1>1, <1>3, <1>6 DEF Trying
  <2>3. /\ asks[p][a] \in Nat /\ sends[p][a] \in Nat /\ unsent[p][a] \in Nat /\ crashes \in Nat
        /\ lines[p][a].failed \in Nat
        /\ Cut \in 0..1 /\ Voted(p, a) \in Nat
    BY CreditTypes DEF CreditInv, TrialsInv, TypeInv
  <2>4. Cut' = Cut /\ Voted(p, a)' = Voted(p, a)
    BY <1>1 DEF Cut, Voted, One
  <2>5. Asked(p, a) /\ Sent(p, a) /\ Voted(p, a) <= MaxVoteAttempts
    BY DEF CreditInv, Credit
  <2>6. Asked(p, a)'
    BY <1>1, <1>2, <2>3, <2>4, <2>5 DEF Asked, One
  <2>7. Sent(p, a)'
    BY <1>1, <1>2, <2>1, <2>2, <2>3, <2>4, <2>5 DEF Sent, One
  <2> QED
    BY <2>4, <2>5, <2>6, <2>7 DEF Credit
<1> QED
  BY <1>5, <1>6

\* The client gives a call up: its failure pays for the vote it may yet send.
LEMMA CreditGivesUp ==
  ASSUME CreditInv, TypeOK', ClientGivesUp, NEW p \in Proposals, NEW a \in Agents
  PROVE  Credit(p, a)'
<1> USE DEF roundVars, logVars, chainVars, toolVars, history
<1>1. /\ pc \in Calling /\ cur' = cur /\ UNCHANGED <<asks, sends, lines, tail, crashes>>
  BY DEF ClientGivesUp, Calling
<1>2. PICK q \in Proposals, b \in Agents : q = cur /\ b = agent
  BY <1>1 DEF CreditInv, TrialsInv, TypeInv, Places
<1>3. pc' = "write" /\ VoteEntry(entry)' /\ entry'.p = q /\ entry'.a = b
  BY <1>2, LogsTypes DEF ClientGivesUp, Outcome, VoteEntry
<1>4. unsent' = (IF pc = "call" THEN [unsent EXCEPT ![q][b] = @ + 1] ELSE unsent)
      /\ unsent \in [Proposals -> [Agents -> Nat]]
  BY <1>2 DEF ClientGivesUp, CreditInv, TrialsInv, TypeInv, TypeOK, Keys
<1>5. CASE pc # "call" \/ p # q \/ a # b
  <2>1. unsent'[p][a] = unsent[p][a]
    BY <1>4, <1>5
  <2>2. Keeps(p, a)
    BY <1>1, <1>2, <1>3, <2>1 DEF Keeps, Owed, Trying, VoteEntry, Calling
  <2> QED
    BY <2>2, KeepsCredit DEF CreditInv, TrialsInv, TypeInv
<1>6. CASE pc = "call" /\ p = q /\ a = b
  <2>1. unsent'[p][a] = unsent[p][a] + 1
    BY <1>4, <1>6
  <2>2. Trying(p, a)' /\ ~Owed(p, a) /\ ~Trying(p, a)
    BY <1>3, <1>6 DEF Trying, Owed, VoteEntry
  <2>3. /\ asks[p][a] \in Nat /\ sends[p][a] \in Nat /\ unsent[p][a] \in Nat /\ crashes \in Nat
        /\ lines[p][a].failed \in Nat /\ Cut \in 0..1 /\ Voted(p, a) \in Nat
    BY CreditTypes DEF CreditInv, TrialsInv, TypeInv
  <2>4. Cut' = Cut /\ Voted(p, a)' = Voted(p, a)
    BY <1>1 DEF Cut, Voted, One
  <2>5. Asked(p, a) /\ Sent(p, a) /\ Voted(p, a) <= MaxVoteAttempts
    BY DEF CreditInv, Credit
  <2>6. Asked(p, a)'
    BY <1>1, <2>2, <2>3, <2>4, <2>5 DEF Asked, One
  <2>7. Sent(p, a)'
    BY <1>1, <2>1, <2>2, <2>3, <2>4, <2>5 DEF Sent, One
  <2> QED
    BY <2>4, <2>5, <2>6, <2>7 DEF Credit
<1> QED
  BY <1>5, <1>6

\* A call that was given up sends the vote that was paid for, or none.
LEMMA CreditDetached ==
  ASSUME CreditInv, TypeOK', NEW q \in Proposals, NEW b \in Agents, SendsLate(q, b) \/ SendsNothing(q, b),
         NEW p \in Proposals, NEW a \in Agents
  PROVE  Credit(p, a)'
<1> USE DEF roundVars, logVars, chainVars, toolVars, history
<1>1. UNCHANGED <<pc, dry, cur, waiting, reply, agent, entry, asks, lines, tail, crashes>>
  BY DEF SendsLate, SendsNothing
<1>2. /\ asks[p][a] \in Nat /\ sends[p][a] \in Nat /\ unsent[p][a] \in Nat /\ crashes \in Nat
      /\ lines[p][a].failed \in Nat /\ Cut \in 0..1 /\ Voted(p, a) \in Nat
  BY CreditTypes DEF CreditInv, TrialsInv, TypeInv
<1>3. sends'[p][a] + unsent'[p][a] <= sends[p][a] + unsent[p][a] /\ sends'[p][a] \in Nat /\ unsent'[p][a] \in Nat
  <2>1. unsent \in [Proposals -> [Agents -> Nat]] /\ unsent' = [unsent EXCEPT ![q][b] = @ - 1]
    BY DEF SendsLate, SendsNothing, CreditInv, TrialsInv, TypeInv, TypeOK, Keys
  <2>2. sends \in [Proposals -> [Agents -> Nat]] /\ (sends' = sends \/ sends' = [sends EXCEPT ![q][b] = @ + 1])
    BY DEF SendsLate, SendsNothing, CreditInv, TrialsInv, TypeInv, TypeOK, Keys
  <2>3. sends'[p][a] \in Nat /\ unsent'[p][a] \in Nat
    BY DEF TypeOK, Keys
  <2>4. CASE p = q /\ a = b
    <3>1. unsent'[p][a] = unsent[p][a] - 1
      BY <2>1, <2>4
    <3>2. sends'[p][a] = sends[p][a] \/ sends'[p][a] = sends[p][a] + 1
      BY <2>2, <2>4
    <3> QED
      BY <1>2, <2>3, <3>1, <3>2
  <2>5. CASE p # q \/ a # b
    <3>1. sends'[p][a] = sends[p][a] /\ unsent'[p][a] = unsent[p][a]
      BY <2>1, <2>2, <2>5
    <3> QED
      BY <1>2, <3>1
  <2> QED
    BY <2>4, <2>5
<1>4. Cut' = Cut /\ Voted(p, a)' = Voted(p, a)
  BY <1>1 DEF Cut, Voted, One
<1>5. Asked(p, a) /\ Sent(p, a) /\ Voted(p, a) <= MaxVoteAttempts
  BY DEF CreditInv, Credit
<1>6. (Owed(p, a)' <=> Owed(p, a)) /\ (Trying(p, a)' <=> Trying(p, a))
  BY <1>1 DEF Owed, Trying, VoteEntry
<1>7. Asked(p, a)'
  BY <1>1, <1>2, <1>4, <1>5, <1>6 DEF Asked, One
<1>8. Sent(p, a)'
  BY <1>1, <1>2, <1>3, <1>4, <1>5, <1>6 DEF Sent, One
<1> QED
  BY <1>4, <1>5, <1>7, <1>8 DEF Credit

\* The crash that cuts a line, and loses what the process was about to write.
LEMMA CreditCrash ==
  ASSUME CreditInv, TypeOK', Crash, NEW p \in Proposals, NEW a \in Agents
  PROVE  Credit(p, a)'
<1>1. crashes' = crashes + 1 /\ unsent'[p][a] = 0 /\ UNCHANGED <<asks, sends, lines>>
  BY DEF Crash, history, AllKeys
<1>2. /\ asks[p][a] \in Nat /\ sends[p][a] \in Nat /\ unsent[p][a] \in Nat /\ crashes \in Nat
      /\ lines[p][a].failed \in Nat
      /\ Cut \in 0..1 /\ Voted(p, a) \in Nat
  BY CreditTypes DEF CreditInv, TrialsInv, TypeInv
<1>3. Cut' \in 0..1 /\ Voted(p, a)' = Voted(p, a)
  BY <1>1 DEF Cut, Voted, One
<1>4. Asked(p, a) /\ Sent(p, a) /\ Voted(p, a) <= MaxVoteAttempts
  BY DEF CreditInv, Credit
<1>5. Asked(p, a)'
  BY <1>1, <1>2, <1>3, <1>4 DEF Asked, One
<1>6. Sent(p, a)'
  BY <1>1, <1>2, <1>3, <1>4 DEF Sent, One
<1> QED
  BY <1>3, <1>4, <1>5, <1>6 DEF Credit

\* The file gets the entry, or a line that was cut swallows it.
LEMMA CreditWrite ==
  ASSUME CreditInv, TypeOK', Write, NEW p \in Proposals, NEW a \in Agents
  PROVE  Credit(p, a)'
<1> USE DEF roundVars, logVars, chainVars, toolVars, history
<1>1. /\ entry \in Entries /\ pc = "write" /\ cur' = cur /\ dry' = dry /\ reply' = reply
      /\ Cut' = 0 /\ UNCHANGED <<asks, sends, unsent, crashes>>
  BY Marked DEF Write, Append, Cut, One, CreditInv, TrialsInv, TypeInv, Places
<1>2. /\ asks[p][a] \in Nat /\ sends[p][a] \in Nat /\ unsent[p][a] \in Nat /\ crashes \in Nat
      /\ lines[p][a].failed \in Nat
      /\ Cut \in 0..1 /\ Voted(p, a) \in Nat
  BY CreditTypes DEF CreditInv, TrialsInv, TypeInv
<1>3. Asked(p, a) /\ Sent(p, a) /\ Voted(p, a) <= MaxVoteAttempts
  BY DEF CreditInv, Credit
<1>4. CASE tail.kind # "clean"
  <2>1. Cut = 1 /\ lines' = lines
    BY <1>4 DEF Cut, One, Write, Append
  <2>2. Voted(p, a)' = Voted(p, a)
    BY <2>1 DEF Voted, One
  <2>3. Asked(p, a)'
    BY <1>1, <1>2, <1>3, <2>1 DEF Asked, One
  <2>4. Sent(p, a)'
    BY <1>1, <1>2, <1>3, <2>1, <2>2 DEF Sent, One
  <2> QED
    BY <1>3, <2>2, <2>3, <2>4 DEF Credit
<1>5. CASE tail.kind = "clean"
  <2> DEFINE s == lines[p][a]
             n == lines'[p][a]
  <2>1. s \in Summaries /\ n = IF entry.kind # "error" /\ entry.p = p /\ entry.a = a THEN With(s, entry) ELSE s
    <3>1. lines \in Keys(Summaries)
      BY DEF CreditInv, TrialsInv, TypeInv, TypeOK
    <3>2. lines' = Add(lines, entry)
      BY <1>5 DEF Write, Append
    <3>3. s \in Summaries
      BY <3>1 DEF Keys
    <3>4. Add(lines, entry)[p][a] = IF entry.kind # "error" /\ entry.p = p /\ entry.a = a
                                    THEN With(lines[p][a], entry) ELSE lines[p][a]
      BY <1>1, <3>1, AddTypes
    <3> QED
      BY <3>2, <3>3, <3>4
  <2>2. /\ With(s, entry).decision = (IF entry.kind = "decision" THEN entry.side ELSE s.decision)
        /\ With(s, entry).voted <=> (s.voted \/ entry.kind = "ok")
        /\ With(s, entry).failed = IF entry.kind = "failed" THEN s.failed + 1 ELSE s.failed
        /\ entry.kind = "decision" => entry.side \in Sides
    BY <1>1, <2>1, WithTypes, EntryTypes
  <2>3. s.decision # "none" \/ Owed(p, a) => n.decision # "none" \/ Owed(p, a)'
    <3>1. CASE s.decision # "none" \/ (entry.kind = "decision" /\ entry.p = p /\ entry.a = a)
      BY <2>1, <2>2, <3>1 DEF Sides
    <3>2. CASE ~dry /\ cur = p /\ reply[a] # "none"
      <4>1. entry.kind \in {"decision", "dry"}
        BY <1>1, <3>2 DEF NoReply, CreditInv, TrialsInv, Tidy
      <4>2. pc' = "log"
        BY <4>1 DEF Write
      <4> QED
        BY <1>1, <3>2, <4>2 DEF Owed
    <3> QED
      BY <1>1, <3>1, <3>2 DEF Owed
  <2>4. Voted(p, a)' = Voted(p, a) + One(Trying(p, a))
    <3>1. CASE Trying(p, a)
      <4>1. entry.kind \in {"ok", "failed"} /\ entry.p = p /\ entry.a = a
        BY <1>1, <3>1 DEF Trying, VoteEntry
      <4>2. ~s.voted
        BY <1>1, <4>1 DEF CreditInv, TrialsInv, Trials, VoteEntry, Open, Covers
      <4>3. n.voted <=> entry.kind = "ok"
        BY <2>1, <2>2, <4>1, <4>2
      <4>4. n.failed = IF entry.kind = "failed" THEN s.failed + 1 ELSE s.failed
        BY <2>1, <2>2, <4>1
      <4>5. Voted(p, a)' = n.failed + One(n.voted) /\ Voted(p, a) = s.failed + One(s.voted)
        BY DEF Voted
      <4> HIDE DEF s, n
      <4>6. s.failed \in Nat
        BY <1>2 DEF s
      <4> QED
        BY <3>1, <4>1, <4>2, <4>3, <4>4, <4>5, <4>6 DEF One
    <3>2. CASE ~Trying(p, a)
      <4>1. ~(entry.kind \in {"ok", "failed"} /\ entry.p = p /\ entry.a = a)
        BY <1>1, <3>2 DEF Trying, VoteEntry
      <4>2. (n.voted <=> s.voted) /\ n.failed = s.failed
        BY <2>1, <2>2, <4>1
      <4> QED
        BY <1>2, <3>2, <4>2 DEF Voted, One
    <3> QED
      BY <3>1, <3>2
  <2>5. Trying(p, a) => Voted(p, a) < MaxVoteAttempts
    BY TryingIsOpen DEF CreditInv
  <2>6. Asked(p, a)'
    BY <1>1, <1>2, <1>3, <2>3 DEF Asked, One
  <2>7. Sent(p, a)'
    <3>1. One(Trying(p, a)) \in Nat /\ One(Trying(p, a)') \in Nat
      BY DEF One
    <3> QED
      BY <1>1, <1>2, <1>3, <2>4, <3>1 DEF Sent
  <2>8. Voted(p, a)' <= MaxVoteAttempts
    BY <1>2, <1>3, <2>4, <2>5, CouncilAssumption DEF One
  <2> QED
    BY <2>6, <2>7, <2>8 DEF Credit
<1> QED
  BY <1>4, <1>5

LEMMA CreditStep == CreditInv /\ [CouncilNext]_councilVars => CreditInv'
<1> SUFFICES ASSUME CreditInv, [CouncilNext]_councilVars PROVE CreditInv'
  OBVIOUS
<1>1. TrialsInv /\ TypeOK /\ TrialsInv' /\ TypeOK'
  BY TrialsStep DEF CreditInv, TrialsInv, TypeInv
<1>2. ASSUME NEW p \in Proposals, NEW a \in Agents PROVE Credit(p, a)'
  <2>1. CASE \/ \E q \in Proposals : CloseVoting(q) \/ OthersExecute(q)
             \/ \E tx \in late : LateTx(tx)
             \/ \E d \in detached : ExecutesLate(d)
             \/ UNCHANGED councilVars
    <3>1. UNCHANGED <<pc, dry, cur, waiting, reply, agent, entry, asks, sends, unsent, lines, tail, crashes>>
      BY <2>1 DEF CloseVoting, OthersExecute, LateTx, ExecutesLate, councilVars, roundVars, logVars, chainVars,
                  toolVars, history
    <3>2. Keeps(p, a)
      BY <3>1 DEF Keeps, Owed, Trying
    <3> QED
      BY <1>1, <3>2, KeepsCredit DEF CreditInv
  <2>2. CASE Keeps(p, a)
    BY <1>1, <2>2, KeepsCredit DEF CreditInv
  <2>3. CASE Broadcast
    BY <1>1, <2>3, CreditBroadcast
  <2>4. CASE Crash
    BY <1>1, <2>4, CreditCrash
  <2>5. CASE Write
    BY <1>1, <2>5, CreditWrite
  <2>6. ASSUME NEW q \in Proposals, Review(q) PROVE Credit(p, a)'
    BY <1>1, <2>6, CreditReview
  <2>7. CASE ClientGivesUp
    BY <1>1, <2>7, CreditGivesUp
  <2>8. ASSUME NEW q \in Proposals, NEW b \in Agents, SendsLate(q, b) \/ SendsNothing(q, b)
        PROVE  Credit(p, a)'
    BY <1>1, <2>8, CreditDetached
  <2> QED
    BY <1>1, <2>1, <2>2, <2>3, <2>4, <2>5, <2>6, <2>7, <2>8, CreditRounds, CreditDecisions, CreditVotes
       DEF CouncilNext, RunnerStep
<1> QED
  BY <1>1, <1>2 DEF CreditInv

LEMMA CreditInit == CouncilInit => CreditInv
<1> SUFFICES ASSUME CouncilInit, NEW p \in Proposals, NEW a \in Agents PROVE Credit(p, a)
  BY TrialsInit DEF CreditInv
<1>1. /\ asks[p][a] = 0 /\ sends[p][a] = 0 /\ unsent[p][a] = 0 /\ crashes = 0 /\ Cut = 0
      /\ lines[p][a].failed = 0 /\ ~lines[p][a].voted
  BY Marked DEF CouncilInit, AllKeys, Blank, Cut, One
<1> QED
  BY <1>1, CouncilAssumption DEF Credit, Asked, Sent, Voted, One

\* "decided once and voted once" (runner.ts), however often it is restarted: a
\* crash costs an agent at most two questions and two votes on a proposal, and
\* without one it is asked once and votes at most MaxVoteAttempts times.
THEOREM CouncilBoundedRework == CouncilSpec => []BoundedRework
<1>1. CreditInv => BoundedRework
  <2> SUFFICES ASSUME CreditInv, NEW p \in Proposals, NEW a \in Agents
               PROVE  /\ asks[p][a] <= 1 + 2 * crashes
                      /\ sends[p][a] <= MaxVoteAttempts + 2 * crashes
    BY DEF BoundedRework
  <2>1. /\ asks[p][a] \in Nat /\ sends[p][a] \in Nat /\ unsent[p][a] \in Nat /\ crashes \in Nat
        /\ lines[p][a].failed \in Nat
        /\ Cut \in 0..1 /\ Voted(p, a) \in Nat
    BY CreditTypes DEF CreditInv, TrialsInv, TypeInv
  <2>2. Asked(p, a) /\ Sent(p, a) /\ Voted(p, a) <= MaxVoteAttempts
    BY DEF CreditInv, Credit
  <2>3. Trying(p, a) => Voted(p, a) < MaxVoteAttempts
    BY TryingIsOpen DEF CreditInv
  <2> QED
    BY <2>1, <2>2, <2>3, CouncilAssumption DEF Asked, Sent, One
<1> QED
  BY <1>1, CreditInit, CreditStep, PTL DEF CouncilSpec
=============================================================================
