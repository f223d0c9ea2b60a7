--------------------------- MODULE CouncilRunner ---------------------------
(***************************************************************************)
(* The agent council (src/src/lib/council/runner.ts, started by            *)
(* src/src/cli/council.ts): round after round it asks each agent's model   *)
(* about each proposal in Voting, logs the decision, casts the vote        *)
(* through dexe_proposal_vote_and_execute (src/src/tools/flow.ts) and logs *)
(* the outcome.  The log is a file of JSON lines: all that a crash leaves. *)
(*                                                                         *)
(* An action is one run of the event loop between two awaits, one append   *)
(* to the file, or a step of the chain.  For a proposal and an agent (the  *)
(* log's key) a summary stands for the entries: what decision(), voted()   *)
(* and failedVotes() answer.  Agents are numbered as they are configured.  *)
(*                                                                         *)
(* A definition marked "faulty" is a bug the properties must notice; the   *)
(* specification does not use it.                                          *)
(***************************************************************************)
EXTENDS Naturals

CONSTANTS
  Proposals, Agents, \* proposal ids, indices of cfg.agents (here from 1)
  MaxVoteAttempts,   \* MAX_VOTE_ATTEMPTS
  MaxFaults,         \* bound: calls to the node that fail
  MaxCrashes         \* bound: deaths of the process

ASSUME CouncilAssumption ==
  /\ Proposals \subseteq Nat \ {0} /\ Agents \subseteq Nat \ {0}
  /\ MaxVoteAttempts \in Nat \ {0} /\ MaxFaults \in Nat /\ MaxCrashes \in Nat

VARIABLES
  \* the runner
  pc, dry,
  todo,                \* proposals of the round still to come
  cur, pending,        \* the proposal at hand, its agents still to vote
  waiting, reply,      \* agents whose model thinks; decisions not logged yet
  agent,               \* whose vote is being cast
  entry,               \* what log.append() is about to write
  \* the log: as the process has it; the file's complete lines; its last line
  mem, lines, tail,
  \* the chain; a passed proposal is one that can be moved on or executed
  state, votes,
  late,                \* votes in flight that the runner does not wait for
  \* the tool calls that the runner has given up and the tool has not
  unsent,              \* how many have not sent their vote yet
  detached,            \* the FOR votes that wait for the receipt, or have it
  \* history
  asks, saidFor,       \* questions of real runs; the model answered FOR to one
  sends, executor,     \* votes broadcast; the agent whose call executed
  faults, crashes

roundVars == <<todo, cur, pending, waiting, reply, agent>>
logVars == <<mem, lines, tail>>
toolVars == <<unsent, detached>>
chainVars == <<state, votes, late, toolVars>>
history == <<asks, saidFor, sends, executor>>
councilVars == <<pc, dry, roundVars, entry, logVars, chainVars, history, faults, crashes>>

NoProposal == 0
NoAgent == 0
Sides == {"for", "against"}
Keys(S) == [Proposals -> [Agents -> S]]
AllKeys(x) == [p \in Proposals |-> [a \in Agents |-> x]]

Summaries == [decision : Sides \cup {"none"}, dry : BOOLEAN, voted : BOOLEAN, failed : Nat]
Blank == [decision |-> "none", dry |-> FALSE, voted |-> FALSE, failed |-> 0]
Entries == [kind : {"decision", "dry"}, p : Proposals, a : Agents, side : Sides]
             \cup [kind : {"ok", "failed"}, p : Proposals, a : Agents, side : {"none"}]
             \cup [kind : {"error"}, p : Proposals, a : {NoAgent}, side : {"none"}]
Marker(kind) == [kind |-> kind, p |-> NoProposal, a |-> NoAgent, side |-> "none"]
Txs == [p : Proposals, a : Agents, side : Sides]
Detached == [p : Proposals, a : Agents, at : {"sent", "after"}]
GivenUp(p, a, at) == [p |-> p, a |-> a, at |-> at]

TypeOK ==
  /\ pc \in {"down", "idle", "next", "ask", "log", "write", "vote", "call", "sent", "after", "execute"}
  /\ dry \in BOOLEAN
  /\ todo \subseteq Proposals /\ cur \in Proposals \cup {NoProposal}
  /\ pending \subseteq Agents /\ waiting \subseteq Agents
  /\ reply \in [Agents -> Sides \cup {"none"}] /\ agent \in Agents \cup {NoAgent}
  /\ entry \in Entries \cup {Marker("none")}
  /\ mem \in Keys(Summaries) /\ lines \in Keys(Summaries)
  /\ tail \in Entries \cup {Marker("clean"), Marker("torn")}
  /\ state \in [Proposals -> {"Voting", "Passed", "Over"}]
  /\ votes \in Keys(Sides \cup {"none", "created"}) /\ late \subseteq Txs
  /\ unsent \in Keys(Nat) /\ detached \subseteq Detached
  /\ asks \in Keys(Nat) /\ saidFor \in Keys(BOOLEAN) /\ sends \in Keys(Nat)
  /\ executor \in [Proposals -> Agents \cup {NoAgent}]
  /\ faults \in 0..MaxFaults /\ crashes \in 0..MaxCrashes

First(n, S) == n \in S /\ \A m \in S : n <= m

NoReply == [a \in Agents |-> "none"]

\* The wallet of an agent may have created a proposal, which votes FOR.
CouncilInit ==
  /\ pc = "down" /\ dry = FALSE
  /\ todo = {} /\ cur = NoProposal /\ pending = {} /\ waiting = {}
  /\ reply = NoReply /\ agent = NoAgent /\ entry = Marker("none")
  /\ mem = AllKeys(Blank) /\ lines = AllKeys(Blank) /\ tail = Marker("clean")
  /\ state = [p \in Proposals |-> "Voting"]
  /\ \E creator \in [Proposals -> Agents \cup {NoAgent}] :
       votes = [p \in Proposals |-> [a \in Agents |-> IF creator[p] = a THEN "created" ELSE "none"]]
  /\ late = {} /\ unsent = AllKeys(0) /\ detached = {}
  /\ asks = AllKeys(0) /\ saidFor = AllKeys(FALSE) /\ sends = AllKeys(0)
  /\ executor = [p \in Proposals |-> NoAgent]
  /\ faults = 0 /\ crashes = 0

-----------------------------------------------------------------------------
(* The log.                                                                *)

\* A dry run's decision counts like a real one.
WithDry(s, e) ==   \* faulty
  [decision |-> IF e.kind \in {"decision", "dry"} THEN e.side ELSE s.decision,
   dry      |-> s.dry,
   voted    |-> s.voted \/ e.kind = "ok",
   failed   |-> IF e.kind = "failed" THEN s.failed + 1 ELSE s.failed]

With(s, e) ==
  [decision |-> IF e.kind = "decision" THEN e.side ELSE s.decision,
   dry      |-> s.dry \/ e.kind = "dry",
   voted    |-> s.voted \/ e.kind = "ok",
   failed   |-> IF e.kind = "failed" THEN s.failed + 1 ELSE s.failed]

Add(log, e) ==
  IF e.kind = "error" THEN log
  ELSE [log EXCEPT ![e.p][e.a] = With(@, e)]

\* What the constructor reads: a last line that a crash cut is skipped, one
\* that only lacks its newline is not.
OnDisk == IF tail.kind \in {"clean", "torn"} THEN lines ELSE Add(lines, tail)

\* append(): behind a last line that has no newline the entry becomes a part of
\* that line, which no later start can parse.
Append(e) ==
  /\ mem' = Add(mem, e)
  /\ lines' = IF tail.kind = "clean" THEN Add(lines, e) ELSE lines
  /\ tail' = Marker("clean")

-----------------------------------------------------------------------------
(* The rounds.                                                             *)

Fault == faults < MaxFaults /\ faults' = faults + 1

\* The process starts, for a voting run or a dry one.
Start ==
  /\ pc = "down" /\ pc' = "idle"
  /\ dry' \in BOOLEAN
  /\ mem' = OnDisk
  /\ UNCHANGED <<roundVars, entry, lines, tail, chainVars, history, faults, crashes>>

\* --once, or a signal between two rounds: process.exit().
Stop ==
  /\ pc = "idle" /\ pc' = "down"
  /\ dry' = FALSE /\ mem' = AllKeys(Blank)
  /\ unsent' = AllKeys(0) /\ detached' = {}
  /\ UNCHANGED <<roundVars, entry, lines, tail, state, votes, late, history, faults, crashes>>

BeginRound ==
  /\ pc = "idle" /\ pc' = "next"
  /\ todo' = {p \in Proposals : state[p] = "Voting"}
  /\ UNCHANGED <<dry, cur, pending, waiting, reply, agent, entry, logVars, chainVars, history, faults, crashes>>

ListFails ==
  /\ pc = "idle" /\ Fault
  /\ UNCHANGED <<pc, dry, roundVars, entry, logVars, chainVars, history, crashes>>

RoundEnds ==
  /\ pc = "next" /\ todo = {} /\ pc' = "idle"
  /\ cur' = NoProposal /\ pending' = {}
  /\ UNCHANGED <<dry, todo, waiting, reply, agent, entry, logVars, chainVars, history, faults, crashes>>

\* Without the limit.
ToVoteForever(p) ==   \* faulty
  {a \in Agents : IF dry THEN mem[p][a].decision = "none" /\ ~mem[p][a].dry ELSE ~mem[p][a].voted}

\* One attempt short.
ToVoteEarly(p) ==   \* faulty
  {a \in Agents : IF dry THEN mem[p][a].decision = "none" /\ ~mem[p][a].dry
                         ELSE ~mem[p][a].voted /\ mem[p][a].failed + 1 < MaxVoteAttempts}

ToVote(p) ==
  {a \in Agents : IF dry THEN mem[p][a].decision = "none" /\ ~mem[p][a].dry
                         ELSE ~mem[p][a].voted /\ mem[p][a].failed < MaxVoteAttempts}

Undecided(p) == {a \in ToVote(p) : dry \/ mem[p][a].decision = "none"}

SkipProposal(p) ==
  /\ pc = "next" /\ First(p, todo) /\ ToVote(p) = {}
  /\ todo' = todo \ {p}
  /\ UNCHANGED <<pc, dry, cur, pending, waiting, reply, agent, entry, logVars, chainVars, history, faults, crashes>>

\* The review came; every agent without a decision is asked at once.
Review(p) ==
  /\ pc = "next" /\ First(p, todo) /\ Undecided(p) # {}
  /\ pc' = "ask"
  /\ todo' = todo \ {p} /\ cur' = p /\ pending' = ToVote(p) /\ waiting' = Undecided(p)
  /\ asks' = IF dry THEN asks
             ELSE [asks EXCEPT ![p] = [a \in Agents |-> IF a \in Undecided(p) THEN @[a] + 1 ELSE @[a]]]
  /\ UNCHANGED <<dry, reply, agent, entry, logVars, chainVars, saidFor, sends, executor, faults, crashes>>

ReviewFails(p) ==
  /\ pc = "next" /\ First(p, todo) /\ Undecided(p) # {} /\ Fault
  /\ pc' = "write"
  /\ todo' = todo \ {p}
  /\ entry' = [kind |-> "error", p |-> p, a |-> NoAgent, side |-> "none"]
  /\ UNCHANGED <<dry, cur, pending, waiting, reply, agent, logVars, chainVars, history, crashes>>

\* The log has every decision.
NothingToAsk(p) ==
  /\ pc = "next" /\ First(p, todo) /\ ToVote(p) # {} /\ Undecided(p) = {}
  /\ pc' = "vote"
  /\ todo' = todo \ {p} /\ cur' = p /\ pending' = ToVote(p)
  /\ UNCHANGED <<dry, waiting, reply, agent, entry, logVars, chainVars, history, faults, crashes>>

-----------------------------------------------------------------------------
(* The decisions.                                                          *)

\* What decide() makes of a reply: anything but a clean vote is AGAINST.
Decision(answer) == IF answer = "for" THEN "for" ELSE "against"

Decide(a, answer) ==
  /\ pc = "ask" /\ a \in waiting
  /\ waiting' = waiting \ {a}
  /\ reply' = [reply EXCEPT ![a] = Decision(answer)]
  /\ saidFor' = [saidFor EXCEPT ![cur][a] = @ \/ (~dry /\ answer = "for")]
  /\ pc' = IF waiting' = {} THEN "log" ELSE "ask"   \* Promise.all
  /\ UNCHANGED <<dry, todo, cur, pending, agent, entry, logVars, chainVars, asks, sends, executor, faults, crashes>>

LogDecision(a) ==
  /\ pc = "log" /\ First(a, {b \in Agents : reply[b] # "none"})
  /\ pc' = "write"
  /\ entry' = [kind |-> IF dry THEN "dry" ELSE "decision", p |-> cur, a |-> a, side |-> reply[a]]
  /\ reply' = [reply EXCEPT ![a] = "none"]
  /\ UNCHANGED <<dry, todo, cur, pending, waiting, agent, logVars, chainVars, history, faults, crashes>>

DecisionsLogged ==
  /\ pc = "log" /\ reply = NoReply
  /\ pc' = IF dry THEN "next" ELSE "vote"
  /\ UNCHANGED <<dry, roundVars, entry, logVars, chainVars, history, faults, crashes>>

\* log.append(), and on to what follows it.
Write ==
  /\ pc = "write"
  /\ Append(entry) /\ entry' = Marker("none")
  /\ pc' = CASE entry.kind = "error" -> "next"
             [] entry.kind \in {"decision", "dry"} -> "log"
             [] OTHER -> "vote"
  /\ UNCHANGED <<dry, roundVars, chainVars, history, faults, crashes>>

-----------------------------------------------------------------------------
(* The vote of one agent: the runner's look at the state, then the tool.   *)

\* NOT_SENT_MODES without "failed".
LogsSent(p, a, kind) ==   \* faulty
  /\ pc' = "write" /\ agent' = NoAgent
  /\ entry' = [kind |-> "ok", p |-> p, a |-> a, side |-> "none"]

Logs(p, a, kind) ==
  /\ pc' = "write" /\ agent' = NoAgent
  /\ entry' = [kind |-> kind, p |-> p, a |-> a, side |-> "none"]

Outcome(kind) == Logs(cur, agent, kind)

Side == mem[cur][agent].decision

AutoExecute == Side = "for"

VotesCast ==
  /\ pc = "vote" /\ pending = {} /\ pc' = "next"
  /\ UNCHANGED <<dry, roundVars, entry, logVars, chainVars, history, faults, crashes>>

\* chain.state(): still Voting, or an entry says why the vote is not cast.
CheckState(a) ==
  /\ pc = "vote" /\ First(a, pending) /\ mem[cur][a].decision # "none"
  /\ pending' = pending \ {a}
  /\ \/ state[cur] = "Voting" /\ pc' = "call" /\ agent' = a /\ UNCHANGED entry
     \/ state[cur] # "Voting" /\ Logs(cur, a, "ok")
  /\ UNCHANGED <<dry, todo, cur, waiting, reply, logVars, chainVars, history, faults, crashes>>

StateUnread(a) ==
  /\ pc = "vote" /\ First(a, pending) /\ mem[cur][a].decision # "none" /\ Fault
  /\ pending' = pending \ {a}
  /\ Logs(cur, a, "failed")
  /\ UNCHANGED <<dry, todo, cur, waiting, reply, logVars, chainVars, history, crashes>>

\* The tool reads the state for itself.  Voting has ended since: a passed
\* proposal is executed for a FOR agent, anything else is an error.
FindsVotingOver ==
  /\ pc = "call" /\ state[cur] # "Voting"
  /\ \/ state[cur] = "Passed" /\ AutoExecute /\ pc' = "execute" /\ UNCHANGED <<agent, entry>>
     \/ ~(state[cur] = "Passed" /\ AutoExecute) /\ Outcome("failed")
  /\ UNCHANGED <<dry, todo, cur, pending, waiting, reply, logVars, chainVars, history, faults, crashes>>

\* The wallet voted before: no vote is sent.
FindsVote ==
  /\ pc = "call" /\ state[cur] = "Voting" /\ votes[cur][agent] # "none"
  /\ \/ AutoExecute /\ pc' = "after" /\ UNCHANGED <<agent, entry>>
     \/ ~AutoExecute /\ Outcome("ok")
  /\ UNCHANGED <<dry, todo, cur, pending, waiting, reply, logVars, chainVars, history, faults, crashes>>

\* A read fails, there is no power to vote with, a guard refuses.
CallRefused ==
  /\ pc = "call" /\ Fault /\ Outcome("failed")
  /\ UNCHANGED <<dry, todo, cur, pending, waiting, reply, logVars, chainVars, history, crashes>>

Broadcast ==
  /\ pc = "call" /\ state[cur] = "Voting" /\ votes[cur][agent] = "none"
  /\ pc' = "sent"
  /\ sends' = [sends EXCEPT ![cur][agent] = @ + 1]
  /\ UNCHANGED <<dry, roundVars, entry, logVars, chainVars, asks, saidFor, executor, faults, crashes>>

Tx == [p |-> cur, a |-> agent, side |-> Side]
Counts(tx) == state[tx.p] = "Voting" /\ votes[tx.p][tx.a] = "none"
Cast(tx) == votes' = [votes EXCEPT ![tx.p][tx.a] = tx.side]

\* The receipt.  Votes of one wallet in flight are equal or for different
\* proposals: it does not matter which of them is mined first.
Receipt ==
  /\ pc = "sent"
  /\ \/ /\ Counts(Tx) /\ Cast(Tx)
        /\ \/ AutoExecute /\ pc' = "after" /\ UNCHANGED <<agent, entry>>
           \/ ~AutoExecute /\ Outcome("ok")
     \/ ~Counts(Tx) /\ Outcome("failed") /\ UNCHANGED votes
  /\ UNCHANGED <<dry, todo, cur, pending, waiting, reply, logVars, state, late, toolVars, history, faults, crashes>>

\* The client's wait for the tool ends before the tool's own waits do: the tool
\* works on, beside whatever the runner does next.
ClientGivesUp ==
  /\ pc \in {"call", "sent", "after", "execute"} /\ Fault
  /\ unsent' = IF pc = "call" THEN [unsent EXCEPT ![cur][agent] = @ + 1] ELSE unsent
  /\ late' = IF pc = "sent" THEN late \cup {Tx} ELSE late
  /\ detached' = IF pc # "call" /\ AutoExecute
                 THEN detached \cup {GivenUp(cur, agent, IF pc = "sent" THEN "sent" ELSE "after")}
                 ELSE detached
  /\ Outcome("failed")
  /\ UNCHANGED <<dry, todo, cur, pending, waiting, reply, logVars, state, votes, history, crashes>>

\* The state after a FOR vote.
ReadsOn ==
  /\ pc = "after"
  /\ \/ state[cur] = "Passed" /\ pc' = "execute" /\ UNCHANGED <<agent, entry>>
     \/ state[cur] # "Passed" /\ Outcome("ok")
  /\ UNCHANGED <<dry, todo, cur, pending, waiting, reply, logVars, chainVars, history, faults, crashes>>

\* Executing a passed proposal, or the validator round before it.
Executes ==
  /\ pc = "execute" /\ state[cur] = "Passed"
  /\ state' = [state EXCEPT ![cur] = "Over"]
  /\ executor' = [executor EXCEPT ![cur] = agent]
  /\ Outcome("ok")
  /\ UNCHANGED <<dry, todo, cur, pending, waiting, reply, logVars, votes, late, toolVars, asks, saidFor, sends, faults, crashes>>

\* Locked for long, or waiting for validators: ok.  Blocked by the treasury
\* guard, or failed: not.
DoesNotExecute ==
  /\ pc = "execute"
  /\ \E kind \in {"ok", "failed"} : Outcome(kind)
  /\ UNCHANGED <<dry, todo, cur, pending, waiting, reply, logVars, chainVars, history, faults, crashes>>

-----------------------------------------------------------------------------
(* The tool calls that the runner has given up.  One that ends without any  *)
(* effect is one that does nothing more.                                   *)

\* What the tool was asked for: the decision does not change while it runs.
Given(p, a) == [p |-> p, a |-> a, side |-> mem[p][a].decision]

\* As Broadcast.
SendsLate(p, a) ==
  /\ unsent[p][a] > 0
  /\ state[p] = "Voting" /\ votes[p][a] = "none"
  /\ unsent' = [unsent EXCEPT ![p][a] = @ - 1]
  /\ sends' = [sends EXCEPT ![p][a] = @ + 1]
  /\ late' = late \cup {Given(p, a)}
  /\ detached' = IF Given(p, a).side = "for" THEN detached \cup {GivenUp(p, a, "sent")} ELSE detached
  /\ UNCHANGED <<pc, dry, roundVars, entry, logVars, state, votes, asks, saidFor, executor, faults, crashes>>

\* As FindsVotingOver and FindsVote.
SendsNothing(p, a) ==
  /\ unsent[p][a] > 0 /\ Given(p, a).side = "for"
  /\ state[p] = "Passed" \/ (state[p] = "Voting" /\ votes[p][a] # "none")
  /\ unsent' = [unsent EXCEPT ![p][a] = @ - 1]
  /\ detached' = detached \cup {GivenUp(p, a, "after")}
  /\ UNCHANGED <<pc, dry, roundVars, entry, logVars, state, votes, late, history, faults, crashes>>

\* As Executes.
ExecutesLate(d) ==
  /\ d \in detached /\ d.at = "after" /\ state[d.p] = "Passed"
  /\ state' = [state EXCEPT ![d.p] = "Over"]
  /\ executor' = [executor EXCEPT ![d.p] = d.a]
  /\ detached' = detached \ {d}
  /\ UNCHANGED <<pc, dry, roundVars, entry, logVars, votes, late, unsent, asks, saidFor, sends, faults, crashes>>

-----------------------------------------------------------------------------
(* The chain and the crashes.                                              *)

CloseVoting(p) ==
  /\ state[p] = "Voting"
  /\ \E result \in {"Passed", "Over"} : state' = [state EXCEPT ![p] = result]
  /\ UNCHANGED <<pc, dry, roundVars, entry, logVars, votes, late, toolVars, history, faults, crashes>>

OthersExecute(p) ==
  /\ state[p] = "Passed" /\ state' = [state EXCEPT ![p] = "Over"]
  /\ UNCHANGED <<pc, dry, roundVars, entry, logVars, votes, late, toolVars, history, faults, crashes>>

\* A vote in flight is mined, or dropped.  A tool that still waits for the
\* receipt of a FOR vote goes on.
LateTx(tx) ==
  /\ tx \in late /\ late' = late \ {tx}
  /\ LET waits == GivenUp(tx.p, tx.a, "sent") IN
     \/ /\ Counts(tx) /\ Cast(tx)
        /\ detached' = IF waits \in detached
                       THEN (detached \ {waits}) \cup {GivenUp(tx.p, tx.a, "after")}
                       ELSE detached
     \/ detached' = detached \ {waits} /\ UNCHANGED votes
  /\ UNCHANGED <<pc, dry, roundVars, entry, logVars, state, unsent, history, faults, crashes>>

\* What append() leaves of the line when the process dies in it.
Partial == {Marker("torn")} \cup {e \in {entry} : tail.kind = "clean"}

Crash ==
  /\ pc # "down" /\ crashes < MaxCrashes
  /\ pc' = "down" /\ crashes' = crashes + 1
  /\ dry' = FALSE /\ mem' = AllKeys(Blank)
  /\ todo' = {} /\ cur' = NoProposal /\ pending' = {} /\ waiting' = {}
  /\ reply' = NoReply /\ agent' = NoAgent /\ entry' = Marker("none")
  /\ \/ UNCHANGED tail
     \/ pc = "write" /\ tail' \in Partial
  /\ late' = IF pc = "sent" THEN late \cup {Tx} ELSE late
  /\ unsent' = AllKeys(0) /\ detached' = {}
  /\ UNCHANGED <<lines, state, votes, history, faults>>

\* The process runs on.
RunnerStep ==
  \/ BeginRound \/ ListFails \/ RoundEnds
  \/ \E p \in Proposals : SkipProposal(p) \/ Review(p) \/ ReviewFails(p) \/ NothingToAsk(p)
  \/ \E a \in Agents : \/ \E answer \in Sides \cup {"none"} : Decide(a, answer)
                       \/ LogDecision(a) \/ CheckState(a) \/ StateUnread(a)
  \/ DecisionsLogged \/ Write \/ VotesCast
  \/ FindsVotingOver \/ FindsVote \/ CallRefused \/ Broadcast
  \/ Receipt \/ ClientGivesUp \/ ReadsOn \/ Executes \/ DoesNotExecute

CouncilNext ==
  \/ Start \/ Stop \/ RunnerStep \/ Crash
  \/ \E p \in Proposals : CloseVoting(p) \/ OthersExecute(p)
  \/ \E p \in Proposals, a \in Agents : SendsLate(p, a) \/ SendsNothing(p, a)
  \/ \E d \in detached : ExecutesLate(d)
  \/ \E tx \in late : LateTx(tx)

\* A process that runs goes on: its timers start the rounds, every call it makes
\* has a timeout.  The chain need not mine what it holds, a tool that was given up
\* need not go on, and nobody need start the process again.
CouncilSpec ==
  /\ CouncilInit /\ [][CouncilNext]_councilVars
  /\ WF_councilVars(RunnerStep)

-----------------------------------------------------------------------------
(* The properties.                                                         *)

\* Fail closed (runner.ts: "both fail closed (AGAINST)"; "An AGAINST vote must
\* never execute anything"): a FOR vote of the council, cast or in flight, and
\* every execution come from an agent whose model answered FOR to a real run.
ForNeedsAModel ==
  /\ \A p \in Proposals, a \in Agents :
       votes[p][a] = "for" \/ executor[p] = a => saidFor[p][a]
  /\ \A tx \in late : tx.side = "for" => saidFor[tx.p][tx.a]

\* voted() is final: an agent the file calls done, whom no run will ever serve
\* again, has its vote on the chain, or the voting is over.
DoneIsDone ==
  \A p \in Proposals, a \in Agents :
    OnDisk[p][a].voted => state[p] # "Voting" \/ votes[p][a] # "none"

\* "decided once and voted once", as far as the file can tell: a crash costs a
\* key at most two questions and two votes more (the line the crash cut, and
\* the one that is later glued to it), however often the runner is restarted.
BoundedRework ==
  \A p \in Proposals, a \in Agents :
    /\ asks[p][a] <= 1 + 2 * crashes
    /\ sends[p][a] <= MaxVoteAttempts + 2 * crashes

Served(p, a) ==
  state[p] # "Voting" \/ votes[p][a] # "none" \/ mem[p][a].failed >= MaxVoteAttempts

\* A real run that stays up comes to where every agent is served: its vote is on
\* the chain, or the voting is over, or the runner gave the vote up after its
\* attempts.
EveryAgentIsServed ==
  <>[](pc # "down" /\ ~dry) => <>(\A p \in Proposals, a \in Agents : Served(p, a))
=============================================================================
