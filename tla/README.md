# A verification of dexe-mcp

TLA+ modules for the parts of dexe-mcp whose correctness depends on order,
time, failure or arithmetic at a boundary; TLC configurations that check them
on small instances; and TLAPS proofs of the properties that hold for every
value of the constants. `PROJECT.json` maps every definition to the lines it
models, and lists the runs, the hazards and the theorems.

    tlc -workers 2 -config ApprovalRace.cfg MCApprovalManager   # a run
    tlapm FastLaneProofs.tla                                    # the proofs

Paths below are relative to the repository (`src/lib/...`); `PROJECT.json`
prefixes them with `src/`.

## 1. Inventory

dexe-mcp is a Model Context Protocol server with which an AI client reads and
drives DeXe DAOs on BNB chain. It builds transactions, asks the owner, signs,
broadcasts and waits. One node process serves the tool calls of one or more
clients; several processes may share one state file; a wallet, an RPC node, a
backend and the chain are outside.

| Component | State it keeps | Operations | What is hard | What makes it correct |
|---|---|---|---|---|
| Approval store (`lib/approval/store.ts`) | records, key holders, wrong passwords, lockout | create, get, open, approve, decline, take, finish, revoke, recordFailure, two timers, prune | late timers, operations on closed records, limits | a key lives exactly as long as its approval; one unused approval per flow; verdicts are final; rate limits |
| Approval manager and channels (`lib/approval/index.ts`, `server.ts`, `control.ts`) | holders not handed over, password chain, waiting calls | request, requestSignature, acquire, page and terminal decisions | calls, two channels, scrypt and the clock interleave | one open approval per batch, one holder of a key, declines and lockouts respected, calls return |
| Approved signer, one-shot signature (`approvedSigner.ts`, `signing.ts`) | cursor over the batch, used flag | send, signMessage, signTypedData, finish, revoke | concurrent sends, a deviation in mid-batch | what is signed is a prefix of what was approved, each once |
| Signer manager (`lib/signer.ts`) | a promise chain per chain and signer | withBroadcastLock | nonce races, a failing broadcast | one broadcast at a time, failures isolated |
| Broadcast guards (`lib/broadcastGuards.ts`) | times of the last admissions | runBroadcastGuards | calls that meet at the shared array, a clock set back | the sliding-window limit, neither exceeded nor too strict |
| Shared state file (`stateStore.ts`) | the file, a lock file, a cache per process | load, mutate, persist | several processes, stale locks, crash, failing reads and renames | no lost update, no stale cache, no lock that stays |
| Agent ledger and budget (`agentLedger.ts`, `tools/agents.ts`) | the last entries, newest first | record, settle, spendSince; dexe_agents_fund | calls that overlap, late receipts, lost answers, eviction | the budget never under-counts, and is exceeded by a bounded amount only |
| Composite flows (`tools/flow.ts`, `daoDeploy.ts`, `txSend.ts`) | none of its own: the chain, approvals and resume notes | a batch step by step | partial failure, timeouts, re-runs | nothing sent twice, order kept |
| WalletConnect (`lib/walletconnect.ts`) | provider, session, pairing | connect, send, disconnect | double initialisation, shared listeners, late answers | every call returns; (not kept:) one provider, live URIs, the account that was checked |
| HTTP transport (`http/server.ts`, `security.ts`, `read/server.ts`) | in-flight counter, pool of MCP servers, token buckets | one request, release, shutdown | timeouts, disconnects, late `close()`, a full map, a clock set back | slots are counted; one request per server; a client's allowance is its own; requests are answered; SIGTERM ends the process |
| RPC provider (`rpc.ts`) | none | send with retries and fallbacks | a lost answer to a raw transaction | raw transactions go out once |
| Council runner (`lib/council/runner.ts`, `cli/council.ts`) | a log of JSON lines | rounds: list, ask, log, vote, log | a crash between an act and its entry, a cut line, a proposal that moves on meanwhile | fails closed; what the log calls done is done; bounded rework; every agent is served |
| Treasury gate (`lib/treasuryGate.ts`) | none | a verdict from chain reads | reads that fail | unknown is never "safe" in block mode |
| AgentFastLane (`contracts/AgentFastLane.sol`) | last day, mask, spent, daily buckets, allowlist | pay, validate, admin | the window boundary, an early-ending loop | the rolling cap; validate never accepts what pay refuses |
| Builders, readers, configuration, knowledge base | none, or fixed at start | pure | – | data only; not modelled |

The components meet like this. A tool call builds a batch, puts it up through
the **manager**, which keeps it in the **store** and waits; the owner decides on
the page or in the terminal; the call takes the key, sends step by step under
the **broadcast lock** and the **guards**, waits for receipts, records the
spend in the **ledger**, and finishes or revokes the approval. Without a
server-side key the transaction goes to a phone through **WalletConnect**
instead. Read-only clients reach their tools through the **HTTP transport**.
Agent wallets
with a fast-lane treasury reach the **AgentFastLane** contract through a
proposal that its `validate` hook admits and its `pay` executes.

## 2. Modules

| Module | Models | Kind |
|---|---|---|
| `ApprovalStore` | class ApprovalStore as an open component | specification, properties |
| `OwnerConsent` | what keystore mode promises the owner | abstract specification |
| `ApprovalManager` | manager, channels, password chain, waiting calls over `ApprovalStore` | composition, refinement of `OwnerConsent` |
| `BatchSend` | batches on their way to the chain, in keystore and hot-key mode | specification, properties |
| `OwnerScope` | what an approval lets a call broadcast | abstract specification, implemented by `BatchSend` |
| `StateStore` | the state file between processes | specification, properties |
| `FundBudget` | dexe_agents_fund over the agent ledger | specification, properties |
| `FastLane` | contract AgentFastLane | specification, properties |
| `CouncilRunner` | the agent council, its log and the vote tool it calls | specification, properties |
| `HttpServer` | the handler of a request, the pool of MCP servers, the shutdown | specification, properties |
| `TokenBucket` | the rate limiter with its sweeps and evictions | specification, properties |
| `RateLimit` | what the limiter promises each client | abstract specification, implemented by `TokenBucket` |
| `BroadcastGuards` | the guards before a broadcast and the sliding window of B10 | specification, properties |
| `WalletConnect` | the manager's shared fields under calls, relay and phones | specification, properties |
| `MCSigning` | `ApprovalStore`, `BatchSend` and `WalletConnect` | model checking |
| `MCLimits` | `FastLane`, `FundBudget` and `BroadcastGuards` | model checking |
| `MCTransport` | `TokenBucket` and `HttpServer` | model checking |
| `MCApprovalManager`, `MCBatchSend`, `MCStateStore`, `MCCouncilRunner` | one component each | model checking |
| `ApprovalProofs`, `BatchSendProofs`, `StateStoreProofs`, `FundBudgetProofs`, `FastLaneProofs`, `CouncilRunnerProofs`, `TransportProofs`, `SendingProofs` | proofs about every specification above | proofs |

In every module an action is one run of the event loop between two awaits of
the code, one access to a file where processes meet there, or a step of the
world outside; guards come from the early returns. A definition marked
"faulty" is a variant with a plausible bug which shows that a property notices
it; no specification uses it.

### ApprovalStore

`recs` holds the records in order of creation; a record keeps its binding
(`batchHash`), status, creation and decision times, wrong passwords, whether
the store holds a key for it (`key`), and whether it is still in the map
(`listed`): callers keep references to records that prune() removed. The
private helpers (`close`, `expireIfDue`, `prune`, `findByBatch`,
`recentDecline`, `admitCreate`) are operators from records to records, so
that a caller which runs several of them without an await composes them in one
step. `admitCreate` sweeps first, so expiry is part of the action and never a
step the model may skip. The two timers are actions that may fire at any time
once due: node promises no more. `now` advances in units; every operation reads
it once (the code reads it several times within a synchronous run, which can
only differ by the run's own duration).

Bounds: `MaxRecords`, `MaxLockouts`, `MaxTime`. They bound the run only; the
rate limits of the code (`MaxPending`, `MaxCreates`, ...) are constants of their own.

### ApprovalManager

`acquire()` up to its first await is one of seven outcomes (`RefuseFlow`,
`TakeReady`, `RefuseDeclined`, `RefuseExecuting`, `JoinPending`, `Throttle`,
`AskOwner`), each with the expiry and the failed take the code performs first.
The awaits are the values of a call's `pc`: channels starting, waiting for the
owner, holding the key, and idle. Passwords wait in `queue` for the one check
that runs at a time; between the head's check and the end of its decryption
anything else may happen. `handed` is the manager's own map of holders. The
owner may type, decline, or do nothing; a call that holds a key may sign or
give it back. `MaxQueue` bounds the passwords typed ahead.

The same flow is always of one kind (`MessageAssumption`): a tool asks either
for transactions or for messages.

`OwnerConsent` has five steps on one value per binding (none, asked, granted,
inUse). The mapping takes the one open record of a binding (there is at most
one: `OneLivePerBinding`).

### BatchSend

A call stands at one of the awaits of `sendWithKeystoreApproval`, of the
hot-key loop of `sendOrCollect`, or of dexe_tx_send: `before` a step, the
guards, the gas estimate, the queue of the broadcast lock, the broadcast, the
receipt. `mode` says which of the two signers the server has; with a hot key
there is no approval and the same steps run without one. `queue` is the promise
chain of `withBroadcastLock`, `txs` what the node accepted. The node may
accept and not answer, mine, revert or forget a transaction.
`outcome` and `advice` are what a result tells the client: `advice` is "rerun"
when it says to re-run the same call, "checkFirst" when it says that the step
WAS BROADCAST. A call is made again only if its last result said so, and then
re-reads the chain and leaves out what is already true. A call whose
`beforeStep` asks to stop ends with mode executed and a `halted` field: the
outcome "halted".

Assumed: a transaction the node forgot is not mined later; one node answers the
pending count; nobody else sends from the address; the caller follows the
advice. The wait inside a step's postStep and the WalletConnect leg are left out.

Bounds: `MaxRounds` (how often one call is made), `MaxTxs`. `Faults` says which
transport errors a request may meet.

`OwnerScope` knows of each approval only the list of steps it covers, what was
broadcast under it and whether it is open: a broadcast appends the next covered
step, and only while it is open. `BatchSend` maps its approval records to it.

### StateStore

A mutation goes through: take the lock file or find it stale and break it, or
run unlocked after the budget; read; compute; write a temporary file; compare
the disk with what was read; rename; stamp the cache; remove the lock. Each
access is a step, so two processes meet anywhere. `load` is one step when the
cache serves, two when it reads (the stat is apart from the read). A read may fail, and so may the one that compares: `diskStillHolds` takes an
unreadable file for a changed one (`Unreadable`). A process
may die anywhere in the section, once per run. `recordDao` stands for all the
mutations, which are functions of the state they are handed.

Two history variables say when a promise is off. `clean` becomes false when
somebody runs beside a holder: with a lock that cannot be created or that a
refused removal left, or when two processes break the same lock. The
compare-and-swap narrows that window and does not close it: the rename comes
after the check. So the comment at `stateStore.ts:562`, that the check makes a
lost update impossible, holds as long as `clean` does. `unread` marks a cache
that a failed read left: the code serves the empty state then, until the next
write of anybody.

Time is in units that are long beside the milliseconds between two polls of
the lock: nobody misses for a whole unit a lock that was free or stale.

Bounds: `MaxWrites`, `MaxTime`.

### FundBudget

A call of dexe_agents_fund reads the balances, plans the shortfalls, and then
for each transfer checks the budget against the ledger, runs the guards,
broadcasts, records, waits and settles. The check is several awaits before the
record. The calls may be in one process or in several, so a call's steps
interleave with those of others, with the agents' own broadcasts (whose gas
counts and is not checked), and with the chain. A ledger that cannot be written
records nothing; a full one drops its oldest entry; a broadcast whose answer is
lost is recorded as failed, as the code does. `blind` notes that the ledger
dropped or missed a spend that still counts.

The order of transfers is open, since a caller may list the agents in any order.
A ledger that cannot be read (it reads as empty), an agent listed twice, ERC20
transfers, other budget modes than enforced and more than one chain are left
out; a write of the ledger is one step here, and `StateStore` models how such a
write is made.

Bounds: `MaxOps` (calls made and agents' broadcasts), `MaxTime`.

### FastLane

Every turn of `_settle`'s loop is a step; a transaction runs alone, so no other
transaction happens between them (the token is an ordinary ERC20 without
callbacks into governance, and `_entered` guards `pay`). `paidThrough` is a
history variable. `mask` is the set of its bits. A revert leaves the storage
alone. Values are unbounded integers: `windowCap <= 2^160 - 1` is required by
the constructor and `RollingCap` keeps every stored sum below it, so the
narrowing casts lose nothing, and `NeverUnderflows` covers the checked
subtraction.

### CouncilRunner

The process goes round: list what is in Voting, then for each proposal ask the
agents that have no decision yet (all at once; `Promise.all` waits for the
slowest), append each decision, and vote for the agents one after the other,
each vote followed by its entry. `pc` is the await the process stands at. The
log exists three times: `mem` as the process has it, `lines` as the complete
lines of the file have it, and `tail`, the last line, which a crash may have
cut: anywhere ("torn"), or just before its newline, when it still parses. What
is appended behind such a line becomes a part of it and is lost to every later
start; the running process keeps the entry in `mem`. `lines` and `mem` are kept
as what `decision()`, `voted()` and `failedVotes()` answer for each proposal and
agent.

From `call` to `execute` the process is inside dexe_proposal_vote_and_execute,
as far as the council uses it: the tool's own look at the state, the vote that
may be there already, the broadcast, the receipt, the state after it, and the
execution that a FOR vote may go on to. "Passed" stands for every state that
the tool can move on (validator stages, Locked, Succeeded), "Over" for
the rest. Anybody may end the voting or execute in between. `asks`, `saidFor`,
`sends` and `executor` are history variables.

The council calls the tool through an MCP client whose requests time out after a
minute (the default; `cli/council.ts:123` sets no other), while the tool waits
three for a receipt (`txWait.ts:4`). So `ClientGivesUp` may come at any await of
the tool: the runner logs a failed attempt and goes on, and the handler works on
beside whatever the runner does next. `unsent` counts, for each key, the
given-up calls that have not sent their vote yet; `detached` holds the FOR votes
that wait for their receipt or have it (an AGAINST vote has nothing left to do
once it is sent). They may send (`SendsLate`), find nothing to send
(`SendsNothing`), see the vote mined (`LateTx`) and execute (`ExecutesLate`).
One that fails, or ends without an effect, is one that does nothing more. They
die with the process.

Left out: proposals older than the `scanLatest` newest, the approve and deposit
before a vote, two runners on one log, a log that cannot be written other than
as a crash.

Bounds: `MaxFaults` (failing calls), `MaxCrashes`.

### HttpServer

`stage` is the await a request's handler stands at: reading the body, `connect`,
the tool at work (`working`, the race with the timer), writing the response, and
waiting for the socket to drain. What is refused before the body is one refusal
(path, host, origin, method, rate limit, media type; `/readyz`, which awaits a
probe first, is among them). From `Admit` to `FinishRequest` the handler is
inside the `try` block and holds a slot. `TearDown` is the closure of that name
with its flag `tornDown`: the close of the socket, the timeout and the finally
block may each call it. It starts `close()`, which settles later (`Release`,
`CloseFails`) or never, and only then does the pool get the server back.
`memory` says which request's client an `initialize` left in a server.

Sockets may close at any time. A closed socket is heard from `working` on, since
the listener is installed after `connect`. `Stop`, `HangupAll` and `Exit` are the
shutdown of `http/cli.ts`. A connection carries one request and is used again
after it has closed, so the model needs no bound on requests. Options, request
scopes and the access log are left out.

Bounds: `Servers`, the MCP servers alive at one time.

### TokenBucket and RateLimit

`take()` runs without an await and is one action, made of the sweep, the
eviction, the refill and the re-insertion. The order of the Map is kept as
`newer`, the keys inserted after a key. The code counts in floating point; the
model scales tokens so that a tick's refill is a whole number, and so does not
see rounding. `perMinute = 0`, which switches the limiter off, is left out. The
clock is `Date.now`, which may be set back (a jump forward is many ticks).

`RateLimit` has one number per client: it fills with time, a granted request
takes a token, a refusal says when to come back; memory pressure may forgive a
client and a clock set back may cost it. `TokenBucket` maps each bucket, or the
absence of one, to that number. `watch` observes one client.

### BroadcastGuards

A call goes through the static guards (B6, B7, B12, B11's comparison), the probe
for code, the simulation and the rate limit. What a guard decides on is a
choice; that the probe and the simulation fail open is one of its outcomes. B10
is modelled in full: the loop that shifts, the comparison with the limit and the
push run in one turn. `stamps` is what was ever pushed and `shifted` what the
loop took off its front. `wall` is what the code counts with and may be set
back; `real` is time as it passes, about which the properties are. A wall clock
set forward empties the window early; that is not modelled.

The code counts admissions: a transaction that fails later keeps its place.
`docs/ENVIRONMENT.md:266` and `docs/SECURITY.md:96` speak of broadcasts. The
limit on broadcasts follows; the converse, `RefusesOnlyWhenFull`, is stated for
admissions. At the exact end of the minute the refusal says "Retry in ~0s" while
the loop keeps the entry for one millisecond more.

Bounds: `MaxReal`, `MaxStamps`.

### WalletConnect

`provider`, `connecting` and `lastUri` are the manager's fields, which every
call shares. A call stands at `init()`, waits for its URI, returns the URI, runs
the guards, waits for the phone, or for `provider.disconnect()`, which may
reject and then leaves the fields as they are (`DisconnectFails`). Every
`display_uri` reaches all listeners of its provider. The relay shows a URI or
lets the proposal fail; phones scan a URI that somebody was handed, approve or
decline requests, and end sessions. A request stays with the phone when the
call's timer has fired. personal_sign (which never broadcasts), the status tool,
the wait for a receipt after the hash, and the QR code are left out.

Bounds: `Providers`; `Proposals` (a proposal nobody refers to is used again).

## 3. Runs

| Run | Question | Bounds |
|---|---|---|
| `Signing` | the store: do races of operations and late timers leak keys, supersede wrongly, exceed limits, forget what is needed; does everything lapse? Batches: nonces, order, ledger, keys, scope and return, in both modes. The phone: does every call return? | store: 2 records, 2 bindings of one flow, 7 time units, TTL and cooldown 2 (so a closed record is kept for 4), use window 1, limits of 1. Batches: a flow of 2 steps made up to 3 times beside a dexe_tx_send, 6 transactions, requests that time out. Phone: 2 calls, 2 providers, 2 proposals |
| `Limits` | the lane: rolling cap, validate's caution. The budget: what is charged, by how much is it exceeded? The minute: is the window kept, and not too strict? | lane: 8 days, window 4, 1 read of validate. Budget: 2 calls and 2 agents (both symmetric), 3 operations, 2 days, a ledger of 2 entries, every fault. Minute: 2 calls, limit 2, a minute of 2 ticks, 6 ticks, 5 admissions |
| `Transport` | limiter: fair eviction, and `RateLimit` implemented? Requests: slots, servers, memory, answers, shutdown | limiter: 3 clients and room for 2, bursts of 2, 4 times. Requests: 2 connections, 2 servers, 1 slot |
| `ApprovalRace` | one open approval per batch, one holder per key, closed while locked out, and `OwnerConsent` implemented? | 2 calls (symmetric), 2 bindings, 2 records, lockout after 1 wrong password, 2 lockouts, 3 time units |
| `ApprovalReturns` | does every call return; does a decline silence the flow of a login? | 2 calls with messages of one flow, 3 time units, cooldown 2 |
| `StateStore` | no lost update, no stale cache, no lock that stays | 2 processes, 3 mutations, 4 time units, every fault |
| `Council` | does the council fail closed, is the log right after any crash, how much is done again, is every agent served? | 1 proposal, 2 agents, 2 attempts, 2 failing calls, 1 crash |
| `ApprovalAwaiting` | (violation) does awaiting_approval mean that the approval is pending? | 2 calls, 1 record |
| `BatchReset` | (violation) may "re-run" be said of a step in the mempool? | 1 flow, other transport errors |
| `StateDropped` | (violation) is a record that could not be published kept? | 1 process, 2 mutations |
| `FundRerun` | (violation) is a repeated funding call safe? | 1 agent, a late receipt |
| `HttpStuck` | (violation) does every request give its slot back? | 2 connections, 2 servers, 1 slot |

The first three runs are about several components each. These share no state:
the mode of the signer is fixed at start, and a lane, a budget and a rate limit
meet nowhere. A behaviour of such a run is about one of them, named by `subject`,
and the others stand still; the states of the components add up instead of
multiplying, and each is explored as in a run of its own.

Why the bounds are enough. Two records and two calls suffice for the pairwise
properties (superseding, one open approval, a decline and the next request); the
limits are set to 1, so that they are met. A record is forgotten when it has
been closed for longer than 4 units, and `prune` runs in `create`, whose record
lives for 2 more: 7 time units are the fewest in which a decline, its cooldown
and the pruning of the record happen (at 5), and they do; with 8 the run takes
more than four minutes. The window of `BoundedNagging` is one unit there: with
two, the bounds hold no second creation inside the life of the first, and
`OneApprovedPerFlow` would have no case. The theorem `OwnerIsAskedSparingly` is
about every window. `ApprovalReturns` is too short to prune (a third record and
the time for its cooldown exceed what TLC does in five minutes): what pruning
does to `DeclineHolds` is proved (`DeclinesAreHeeded`), and what it does to the
store is in `Signing`. The window of `FastLane` is longer than the reads of
`validate` plus one, so the early return happens with expired buckets left and
with in-window ones; eight days let a payment expire twice. In `BatchSend` the
second step depends on the first and three rounds let a repeated call fail as
well. In `StateStore` one waiter, one holder and one crash give every role, and
`Budget` is the least the assumption admits for `Stale = 1`. In `FundBudget` the
bound of `BoundedOverrun` is attained (one less is violated); a ledger of 3
entries was tried too (13 million states). In `Council` both bounds of
`BoundedRework` are attained with the one crash, and two failing calls are two
calls given up at the same time; the agents meet only through the state of a
proposal, so two of them give every order, and proposals are independent but for
the order of the round. In `HttpServer` one slot and two requests let the second
be admitted while the first one's server closes, and the second server lets the
pool choose; requests are reused, so their number in time is not bounded. In
`TokenBucket` three clients meet room for two, and the four times reach a sweep
and a step back after it. In `BroadcastGuards` five admissions are two full
windows and one more. In `WalletConnect` two calls and two providers are the
double initialisation. Type correctness is checked only where it is neither
proved nor implied.

Fairness. `Tick` and the timers of the approvals: time passes and node runs a
due timer. `Check`: the decryption of a password ends. `Resume`: a waiting call
wakes at its deadline even if nobody decides (`waitForDecision` and the loop's
clock). `Sign \/ GiveBack`: a call that holds a key ends in `finish`, or in a
revoke on every error path. `CallStep` of `BatchSend`: every await of a call is
a timer or a request with a timeout of its own, so it settles; nothing makes the
chain move, and a wait for a receipt may give up. Nothing is assumed about the
owner, about new calls, or about a process with the state file. `RunnerStep` of
`CouncilRunner`: a process that runs goes on, since its rounds are started by a
timer and every call it makes, to a model or to the chain, has a timeout.
Nothing makes the chain mine what it holds, a given-up tool call go on, or
anybody start the council again, so `EveryAgentIsServed` speaks of real runs
that stay up, and says that they come to where each agent's vote is on the
chain, the voting is over, or the attempts are used up. `HandlerStep`,
`HangupAll` and `Exit` of `HttpServer`: the timers of the body, of the request
and of the shutdown's grace fire, `connect` and the reader of the body settle; a
client, a tool and a `close()` may do nothing for ever. `Settles` and
`ProposalFails` of `WalletConnect`: a call's timer fires and `init()` settles,
and the relay lets no proposal live for ever; the phone owes nothing.

Deadlock is checked in `Council`, which never stops. In the other runs it is
not: their clocks and counters are bounded, so the models stop.

What the violated properties record, with quotations in `PROJECT.json`:

- `AwaitingMeansPending`: a call that waited together with another one, which
  took the approval and signed, returns `awaiting_approval` and "Nothing was
  signed yet" for an approval that is executing, consumed or revoked
  (`index.ts:387`).
- `RerunNeverResends`: after a transport error other than TIMEOUT the result
  says "re-run this same call" of a step whose transaction the node may hold
  (`flow.ts:1422`). With timeouts alone the same property holds.
- `UnpublishedIsServed`: the mutation after a failed publish starts from the
  file and drops the record that only the cache held (`stateStore.ts:638`).
- `NeverOverfunded`: the plan of a repeated funding call does not subtract what
  is in flight (`agents.ts:749`).
- `SlotsComeBack`: a handler that waits for "drain" waits for ever once its socket
  has closed, and its slot is lost until the process ends (`server.ts:500`).

Some disagreements are modelled as the code has them and have no run of their
own:

- A failed read replaces a good cache (`stateStore.ts:489`, history `unread`).
- A broadcast whose answer was lost is recorded as "failed", which
  `agentLedger.ts:84` explains as "never left this process" (history `blind`).
- `broadcastTimeout()` (`flow.ts:982`) takes every TIMEOUT for a receipt that did
  not come. A request for the nonce that times out before anything is sent also
  makes the result say that the step "WAS BROADCAST".
- "a restart never asks a model twice or votes twice" (`runner.ts:14`): a crash
  between a model's answer and the append, or a line glued to a cut one, makes a
  restart ask again, and send a vote again if the first one is not mined yet.
  `BoundedRework` says how often; the chain counts one vote.
- "an agent only ever votes while voting is open, and otherwise records why not"
  (`runner.ts:219`): a proposal that passes between that look and the tool's own
  is executed for a FOR agent without its vote (`FindsVotingOver`).

`WalletConnect` states four properties that the code does not keep; TLC finds
each violated (`GuardsSeeTheSender` with two accounts):

- `ApprovedIsConnected`: `getProvider()` tests `this.provider` before two awaits and
  assigns it after them (`walletconnect.ts:153`). Two first calls each make a
  provider; a session that a phone approves on the overwritten one is not seen,
  though `isConnected()` is "True once the phone wallet has approved the session
  proposal" (`walletconnect.ts:73`).
- `HandedUriIsLive`: the catch of `connect()` resets `connecting` and not `lastUri`
  (`walletconnect.ts:202`), so a call during the next pairing is handed the URI of
  the failed one ("reuse it", says the comment at line 226).
- `GuardsSeeTheSender`: dexe_tx_send reads the account before the guards' awaits and
  `sendTransaction()` reads it again (`txSend.ts:331`): the transaction may go out
  from an account that the guards did not see ("keyed on the connected account
  as `from`", line 297).
- `RejectedIsNotSent`: a request that times out is reported as "rejected" and stays
  with the phone, which may broadcast it (`txSend.ts:366`). `ENVIRONMENT.md:179`
  promises status "timeout", `WALLETCONNECT.md:63` "rejected".

## 4. Proofs

Each proof module strengthens what its run checks into an inductive invariant
and shows that every action keeps it, with the bounds of the runs as arbitrary
constants. The assumptions are the named ones of the component's module.

`FastLaneProofs` proves, for every window, caps, recipients, reads and horizon
that satisfy `LaneAssumption` (what the constructor requires), the type and all six
properties the run checks. None of them is inductive. `IInv` adds what the
storage means in terms of the history: buckets are differences of
`paidThrough`, which is flat after `_lastDay` (`HistoryOK`, `BucketsOK`); inside
the loop the accumulator is today's spend plus the expired days between the
loop index and the end of the old window (`LoopOK`); and the shifted mask names
exactly the days with a payment in today's window (`BitsOK`). `SettleStartsLoop`
establishes the last two, `LoopTurns` keeps them, `AfterTheLoop` reads the
result off, and `PaymentCommits` shows that committing it re-establishes the
meaning of the storage and the cap.

`ApprovalProofs`, the store (`TypeCorrect`, `KeysAreReleased`, `NewerSupersedes`,
`PruningIsSafe`, `KeysAreTakenInTime`, `VerdictsAreFinal`): `IInv` is the type,
`AllGood` (each record is consistent by itself: a key only while approved or
executing, times in order), `MadeOK` (the first `made` slots hold records, and no others),
`OneApprovedPerFlow` and `BoundedNagging`. Every operation is a composition of helpers on single
records, so the proof goes by lemmas on what one helper keeps of one record
(`Kept`), lifted to all records at once (`KeptAll`), and the actions follow.
`OwnerIsAskedSparingly` also needs the cardinalities: no operation makes a record pending
again or moves its creation, so both counts of `BoundedNagging` only shrink
(`NagsStand`, `NagsAge`), and a new record is admitted only when what `admitCreate`
counts leaves room; every pending record is in the map, where it is counted (`NagsBounded`).
`ManagerAsksSparingly` is the same of the manager, whose steps are made of the same helpers.

`ApprovalProofs`, the manager (`OnePagePerBatch`, `KeysHaveOneHolder`,
`LockoutsAreServed`, `DeclinesAreHeeded`, `ConsentIsKept`, `ManagerTypes`): its actions
are the store's helpers in a row, so the store's lemmas serve again, and `MInv` adds
that what a call or a check refers to was put up (`Known`). The two properties it
proves are inductive only together: a call takes the key because the record is
approved and, being the one open record of its binding, the one the scan finds. Most
steps are `Calm` (no record comes alive, none is taken or given up) and keep both at once
(`MovesOn`, `CallsStand`); `TakesHold`, `GivesUp`, `AskOwnerInv` and `RightPasswordInv` are
the rest. Every step is also one of five moves of the records (`Moved`), each of
which is a step of `OwnerConsent` (`ConsentMoves`). `LockoutsAreServed` needs
`CheckedUnlocked`: a decryption under way began unlocked, and a lockout can only begin
when it ends. `DeclinesAreHeeded` needs no more of pruning than `Good`: a
closed record leaves the map after its cooldown.

`BatchSendProofs` has six invariants. `Custody`: the key, the status
"executing" and a running call are the same thing; from it `KeysAreGivenUp`.
`NonceInv`: calls at the broadcast take turns, and the nonce which the running
one has read is still free; from it `NoncesAreUnique`. `LedgerInv`: whatever
a call has passed is done, inside its batch, and "executed" is said at the end
only; with `AccountGrows` (mined transactions stay) it gives `LedgersAreTrue`
and `StepsAreOrdered`. `RecordInv`: the cursor of an approval in use is the step
in hand, one more while the receipt is waited for, and every step it has passed was
broadcast; from it `RecordsAreTrue`. `OnceInv` needs `Faults \subseteq {"timeout"}`,
an assumption of its two theorems: from the step in hand on, nothing of the call is
live (pending or mined) while it may still send or says "re-run" (`ClearIsClear`),
and only the transaction in hand while it waits or says "look it up"
(`LookIsInHand`), so a new batch begins behind whatever is live (`RepeatIsClear`).
`NothingHappensTwice` and `RerunsAreSafe` follow; the run BatchReset shows that with
other transport errors the second is false. `PromiseInv`, for the refinement
`OwnerGetsWhatWasApproved`: no transaction is of a later round than its call (`NoneLater`),
a round has broadcast as many as there are steps from its first one to the one in hand
(`Counted`), and for every i up to their number one of them is the i-th (`AllRanked`). The mapping reads the
list that `OwnerScope` calls `sent` off the transactions of the call's round, by rank;
the lemmas from `OnePlace` to `MoreBroadcasts` say how that list grows when a transaction
is appended. Each step is then `Grant`, `SendNext` or `End` of `OwnerScope`, or a stutter.

`StateStoreProofs`: `LockInv` says that, as long as `clean`, whoever is inside
the section holds the lock, is alone there, and is about to publish what was
computed from the file as it is (`NothingIsLost`). `WaitInv` ties a
waiter's start to the age of the lock it finds; with `Stale + 1 < Budget` no
lock is as old as a waiter's budget (`LocksDoNotOutlast`). `CacheInv` follows a
stamp from the stat to the read or from the rename to the stamp (`LoadIsFresh`).

`FundBudgetProofs` has three invariants. `IInv`, for `LedgerIsConservative`: what a
call has in hand is the value of the transfer it sent (`InHand`), and an entry of a
transfer carries its value and either the most the fee can be or the fee
(`LedgerIsTrue`). `BudgetInv`, for `OverrunIsBounded`: the bound on what was spent is not
inductive, as a call sends what was checked against the ledger some awaits ago. So the
invariant bounds more: what every recent transfer may still cost (`Worst`), and
what every call between its check and its broadcast will add, together at most the
budget and the overrun (`Bounded`). It is established by the check, which sees the
ledger only: while not `blind`, every recent transfer has an entry there or is in
the hand of the call that has just sent it (`Known`), so the transfers cost at most
what the ledger charges and the hands of the other calls hold (`Covering`), and each
hand at most a target and the gas (`Admitting`). The set of calls is assumed to be
finite and not empty, as the calls of processes are.

The third, `RoomInv`, says when the promise that the run FundRerun refutes does hold.
As long as every answer and receipt comes (`AllCome`, an assumption of the two
theorems), what is on its way is in the hand of a call (`OnItsWay`), and what an agent has
and what all calls may still give it is at most one target for each call (`Room`):
a call that plans lifts the agent to the target, and each of the others owes at most
a target more. So overlapping calls overfund by a target each at most
(`OverlapsOverfundLittle`; with two calls the bound is attained), and a single one
never does (`RerunningIsSafe`).

The sums of these invariants are folds over sets. "Adding up" in that module proves
what the proofs use of them (an element less, smaller addends, two disjoint sets, a
bound on each addend, one sum covered by another) by induction on the size of a
set, which `EveryNumber` and `EverySet` derive from the least element of a set of
numbers (`LeastNumber`), since the library's induction theorems cannot be instantiated.

`CouncilRunnerProofs` has four invariants. `TypeInv` adds what the process has
at hand at each place (`Places`), and that a call given up before its vote casts
a decision which `mem` keeps while the process lives (`Pledged`). `HonestInv`:
whatever may still become a FOR vote or an execution (a decision in `mem`, in
`lines`, in the cut line, in hand, a transaction, a detached call) was said by a
model in a real run; from it `CouncilFailsClosed`. `SettledInv`: "ok" is written
only behind a vote on the chain or a closed voting, which both last; from it
`CouncilDoneIsDone`. `CreditInv`, for `CouncilBoundedRework`, is bookkeeping: a
question is paid for by the decision in the file, a vote by its outcome there,
what has not reached the file is owed (`Owed`, `Trying`), and a crash writes off
two of each: what was owed, and the entry that a cut line (`Cut`) will swallow.
A call that is given up before its vote counts as a vote (`unsent`), which its
logged failure pays for, so it may send it whenever it likes. It rests on
`TrialsInv`: what a process knows covers the file, and it works only on votes
that are open by what it knows.

`TransportProofs` has one invariant for each module. `HttpInv` is `Custody` with the
count of the slots: a request that has not torn down holds a lent-out server
(`LentOut`), no two hold the same one (`Apart`), what closes is still lent out and
what is idle remembers nobody (`PoolOK`), and what is done has torn down
(`WorkIsAbandoned`). `SlotsHold`, `ServersAreExclusive`, `ClientsStayApart` and
`HandlersTearDown` follow. `BucketInv` says what `newer` orders (`OrderOK`: each
non-empty set of present keys has an oldest one), that grants and the present
allowance are together what the client had (`GrantsOK`), that a refusal's time finds
a token in the bucket (`DueOK`), and that whoever is newer than the observed client
has called since (`OthersOK`). `LimiterKeepsPromise` shows that every step of
`TokenBucket` is one of `RateLimit` under the mapping, or a stutter.

`SendingProofs`, the guards: since any admission at least as much time has passed as
the clock shows (`ClockLags`), so what the loop has shifted is older than a minute
(`GoneIsOld`), and an admission needs the one `Limit` before it to be gone
(`MinuteHolds`). On a clock that was never set back the times pushed are the times
of the admissions, in order (`Steady`), so a loop that stops at the first time it
must keep keeps nothing else (`RefusalsAreDue`).

`SendingProofs`, WalletConnect: two of the four properties that the code does not keep
hold for one call at a time (`OneAtATime`, an assumption of the two theorems), with
any number of proposals, accounts and phones that act at any moment. `OneProvider`: `init()` has
made the manager's provider and no other, and every proposal and session is of it
(`OneCallSeesTheSession`). `Awaited`: a proposal without its URI has a call that waits
for it, and without such a call the URI that `lastUri` keeps can be scanned while
`connecting` is set (`OneCallHandsLiveUris`). The other two fail with a single call as
well: a phone may pair with another account during the guards, and approve
what has timed out.

Some invariants are proved and in no run, as the runs check what rests on them:
`StorageExact`, `PayIsExact`, `NeverUnderflows` and `PastIsFixed` of the lane,
`FinalIsFinal` of the store, `ConsumedMeansSent` of the batches, `WorkIsAbandoned` of the transport, `NeverOvergrants` and
`RetryIsHonest` of the limiter, and the types.

Only model-checked: liveness under fairness (`ApprovalsLapse`, `CallsReturn` of the
manager and of the batches, `WcCallsReturn`, `EveryAgentIsServed`,
`EveryRequestIsAnswered`, `ShutdownEnds`), which needs ENABLED and is beyond the prover.
Every other property of a run that passes is a theorem. Of the five violated ones,
`RerunNeverResends` and `NeverOverfunded` are proved under the assumptions that
make them true, named above, and so are two of the four that `WalletConnect` states.

## 5. Not modelled, and the plan

Not modelled at all: review text and layout, calldata builders, readers,
configuration, knowledge base, bundles (data or I/O without state of their own).
`PROJECT.json` gives the reason for each component.

Nine tenths of the repository's lines are outside any model of this kind: the
bundle `dexe-plugin/server/index.mjs` alone, generated from the sources, has
170 000 of its 247 000 lines, and most of the rest builds calldata or formats
what it reads. The mapped lines are a small share of the whole and most of what
keeps state.

Left for later:

1. The treasury gate as a decision table over reads that fail, and the retries
   and fallbacks of `rpc.ts` for reads.
2. A ledger that cannot be read (`agentLedger.ts:551`), an agent listed twice and
   ERC20 amounts in `FundBudget`; the WalletConnect leg inside a composite flow.
