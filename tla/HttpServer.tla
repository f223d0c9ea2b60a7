----------------------------- MODULE HttpServer -----------------------------
(***************************************************************************)
(* The HTTP transport (src/src/http/server.ts) with its pool of MCP        *)
(* servers (createReadServerFactory, src/src/read/server.ts), wired as     *)
(* src/src/http/cli.ts wires them.                                         *)
(*                                                                         *)
(* An action is one run of the event loop in the handler of a request, an  *)
(* event of its socket, the end of a server's close(), or a step of the    *)
(* shutdown.  A request is a connection that carries one request; it is    *)
(* used again when it has closed, so nothing bounds a run.                 *)
(*                                                                         *)
(* A definition marked "faulty" is a bug the properties must notice; the   *)
(* specification does not use it.                                          *)
(***************************************************************************)
EXTENDS Integers, FiniteSets

CONSTANTS
  Requests,      \* connections
  Servers,       \* bound: the MCP servers alive at one time
  Nil,
  MaxInflight,   \* opts.maxInflight; cli.ts makes it the pool's maxIdle, too
  Backpressure   \* whether a response may be larger than a socket's buffer

ASSUME HttpAssumption ==
  /\ IsFiniteSet(Requests) /\ IsFiniteSet(Servers) /\ Nil \notin Servers \cup Requests
  /\ MaxInflight \in Nat \ {0} /\ Backpressure \in BOOLEAN

VARIABLES
  stage,         \* request |-> the await its handler stands at
  gone,       \* the requests whose client has closed the socket
  answered,   \* history: the requests that were sent a status line
  inflight,   \* the slots taken
  srv,        \* request |-> mcp, the server made for it
  torn,       \* the requests with tornDown
  closing,    \* the servers whose close() has not settled
  idle,       \* the pool
  leased,     \* the servers handed out, as the pool has it
  memory,     \* server |-> the request whose client it remembers
  phase       \* of the process

httpVars == <<stage, gone, answered, inflight, srv, torn, closing, idle, leased, memory, phase>>

\* "closed": no connection.  "done": the handler has returned and the socket
\* may still be writing.
Places == {"closed", "body", "connect", "working", "writing", "drain", "done"}
Holding == {"connect", "working", "writing", "drain"}   \* inside the try block

\* Where the handler listens for the client to close the socket.
Listens == {"working", "writing", "drain"}

HttpInit ==
  /\ stage = [r \in Requests |-> "closed"] /\ gone = {} /\ torn = {} /\ answered = {}
  /\ srv = [r \in Requests |-> Nil] /\ memory = [s \in Servers |-> Nil]
  /\ inflight = 0 /\ closing = {} /\ leased = {}
  /\ idle \in {{s} : s \in Servers}   \* built up front
  /\ phase = "up"

Moves(r, place) == stage' = [stage EXCEPT ![r] = place]
At(r, place) == phase # "down" /\ stage[r] = place

\* send(): the status line of a response that has none yet, if anybody is there.
Says(r) == answered' = answered \cup ({r} \ gone)

-----------------------------------------------------------------------------
(* Tearing down, and the pool.                                             *)

TearDownAgain(R) ==   \* faulty: no tornDown
  LET Made == {r \in R : srv[r] # Nil}
  IN  /\ torn' = torn \cup Made
      /\ closing' = closing \cup {srv[r] : r \in Made}

\* tearDown() of every request of R: once for each.
TearDown(R) ==
  LET Fresh == {r \in R : srv[r] # Nil /\ r \notin torn}
  IN  /\ torn' = torn \cup Fresh
      /\ closing' = closing \cup {srv[r] : r \in Fresh}

\* The finally block.
FinishRequest(r) ==
  /\ Moves(r, "done")
  /\ inflight' = inflight - 1
  /\ TearDown({r})

\* A server that nobody refers to: a new one, or the garbage of an old one.
Unbuilt == Servers \ (idle \cup leased \cup closing \cup {srv[r] : r \in Requests})

\* acquire(): an idle server, or a new one.
Acquirable == IF idle = {} THEN Unbuilt ELSE idle

ReleaseAsItIs(s) ==   \* faulty: no forgetClient()
  /\ phase # "down" /\ s \in closing
  /\ closing' = closing \ {s}
  /\ leased' = leased \ {s}
  /\ idle' = IF s \in leased /\ Cardinality(idle) < MaxInflight THEN idle \cup {s} ELSE idle
  /\ UNCHANGED <<stage, gone, answered, inflight, srv, torn, memory, phase>>

\* close() settled: the pool gets the server back, and forgets its client.
Release(s) ==
  /\ phase # "down" /\ s \in closing
  /\ closing' = closing \ {s}
  /\ leased' = leased \ {s}
  /\ IF s \in leased /\ Cardinality(idle) < MaxInflight
     THEN idle' = idle \cup {s} /\ memory' = [memory EXCEPT ![s] = Nil]
     ELSE UNCHANGED <<idle, memory>>
  /\ UNCHANGED <<stage, gone, answered, inflight, srv, torn, phase>>

\* close() failed: releaseServer is not called, and the server is garbage.
CloseFails(s) ==
  /\ phase # "down" /\ s \in closing
  /\ closing' = closing \ {s} /\ leased' = leased \ {s}
  /\ UNCHANGED <<stage, gone, answered, inflight, srv, torn, idle, memory, phase>>

-----------------------------------------------------------------------------
(* A request.                                                              *)

\* Whatever is refused before the body is read: path, host, origin, method,
\* rate limit, media type.  The others go on to read it.
Arrive(r) ==
  /\ phase = "up" /\ stage[r] = "closed"
  /\ \/ Moves(r, "body") /\ UNCHANGED answered
     \/ Moves(r, "done") /\ Says(r)
  /\ UNCHANGED <<gone, inflight, srv, torn, closing, idle, leased, memory, phase>>

\* readBody() rejects: too large, too late, or the socket broke.
BodyFails(r) ==
  /\ At(r, "body")
  /\ Moves(r, "done") /\ Says(r)
  /\ UNCHANGED <<gone, inflight, srv, torn, closing, idle, leased, memory, phase>>

\* It does not parse, or is a batch.
BadMessage(r) ==
  /\ At(r, "body") /\ r \notin gone
  /\ Moves(r, "done") /\ Says(r)
  /\ UNCHANGED <<gone, inflight, srv, torn, closing, idle, leased, memory, phase>>

BusyUnsaid(r) ==   \* faulty: returns without a word
  /\ At(r, "body") /\ r \notin gone /\ inflight >= MaxInflight
  /\ Moves(r, "done")
  /\ UNCHANGED <<gone, answered, inflight, srv, torn, closing, idle, leased, memory, phase>>

Busy(r) ==
  /\ At(r, "body") /\ r \notin gone /\ inflight >= MaxInflight
  /\ Moves(r, "done") /\ Says(r)
  /\ UNCHANGED <<gone, inflight, srv, torn, closing, idle, leased, memory, phase>>

AdmitOneMore(r) ==   \* faulty
  /\ At(r, "body") /\ r \notin gone /\ inflight <= MaxInflight
  /\ inflight' = inflight + 1
  /\ \E s \in Acquirable :
       /\ srv' = [srv EXCEPT ![r] = s]
       /\ idle' = idle \ {s} /\ leased' = leased \cup {s}
       /\ memory' = IF s \in idle THEN memory ELSE [memory EXCEPT ![s] = Nil]
  /\ Moves(r, "connect")
  /\ UNCHANGED <<gone, answered, torn, closing, phase>>

\* A slot, and a server for the request.
Admit(r) ==
  /\ At(r, "body") /\ r \notin gone /\ inflight < MaxInflight
  /\ inflight' = inflight + 1
  /\ \E s \in Acquirable :
       /\ srv' = [srv EXCEPT ![r] = s]
       /\ idle' = idle \ {s} /\ leased' = leased \cup {s}
       \* a new object remembers nobody
       /\ memory' = IF s \in idle THEN memory ELSE [memory EXCEPT ![s] = Nil]
  /\ Moves(r, "connect")
  /\ UNCHANGED <<gone, answered, torn, closing, phase>>

\* serverFactory() throws: the slot is taken and given back.
FactoryFails(r) ==
  /\ At(r, "body") /\ r \notin gone /\ inflight < MaxInflight /\ idle = {}
  /\ Moves(r, "done") /\ Says(r)
  /\ UNCHANGED <<gone, inflight, srv, torn, closing, idle, leased, memory, phase>>

\* connect() is done: from now on the close of the socket is heard.  An
\* `initialize` makes the server remember its client.
Connected(r) ==
  /\ At(r, "connect")
  /\ Moves(r, "working")
  /\ memory' \in {memory, [memory EXCEPT ![srv[r]] = r]}
  /\ UNCHANGED <<gone, answered, inflight, srv, torn, closing, idle, leased, phase>>

ConnectFails(r) ==
  /\ At(r, "connect")
  /\ Says(r) /\ FinishRequest(r)
  /\ UNCHANGED <<gone, srv, idle, leased, memory, phase>>

\* handleRequest() resolves; a destroyed response is not written.
Responds(r) ==
  /\ At(r, "working")
  /\ IF r \in gone
     THEN FinishRequest(r) /\ UNCHANGED answered
     ELSE Moves(r, "writing") /\ Says(r) /\ UNCHANGED <<inflight, torn, closing>>
  /\ UNCHANGED <<gone, srv, idle, leased, memory, phase>>

\* handleRequest() or the reader of its body rejects.
Throws(r) ==
  /\ At(r, "working") \/ At(r, "writing")
  /\ Says(r) /\ FinishRequest(r)
  /\ UNCHANGED <<gone, srv, idle, leased, memory, phase>>

RequestTimesOut(r) ==
  /\ At(r, "working")
  /\ Says(r) /\ FinishRequest(r)
  /\ UNCHANGED <<gone, srv, idle, leased, memory, phase>>

\* The body is read to its end.
BodyEnds(r) ==
  /\ At(r, "writing")
  /\ FinishRequest(r)
  /\ UNCHANGED <<gone, answered, srv, idle, leased, memory, phase>>

\* res.write() returns false, and the handler waits for "drain".
Blocks(r) ==
  /\ Backpressure /\ At(r, "writing")
  /\ Moves(r, "drain")
  /\ UNCHANGED <<gone, answered, inflight, srv, torn, closing, idle, leased, memory, phase>>

\* The client reads on.  A socket that is closed never drains.
Drains(r) ==
  /\ At(r, "drain") /\ r \notin gone
  /\ Moves(r, "writing")
  /\ UNCHANGED <<gone, answered, inflight, srv, torn, closing, idle, leased, memory, phase>>

\* The response of a handler that has returned is flushed, or its socket closed;
\* nothing of the request is left.
Flushed(r) ==
  /\ At(r, "done")
  /\ Moves(r, "closed")
  /\ gone' = gone \ {r} /\ torn' = torn \ {r} /\ answered' = answered \ {r}
  /\ srv' = [srv EXCEPT ![r] = Nil]
  /\ UNCHANGED <<inflight, closing, idle, leased, memory, phase>>

-----------------------------------------------------------------------------
(* Sockets that close, and the end of the process.                         *)

OpenSockets == {r \in Requests : stage[r] # "closed" /\ r \notin gone}

\* The sockets of R close: "close" of a response that is not finished.
Hangup(R) ==
  /\ gone' = gone \cup R
  /\ TearDown({r \in R : stage[r] \in Listens})

ClientGoes(r) ==
  /\ phase # "down" /\ r \in OpenSockets
  /\ Hangup({r})
  /\ UNCHANGED <<stage, answered, inflight, srv, idle, leased, memory, phase>>

\* SIGTERM: nothing new is accepted.
Stop ==
  /\ phase = "up" /\ phase' = "draining"
  /\ UNCHANGED <<stage, gone, answered, inflight, srv, torn, closing, idle, leased, memory>>

ForceNobody ==   \* faulty: only the idle connections
  /\ phase = "draining" /\ phase' = "forced"
  /\ UNCHANGED <<stage, gone, answered, inflight, srv, torn, closing, idle, leased, memory>>

\* The grace is over: closeAllConnections().
HangupAll ==
  /\ phase = "draining" /\ phase' = "forced"
  /\ Hangup(OpenSockets)
  /\ UNCHANGED <<stage, answered, inflight, srv, idle, leased, memory>>

\* No connection is left: the process exits, whatever its handlers wait for.
Exit ==
  /\ phase \in {"draining", "forced"} /\ OpenSockets = {}
  /\ phase' = "down"
  /\ UNCHANGED <<stage, gone, answered, inflight, srv, torn, closing, idle, leased, memory>>

HandlerStep(r) ==
  \/ BodyFails(r) \/ BadMessage(r) \/ Busy(r) \/ Admit(r) \/ FactoryFails(r)
  \/ Connected(r) \/ ConnectFails(r) \/ BodyEnds(r) \/ RequestTimesOut(r)

HttpNext ==
  \/ \E r \in Requests : Arrive(r) \/ HandlerStep(r) \/ Responds(r) \/ Throws(r) \/ Blocks(r)
  \/ \E r \in Requests : Drains(r) \/ Flushed(r) \/ ClientGoes(r)
  \/ \E s \in Servers : Release(s) \/ CloseFails(s)
  \/ Stop \/ HangupAll \/ Exit

\* What the process does by itself: the timers of the body and of the request
\* fire, connect() and the reader settle, the grace ends, and the process exits
\* when it can.  A client, a tool and a close() may do nothing for ever.
\* Throws is not among it: at "working", the timer is all there is.
HttpFairness ==
  /\ \A r \in Requests : WF_httpVars(HandlerStep(r))
  /\ WF_httpVars(HangupAll) /\ WF_httpVars(Exit)

HttpSpec == HttpInit /\ [][HttpNext]_httpVars /\ HttpFairness

-----------------------------------------------------------------------------
(* Properties.                                                             *)

\* The variables have their types, and the pool keeps at most maxIdle servers,
\* however many are closing at once.
HttpTypeOK ==
  /\ stage \in [Requests -> Places]
  /\ gone \subseteq Requests /\ torn \subseteq Requests /\ answered \subseteq Requests
  /\ srv \in [Requests -> Servers \cup {Nil}]
  /\ memory \in [Servers -> Requests \cup {Nil}]
  /\ closing \subseteq Servers /\ idle \subseteq Servers /\ leased \subseteq Servers
  /\ inflight \in Int /\ Cardinality(idle) <= MaxInflight
  /\ phase \in {"up", "draining", "forced", "down"}

\* The requests inside the try block.
Held == {r \in Requests : stage[r] \in Holding}

\* The counter is the number of requests inside the try block, whichever of
\* the handler's nine exits they take, and at most maxInflight.
SlotsAreCounted ==
  /\ inflight = Cardinality(Held)
  /\ inflight <= MaxInflight

\* The requests a server is connected for.
Serves(s) == {r \in Requests : srv[r] = s /\ stage[r] \in Holding /\ r \notin torn}

\* A server serves one request at a time, and is neither closing nor in the
\* pool meanwhile, although a socket's close, the timeout and the finally block
\* may each tear down, and close() settles later.
OneRequestPerServer ==
  \A s \in Servers :
    /\ Cardinality(Serves(s)) <= 1
    /\ Serves(s) # {} => s \in leased \ (idle \cup closing)

\* No request meets a server that remembers the client of another one.
NoForeignMemory ==
  \A r \in Requests :
    stage[r] \in Holding /\ r \notin torn => memory[srv[r]] \in {Nil, r}

\* A handler that has returned has torn down the server it was given, so that
\* the tool stops: on every exit.
WorkIsAbandoned ==
  \A r \in Requests : stage[r] = "done" /\ srv[r] # Nil => r \in torn

\* A request whose client stays is answered, or the process ends.
EveryRequestIsAnswered ==
  \A r \in Requests :
    stage[r] = "body" ~> (r \in answered \/ r \in gone \/ phase = "down")

\* SIGTERM ends the process, even with handlers that wait for ever.
ShutdownEnds == phase = "draining" ~> phase = "down"

\* A slot is given back.
SlotsComeBack ==
  \A r \in Requests : stage[r] \in Holding ~> (stage[r] \notin Holding \/ phase = "down")
=============================================================================
