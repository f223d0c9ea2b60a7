--------------------------- MODULE TransportProofs ---------------------------
(***************************************************************************)
(* Proofs about HttpServer, for any number of requests, any pool and any   *)
(* cap, and about TokenBucket, for any clients, rate and burst.            *)
(*                                                                         *)
(* A server is lent to one request at a time because it leaves the pool    *)
(* when it is acquired and comes back only after a close() that follows    *)
(* the one tearDown() of the request that held it.  The invariant says     *)
(* where a server can be (PoolOK), what a request that has not torn down   *)
(* holds (LentOut, Apart), and when a request has a server at all          *)
(* (HasServer).                                                            *)
(*                                                                         *)
(* The limiter keeps a promise about time with two numbers per client and  *)
(* a Map of bounded size.  The invariant relates them to an observer of    *)
(* one client (GrantsOK, DueOK) and says that the Map's order is a strict  *)
(* total order (OrderOK), without which no key would be the oldest and the *)
(* Map would grow.                                                         *)
(***************************************************************************)
EXTENDS HttpServer, TokenBucket, FiniteSetTheorems, FunctionTheorems, TLAPS

\* The requests that hold a server and have not torn it down.
Live(r) == stage[r] \in Holding /\ r \notin torn

HasServer ==
  \A r \in Requests :
    /\ stage[r] \in Holding => srv[r] # Nil
    /\ srv[r] # Nil => stage[r] \in Holding \cup {"done"}
    /\ r \in torn => srv[r] # Nil
    /\ stage[r] = "connect" => r \notin torn   \* no listener yet

LentOut ==
  \A r \in Requests :
    Live(r) => /\ srv[r] \in leased \ (idle \cup closing)
               /\ memory[srv[r]] \in {Nil, r}

Apart == \A r, q \in Requests : Live(r) /\ Live(q) /\ r # q => srv[r] # srv[q]

PoolOK ==
  /\ closing \subseteq leased /\ idle \cap leased = {}
  /\ \A s \in idle : memory[s] = Nil

Custody == HttpTypeOK /\ HasServer /\ LentOut /\ Apart /\ PoolOK /\ WorkIsAbandoned

HttpInv == Custody /\ SlotsAreCounted

-----------------------------------------------------------------------------
(* Who holds what.                                                         *)

LEMMA CustodyInit == HttpInit => Custody
<1> SUFFICES ASSUME HttpInit PROVE Custody
  OBVIOUS
<1>1. PICK s \in Servers : idle = {s}
  BY DEF HttpInit
<1>2. Cardinality(idle) <= MaxInflight
  BY <1>1, FS_Singleton, HttpAssumption
<1>3. \A r \in Requests : ~ Live(r)
  BY DEF HttpInit, Live, Holding
<1> QED
  BY <1>1, <1>2, <1>3 DEF HttpInit, Custody, HttpTypeOK, HasServer, LentOut, Apart, PoolOK,
                          WorkIsAbandoned, Places, Holding

\* The pool takes no more than maxIdle servers.
LEMMA PoolGrows ==
  ASSUME HttpTypeOK, NEW s \in Servers
  PROVE  /\ Cardinality(idle \ {s}) <= MaxInflight
         /\ Cardinality(idle) < MaxInflight => Cardinality(idle \cup {s}) <= MaxInflight
<1>1. IsFiniteSet(idle) /\ Cardinality(idle) \in Nat /\ Cardinality(idle) <= MaxInflight
  BY HttpAssumption, FS_Subset, FS_CardinalityType DEF HttpTypeOK
<1>2. Cardinality(idle \ {s}) = IF s \in idle THEN Cardinality(idle) - 1 ELSE Cardinality(idle)
  BY <1>1, FS_RemoveElement
<1>3. Cardinality(idle \cup {s}) = IF s \in idle THEN Cardinality(idle) ELSE Cardinality(idle) + 1
  BY <1>1, FS_AddElement
<1> QED
  BY <1>1, <1>2, <1>3, HttpAssumption

\* A handler that only moves on, outside its try block.
LEMMA MovesOutside ==
  ASSUME Custody, NEW r \in Requests, stage[r] \notin Holding \cup {"done"},
         NEW place \in {"body", "done"}, Moves(r, place),
         answered' \subseteq Requests,
         UNCHANGED <<gone, inflight, srv, torn, closing, idle, leased, memory, phase>>
  PROVE  Custody'
BY DEF Custody, HttpTypeOK, HasServer, LentOut, Apart, PoolOK, WorkIsAbandoned, Live, Moves,
       Places, Holding

\* A handler that moves on inside its try block.
LEMMA MovesInside ==
  ASSUME Custody, NEW r \in Requests, stage[r] \in Holding,
         NEW place \in Holding \ {"connect"}, Moves(r, place),
         answered' \subseteq Requests,
         UNCHANGED <<gone, inflight, srv, torn, closing, idle, leased, memory, phase>>
  PROVE  Custody'
BY DEF Custody, HttpTypeOK, HasServer, LentOut, Apart, PoolOK, WorkIsAbandoned, Live, Moves,
       Places, Holding

\* The finally block.
LEMMA FinishKeepsCustody ==
  ASSUME Custody, NEW r \in Requests, stage[r] \in Holding, FinishRequest(r),
         answered' \subseteq Requests, UNCHANGED <<gone, srv, idle, leased, memory, phase>>
  PROVE  Custody'
<1>1. /\ torn' = torn \cup {r}
      /\ closing' = IF r \in torn THEN closing ELSE closing \cup {srv[r]}
  BY DEF FinishRequest, TearDown, Custody, HasServer, HttpTypeOK
<1>2. stage' = [stage EXCEPT ![r] = "done"] /\ inflight' \in Int
  BY DEF FinishRequest, Moves, Custody, HttpTypeOK
<1>3. srv[r] \in Servers
  BY DEF Custody, HttpTypeOK, HasServer
<1>4. \A q \in Requests : Live(q)' <=> Live(q) /\ q # r
  BY <1>1, <1>2 DEF Live, Custody, HttpTypeOK, Holding
<1>5. HttpTypeOK'
  BY <1>1, <1>2, <1>3 DEF Custody, HttpTypeOK, Places
<1>6. HasServer' /\ WorkIsAbandoned'
  BY <1>1, <1>2, <1>3 DEF Custody, HttpTypeOK, HasServer, WorkIsAbandoned, Holding
<1>7. LentOut' /\ Apart'
  BY <1>1, <1>4, <1>3 DEF Custody, LentOut, Apart, Live
<1>8. PoolOK'
  BY <1>1, <1>3 DEF Custody, PoolOK, LentOut, Live
<1> QED
  BY <1>5, <1>6, <1>7, <1>8 DEF Custody

\* Sockets that close.
LEMMA HangupKeepsCustody ==
  ASSUME Custody, NEW R \in SUBSET Requests, Hangup(R),
         UNCHANGED <<stage, answered, inflight, srv, idle, leased, memory>>, phase' \in {phase, "forced"}
  PROVE  Custody'
<1> DEFINE Fresh == {r \in R : stage[r] \in Listens /\ srv[r] # Nil /\ r \notin torn}
<1>1. torn' = torn \cup Fresh /\ closing' = closing \cup {srv[r] : r \in Fresh}
  BY DEF Hangup, TearDown
<1>2. \A r \in Fresh : Live(r) /\ stage[r] # "connect" /\ stage[r] # "done"
  BY DEF Live, Listens, Holding
<1>3. \A q \in Requests : Live(q)' <=> Live(q) /\ q \notin Fresh
  BY <1>1 DEF Live
<1>4. HttpTypeOK'
  BY <1>1, <1>2 DEF Custody, HttpTypeOK, Hangup
<1>5. HasServer' /\ WorkIsAbandoned'
  BY <1>1, <1>2 DEF Custody, HasServer, WorkIsAbandoned
<1>6. LentOut' /\ Apart'
  BY <1>1, <1>2, <1>3 DEF Custody, LentOut, Apart
<1>7. PoolOK'
  BY <1>1, <1>2 DEF Custody, PoolOK, LentOut
<1> QED
  BY <1>4, <1>5, <1>6, <1>7 DEF Custody

\* A request is given a server that nobody refers to.
LEMMA AdmitKeepsCustody ==
  ASSUME Custody, NEW r \in Requests, Admit(r)
  PROVE  Custody'
<1>1. PICK s \in Acquirable :
        /\ srv' = [srv EXCEPT ![r] = s]
        /\ idle' = idle \ {s} /\ leased' = leased \cup {s}
        /\ memory' = IF s \in idle THEN memory ELSE [memory EXCEPT ![s] = Nil]
  BY DEF Admit
<1>2. s \in Servers /\ s \notin leased /\ s \notin closing
  BY DEF Acquirable, Unbuilt, Custody, PoolOK, HttpTypeOK
<1>3. stage[r] = "body" /\ stage' = [stage EXCEPT ![r] = "connect"] /\ r \notin torn
      /\ UNCHANGED <<gone, answered, torn, closing, phase>> /\ inflight' = inflight + 1
  BY DEF Admit, At, Moves, Custody, HasServer, Holding
<1>4. \A q \in Requests : Live(q)' <=> Live(q) \/ q = r
  BY <1>3 DEF Live, Custody, HttpTypeOK, Holding
<1>5. \A q \in Requests : Live(q) => srv[q] # s /\ q # r
  BY <1>2, <1>3 DEF Live, Custody, LentOut, Holding
<1>6. memory'[s] = Nil /\ \A x \in Servers \ {s} : memory'[x] = memory[x]
  BY <1>1, <1>2 DEF Custody, PoolOK, HttpTypeOK
<1>7. HttpTypeOK'
  <2>1. Cardinality(idle') <= MaxInflight
    BY <1>1, <1>2, PoolGrows DEF Custody
  <2> QED
    BY <2>1, <1>1, <1>2, <1>3 DEF Custody, HttpTypeOK, Places
<1>8. HasServer' /\ WorkIsAbandoned'
  BY <1>1, <1>2, <1>3, HttpAssumption DEF Custody, HttpTypeOK, HasServer, WorkIsAbandoned, Holding
<1>9. LentOut' /\ Apart'
  <2>1. srv'[r] = s /\ \A q \in Requests \ {r} : srv'[q] = srv[q]
    BY <1>1 DEF Custody, HttpTypeOK
  <2>2. s \in leased' \ (idle' \cup closing')
    BY <1>1, <1>2, <1>3
  <2> QED
    BY <2>1, <2>2, <1>1, <1>3, <1>4, <1>5, <1>6 DEF Custody, LentOut, Apart, Live, HttpTypeOK, HasServer
<1>10. PoolOK'
  BY <1>1, <1>2, <1>3, <1>6 DEF Custody, PoolOK, HttpTypeOK
<1> QED
  BY <1>7, <1>8, <1>9, <1>10 DEF Custody

\* close() settled: no live request holds the server.
LEMMA ReleaseKeepsCustody ==
  ASSUME Custody, NEW s \in Servers, Release(s) \/ CloseFails(s)
  PROVE  Custody'
<1>1. /\ s \in closing /\ closing' = closing \ {s} /\ leased' = leased \ {s}
      /\ UNCHANGED <<stage, gone, answered, inflight, srv, torn, phase>>
  BY DEF Release, CloseFails
<1>2. \/ UNCHANGED <<idle, memory>>
      \/ /\ Cardinality(idle) < MaxInflight /\ idle' = idle \cup {s}
         /\ memory' = [memory EXCEPT ![s] = Nil]
  BY DEF Release, CloseFails
<1>3. \A r \in Requests : (Live(r)' <=> Live(r)) /\ (Live(r) => srv[r] # s)
  BY <1>1 DEF Custody, LentOut, Live
<1>4. HttpTypeOK'
  <2>1. Cardinality(idle') <= MaxInflight
    BY <1>2, PoolGrows DEF Custody, HttpTypeOK
  <2> QED
    BY <2>1, <1>1, <1>2 DEF Custody, HttpTypeOK
<1>5. HasServer' /\ WorkIsAbandoned'
  BY <1>1 DEF Custody, HasServer, WorkIsAbandoned
<1>6. LentOut' /\ Apart'
  BY <1>1, <1>2, <1>3 DEF Custody, LentOut, Apart, HttpTypeOK
<1>7. PoolOK'
  BY <1>1, <1>2 DEF Custody, PoolOK, HttpTypeOK
<1> QED
  BY <1>4, <1>5, <1>6, <1>7 DEF Custody

LEMMA CustodyStep == Custody /\ [HttpNext]_httpVars => Custody'
<1> SUFFICES ASSUME Custody, [HttpNext]_httpVars PROVE Custody'
  OBVIOUS
<1> USE DEF At
<1> answered \subseteq Requests /\ \A r \in Requests : Says(r) => answered' \subseteq Requests
  BY DEF Custody, HttpTypeOK, Says
<1>1. ASSUME NEW r \in Requests,
             Arrive(r) \/ BodyFails(r) \/ BadMessage(r) \/ Busy(r) \/ FactoryFails(r)
      PROVE  Custody'
  <2>1. CASE Arrive(r)
    BY <2>1, MovesOutside DEF Arrive, Holding
  <2>2. CASE BodyFails(r) \/ BadMessage(r) \/ Busy(r) \/ FactoryFails(r)
    BY <2>2, MovesOutside DEF BodyFails, BadMessage, Busy, FactoryFails, Holding
  <2> QED
    BY <1>1, <2>1, <2>2
<1>2. ASSUME NEW r \in Requests, Admit(r) PROVE Custody'
  BY <1>2, AdmitKeepsCustody
<1>3. ASSUME NEW r \in Requests, Connected(r) PROVE Custody'
  <2>1. Live(r) /\ stage' = [stage EXCEPT ![r] = "working"] /\ srv[r] \in Servers
    BY <1>3 DEF Connected, Moves, Live, Custody, HasServer, HttpTypeOK, Holding
  <2>2. \A q \in Requests : Live(q)' <=> Live(q)
    BY <1>3, <2>1 DEF Connected, Live, Custody, HttpTypeOK, Holding
  <2>3. HttpTypeOK' /\ HasServer' /\ WorkIsAbandoned' /\ Apart'
    BY <1>3, <2>1, <2>2 DEF Connected, Custody, HttpTypeOK, HasServer, WorkIsAbandoned, Apart, Places, Holding
  <2>4. LentOut' /\ PoolOK'
    BY <1>3, <2>1, <2>2 DEF Connected, Custody, HttpTypeOK, LentOut, PoolOK, Apart
  <2> QED
    BY <2>3, <2>4 DEF Custody
<1>4. ASSUME NEW r \in Requests, ConnectFails(r) \/ Throws(r) \/ RequestTimesOut(r) \/ BodyEnds(r)
      PROVE  Custody'
  BY <1>4, FinishKeepsCustody DEF ConnectFails, Throws, RequestTimesOut, BodyEnds, Holding
<1>5. ASSUME NEW r \in Requests, Responds(r) PROVE Custody'
  BY <1>5, FinishKeepsCustody, MovesInside DEF Responds, Holding
<1>6. ASSUME NEW r \in Requests, Blocks(r) \/ Drains(r) PROVE Custody'
  BY <1>6, MovesInside DEF Blocks, Drains, Holding
<1>7. ASSUME NEW r \in Requests, Flushed(r) PROVE Custody'
  <2>1. /\ stage[r] = "done" /\ stage' = [stage EXCEPT ![r] = "closed"]
        /\ srv' = [srv EXCEPT ![r] = Nil] /\ torn' = torn \ {r}
        /\ UNCHANGED <<inflight, closing, idle, leased, memory, phase>>
    BY <1>7 DEF Flushed, Moves
  <2>2. \A q \in Requests : (Live(q)' <=> Live(q)) /\ (Live(q) => srv'[q] = srv[q])
    BY <2>1 DEF Live, Custody, HttpTypeOK, Holding
  <2>3. HttpTypeOK' /\ HasServer' /\ WorkIsAbandoned'
    BY <1>7, <2>1 DEF Flushed, Custody, HttpTypeOK, HasServer, WorkIsAbandoned, Places, Holding
  <2>4. LentOut' /\ PoolOK' /\ Apart'
    BY <2>1, <2>2 DEF Custody, LentOut, PoolOK, Apart
  <2> QED
    BY <2>3, <2>4 DEF Custody
<1>8. ASSUME NEW r \in Requests, ClientGoes(r) PROVE Custody'
  BY <1>8, HangupKeepsCustody DEF ClientGoes
<1>9. ASSUME NEW s \in Servers, Release(s) \/ CloseFails(s) PROVE Custody'
  BY <1>9, ReleaseKeepsCustody
<1>10. CASE HangupAll
  <2>1. PICK R \in SUBSET Requests : Hangup(R)
    BY <1>10 DEF HangupAll, OpenSockets
  <2> QED
    BY <1>10, <2>1, HangupKeepsCustody DEF HangupAll
<1>11. CASE Stop \/ Exit \/ UNCHANGED httpVars
  <2>1. /\ UNCHANGED <<stage, gone, answered, inflight, srv, torn, closing, idle, leased, memory>>
        /\ phase' \in {phase, "draining", "down"}
    BY <1>11 DEF Stop, Exit, httpVars
  <2>2. HttpTypeOK'
    BY <2>1 DEF Custody, HttpTypeOK
  <2> QED
    BY <2>1, <2>2 DEF Custody, HasServer, LentOut, Apart, PoolOK, WorkIsAbandoned, Live
<1> QED
  BY <1>1, <1>2, <1>3, <1>4, <1>5, <1>6, <1>7, <1>8, <1>9, <1>10, <1>11
     DEF HttpNext, HandlerStep
-----------------------------------------------------------------------------
(* The slots.                                                              *)

\* What the handler's place says of the requests inside the try block.
LEMMA HeldMoves ==
  ASSUME Custody, NEW r \in Requests, NEW place \in Places, Moves(r, place)
  PROVE  /\ Held \in SUBSET Requests /\ Held' \in SUBSET Requests
         /\ Held' = IF place \in Holding THEN Held \cup {r} ELSE Held \ {r}
         /\ r \in Held <=> stage[r] \in Holding
BY DEF Moves, Held, Custody, HttpTypeOK

\* A handler enters or leaves the try block, and counts itself.
LEMMA HeldCounted ==
  ASSUME Custody, SlotsAreCounted, NEW r \in Requests, NEW place \in Places, Moves(r, place),
         inflight' = inflight + (IF place \in Holding THEN 1 ELSE 0)
                              - (IF stage[r] \in Holding THEN 1 ELSE 0)
  PROVE  inflight' = Cardinality(Held')
<1>1. Held \in SUBSET Requests /\ IsFiniteSet(Held) /\ Cardinality(Held) \in Nat
  BY HeldMoves, HttpAssumption, FS_Subset, FS_CardinalityType
<1>2. Cardinality(Held \cup {r}) = IF r \in Held THEN Cardinality(Held) ELSE Cardinality(Held) + 1
  BY <1>1, FS_AddElement
<1>3. Cardinality(Held \ {r}) = IF r \in Held THEN Cardinality(Held) - 1 ELSE Cardinality(Held)
  BY <1>1, FS_RemoveElement
<1>4. inflight = Cardinality(Held)
  BY DEF SlotsAreCounted
<1>5. r \in Held <=> stage[r] \in Holding
  BY HeldMoves
<1>6. CASE place \in Holding
  <2>1. Held' = Held \cup {r}
    BY <1>6, HeldMoves
  <2> QED
    BY <1>1, <1>2, <1>4, <1>5, <1>6, <2>1
<1>7. CASE place \notin Holding
  <2>1. Held' = Held \ {r}
    BY <1>7, HeldMoves
  <2> QED
    BY <1>1, <1>3, <1>4, <1>5, <1>7, <2>1
<1> QED
  BY <1>6, <1>7

LEMMA SlotsStep == HttpInv /\ [HttpNext]_httpVars => SlotsAreCounted'
<1> SUFFICES ASSUME Custody, SlotsAreCounted, [HttpNext]_httpVars PROVE SlotsAreCounted'
  BY DEF HttpInv
<1> USE DEF At
<1> inflight \in Int /\ inflight <= MaxInflight /\ MaxInflight \in Nat
  BY HttpAssumption DEF Custody, HttpTypeOK, SlotsAreCounted
<1> \A r \in Requests : stage[r] \in Places
  BY DEF Custody, HttpTypeOK
<1>1. ASSUME NEW r \in Requests, NEW place \in {"body", "done", "closed"}, stage[r] \notin Holding,
             Moves(r, place), UNCHANGED inflight
      PROVE  SlotsAreCounted'
  BY <1>1, HeldCounted DEF SlotsAreCounted, Places, Holding
<1>2. ASSUME NEW r \in Requests, NEW place \in Holding, stage[r] \in Holding,
             Moves(r, place), UNCHANGED inflight
      PROVE  SlotsAreCounted'
  BY <1>2, HeldCounted DEF SlotsAreCounted, Places, Holding
<1>3. ASSUME NEW r \in Requests, stage[r] \in Holding, FinishRequest(r) PROVE SlotsAreCounted'
  BY <1>3, HeldCounted DEF SlotsAreCounted, FinishRequest, Places, Holding
<1>4. ASSUME UNCHANGED <<stage, inflight>> PROVE SlotsAreCounted'
  BY <1>4 DEF SlotsAreCounted, Held
<1>5. ASSUME NEW r \in Requests, Admit(r) PROVE SlotsAreCounted'
  BY <1>5, HeldCounted DEF Admit, SlotsAreCounted, Places, Holding
<1>6. ASSUME NEW r \in Requests,
             \/ Arrive(r) \/ BodyFails(r) \/ BadMessage(r) \/ Busy(r) \/ FactoryFails(r)
             \/ Flushed(r)
      PROVE  SlotsAreCounted'
  BY <1>6, <1>1 DEF Arrive, BodyFails, BadMessage, Busy, FactoryFails, Flushed, Holding
<1>7. ASSUME NEW r \in Requests, Connected(r) \/ Blocks(r) \/ Drains(r) PROVE SlotsAreCounted'
  BY <1>7, <1>2 DEF Connected, Blocks, Drains, Holding
<1>8. ASSUME NEW r \in Requests, ConnectFails(r) \/ Throws(r) \/ RequestTimesOut(r) \/ BodyEnds(r)
      PROVE  SlotsAreCounted'
  BY <1>8, <1>3 DEF ConnectFails, Throws, RequestTimesOut, BodyEnds, Holding
<1>9. ASSUME NEW r \in Requests, Responds(r) PROVE SlotsAreCounted'
  BY <1>9, <1>2, <1>3 DEF Responds, Holding
<1>10. ASSUME \/ \E r \in Requests : ClientGoes(r)
              \/ \E s \in Servers : Release(s) \/ CloseFails(s)
              \/ Stop \/ HangupAll \/ Exit \/ UNCHANGED httpVars
       PROVE  SlotsAreCounted'
  BY <1>10, <1>4 DEF ClientGoes, Release, CloseFails, Stop, HangupAll, Exit, httpVars
<1> QED
  BY <1>5, <1>6, <1>7, <1>8, <1>9, <1>10 DEF HttpNext, HandlerStep

\* Custody and the count of the slots are inductive together.
THEOREM SlotsCounted == HttpSpec => []HttpInv
<1>1. HttpInit => HttpInv
  <2> SUFFICES ASSUME HttpInit PROVE SlotsAreCounted
    BY CustodyInit DEF HttpInv
  <2>1. Held = {}
    BY DEF HttpInit, Held, Holding
  <2> QED
    BY <2>1, FS_EmptySet, HttpAssumption DEF HttpInit, SlotsAreCounted
<1>2. HttpInv /\ [HttpNext]_httpVars => HttpInv'
  BY CustodyStep, SlotsStep DEF HttpInv
<1> QED
  BY <1>1, <1>2, PTL DEF HttpSpec

-----------------------------------------------------------------------------
(* What it says of the transport.                                          *)

\* The variables keep their types, and the pool its limit.
THEOREM HttpTypeCorrect == HttpSpec => []HttpTypeOK
BY SlotsCounted, PTL DEF HttpInv, Custody

\* inflight counts the requests in the try block, at most maxInflight of them.
THEOREM SlotsHold == HttpSpec => []SlotsAreCounted
BY SlotsCounted, PTL DEF HttpInv

\* A server serves one request at a time, and is neither pooled nor closing.
THEOREM ServersAreExclusive == HttpSpec => []OneRequestPerServer
<1>1. HttpInv => OneRequestPerServer
  <2> SUFFICES ASSUME HttpInv, NEW s \in Servers
               PROVE  /\ Cardinality(Serves(s)) <= 1
                      /\ Serves(s) # {} => s \in leased \ (idle \cup closing)
    BY DEF OneRequestPerServer
  <2>1. \A r \in Serves(s) : r \in Requests /\ Live(r) /\ srv[r] = s
    BY DEF Serves, Live
  <2>2. \A r, q \in Serves(s) : r = q
    BY <2>1 DEF HttpInv, Custody, Apart
  <2>3. CASE Serves(s) = {}
    BY <2>3, FS_EmptySet
  <2>4. ASSUME NEW r \in Serves(s) PROVE Cardinality(Serves(s)) <= 1
    <3>1. Serves(s) = {r}
      BY <2>2, <2>4
    <3> QED
      BY <3>1, FS_Singleton
  <2> QED
    BY <2>1, <2>3, <2>4 DEF HttpInv, Custody, LentOut
<1> QED
  BY <1>1, SlotsCounted, PTL

\* No request meets a server that remembers another request's client.
THEOREM ClientsStayApart == HttpSpec => []NoForeignMemory
<1>1. HttpInv => NoForeignMemory
  BY DEF HttpInv, Custody, LentOut, NoForeignMemory, Live
<1> QED
  BY <1>1, SlotsCounted, PTL

\* A handler that has returned has torn its server down.
THEOREM HandlersTearDown == HttpSpec => []WorkIsAbandoned
BY SlotsCounted, PTL DEF HttpInv, Custody

-----------------------------------------------------------------------------
(* The limiter: the order of the Map.                                      *)

OrderOK ==
  /\ \A j \in present : newer[j] \subseteq present \ {j}
  /\ \A i, j \in present : i # j => i \in newer[j] \/ j \in newer[i]
  /\ \A i, j \in present : i \in newer[j] => newer[i] \subseteq newer[j]

\* Of what a sweep has left, one key is the oldest: the numbers of the keys
\* inserted after each are all different, so one of them is the greatest possible.
LEMMA OldestExists ==
  ASSUME BucketTypeOK, OrderOK, Kept # {}
  PROVE  \E j \in Kept : Kept \ {j} \subseteq newer[j]
<1> DEFINE n == Cardinality(Kept)
           After(j) == newer[j] \cap Kept
           f == [j \in Kept |-> Cardinality(After(j))]
<1>1. Kept \subseteq present /\ IsFiniteSet(Kept) /\ n \in Nat /\ n # 0
  BY BucketAssumption, FS_Subset, FS_CardinalityType, FS_EmptySet DEF Kept, BucketTypeOK
<1>2. ASSUME NEW j \in Kept
      PROVE  /\ IsFiniteSet(After(j)) /\ Cardinality(After(j)) \in 0..n - 1
             /\ Cardinality(After(j)) = n - 1 => After(j) = Kept \ {j}
  <2>1. IsFiniteSet(Kept \ {j}) /\ Cardinality(Kept \ {j}) = n - 1
    BY <1>1, <1>2, FS_RemoveElement
  <2>2. After(j) \in SUBSET (Kept \ {j})
    BY <1>1 DEF OrderOK
  <2>3. /\ IsFiniteSet(After(j)) /\ Cardinality(After(j)) <= n - 1
        /\ n - 1 = Cardinality(After(j)) => Kept \ {j} = After(j)
    BY <2>1, <2>2, FS_Subset
  <2>4. Cardinality(After(j)) \in Nat
    BY <2>3, FS_CardinalityType
  <2> QED
    BY <1>1, <2>3, <2>4
<1>3. ASSUME NEW i \in Kept, NEW j \in Kept, i \in newer[j]
      PROVE  Cardinality(After(i)) # Cardinality(After(j))
  <2>1. After(i) \in SUBSET After(j) /\ i \in After(j) /\ i \notin After(i)
    BY <1>1, <1>3 DEF OrderOK
  <2> QED
    BY <1>2, <2>1, FS_Subset
<1>4. f \in Injection(Kept, 0..n - 1)
  <2>1. f \in [Kept -> 0..n - 1]
    BY <1>2
  <2>2. \A i, j \in Kept : f[i] = f[j] => i = j
    BY <1>1, <1>3 DEF OrderOK
  <2> QED
    BY <2>1, <2>2, Fun_IsInj
<1>5. IsFiniteSet(0..n - 1) /\ Cardinality(0..n - 1) = n
  BY <1>1, FS_Interval
<1>6. f \in Surjection(Kept, 0..n - 1)
  BY <1>4, <1>5, FS_Injection
<1>7. PICK j \in Kept : f[j] = n - 1
  <2>1. n - 1 \in 0..n - 1
    BY <1>1
  <2>2. \A m \in 0..n - 1 : \E j \in Kept : f[j] = m
    <3> HIDE DEF f
    <3> QED
      BY <1>6, Fun_SurjectionProperties
  <2> QED
    BY <2>1, <2>2
<1> QED
  BY <1>2, <1>7

LEMMA TakeKeepsOrder ==
  ASSUME BucketTypeOK, OrderOK, NEW k \in Keys, TakeToken(k)
  PROVE  OrderOK' /\ present' \subseteq Keys /\ newer' \in [Keys -> SUBSET Keys]
<1>1. /\ present' \subseteq Keys /\ k \in present'
      /\ \A j \in present' : j = k \/ j \in present
  BY DEF TakeToken, Kept, Evicted, BucketTypeOK
<1>2. newer' = [j \in Keys |-> IF j = k \/ j \notin present' THEN {}
                               ELSE (newer[j] \cap present') \cup {k}]
  BY DEF TakeToken, MovesToEnd
<1> QED
  BY <1>1, <1>2 DEF OrderOK, BucketTypeOK

\* The Map is never larger than maxKeys.
LEMMA TakeKeepsSize ==
  ASSUME BucketTypeOK, OrderOK, NEW k \in Keys, TakeToken(k)
  PROVE  Cardinality(present') <= MaxKeys
<1>1. /\ Kept \subseteq present /\ IsFiniteSet(Kept) /\ Cardinality(Kept) \in Nat
      /\ Cardinality(Kept) <= MaxKeys /\ MaxKeys \in Nat \ {0}
  <2>1. IsFiniteSet(present) /\ Cardinality(present) \in Nat
    BY BucketAssumption, FS_Subset, FS_CardinalityType DEF BucketTypeOK
  <2>2. Kept \in SUBSET present
    BY DEF Kept
  <2>3. IsFiniteSet(Kept) /\ Cardinality(Kept) <= Cardinality(present) /\ Cardinality(Kept) \in Nat
    BY <2>1, <2>2, FS_Subset, FS_CardinalityType
  <2> QED
    BY <2>1, <2>2, <2>3, BucketAssumption DEF BucketTypeOK
<1>2. present' = (Kept \ Evicted(k)) \cup {k}
  BY DEF TakeToken
<1>3. CASE k \in Kept
  BY <1>1, <1>2, <1>3 DEF Evicted
<1>4. CASE k \notin Kept /\ Cardinality(Kept) < MaxKeys
  <2>1. present' = Kept \cup {k}
    BY <1>2, <1>1, <1>4 DEF Evicted
  <2> QED
    BY <2>1, <1>1, <1>4, FS_AddElement
<1>5. CASE k \notin Kept /\ Cardinality(Kept) >= MaxKeys
  <2>1. Kept # {}
    BY <1>1, <1>5, FS_EmptySet
  <2>2. PICK j \in Kept : j \in Evicted(k)
    BY <2>1, <1>5, OldestExists DEF Evicted
  <2>3. IsFiniteSet(Kept \ {j}) /\ Cardinality(Kept \ {j}) = Cardinality(Kept) - 1
    BY <1>1, FS_RemoveElement
  <2>4. IsFiniteSet((Kept \ {j}) \cup {k}) /\ Cardinality((Kept \ {j}) \cup {k}) = Cardinality(Kept)
    <3>1. k \notin Kept \ {j}
      BY <1>5
    <3>2. /\ IsFiniteSet((Kept \ {j}) \cup {k})
          /\ Cardinality((Kept \ {j}) \cup {k}) = Cardinality(Kept \ {j}) + 1
      BY <2>3, <3>1, FS_AddElement
    <3> QED
      BY <1>1, <2>3, <3>2
  <2>5. present' \in SUBSET ((Kept \ {j}) \cup {k})
    BY <1>2, <2>2
  <2>6. Cardinality(present') <= Cardinality((Kept \ {j}) \cup {k}) /\ IsFiniteSet(present')
    BY <2>4, <2>5, FS_Subset
  <2>7. Cardinality(present') \in Nat
    BY <2>6, FS_CardinalityType
  <2> QED
    BY <1>1, <2>4, <2>6, <2>7
<1> QED
  BY <1>1, <1>3, <1>4, <1>5

-----------------------------------------------------------------------------
(* The limiter: what a client has, and what it was told.                   *)

\* What an observed client was granted and what it has left is what it had.
GrantsOK ==
  /\ watch.since <= clock
  /\ watch.granted * Cost <= Full + (clock - watch.since) * Rate
  /\ watch.granted * Cost + Allowance(watch.key) <= Full + (clock - watch.since) * Rate

\* When it is told to come back, there is a token in its bucket, if it has one.
DueOK ==
  watch.due # Never /\ watch.key \in present
    => tokens[watch.key] + (watch.due - updated[watch.key]) * Rate >= Cost

\* Nobody is newer in the Map than the observed client but who called since.
OthersOK == watch.key \in present => newer[watch.key] \subseteq watch.others

WatchOK ==
  watch \in [key : Keys, since : Nat, granted : Nat, due : Nat \cup {Never}, others : SUBSET Keys]

BucketInv == BucketTypeOK /\ WatchOK /\ OrderOK /\ GrantsOK /\ DueOK /\ OthersOK

\* The products that the proofs are about.
LEMMA FullType == Full \in Nat /\ Full >= Cost
<1> DEFINE rest == (Burst - 1) * Cost
<1>1. Cost \in Nat /\ rest \in Nat /\ Full = Cost + rest
  BY BucketAssumption DEF Full
<1> HIDE DEF rest
<1> QED
  BY <1>1

LEMMA CostTimes ==
  ASSUME NEW m \in Int
  PROVE  m * Cost \in Int /\ (m + 1) * Cost = m * Cost + Cost
BY BucketAssumption

LEMMA RateTimes ==
  ASSUME NEW m \in Int, NEW n \in Int
  PROVE  /\ m * Rate \in Int
         /\ (m + n) * Rate = m * Rate + n * Rate
         /\ m <= n => m * Rate <= n * Rate
<1>1. Rate \in Nat
  BY BucketAssumption
<1>2. m * Rate \in Int /\ n * Rate \in Int /\ (m + n) * Rate = m * Rate + n * Rate
  BY <1>1
<1>3. ASSUME m <= n PROVE m * Rate <= n * Rate
  <2> DEFINE a == m * Rate
             c == (n - m) * Rate
  <2>1. a \in Int /\ c \in Nat /\ n * Rate = a + c
    BY <1>1, <1>3
  <2>2. a <= a + c
    <3> HIDE DEF a, c
    <3> QED
      BY <2>1
  <2> QED
    BY <2>1, <2>2, Zenon
<1> QED
  BY <1>2, <1>3

\* A client finds in its bucket what the buckets say it has: sweeping a full
\* bucket and making a full one cancel out.
LEMMA HaveIsAllowance ==
  ASSUME BucketTypeOK, NEW k \in Keys
  PROVE  /\ Have(k) = Allowance(k) /\ Have(k) \in Int /\ Have(k) <= Full
         /\ Refilled(k) \in Int
<1>1. Full \in Int /\ Refilled(k) \in Int
  BY FullType, RateTimes, BucketAssumption DEF Refilled, BucketTypeOK
<1> QED
  BY <1>1 DEF Have, Allowance, Kept, Swept, Smaller

\* Wait() is whole seconds, at least one, after which there is a token, and one
\* less would be too few.
LEMMA WaitIsHonest ==
  ASSUME NEW have \in Int, have < Cost
  PROVE  /\ Wait(have) \in Nat \ {0}
         /\ have + Wait(have) * (Rate * Second) >= Cost
         /\ have + (Wait(have) - 1) * (Rate * Second) < Cost
<1> DEFINE d == Rate * Second
           n == Cost - have
           w == (n + d - 1) \div d
<1>1. d \in Nat \ {0} /\ n \in Nat \ {0}
  BY BucketAssumption
<1>2. w \in Int /\ d * w <= n + d - 1 /\ n + d - 1 < d * (w + 1)
  BY <1>1
<1>3. Wait(have) = w
  BY DEF Wait
<1>4. w >= 1
  <2> SUFFICES ASSUME w + 1 <= 1 PROVE FALSE
    BY <1>2
  <2>1. d * (w + 1) <= d
    BY <1>1, <1>2
  <2>2. d \in Int /\ n \in Int /\ d * (w + 1) \in Int /\ n >= 1
    BY <1>1, <1>2
  <2> HIDE DEF d, n, w
  <2> QED
    BY <1>2, <2>1, <2>2
<1> QED
  BY <1>1, <1>2, <1>3, <1>4, BucketAssumption

\* What take() does, seen from outside: a token goes if there is one, and
\* nobody else's allowance shrinks.
LEMMA TakeAllowances ==
  ASSUME BucketInv, NEW k \in Keys, TakeToken(k)
  PROVE  /\ k \in present' /\ updated'[k] = clock /\ updated' \in [Keys -> Nat]
         /\ tokens' \in [Keys -> Int]
         /\ tokens'[k] = IF Allowance(k) >= Cost THEN Allowance(k) - Cost ELSE Allowance(k)
         /\ answer' = IF Allowance(k) >= Cost THEN [allowed |-> TRUE, retry |-> 0]
                      ELSE [allowed |-> FALSE, retry |-> Wait(Allowance(k))]
         /\ Allowance(k)' = tokens'[k]
         /\ \A j \in Keys \ {k} :
              /\ j \in present' => j \in present /\ tokens'[j] = tokens[j] /\ updated'[j] = updated[j]
              /\ Allowance(j)' = IF j \in Evicted(k) THEN Full ELSE Allowance(j)
<1>1. /\ present' = (Kept \ Evicted(k)) \cup {k} /\ clock' = clock
      /\ IF Have(k) >= Cost
         THEN Stores(k, Have(k) - Cost) /\ answer' = [allowed |-> TRUE, retry |-> 0]
         ELSE Stores(k, Have(k)) /\ answer' = [allowed |-> FALSE, retry |-> Wait(Have(k))]
  BY DEF TakeToken
<1>2. Have(k) = Allowance(k) /\ Have(k) \in Int /\ Have(k) <= Full /\ Full \in Nat /\ Cost \in Nat
  BY HaveIsAllowance, FullType, BucketAssumption DEF BucketInv
<1>3. /\ tokens'[k] = IF Allowance(k) >= Cost THEN Allowance(k) - Cost ELSE Allowance(k)
      /\ answer' = IF Allowance(k) >= Cost THEN [allowed |-> TRUE, retry |-> 0]
                   ELSE [allowed |-> FALSE, retry |-> Wait(Allowance(k))]
      /\ updated'[k] = clock
  BY <1>1, <1>2 DEF Stores
<1>4. updated' \in [Keys -> Nat] /\ tokens' \in [Keys -> Int]
  BY <1>1, <1>2 DEF Stores, BucketInv, BucketTypeOK
<1>5. Allowance(k)' = tokens'[k]
  <2>1. k \in present' /\ Refilled(k)' = tokens'[k]
    BY <1>1, <1>3, <1>4, BucketAssumption DEF Refilled, BucketInv, BucketTypeOK
  <2>2. tokens'[k] \in Int /\ tokens'[k] <= Full
    BY <1>2, <1>3
  <2>3. Full' = Full
    BY DEF Full
  <2> QED
    BY <2>1, <2>2, <2>3, <1>2 DEF Allowance, Smaller
<1>6. ASSUME NEW j \in Keys \ {k}
      PROVE  /\ j \in present' => j \in present /\ tokens'[j] = tokens[j] /\ updated'[j] = updated[j]
             /\ Allowance(j)' = IF j \in Evicted(k) THEN Full ELSE Allowance(j)
  <2>1. j \in present' <=> j \in Kept /\ j \notin Evicted(k)
    BY <1>1
  <2>2. Evicted(k) \subseteq Kept /\ Kept \subseteq present
    BY DEF Evicted, Kept
  <2>3. j \in present' => tokens'[j] = tokens[j] /\ updated'[j] = updated[j]
    BY <1>1 DEF Stores
  <2>4. Allowance(j) = Have(j)
    BY HaveIsAllowance DEF BucketInv
  <2>5. CASE j \in present'
    <3>1. Allowance(j)' = Allowance(j)
      BY <2>1, <2>2, <2>3, <2>5, <1>1 DEF Allowance, Refilled, Full, Smaller
    <3> QED
      BY <2>1, <2>2, <2>3, <2>5, <3>1
  <2>6. CASE j \notin present'
    BY <2>1, <2>4, <2>6 DEF Allowance, Have, Full
  <2> QED
    BY <2>5, <2>6
<1> QED
  BY <1>1, <1>3, <1>4, <1>5, <1>6

\* Allowances are whole numbers of units, and at most a full bucket.
LEMMA AllowanceType ==
  ASSUME BucketTypeOK, NEW k \in Keys
  PROVE  Allowance(k) \in Int /\ Allowance(k) <= Full
BY HaveIsAllowance, FullType DEF Allowance, Smaller

LEMMA TakeKeepsTypes ==
  ASSUME BucketInv, NEW k \in Keys, TakeToken(k)
  PROVE  BucketTypeOK' /\ WatchOK' /\ OrderOK'
<1>1. present' \subseteq Keys /\ newer' \in [Keys -> SUBSET Keys] /\ OrderOK'
      /\ Cardinality(present') <= MaxKeys
  BY TakeKeepsOrder, TakeKeepsSize DEF BucketInv
<1>2. tokens' \in [Keys -> Int] /\ updated' \in [Keys -> Nat]
  BY TakeAllowances
<1>3. Allowance(k) \in Int /\ Cost \in Int
  BY AllowanceType, BucketAssumption DEF BucketInv
<1>4. answer'.allowed \in BOOLEAN /\ answer'.retry \in Nat
  <2>1. CASE Allowance(k) >= Cost
    <3>1. answer' = [allowed |-> TRUE, retry |-> 0]
      BY <2>1, TakeAllowances
    <3> QED
      BY <3>1
  <2>2. CASE Allowance(k) < Cost
    <3>1. Wait(Allowance(k)) \in Nat
      BY <1>3, <2>2, WaitIsHonest
    <3>2. answer' = [allowed |-> FALSE, retry |-> Wait(Allowance(k))]
      BY <1>3, <2>2, TakeAllowances
    <3> QED
      BY <3>1, <3>2
  <2> QED
    BY <1>3, <2>1, <2>2
<1>5. clock \in Nat /\ clock' = clock /\ lastSweep' \in Nat
  BY DEF TakeToken, BucketInv, BucketTypeOK
<1>6. WatchOK'
  <2>1. clock + Second * answer'.retry \in Nat
    BY <1>4, <1>5, BucketAssumption
  <2> DEFINE due == IF answer'.allowed THEN Never ELSE clock + Second * answer'.retry
  <2>2. due \in Nat \cup {Never}
    BY <2>1
  <2>3. CASE k = watch.key
    <3>1. watch' = [watch EXCEPT !.granted = IF answer'.allowed THEN @ + 1 ELSE @,
                                 !.due = due, !.others = {}]
      BY <2>3 DEF TakeToken, Watches
    <3>2. (IF answer'.allowed THEN watch.granted + 1 ELSE watch.granted) \in Nat
      BY DEF WatchOK, BucketInv
    <3> HIDE DEF due
    <3> QED
      BY <2>2, <3>1, <3>2 DEF WatchOK, BucketInv
  <2>4. CASE k # watch.key
    BY <2>4, <1>5 DEF TakeToken, Watches, Observer, WatchOK, BucketInv
  <2> QED
    BY <2>3, <2>4
<1>7. /\ watch'.key \in Keys /\ watch'.since \in Nat /\ watch'.granted \in Nat
      /\ watch'.due \in Nat \cup {Never} /\ watch'.others \subseteq Keys
  BY <1>6 DEF WatchOK
<1> QED
  BY <1>1, <1>2, <1>4, <1>5, <1>6, <1>7 DEF BucketTypeOK

-----------------------------------------------------------------------------
(* The limiter: each kind of step.                                         *)

LEMMA TakeKeepsGrants ==
  ASSUME BucketInv, NEW k \in Keys, TakeToken(k)
  PROVE  GrantsOK'
<1> DEFINE kept == watch.granted * Cost
           gained == (clock - watch.since) * Rate
<1>1. /\ watch.granted \in Nat /\ watch.since \in Nat /\ clock \in Nat /\ watch.key \in Keys
      /\ watch.since <= clock /\ clock' = clock
  BY DEF BucketInv, WatchOK, BucketTypeOK, GrantsOK, TakeToken
<1>2. kept \in Int /\ gained \in Int /\ gained >= 0 /\ Full \in Nat /\ Full' = Full
      /\ (watch.granted + 1) * Cost = kept + Cost /\ 0 * Cost = 0 /\ (clock - clock) * Rate = 0
      /\ Cost \in Nat
  <2>1. (clock - watch.since) * Rate \in Nat
    BY <1>1, BucketAssumption
  <2>2. 0 * Cost = 0 /\ (clock - clock) * Rate = 0 /\ Cost \in Nat
    BY <1>1, BucketAssumption
  <2> QED
    BY <1>1, <2>1, <2>2, FullType, CostTimes DEF Full
<1>3. kept <= Full + gained /\ kept + Allowance(watch.key) <= Full + gained
  BY DEF BucketInv, GrantsOK
<1>4. Allowance(watch.key) \in Int /\ Allowance(watch.key) <= Full
  BY <1>1, AllowanceType DEF BucketInv
<1>5. CASE k = watch.key
  <2>1. watch'.key = watch.key /\ watch'.since = watch.since
        /\ watch'.granted = IF answer'.allowed THEN watch.granted + 1 ELSE watch.granted
    BY <1>5 DEF TakeToken, Watches, BucketInv, WatchOK
  <2>2. CASE Allowance(k) >= Cost
    <3>1. answer'.allowed /\ Allowance(k)' = Allowance(k) - Cost
      BY <2>2, TakeAllowances
    <3>2. watch'.granted * Cost = kept + Cost
      BY <2>1, <3>1, <1>2
    <3> HIDE DEF kept, gained
    <3>3. kept + Cost <= Full + gained
      BY <1>2, <1>3, <1>4, <1>5, <2>2
    <3>4. kept + Cost + (Allowance(watch.key) - Cost) <= Full + gained
      BY <1>2, <1>3, <1>4
    <3>5. watch'.key = k /\ (clock' - watch'.since) * Rate = gained
      BY <1>1, <1>5, <2>1 DEF gained
    <3> QED
      BY <1>1, <1>2, <1>5, <2>1, <3>1, <3>2, <3>3, <3>4, <3>5 DEF GrantsOK
  <2>3. CASE ~ Allowance(k) >= Cost
    <3>1. ~ answer'.allowed /\ Allowance(k)' = Allowance(k)
      BY <2>3, TakeAllowances
    <3> QED
      BY <1>1, <1>2, <1>3, <1>5, <2>1, <3>1 DEF GrantsOK
  <2> QED
    BY <2>2, <2>3
<1>6. CASE k # watch.key /\ watch.key \in Evicted(k)
  <2> PICK w \in Keys : w = watch.key
    BY <1>1
  <2>1. watch' = Observer(w, clock) /\ Allowance(w)' = Full
    BY <1>1, <1>6, TakeAllowances DEF TakeToken, Watches
  <2>2. watch'.granted = 0 /\ watch'.since = clock /\ watch'.key = w
    BY <2>1 DEF Observer
  <2> QED
    BY <1>1, <1>2, <2>1, <2>2 DEF GrantsOK
<1>7. CASE k # watch.key /\ watch.key \notin Evicted(k)
  <2> PICK w \in Keys : w = watch.key
    BY <1>1
  <2>1. watch'.key = w /\ watch'.since = watch.since /\ watch'.granted = watch.granted
    BY <1>7 DEF TakeToken, Watches, BucketInv, WatchOK
  <2>2. Allowance(w)' = Allowance(w)
    BY <1>1, <1>7, TakeAllowances
  <2> QED
    BY <1>1, <1>2, <1>3, <2>1, <2>2 DEF GrantsOK
<1> QED
  BY <1>5, <1>6, <1>7

LEMMA TakeKeepsDue ==
  ASSUME BucketInv, NEW k \in Keys, TakeToken(k)
  PROVE  DueOK' /\ OthersOK'
<1>1. watch.key \in Keys
  BY DEF BucketInv, WatchOK
<1>2. CASE k = watch.key
  <2>1. watch'.key = k /\ watch'.others = {}
        /\ watch'.due = IF answer'.allowed THEN Never ELSE clock + Second * answer'.retry
    BY <1>2 DEF TakeToken, Watches, BucketInv, WatchOK
  <2>2. newer'[k] = {}
    BY DEF TakeToken, MovesToEnd
  <2>3. ASSUME watch'.due # Never
        PROVE  tokens'[k] + (watch'.due - updated'[k]) * Rate >= Cost
    <3>1. ~ Allowance(k) >= Cost /\ answer'.retry = Wait(Allowance(k)) /\ tokens'[k] = Allowance(k)
          /\ updated'[k] = clock
      BY <2>1, <2>3, TakeAllowances
    <3>2. Allowance(k) \in Int /\ Allowance(k) < Cost /\ clock \in Int /\ Cost \in Int
      BY <3>1, AllowanceType, BucketAssumption DEF BucketInv, BucketTypeOK
    <3>3. Wait(Allowance(k)) \in Int
          /\ Allowance(k) + Wait(Allowance(k)) * (Rate * Second) >= Cost
      BY <3>2, WaitIsHonest
    <3>4. (watch'.due - clock) * Rate = Wait(Allowance(k)) * (Rate * Second)
      <4>1. watch'.due = clock + Second * Wait(Allowance(k))
        BY <2>1, <2>3, <3>1
      <4>2. watch'.due - clock = Second * Wait(Allowance(k))
        BY <3>2, <3>3, <4>1, BucketAssumption
      <4> QED
        BY <3>3, <4>2, BucketAssumption
    <3> QED
      BY <3>1, <3>3, <3>4
  <2> QED
    BY <2>1, <2>2, <2>3 DEF DueOK, OthersOK
<1>3. CASE k # watch.key
  <2>1. watch'.key = watch.key
        /\ \/ watch' = Observer(watch.key, clock) /\ watch.key \in Evicted(k)
           \/ watch'.due = watch.due /\ watch'.others = watch.others \cup {k}
    BY <1>3 DEF TakeToken, Watches, BucketInv, WatchOK, Observer
  <2>2. CASE watch' = Observer(watch.key, clock) /\ watch.key \in Evicted(k)
    BY <1>3, <2>2, <2>1 DEF DueOK, OthersOK, Observer, TakeToken
  <2>3. CASE watch'.due = watch.due /\ watch'.others = watch.others \cup {k}
    <3>1. watch.key \in present' => /\ watch.key \in present
                                    /\ tokens'[watch.key] = tokens[watch.key]
                                    /\ updated'[watch.key] = updated[watch.key]
      BY <1>1, <1>3, TakeAllowances
    <3>2. watch.key \in present' => newer'[watch.key] \subseteq newer[watch.key] \cup {k}
      BY <1>1, <1>3 DEF TakeToken, MovesToEnd
    <3> QED
      BY <2>1, <2>3, <3>1, <3>2 DEF DueOK, OthersOK, BucketInv
  <2> QED
    BY <2>1, <2>2, <2>3
<1> QED
  BY <1>2, <1>3

\* A tick refills the buckets, up to Full.
LEMMA TickAllowance ==
  ASSUME BucketInv, TimePasses, NEW k \in Keys
  PROVE  Allowance(k)' = Smaller(Full, Allowance(k) + Rate)
<1>1. /\ clock' = clock + 1 /\ clock \in Nat /\ tokens[k] \in Int /\ updated[k] \in Nat
      /\ UNCHANGED <<present, tokens, updated>> /\ Rate \in Nat /\ Full' = Full /\ Full \in Nat
  BY BucketAssumption, FullType DEF TimePasses, limiter, BucketInv, BucketTypeOK, Full
<1>2. Refilled(k)' = Refilled(k) + Rate /\ Refilled(k) \in Int
  <2>1. (clock + 1 - updated[k]) * Rate = (clock - updated[k]) * Rate + Rate
        /\ (clock - updated[k]) * Rate \in Int
    BY <1>1
  <2> DEFINE a == (clock - updated[k]) * Rate
             b == (clock + 1 - updated[k]) * Rate
  <2>2. Refilled(k) = tokens[k] + a /\ Refilled(k)' = tokens[k] + b
    BY <1>1 DEF Refilled
  <2> HIDE DEF a, b
  <2> QED
    BY <1>1, <2>1, <2>2 DEF a, b
<1> QED
  BY <1>1, <1>2 DEF Allowance, Smaller

\* A clock set back takes allowance away, and gives none.
LEMMA StepBackAllowance ==
  ASSUME BucketInv, StepBack, NEW k \in Keys
  PROVE  Allowance(k)' \in Int /\ Allowance(k)' <= Allowance(k)
<1>1. PICK t \in 0..clock - 1 : clock' = t
  BY DEF StepBack
<1>2. /\ clock \in Nat /\ t \in Nat /\ t < clock /\ tokens[k] \in Int /\ updated[k] \in Nat
      /\ UNCHANGED <<present, tokens, updated>> /\ Full' = Full /\ Full \in Nat
  BY <1>1, FullType DEF StepBack, limiter, BucketInv, BucketTypeOK, Full
<1> DEFINE a == (clock - updated[k]) * Rate
           b == (t - updated[k]) * Rate
<1>3. a \in Int /\ b \in Int /\ b <= a
  <2>1. clock - updated[k] \in Int /\ t - updated[k] \in Int /\ t - updated[k] <= clock - updated[k]
    BY <1>2
  <2> QED
    BY <2>1, RateTimes
<1>4. Refilled(k) = tokens[k] + a /\ Refilled(k)' = tokens[k] + b
  BY <1>1, <1>2 DEF Refilled
<1> HIDE DEF a, b
<1> QED
  BY <1>2, <1>3, <1>4 DEF Allowance, Smaller

\* The invariant says nothing that a frame condition could break.
LEMMA WaitingKeeps ==
  ASSUME BucketInv, TimePasses \/ StepBack \/ CountAgain \/ UNCHANGED bucketVars
  PROVE  BucketTypeOK' /\ WatchOK' /\ OrderOK' /\ DueOK' /\ OthersOK'
<1>1. /\ UNCHANGED <<limiter, answer>> /\ clock' \in Nat
      /\ watch' = watch \/ \E t \in Nat : watch' = [watch EXCEPT !.since = t, !.granted = 0]
  <2>1. clock \in Nat
    BY DEF BucketInv, BucketTypeOK
  <2>2. UNCHANGED <<limiter, answer>>
    BY DEF TimePasses, StepBack, CountAgain, bucketVars
  <2>3. CASE TimePasses \/ UNCHANGED bucketVars
    <3>1. clock' \in Nat /\ watch' = watch
      BY <2>1, <2>3 DEF TimePasses, bucketVars
    <3> QED
      BY <2>2, <3>1
  <2>4. CASE StepBack
    <3>1. PICK t \in 0..clock - 1 : clock' = t /\ watch' = [watch EXCEPT !.since = t, !.granted = 0]
      BY <2>4 DEF StepBack
    <3>2. t \in Nat
      BY <2>1
    <3> QED
      BY <2>2, <3>1, <3>2
  <2>5. CASE CountAgain
    BY <2>1, <2>2, <2>5 DEF CountAgain
  <2> QED
    BY <2>3, <2>4, <2>5
<1>2. /\ watch'.key = watch.key /\ watch'.due = watch.due /\ watch'.others = watch.others
      /\ WatchOK'
  <2>1. CASE watch' = watch
    BY <2>1 DEF BucketInv, WatchOK
  <2>2. ASSUME NEW t \in Nat, watch' = [watch EXCEPT !.since = t, !.granted = 0]
        PROVE  /\ watch'.key = watch.key /\ watch'.due = watch.due /\ watch'.others = watch.others
               /\ WatchOK'
    BY <2>2 DEF BucketInv, WatchOK
  <2> QED
    BY <1>1, <2>1, <2>2
<1>3. BucketTypeOK'
  BY <1>1, <1>2 DEF BucketInv, BucketTypeOK, WatchOK, limiter
<1> QED
  BY <1>1, <1>2, <1>3 DEF BucketInv, OrderOK, DueOK, OthersOK, limiter

LEMMA WaitingKeepsGrants ==
  ASSUME BucketInv, TimePasses \/ StepBack \/ CountAgain \/ UNCHANGED bucketVars
  PROVE  GrantsOK'
<1> PICK w \in Keys : w = watch.key
  BY DEF BucketInv, WatchOK
<1> DEFINE kept == watch.granted * Cost
           gained == (clock - watch.since) * Rate
<1>1. /\ watch.granted \in Nat /\ watch.since \in Nat /\ clock \in Nat /\ watch.since <= clock
      /\ kept <= Full + gained /\ kept + Allowance(w) <= Full + gained
      /\ Full' = Full /\ Full \in Nat /\ Cost \in Nat
  BY BucketAssumption, FullType DEF BucketInv, WatchOK, BucketTypeOK, GrantsOK, Full
<1>2. kept \in Int /\ gained \in Int /\ Allowance(w) \in Int /\ Rate \in Nat
  BY <1>1, CostTimes, RateTimes, AllowanceType, BucketAssumption DEF BucketInv
<1>3. CASE TimePasses
  <2>1. clock' = clock + 1 /\ watch' = watch /\ Allowance(w)' = Smaller(Full, Allowance(w) + Rate)
    BY <1>3, TickAllowance DEF TimePasses
  <2>2. (clock' - watch.since) * Rate = gained + Rate
    <3> DEFINE m == clock - watch.since
    <3>1. clock' - watch.since = m + 1 /\ m \in Int /\ 1 * Rate = Rate
      BY <1>1, <1>2, <2>1
    <3>2. gained = m * Rate
      OBVIOUS
    <3> HIDE DEF m, gained
    <3>3. (m + 1) * Rate = m * Rate + 1 * Rate
      BY <3>1, RateTimes
    <3> QED
      BY <3>1, <3>2, <3>3, Zenon
  <2> HIDE DEF kept, gained
  <2>3. kept <= Full + (gained + Rate) /\ kept + Allowance(w)' <= Full + (gained + Rate)
    BY <1>1, <1>2, <2>1 DEF Smaller
  <2> QED
    BY <1>1, <2>1, <2>2, <2>3 DEF GrantsOK, kept
<1>4. ASSUME watch' = [watch EXCEPT !.since = clock', !.granted = 0], clock' \in Nat,
             Allowance(w)' <= Full, Allowance(w)' \in Int
      PROVE  GrantsOK'
  <2>1. watch'.key = w /\ watch'.since = clock' /\ watch'.granted = 0
    BY <1>4 DEF BucketInv, WatchOK
  <2>2. 0 * Cost = 0 /\ (clock' - clock') * Rate = 0
    BY <1>1, <1>2, <1>4
  <2> QED
    BY <1>1, <1>4, <2>1, <2>2 DEF GrantsOK
<1>5. CASE StepBack
  <2>1. /\ Allowance(w)' \in Int /\ Allowance(w)' <= Allowance(w) /\ Allowance(w) <= Full
    BY <1>5, StepBackAllowance, AllowanceType DEF BucketInv
  <2>2. watch' = [watch EXCEPT !.since = clock', !.granted = 0] /\ clock' \in Nat
    <3>1. PICK t \in 0..clock - 1 : clock' = t /\ watch' = [watch EXCEPT !.since = t, !.granted = 0]
      BY <1>5 DEF StepBack
    <3> QED
      BY <1>1, <3>1
  <2> QED
    BY <1>1, <1>2, <1>4, <2>1, <2>2
<1>6. CASE CountAgain
  <2>1. watch' = [watch EXCEPT !.since = clock', !.granted = 0] /\ clock' \in Nat
        /\ UNCHANGED <<clock, present, tokens, updated>>
    BY <1>1, <1>6 DEF CountAgain, limiter
  <2>2. Allowance(w)' = Allowance(w) /\ Allowance(w) <= Full
    BY <2>1, AllowanceType DEF Allowance, Refilled, Full, Smaller, BucketInv
  <2> QED
    BY <1>2, <1>4, <2>1, <2>2
<1>7. CASE UNCHANGED bucketVars
  <2>1. UNCHANGED <<clock, present, tokens, updated, watch>>
    BY <1>7 DEF bucketVars, limiter
  <2> QED
    BY <2>1 DEF BucketInv, GrantsOK, Allowance, Refilled, Full, Smaller
<1> QED
  BY <1>3, <1>5, <1>6, <1>7

\* The invariant of the limiter is inductive.
THEOREM BucketInvariant == BucketSpec => []BucketInv
<1>1. BucketInit => BucketInv
  <2> SUFFICES ASSUME BucketInit PROVE BucketInv
    OBVIOUS
  <2>1. PICK k \in Keys : watch = Observer(k, 0)
    BY DEF BucketInit
  <2>2. WatchOK /\ watch.since = 0 /\ watch.granted = 0 /\ watch.due = Never
    BY <2>1 DEF WatchOK, Observer
  <2>3. BucketTypeOK
    <3>1. Cardinality(present) <= MaxKeys
      BY FS_EmptySet, BucketAssumption DEF BucketInit
    <3> QED
      BY <2>2, <3>1, FullType DEF BucketInit, BucketTypeOK, WatchOK
  <2>4. OrderOK /\ DueOK /\ OthersOK
    BY <2>2 DEF BucketInit, OrderOK, DueOK, OthersOK
  <2>5. GrantsOK
    <3>1. 0 * Cost = 0 /\ (0 - 0) * Rate = 0 /\ Full \in Nat
      BY FullType, BucketAssumption
    <3>2. \A w \in Keys : Allowance(w) \in Int /\ Allowance(w) <= Full
      BY <2>3, AllowanceType
    <3> QED
      BY <2>1, <2>2, <3>1, <3>2 DEF BucketInit, GrantsOK, WatchOK
  <2> QED
    BY <2>2, <2>3, <2>4, <2>5 DEF BucketInv
<1>2. BucketInv /\ [BucketNext]_bucketVars => BucketInv'
  <2> SUFFICES ASSUME BucketInv, [BucketNext]_bucketVars PROVE BucketInv'
    OBVIOUS
  <2>1. ASSUME NEW k \in Keys, TakeToken(k) PROVE BucketInv'
    BY <2>1, TakeKeepsTypes, TakeKeepsGrants, TakeKeepsDue DEF BucketInv
  <2>2. CASE TimePasses \/ StepBack \/ CountAgain \/ UNCHANGED bucketVars
    BY <2>2, WaitingKeeps, WaitingKeepsGrants DEF BucketInv
  <2> QED
    BY <2>1, <2>2 DEF BucketNext
<1> QED
  BY <1>1, <1>2, PTL DEF BucketSpec

\* The limiter's state keeps its type, and its Map stays within maxKeys.
THEOREM BucketTypeCorrect == BucketSpec => []BucketTypeOK
BY BucketInvariant, PTL DEF BucketInv

\* From any moment on, a full bucket and what time refills is all a client gets.
THEOREM GrantsAreBounded == BucketSpec => []NeverOvergrants
<1>1. BucketInv => NeverOvergrants
  BY DEF BucketInv, GrantsOK, NeverOvergrants
<1> QED
  BY <1>1, BucketInvariant, PTL

\* A client that comes back when it was told to finds a token.
THEOREM RetryAfterHolds == BucketSpec => []RetryIsHonest
<1>1. BucketInv => RetryIsHonest
  <2> SUFFICES ASSUME BucketInv, watch.due # Never, clock >= watch.due
               PROVE  Allowance(watch.key) >= Cost
    BY DEF RetryIsHonest
  <2> PICK k \in Keys : k = watch.key
    BY DEF BucketInv, WatchOK
  <2>1. CASE k \notin present
    BY <2>1, FullType DEF Allowance
  <2>2. CASE k \in present
    <3> DEFINE a == (watch.due - updated[k]) * Rate
               b == (clock - updated[k]) * Rate
    <3>1. watch.due \in Nat /\ updated[k] \in Nat /\ clock \in Nat /\ tokens[k] \in Int /\ Cost \in Nat
      BY BucketAssumption DEF BucketInv, WatchOK, BucketTypeOK
    <3>2. a \in Int /\ b \in Int /\ a <= b
      <4>1. /\ watch.due - updated[k] \in Int /\ clock - updated[k] \in Int
            /\ watch.due - updated[k] <= clock - updated[k]
        BY <3>1
      <4> QED
        BY <4>1, RateTimes
    <3>3. tokens[k] + a >= Cost /\ Refilled(k) = tokens[k] + b
      BY <2>2 DEF BucketInv, DueOK, Refilled
    <3> HIDE DEF a, b
    <3>4. Refilled(k) >= Cost
      BY <3>1, <3>2, <3>3
    <3> QED
      BY <2>2, <3>4, FullType DEF Allowance, Smaller
  <2> QED
    BY <2>1, <2>2
<1> QED
  BY <1>1, BucketInvariant, PTL

\* Only many addresses evict a client, never many requests.
THEOREM EvictionIsFair == BucketSpec => EvictsTheIdlest
<1>1. BucketInv /\ [BucketNext]_bucketVars
        => [watch.key \in present \ present' /\ Allowance(watch.key) < Full
              => Cardinality(watch.others \cup (present' \ present)) >= MaxKeys]_bucketVars
  <2> SUFFICES ASSUME BucketInv, BucketNext,
                      watch.key \in present \ present', Allowance(watch.key) < Full
               PROVE  Cardinality(watch.others \cup (present' \ present)) >= MaxKeys
    BY DEF bucketVars
  <2>1. PICK k \in Keys : TakeToken(k)
    BY DEF BucketNext, TimePasses, StepBack, CountAgain, limiter
  <2> PICK w \in Keys : w = watch.key
    BY DEF BucketInv, WatchOK
  <2>2. present' = (Kept \ Evicted(k)) \cup {k} /\ w # k
    BY <2>1 DEF TakeToken
  <2>3. w \in Kept
    <3>1. Refilled(w) \in Int /\ Full \in Int
      BY HaveIsAllowance, FullType DEF BucketInv
    <3> QED
      BY <3>1 DEF Allowance, Smaller, Kept, Swept
  <2>4. w \in Evicted(k) /\ k \notin Kept /\ Cardinality(Kept) >= MaxKeys /\ Kept \ {w} \subseteq newer[w]
    BY <2>2, <2>3 DEF Evicted
  <2> DEFINE called == watch.others \cup (present' \ present)
  <2>5. /\ IsFiniteSet(present) /\ Cardinality(present) \in Nat /\ Cardinality(present) <= MaxKeys
        /\ IsFiniteSet(Kept) /\ Cardinality(Kept) \in Nat /\ Kept \in SUBSET present
        /\ IsFiniteSet(called) /\ Cardinality(called) \in Nat
    <3>1. IsFiniteSet(present) /\ Cardinality(present) <= MaxKeys /\ Kept \in SUBSET present
      BY BucketAssumption, FS_Subset DEF BucketInv, BucketTypeOK, Kept
    <3>2. called \in SUBSET Keys
      BY <2>2 DEF BucketInv, BucketTypeOK, Kept
    <3> QED
      BY <3>1, <3>2, BucketAssumption, FS_Subset, FS_CardinalityType
  <2>6. Kept = present
    BY <2>4, <2>5, FS_Subset, BucketAssumption
  <2>7. (Kept \ {w}) \cup {k} \in SUBSET called
    BY <2>2, <2>4, <2>6 DEF BucketInv, OthersOK
  <2>8. Cardinality((Kept \ {w}) \cup {k}) = Cardinality(Kept)
    <3>1. IsFiniteSet(Kept \ {w}) /\ Cardinality(Kept \ {w}) = Cardinality(Kept) - 1
      BY <2>3, <2>5, FS_RemoveElement
    <3>2. Cardinality((Kept \ {w}) \cup {k}) = Cardinality(Kept \ {w}) + 1
      BY <2>4, <3>1, FS_AddElement
    <3> QED
      BY <2>5, <3>1, <3>2
  <2>9. Cardinality((Kept \ {w}) \cup {k}) <= Cardinality(called)
    BY <2>5, <2>7, FS_Subset
  <2> QED
    BY <2>4, <2>5, <2>8, <2>9, BucketAssumption
<1> QED
  BY <1>1, BucketInvariant, PTL DEF BucketSpec, EvictsTheIdlest

\* The limiter implements RateLimit.
THEOREM LimiterKeepsPromise == BucketSpec => KeepsPromise
<1> DEFINE allowances == [k \in Keys |-> Allowance(k)]
<1>1. BucketInit => Promise!RateInit
  BY DEF BucketInit, Promise!RateInit, Allowance
<1>2. BucketInv /\ [BucketNext]_bucketVars => [Promise!RateNext]_<<allowances, answer>>
  <2> SUFFICES ASSUME BucketInv, [BucketNext]_bucketVars
               PROVE  Promise!RateNext \/ UNCHANGED <<allowances, answer>>
    OBVIOUS
  <2>1. ASSUME NEW k \in Keys, TakeToken(k) PROVE Promise!RateNext
    <3> DEFINE forgiven == Evicted(k) \ {k}
    <3>1. Allowance(k) \in Int /\ Cost \in Int
      BY AllowanceType, BucketAssumption DEF BucketInv
    <3>2. answer'.allowed <=> Allowance(k) >= Cost
      BY <2>1, TakeAllowances
    <3>3. ~ answer'.allowed => Promise!Honest(Allowance(k), answer'.retry)
      <4> SUFFICES ASSUME ~ answer'.allowed PROVE Promise!Honest(Allowance(k), answer'.retry)
        OBVIOUS
      <4>1. Allowance(k) < Cost /\ answer'.retry = Wait(Allowance(k))
        BY <2>1, <3>1, <3>2, TakeAllowances
      <4>2. /\ Wait(Allowance(k)) \in Nat \ {0}
            /\ Allowance(k) + Wait(Allowance(k)) * (Rate * Second) >= Cost
            /\ Allowance(k) + (Wait(Allowance(k)) - 1) * (Rate * Second) < Cost
        BY <3>1, <4>1, WaitIsHonest
      <4> QED
        BY <4>1, <4>2 DEF Promise!Honest
    <3>4. allowances' = [j \in Keys |-> IF j = k /\ answer'.allowed THEN Allowance(k) - Cost
                                        ELSE IF j \in forgiven THEN Full ELSE Allowance(j)]
      <4>1. \A j \in Keys : Allowance(j)' = IF j = k /\ answer'.allowed THEN Allowance(k) - Cost
                                            ELSE IF j \in forgiven THEN Full ELSE Allowance(j)
        BY <2>1, <3>1, <3>2, TakeAllowances
      <4> QED
        BY <4>1
    <3>5. forgiven \in SUBSET (Keys \ {k})
      BY DEF Evicted, Kept, BucketInv, BucketTypeOK
    <3>6. Promise!Take(k, forgiven)
      BY <3>2, <3>3, <3>4 DEF Promise!Take
    <3> QED
      BY <3>5, <3>6 DEF Promise!RateNext
  <2>2. CASE TimePasses
    <3>1. \A k \in Keys : Allowance(k)' = Smaller(Full, Allowance(k) + Rate)
      BY <2>2, TickAllowance
    <3> QED
      BY <2>2, <3>1 DEF TimePasses, Promise!RateNext, Promise!Elapse, Promise!Least, Smaller
  <2>3. CASE StepBack
    <3>1. \A k \in Keys : Allowance(k)' <= Allowance(k)
      BY <2>3, StepBackAllowance
    <3> QED
      BY <2>3, <3>1 DEF StepBack, Promise!RateNext, Promise!SetBack
  <2>4. CASE CountAgain \/ UNCHANGED bucketVars
    <3>1. UNCHANGED <<clock, present, tokens, updated, answer>>
      BY <2>4 DEF CountAgain, bucketVars, limiter
    <3> QED
      BY <3>1 DEF Allowance, Refilled, Full, Smaller
  <2> QED
    BY <2>1, <2>2, <2>3, <2>4 DEF BucketNext
<1> QED
  BY <1>1, <1>2, BucketInvariant, PTL DEF BucketSpec, KeepsPromise, Promise!RateSpec
=============================================================================
