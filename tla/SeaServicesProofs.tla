------------------------- MODULE SeaServicesProofs --------------------------
(***************************************************************************)
(* Proofs about six of the parts around the agent, each on its own: the    *)
(* proxy of Agent Zero, the mesh, the files of memory, the delegation to   *)
(* peers, the start of the program and the usage tracker.  They share no   *)
(* state, so that what is proved of one holds whatever the others do.      *)
(***************************************************************************)
EXTENDS SeaProxy, SeaMesh, SeaMemory, SeaA2A, SeaStart, SeaUsage,
        SequenceTheorems, FiniteSetTheorems, FunctionTheorems, WellFoundedInduction, TLAPS

-----------------------------------------------------------------------------
(* A set of numbers that is not empty has a least one. *)
LEMMA LeastExists ==
  ASSUME NEW S \in SUBSET Nat, S # {}
  PROVE  \E x \in S : \A y \in S : x <= y
<1>1. \E x \in S : \A y \in S : <<y, x>> \notin OpToRel(<, Nat)
  BY NatLessThanWellFounded, WFMin
<1>2. PICK x \in S : \A y \in S : <<y, x>> \notin OpToRel(<, Nat)
  BY <1>1
<1>3. \A y \in S : ~(y < x)
  BY <1>2 DEF OpToRel
<1>4. QED BY <1>3

-----------------------------------------------------------------------------
(***************************************************************************)
(* The proxy, for every budget, every cost of a request, and any number of *)
(* connections and starts: the budget is overshot by one request at most,  *)
(* and a proxy that is stopped is quiet.                                   *)
(***************************************************************************)

Owners == {"down", "up", "closing", "joining"}
Threads == {"none", "checking", "entering", "accepting", "serving", "gone"}
Stages == {"none", "read", "forwarded"}
Sending == [request : Requests, before : Nat, cost : 1..MaxTokens]

(* Types. *)
ProxyTypeOK ==
  /\ owner \in Owners /\ running \in BOOLEAN /\ listener \in {"none", "open"}
  /\ thread \in Threads /\ backlog \in Seq(Requests)
  /\ serving \in [request : Requests \union {"none"}, stage : Stages]
  /\ logged \in Nat /\ sent \in Seq(Sending)
  /\ lateServed \in Nat /\ calls \in Nat /\ starts \in Nat

(* The owner and its thread: the flag is up while the owner is, a thread   *)
(* lives as long as the owner is not down, and has gone only after the     *)
(* flag was taken back.                                                    *)
OwnerAndThread ==
  /\ running <=> owner = "up"
  /\ owner = "down" <=> thread = "none"
  /\ thread = "gone" => ~running

(* Only a thread that serves has a request, and one it has forwarded is    *)
(* the last one that was sent, from when there was budget for it.          *)
ServesOne ==
  /\ thread # "serving" => serving = NoRequest
  /\ thread = "serving" /\ serving.stage = "forwarded" =>
       sent # <<>> /\ (Budget > 0 => logged < Budget)

(* After the stop began a thread may still take one connection; when it    *)
(* has, it never enters accept() again.                                    *)
OneMore ==
  /\ lateServed <= 1
  /\ running \/ thread \in {"entering", "accepting"} => lateServed = 0

ProxyInv == ProxyTypeOK /\ OwnerAndThread /\ ServesOne /\ OneMore /\ BudgetHolds

-----------------------------------------------------------------------------
(* The invariant holds in the beginning. *)
LEMMA ProxyInitially == ASSUME ProxyInit PROVE ProxyInv
<1>1. backlog \in Seq(Requests) /\ sent \in Seq(Sending) /\ DOMAIN sent = {}
  BY DEF ProxyInit
<1>2. ProxyTypeOK
  BY <1>1 DEF ProxyInit, ProxyTypeOK, Owners, Threads, Stages, NoRequest
<1>3. OwnerAndThread /\ ServesOne /\ OneMore
  BY DEF ProxyInit, OwnerAndThread, ServesOne, OneMore
<1>4. BudgetHolds
  BY <1>1, ProxyAssumption DEF ProxyInit, BudgetHolds
<1>5. QED BY <1>2, <1>3, <1>4 DEF ProxyInv

(* The steps of the owner keep it. *)
LEMMA OwnerKeeps ==
  ASSUME ProxyInv, Start \/ StopBegins \/ StopCloses \/ StopJoins \/ ProxyLost
  PROVE  ProxyInv'
<1> USE ProxyAssumption DEF ProxyInv, ownerVars
<1>1. CASE Start
  <2>1. ProxyTypeOK'
    <3>1. /\ owner' \in Owners /\ running' \in BOOLEAN /\ listener' \in {"none", "open"}
          /\ thread' \in Threads
      BY <1>1, Zenon DEF Start, ProxyTypeOK, Owners, Threads
    <3>2. lateServed' \in Nat /\ starts' \in Nat
      BY <1>1 DEF Start, ProxyTypeOK
    <3>3. UNCHANGED <<backlog, serving, logged, sent, calls>>
      BY <1>1 DEF Start
    <3>4. QED BY <3>1, <3>2, <3>3 DEF ProxyTypeOK
  <2>2. OwnerAndThread' /\ ServesOne' /\ OneMore'
    BY <1>1 DEF Start, OwnerAndThread, ServesOne, OneMore
  <2>3. BudgetHolds'
    BY <1>1 DEF Start, BudgetHolds
  <2>4. QED BY <2>1, <2>2, <2>3
<1>2. CASE StopBegins
  BY <1>2 DEF StopBegins, ProxyTypeOK, OwnerAndThread, ServesOne, OneMore, BudgetHolds, Owners
<1>3. CASE StopCloses
  <2>1. backlog' \in Seq(Requests)
    BY <1>3 DEF StopCloses, ProxyTypeOK
  <2>2. ProxyTypeOK'
    BY <1>3, <2>1 DEF StopCloses, ProxyTypeOK, Owners
  <2>3. OwnerAndThread' /\ ServesOne' /\ OneMore' /\ BudgetHolds'
    BY <1>3 DEF StopCloses, OwnerAndThread, ServesOne, OneMore, BudgetHolds
  <2>4. QED BY <2>2, <2>3
<1>4. CASE StopJoins
  BY <1>4 DEF StopJoins, ProxyTypeOK, OwnerAndThread, ServesOne, OneMore, BudgetHolds, Owners, Threads
<1>5. CASE ProxyLost
  <2>1. <<>> \in Seq(Requests)
    OBVIOUS
  <2>2. ProxyTypeOK'
    BY <1>5, <2>1 DEF ProxyLost, ProxyTypeOK, Owners, Threads, Stages, NoRequest
  <2>3. OwnerAndThread' /\ ServesOne' /\ OneMore'
    BY <1>5 DEF ProxyLost, OwnerAndThread, ServesOne, OneMore
  <2>4. BudgetHolds'
    BY <1>5 DEF ProxyLost, BudgetHolds
  <2>5. QED BY <2>2, <2>3, <2>4
<1>6. QED BY <1>1, <1>2, <1>3, <1>4, <1>5

(* So do a connection and the steps by which the thread comes to serve it. *)
LEMMA LoopKeeps ==
  ASSUME ProxyInv, NEW request \in Requests, Connect(request) \/ Checks \/ Enters \/ Accepts
  PROVE  ProxyInv'
<1> USE ProxyAssumption DEF ProxyInv, ownerVars
<1>1. CASE Connect(request)
  BY <1>1 DEF Connect, ProxyTypeOK, OwnerAndThread, ServesOne, OneMore, BudgetHolds
<1>2. CASE Checks
  BY <1>2 DEF Checks, ProxyTypeOK, OwnerAndThread, ServesOne, OneMore, BudgetHolds, Threads
<1>3. CASE Enters
  BY <1>3 DEF Enters, ProxyTypeOK, OwnerAndThread, ServesOne, OneMore, BudgetHolds, Threads
<1>4. CASE Accepts
  <2>1. Head(backlog) \in Requests /\ Tail(backlog) \in Seq(Requests)
    BY <1>4 DEF Accepts, ProxyTypeOK
  <2>2. ProxyTypeOK'
    BY <1>4, <2>1 DEF Accepts, ProxyTypeOK, Threads, Stages
  <2>3. OwnerAndThread' /\ OneMore'
    BY <1>4 DEF Accepts, ProxyTypeOK, OwnerAndThread, OneMore
  <2>4. ServesOne' /\ BudgetHolds'
    BY <1>4 DEF Accepts, ProxyTypeOK, ServesOne, BudgetHolds
  <2>5. QED BY <2>2, <2>3, <2>4
<1>5. QED BY <1>1, <1>2, <1>3, <1>4

(* So do the answers that close a connection without a provider. *)
LEMMA RefusalKeeps ==
  ASSUME ProxyInv, Refuses \/ OverBudget \/ NoArena \/ CountsNothing
  PROVE  ProxyInv'
<1>1. thread = "serving" /\ Closes /\ UNCHANGED <<logged, sent>>
  BY DEF Refuses, OverBudget, NoArena, CountsNothing
<1>2. QED
  BY <1>1, ProxyAssumption
     DEF Closes, ownerVars, ProxyInv, ProxyTypeOK, OwnerAndThread, ServesOne, OneMore, BudgetHolds,
         Threads, Stages, NoRequest

(* A request that is forwarded has found the budget not used up, ... *)
LEMMA ForwardKeeps ==
  ASSUME ProxyInv, NEW cost \in 1..MaxTokens, Forwards(cost)
  PROVE  ProxyInv'
<1> DEFINE sending == [request |-> serving.request, before |-> logged, cost |-> cost]
<1> USE ProxyAssumption DEF ProxyInv, ownerVars
<1>1. sending \in Sending /\ sent' = Append(sent, sending)
  BY DEF Forwards, ProxyTypeOK, Requests, Sending
<1>2. ProxyTypeOK'
  <2>1. sent' \in Seq(Sending)
    BY <1>1 DEF ProxyTypeOK
  <2>2. serving' \in [request : Requests \union {"none"}, stage : Stages]
    BY DEF Forwards, ProxyTypeOK, Stages
  <2>3. QED BY <2>1, <2>2 DEF Forwards, ProxyTypeOK
<1>3. OwnerAndThread' /\ OneMore'
  BY DEF Forwards, ProxyTypeOK, OwnerAndThread, OneMore
<1>4. ServesOne'
  BY <1>1 DEF Forwards, ProxyTypeOK, ServesOne, WithinBudget
<1>5. BudgetHolds'
  <2>1. sending.request \in {"chat", "cut"} /\ (Budget > 0 => sending.before < Budget)
    BY DEF Forwards, WithinBudget, ProxyTypeOK
  <2>2. ASSUME NEW i \in DOMAIN sent'
        PROVE  sent'[i].request \in {"chat", "cut"} /\ (Budget > 0 => sent'[i].before < Budget)
    <3>1. CASE i \in DOMAIN sent
      BY <1>1, <3>1 DEF BudgetHolds, ProxyTypeOK
    <3>2. CASE i = Len(sent) + 1
      BY <1>1, <2>1, <3>2 DEF ProxyTypeOK
    <3>3. QED BY <1>1, <3>1, <3>2 DEF ProxyTypeOK
  <2>3. Budget > 0 => logged' < Budget + MaxTokens
    BY DEF Forwards, BudgetHolds
  <2>4. QED BY <2>2, <2>3 DEF BudgetHolds
<1>6. QED BY <1>2, <1>3, <1>4, <1>5

(* ... and when its cost is added nobody has added one in between. *)
LEMMA CountKeeps ==
  ASSUME ProxyInv, Counts
  PROVE  ProxyInv'
<1> USE ProxyAssumption DEF ProxyInv, ownerVars
<1>1. Latest.cost \in 1..MaxTokens
  <2>1. sent \in Seq(Sending) /\ sent # <<>>
    BY DEF Counts, ServesOne, ProxyTypeOK
  <2>2. Latest \in Sending
    BY <2>1 DEF Latest
  <2>3. QED BY <2>2 DEF Sending
<1>2. logged' = logged + Latest.cost /\ (Budget > 0 => logged < Budget)
  BY DEF Counts, ServesOne
<1>3. ProxyTypeOK'
  BY <1>1, <1>2 DEF Counts, Closes, ProxyTypeOK, Threads, Stages, NoRequest
<1>4. OwnerAndThread' /\ OneMore' /\ ServesOne'
  BY DEF Counts, Closes, ProxyTypeOK, OwnerAndThread, OneMore, ServesOne, NoRequest
<1>5. BudgetHolds'
  BY <1>1, <1>2 DEF Counts, Closes, ProxyTypeOK, BudgetHolds
<1>6. QED BY <1>3, <1>4, <1>5

(* The inductive invariant of the proxy: types, what the owner and its     *)
(* thread know of each other, that one request is served at a time, that   *)
(* at most one more is accepted after the stop began, and the budget.      *)
THEOREM ProxyInvariant == ProxySpec => []ProxyInv
<1>1. ProxyInit => ProxyInv
  BY ProxyInitially
<1>2. ProxyInv /\ [ProxyNext]_proxyVars => ProxyInv'
  <2> SUFFICES ASSUME ProxyInv, [ProxyNext]_proxyVars PROVE ProxyInv'
    OBVIOUS
  <2>1. CASE Start \/ StopBegins \/ StopCloses \/ StopJoins \/ ProxyLost
    BY <2>1, OwnerKeeps
  <2>2. CASE \E request \in Requests : Connect(request)
    BY <2>2, LoopKeeps
  <2>3. CASE Checks \/ Enters \/ Accepts
    BY <2>3, LoopKeeps DEF Requests
  <2>4. CASE Refuses \/ OverBudget \/ NoArena \/ CountsNothing
    BY <2>4, RefusalKeeps
  <2>5. CASE \E cost \in 1..MaxTokens : Forwards(cost)
    BY <2>5, ForwardKeeps
  <2>6. CASE Counts
    BY <2>6, CountKeeps
  <2>7. CASE UNCHANGED proxyVars
    BY <2>7 DEF proxyVars, ownerVars, ProxyInv, ProxyTypeOK, OwnerAndThread, ServesOne, OneMore,
                BudgetHolds
  <2>8. QED
    BY <2>1, <2>2, <2>3, <2>4, <2>5, <2>6, <2>7 DEF ProxyNext
<1>3. QED
  BY <1>1, <1>2, PTL DEF ProxySpec

(* The budget is overshot by the one request that reaches it, and a stop   *)
(* that has returned leaves nobody who serves.                             *)
THEOREM ProxyKeepsBudgetAndStops == ProxySpec => []ProxyHolds
<1>1. ProxyInv => ProxyHolds
  BY DEF ProxyInv, ProxyHolds, StopIsQuiet, OwnerAndThread, ServesOne, OneMore
<1>2. QED
  BY <1>1, ProxyInvariant, PTL

-----------------------------------------------------------------------------
(***************************************************************************)
(* The mesh, for any crews, any size of the table, any loss and any order  *)
(* of the requests.                                                        *)
(***************************************************************************)

Names == Crews \union {""}
CapsOf == {Capabilities(c) : c \in Crews} \union {<<>>}
Node == [name : Names, caps : CapsOf, healthy : BOOLEAN, beat : Nat, load : {0}]
Audited == [task : Nat, node : Names, success : BOOLEAN]

(* Types; no node has a load. *)
MeshTypeOK ==
  /\ clock \in Nat /\ listed \in Nat /\ listed <= clock
  /\ nodes \in [1..MaxNodes -> Node] /\ count \in 0..MaxNodes
  /\ post \in [phase : {"none", "posted", "answered", "silent"}, at : Nat, task : Nat, node : Names]
  /\ held \in [at : Nat, task : Nat, node : Names, success : BOOLEAN, before : SUBSET Names]
  /\ trail \in Seq(Audited) /\ begun \in Nat

(* A task is sent to a node of the table, and has been executed when it is *)
(* answered.                                                               *)
PostInv ==
  ~Free =>
    /\ post.at \in Table /\ nodes[post.at].name = post.node
    /\ post.phase \in {"answered", "silent"} => <<post.node, post.task>> \in executed

(* The result held points to its node, and what it remembers as before it  *)
(* are the nodes up to that one.                                           *)
HeldInv ==
  held.before # {} =>
    /\ held.at \in Table /\ nodes[held.at].name = held.node
    /\ held.before = {nodes[i].name : i \in 1..held.at}

MeshInv == MeshTypeOK /\ PostInv /\ HeldInv /\ MeshTruthful

-----------------------------------------------------------------------------
LEMMA MeshSizes ==
  /\ MaxNodes \in Nat /\ MaxNodes >= 1 /\ StaleAfter \in Nat /\ MaxNow \in Nat
BY MeshAssumption

LEMMA MeshTypes ==
  ASSUME MeshInv
  PROVE  /\ clock \in Nat /\ listed \in Nat /\ listed <= clock /\ count \in Nat /\ count <= MaxNodes
         /\ nodes \in [1..MaxNodes -> Node] /\ \A i \in Table : i \in 1..MaxNodes /\ nodes[i] \in Node
<1>1. /\ clock \in Nat /\ listed \in Nat /\ listed <= clock /\ count \in Nat /\ count <= MaxNodes
      /\ nodes \in [1..MaxNodes -> Node]
  BY MeshSizes DEF MeshInv, MeshTypeOK
<1>2. \A i \in Table : i \in 1..MaxNodes
  BY <1>1, MeshSizes DEF Table
<1>3. QED BY <1>1, <1>2

(* A name has one place in the table, and Position is that place.          *)
LEMMA PositionOf ==
  ASSUME MeshInv, NEW c \in Crews, Registered(c)
  PROVE  Position(c) \in Table /\ nodes[Position(c)].name = c
<1>1. PICK i \in Positions(c) : TRUE
  BY DEF Registered
<1>2. i \in Table /\ nodes[i].name = c
  BY <1>1 DEF Positions
<1>3. \A k \in Positions(c) : k = i
  BY <1>2 DEF Positions, MeshInv, MeshTruthful, HealthIsFreshness
<1>4. i \in Nat
  BY <1>2, MeshTypes DEF Table
<1>5. \A k \in Positions(c) : i <= k
  BY <1>3, <1>4
<1>6. Position(c) \in Positions(c)
  BY <1>1, <1>5 DEF Position
<1>7. QED BY <1>2, <1>3, <1>6

(* Some capable node is the first of those with the least load. *)
LEMMA RouteOf ==
  ASSUME MeshInv, NEW tool, Capable(tool) # {}
  PROVE  Route(tool) \in Table
<1> DEFINE S == Capable(tool)
<1>1. S \subseteq Table /\ S \subseteq Nat /\ S # {}
  BY MeshTypes DEF Capable, Table
<1>2. PICK m \in S : \A k \in S : ~(k < m)
  <2>1. \E m \in S : \A k \in S : ~(<<k, m>> \in OpToRel(<, Nat))
    <3> HIDE DEF S
    <3>1. QED BY <1>1, NatLessThanWellFounded, WFMin
  <2>2. QED BY <1>1, <2>1 DEF OpToRel
<1>3. \A k \in S : nodes[k].load = 0
  BY <1>1, MeshTypes DEF Node
<1>4. \A k \in S : m <= k
  BY <1>1, <1>2
<1>5. \A k \in S : nodes[m].load < nodes[k].load \/ (nodes[m].load = nodes[k].load /\ m <= k)
  BY <1>2, <1>3, <1>4
<1>6. Route(tool) \in S
  BY <1>2, <1>5 DEF Route
<1>7. QED BY <1>1, <1>6

-----------------------------------------------------------------------------
(* A step that keeps the names of the table, and the tasks, keeps what is  *)
(* said of tasks.                                                          *)
LEMMA TasksKeep ==
  ASSUME MeshInv, UNCHANGED <<post, held, trail, executed>>,
         count' \in Nat, count <= count', \A i \in Table : nodes'[i].name = nodes[i].name
  PROVE  PostInv' /\ HeldInv' /\ ResultsTruthful'
<1>1. \A i \in Table : i \in Table'
  BY MeshTypes DEF Table
<1>2. PostInv'
  BY <1>1 DEF MeshInv, PostInv, Free
<1>3. ASSUME held.before # {}
      PROVE  /\ held.at \in Table /\ nodes'[held.at].name = held.node
             /\ held.before = {nodes'[i].name : i \in 1..held.at}
  <2>1. /\ held.at \in Table /\ nodes[held.at].name = held.node
        /\ held.before = {nodes[i].name : i \in 1..held.at}
    BY <1>3 DEF MeshInv, HeldInv
  <2>2. \A i \in 1..held.at : i \in Table
    BY <2>1, MeshTypes DEF Table
  <2>3. QED BY <2>1, <2>2
<1>4. HeldInv'
  BY <1>1, <1>3 DEF HeldInv
<1>5. ResultsTruthful'
  BY <1>3 DEF MeshInv, MeshTruthful, ResultsTruthful
<1>6. QED BY <1>2, <1>4, <1>5

(* A step that leaves the table alone, as time passes. *)
LEMMA TableKeeps ==
  ASSUME MeshInv, UNCHANGED <<nodes, count, listed>>, clock' \in Nat, clock <= clock'
  PROVE  HealthIsFreshness' /\ listed' <= clock'
<1>1. \A i \in Table : nodes[i].beat \in Nat
  BY MeshTypes DEF Node
<1>2. \A i \in Table : Stale(nodes[i]) => Stale(nodes[i])'
  BY <1>1, MeshTypes, MeshSizes DEF Stale
<1>3. HealthIsFreshness'
  BY <1>2 DEF Table, MeshInv, MeshTruthful, HealthIsFreshness
<1>4. QED BY <1>3, MeshTypes

LEMMA WireKeeps ==
  ASSUME MeshInv, UNCHANGED <<captainVars, taskVars, listed>>, clock' \in Nat, clock <= clock'
  PROVE  MeshInv'
<1>1. UNCHANGED <<nodes, count, post, held, trail, executed, begun, listed>>
  BY DEF captainVars, taskVars
<1>2. HealthIsFreshness' /\ listed' <= clock'
  BY <1>1, TableKeeps
<1>3. MeshTypeOK'
  BY <1>1, <1>2 DEF MeshInv, MeshTypeOK
<1>4. PostInv' /\ HeldInv' /\ ResultsTruthful'
  <2>1. count' \in Nat /\ count <= count'
    BY <1>1, MeshTypes
  <2>2. QED BY <1>1, <2>1, TasksKeep
<1>5. QED BY <1>2, <1>3, <1>4 DEF MeshInv, MeshTruthful

-----------------------------------------------------------------------------
(* A node that is written is named as before, or is a new one behind the   *)
(* others; it is healthy and its last sign of life is now.                 *)
LEMMA NodeWritten ==
  ASSUME MeshInv, NEW p \in 1..MaxNodes, NEW node \in Node, nodes' = [nodes EXCEPT ![p] = node],
         node.healthy, node.beat = clock,
         \/ p \in Table /\ node.name = nodes[p].name /\ count' = count
         \/ p = count + 1 /\ count' = p /\ ~Registered(node.name),
         UNCHANGED <<clock, taskVars, listed>>
  PROVE  MeshInv'
<1>1. /\ nodes' \in [1..MaxNodes -> Node] /\ nodes'[p] = node
      /\ \A i \in Table : i # p => nodes'[i] = nodes[i]
  BY MeshTypes
<1>2. count' \in 0..MaxNodes /\ count' \in Nat /\ count <= count' /\ Table' = Table \union {p}
  BY MeshTypes, MeshSizes DEF Table
<1>3. UNCHANGED <<post, held, trail, executed, begun>>
  BY DEF taskVars
<1>4. MeshTypeOK'
  BY <1>1, <1>2, <1>3 DEF MeshInv, MeshTypeOK
<1>5. PostInv' /\ HeldInv' /\ ResultsTruthful'
  <2>1. p = count + 1 => p \notin Table
    BY MeshTypes DEF Table
  <2>2. \A i \in Table : nodes'[i].name = nodes[i].name
    BY <1>1, <2>1
  <2>3. QED BY <1>2, <1>3, <2>2, TasksKeep
<1>6. HealthIsFreshness'
  <2>1. \A i, k \in Table' : nodes'[i].name = nodes'[k].name => i = k
    <3>1. \A i, k \in Table : nodes[i].name = nodes[k].name => i = k
      BY DEF MeshInv, MeshTruthful, HealthIsFreshness
    <3>2. CASE p \in Table /\ node.name = nodes[p].name
      BY <1>1, <1>2, <3>1, <3>2
    <3>3. CASE ~Registered(node.name)
      <4>1. \A i \in Table : nodes[i].name # node.name
        BY <3>3 DEF Registered, Positions
      <4>2. QED BY <1>1, <1>2, <3>1, <4>1
    <3>4. QED BY <3>2, <3>3
  <2>2. node.beat >= listed - StaleAfter
    BY MeshTypes, MeshSizes
  <2>3. \A i \in Table' : IF nodes'[i].healthy THEN nodes'[i].beat >= listed - StaleAfter ELSE Stale(nodes'[i])
    <3>1. \A i \in Table : IF nodes[i].healthy THEN nodes[i].beat >= listed - StaleAfter ELSE Stale(nodes[i])
      BY DEF MeshInv, MeshTruthful, HealthIsFreshness
    <3>2. QED BY <1>1, <1>2, <2>2, <3>1
  <2>4. QED BY <2>1, <2>3 DEF HealthIsFreshness, Stale
<1>7. QED BY <1>4, <1>5, <1>6 DEF MeshInv, MeshTruthful

LEMMA RegisterKeeps ==
  ASSUME MeshInv, NEW c \in Crews, Register(c)
  PROVE  MeshInv'
<1>1. UNCHANGED <<clock, taskVars, listed>>
  BY DEF Register
<1>2. Capabilities(c) \in CapsOf /\ c \in Names
  BY DEF CapsOf, Names
<1>3. CASE Registered(c)
  <2> DEFINE p == Position(c)
             node == [nodes[p] EXCEPT !.caps = Capabilities(c), !.healthy = TRUE, !.beat = clock]
  <2>1. p \in Table /\ p \in 1..MaxNodes /\ nodes[p] \in Node
    BY <1>3, PositionOf, MeshTypes
  <2>2. node \in Node /\ node.name = nodes[p].name /\ node.healthy /\ node.beat = clock
    BY <1>2, <2>1, MeshTypes DEF Node
  <2>3. nodes' = [nodes EXCEPT ![p] = node] /\ count' = count
    <3>1. nodes \in [1..MaxNodes -> Node]
      BY MeshTypes
    <3>2. nodes' = [nodes EXCEPT ![p].caps = Capabilities(c), ![p].healthy = TRUE, ![p].beat = clock]
          /\ count' = count
      BY <1>3 DEF Register
    <3> HIDE DEF p
    <3>3. QED BY <2>1, <3>1, <3>2 DEF Node
  <2> HIDE DEF node, p
  <2>4. QED BY <1>1, <2>1, <2>2, <2>3, NodeWritten
<1>4. CASE ~Registered(c) /\ count < MaxNodes
  <2> DEFINE p == count + 1
             node == [name |-> c, caps |-> Capabilities(c), healthy |-> TRUE, beat |-> clock, load |-> 0]
  <2>1. p \in 1..MaxNodes /\ p = count + 1
    BY <1>4, MeshTypes, MeshSizes
  <2>2. node \in Node /\ node.name = c /\ node.healthy /\ node.beat = clock
    BY <1>2, MeshTypes DEF Node
  <2>3. nodes' = [nodes EXCEPT ![p] = node] /\ count' = p
    BY <1>4 DEF Register
  <2> HIDE DEF node, p
  <2>4. QED BY <1>1, <1>4, <2>1, <2>2, <2>3, NodeWritten
<1>5. CASE ~Registered(c) /\ ~(count < MaxNodes)
  <2>1. UNCHANGED captainVars
    BY <1>5 DEF Register
  <2>2. QED BY <1>1, <2>1, WireKeeps, MeshTypes
<1>6. QED BY <1>3, <1>4, <1>5

LEMMA HeartbeatKeeps ==
  ASSUME MeshInv, NEW c \in Crews, Heartbeat(c)
  PROVE  MeshInv'
<1>1. UNCHANGED <<clock, count, taskVars, listed>>
  BY DEF Heartbeat
<1>2. CASE Registered(c)
  <2> DEFINE p == Position(c)
             node == [nodes[p] EXCEPT !.healthy = TRUE, !.beat = clock]
  <2>1. p \in Table /\ p \in 1..MaxNodes /\ nodes[p] \in Node
    BY <1>2, PositionOf, MeshTypes
  <2>2. node \in Node /\ node.name = nodes[p].name /\ node.healthy /\ node.beat = clock
    BY <2>1, MeshTypes DEF Node
  <2>3. nodes' = [nodes EXCEPT ![p] = node]
    <3>1. nodes \in [1..MaxNodes -> Node]
      BY MeshTypes
    <3>2. nodes' = [nodes EXCEPT ![p].healthy = TRUE, ![p].beat = clock]
      BY <1>2 DEF Heartbeat
    <3> HIDE DEF p
    <3>3. QED BY <2>1, <3>1, <3>2 DEF Node
  <2> HIDE DEF node, p
  <2>4. QED BY <1>1, <2>1, <2>2, <2>3, NodeWritten
<1>3. CASE ~Registered(c)
  <2>1. UNCHANGED captainVars
    BY <1>1, <1>3 DEF Heartbeat, captainVars
  <2>2. QED BY <1>1, <2>1, WireKeeps, MeshTypes
<1>4. QED BY <1>2, <1>3

(* The nodes behind the removed one move down; a result that points behind *)
(* it is no longer counted on.                                             *)
LEMMA RemoveNodeKeeps ==
  ASSUME MeshInv, NEW c \in Crews, RemoveNode(c)
  PROVE  MeshInv'
<1> DEFINE p == Position(c)
           src(k) == IF k >= p THEN k + 1 ELSE k
<1>1. /\ Free /\ count' = count - 1 /\ held' = HeldWithout(c)
      /\ nodes' = [i \in DOMAIN nodes |-> IF i \in p..count - 1 THEN nodes[i + 1] ELSE nodes[i]]
      /\ UNCHANGED <<clock, wire, post, trail, executed, begun, listed>>
  BY DEF RemoveNode
<1>2. /\ p \in Table /\ nodes[p].name = c /\ p \in Nat /\ p >= 1 /\ p <= count /\ count \in Nat
      /\ count <= MaxNodes /\ DOMAIN nodes = 1..MaxNodes /\ count' \in 0..MaxNodes
  <2>1. p \in Table /\ nodes[p].name = c
    BY PositionOf DEF RemoveNode
  <2> HIDE DEF p
  <2>2. p \in Nat /\ p >= 1 /\ p <= count /\ count \in Nat /\ count <= MaxNodes
    BY <2>1, MeshTypes DEF Table
  <2>3. QED BY <1>1, <2>1, <2>2, MeshTypes, MeshSizes
<1> HIDE DEF p
<1>3. ASSUME NEW k \in Table'
      PROVE  src(k) \in Table /\ nodes'[k] = nodes[src(k)] /\ k \in Table /\ (k < p => src(k) = k)
  <2>1. k \in Nat /\ k >= 1 /\ k <= count - 1 /\ k \in 1..MaxNodes
    BY <1>1, <1>2, MeshSizes DEF Table
  <2>2. src(k) \in Table /\ k \in Table /\ (k < p => src(k) = k)
    BY <1>2, <2>1 DEF Table
  <2>3. k \in p..count - 1 <=> k >= p
    BY <1>2, <2>1
  <2>4. QED BY <1>1, <1>2, <2>1, <2>2, <2>3
<1>4. \A j, k \in Table' : src(j) = src(k) => j = k
  BY <1>1, <1>2 DEF Table
<1>5. nodes' \in [1..MaxNodes -> Node]
  <2>1. \A i \in 1..MaxNodes : (IF i \in p..count - 1 THEN nodes[i + 1] ELSE nodes[i]) \in Node
    <3>1. \A i \in p..count - 1 : i + 1 \in 1..MaxNodes
      BY <1>2, MeshSizes
    <3>2. QED BY <3>1, MeshTypes
  <2>2. QED BY <1>1, <1>2, <2>1
<1>6. /\ held' \in [at : Nat, task : Nat, node : Names, success : BOOLEAN, before : SUBSET Names]
      /\ held'.at = held.at /\ held'.task = held.task /\ held'.node = held.node
      /\ held'.success = held.success
      /\ held'.before = IF c \in held.before THEN {} ELSE held.before
  BY <1>1 DEF HeldWithout, MeshInv, MeshTypeOK
<1>7. MeshTypeOK'
  BY <1>1, <1>2, <1>5, <1>6 DEF MeshInv, MeshTypeOK
<1>8. PostInv'
  BY <1>1 DEF PostInv, Free
<1>9. ASSUME held'.before # {}
      PROVE  /\ held.at \in Table' /\ nodes'[held.at].name = held.node
             /\ held.before = {nodes'[i].name : i \in 1..held.at}
  <2>1. c \notin held.before /\ held.before # {}
    BY <1>6, <1>9
  <2>2. /\ held.at \in Table /\ nodes[held.at].name = held.node
        /\ held.before = {nodes[i].name : i \in 1..held.at}
    BY <2>1 DEF MeshInv, HeldInv
  <2>3. p \notin 1..held.at
    BY <1>2, <2>1, <2>2
  <2>4. held.at \in Nat /\ held.at >= 1 /\ held.at < p
    BY <1>2, <2>2, <2>3 DEF Table
  <2>5. \A i \in 1..held.at : i \in Table' /\ i < p
    BY <1>1, <1>2, <2>4 DEF Table
  <2>6. \A i \in 1..held.at : nodes'[i] = nodes[i]
    BY <1>3, <2>5
  <2>7. held.at \in 1..held.at
    BY <2>4
  <2>8. QED BY <2>2, <2>5, <2>6, <2>7
<1>10. HeldInv'
  BY <1>6, <1>9 DEF HeldInv
<1>11. ResultsTruthful'
  BY <1>1, <1>6, <1>9 DEF MeshInv, MeshTruthful, ResultsTruthful
<1>12. HealthIsFreshness'
  <2>1. \A i, k \in Table' : nodes'[i].name = nodes'[k].name => i = k
    BY <1>3, <1>4 DEF MeshInv, MeshTruthful, HealthIsFreshness
  <2>2. \A i \in Table' : IF nodes'[i].healthy THEN nodes'[i].beat >= listed - StaleAfter ELSE Stale(nodes'[i])
    BY <1>3 DEF MeshInv, MeshTruthful, HealthIsFreshness
  <2>3. QED BY <1>1, <2>1, <2>2 DEF HealthIsFreshness, Stale
<1>13. QED BY <1>7, <1>8, <1>10, <1>11, <1>12 DEF MeshInv, MeshTruthful

(* A listing marks what it has found stale; one that has seen every slot   *)
(* leaves no stale node healthy.                                           *)
LEMMA ListHealthyKeeps ==
  ASSUME MeshInv, NEW max, ListHealthy(max)
  PROVE  MeshInv'
<1> DEFINE seen == Examined(max)
<1>1. /\ nodes' = [i \in DOMAIN nodes |-> IF i \in seen /\ Stale(nodes[i])
                                          THEN [nodes[i] EXCEPT !.healthy = FALSE] ELSE nodes[i]]
      /\ listed' = IF seen = Table THEN clock ELSE listed
      /\ UNCHANGED <<clock, count, wire, post, held, trail, executed, begun>>
  BY DEF ListHealthy, taskVars
<1> HIDE DEF seen
<1>2. nodes \in [1..MaxNodes -> Node] /\ DOMAIN nodes = 1..MaxNodes
  BY MeshTypes
<1>3. ASSUME NEW i \in 1..MaxNodes
      PROVE  /\ nodes'[i] \in Node /\ nodes'[i].name = nodes[i].name /\ nodes'[i].beat = nodes[i].beat
             /\ nodes'[i].healthy = (nodes[i].healthy /\ ~(i \in seen /\ Stale(nodes[i])))
  <2>1. nodes[i] \in Node /\ nodes[i].healthy \in BOOLEAN
    BY <1>2 DEF Node
  <2>2. CASE i \in seen /\ Stale(nodes[i])
    <3>1. nodes'[i] = [nodes[i] EXCEPT !.healthy = FALSE]
      BY <1>1, <1>2, <2>2
    <3>2. QED BY <2>1, <2>2, <3>1 DEF Node
  <2>3. CASE ~(i \in seen /\ Stale(nodes[i]))
    <3>1. nodes'[i] = nodes[i]
      BY <1>1, <1>2, <2>3
    <3>2. QED BY <2>1, <2>3, <3>1
  <2>4. QED BY <2>2, <2>3
<1>4. nodes' \in [1..MaxNodes -> Node]
  <2>1. DOMAIN nodes' = 1..MaxNodes
    BY <1>1, <1>2
  <2>2. nodes' = [i \in 1..MaxNodes |-> nodes'[i]]
    BY <1>1, <1>2
  <2>3. QED BY <1>3, <2>2
<1>5. listed' \in Nat /\ listed' <= clock
  BY <1>1, MeshTypes
<1>6. MeshTypeOK'
  BY <1>1, <1>4, <1>5 DEF MeshInv, MeshTypeOK
<1>7. PostInv' /\ HeldInv' /\ ResultsTruthful'
  <2>1. count' \in Nat /\ count <= count' /\ \A i \in Table : nodes'[i].name = nodes[i].name
    BY <1>1, <1>3, MeshTypes
  <2>2. QED BY <1>1, <2>1, TasksKeep
<1>8. HealthIsFreshness'
  <2>1. Table' = Table
    BY <1>1 DEF Table
  <2>2. \A i, k \in Table : nodes'[i].name = nodes'[k].name => i = k
    BY <1>3, MeshTypes DEF MeshInv, MeshTruthful, HealthIsFreshness
  <2>3. ASSUME NEW i \in Table
        PROVE  IF nodes'[i].healthy THEN nodes'[i].beat >= listed' - StaleAfter ELSE Stale(nodes'[i])
    <3>1. i \in 1..MaxNodes /\ nodes[i] \in Node /\ nodes[i].beat \in Nat /\ nodes[i].healthy \in BOOLEAN
      BY MeshTypes DEF Node
    <3>2. IF nodes[i].healthy THEN nodes[i].beat >= listed - StaleAfter ELSE Stale(nodes[i])
      BY DEF MeshInv, MeshTruthful, HealthIsFreshness
    <3>3. CASE ~nodes'[i].healthy
      <4>1. Stale(nodes[i])
        BY <1>3, <3>1, <3>2, <3>3
      <4>2. QED BY <1>3, <3>1, <3>3, <4>1 DEF Stale
    <3>4. CASE nodes'[i].healthy
      <4>1. nodes[i].healthy /\ ~(i \in seen /\ Stale(nodes[i])) /\ nodes'[i].beat = nodes[i].beat
        BY <1>3, <3>1, <3>4
      <4>2. CASE seen = Table
        <5>1. ~(nodes[i].beat < clock - StaleAfter)
          BY <4>1, <4>2 DEF Stale
        <5>2. nodes[i].beat >= clock - StaleAfter
          BY <3>1, <5>1, MeshTypes, MeshSizes
        <5>3. QED BY <1>1, <3>4, <4>1, <4>2, <5>2
      <4>3. CASE seen # Table
        BY <1>1, <3>2, <3>4, <4>1, <4>3
      <4>4. QED BY <4>2, <4>3
    <3>5. QED BY <3>3, <3>4
  <2>4. QED BY <1>1, <2>1, <2>2, <2>3 DEF HealthIsFreshness, Stale
<1>9. QED BY <1>6, <1>7, <1>8 DEF MeshInv, MeshTruthful

-----------------------------------------------------------------------------
(* The steps of a task. *)
LEMMA DispatchKeeps ==
  ASSUME MeshInv, NEW tool, Dispatch(tool)
  PROVE  MeshInv'
<1>1. /\ Free /\ begun' = begun + 1
      /\ UNCHANGED <<clock, nodes, count, wire, trail, executed, listed>>
  BY DEF Dispatch, captainVars
<1>2. HealthIsFreshness'
  BY <1>1, TableKeeps, MeshTypes
<1>3. CASE Capable(tool) = {}
  <2>1. held' = NoResult /\ post' = post
    BY <1>3 DEF Dispatch
  <2>2. NoResult \in [at : Nat, task : Nat, node : Names, success : BOOLEAN, before : SUBSET Names]
    BY DEF NoResult, Names
  <2>3. MeshTypeOK'
    BY <1>1, <2>1, <2>2 DEF MeshInv, MeshTypeOK
  <2>4. PostInv'
    BY <1>1, <2>1 DEF PostInv, Free
  <2>5. HeldInv' /\ ResultsTruthful'
    BY <1>1, <2>1 DEF MeshInv, MeshTruthful, HeldInv, ResultsTruthful, NoResult
  <2>6. QED BY <1>2, <2>3, <2>4, <2>5 DEF MeshInv, MeshTruthful
<1>4. CASE Capable(tool) # {}
  <2> DEFINE p == Route(tool)
  <2>1. p \in Table
    BY <1>4, RouteOf
  <2>2. post' = [phase |-> "posted", at |-> p, task |-> begun + 1, node |-> nodes[p].name] /\ held' = held
    BY <1>4 DEF Dispatch
  <2> HIDE DEF p
  <2>3. p \in Nat /\ nodes[p].name \in Names
    BY <2>1, MeshTypes DEF Table, Node
  <2>4. MeshTypeOK'
    <3>1. begun + 1 \in Nat
      BY DEF MeshInv, MeshTypeOK
    <3>2. post' \in [phase : {"none", "posted", "answered", "silent"}, at : Nat, task : Nat, node : Names]
      BY <2>2, <2>3, <3>1
    <3>3. QED BY <1>1, <2>2, <3>1, <3>2 DEF MeshInv, MeshTypeOK
  <2>5. PostInv'
    BY <1>1, <2>1, <2>2 DEF PostInv, Table
  <2>6. HeldInv' /\ ResultsTruthful'
    BY <1>1, <2>2 DEF MeshInv, MeshTruthful, HeldInv, ResultsTruthful, Table
  <2>7. QED BY <1>2, <2>4, <2>5, <2>6 DEF MeshInv, MeshTruthful
<1>5. QED BY <1>3, <1>4

LEMMA NodeExecutesKeeps ==
  ASSUME MeshInv, NodeExecutes
  PROVE  MeshInv'
<1>1. /\ post.phase = "posted"
      /\ executed' = executed \union {<<post.node, post.task>>}
      /\ UNCHANGED <<clock, nodes, count, wire, held, trail, begun, listed>>
  BY DEF NodeExecutes, captainVars
<1>2. PICK phase \in {"answered", "silent"} : post' = [post EXCEPT !.phase = phase]
  BY DEF NodeExecutes
<1>3. HealthIsFreshness'
  BY <1>1, TableKeeps, MeshTypes
<1>4. /\ post' \in [phase : {"none", "posted", "answered", "silent"}, at : Nat, task : Nat, node : Names]
      /\ post'.at = post.at /\ post'.task = post.task /\ post'.node = post.node
  BY <1>2 DEF MeshInv, MeshTypeOK
<1>5. MeshTypeOK'
  BY <1>1, <1>4 DEF MeshInv, MeshTypeOK
<1>6. PostInv'
  BY <1>1, <1>4 DEF MeshInv, PostInv, Free, Table
<1>7. HeldInv' /\ ResultsTruthful'
  BY <1>1 DEF MeshInv, MeshTruthful, HeldInv, ResultsTruthful, Table
<1>8. QED BY <1>3, <1>5, <1>6, <1>7 DEF MeshInv, MeshTruthful

(* What comes of a task is held, with the nodes up to the one it was sent  *)
(* to; only one that was executed may be called a success.                 *)
LEMMA ResultHeld ==
  ASSUME MeshInv, ~Free, NEW success \in BOOLEAN, success => post.phase = "answered",
         held' = Result(success), post' = NoPost,
         \/ trail' = trail
         \/ trail' = Append(trail, [task |-> post.task, node |-> post.node, success |-> success]),
         UNCHANGED <<clock, nodes, count, executed, begun, listed>>
  PROVE  MeshInv'
<1> DEFINE row == [task |-> post.task, node |-> post.node, success |-> success]
<1>1. /\ post.at \in Table /\ nodes[post.at].name = post.node
      /\ success => <<post.node, post.task>> \in executed
  BY DEF MeshInv, PostInv
<1>2. HealthIsFreshness'
  BY TableKeeps, MeshTypes
<1>3. /\ held'.at = post.at /\ held'.task = post.task /\ held'.node = post.node
      /\ held'.success = success /\ held'.before = {nodes[i].name : i \in 1..post.at}
  BY DEF Result
<1>4. row \in Audited /\ trail \in Seq(Audited)
  BY DEF MeshInv, MeshTypeOK, Audited
<1>5. MeshTypeOK'
  <2>1. \A i \in 1..post.at : nodes[i].name \in Names
    <3>1. \A i \in 1..post.at : i \in Table
      BY <1>1, MeshTypes DEF Table
    <3>2. QED BY <3>1, MeshTypes DEF Node
  <2>2. held' \in [at : Nat, task : Nat, node : Names, success : BOOLEAN, before : SUBSET Names]
    BY <2>1 DEF Result, MeshInv, MeshTypeOK
  <2>3. NoPost \in [phase : {"none", "posted", "answered", "silent"}, at : Nat, task : Nat, node : Names]
    BY DEF NoPost, Names
  <2>4. trail' \in Seq(Audited)
    <3> HIDE DEF row
    <3>1. QED BY <1>4, AppendProperties DEF row
  <2>5. QED BY <2>2, <2>3, <2>4 DEF MeshInv, MeshTypeOK
<1>6. PostInv'
  BY DEF PostInv, Free, NoPost
<1>7. HeldInv'
  BY <1>1, <1>3 DEF HeldInv, Table
<1>8. \A i \in DOMAIN trail' : trail'[i].success => <<trail'[i].node, trail'[i].task>> \in executed
  <2>1. \A i \in DOMAIN trail : trail[i].success => <<trail[i].node, trail[i].task>> \in executed
    BY DEF MeshInv, MeshTruthful, ResultsTruthful
  <2>2. CASE trail' = trail
    BY <2>1, <2>2
  <2>3. CASE trail' = Append(trail, row)
    <3>1. row.success => <<row.node, row.task>> \in executed
      BY <1>1
    <3> HIDE DEF row
    <3>2. /\ DOMAIN trail' = 1..Len(trail) + 1 /\ trail'[Len(trail) + 1] = row
          /\ \A i \in 1..Len(trail) : trail'[i] = trail[i]
      BY <1>4, <2>3, AppendProperties, LenProperties
    <3>3. DOMAIN trail = 1..Len(trail) /\ Len(trail) \in Nat
      BY <1>4, LenProperties
    <3>4. \A i \in 1..Len(trail) + 1 : i \in 1..Len(trail) \/ i = Len(trail) + 1
      BY <3>3
    <3>5. QED BY <2>1, <3>1, <3>2, <3>3, <3>4
  <2>4. QED BY <2>2, <2>3
<1>9. ResultsTruthful'
  BY <1>1, <1>3, <1>8 DEF ResultsTruthful
<1>10. QED BY <1>2, <1>5, <1>6, <1>7, <1>9 DEF MeshInv, MeshTruthful

-----------------------------------------------------------------------------
LEMMA MeshInitially == ASSUME MeshInit PROVE MeshInv
<1>1. Table = {} /\ DOMAIN trail = {} /\ trail \in Seq(Audited)
  BY DEF MeshInit, Table
<1>2. MeshTypeOK
  <2>1. EmptySlot \in Node
    BY DEF EmptySlot, Node, Names, CapsOf
  <2>2. nodes \in [1..MaxNodes -> Node] /\ count \in 0..MaxNodes
    BY <2>1, MeshSizes DEF MeshInit
  <2>3. NoPost \in [phase : {"none", "posted", "answered", "silent"}, at : Nat, task : Nat, node : Names]
    BY DEF NoPost, Names
  <2>4. NoResult \in [at : Nat, task : Nat, node : Names, success : BOOLEAN, before : SUBSET Names]
    BY DEF NoResult, Names
  <2>5. QED BY <1>1, <2>2, <2>3, <2>4 DEF MeshInit, MeshTypeOK
<1>3. PostInv /\ HeldInv
  BY DEF MeshInit, PostInv, HeldInv, Free, NoPost, NoResult
<1>4. HealthIsFreshness /\ ResultsTruthful
  BY <1>1 DEF MeshInit, HealthIsFreshness, ResultsTruthful, NoResult
<1>5. QED BY <1>2, <1>3, <1>4 DEF MeshInv, MeshTruthful

LEMMA MeshInvariant == MeshSpec => []MeshInv
<1>1. MeshInit => MeshInv
  BY MeshInitially
<1>2. MeshInv /\ [MeshNext]_meshVars => MeshInv'
  <2> SUFFICES ASSUME MeshInv, [MeshNext]_meshVars PROVE MeshInv'
    OBVIOUS
  <2>1. CASE Tick
    <3>1. clock' \in Nat /\ clock <= clock' /\ UNCHANGED <<captainVars, taskVars, listed>>
      BY <2>1, MeshTypes DEF Tick
    <3>2. QED BY <3>1, WireKeeps
  <2>2. ASSUME NEW c \in Crews, NEW kind \in {"register", "heartbeat"}, CrewSends(c, kind)
        PROVE  MeshInv'
    <3>1. clock' \in Nat /\ clock <= clock' /\ UNCHANGED <<captainVars, taskVars, listed>>
      BY <2>2, MeshTypes DEF CrewSends
    <3>2. QED BY <3>1, WireKeeps
  <2>3. ASSUME NEW m \in wire, Lost(m)
        PROVE  MeshInv'
    <3>1. clock' \in Nat /\ clock <= clock' /\ UNCHANGED <<captainVars, taskVars, listed>>
      BY <2>3, MeshTypes DEF Lost
    <3>2. QED BY <3>1, WireKeeps
  <2>4. CASE \E c \in Crews : Register(c) \/ Heartbeat(c) \/ RemoveNode(c)
    BY <2>4, RegisterKeeps, HeartbeatKeeps, RemoveNodeKeeps
  <2>5. CASE \E max \in {1, MaxNodes} : ListHealthy(max)
    BY <2>5, ListHealthyKeeps
  <2>6. CASE \E tool \in MeshTools : Dispatch(tool)
    BY <2>6, DispatchKeeps
  <2>7. CASE NodeExecutes
    BY <2>7, NodeExecutesKeeps
  <2>8. CASE DispatchFails
    BY <2>8, ResultHeld DEF DispatchFails, Free, captainVars
  <2>9. CASE DispatchReturns
    <3>1. PICK success \in BOOLEAN :
            /\ held' = Result(success)
            /\ trail' = Append(trail, [task |-> post.task, node |-> post.node, success |-> success])
      BY <2>9 DEF DispatchReturns
    <3>2. /\ post.phase = "answered" /\ post' = NoPost /\ ~Free
          /\ UNCHANGED <<clock, nodes, count, executed, begun, listed>>
      BY <2>9 DEF DispatchReturns, Free, captainVars
    <3>3. QED BY <3>1, <3>2, ResultHeld
  <2>10. CASE UNCHANGED meshVars
    <3>1. clock' \in Nat /\ clock <= clock' /\ UNCHANGED <<captainVars, taskVars, listed>>
      BY <2>10, MeshTypes DEF meshVars
    <3>2. QED BY <3>1, WireKeeps
  <2>11. QED
    BY <2>1, <2>2, <2>3, <2>4, <2>5, <2>6, <2>7, <2>8, <2>9, <2>10 DEF MeshNext
<1>3. QED
  BY <1>1, <1>2, PTL DEF MeshSpec

(* For any crews and any order and loss of their requests: no name is in   *)
(* the table twice, a node called healthy was fresh at the last look at    *)
(* the whole table, a success was executed by the node that is named, and  *)
(* the pointer in a result goes on naming it until a node up to it is      *)
(* removed.                                                                *)
THEOREM MeshIsTruthful == MeshSpec => []MeshTruthful
<1>1. MeshInv => MeshTruthful
  BY DEF MeshInv
<1>2. QED
  BY <1>1, MeshInvariant, PTL

-----------------------------------------------------------------------------
(***************************************************************************)
(* The files of memory, for any arena, any number of days, writes and      *)
(* restarts, texts of any length, and any end of the process between the   *)
(* steps of a write.                                                       *)
(***************************************************************************)

Files == Bootstrap \union Notes
Piece == Int \X Int

(* Types, and what the arena has left. *)
MemoryTypeOK ==
  /\ files \in [Files -> Seq(Piece)] /\ date \in 1..MaxDays
  /\ writing \in [file : Files \union {"none"}, asked : Nat, pieces : Seq(Piece), taken : BOOLEAN]
  /\ fates \in SUBSET [write : Nat, asked : Nat, fate : {"told", "refused", "cut"}]
  /\ writes \in Nat
  /\ left \in Nat /\ spent \in Nat /\ left + spent = MemoryRoom

(* MEMORY.md holds what was told and what is known of.                     *)
FileInv ==
  /\ ToldIsThere /\ OnceInOrder /\ NothingElse
  /\ \A w \in fates : w.write <= writes

(* How much of the text of the write in progress has been put.             *)
Put == Held(writing.asked) - Len(writing.pieces)

(* A write of MEMORY.md is the last, its pieces follow those it has put,   *)
(* and they are there while the disk takes them.                           *)
AppendInv ==
  /\ Put >= 0
  /\ \A i \in DOMAIN writing.pieces : writing.pieces[i] = <<writes, Put + i>>
  /\ \A i \in DOMAIN Memory : Memory[i][1] = writes => Memory[i][2] <= Put
  /\ writing.taken => \A k \in 1..Put : \E i \in DOMAIN Memory : Memory[i] = <<writes, k>>
  /\ \A w \in fates : w.write < writes

(* A headline is only written to a file that is empty.                     *)
WriteInv ==
  ~AtRest =>
    /\ writing.file \in Files
    /\ \A i \in DOMAIN writing.pieces :
         writing.pieces[i] = Header => i = 1 /\ Len(files[writing.file]) = 0
    /\ writing.file = "MEMORY.md" => AppendInv

MemoryInv == MemoryTypeOK /\ FileInv /\ WriteInv /\ HeadlinesFirst /\ SoulWhileRoom

-----------------------------------------------------------------------------
LEMMA NotesApart ==
  /\ MemoryRoom \in Nat /\ MaxDays \in Nat /\ MaxDays >= 1
  /\ "MEMORY.md" \in Files /\ "MEMORY.md" \notin Notes /\ \A n \in Notes : n \in Files
  /\ \A d \in 1..MaxDays : NoteOf[d] \in Notes
  /\ Bootstrap \intersect Notes = {} /\ "none" \notin Bootstrap
BY MemoryAssumption DEF Notes, Bootstrap, Files

(* Nothing that is read is more than what is left. *)
LEMMA ReadsWhatIsLeft ==
  ASSUME MemoryTypeOK, NEW f \in Files, NEW n \in Nat
  PROVE  /\ Read(f, n) \in Nat /\ Read(f, n) <= n
         /\ Units(f) \in Nat /\ (Read(f, n) = 0 => Units(f) = 0 \/ Units(f) > n)
<1>1. Units(f) \in Nat
  <2>1. files[f] \in Seq(Piece)
    BY DEF MemoryTypeOK
  <2>2. Len(files[f]) \in Nat
    BY <2>1, LenProperties
  <2>3. QED BY <2>2 DEF Units
<1>2. QED BY <1>1 DEF Read, Readable

(* What is on the disk and in progress is all that these parts speak of.   *)
LEMMA Untouched ==
  ASSUME FileInv, WriteInv, HeadlinesFirst, UNCHANGED <<files, writing, fates, writes>>
  PROVE  FileInv' /\ WriteInv' /\ HeadlinesFirst'
<1>1. Memory' = Memory /\ Known' = Known
  BY DEF Memory, Known
<1>2. FileInv'
  BY <1>1 DEF FileInv, ToldIsThere, OnceInOrder, NothingElse
<1>3. Put' = Put
  BY DEF Put
<1>4. AppendInv => AppendInv'
  BY <1>1, <1>3 DEF AppendInv
<1>5. WriteInv'
  BY <1>4 DEF WriteInv, AtRest
<1>6. HeadlinesFirst'
  BY DEF HeadlinesFirst
<1>7. QED BY <1>2, <1>5, <1>6

(* A reading changes nothing on the disk, and a turn may be told of. *)
LEMMA ReadingKeeps ==
  ASSUME MemoryInv, UNCHANGED diskVars, left' \in Nat, spent' \in Nat, left' + spent' = MemoryRoom,
         SoulWhileRoom'
  PROVE  MemoryInv'
<1>1. MemoryTypeOK'
  BY DEF MemoryInv, MemoryTypeOK, diskVars
<1>2. FileInv' /\ WriteInv' /\ HeadlinesFirst'
  <2>1. UNCHANGED <<files, writing, fates, writes>>
    BY DEF diskVars
  <2>2. QED BY <2>1, Untouched DEF MemoryInv
<1>3. QED BY <1>1, <1>2 DEF MemoryInv

LEMMA ReadsKeep ==
  ASSUME MemoryInv, ReadMemory \/ ReadRecent \/ \E f \in Files : ReadFile(f)
  PROVE  MemoryInv'
<1>1. /\ left \in Nat /\ spent \in Nat /\ left + spent = MemoryRoom
      /\ MemoryRoom \in Nat /\ MemoryTypeOK /\ SoulWhileRoom
  BY NotesApart DEF MemoryInv, MemoryTypeOK
<1>2. UNCHANGED diskVars /\ UNCHANGED turn
  BY DEF ReadMemory, ReadRecent, ReadFile, Takes
<1>3. SoulWhileRoom'
  BY <1>1, <1>2 DEF SoulWhileRoom
<1>4. CASE ReadMemory
  <2> DEFINE n == Read("MEMORY.md", MemoryRoom)
  <2>1. n \in Nat /\ n <= MemoryRoom
    BY <1>1, NotesApart, ReadsWhatIsLeft
  <2>2. left' = MemoryRoom - n /\ spent' = n
    BY <1>4 DEF ReadMemory
  <2> HIDE DEF n
  <2>3. QED BY <1>1, <1>2, <1>3, <2>1, <2>2, ReadingKeeps
<1>5. CASE ReadRecent
  <2>1. RecentRoom \in Nat /\ left >= RecentRoom /\ left' = left - RecentRoom /\ spent' = spent + RecentRoom
    BY <1>5, MemoryAssumption DEF ReadRecent, Takes
  <2>2. QED BY <1>1, <1>2, <1>3, <2>1, ReadingKeeps
<1>6. ASSUME NEW f \in Files, ReadFile(f)
      PROVE  MemoryInv'
  <2> DEFINE n == Read(f, left)
  <2>1. n \in Nat /\ n <= left
    BY <1>1, ReadsWhatIsLeft
  <2>2. left' = left - n /\ spent' = spent + n
    BY <1>6 DEF ReadFile, Takes
  <2> HIDE DEF n
  <2>3. QED BY <1>1, <1>2, <1>3, <2>1, <2>2, ReadingKeeps
<1>7. QED BY <1>4, <1>5, <1>6

(* A turn that goes without a SOUL.md that is there has found too little   *)
(* left, and what is left is what was not spent.                           *)
LEMMA TurnKeeps ==
  ASSUME MemoryInv, Turn
  PROVE  MemoryInv'
<1> DEFINE size == Units("SOUL.md")
           soul == Read("SOUL.md", left)
           user == Read("USER.md", left - soul)
<1>1. /\ left \in Nat /\ spent \in Nat /\ left + spent = MemoryRoom
      /\ MemoryRoom \in Nat /\ MemoryTypeOK
  BY NotesApart DEF MemoryInv, MemoryTypeOK
<1>2. "SOUL.md" \in Files /\ "USER.md" \in Files
  BY DEF Files, Bootstrap
<1>3. soul \in Nat /\ soul <= left /\ size \in Nat /\ (soul = 0 => size = 0 \/ size > left)
  BY <1>1, <1>2, ReadsWhatIsLeft
<1>4. user \in Nat /\ user <= left - soul
  <2>1. left - soul \in Nat
    BY <1>1, <1>3
  <2>2. QED BY <1>1, <1>2, <2>1, ReadsWhatIsLeft
<1>5. /\ left' = left - (soul + user) /\ spent' = spent + (soul + user) /\ UNCHANGED diskVars
      /\ turn' = [soul |-> CASE soul > 0 -> "there" [] size = 0 -> "none" [] OTHER -> "lost",
                  room |-> spent + size <= MemoryRoom]
  BY DEF Turn, Takes
<1> HIDE DEF size, soul, user
<1>6. left' \in Nat /\ spent' \in Nat /\ left' + spent' = MemoryRoom
  BY <1>1, <1>3, <1>4, <1>5
<1>7. SoulWhileRoom'
  <2>1. SUFFICES ASSUME turn'.soul = "lost"
                 PROVE  ~turn'.room
    BY DEF SoulWhileRoom
  <2>2. soul = 0 /\ size # 0
    BY <1>3, <1>5, <2>1
  <2>3. ~(spent + size <= MemoryRoom)
    BY <1>1, <1>3, <2>2
  <2>4. QED BY <1>5, <2>3
<1>8. QED BY <1>5, <1>6, <1>7, ReadingKeeps

-----------------------------------------------------------------------------
LEMMA HeldIsNat == ASSUME NEW n \in Nat PROVE Held(n) \in Nat
BY MemoryAssumption DEF Held

LEMMA MemoryIsSeq ==
  ASSUME MemoryTypeOK
  PROVE  /\ Memory \in Seq(Piece) /\ "MEMORY.md" \in Files /\ Len(Memory) \in Nat
         /\ DOMAIN Memory = 1..Len(Memory)
         /\ \A i \in DOMAIN Memory : Memory[i] = <<Memory[i][1], Memory[i][2]>>
                                     /\ Memory[i][1] \in Int /\ Memory[i][2] \in Int
<1>1. Memory \in Seq(Piece) /\ "MEMORY.md" \in Files
  BY NotesApart DEF MemoryTypeOK, Memory
<1>2. Len(Memory) \in Nat /\ DOMAIN Memory = 1..Len(Memory)
  BY <1>1, LenProperties
<1>3. \A i \in DOMAIN Memory : Memory[i] \in Piece
  BY <1>1, <1>2, ElementOfSeq
<1>4. QED BY <1>1, <1>2, <1>3 DEF Piece

(* No write is known that has not begun. *)
LEMMA KnownHaveBegun ==
  ASSUME MemoryInv
  PROVE  /\ \A n \in Known : n \in Nat /\ n <= writes
         /\ Memory # Missing
<1>1. \A n \in Known : n \in Nat /\ n <= writes
  BY DEF MemoryInv, MemoryTypeOK, FileInv, Known
<1>2. Memory # Missing
  <2>1. SUFFICES ASSUME Memory = Missing PROVE FALSE
    OBVIOUS
  <2>2. 1 \in DOMAIN Memory /\ Memory[1][1] = -1
    BY <2>1 DEF Missing
  <2>3. QED BY <1>1, <2>2 DEF MemoryInv, FileInv, NothingElse
<1>3. QED BY <1>1, <1>2

(* What will be written begins with a headline only when there is no note, *)
(* and is otherwise the text, as far as it was held.                       *)
LEMMA PiecesOf ==
  ASSUME MemoryInv, NEW f \in Files, NEW asked \in Nat
  PROVE  /\ Pieces(f, asked) \in Seq(Piece)
         /\ \A i \in DOMAIN Pieces(f, asked) :
              Pieces(f, asked)[i] = Header => i = 1 /\ f \in Notes /\ ~There(f)
         /\ f = "MEMORY.md" =>
              /\ Len(Pieces(f, asked)) = Held(asked)
              /\ \A i \in DOMAIN Pieces(f, asked) : Pieces(f, asked)[i] = <<writes + 1, i>>
<1> DEFINE n == Held(asked)
           text == [k \in 1..n |-> <<writes + 1, k>>]
           first == IF f \in Notes /\ ~There(f) THEN <<Header>> ELSE <<>>
<1>1. n \in Nat /\ writes \in Nat
  BY HeldIsNat DEF MemoryInv, MemoryTypeOK
<1> HIDE DEF n
<1>2. text \in Seq(Piece) /\ Len(text) = n /\ \A i \in 1..n : text[i] = <<writes + 1, i>>
  <2>1. \A k \in 1..n : <<writes + 1, k>> \in Piece
    BY <1>1 DEF Piece
  <2>2. text \in [1..n -> Piece]
    BY <2>1
  <2>3. QED BY <1>1, <2>2, IsASeq, LenProperties
<1>3. /\ first \in Seq(Piece) /\ Len(first) \in {0, 1}
      /\ Len(first) = 1 => f \in Notes /\ ~There(f)
      /\ f \notin Notes => first = <<>>
  BY DEF Header, Piece
<1>4. Pieces(f, asked) = first \o text
  BY DEF Pieces, first, text, n
<1> HIDE DEF text, first
<1>5. /\ first \o text \in Seq(Piece) /\ Len(first \o text) = Len(first) + n
      /\ \A i \in 1..Len(first) + n :
           (first \o text)[i] = IF i <= Len(first) THEN first[i] ELSE text[i - Len(first)]
  <2>1. Len(text) = n
    BY <1>2
  <2>2. /\ first \o text \in Seq(Piece) /\ Len(first \o text) = Len(first) + Len(text)
        /\ \A i \in 1..Len(first) + Len(text) :
             (first \o text)[i] = IF i <= Len(first) THEN first[i] ELSE text[i - Len(first)]
    BY <1>2, <1>3, ConcatProperties
  <2>3. QED BY <2>1, <2>2
<1>6. DOMAIN (first \o text) = 1..Len(first) + n
  BY <1>2, <1>3, <1>5, LenProperties
<1>7. ASSUME NEW i \in DOMAIN (first \o text), (first \o text)[i] = Header
      PROVE  i = 1 /\ Len(first) = 1
  <2>1. i \in 1..Len(first) + n
    BY <1>6
  <2>2. CASE i <= Len(first)
    <3>1. i \in Nat /\ i >= 1 /\ Len(first) \in Nat /\ (Len(first) = 0 \/ Len(first) = 1)
      BY <1>1, <1>3, <2>1
    <3>2. Len(first) = 1
      BY <2>2, <3>1
    <3>3. i = 1
      BY <2>2, <3>1, <3>2
    <3>4. QED BY <3>2, <3>3
  <2>3. CASE ~(i <= Len(first))
    <3>1. i - Len(first) \in 1..n
      BY <1>1, <1>2, <1>3, <2>1, <2>3
    <3>2. (first \o text)[i] = <<writes + 1, i - Len(first)>>
      BY <1>2, <1>5, <2>1, <2>3, <3>1
    <3>3. writes + 1 = 0
      BY <1>7, <3>2 DEF Header
    <3>4. QED BY <1>1, <3>3
  <2>4. QED BY <2>2, <2>3
<1>8. ASSUME f = "MEMORY.md"
      PROVE  /\ Len(first \o text) = n
             /\ \A i \in DOMAIN (first \o text) : (first \o text)[i] = <<writes + 1, i>>
  <2>1. first = <<>> /\ Len(first) = 0
    BY <1>3, <1>8, NotesApart
  <2>2. first \o text = text
    BY <1>2, <2>1, ConcatEmptySeq
  <2>3. DOMAIN text = 1..n
    BY <1>2, LenProperties
  <2>4. QED BY <1>2, <2>2, <2>3
<1>9. QED BY <1>3, <1>4, <1>5, <1>7, <1>8 DEF n

(* Under an appending MEMORY.md stays; under an overwriting it is empty,   *)
(* and nothing has been told of it.                                        *)
LEMMA WriteBeginsKeeps ==
  ASSUME MemoryInv, NEW f \in Files, NEW mode \in {"w", "a"}, NEW asked \in Nat,
         WriteBegins(f, mode, asked)
  PROVE  MemoryInv'
<1>1. /\ AtRest /\ writes' = writes + 1
      /\ writing' = [file |-> f, asked |-> asked, pieces |-> Pieces(f, asked), taken |-> TRUE]
      /\ files' = IF mode = "w" \/ ~There(f) THEN [files EXCEPT ![f] = <<>>] ELSE files
      /\ fates' = IF f = "MEMORY.md" /\ mode = "w" THEN {} ELSE fates
      /\ UNCHANGED <<date, left, turn, spent, restarts>>
  BY DEF WriteBegins
<1>2. /\ files \in [Files -> Seq(Piece)] /\ <<>> \in Seq(Piece) /\ MemoryTypeOK /\ writes \in Nat
  BY DEF MemoryInv, MemoryTypeOK
<1>3. files' \in [Files -> Seq(Piece)]
  BY <1>1, <1>2
<1>4. /\ files'[f] = IF mode = "w" \/ ~There(f) THEN <<>> ELSE files[f]
      /\ \A k \in Files : k # f => files'[k] = files[k]
  BY <1>1, <1>2
<1>5. MemoryTypeOK'
  <2>1. writing' \in [file : Files \union {"none"}, asked : Nat, pieces : Seq(Piece), taken : BOOLEAN]
    BY <1>1, PiecesOf
  <2>2. fates' \in SUBSET [write : Nat, asked : Nat, fate : {"told", "refused", "cut"}]
    BY <1>1 DEF MemoryInv, MemoryTypeOK
  <2>3. writes' \in Nat
    BY <1>1, <1>2
  <2>4. QED BY <1>1, <1>3, <2>1, <2>2, <2>3 DEF MemoryInv, MemoryTypeOK
<1>6. There("MEMORY.md") /\ "MEMORY.md" \in Files
  BY KnownHaveBegun, NotesApart DEF There, Memory
<1>7. \/ Memory' = Memory /\ fates' = fates
      \/ Memory' = <<>> /\ fates' \in {{}, fates} /\ f = "MEMORY.md" /\ fates' = {}
  BY <1>1, <1>4, <1>6 DEF Memory
<1>8. /\ \A w \in fates' : w \in fates /\ w.write <= writes /\ w.write \in Nat
      /\ \A n \in Known : n \in Nat /\ n <= writes
      /\ Known \subseteq {w.write : w \in fates}
  <2>1. writing.file # "MEMORY.md"
    BY <1>1 DEF AtRest
  <2>2. QED BY <1>1, <2>1, KnownHaveBegun DEF MemoryInv, FileInv, MemoryTypeOK, Known
<1>9. FileInv'
  <2>1. \A w \in fates' : w.write <= writes'
    BY <1>1, <1>2, <1>8
  <2>2. CASE Memory' = Memory /\ fates' = fates
    <3>1. Known \subseteq Known'
      BY <1>8, <2>2 DEF Known
    <3>2. QED BY <2>1, <2>2, <3>1 DEF MemoryInv, FileInv, ToldIsThere, OnceInOrder, NothingElse
  <2>3. CASE Memory' = <<>> /\ fates' = {}
    <3>1. DOMAIN Memory' = {}
      BY <2>3
    <3>2. QED BY <2>1, <2>3, <3>1 DEF FileInv, ToldIsThere, OnceInOrder, NothingElse
  <2>4. QED BY <1>7, <2>2, <2>3
<1>10. WriteInv'
  <2>1. writing'.file = f /\ writing'.pieces = Pieces(f, asked) /\ writing'.asked = asked
    BY <1>1
  <2>2. ~There(f) => Len(files'[f]) = 0
    BY <1>4
  <2>3. \A i \in DOMAIN Pieces(f, asked) : Pieces(f, asked)[i] = Header => i = 1 /\ Len(files'[f]) = 0
    BY <2>2, PiecesOf
  <2>4. ASSUME f = "MEMORY.md"
        PROVE  AppendInv'
    <3>1. /\ Len(Pieces(f, asked)) = Held(asked) /\ Held(asked) \in Nat
          /\ \A i \in DOMAIN Pieces(f, asked) : Pieces(f, asked)[i] = <<writes + 1, i>>
      BY <2>4, PiecesOf, HeldIsNat
    <3>2. Put' = 0
      BY <2>1, <3>1 DEF Put
    <3>3. \A i \in DOMAIN Pieces(f, asked) : i \in Nat
      <4>1. Pieces(f, asked) \in Seq(Piece)
        BY PiecesOf
      <4>2. QED BY <4>1, LenProperties
    <3>4. \A i \in DOMAIN writing'.pieces : writing'.pieces[i] = <<writes', Put' + i>>
      BY <1>1, <2>1, <3>1, <3>2, <3>3
    <3>5. \A i \in DOMAIN Memory' : Memory'[i][1] # writes'
      <4>1. CASE Memory' = <<>>
        BY <4>1
      <4>2. CASE Memory' = Memory
        <5>1. \A i \in DOMAIN Memory : Memory[i][1] \in Known
          BY DEF MemoryInv, FileInv, NothingElse
        <5>2. QED BY <1>1, <1>2, <1>8, <4>2, <5>1
      <4>3. QED BY <1>7, <4>1, <4>2
    <3>6. \A w \in fates' : w.write < writes'
      BY <1>1, <1>2, <1>8
    <3>7. \A k \in 1..Put' : FALSE
      BY <3>2
    <3>8. QED BY <3>2, <3>4, <3>5, <3>6, <3>7 DEF AppendInv
  <2>5. QED BY <2>1, <2>3, <2>4 DEF WriteInv
<1>11. HeadlinesFirst'
  <2>1. SUFFICES ASSUME NEW n \in Notes
                 PROVE  \A i \in DOMAIN files'[n] : files'[n][i] = Header => i = 1
    BY DEF HeadlinesFirst
  <2>2. files'[n] \in {<<>>, files[n]}
    BY <1>4, NotesApart
  <2>3. CASE files'[n] = <<>>
    BY <2>3
  <2>4. CASE files'[n] = files[n]
    BY <2>4 DEF MemoryInv, HeadlinesFirst
  <2>5. QED BY <2>2, <2>3, <2>4
<1>12. SoulWhileRoom'
  BY <1>1 DEF MemoryInv, SoulWhileRoom
<1>13. QED BY <1>5, <1>9, <1>10, <1>11, <1>12 DEF MemoryInv

(* What follows a piece that was put, or refused, is as before.            *)
LEMMA PutsTypes ==
  ASSUME MemoryInv, NEW kept \in BOOLEAN, Puts(kept)
  PROVE  /\ writing.file \in Files /\ ~AtRest
         /\ Head(writing.pieces) \in Piece /\ 1 \in DOMAIN writing.pieces
         /\ Head(writing.pieces) = writing.pieces[1]
         /\ files'[writing.file] = (IF kept THEN Append(files[writing.file], Head(writing.pieces))
                                    ELSE files[writing.file])
         /\ \A k \in Files : k # writing.file => files'[k] = files[k]
         /\ writing'.file = writing.file /\ writing'.asked = writing.asked
         /\ writing'.pieces = Tail(writing.pieces) /\ writing'.taken = (writing.taken /\ kept)
         /\ Len(writing'.pieces) = Len(writing.pieces) - 1 /\ Len(writing.pieces) \in Nat
         /\ \A i \in DOMAIN writing'.pieces :
              i \in Nat /\ i >= 1 /\ i + 1 \in DOMAIN writing.pieces
              /\ writing'.pieces[i] = writing.pieces[i + 1]
         /\ UNCHANGED <<date, left, turn, fates, spent, writes, restarts>>
         /\ MemoryTypeOK'
<1>1. /\ ~AtRest /\ writing.pieces # <<>>
      /\ files' = IF kept THEN [files EXCEPT ![writing.file] = Append(@, Head(writing.pieces))]
                  ELSE files
      /\ writing' = [writing EXCEPT !.pieces = Tail(@), !.taken = @ /\ kept]
      /\ UNCHANGED <<date, left, turn, fates, spent, writes, restarts>>
  BY DEF Puts
<1>2. writing \in [file : Files \union {"none"}, asked : Nat, pieces : Seq(Piece), taken : BOOLEAN]
      /\ files \in [Files -> Seq(Piece)] /\ writing.pieces \in Seq(Piece)
  BY DEF MemoryInv, MemoryTypeOK
<1>3. ~AtRest /\ writing.file \in Files
  BY <1>1, <1>2 DEF MemoryInv, WriteInv, AtRest
<1>4. /\ Head(writing.pieces) \in Piece /\ Tail(writing.pieces) \in Seq(Piece)
      /\ Len(Tail(writing.pieces)) = Len(writing.pieces) - 1
      /\ \A i \in 1..Len(Tail(writing.pieces)) : Tail(writing.pieces)[i] = writing.pieces[i + 1]
  BY <1>1, <1>2, HeadTailProperties
<1>5. /\ Len(writing.pieces) \in Nat /\ DOMAIN writing.pieces = 1..Len(writing.pieces)
      /\ DOMAIN Tail(writing.pieces) = 1..Len(Tail(writing.pieces))
      /\ Len(Tail(writing.pieces)) \in Nat
  BY <1>2, <1>4, LenProperties
<1>6. Head(writing.pieces) = writing.pieces[1]
  BY <1>1, <1>2
<1>7. /\ writing'.file = writing.file /\ writing'.asked = writing.asked
      /\ writing'.pieces = Tail(writing.pieces) /\ writing'.taken = (writing.taken /\ kept)
      /\ writing' \in [file : Files \union {"none"}, asked : Nat, pieces : Seq(Piece), taken : BOOLEAN]
  BY <1>1, <1>2, <1>4
<1>8. \A i \in DOMAIN writing'.pieces :
        i \in Nat /\ i >= 1 /\ i + 1 \in DOMAIN writing.pieces
        /\ writing'.pieces[i] = writing.pieces[i + 1]
  <2> SUFFICES ASSUME NEW i \in DOMAIN Tail(writing.pieces)
               PROVE  i \in Nat /\ i >= 1 /\ i + 1 \in DOMAIN writing.pieces
                      /\ Tail(writing.pieces)[i] = writing.pieces[i + 1]
    BY <1>7
  <2>1. i \in 1..Len(Tail(writing.pieces))
    BY <1>5
  <2>2. QED BY <1>4, <1>5, <2>1
<1>9. 1 \in DOMAIN writing.pieces
  BY <1>4, <1>5
<1>10. Append(files[writing.file], Head(writing.pieces)) \in Seq(Piece)
  BY <1>2, <1>3, <1>4, AppendProperties
<1>11. files' \in [Files -> Seq(Piece)]
  BY <1>1, <1>2, <1>10
<1>12. /\ files'[writing.file] = (IF kept THEN Append(files[writing.file], Head(writing.pieces))
                                  ELSE files[writing.file])
       /\ \A k \in Files : k # writing.file => files'[k] = files[k]
  BY <1>1, <1>2, <1>3
<1>13. MemoryTypeOK'
  BY <1>1, <1>7, <1>11 DEF MemoryInv, MemoryTypeOK
<1>14. QED BY <1>1, <1>3, <1>4, <1>5, <1>6, <1>7, <1>8, <1>9, <1>12, <1>13

(* A piece of MEMORY.md goes behind all others. *)
LEMMA PutsMemory ==
  ASSUME MemoryInv, NEW kept \in BOOLEAN, Puts(kept), writing.file = "MEMORY.md"
  PROVE  FileInv' /\ AppendInv'
<1> DEFINE new == Head(writing.pieces)
           n == Len(Memory)
<1>1. /\ AppendInv /\ FileInv /\ MemoryTypeOK
      /\ writes \in Nat /\ Put' = Put + 1 /\ Put \in Nat
  <2>1. AppendInv /\ FileInv /\ MemoryTypeOK /\ writes \in Nat
    BY PutsTypes DEF MemoryInv, WriteInv, MemoryTypeOK
  <2>2. Held(writing.asked) \in Nat /\ Len(writing.pieces) \in Nat
    BY <2>1, HeldIsNat, PutsTypes DEF MemoryTypeOK
  <2>3. QED BY <2>1, <2>2, PutsTypes DEF AppendInv, Put
<1>2. new = <<writes, Put + 1>> /\ new \in Piece
  BY <1>1, PutsTypes DEF AppendInv
<1>3. /\ Memory \in Seq(Piece) /\ n \in Nat /\ DOMAIN Memory = 1..n
      /\ \A i \in DOMAIN Memory : Memory[i][1] \in Int /\ Memory[i][2] \in Int
  BY <1>1, MemoryIsSeq
<1> HIDE DEF new, n
<1>4. /\ Memory' = (IF kept THEN Append(Memory, new) ELSE Memory)
      /\ fates' = fates /\ writes' = writes /\ Known' = Known /\ writes \in Known
  BY PutsTypes DEF Memory, new, Known
<1>5. /\ Append(Memory, new) \in Seq(Piece) /\ Len(Append(Memory, new)) = n + 1
      /\ \A i \in 1..n : Append(Memory, new)[i] = Memory[i]
      /\ Append(Memory, new)[n + 1] = new
  BY <1>2, <1>3, AppendProperties DEF n
<1>6. kept => /\ DOMAIN Memory' = 1..n + 1 /\ Memory'[n + 1] = <<writes, Put + 1>>
              /\ \A i \in DOMAIN Memory : i \in DOMAIN Memory' /\ Memory'[i] = Memory[i]
              /\ \A i \in DOMAIN Memory' : i \in DOMAIN Memory \/ i = n + 1
  <2>1. DOMAIN Append(Memory, new) = 1..n + 1
    BY <1>5, LenProperties
  <2>2. QED BY <1>2, <1>3, <1>4, <1>5, <2>1
<1>7. \A i \in DOMAIN Memory : Precedes(Memory[i], <<writes, Put + 1>>)
  <2>1. SUFFICES ASSUME NEW i \in DOMAIN Memory
                 PROVE  Memory[i][1] < writes \/ (Memory[i][1] = writes /\ Memory[i][2] < Put + 1)
    BY DEF Precedes
  <2>2. Memory[i][1] <= writes /\ (Memory[i][1] = writes => Memory[i][2] <= Put)
    BY <1>1, KnownHaveBegun DEF FileInv, NothingElse, AppendInv
  <2>3. QED BY <1>1, <1>3, <2>2
<1>8. ToldIsThere'
  <2>1. SUFFICES ASSUME NEW w \in fates, w.fate = "told", NEW k \in 1..Held(w.asked)
                 PROVE  \E i \in DOMAIN Memory' : Memory'[i] = <<w.write, k>>
    BY <1>4 DEF ToldIsThere
  <2>2. PICK i \in DOMAIN Memory : Memory[i] = <<w.write, k>>
    BY <1>1, <2>1 DEF FileInv, ToldIsThere
  <2>3. QED BY <1>4, <1>6, <2>2
<1>9. OnceInOrder'
  <2>1. SUFFICES ASSUME NEW i \in DOMAIN Memory', NEW j \in DOMAIN Memory', i < j
                 PROVE  Precedes(Memory'[i], Memory'[j])
    BY DEF OnceInOrder
  <2>2. CASE ~kept
    BY <1>1, <1>4, <2>1, <2>2 DEF FileInv, OnceInOrder
  <2>3. CASE kept
    <3>1. i \in DOMAIN Memory
      BY <1>3, <1>6, <2>1, <2>3
    <3>2. CASE j \in DOMAIN Memory
      <4>1. Precedes(Memory[i], Memory[j])
        BY <1>1, <2>1, <3>1, <3>2 DEF FileInv, OnceInOrder
      <4>2. QED BY <1>6, <2>3, <3>1, <3>2, <4>1
    <3>3. CASE j = n + 1
      BY <1>6, <1>7, <2>3, <3>1, <3>3
    <3>4. QED BY <1>6, <2>1, <2>3, <3>2, <3>3
  <2>4. QED BY <2>2, <2>3
<1>10. NothingElse'
  <2>1. SUFFICES ASSUME NEW i \in DOMAIN Memory'
                 PROVE  Memory'[i][1] \in Known
    BY <1>4 DEF NothingElse
  <2>2. CASE i \in DOMAIN Memory /\ Memory'[i] = Memory[i]
    BY <1>1, <2>2 DEF FileInv, NothingElse
  <2>3. CASE Memory'[i] = <<writes, Put + 1>>
    BY <1>4, <2>3
  <2>4. QED BY <1>4, <1>6, <2>1, <2>2, <2>3
<1>11. FileInv'
  BY <1>1, <1>4, <1>8, <1>9, <1>10 DEF FileInv
<1>12. Put' >= 0
  BY <1>1
<1>13. \A i \in DOMAIN writing'.pieces : writing'.pieces[i] = <<writes', Put' + i>>
  <2>1. SUFFICES ASSUME NEW i \in DOMAIN writing'.pieces
                 PROVE  writing'.pieces[i] = <<writes, Put' + i>>
    BY <1>4
  <2>2. /\ i \in Nat /\ i + 1 \in DOMAIN writing.pieces
        /\ writing'.pieces[i] = writing.pieces[i + 1]
    BY PutsTypes
  <2>3. writing.pieces[i + 1] = <<writes, Put + (i + 1)>>
    BY <1>1, <2>2 DEF AppendInv
  <2>4. Put + (i + 1) = Put' + i
    BY <1>1, <2>2
  <2>5. QED BY <2>2, <2>3, <2>4
<1>14. \A i \in DOMAIN Memory' : Memory'[i][1] = writes' => Memory'[i][2] <= Put'
  <2>1. SUFFICES ASSUME NEW i \in DOMAIN Memory', Memory'[i][1] = writes
                 PROVE  Memory'[i][2] <= Put + 1
    BY <1>1, <1>4
  <2>2. CASE i \in DOMAIN Memory /\ Memory'[i] = Memory[i]
    <3>1. Memory[i][2] <= Put /\ Memory[i][2] \in Int
      BY <1>1, <1>3, <2>1, <2>2 DEF AppendInv
    <3>2. QED BY <1>1, <2>2, <3>1
  <2>3. CASE Memory'[i] = <<writes, Put + 1>>
    BY <1>1, <2>3
  <2>4. QED BY <1>4, <1>6, <2>1, <2>2, <2>3
<1>15. ASSUME writing'.taken, NEW k \in 1..Put'
       PROVE  \E i \in DOMAIN Memory' : Memory'[i] = <<writes', k>>
  <2>1. kept /\ writing.taken
    BY <1>15, PutsTypes
  <2>2. CASE k = Put + 1
    <3>1. n + 1 \in DOMAIN Memory'
      BY <1>3, <1>6, <2>1
    <3>2. QED BY <1>4, <1>6, <2>1, <2>2, <3>1
  <2>3. CASE k # Put + 1
    <3>1. k \in 1..Put
      BY <1>1, <1>15, <2>3
    <3>2. PICK i \in DOMAIN Memory : Memory[i] = <<writes, k>>
      BY <1>1, <2>1, <3>1 DEF AppendInv
    <3>3. QED BY <1>4, <1>6, <2>1, <3>2
  <2>4. QED BY <2>2, <2>3
<1>16. \A w \in fates' : w.write < writes'
  BY <1>1, <1>4 DEF AppendInv
<1>17. AppendInv'
  BY <1>12, <1>13, <1>14, <1>15, <1>16 DEF AppendInv
<1>18. QED BY <1>11, <1>17

LEMMA PutsKeeps ==
  ASSUME MemoryInv, NEW kept \in BOOLEAN, Puts(kept)
  PROVE  MemoryInv'
<1> DEFINE f == writing.file
           new == Head(writing.pieces)
<1>1. f \in Files /\ files[f] \in Seq(Piece) /\ "MEMORY.md" \in Files
  BY PutsTypes, NotesApart DEF MemoryInv, MemoryTypeOK
<1>2. /\ \A i \in DOMAIN writing.pieces : writing.pieces[i] = Header => i = 1 /\ Len(files[f]) = 0
      /\ new = writing.pieces[1] /\ 1 \in DOMAIN writing.pieces /\ new \in Piece
  BY PutsTypes DEF MemoryInv, WriteInv
<1>3. /\ files'[f] = (IF kept THEN Append(files[f], new) ELSE files[f])
      /\ \A k \in Files : k # f => files'[k] = files[k]
  BY PutsTypes
<1>4. FileInv'
  <2>1. CASE f = "MEMORY.md"
    BY <2>1, PutsMemory
  <2>2. CASE f # "MEMORY.md"
    <3>1. Memory' = Memory
      BY <1>1, <1>3, <2>2 DEF Memory
    <3>2. Known' = Known /\ UNCHANGED <<fates, writes>>
      BY PutsTypes DEF Known
    <3>3. QED BY <3>1, <3>2 DEF MemoryInv, FileInv, ToldIsThere, OnceInOrder, NothingElse
  <2>3. QED BY <2>1, <2>2
<1>5. WriteInv'
  <2>1. \A i \in DOMAIN writing'.pieces : writing'.pieces[i] # Header
    BY <1>2, PutsTypes
  <2>2. writing'.file = f
    BY PutsTypes
  <2>3. writing'.file = "MEMORY.md" => AppendInv'
    BY <2>2, PutsMemory
  <2>4. QED BY <1>1, <2>1, <2>2, <2>3 DEF WriteInv
<1>6. HeadlinesFirst'
  <2>1. SUFFICES ASSUME NEW n \in Notes, NEW i \in DOMAIN files'[n], files'[n][i] = Header
                 PROVE  i = 1
    BY DEF HeadlinesFirst
  <2>2. \A j \in DOMAIN files[n] : files[n][j] = Header => j = 1
    BY DEF MemoryInv, HeadlinesFirst
  <2>3. CASE n # f \/ ~kept
    BY <1>3, <2>1, <2>2, <2>3, NotesApart
  <2>4. CASE n = f /\ kept
    <3> DEFINE old == files[f]
    <3>1. old \in Seq(Piece) /\ Len(old) \in Nat /\ DOMAIN old = 1..Len(old)
      BY <1>1, LenProperties
    <3> HIDE DEF old, new
    <3>2. /\ Append(old, new) \in Seq(Piece) /\ Len(Append(old, new)) = Len(old) + 1
          /\ \A j \in 1..Len(old) : Append(old, new)[j] = old[j]
          /\ Append(old, new)[Len(old) + 1] = new
      BY <1>2, <3>1, AppendProperties
    <3>3. files'[n] = Append(old, new)
      BY <1>3, <2>4 DEF old
    <3>4. i \in 1..Len(old) + 1
      BY <2>1, <3>2, <3>3, LenProperties
    <3>5. CASE i \in 1..Len(old)
      <4>1. old[i] = Header /\ i \in DOMAIN old
        BY <2>1, <3>1, <3>2, <3>3, <3>5
      <4>2. QED BY <2>2, <2>4, <4>1 DEF old
    <3>6. CASE i = Len(old) + 1
      <4>1. new = Header
        BY <2>1, <3>2, <3>3, <3>6
      <4>2. Len(old) = 0
        BY <1>2, <4>1 DEF old
      <4>3. QED BY <3>6, <4>2
    <3>7. QED BY <3>1, <3>4, <3>5, <3>6
  <2>5. QED BY <2>3, <2>4
<1>7. SoulWhileRoom'
  BY PutsTypes DEF MemoryInv, SoulWhileRoom
<1>8. QED BY <1>4, <1>5, <1>6, <1>7, PutsTypes DEF MemoryInv

(* A write that has put all it held is told of; what the disk took of it   *)
(* is all there.                                                           *)
LEMMA FatesGrow ==
  ASSUME MemoryInv, NEW fate \in {"told", "refused", "cut"},
         fates' = fates \union Fate(fate), writing' = NoWrite, writes' = writes,
         fate = "told" => writing.taken /\ writing.pieces = <<>>,
         Memory' = Memory
  PROVE  FileInv' /\ WriteInv'
         /\ fates' \in SUBSET [write : Nat, asked : Nat, fate : {"told", "refused", "cut"}]
<1>1. /\ writing.asked \in Nat /\ writes \in Nat /\ FileInv
      /\ fates \in SUBSET [write : Nat, asked : Nat, fate : {"told", "refused", "cut"}]
  BY DEF MemoryInv, MemoryTypeOK
<1> DEFINE new == [write |-> writes, asked |-> writing.asked, fate |-> fate]
<1>2. \/ writing.file # "MEMORY.md" /\ fates' = fates
      \/ writing.file = "MEMORY.md" /\ fates' = fates \union {new}
  BY DEF Fate
<1>3. new \in [write : Nat, asked : Nat, fate : {"told", "refused", "cut"}] /\ new.write = writes
      /\ new.asked = writing.asked /\ new.fate = fate
  BY <1>1
<1> HIDE DEF new
<1>4. \A w \in fates' : w.write <= writes'
  BY <1>1, <1>2, <1>3 DEF FileInv
<1>5. Known \subseteq Known'
  BY <1>2, <1>3 DEF Known
<1>6. ToldIsThere'
  <2>1. SUFFICES ASSUME NEW w \in fates', w.fate = "told", NEW k \in 1..Held(w.asked)
                 PROVE  \E i \in DOMAIN Memory : Memory[i] = <<w.write, k>>
    BY DEF ToldIsThere
  <2>2. CASE w \in fates
    BY <1>1, <2>1, <2>2 DEF FileInv, ToldIsThere
  <2>3. CASE w = new /\ writing.file = "MEMORY.md"
    <3>1. AppendInv /\ writing.taken /\ writing.pieces = <<>>
      BY <1>3, <2>1, <2>3, NotesApart DEF MemoryInv, WriteInv, AtRest
    <3>2. Put = Held(writing.asked)
      BY <1>1, <3>1, HeldIsNat DEF Put
    <3>3. QED BY <1>3, <2>1, <2>3, <3>1, <3>2 DEF AppendInv
  <2>4. QED BY <1>2, <2>1, <2>2, <2>3
<1>7. FileInv'
  BY <1>1, <1>4, <1>5, <1>6 DEF FileInv, OnceInOrder, NothingElse
<1>8. WriteInv'
  BY DEF WriteInv, AtRest, NoWrite
<1>9. QED BY <1>1, <1>2, <1>3, <1>7, <1>8

LEMMA NothingInProgress ==
  NoWrite \in [file : Files \union {"none"}, asked : Nat, pieces : Seq(Piece), taken : BOOLEAN]
BY DEF NoWrite

LEMMA WriteEndsKeeps ==
  ASSUME MemoryInv, WriteEnds
  PROVE  MemoryInv'
<1>1. /\ writing.pieces = <<>> /\ writing' = NoWrite
      /\ UNCHANGED <<files, date, left, turn, spent, writes, restarts>>
  BY DEF WriteEnds
<1>2. PICK fate \in {"told", "refused"} :
        fates' = fates \union Fate(fate) /\ (fate = "told" => writing.taken)
  <2>1. CASE writing.taken
    BY <2>1 DEF WriteEnds
  <2>2. CASE ~writing.taken
    BY <2>2 DEF WriteEnds
  <2>3. QED BY <2>1, <2>2
<1>3. FileInv' /\ WriteInv'
      /\ fates' \in SUBSET [write : Nat, asked : Nat, fate : {"told", "refused", "cut"}]
  BY <1>1, <1>2, FatesGrow DEF Memory
<1>4. MemoryTypeOK'
  BY <1>1, <1>3, NothingInProgress DEF MemoryInv, MemoryTypeOK
<1>5. HeadlinesFirst' /\ SoulWhileRoom'
  BY <1>1 DEF MemoryInv, HeadlinesFirst, SoulWhileRoom
<1>6. QED BY <1>3, <1>4, <1>5 DEF MemoryInv

-----------------------------------------------------------------------------
LEMMA MemoryRestartKeeps ==
  ASSUME MemoryInv, Restart
  PROVE  MemoryInv'
<1>1. /\ left' = MemoryRoom /\ spent' = 0 /\ writing' = NoWrite /\ turn' = NoTurn
      /\ files' = [f \in DOMAIN files |->
                    IF f \in Bootstrap /\ files[f] = Missing THEN Default ELSE files[f]]
      /\ fates' = fates \union Fate("cut") /\ UNCHANGED <<date, writes>>
  BY DEF Restart
<1>2. files \in [Files -> Seq(Piece)] /\ DOMAIN files = Files /\ Default \in Seq(Piece)
  BY DEF MemoryInv, MemoryTypeOK, Default, Header, Piece
<1>3. Memory' = Memory
  BY <1>1, <1>2, NotesApart, KnownHaveBegun DEF Memory
<1>4. FileInv' /\ WriteInv'
      /\ fates' \in SUBSET [write : Nat, asked : Nat, fate : {"told", "refused", "cut"}]
  BY <1>1, <1>3, FatesGrow
<1>5. MemoryTypeOK'
  <2>1. files' \in [Files -> Seq(Piece)]
    BY <1>1, <1>2
  <2>2. MemoryRoom \in Nat /\ MemoryRoom + 0 = MemoryRoom
    BY NotesApart
  <2>3. QED BY <1>1, <1>4, <2>1, <2>2, NothingInProgress DEF MemoryInv, MemoryTypeOK
<1>6. HeadlinesFirst'
  <2>1. \A n \in Notes : files'[n] = files[n]
    BY <1>1, <1>2, NotesApart
  <2>2. QED BY <2>1 DEF MemoryInv, HeadlinesFirst
<1>7. SoulWhileRoom'
  BY <1>1 DEF SoulWhileRoom, NoTurn
<1>8. QED BY <1>4, <1>5, <1>6, <1>7 DEF MemoryInv

LEMMA UserRemovesKeeps ==
  ASSUME MemoryInv, NEW f \in Bootstrap, UserRemoves(f)
  PROVE  MemoryInv'
<1>1. PICK content \in {Missing, <<>>} : files' = [files EXCEPT ![f] = content]
  BY DEF UserRemoves
<1>2. /\ AtRest /\ f # "MEMORY.md"
      /\ UNCHANGED <<date, left, writing, turn, fates, spent, writes, restarts>>
  BY DEF UserRemoves
<1>3. files \in [Files -> Seq(Piece)] /\ content \in Seq(Piece) /\ f \in Files /\ f \notin Notes
  <2>1. Missing \in Seq(Piece) /\ <<>> \in Seq(Piece)
    BY DEF Missing, Piece
  <2>2. f \in Files /\ f \notin Notes
    BY NotesApart DEF Files
  <2>3. files \in [Files -> Seq(Piece)]
    BY DEF MemoryInv, MemoryTypeOK
  <2>4. QED BY <2>1, <2>2, <2>3
<1>4. files' \in [Files -> Seq(Piece)] /\ \A k \in Files : k # f => files'[k] = files[k]
  BY <1>1, <1>3
<1>5. MemoryTypeOK'
  BY <1>2, <1>4 DEF MemoryInv, MemoryTypeOK
<1>6. Memory' = Memory /\ Known' = Known
  BY <1>2, <1>4, NotesApart DEF Memory, Known
<1>7. FileInv'
  BY <1>2, <1>6 DEF MemoryInv, FileInv, ToldIsThere, OnceInOrder, NothingElse
<1>8. WriteInv'
  BY <1>2 DEF WriteInv, AtRest
<1>9. HeadlinesFirst'
  BY <1>3, <1>4, NotesApart DEF MemoryInv, HeadlinesFirst
<1>10. SoulWhileRoom'
  BY <1>2 DEF MemoryInv, SoulWhileRoom
<1>11. QED BY <1>5, <1>7, <1>8, <1>9, <1>10 DEF MemoryInv

LEMMA NextDayKeeps ==
  ASSUME MemoryInv, NextDay
  PROVE  MemoryInv'
<1>1. /\ date < MaxDays /\ date' = date + 1
      /\ UNCHANGED <<files, left, writing, turn, fates, spent, writes, restarts>>
  BY DEF NextDay
<1>2. date' \in 1..MaxDays
  BY <1>1, NotesApart DEF MemoryInv, MemoryTypeOK
<1>3. MemoryTypeOK' /\ SoulWhileRoom'
  BY <1>1, <1>2 DEF MemoryInv, MemoryTypeOK, SoulWhileRoom
<1>4. QED BY <1>1, <1>3, Untouched DEF MemoryInv

-----------------------------------------------------------------------------
LEMMA MemoryInitially == ASSUME MemoryInit PROVE MemoryInv
<1>1. /\ DOMAIN files = Files /\ files["MEMORY.md"] = Default /\ \A n \in Notes : files[n] = Missing
      /\ files \in [Files -> Seq(Piece)]
  <2>1. Default \in Seq(Piece) /\ Missing \in Seq(Piece)
    BY DEF Default, Missing, Header, Piece
  <2>2. QED BY <2>1, NotesApart DEF MemoryInit, Files, Bootstrap
<1>2. fates = {[write |-> 0, asked |-> 1, fate |-> "told"]} /\ writes = 0 /\ writing = NoWrite
  BY DEF MemoryInit
<1>3. MemoryTypeOK
  <2>1. 1 \in 1..MaxDays /\ MemoryRoom \in Nat /\ MemoryRoom + 0 = MemoryRoom
    BY NotesApart
  <2>2. date = 1 /\ left = MemoryRoom /\ spent = 0
    BY DEF MemoryInit
  <2>3. QED BY <1>1, <1>2, <2>1, <2>2, NothingInProgress DEF MemoryTypeOK
<1>4. FileInv
  <2>1. Memory = <<<<0, 1>>>> /\ DOMAIN Memory = {1} /\ Memory[1] = <<0, 1>>
    BY <1>1 DEF Memory, Default, Header
  <2>2. ToldIsThere
    <3>1. \A k \in 1..Held(1) : k = 1
      BY MemoryAssumption DEF Held
    <3>2. QED BY <1>2, <2>1, <3>1 DEF ToldIsThere
  <2>3. OnceInOrder
    BY <2>1 DEF OnceInOrder
  <2>4. NothingElse
    BY <1>2, <2>1 DEF NothingElse, Known
  <2>5. QED BY <1>2, <2>2, <2>3, <2>4 DEF FileInv
<1>5. HeadlinesFirst
  BY <1>1 DEF HeadlinesFirst, Missing, Header
<1>6. WriteInv /\ SoulWhileRoom
  BY DEF MemoryInit, WriteInv, SoulWhileRoom, AtRest, NoWrite, NoTurn
<1>7. QED BY <1>3, <1>4, <1>5, <1>6 DEF MemoryInv

LEMMA MemoryInvariant == MemorySpec => []MemoryInv
<1>1. MemoryInit => MemoryInv
  BY MemoryInitially
<1>2. MemoryInv /\ [MemoryNext]_memoryVars => MemoryInv'
  <2> SUFFICES ASSUME MemoryInv, [MemoryNext]_memoryVars PROVE MemoryInv'
    OBVIOUS
  <2>1. CASE ReadMemory \/ ReadRecent \/ \E f \in Files : ReadFile(f)
    BY <2>1, ReadsKeep
  <2>2. CASE Turn
    BY <2>2, TurnKeeps
  <2>3. CASE WriteMemory \/ AppendMemory
    <3>1. "MEMORY.md" \in Files /\ \A asked \in TextSizes : asked \in Nat
      BY NotesApart, MemoryAssumption
    <3>2. QED BY <2>3, <3>1, WriteBeginsKeeps DEF WriteMemory, AppendMemory
  <2>4. CASE AppendDaily
    <3>1. NoteOf[date] \in Files /\ \A asked \in TextSizes : asked \in Nat
      BY NotesApart, MemoryAssumption DEF MemoryInv, MemoryTypeOK
    <3>2. QED BY <2>4, <3>1, WriteBeginsKeeps DEF AppendDaily
  <2>5. CASE \E kept \in BOOLEAN : Puts(kept)
    BY <2>5, PutsKeeps
  <2>6. CASE WriteEnds
    BY <2>6, WriteEndsKeeps
  <2>7. CASE Restart
    BY <2>7, MemoryRestartKeeps
  <2>8. CASE \E f \in Bootstrap : UserRemoves(f)
    BY <2>8, UserRemovesKeeps
  <2>9. CASE NextDay
    BY <2>9, NextDayKeeps
  <2>10. CASE UNCHANGED memoryVars
    <3>1. UNCHANGED <<files, writing, fates, writes, date, left, spent, turn>>
      BY <2>10 DEF memoryVars, diskVars
    <3>2. MemoryTypeOK' /\ SoulWhileRoom'
      BY <3>1 DEF MemoryInv, MemoryTypeOK, SoulWhileRoom
    <3>3. QED BY <3>1, <3>2, Untouched DEF MemoryInv
  <2>11. QED
    BY <2>1, <2>2, <2>3, <2>4, <2>5, <2>6, <2>7, <2>8, <2>9, <2>10 DEF MemoryNext, MemoryTool, Files
<1>3. QED
  BY <1>1, <1>2, PTL DEF MemorySpec

(* MEMORY.md holds every text whose writer was told so and that the disk   *)
(* took, once and in order, wherever a process ended, since an overwriting *)
(* began last; and a headline only begins a note.                          *)
THEOREM MemoryIsKept == MemorySpec => []MemoryKept
<1>1. MemoryInv => MemoryKept
  BY DEF MemoryInv, FileInv, MemoryKept
<1>2. QED
  BY <1>1, MemoryInvariant, PTL

(* A turn goes without its SOUL.md only when what was read since MEMORY.md *)
(* was read last leaves no room: what is left is what was not spent.       *)
THEOREM SoulWhileThereIsRoom == MemorySpec => []SoulWhileRoom
<1>1. MemoryInv => SoulWhileRoom
  BY DEF MemoryInv
<1>2. QED
  BY <1>1, MemoryInvariant, PTL

-----------------------------------------------------------------------------
(***************************************************************************)
(* Delegation to peers, for every arena, every answer, and any number of   *)
(* agents in the answer to a discovery.                                    *)
(***************************************************************************)

Outcomes == [id : {"none", "sea"}, success : BOOLEAN,
             output : {"none", "own", "notice"}, verified : BOOLEAN,
             error : {"none", "ours", "own"}]
CallStages == {"idle", "sent", "performed", "done"}

DelegationTypeOK ==
  /\ room \in Nat /\ asks \in Nat
  /\ call \in [stage : CallStages, task : Nat, auth : BOOLEAN]
  /\ answer \in Answers /\ outcome \in Outcomes
  /\ told \in {"nothing", "refused", "failed", "result", "notice", "peerError", "overrun"}

(* While a task is under way nothing has been said of it, and once it was  *)
(* answered it has been carried out.                                       *)
UnderWay ==
  /\ call.stage \in {"sent", "performed"} =>
       ~outcome.verified /\ ~outcome.success /\ outcome.output = "none"
  /\ call.stage = "performed" => call.task \in performed
  /\ call.stage # "idle" => told = "nothing"
  /\ call.stage \in {"sent", "performed"} => outcome.error # "own"
  /\ outcome.error = "own" => ~outcome.success /\ answer.error = "text"

DelegationInv == DelegationTypeOK /\ UnderWay /\ DelegationTruthful

(* What an answer leaves of the outcome. *)
LEMMA AnswerRead ==
  ASSUME DelegationTypeOK, ~outcome.verified, outcome.output = "none", Fits(2)
  PROVE  LET read == Verified(ReadAnswer) IN
         /\ read \in Outcomes
         /\ read.output = "own" => read.verified
         /\ read.verified => answer.output = "clean"
         /\ read.success /\ answer.error = "text" => RoomAfterAnswer = 0
         /\ read.error = "own" => ~read.success /\ answer.error = "text"
<1> DEFINE extra == IF answer.output # "none" THEN 1 ELSE 0
           copied == answer.output # "none" /\ Fits(3)
           claimed == IF answer.flag = "none" THEN copied ELSE answer.flag = "true"
           failed == answer.error = "text" /\ Fits(2 + extra + 1)
           r == [outcome EXCEPT !.output = IF copied THEN "own" ELSE "none",
                                !.error = IF failed THEN "own" ELSE "none",
                                !.success = claimed /\ ~failed]
<1>1. ReadAnswer = r
  BY DEF ReadAnswer
<1>2. outcome \in Outcomes /\ room \in Nat /\ answer \in Answers
  BY DEF DelegationTypeOK
<1>3. answer.output \in {"none", "clean", "dirty"} /\ extra \in 0..1
  <2>1. CASE answer = NoAnswer
    BY <2>1 DEF NoAnswer
  <2>2. CASE answer # NoAnswer
    <3>1. answer \in [parses : {TRUE}, flag : {"none", "true", "false"},
                      output : {"none", "clean", "dirty"}, error : {"none", "text"}, long : BOOLEAN]
      BY <1>2, <2>2 DEF Answers
    <3>2. QED BY <3>1
  <2>3. QED BY <2>1, <2>2
<1>4. /\ r \in Outcomes /\ ~r.verified
      /\ r.output = IF copied THEN "own" ELSE "none"
      /\ r.success => ~failed
      /\ r.error = IF failed THEN "own" ELSE "none"
  <2>1. copied \in BOOLEAN /\ failed \in BOOLEAN /\ claimed \in BOOLEAN
    BY DEF Fits
  <2> HIDE DEF copied, claimed, failed
  <2>2. QED BY <1>2, <2>1 DEF Outcomes
<1>5. copied => answer.output # "none"
  OBVIOUS
<1>6. ~failed /\ answer.error = "text" => RoomAfterAnswer = 0
  BY <1>2, <1>3 DEF Fits, Taken, RoomAfterAnswer
<1>9. r.error = "own" => ~r.success /\ answer.error = "text"
  BY <1>4
<1> HIDE DEF r, copied, claimed, failed, extra
<1>7. /\ Verified(r) \in Outcomes /\ Verified(r).success = r.success /\ Verified(r).error = r.error
      /\ Verified(r).output = "own" => Verified(r).verified
      /\ Verified(r).verified => answer.output = "clean"
  <2>1. CASE r.output = "none"
    BY <2>1, <1>4 DEF Verified
  <2>2. CASE r.output # "none" /\ answer.output = "dirty"
    BY <2>2, <1>4 DEF Verified, Outcomes
  <2>3. CASE r.output # "none" /\ answer.output # "dirty"
    <3>1. answer.output = "clean"
      BY <2>3, <1>3, <1>4, <1>5
    <3>2. Verified(r) = [r EXCEPT !.verified = TRUE]
      BY <2>3 DEF Verified
    <3>3. QED BY <3>1, <3>2, <1>4 DEF Outcomes
  <2>4. QED BY <2>1, <2>2, <2>3
<1>8. QED BY <1>1, <1>4, <1>6, <1>7, <1>9

(* What has nothing to do with the task under way. *)
LEMMA DelegationRests ==
  ASSUME DelegationInv, UNCHANGED <<call, audit, performed>>, room' \in Nat, asks' \in Nat,
         \/ UNCHANGED <<answer, outcome, told, room>>
         \/ UNCHANGED <<answer, outcome, told>> /\ call.stage = "idle"
         \/ /\ answer' = NoAnswer /\ outcome' = NoOutcome /\ told' \in {"nothing", "refused"}
            /\ call.stage = "idle"
  PROVE  DelegationInv'
<1>1. DelegationTypeOK /\ UnderWay /\ DelegationTruthful
  BY DEF DelegationInv
<1>2. UNCHANGED <<call, audit, performed>> /\ room' \in Nat /\ asks' \in Nat
  OBVIOUS
<1>3. \/ UNCHANGED <<answer, outcome, told, room>>
      \/ UNCHANGED <<answer, outcome, told>> /\ call.stage = "idle"
      \/ /\ answer' = NoAnswer /\ outcome' = NoOutcome /\ told' \in {"nothing", "refused"}
         /\ call.stage = "idle"
  OBVIOUS
<1>4. NoAnswer \in Answers /\ NoOutcome \in Outcomes /\ ~NoOutcome.verified
      /\ ~NoOutcome.success /\ NoOutcome.output = "none" /\ NoOutcome.error = "none"
  BY DEF Answers, Outcomes, NoOutcome
<1>5. DelegationTypeOK'
  BY <1>1, <1>2, <1>3, <1>4 DEF DelegationTypeOK
<1>6. UnderWay'
  BY <1>1, <1>2, <1>3, <1>4 DEF UnderWay
<1>7. DelegationTruthful'
  <2> HIDE DEF NoOutcome, NoAnswer
  <2>1. CASE UNCHANGED <<answer, outcome, told, room>>
    BY <2>1, <1>1, <1>2 DEF DelegationTruthful
  <2>2. CASE UNCHANGED <<answer, outcome, told>> /\ call.stage = "idle"
    BY <2>2, <1>1, <1>2 DEF DelegationTruthful
  <2>3. CASE answer' = NoAnswer /\ outcome' = NoOutcome /\ told' \in {"nothing", "refused"}
             /\ call.stage = "idle"
    BY <2>3, <1>1, <1>2, <1>4 DEF DelegationTruthful
  <2>4. QED BY <2>1, <2>2, <2>3, <1>3
<1>8. QED BY <1>5, <1>6, <1>7 DEF DelegationInv

(* A delegation, step by step. *)
LEMMA DelegationKeeps ==
  ASSUME DelegationInv,
         \/ \E hasKey \in BOOLEAN : DelegateBegins(hasKey)
         \/ PeerPerforms \/ DelegateFails \/ DelegateReturns \/ DelegateTells
  PROVE  DelegationInv'
<1>1. DelegationTypeOK /\ UnderWay /\ DelegationTruthful
  BY DEF DelegationInv
<1>2. \A n \in Nat : Taken(n) \in Nat
  BY <1>1 DEF Taken, DelegationTypeOK
<1>3. NoAnswer \in Answers
  BY DEF Answers
<1>4. ASSUME NEW hasKey \in BOOLEAN, DelegateBegins(hasKey) PROVE DelegationInv'
  <2>1. /\ call'.stage \in {"sent", "done"} /\ call' \in [stage : CallStages, task : Nat, auth : BOOLEAN]
        /\ asks' \in Nat /\ answer' = NoAnswer /\ told' = "nothing" /\ room' \in Nat
        /\ UNCHANGED <<audit, performed>>
    BY <1>1, <1>2, <1>4 DEF DelegateBegins, DelegationTypeOK, CallStages, Fits
  <2>2. /\ outcome' \in Outcomes /\ ~outcome'.verified /\ ~outcome'.success /\ outcome'.output = "none"
        /\ outcome'.error # "own"
    BY <1>4 DEF DelegateBegins, NoOutcome, Outcomes
  <2>3. QED BY <1>1, <1>3, <2>1, <2>2
             DEF DelegationInv, DelegationTypeOK, UnderWay, DelegationTruthful
<1>5. CASE PeerPerforms
  <2>1. /\ call.stage = "sent" /\ performed' = performed \union {call.task}
        /\ call' = [call EXCEPT !.stage = "performed"] /\ answer' \in Answers
        /\ UNCHANGED <<room, outcome, told, audit, asks>>
    BY <1>5 DEF PeerPerforms
  <2>2. call' \in [stage : CallStages, task : Nat, auth : BOOLEAN]
        /\ call'.stage = "performed" /\ call'.task = call.task
    BY <1>1, <2>1 DEF DelegationTypeOK, CallStages
  <2>3. DelegationTypeOK' /\ UnderWay'
    BY <1>1, <2>1, <2>2 DEF DelegationTypeOK, UnderWay
  <2>4. DelegationTruthful'
    BY <1>1, <2>1, <2>2 DEF DelegationTruthful, UnderWay
  <2>5. QED BY <2>3, <2>4 DEF DelegationInv
<1>6. CASE DelegateFails
  <2>1. /\ call.stage \in {"sent", "performed"} /\ call' = [call EXCEPT !.stage = "done"]
        /\ answer' = NoAnswer /\ UNCHANGED <<told, audit, performed, asks>>
        /\ \E e \in {"ours", "none"} : outcome' = [outcome EXCEPT !.error = e]
        /\ room' \in Nat
    BY <1>1, <1>2, <1>6 DEF DelegateFails, DelegationTypeOK
  <2>2. call' \in [stage : CallStages, task : Nat, auth : BOOLEAN]
        /\ call'.stage = "done" /\ call'.task = call.task
    BY <1>1, <2>1 DEF DelegationTypeOK, CallStages
  <2>3. outcome' \in Outcomes /\ ~outcome'.verified /\ ~outcome'.success /\ outcome'.output = "none"
        /\ outcome'.error # "own"
    BY <1>1, <2>1 DEF DelegationTypeOK, UnderWay, Outcomes
  <2>4. DelegationTypeOK' /\ UnderWay'
    BY <1>1, <1>3, <2>1, <2>2, <2>3 DEF DelegationTypeOK, UnderWay
  <2>5. DelegationTruthful'
    BY <1>1, <2>1, <2>2, <2>3 DEF DelegationTruthful, UnderWay
  <2>6. QED BY <2>4, <2>5 DEF DelegationInv
<1>7. CASE DelegateReturns
  <2>1. /\ call.stage = "performed" /\ call' = [call EXCEPT !.stage = "done"]
        /\ UNCHANGED <<answer, told, performed, asks>>
    BY <1>7 DEF DelegateReturns
  <2>2. call' \in [stage : CallStages, task : Nat, auth : BOOLEAN]
        /\ call'.stage = "done" /\ call'.task = call.task
    BY <1>1, <2>1 DEF DelegationTypeOK, CallStages
  <2>3. ~outcome.verified /\ ~outcome.success /\ outcome.output = "none" /\ call.task \in performed
        /\ told = "nothing"
    BY <1>1, <2>1 DEF UnderWay
  <2>4. CASE answer.parses /\ Fits(2)
    <3>1. /\ outcome' = Verified(ReadAnswer) /\ room' = RoomAfterAnswer
          /\ \E row \in [task : {call.task}, success : {outcome'.success}, verified : {outcome'.verified}] :
               audit' \in {audit, audit \union {row}}
      BY <1>7, <2>4 DEF DelegateReturns
    <3>2. /\ outcome' \in Outcomes
          /\ outcome'.output = "own" => outcome'.verified
          /\ outcome'.verified => answer.output = "clean"
          /\ outcome'.success /\ answer.error = "text" => room' = 0
          /\ outcome'.error = "own" => ~outcome'.success /\ answer.error = "text"
      BY <1>1, <2>3, <2>4, <3>1, AnswerRead
    <3>3. room' \in Nat
      BY <1>1, <3>1 DEF RoomAfterAnswer, Taken, DelegationTypeOK
    <3>4. DelegationTypeOK' /\ UnderWay'
      BY <1>1, <2>1, <2>2, <2>3, <3>2, <3>3 DEF DelegationTypeOK, UnderWay
    <3>5. \A row \in audit' : row.task \in performed'
      BY <1>1, <2>1, <2>3, <3>1 DEF DelegationTruthful
    <3>6. DelegationTruthful'
      BY <2>1, <2>2, <2>3, <3>2, <3>5 DEF DelegationTruthful
    <3>7. QED BY <3>4, <3>6 DEF DelegationInv
  <2>5. CASE ~(answer.parses /\ Fits(2))
    <3>1. outcome' = [outcome EXCEPT !.error = "ours"] /\ room' \in Nat /\ UNCHANGED audit
      BY <1>2, <1>7, <2>5 DEF DelegateReturns
    <3>2. outcome' \in Outcomes /\ ~outcome'.verified /\ ~outcome'.success /\ outcome'.output = "none"
          /\ outcome'.error # "own"
      BY <1>1, <2>3, <3>1 DEF DelegationTypeOK, Outcomes
    <3>3. DelegationTypeOK' /\ UnderWay'
      BY <1>1, <2>1, <2>2, <2>3, <3>1, <3>2 DEF DelegationTypeOK, UnderWay
    <3>4. DelegationTruthful'
      BY <1>1, <2>1, <2>2, <2>3, <3>1, <3>2 DEF DelegationTruthful
    <3>5. QED BY <3>3, <3>4 DEF DelegationInv
  <2>6. QED BY <2>4, <2>5
<1>8. CASE DelegateTells
  <2>1. /\ call.stage = "done" /\ call' = Idle /\ room' \in Nat
        /\ UNCHANGED <<answer, outcome, audit, performed, asks>>
        /\ told' \in {"nothing", ResponseTold}
    BY <1>2, <1>8 DEF DelegateTells
  <2>2. call' \in [stage : CallStages, task : Nat, auth : BOOLEAN] /\ call'.stage = "idle"
    BY <2>1 DEF Idle, CallStages
  <2>3. /\ Response \in {"result", "notice", "peerError", "failed"}
        /\ Response = "result" => outcome.success /\ outcome.output = "own"
        /\ Response = "peerError" => outcome.error = "own"
    BY <1>1 DEF Response, DelegationTypeOK, Outcomes
  <2>4. /\ Response = "result" => outcome.success /\ outcome.verified
        /\ Response = "peerError" => ~outcome.success /\ answer.error = "text"
    BY <1>1, <2>3 DEF UnderWay, DelegationTruthful
  <2>5. /\ ResponseTold \in {"result", "notice", "peerError", "failed", "overrun"}
        /\ ResponseTold = "result" => outcome.success /\ outcome.verified
        /\ ResponseTold = "peerError" => ~outcome.success /\ answer.error = "text"
        /\ ResponseTold = "overrun" => answer.long /\ (outcome.verified \/ answer.error = "text")
    BY <2>3, <2>4 DEF ResponseTold
  <2>6. DelegationTypeOK' /\ UnderWay'
    BY <1>1, <2>1, <2>2, <2>5 DEF DelegationTypeOK, UnderWay
  <2>7. DelegationTruthful'
    BY <1>1, <2>1, <2>2, <2>5 DEF DelegationTruthful
  <2>8. QED BY <2>6, <2>7 DEF DelegationInv
<1>9. QED BY <1>4, <1>5, <1>6, <1>7, <1>8

-----------------------------------------------------------------------------
(* The peers of a discovery.                                               *)

Peer == [at : Nat, key : BOOLEAN]
Discovery == [peers : Seq(Peer), left : Nat, full : BOOLEAN]

(* What is right of the peers found among the first k agents. *)
FoundAmong(agents, k, peersFound, full) ==
  /\ Len(peersFound) <= MaxPeers
  /\ \A j \in 1..Len(peersFound) :
       /\ peersFound[j].at \in 1..k /\ agents[peersFound[j].at].endpoint
       /\ j > 1 => peersFound[j - 1].at < peersFound[j].at
  /\ \A i \in 1..k :
       agents[i].endpoint =>
         \/ \E j \in 1..Len(peersFound) : peersFound[j].at = i
         \/ /\ full \/ Len(peersFound) = MaxPeers
            /\ \A j \in 1..Len(peersFound) : peersFound[j].at < i

(* One agent more. *)
LEMMA PeerAdded ==
  ASSUME NEW agents \in Seq(Agents), NEW f \in Discovery, NEW k \in Nat, k + 1 <= Len(agents),
         FoundAmong(agents, k, f.peers, f.full)
  PROVE  LET g == AddPeer(agents, f, k + 1) IN
         g \in Discovery /\ FoundAmong(agents, k + 1, g.peers, g.full)
<1> DEFINE g == AddPeer(agents, f, k + 1)
<1>1. /\ f.peers \in Seq(Peer) /\ f.left \in Nat /\ f.full \in BOOLEAN /\ Len(f.peers) \in Nat
      /\ \A j \in 1..Len(f.peers) : f.peers[j] \in Peer /\ f.peers[j].at \in Nat
  <2>1. f.peers \in Seq(Peer) /\ f.left \in Nat /\ f.full \in BOOLEAN
    BY DEF Discovery
  <2>2. Len(f.peers) \in Nat /\ \A j \in 1..Len(f.peers) : f.peers[j] \in Peer
    BY <2>1, LenProperties, ElementOfSeq
  <2>3. QED BY <2>1, <2>2 DEF Peer
<1>2. k + 1 \in 1..Len(agents) /\ agents[k + 1] \in [endpoint : BOOLEAN, key : BOOLEAN]
  <2>1. k + 1 \in 1..Len(agents)
    BY LenProperties
  <2>2. QED BY <2>1, ElementOfSeq DEF Agents
<1>3. MaxPeers \in Nat
  BY A2AAssumption
<1>4. CASE f.full \/ Len(f.peers) = MaxPeers \/ ~agents[k + 1].endpoint
  <2>1. g = f
    BY <1>4 DEF AddPeer
  <2>2. FoundAmong(agents, k + 1, f.peers, f.full)
    <3>1. \A j \in 1..Len(f.peers) : f.peers[j].at \in 1..k
      BY DEF FoundAmong
    <3>2. ASSUME NEW i \in 1..k + 1, agents[i].endpoint
          PROVE  \/ \E j \in 1..Len(f.peers) : f.peers[j].at = i
                 \/ /\ f.full \/ Len(f.peers) = MaxPeers
                    /\ \A j \in 1..Len(f.peers) : f.peers[j].at < i
      <4>1. CASE i \in 1..k
        BY <4>1, <3>2 DEF FoundAmong
      <4>2. CASE i = k + 1
        BY <4>2, <3>1, <3>2, <1>4
      <4>3. QED BY <4>1, <4>2
    <3>3. \A j \in 1..Len(f.peers) : f.peers[j].at \in 1..k + 1
      BY <3>1
    <3>4. QED BY <3>2, <3>3 DEF FoundAmong
  <2>3. QED BY <2>1, <2>2
<1>5. CASE ~(f.full \/ Len(f.peers) = MaxPeers \/ ~agents[k + 1].endpoint) /\ f.left < 2
  <2>1. g = [f EXCEPT !.left = 0, !.full = TRUE]
    BY <1>5 DEF AddPeer
  <2>2. FoundAmong(agents, k + 1, f.peers, TRUE)
    <3>1. \A j \in 1..Len(f.peers) : f.peers[j].at \in 1..k
      BY DEF FoundAmong
    <3>2. ASSUME NEW i \in 1..k + 1, agents[i].endpoint
          PROVE  \/ \E j \in 1..Len(f.peers) : f.peers[j].at = i
                 \/ \A j \in 1..Len(f.peers) : f.peers[j].at < i
      <4>1. CASE i \in 1..k
        BY <4>1, <3>2 DEF FoundAmong
      <4>2. CASE i = k + 1
        BY <4>2, <3>1
      <4>3. QED BY <4>1, <4>2
    <3>3. \A j \in 1..Len(f.peers) : f.peers[j].at \in 1..k + 1
      BY <3>1
    <3>4. QED BY <3>2, <3>3 DEF FoundAmong
  <2> HIDE DEF g
  <2>3. g \in Discovery /\ g.peers = f.peers /\ g.full = TRUE
    BY <2>1, <1>1 DEF Discovery
  <2>4. QED BY <2>2, <2>3 DEF g
<1>6. CASE ~(f.full \/ Len(f.peers) = MaxPeers \/ ~agents[k + 1].endpoint) /\ ~(f.left < 2)
  <2> DEFINE key == agents[k + 1].key /\ f.left > 2
             p == [at |-> k + 1, key |-> key]
             ps == Append(f.peers, p)
  <2>1. g = [peers |-> ps, left |-> f.left - (IF key THEN 3 ELSE 2), full |-> FALSE]
    BY <1>6 DEF AddPeer
  <2>2. key \in BOOLEAN /\ (key => f.left > 2)
    BY <1>1, <1>2
  <2>3. p \in Peer /\ p.at = k + 1
    BY <2>2 DEF Peer
  <2> HIDE DEF p, key
  <2>4. /\ ps \in Seq(Peer) /\ Len(ps) = Len(f.peers) + 1 /\ ps[Len(ps)] = p
        /\ \A j \in 1..Len(f.peers) : ps[j] = f.peers[j]
    BY <1>1, <2>3, AppendProperties
  <2> HIDE DEF ps
  <2>5. g \in Discovery /\ g.peers = ps /\ g.full = FALSE
    <3>1. f.left - (IF key THEN 3 ELSE 2) \in Nat
      BY <1>1, <1>6, <2>2
    <3> DEFINE l == f.left - (IF key THEN 3 ELSE 2)
    <3>2. l \in Nat /\ g = [peers |-> ps, left |-> l, full |-> FALSE]
      BY <2>1, <3>1
    <3> HIDE DEF l, g
    <3>3. QED BY <2>4, <3>2 DEF Discovery
  <2>6. FoundAmong(agents, k + 1, ps, FALSE)
    <3>1. Len(ps) <= MaxPeers
      BY <1>1, <1>3, <1>6, <2>4 DEF FoundAmong
    <3>2. ASSUME NEW j \in 1..Len(ps)
          PROVE  /\ ps[j].at \in 1..k + 1 /\ agents[ps[j].at].endpoint
                 /\ j > 1 => ps[j - 1].at < ps[j].at
      <4>1. CASE j = Len(ps)
        <5>1. ps[j].at = k + 1 /\ agents[k + 1].endpoint
          BY <4>1, <1>6, <2>3, <2>4
        <5>2. j > 1 => ps[j - 1].at \in 1..k
          <6>1. j > 1 => j - 1 \in 1..Len(f.peers)
            BY <4>1, <1>1, <2>4
          <6>2. QED BY <6>1, <2>4 DEF FoundAmong
        <5>3. QED BY <5>1, <5>2
      <4>2. CASE j # Len(ps)
        <5>1. j \in 1..Len(f.peers) /\ (j > 1 => j - 1 \in 1..Len(f.peers))
          BY <4>2, <1>1, <2>4
        <5>2. ps[j] = f.peers[j] /\ (j > 1 => ps[j - 1] = f.peers[j - 1])
          BY <5>1, <2>4
        <5>3. QED BY <5>1, <5>2 DEF FoundAmong
      <4>3. QED BY <4>1, <4>2
    <3>3. ASSUME NEW i \in 1..k + 1, agents[i].endpoint
          PROVE  \E j \in 1..Len(ps) : ps[j].at = i
      <4>1. CASE i = k + 1
        <5>1. Len(ps) \in 1..Len(ps)
          BY <1>1, <2>4
        <5>2. QED BY <4>1, <5>1, <2>3, <2>4
      <4>2. CASE i # k + 1
        <5>1. i \in 1..k
          BY <4>2
        <5>2. PICK j \in 1..Len(f.peers) : f.peers[j].at = i
          BY <5>1, <3>3, <1>6 DEF FoundAmong
        <5>3. j \in 1..Len(ps) /\ ps[j].at = i
          BY <5>2, <1>1, <2>4
        <5>4. QED BY <5>3
      <4>3. QED BY <4>1, <4>2
    <3>4. QED BY <3>1, <3>2, <3>3 DEF FoundAmong
  <2>7. QED BY <2>5, <2>6
<1>7. QED BY <1>4, <1>5, <1>6

Grows(agents, g, n) ==
  \A i \in 0..n : g[i] = IF i = 0 THEN [peers |-> <<>>, left |-> room - 2, full |-> FALSE]
                         ELSE AddPeer(agents, g[i - 1], i)

(* The loop of a discovery, up to each agent. *)
LEMMA DiscoveryGrows ==
  ASSUME NEW agents \in Seq(Agents), room - 2 \in Nat, NEW n \in 0..Len(agents)
  PROVE  \E g \in [0..n -> Discovery] :
           Grows(agents, g, n) /\ FoundAmong(agents, n, g[n].peers, g[n].full)
<1> DEFINE Good(m, g) == Grows(agents, g, m) /\ FoundAmong(agents, m, g[m].peers, g[m].full)
           Wanting == {m \in 0..Len(agents) : ~ \E g \in [0..m -> Discovery] : Good(m, g)}
           start == [peers |-> <<>>, left |-> room - 2, full |-> FALSE]
<1>1. Len(agents) \in Nat
  BY LenProperties
<1>2. SUFFICES ASSUME Wanting # {} PROVE FALSE
  OBVIOUS
<1>3. Wanting \in SUBSET Nat
  BY <1>1
<1>4. PICK m \in Wanting : \A l \in Wanting : m <= l
  BY <1>2, <1>3, LeastExists
<1>5. m \in 0..Len(agents) /\ ~ \E g \in [0..m -> Discovery] : Good(m, g)
  BY <1>4
<1>6. CASE m = 0
  <2> DEFINE h == [i \in 0..0 |-> start]
  <2>1. start \in Discovery /\ start.peers = <<>> /\ Len(start.peers) = 0
    BY EmptySeq DEF Discovery
  <2>2. h \in [0..m -> Discovery] /\ Grows(agents, h, m) /\ h[m] = start
    BY <1>6, <2>1 DEF Grows
  <2> HIDE DEF h, start
  <2>3. FoundAmong(agents, m, h[m].peers, h[m].full)
    BY <1>6, <2>1, <2>2, A2AAssumption DEF FoundAmong
  <2>4. QED BY <2>2, <2>3, <1>5
<1>7. CASE m # 0
  <2>1. m - 1 \in 0..Len(agents) /\ m - 1 \notin Wanting
    <3> HIDE DEF Wanting
    <3>1. m \in 0..Len(agents)
      BY <1>5
    <3>2. m - 1 \in 0..Len(agents) /\ ~(m <= m - 1)
      BY <3>1, <1>1, <1>7
    <3>3. QED BY <3>2, <1>4
  <2>2. PICK g \in [0..m - 1 -> Discovery] : Good(m - 1, g)
    BY <2>1
  <2> DEFINE a == AddPeer(agents, g[m - 1], m)
             h == [i \in 0..m |-> IF i = m THEN a ELSE g[i]]
  <2>3. a \in Discovery /\ FoundAmong(agents, m, a.peers, a.full)
    <3> DEFINE k == m - 1
    <3>1. k \in Nat /\ k + 1 = m /\ k + 1 <= Len(agents) /\ g[k] \in Discovery
          /\ FoundAmong(agents, k, g[k].peers, g[k].full)
      BY <1>1, <1>5, <2>1, <2>2
    <3> HIDE DEF k
    <3>2. AddPeer(agents, g[k], k + 1) \in Discovery
          /\ FoundAmong(agents, k + 1, AddPeer(agents, g[k], k + 1).peers, AddPeer(agents, g[k], k + 1).full)
      BY <3>1, PeerAdded
    <3>3. AddPeer(agents, g[k], k + 1) = a /\ k + 1 = m
      BY <3>1 DEF k
    <3>4. QED BY <3>2, <3>3
  <2> HIDE DEF a
  <2>4. h \in [0..m -> Discovery] /\ h[m] = a
    BY <1>1, <1>5, <1>7, <2>2, <2>3
  <2>5. Grows(agents, h, m)
    <3> SUFFICES ASSUME NEW i \in 0..m
                 PROVE  h[i] = IF i = 0 THEN start ELSE AddPeer(agents, h[i - 1], i)
      BY DEF Grows
    <3>1. CASE i = m
      <4>1. h[i] = a /\ i # 0 /\ h[i - 1] = g[m - 1]
        BY <3>1, <1>1, <1>5, <1>7
      <4>2. QED BY <4>1, <3>1 DEF a
    <3>2. CASE i # m
      <4>1. i \in 0..m - 1 /\ h[i] = g[i] /\ (i # 0 => h[i - 1] = g[i - 1])
        BY <3>2, <1>1, <1>5
      <4> HIDE DEF h
      <4>2. g[i] = IF i = 0 THEN start ELSE AddPeer(agents, g[i - 1], i)
        BY <4>1, <2>2 DEF Grows
      <4>3. QED BY <4>1, <4>2
    <3>3. QED BY <3>1, <3>2
  <2> HIDE DEF h
  <2>6. QED BY <2>3, <2>4, <2>5, <1>5
<1>8. QED BY <1>6, <1>7

(* There is one such loop only. *)
LEMMA DiscoveriesAgree ==
  ASSUME NEW agents, NEW n \in Nat, NEW g, NEW h, Grows(agents, g, n), Grows(agents, h, n)
  PROVE  \A i \in 0..n : g[i] = h[i]
<1> DEFINE Other == {i \in 0..n : g[i] # h[i]}
<1>1. SUFFICES ASSUME Other # {} PROVE FALSE
  OBVIOUS
<1>2. Other \in SUBSET Nat
  OBVIOUS
<1>3. PICK i \in Other : \A j \in Other : i <= j
  BY <1>1, <1>2, LeastExists
<1>4. i \in 0..n /\ g[i] # h[i]
  BY <1>3
<1>5. CASE i = 0
  BY <1>4, <1>5 DEF Grows
<1>6. CASE i # 0
  <2>1. i - 1 \in 0..n /\ i - 1 \notin Other
    BY <1>3, <1>4, <1>6
  <2>2. g[i - 1] = h[i - 1]
    BY <2>1
  <2>3. g[i] = AddPeer(agents, g[i - 1], i) /\ h[i] = AddPeer(agents, h[i - 1], i)
    BY <1>4, <1>6 DEF Grows
  <2>4. QED BY <2>2, <2>3, <1>4
<1>7. QED BY <1>5, <1>6

(* What a discovery has found in the end. *)
LEMMA DiscoveryFound ==
  ASSUME NEW agents \in Seq(Agents), room - 2 \in Nat
  PROVE  /\ Found(agents) \in Discovery
         /\ FoundAmong(agents, Len(agents), Found(agents).peers, Found(agents).full)
<1> DEFINE n == Len(agents)
           Is(f) == f = [i \in 0..n |->
                          IF i = 0 THEN [peers |-> <<>>, left |-> room - 2, full |-> FALSE]
                          ELSE AddPeer(agents, f[i - 1], i)]
           c == CHOOSE f : Is(f)
<1>1. n \in Nat /\ n \in 0..n
  BY LenProperties
<1>2. PICK g \in [0..n -> Discovery] : Grows(agents, g, n) /\ FoundAmong(agents, n, g[n].peers, g[n].full)
  BY <1>1, DiscoveryGrows
<1>3. Is(g)
  <2>1. \A i \in 0..n : g[i] = IF i = 0 THEN [peers |-> <<>>, left |-> room - 2, full |-> FALSE]
                               ELSE AddPeer(agents, g[i - 1], i)
    BY <1>2 DEF Grows
  <2>2. QED BY <2>1
<1>4. Is(c)
  <2> HIDE DEF Is
  <2>1. QED BY <1>3
<1>5. Grows(agents, c, n)
  <2> HIDE DEF c
  <2>1. QED BY <1>4 DEF Grows
<1>6. Found(agents) = c[n]
  BY DEF Found
<1>7. c[n] = g[n] /\ g[n] \in Discovery
  <2> HIDE DEF c, n
  <2>1. QED BY <1>1, <1>2, <1>5, DiscoveriesAgree
<1>8. QED BY <1>2, <1>6, <1>7

(* No peers are as listed when nobody is known or room ran out. *)
LEMMA NoPeers ==
  ASSUME peers' = <<>>, known'.agents = <<>> \/ known'.full
  PROVE  PeersAsListed'
<1>1. Len(peers') = 0 /\ DOMAIN peers' = {} /\ MaxPeers \in Nat
  BY EmptySeq, A2AAssumption
<1>2. known'.agents = <<>> => DOMAIN known'.agents = {}
  BY EmptySeq
<1>3. QED BY <1>1, <1>2 DEF PeersAsListed

(* What is found among all agents is as listed. *)
LEMMA FoundAsListed ==
  ASSUME NEW agents \in Seq(Agents), NEW f \in Discovery,
         known'.agents = agents, known'.full = f.full, peers' = f.peers,
         FoundAmong(agents, Len(agents), f.peers, f.full)
  PROVE  PeersAsListed'
<1> DEFINE n == Len(agents)
           ps == f.peers
           reachable == {i \in 1..n : agents[i].endpoint}
           places == {ps[k].at : k \in 1..Len(ps)}
<1>1. n \in Nat /\ DOMAIN agents = 1..n /\ Len(ps) \in Nat /\ DOMAIN ps = 1..Len(ps)
  BY LenProperties DEF Discovery
<1>2. /\ Len(ps) <= MaxPeers
      /\ \A j \in 1..Len(ps) : ps[j].at \in 1..n /\ agents[ps[j].at].endpoint
      /\ \A j \in 1..Len(ps) : j > 1 => ps[j - 1].at < ps[j].at
  BY DEF FoundAmong
<1>3. \A i \in reachable \ places :
        (f.full \/ Len(ps) = MaxPeers) /\ \A j \in 1..Len(ps) : ps[j].at < i
  BY DEF FoundAmong
<1>4. places \subseteq reachable
  BY <1>2
<1>5. places = reachable \/ Len(ps) = MaxPeers \/ f.full
  BY <1>3, <1>4
<1>6. \A i \in reachable \ places, k \in places : k < i
  BY <1>3
<1>7. /\ {i \in DOMAIN known'.agents : known'.agents[i].endpoint} = reachable
      /\ {peers'[k].at : k \in DOMAIN peers'} = places
  BY <1>1
<1> HIDE DEF reachable, places
<1>8. QED BY <1>1, <1>2, <1>4, <1>5, <1>6, <1>7 DEF PeersAsListed

(* A discovery. *)
LEMMA DiscoverKeeps ==
  ASSUME DelegationInv, NEW agents \in SeqOf(Agents, MaxAgents), Discover(agents)
  PROVE  room' \in Nat /\ PeersAsListed'
<1>1. agents \in Seq(Agents)
  <2>1. PICK m \in 0..MaxAgents : agents \in [1..m -> Agents]
    BY DEF SeqOf
  <2>2. m \in Nat
    BY <2>1, A2AAssumption
  <2>3. QED BY <2>1, <2>2, SeqDef
<1>2. CASE Fits(2)
  <2> DEFINE f == Found(agents)
  <2>1. room - 2 \in Nat
    BY <1>2 DEF Fits, DelegationInv, DelegationTypeOK
  <2>2. f \in Discovery /\ FoundAmong(agents, Len(agents), f.peers, f.full)
    BY <1>1, <2>1, DiscoveryFound
  <2>3. peers' = f.peers /\ room' = f.left /\ known' = [agents |-> agents, full |-> f.full]
    BY <1>2 DEF Discover
  <2> HIDE DEF f
  <2>4. room' \in Nat
    BY <2>2, <2>3 DEF Discovery
  <2>5. PeersAsListed'
    <3>1. known'.agents = agents /\ known'.full = f.full
      BY <2>3
    <3>2. QED BY <1>1, <2>2, <2>3, <3>1, FoundAsListed
  <2>6. QED BY <2>4, <2>5
<1>3. CASE ~Fits(2)
  <2>1. peers' = <<>> /\ room' = 0 /\ known'.full
    BY <1>3 DEF Discover
  <2>2. QED BY <2>1, NoPeers
<1>4. QED BY <1>2, <1>3

LEMMA A2AInvariant == A2ASpec => [](DelegationInv /\ PeersAsListed)
<1>1. ASSUME A2AInit PROVE DelegationInv /\ PeersAsListed
  <2>1. /\ room \in Nat /\ asks \in Nat /\ call = Idle /\ answer = NoAnswer /\ outcome = NoOutcome
        /\ told = "nothing" /\ audit = {} /\ performed = {} /\ peers = <<>> /\ known.agents = <<>>
    BY <1>1, A2AAssumption DEF A2AInit, NothingKnown
  <2>2. DelegationTypeOK
    BY <2>1 DEF DelegationTypeOK, Idle, CallStages, Answers, Outcomes, NoOutcome
  <2>3. UnderWay /\ DelegationTruthful
    BY <2>1 DEF UnderWay, DelegationTruthful, Idle, NoOutcome
  <2>4. PeersAsListed
    <3>1. Len(peers) = 0 /\ DOMAIN peers = {} /\ DOMAIN known.agents = {} /\ MaxPeers \in Nat
      BY <2>1, EmptySeq, A2AAssumption
    <3>2. QED BY <3>1 DEF PeersAsListed
  <2>5. QED BY <2>2, <2>3, <2>4 DEF DelegationInv
<1>2. ASSUME DelegationInv, PeersAsListed, [A2ANext]_a2aVars
      PROVE  DelegationInv' /\ PeersAsListed'
  <2>1. room \in Nat /\ asks \in Nat /\ A2ARoom \in Nat
    BY <1>2, A2AAssumption DEF DelegationInv, DelegationTypeOK
  <2>2. CASE NextRequest
    <3>1. /\ UNCHANGED <<call, audit, performed>> /\ room' \in Nat /\ asks' \in Nat
          /\ answer' = NoAnswer /\ outcome' = NoOutcome /\ told' = "nothing" /\ call.stage = "idle"
          /\ peers' = <<>> /\ known'.agents = <<>>
      BY <2>1, <2>2 DEF NextRequest, NothingKnown
    <3>2. PeersAsListed'
      BY <3>1, NoPeers
    <3>3. DelegationInv'
      BY <1>2, <3>1, DelegationRests
    <3>4. QED BY <3>2, <3>3
  <2>3. CASE DelegateRefused \/ PeerAlive \/ UNCHANGED a2aVars
    <3>1. /\ UNCHANGED <<call, audit, performed>> /\ room' \in Nat /\ asks' \in Nat
          /\ UNCHANGED <<peers, known>>
          /\ \/ UNCHANGED <<answer, outcome, told, room>>
             \/ UNCHANGED <<answer, outcome, told>> /\ call.stage = "idle"
             \/ /\ answer' = NoAnswer /\ outcome' = NoOutcome /\ told' = "refused"
                /\ call.stage = "idle"
      BY <2>1, <2>3 DEF DelegateRefused, PeerAlive, a2aVars, askVars, Taken
    <3>2. PeersAsListed'
      BY <1>2, <3>1 DEF PeersAsListed
    <3>3. DelegationInv'
      BY <1>2, <3>1, DelegationRests
    <3>4. QED BY <3>2, <3>3
  <2>4. CASE \E agents \in SeqOf(Agents, MaxAgents) : Discover(agents)
    <3>1. PICK agents \in SeqOf(Agents, MaxAgents) : Discover(agents)
      BY <2>4
    <3>2. room' \in Nat /\ PeersAsListed'
      BY <1>2, <3>1, DiscoverKeeps
    <3>3. UNCHANGED <<call, audit, performed, answer, outcome, told>> /\ asks' \in Nat /\ call.stage = "idle"
      BY <2>1, <3>1 DEF Discover, askVars
    <3>4. DelegationInv'
      BY <1>2, <3>2, <3>3, DelegationRests
    <3>5. QED BY <3>2, <3>4
  <2>5. CASE (\E hasKey \in BOOLEAN : DelegateBegins(hasKey))
             \/ PeerPerforms \/ DelegateFails \/ DelegateReturns \/ DelegateTells
    <3>1. UNCHANGED <<peers, known>>
      BY <2>5 DEF DelegateBegins, PeerPerforms, DelegateFails, DelegateReturns, DelegateTells
    <3>2. PeersAsListed'
      BY <1>2, <3>1 DEF PeersAsListed
    <3>3. DelegationInv'
      BY <1>2, <2>5, DelegationKeeps
    <3>4. QED BY <3>2, <3>3
  <2>6. QED BY <1>2, <2>2, <2>3, <2>4, <2>5 DEF A2ANext
<1>3. QED BY <1>1, <1>2, PTL DEF A2ASpec

(* For every arena and every answer (sea_a2a_delegate, /delegate): text of *)
(* a peer is shown as a result only when the shield let it pass, and what  *)
(* it says of an error, which no shield has seen, only as the error of a   *)
(* delegation that failed; what is called a success was carried out, the   *)
(* audit log says nothing of a task that was not; and a discovery          *)
(* (sea_a2a_discover) finds the first of the agents that have an endpoint, *)
(* in their order.                                                         *)
THEOREM DelegationIsTruthful == A2ASpec => []A2ATruthful
<1>1. DelegationInv /\ PeersAsListed => A2ATruthful
  BY DEF DelegationInv, A2ATruthful
<1>2. QED BY <1>1, A2AInvariant, PTL

-----------------------------------------------------------------------------
(***************************************************************************)
(* The start and the end of the program, for every set of providers, every *)
(* configuration and every part of it that finds no room.                  *)
(***************************************************************************)

(* What was kept of the configuration is what was said and found room. *)
ConfigRight(c, sayings) ==
  \A i \in DOMAIN c.entries :
    /\ sayings[i].entry \in ConfigEntries
    /\ c.entries[i] = Kept(sayings[i].entry, sayings[i].lost)

LEMMA LoadedRight ==
  ASSUME NEW file \in ConfigFiles, NEW lost,
         NEW sayings, sayings = [i \in DOMAIN EntriesOf(file) |->
                                  [entry |-> EntriesOf(file)[i], lost |-> LostOf(lost, i)]]
  PROVE  ConfigRight(Loaded(file, lost), sayings)
<1> DEFINE E == EntriesOf(file)
           used == IF Len(file.fallbacks) < MaxFallbacks THEN Len(file.fallbacks) ELSE MaxFallbacks
<1>1. file.primary \in ConfigEntries /\ file.fallbacks \in Seq(ConfigEntries)
  BY StartAssumption
<1>2. used \in Nat /\ used <= Len(file.fallbacks)
  BY <1>1, LenProperties, StartAssumption
<1>3. E = [i \in 1..used + 1 |-> IF i = 1 THEN file.primary ELSE file.fallbacks[i - 1]]
  BY DEF EntriesOf
<1>4. ASSUME NEW i \in DOMAIN E PROVE E[i] \in ConfigEntries
  <2> HIDE DEF used
  <2>1. i \in 1..used + 1 /\ E[i] = IF i = 1 THEN file.primary ELSE file.fallbacks[i - 1]
    BY <1>3, <1>4
  <2>2. CASE i = 1
    BY <1>1, <2>1, <2>2
  <2>3. CASE i # 1
    <3>1. i - 1 \in 1..Len(file.fallbacks)
      BY <1>1, <1>2, <2>1, <2>3, LenProperties
    <3>2. QED BY <1>1, <2>1, <2>3, <3>1, ElementOfSeq
  <2>4. QED BY <2>2, <2>3
<1> HIDE DEF E
<1>5. Loaded(file, lost).entries = [i \in DOMAIN E |-> Kept(E[i], LostOf(lost, i))]
      /\ sayings = [i \in DOMAIN E |-> [entry |-> E[i], lost |-> LostOf(lost, i)]]
  BY DEF Loaded, E
<1>6. QED BY <1>4, <1>5 DEF ConfigRight

-----------------------------------------------------------------------------
(* What the environment says is for the variable that says it. *)
EnvironRight == \A v \in Variables : Says(environ[v]) => environ[v].for = v

(* There is no database before it was opened, and what writes to it is     *)
(* gone when it closes.                                                    *)
DatabaseInv ==
  /\ opened \in BOOLEAN
  /\ mainAt \in {"args", "dotenv", "config", "doctor", "reported", "settle", "failed", "database"} =>
       ~opened
  /\ opened => \/ "database" \in alive
               \/ mainAt \in {"cleanup", "ended"} /\ Depositors \intersect alive = {}
  /\ mainAt = "ended" => alive = {}

StartInv == EnvironRight /\ ConfigRight(config, said) /\ KeysFit /\ DoctorRight /\ DatabaseInv

LEMMA NoConfigRight == ConfigRight(NoConfig, NothingSaid)
<1>1. /\ NoConfig.entries = <<[provider |-> NoName, key |-> Unset, url |-> FALSE, model |-> FALSE]>>
      /\ NothingSaid = <<[entry |-> NoEntry, lost |-> {}]>>
  BY DEF NoConfig, NothingSaid
<1>2. DOMAIN NoConfig.entries = {1} /\ NoEntry \in ConfigEntries
  BY <1>1 DEF NoEntry, ConfigEntries, ProviderNames
<1>3. Kept(NoEntry, {}) = [provider |-> NoName, key |-> Unset, url |-> FALSE, model |-> FALSE]
  BY DEF Kept, NoEntry
<1>4. NothingSaid[1].entry = NoEntry /\ NothingSaid[1].lost = {}
  BY <1>1
<1>5. NoConfig.entries[1] = Kept(NoEntry, {})
  BY <1>1, <1>3
<1>6. QED BY <1>2, <1>4, <1>5 DEF ConfigRight

LEMMA StartInitially == StartInit => StartInv
<1> SUFFICES ASSUME StartInit PROVE StartInv
  OBVIOUS
<1>1. /\ mainAt = "args" /\ config = NoConfig /\ said = NothingSaid /\ agentCfg = <<>> /\ alive = {} /\ opened = FALSE
      /\ environ = [v \in Variables |-> Unset] /\ ~Says(Unset)
  BY DEF StartInit, Says
<1>2. EnvironRight
  BY <1>1 DEF EnvironRight
<1>3. KeysFit /\ DoctorRight /\ DatabaseInv
  <2>1. DOMAIN agentCfg = {}
    BY <1>1
  <2>2. QED BY <1>1, <2>1 DEF KeysFit, DoctorRight, DatabaseInv
<1>4. QED BY <1>1, <1>2, <1>3, NoConfigRight DEF StartInv

(* Settings are read. *)
LEMMA ReadingSettingsKeeps ==
  ASSUME StartInv, ReadsOptions \/ LoadsDotenv \/ LoadsConfig \/ Doctor
  PROVE  StartInv'
<1>1. EnvironRight /\ ConfigRight(config, said) /\ KeysFit /\ DoctorRight /\ DatabaseInv
  BY DEF StartInv
<1>2. UNCHANGED <<alive, opened>> /\ mainAt' \notin {"services", "ended"}
      /\ mainAt \in {"args", "dotenv", "config", "doctor"}
      /\ mainAt' \in {"dotenv", "config", "doctor", "settle", "reported"}
  BY DEF ReadsOptions, LoadsDotenv, LoadsConfig, Doctor
<1>3. KeysFit'
  BY <1>2 DEF KeysFit
<1>4. DatabaseInv'
  BY <1>1, <1>2 DEF DatabaseInv
<1>5. EnvironRight'
  <2>1. CASE ReadsOptions
    <3>1. PICK given \in [Variables -> {"unset", "blank", "env"}] :
            environ' = [v \in Variables |-> IF given[v] = "env" THEN Setting(v, "env")
                                           ELSE Setting(NoName, given[v])]
      BY <2>1 DEF ReadsOptions
    <3>2. ASSUME NEW v \in Variables, Says(environ'[v]) PROVE environ'[v].for = v
      <4>1. CASE given[v] = "env"
        BY <3>1, <4>1 DEF Setting
      <4>2. CASE given[v] # "env"
        <5>1. given[v] \in {"unset", "blank"} /\ environ'[v] = Setting(NoName, given[v])
          BY <3>1, <4>2
        <5>2. QED BY <5>1, <3>2 DEF Says, Unset, Blank
      <4>3. QED BY <4>1, <4>2
    <3>3. QED BY <3>2 DEF EnvironRight
  <2>2. CASE LoadsDotenv
    <3>1. PICK named \in SUBSET Variables :
            environ' = [v \in Variables |-> IF v \in named /\ environ[v] = Unset
                                           THEN Setting(v, ".env") ELSE environ[v]]
      BY <2>2 DEF LoadsDotenv
    <3>2. QED BY <1>1, <3>1 DEF EnvironRight, Setting
  <2>3. CASE LoadsConfig \/ Doctor
    BY <1>1, <2>3 DEF LoadsConfig, Doctor, EnvironRight
  <2>4. QED BY <2>1, <2>2, <2>3
<1>6. ConfigRight(config, said)'
  <2>1. CASE LoadsConfig
    <3>1. CASE config' = NoConfig /\ said' = NothingSaid
      BY <3>1, NoConfigRight
    <3>2. CASE ~(config' = NoConfig /\ said' = NothingSaid)
      <4>1. PICK file \in ConfigFiles : \E lost \in SUBSET StringsOf(file) :
              /\ config' = Loaded(file, lost)
              /\ said' = [i \in DOMAIN EntriesOf(file) |->
                           [entry |-> EntriesOf(file)[i], lost |-> LostOf(lost, i)]]
        BY <2>1, <3>2 DEF LoadsConfig
      <4>2. PICK lost \in SUBSET StringsOf(file) :
              /\ config' = Loaded(file, lost)
              /\ said' = [i \in DOMAIN EntriesOf(file) |->
                           [entry |-> EntriesOf(file)[i], lost |-> LostOf(lost, i)]]
        BY <4>1
      <4>3. ConfigRight(Loaded(file, lost), said')
        BY <4>1, <4>2, LoadedRight
      <4>4. QED BY <4>2, <4>3
    <3>3. QED BY <3>1, <3>2
  <2>2. CASE ReadsOptions \/ LoadsDotenv \/ Doctor
    BY <1>1, <2>2 DEF ReadsOptions, LoadsDotenv, Doctor
  <2>3. QED BY <2>1, <2>2
<1>7. DoctorRight'
  <2>1. CASE Doctor
    <3>1. /\ report' = [token |-> Says(config.token) \/ Says(environ[TokenVar]), key |-> Says(config.entries[1].key)]
          /\ UNCHANGED <<environ, config>>
      BY <2>1 DEF Doctor
    <3>2. report'.token <=> Says(Configured(config.token, TokenVar))
      BY <3>1 DEF Configured
    <3>3. report'.key => Says(PrimaryKey(config.entries[1]))
      BY <3>1 DEF PrimaryKey, Configured
    <3>4. (Configured(config.token, TokenVar))' = Configured(config.token, TokenVar)
          /\ (PrimaryKey(config.entries[1]))' = PrimaryKey(config.entries[1])
      BY <3>1 DEF Configured, PrimaryKey
    <3>5. QED BY <3>2, <3>3, <3>4 DEF DoctorRight
  <2>2. CASE ReadsOptions \/ LoadsDotenv \/ LoadsConfig
    <3>1. mainAt' # "reported"
      BY <2>2 DEF ReadsOptions, LoadsDotenv, LoadsConfig
    <3>2. QED BY <3>1 DEF DoctorRight
  <2>3. QED BY <2>1, <2>2
<1>8. QED BY <1>3, <1>4, <1>5, <1>6, <1>7 DEF StartInv

(* The agent gets its keys. *)
LEMMA AgentKeysFit ==
  ASSUME StartInv, SetsUpAgent
  PROVE  KeysFit'
<1>1. UNCHANGED <<environ, said, config>>
  BY DEF SetsUpAgent
<1>2. ASSUME NEW i \in DOMAIN agentCfg' PROVE
        LET use == agentCfg'[i]
            entry == said[i].entry
            lost == said[i].lost
        IN  /\ Says(use.key) \/ use.model =>
                 \/ /\ use.provider = Addressee(entry.provider)
                    /\ Says(use.key) => use.key.for = use.provider
                    /\ use.url # entry.url => "url" \in lost /\ entry.url
                 \/ ("provider" \in lost \/ entry.provider = Unheard) /\ use.provider = FirstProvider
            /\ use.provider \in Remote /\ Says(environ[use.provider]) => Says(use.key)
  <2> DEFINE use == agentCfg'[i]
             entry == said[i].entry
             lost == said[i].lost
             kept == config.entries[i]
             key == IF i = 1 THEN PrimaryKey(kept) ELSE FallbackKey(kept)
  <2>1. /\ i \in DOMAIN config.entries
        /\ use = [provider |-> Provider(kept.provider), url |-> kept.url, model |-> kept.model, key |-> key]
    BY <1>2 DEF SetsUpAgent
  <2>2. entry \in ConfigEntries /\ kept = Kept(entry, lost)
    BY <2>1 DEF StartInv, ConfigRight
  <2> HIDE DEF use, entry, lost, kept
  <2>3. use.provider = Provider(kept.provider) /\ use.url = kept.url /\ use.key = key
    BY <2>1
  <2>4. /\ kept.provider = IF "provider" \in lost THEN NoName ELSE entry.provider
        /\ kept.key = IF entry.key /\ "key" \notin lost
                      THEN Setting(Addressee(entry.provider), "config") ELSE Unset
        /\ kept.url = (entry.url /\ "url" \notin lost)
    BY <2>2 DEF Kept
  <2>5. entry.url \in BOOLEAN /\ entry.provider \in Remote \union {Local, NoName, Unheard}
    BY <2>2 DEF ConfigEntries, ProviderNames
  <2>6. Says(kept.key) => kept.key.for = Addressee(entry.provider)
    BY <2>4 DEF Says, Setting
  <2>7. FirstProvider \in Remote /\ NoName \notin Remote /\ NoName # Local
        /\ Unheard \notin Remote /\ Unheard # Local /\ Local \notin Remote
    BY StartAssumption DEF NoName, Unheard, Local
  <2>8. use.provider \in Remote \union {Local}
    BY <2>3, <2>7 DEF Provider
  <2>9. "provider" \in lost \/ entry.provider = Unheard => use.provider = FirstProvider
    BY <2>3, <2>4, <2>7 DEF Provider
  <2>10. "provider" \notin lost /\ entry.provider # Unheard => use.provider = Addressee(entry.provider)
    BY <2>3, <2>4, <2>5, <2>7 DEF Provider, Addressee
  <2> DEFINE from == environ[use.provider]
  <2>11. use.provider # Local => (Says(from) => from.for = use.provider)
    BY <2>8 DEF StartInv, EnvironRight, Variables
  <2>12. key = kept.key \/ (use.provider # Local /\ key = from)
    BY <2>3 DEF PrimaryKey, Configured, FallbackKey
  <2>13. use.provider \in Remote /\ Says(from) => Says(key)
    BY <2>3, <2>7 DEF PrimaryKey, Configured, FallbackKey
  <2> HIDE DEF key, from
  <2>14. Says(use.key) /\ use.provider = Addressee(entry.provider) => use.key.for = use.provider
    BY <2>3, <2>6, <2>11, <2>12
  <2>15. use.url # entry.url => "url" \in lost /\ entry.url
    BY <2>3, <2>4, <2>5
  <2>16. QED BY <2>3, <2>9, <2>10, <2>13, <2>14, <2>15 DEF from, use, entry, lost
<1>3. QED BY <1>1, <1>2 DEF KeysFit

(* What is made of the settings, and what is brought up. *)
LEMMA BringingUpKeeps ==
  ASSUME StartInv, Settles \/ OpensDatabase \/ SetsUpAgent \/ BringsUp
  PROVE  StartInv'
<1>1. EnvironRight /\ ConfigRight(config, said) /\ KeysFit /\ DoctorRight /\ DatabaseInv
  BY DEF StartInv
<1>2. /\ mainAt' \in {"database", "failed", "agent", "services", "running"}
      /\ BringsUp \/ UNCHANGED <<config, said, environ>>
      /\ SetsUpAgent \/ mainAt' # "services"
  BY DEF Settles, OpensDatabase, SetsUpAgent, BringsUp
<1>3. EnvironRight' /\ ConfigRight(config, said)'
  <2>1. CASE BringsUp
    <3>1. config' = NoConfig /\ said' = NothingSaid /\ environ' = [v \in Variables |-> Unset] /\ ~Says(Unset)
      BY <2>1 DEF BringsUp, Says
    <3>2. QED BY <3>1, NoConfigRight DEF EnvironRight
  <2>2. CASE UNCHANGED <<config, said, environ>>
    BY <1>1, <2>2 DEF EnvironRight
  <2>3. QED BY <1>2, <2>1, <2>2
<1>4. KeysFit'
  <2>1. CASE SetsUpAgent
    BY <2>1, AgentKeysFit
  <2>2. CASE mainAt' # "services"
    BY <2>2 DEF KeysFit
  <2>3. QED BY <1>2, <2>1, <2>2
<1>5. DoctorRight'
  BY <1>2 DEF DoctorRight
<1>6. DatabaseInv'
  <2>1. CASE Settles
    BY <1>1, <2>1 DEF DatabaseInv, Settles
  <2>2. CASE OpensDatabase
    BY <1>1, <2>2 DEF DatabaseInv, OpensDatabase
  <2>3. CASE SetsUpAgent
    BY <1>1, <2>3 DEF DatabaseInv, SetsUpAgent
  <2>4. CASE BringsUp
    <3>1. PICK lost \in {{}} \union {{part} : part \in Wanted} : alive' = (alive \union Wanted) \ lost
      BY <2>4 DEF BringsUp
    <3>2. "database" \notin Wanted
      BY DEF Wanted
    <3>3. "database" \in alive => "database" \in alive'
      BY <3>1, <3>2
    <3>4. mainAt = "services" /\ mainAt' = "running" /\ UNCHANGED opened
      BY <2>4 DEF BringsUp
    <3>5. QED BY <1>1, <3>3, <3>4 DEF DatabaseInv
  <2>5. QED BY <2>1, <2>2, <2>3, <2>4
<1>7. QED BY <1>3, <1>4, <1>5, <1>6 DEF StartInv

(* The end. *)
LEMMA TakingDownKeeps ==
  ASSUME StartInv, Leaves \/ TakesDown \/ Ends
  PROVE  StartInv'
<1>1. EnvironRight /\ ConfigRight(config, said) /\ KeysFit /\ DoctorRight /\ DatabaseInv
  BY DEF StartInv
<1>2. UNCHANGED <<environ, config, said, opened>> /\ mainAt' \in {"cleanup", "ended"}
  BY DEF Leaves, TakesDown, Ends
<1>3. EnvironRight' /\ ConfigRight(config, said)'
  BY <1>1, <1>2 DEF EnvironRight
<1>4. KeysFit' /\ DoctorRight'
  BY <1>2 DEF KeysFit, DoctorRight
<1>5. DatabaseInv'
  <2>1. CASE Leaves \/ Ends
    BY <1>1, <2>1 DEF DatabaseInv, Leaves, Ends
  <2>2. CASE TakesDown
    <3> DEFINE I == {i \in 1..Len(TakenDown) : TakenDown[i] \in alive}
               first == IF I # {} THEN Min(I) ELSE 0
    <3>1. mainAt = "cleanup" /\ mainAt' = "cleanup" /\ alive' = alive \ {TakenDown[first]}
      BY <2>2 DEF TakesDown, SelectInSeq
    <3>2. /\ Len(TakenDown) = 10 /\ TakenDown[1] = "mesh" /\ TakenDown[2] = "usage"
          /\ TakenDown[3] = "recall" /\ TakenDown[4] = "cron" /\ TakenDown[5] = "memory"
          /\ TakenDown[6] = "skills" /\ TakenDown[7] = "database" /\ TakenDown[8] = "request"
          /\ TakenDown[9] = "session" /\ TakenDown[10] = "config"
      BY DEF TakenDown
    <3>3. ASSUME "database" \in alive, TakenDown[first] = "database"
          PROVE  Depositors \intersect alive = {}
      <4>1. 7 \in I /\ I \in SUBSET Nat
        BY <3>2, <3>3
      <4>2. first \in I /\ \A k \in I : first <= k
        <5> HIDE DEF I
        <5>1. \E x \in I : \A k \in I : x <= k
          BY <4>1, LeastExists
        <5>2. Min(I) \in I /\ \A k \in I : Min(I) <= k
          BY <5>1 DEF Min
        <5>3. QED BY <4>1, <5>2
      <4>3. first \in 1..10
        BY <3>2, <4>2
      <4>4. first = 7
        <5> HIDE DEF first, I
        <5>1. QED BY <3>2, <3>3, <4>3
      <4>5. 1 \notin I /\ 2 \notin I /\ 3 \notin I /\ 4 \notin I
        <5> HIDE DEF first, I
        <5>1. QED BY <4>2, <4>4
      <4>6. QED BY <3>2, <4>5 DEF Depositors
    <3> HIDE DEF first
    <3>4. QED BY <1>1, <1>2, <3>1, <3>3 DEF DatabaseInv
  <2>3. QED BY <2>1, <2>2
<1>6. QED BY <1>3, <1>4, <1>5 DEF StartInv

LEMMA StartInvariant == StartSpec => []StartInv
<1>1. StartInit => StartInv
  BY StartInitially
<1>2. ASSUME StartInv, [StartNext]_startVars PROVE StartInv'
  <2>1. CASE ReadsOptions \/ LoadsDotenv \/ LoadsConfig \/ Doctor
    BY <1>2, <2>1, ReadingSettingsKeeps
  <2>2. CASE Settles \/ OpensDatabase \/ SetsUpAgent \/ BringsUp
    BY <1>2, <2>2, BringingUpKeeps
  <2>3. CASE Leaves \/ TakesDown \/ Ends
    BY <1>2, <2>3, TakingDownKeeps
  <2>4. CASE UNCHANGED startVars
    <3>1. UNCHANGED <<mainAt, environ, config, said, agentCfg, report, alive, opened>>
      BY <2>4 DEF startVars
    <3>2. EnvironRight' /\ ConfigRight(config, said)' /\ KeysFit' /\ DatabaseInv'
      BY <1>2, <3>1 DEF StartInv, EnvironRight, KeysFit, DatabaseInv
    <3>3. DoctorRight'
      BY <1>2, <3>1 DEF StartInv, DoctorRight, Configured, PrimaryKey
    <3>4. QED BY <3>2, <3>3 DEF StartInv
  <2>5. QED BY <1>2, <2>1, <2>2, <2>3, <2>4 DEF StartNext
<1>3. QED BY <1>1, <1>2, PTL DEF StartSpec

(* For every set of providers, every config.json, known names of providers *)
(* or not, and whichever of its strings find no room (sea_config_load,     *)
(* main): the agent uses a key with the provider and at the URL it is for, *)
(* unless that very name or URL was lost or is not known; --doctor says    *)
(* what a start would find, and the database closes after all that write   *)
(* to it.                                                                  *)
THEOREM StartsWell == StartSpec => []WellStarted
<1>1. StartInv => WellStarted
  <2> SUFFICES ASSUME StartInv PROVE WellStarted
    OBVIOUS
  <2>1. DatabaseOutlives
    BY DEF StartInv, DatabaseInv, DatabaseOutlives
  <2>2. QED BY <2>1 DEF StartInv, WellStarted
<1>2. QED BY <1>1, StartInvariant, PTL

-----------------------------------------------------------------------------
(***************************************************************************)
(* Usage, for any providers, any sizes of the tables and any number of     *)
(* requests, days and lives.                                               *)
(***************************************************************************)

Counter == [requests : Nat, errors : Nat]
Request == [payee : Payees, date : 1..MaxUsageDate, error : BOOLEAN, life : Nat]
UsageRow == [payee : Payees, date : 1..MaxUsageDate, requests : Nat, errors : Nat]

UsageTypeOK ==
  /\ usageDate \in 1..MaxUsageDate /\ life \in Nat /\ ledger \in Seq(Request)
  /\ payees \in Seq([key : Payees, counter : Counter])
  /\ usageDays \in Seq([key : 1..MaxUsageDate, counter : Counter])
  /\ totals \in Counter /\ rows \subseteq UsageRow

(* Nothing is of a later date than it is, or of a later life. *)
NothingAhead ==
  /\ \A i \in DOMAIN ledger : ledger[i].date <= usageDate /\ ledger[i].life <= life
  /\ \A r \in rows : r.date <= usageDate

(* The tables keep their sizes, and have no key twice. *)
TablesInv ==
  /\ Len(payees) <= MaxPayees /\ Len(usageDays) <= UsageDays
  /\ \A i, k \in DOMAIN payees : i # k => payees[i].key # payees[k].key
  /\ \A i, k \in DOMAIN usageDays : i < k => usageDays[i].key < usageDays[k].key

(* The counters of this life. *)
PayeesExact ==
  /\ \A i \in DOMAIN payees :
       payees[i].counter = CountOf({k \in OfLife : ledger[k].payee = payees[i].key})
  /\ \A k \in OfLife : Has(payees, ledger[k].payee) \/ Len(payees) = MaxPayees

DaysExact ==
  /\ \A i \in DOMAIN usageDays :
       /\ usageDays[i].counter = CountOf({k \in OfLife : ledger[k].date = usageDays[i].key})
       /\ usageDays[i].key \in Dates
  /\ \A d \in Dates :
       \/ Has(usageDays, d)
       \/ Len(usageDays) = UsageDays /\ \A i \in DOMAIN usageDays : d < usageDays[i].key

(* What was asked of a payee until a date, in the lives before this one.   *)
Earlier(payee, d) ==
  {i \in DOMAIN ledger : ledger[i].payee = payee /\ ledger[i].date <= d /\ ledger[i].life < life}

(* The rows of the table are from the lives before this one. *)
RowsInv ==
  /\ \A r, s \in rows : r.payee = s.payee /\ r.date = s.date => r = s
  /\ \A payee \in Payees, d \in 0..MaxUsageDate :
       SavedUntil(rows, payee)[d] <= Cardinality(Earlier(payee, d))

UsageInv ==
  /\ UsageTypeOK /\ NothingAhead /\ TablesInv
  /\ totals = CountOf(OfLife) /\ PayeesExact /\ DaysExact /\ RowsInv

-----------------------------------------------------------------------------
(* Sums over days.                                                         *)

(* The function that adds up a table of numbers. *)
AddsUp(f, a, n) ==
  /\ f \in [0..n -> Nat]
  /\ \A d \in 0..n : f[d] = IF d = 0 THEN 0 ELSE f[d - 1] + a[d]

LEMMA SumsExist ==
  ASSUME NEW n \in Nat, NEW a \in [1..n -> Nat]
  PROVE  \E f : AddsUp(f, a, n)
<1> DEFINE Wanting == {m \in 0..n : ~ \E f \in [0..m -> Nat] :
                          \A d \in 0..m : f[d] = IF d = 0 THEN 0 ELSE f[d - 1] + a[d]}
<1>1. Wanting = {}
  <2>1. SUFFICES ASSUME Wanting # {} PROVE FALSE
    OBVIOUS
  <2>2. Wanting \in SUBSET Nat
    OBVIOUS
  <2>3. PICK m \in Wanting : \A l \in Wanting : m <= l
    <3> HIDE DEF Wanting
    <3>1. QED BY <2>1, <2>2, LeastExists
  <2>4. m \in 0..n
    OBVIOUS
  <2>5. CASE m = 0
    <3>1. [d \in 0..0 |-> 0] \in [0..m -> Nat]
      BY <2>5
    <3>2. \A d \in 0..m : [e \in 0..0 |-> 0][d] = IF d = 0 THEN 0 ELSE [e \in 0..0 |-> 0][d - 1] + a[d]
      BY <2>5
    <3>3. QED BY <2>3, <3>1, <3>2
  <2>6. CASE m # 0
    <3>1. m - 1 \in 0..n /\ m - 1 \notin Wanting
      <4> HIDE DEF Wanting
      <4>1. QED BY <2>2, <2>3, <2>4, <2>6
    <3>2. PICK f \in [0..m - 1 -> Nat] :
            \A d \in 0..m - 1 : f[d] = IF d = 0 THEN 0 ELSE f[d - 1] + a[d]
      BY <3>1
    <3> DEFINE g == [d \in 0..m |-> IF d < m THEN f[d] ELSE f[m - 1] + a[m]]
    <3>3. g \in [0..m -> Nat]
      BY <2>4, <2>6, <3>2
    <3>4. \A d \in 0..m : g[d] = IF d = 0 THEN 0 ELSE g[d - 1] + a[d]
      <4>1. TAKE d \in 0..m
      <4>2. CASE d < m
        <5>1. d \in 0..m - 1 /\ (d # 0 => d - 1 \in 0..m - 1 /\ d - 1 < m /\ d - 1 \in 0..m)
          BY <2>4, <4>2
        <5>2. g[d] = f[d] /\ (d # 0 => g[d - 1] = f[d - 1])
          BY <4>2, <5>1
        <5>3. QED BY <3>2, <5>1, <5>2
      <4>3. CASE d = m
        <5>1. m - 1 \in 0..m /\ m - 1 < m
          BY <2>4, <2>6
        <5>2. g[m] = f[m - 1] + a[m] /\ g[m - 1] = f[m - 1]
          BY <2>4, <5>1
        <5>3. QED BY <2>6, <4>3, <5>2
      <4>4. QED BY <2>4, <4>2, <4>3
    <3>5. QED BY <2>3, <3>3, <3>4
  <2>7. QED BY <2>5, <2>6
<1>2. n \in 0..n
  OBVIOUS
<1>3. \E f \in [0..n -> Nat] : \A d \in 0..n : f[d] = IF d = 0 THEN 0 ELSE f[d - 1] + a[d]
  BY <1>1, <1>2
<1>4. QED BY <1>3 DEF AddsUp

(* Two tables that agree up to m add up to the same until m. *)
LEMMA SumsAgree ==
  ASSUME NEW n \in Nat, NEW f, NEW a, NEW g, NEW b, AddsUp(f, a, n), AddsUp(g, b, n),
         NEW m \in 0..n, \A d \in 1..m : a[d] = b[d]
  PROVE  \A d \in 0..m : f[d] = g[d]
<1> DEFINE Apart == {d \in 0..m : f[d] # g[d]}
<1>1. SUFFICES ASSUME Apart # {} PROVE FALSE
  OBVIOUS
<1>2. Apart \in SUBSET Nat
  OBVIOUS
<1>3. PICK d \in Apart : \A l \in Apart : d <= l
  <2> HIDE DEF Apart
  <2>1. QED BY <1>1, <1>2, LeastExists
<1>4. d \in 0..m /\ d \in 0..n /\ f[d] # g[d]
  OBVIOUS
<1>5. d # 0
  BY <1>4 DEF AddsUp
<1>6. d - 1 \in 0..m /\ d \in 1..m
  BY <1>4, <1>5
<1>7. d - 1 \notin Apart
  <2> HIDE DEF Apart
  <2>1. QED BY <1>2, <1>3, <1>4
<1>8. f[d - 1] = g[d - 1] /\ a[d] = b[d]
  BY <1>6, <1>7
<1>9. f[d] = f[d - 1] + a[d] /\ g[d] = g[d - 1] + b[d]
  BY <1>4, <1>5 DEF AddsUp
<1>10. QED BY <1>4, <1>8, <1>9

(* A table with nothing behind m adds up to nothing more behind m. *)
LEMMA SumsEnd ==
  ASSUME NEW n \in Nat, NEW f, NEW a, AddsUp(f, a, n),
         NEW m \in 0..n, \A d \in m + 1..n : a[d] = 0
  PROVE  \A d \in m..n : f[d] = f[m]
<1> DEFINE Apart == {d \in m..n : f[d] # f[m]}
<1>1. SUFFICES ASSUME Apart # {} PROVE FALSE
  OBVIOUS
<1>2. Apart \in SUBSET Nat
  OBVIOUS
<1>3. PICK d \in Apart : \A l \in Apart : d <= l
  <2> HIDE DEF Apart
  <2>1. QED BY <1>1, <1>2, LeastExists
<1>4. d \in m + 1..n /\ d \in 0..n /\ d # 0 /\ d - 1 \in m..n /\ f[d] # f[m]
  OBVIOUS
<1>5. d - 1 \notin Apart
  <2> HIDE DEF Apart
  <2>1. QED BY <1>2, <1>3, <1>4
<1>6. f[d - 1] = f[m] /\ f[d - 1] \in Nat
  BY <1>4, <1>5 DEF AddsUp
<1>7. f[d] = f[d - 1] + 0
  BY <1>4 DEF AddsUp
<1>8. QED BY <1>4, <1>6, <1>7

(* What is saved of a payee, day by day. *)
SavedTable(table, payee) == [d \in 1..MaxUsageDate |-> SavedOn(table, payee, d)]

LEMMA SavedAddsUp ==
  ASSUME NEW table \in SUBSET UsageRow, NEW payee \in Payees
  PROVE  /\ SavedTable(table, payee) \in [1..MaxUsageDate -> Nat]
         /\ AddsUp(SavedUntil(table, payee), SavedTable(table, payee), MaxUsageDate)
<1> DEFINE N == MaxUsageDate
           Until(f) == f = [d \in 0..N |-> IF d = 0 THEN 0 ELSE f[d - 1] + SavedOn(table, payee, d)]
<1>1. N \in Nat
  BY UsageAssumption
<1>2. \A d \in 1..N : SavedOn(table, payee, d) \in Nat
  BY DEF SavedOn, UsageRow
<1>3. SavedTable(table, payee) \in [1..N -> Nat]
  BY <1>2 DEF SavedTable
<1>4. PICK f : AddsUp(f, SavedTable(table, payee), N)
  BY <1>1, <1>3, SumsExist
<1>5. Until(f)
  <2>1. \A d \in 0..N : d # 0 => SavedTable(table, payee)[d] = SavedOn(table, payee, d)
    BY <1>1 DEF SavedTable
  <2>2. f \in [0..N -> Nat] /\ \A d \in 0..N : f[d] = IF d = 0 THEN 0 ELSE f[d - 1] + SavedOn(table, payee, d)
    BY <1>4, <2>1 DEF AddsUp
  <2>3. QED BY <2>2
<1>6. SavedUntil(table, payee) = CHOOSE g : Until(g)
  BY DEF SavedUntil
<1>7. Until(SavedUntil(table, payee))
  <2> HIDE DEF Until
  <2>1. QED BY <1>5, <1>6
<1>8. SavedUntil(table, payee) = f
  <2> DEFINE g == SavedUntil(table, payee)
  <2>1. DOMAIN g = 0..N /\ \A d \in 0..N : g[d] = IF d = 0 THEN 0 ELSE g[d - 1] + SavedOn(table, payee, d)
    BY <1>7
  <2>2. DOMAIN f = 0..N /\ g = [d \in 0..N |-> g[d]] /\ f = [d \in 0..N |-> f[d]]
    BY <1>4, <1>7 DEF AddsUp
  <2>3. \A d \in 0..N : f[d] = IF d = 0 THEN 0 ELSE f[d - 1] + SavedOn(table, payee, d)
    BY <1>5
  <2> DEFINE Apart == {d \in 0..N : f[d] # g[d]}
  <2>4. Apart = {}
    <3>1. SUFFICES ASSUME Apart # {} PROVE FALSE
      OBVIOUS
    <3>2. Apart \in SUBSET Nat
      BY <1>1
    <3>3. PICK d \in Apart : \A l \in Apart : d <= l
      <4> HIDE DEF Apart
      <4>1. QED BY <3>1, <3>2, LeastExists
    <3>4. d \in 0..N /\ f[d] # g[d]
      OBVIOUS
    <3>5. d # 0
      <4> HIDE DEF g, Until
      <4>1. QED BY <2>1, <2>3, <3>4
    <3>6. d - 1 \in 0..N /\ d - 1 \notin Apart
      <4> HIDE DEF Apart
      <4>1. QED BY <1>1, <3>2, <3>3, <3>4, <3>5
    <3>7. f[d - 1] = g[d - 1]
      BY <3>6
    <3>8. QED
      <4> HIDE DEF g, Apart, Until
      <4>1. QED BY <2>1, <2>3, <3>4, <3>5, <3>7
  <2>5. \A d \in 0..N : f[d] = g[d]
    BY <2>4
  <2> HIDE DEF g
  <2>6. f = g
    BY <2>2, <2>5
  <2>7. QED BY <2>6 DEF g
<1>9. QED BY <1>3, <1>4, <1>8

-----------------------------------------------------------------------------
(* The ledger and the counters.                                            *)

(* What entries of a log are counted as. *)
CountIn(log, entries) ==
  [requests |-> Cardinality(entries), errors |-> Cardinality({i \in entries : log[i].error})]

LEMMA PlusOne ==
  ASSUME NEW c \in Counter, NEW error \in BOOLEAN
  PROVE  Plus(c, error) \in Counter
BY DEF Plus, Counter

LEMMA CountedType ==
  ASSUME NEW log \in Seq(Request), NEW E \in SUBSET DOMAIN log
  PROVE  /\ IsFiniteSet(E) /\ Cardinality(E) \in Nat /\ CountIn(log, E) \in Counter
         /\ IsFiniteSet({i \in E : log[i].error})
<1>1. DOMAIN log = 1..Len(log) /\ Len(log) \in Nat
  BY LenProperties
<1>2. IsFiniteSet(1..Len(log))
  BY <1>1, FS_Interval
<1>3. IsFiniteSet(E) /\ IsFiniteSet({i \in E : log[i].error})
  BY <1>1, <1>2, FS_Subset
<1>4. QED BY <1>3, FS_CardinalityType DEF CountIn, Counter

LEMMA CountedOne ==
  ASSUME NEW log \in Seq(Request), NEW request \in Request, NEW E \in SUBSET DOMAIN log
  PROVE  /\ CountIn(Append(log, request), E) = CountIn(log, E)
         /\ CountIn(Append(log, request), E \union {Len(log) + 1}) = Plus(CountIn(log, E), request.error)
<1> DEFINE F == {i \in E : log[i].error}
           longer == Append(log, request)
           n == Len(log) + 1
<1>1. /\ Len(log) \in Nat /\ DOMAIN log = 1..Len(log) /\ n \notin E /\ n \notin F
      /\ longer[n] = request /\ request.error \in BOOLEAN
      /\ \A i \in E : longer[i] = log[i]
  BY LenProperties, AppendProperties DEF Request
<1> HIDE DEF longer, n
<1>2. {i \in E : longer[i].error} = F
  BY <1>1
<1>3. {i \in E \union {n} : longer[i].error} = IF request.error THEN F \union {n} ELSE F
  <2>1. CASE request.error
    BY <1>1, <2>1
  <2>2. CASE ~request.error
    BY <1>1, <2>2
  <2>3. QED BY <1>1, <2>1, <2>2
<1>4. /\ Cardinality(E \union {n}) = Cardinality(E) + 1
      /\ Cardinality(F \union {n}) = Cardinality(F) + 1
      /\ Cardinality(E) \in Nat /\ Cardinality(F) \in Nat
  <2>1. IsFiniteSet(E) /\ IsFiniteSet(F)
    BY CountedType
  <2> HIDE DEF F
  <2>2. QED BY <1>1, <2>1, FS_AddElement, FS_CardinalityType
<1>5. CountIn(longer, E) = CountIn(log, E)
  BY <1>2 DEF CountIn
<1>6. CountIn(longer, E \union {n}) = Plus(CountIn(log, E), request.error)
  <2>1. CountIn(log, E) = [requests |-> Cardinality(E), errors |-> Cardinality(F)]
    BY DEF CountIn
  <2>2. CountIn(longer, E \union {n}) =
          [requests |-> Cardinality(E) + 1,
           errors |-> IF request.error THEN Cardinality(F) + 1 ELSE Cardinality(F)]
    <3> DEFINE G == {i \in E \union {n} : longer[i].error}
    <3>1. CountIn(longer, E \union {n}) = [requests |-> Cardinality(E \union {n}), errors |-> Cardinality(G)]
      BY DEF CountIn
    <3>2. Cardinality(G) = IF request.error THEN Cardinality(F) + 1 ELSE Cardinality(F)
      <4> HIDE DEF F
      <4>1. QED BY <1>3, <1>4
    <3> HIDE DEF F, G
    <3>3. QED BY <1>4, <3>1, <3>2
  <2>3. CountIn(log, E) \in Counter
    BY CountedType
  <2>4. CountIn(log, E).requests = Cardinality(E) /\ CountIn(log, E).errors = Cardinality(F)
    <3> HIDE DEF F
    <3>1. QED BY <2>1
  <2> HIDE DEF F
  <2>5. QED BY <2>2, <2>4 DEF Plus
<1>7. QED BY <1>5, <1>6 DEF longer, n

(* A table of counters, its keys K, each counting the entries P says. *)
Slots(K) == Seq([key : K, counter : Counter])
Distinct(t) == \A i, k \in DOMAIN t : i # k => t[i].key # t[k].key
Agrees(t, log, P) == \A i \in DOMAIN t : t[i].counter = CountIn(log, P[t[i].key])

(* A request entered under its key. *)
LEMMA EnteredCounts ==
  ASSUME NEW K, NEW t \in Slots(K), Distinct(t), NEW key \in K,
         Has(t, key),
         NEW log \in Seq(Request), NEW request \in Request,
         NEW P \in [K -> SUBSET DOMAIN log], Agrees(t, log, P)
  PROVE  LET e == Entered(t, key, request.error) IN
         /\ e \in Slots(K) /\ Len(e) = Len(t) /\ DOMAIN e = DOMAIN t
         /\ \A i \in DOMAIN t : e[i].key = t[i].key
         /\ Agrees(e, Append(log, request), [P EXCEPT ![key] = P[key] \union {Len(log) + 1}])
<1>a. PICK s \in DOMAIN t : t[s].key = key
  BY DEF Has
<1> DEFINE e == Entered(t, key, request.error)
           longer == Append(log, request)
           n == Len(log) + 1
           Q == [P EXCEPT ![key] = P[key] \union {n}]
           new == Plus(t[s].counter, request.error)
<1>1. /\ SlotOf(t, key) = s /\ DOMAIN t = 1..Len(t) /\ Len(t) \in Nat
      /\ t \in [1..Len(t) -> [key : K, counter : Counter]]
  BY LenProperties, <1>a DEF SlotOf, Distinct, Slots
<1>2. e = [t EXCEPT ![s] = [key |-> key, counter |-> new]]
  BY <1>1 DEF Entered
<1>3. new \in Counter
  <2>1. t[s].counter \in Counter /\ request.error \in BOOLEAN
    BY <1>1 DEF Request
  <2>2. QED BY <2>1, PlusOne
<1>4. t[s].counter = CountIn(log, P[key]) /\ P[key] \in SUBSET DOMAIN log
  BY <1>a DEF Agrees
<1>0. ASSUME NEW E \in SUBSET DOMAIN log
      PROVE  /\ CountIn(longer, E) = CountIn(log, E)
             /\ CountIn(longer, E \union {n}) = Plus(CountIn(log, E), request.error)
  BY CountedOne
<1>5. new = CountIn(longer, P[key] \union {n})
  BY <1>0, <1>4
<1> HIDE DEF new, e, longer, n
<1>6. e \in [1..Len(t) -> [key : K, counter : Counter]]
  BY <1>1, <1>2, <1>3
<1>7. e \in Slots(K) /\ Len(e) = Len(t) /\ DOMAIN e = DOMAIN t
  <2>1. e \in Slots(K)
    <3> DEFINE S == [key : K, counter : Counter]
               m == Len(t)
    <3>1. e \in [1..m -> S] /\ m \in Nat
      BY <1>1, <1>6
    <3> HIDE DEF S, m
    <3>2. e \in Seq(S)
      BY <3>1, SeqDef
    <3>3. QED BY <3>2 DEF S, Slots
  <2>2. DOMAIN e = 1..Len(t)
    BY <1>6
  <2>3. QED BY <1>1, <2>1, <2>2, LenProperties DEF Slots
<1>8. \A i \in DOMAIN t : e[i] = IF i = s THEN [key |-> key, counter |-> new] ELSE t[i]
  BY <1>1, <1>2
<1>9. ASSUME NEW i \in DOMAIN t PROVE e[i].key = t[i].key /\ e[i].counter = CountIn(longer, Q[e[i].key])
  <2>1. CASE i = s
    <3>1. e[i].key = key /\ e[i].counter = new
      BY <1>8, <2>1
    <3>2. Q[key] = P[key] \union {n}
      OBVIOUS
    <3>3. QED BY <1>a, <1>5, <2>1, <3>1, <3>2
  <2>2. CASE i # s
    <3>1. e[i] = t[i] /\ t[i].key # key /\ t[i].key \in K
      BY <1>a, <1>1, <1>8, <2>2 DEF Distinct
    <3>2. Q[t[i].key] = P[t[i].key] /\ P[t[i].key] \in SUBSET DOMAIN log
      BY <3>1
    <3>3. t[i].counter = CountIn(log, P[t[i].key])
      BY DEF Agrees
    <3>4. CountIn(longer, P[t[i].key]) = CountIn(log, P[t[i].key])
      BY <3>2, <1>0
    <3>5. QED BY <3>1, <3>2, <3>3, <3>4
  <2>3. QED BY <2>1, <2>2
<1>10. QED BY <1>7, <1>9 DEF Agrees, e, longer, n

(* A new key, of which nothing was counted, behind the others. *)
LEMMA AddedCounts ==
  ASSUME NEW K, NEW t \in Slots(K), Distinct(t), NEW key \in K, ~Has(t, key),
         NEW log \in Seq(Request), NEW P \in [K -> SUBSET DOMAIN log], Agrees(t, log, P), P[key] = {}
  PROVE  LET a == Append(t, Entry(key)) IN
         /\ a \in Slots(K) /\ Len(a) = Len(t) + 1 /\ Distinct(a) /\ Agrees(a, log, P)
         /\ DOMAIN a = 1..Len(t) + 1 /\ a[Len(t) + 1].key = key
         /\ \A i \in DOMAIN t : a[i] = t[i]
<1> DEFINE a == Append(t, Entry(key))
           z == Len(t) + 1
<1>1. Entry(key) \in [key : K, counter : Counter] /\ Entry(key).key = key /\ Entry(key).counter = Nothing
  BY DEF Entry, Nothing, Counter
<1>2. CountIn(log, P[key]) = Nothing
  <2>1. {i \in {} : log[i].error} = {}
    OBVIOUS
  <2>2. QED BY <2>1, FS_EmptySet DEF CountIn, Nothing
<1>3. /\ a \in Slots(K) /\ Len(a) = z /\ Len(t) \in Nat /\ DOMAIN t = 1..Len(t) /\ DOMAIN a = 1..z
      /\ a[z] = Entry(key) /\ \A i \in DOMAIN t : a[i] = t[i]
  BY <1>1, AppendProperties, LenProperties DEF Slots
<1> HIDE DEF a
<1>4. \A i \in 1..z : i = z \/ i \in DOMAIN t
  BY <1>3
<1>5. Agrees(a, log, P)
  BY <1>1, <1>2, <1>3, <1>4 DEF Agrees
<1>6. Distinct(a)
  BY <1>1, <1>3, <1>4 DEF Distinct, Has
<1>7. QED BY <1>1, <1>3, <1>5, <1>6 DEF a

-----------------------------------------------------------------------------
(* A record.                                                               *)

OfPayee == [p \in Payees |-> {k \in OfLife : ledger[k].payee = p}]
OfDate == [d \in 1..MaxUsageDate |-> {k \in OfLife : ledger[k].date = d}]
Rising(t) == \A i, k \in DOMAIN t : i < k => t[i].key < t[k].key

LEMMA OfLifeTypes ==
  ASSUME UsageTypeOK
  PROVE  /\ OfLife \subseteq DOMAIN ledger
         /\ OfPayee \in [Payees -> SUBSET DOMAIN ledger]
         /\ OfDate \in [1..MaxUsageDate -> SUBSET DOMAIN ledger]
         /\ \A k \in DOMAIN ledger : ledger[k] \in Request
         /\ \A k \in OfLife : ledger[k].payee \in Payees /\ ledger[k].date \in 1..MaxUsageDate
         /\ \A p \in Payees : OfPayee[p] = {k \in OfLife : ledger[k].payee = p}
         /\ \A d \in 1..MaxUsageDate : OfDate[d] = {k \in OfLife : ledger[k].date = d}
         /\ \A E : CountOf(E) = CountIn(ledger, E)
<1>1. OfLife \subseteq DOMAIN ledger
  BY DEF OfLife
<1>2. \A k \in DOMAIN ledger : ledger[k] \in Request
  BY LenProperties, ElementOfSeq DEF UsageTypeOK
<1>3. \A E : CountOf(E) = CountIn(ledger, E)
  BY DEF CountOf, CountIn
<1>4. \A k \in OfLife : ledger[k].payee \in Payees /\ ledger[k].date \in 1..MaxUsageDate
  BY <1>1, <1>2 DEF Request
<1>5. QED BY <1>1, <1>2, <1>3, <1>4 DEF OfPayee, OfDate

(* The slot a payee's request goes to, if there is one. *)
LEMMA PayeeSlot ==
  ASSUME UsageInv, NEW p \in Payees
  PROVE  LET t == WithPayee(p) IN
         /\ t \in Slots(Payees) /\ Distinct(t) /\ Agrees(t, ledger, OfPayee) /\ Len(t) <= MaxPayees
         /\ Len(payees) = MaxPayees => Len(t) = MaxPayees
         /\ \A q : Has(payees, q) => Has(t, q)
         /\ Has(t, p) \/ (Len(t) = MaxPayees /\ t = payees)
<1>1. /\ payees \in Slots(Payees) /\ Distinct(payees) /\ Len(payees) \in Nat /\ Len(payees) <= MaxPayees
      /\ MaxPayees \in Nat /\ DOMAIN payees = 1..Len(payees)
  BY LenProperties, UsageAssumption DEF UsageInv, UsageTypeOK, TablesInv, Slots, Distinct
<1>0. Len(payees) \in Nat /\ Len(payees) <= MaxPayees /\ MaxPayees \in Nat
  BY <1>1
<1>2. /\ OfPayee \in [Payees -> SUBSET DOMAIN ledger] /\ ledger \in Seq(Request)
      /\ OfPayee[p] = {k \in OfLife : ledger[k].payee = p}
  BY OfLifeTypes DEF UsageInv, UsageTypeOK
<1>3. Agrees(payees, ledger, OfPayee)
  <2>1. \A i \in DOMAIN payees : payees[i].key \in Payees
    <3>1. \A i \in DOMAIN payees : payees[i] \in [key : Payees, counter : Counter]
      BY <1>1, ElementOfSeq DEF Slots
    <3>2. QED BY <3>1
  <2>2. \A i \in DOMAIN payees : OfPayee[payees[i].key] = {k \in OfLife : ledger[k].payee = payees[i].key}
    BY <2>1, OfLifeTypes DEF UsageInv
  <2>3. \A i \in DOMAIN payees :
          payees[i].counter = CountIn(ledger, {k \in OfLife : ledger[k].payee = payees[i].key})
    BY OfLifeTypes DEF UsageInv, PayeesExact
  <2>4. QED BY <2>2, <2>3 DEF Agrees
<1>4. CASE Has(payees, p) \/ Len(payees) >= MaxPayees
  <2>1. WithPayee(p) = payees
    BY <1>4 DEF WithPayee
  <2>2. Has(payees, p) \/ Len(payees) = MaxPayees
    BY <1>0, <1>4
  <2>3. QED BY <1>1, <1>3, <2>1, <2>2
<1>5. CASE ~Has(payees, p) /\ Len(payees) < MaxPayees
  <2> DEFINE t == Append(payees, Entry(p))
             z == Len(payees) + 1
  <2>1. WithPayee(p) = t
    BY <1>0, <1>5 DEF WithPayee
  <2>2. OfPayee[p] = {}
    <3>1. Len(payees) # MaxPayees
      BY <1>0, <1>5
    <3>2. \A k \in OfLife : Has(payees, ledger[k].payee)
      BY <3>1 DEF UsageInv, PayeesExact
    <3>3. QED BY <1>2, <1>5, <3>2
  <2>3. /\ t \in Slots(Payees) /\ Len(t) = z /\ Distinct(t) /\ Agrees(t, ledger, OfPayee)
        /\ DOMAIN t = 1..z /\ t[z].key = p
        /\ \A i \in DOMAIN payees : t[i] = payees[i]
    BY <1>1, <1>2, <1>3, <1>5, <2>2, AddedCounts
  <2> HIDE DEF t
  <2>4. Has(t, p) /\ \A q : Has(payees, q) => Has(t, q)
    BY <1>1, <2>3 DEF Has
  <2>5. Len(t) <= MaxPayees /\ Len(payees) # MaxPayees
    BY <1>0, <1>5, <2>3
  <2>6. QED BY <2>1, <2>3, <2>4, <2>5
<1>6. QED BY <1>0, <1>4, <1>5

(* A day that is not in the table of days is behind all that are. *)
LEMMA TodayIsNew ==
  ASSUME UsageInv, ~Has(usageDays, usageDate)
  PROVE  /\ OfDate[usageDate] = {}
         /\ \A i \in DOMAIN usageDays : usageDays[i].key < usageDate
<1>1. /\ usageDate \in 1..MaxUsageDate /\ MaxUsageDate \in Nat /\ UsageDays \in Nat \ {0}
      /\ OfDate[usageDate] = {k \in OfLife : ledger[k].date = usageDate}
  BY UsageAssumption, OfLifeTypes DEF UsageInv, UsageTypeOK
<1>2. \A d \in Dates : d \in 1..MaxUsageDate /\ d <= usageDate
  BY OfLifeTypes DEF UsageInv, NothingAhead, Dates
<1>3. \A i \in DOMAIN usageDays : usageDays[i].key < usageDate
  <2>1. TAKE i \in DOMAIN usageDays
  <2>2. usageDays[i].key \in Dates /\ usageDays[i].key # usageDate
    BY DEF UsageInv, DaysExact, Has
  <2>3. QED BY <1>1, <1>2, <2>2
<1>4. usageDate \notin Dates
  <2>1. SUFFICES ASSUME usageDate \in Dates PROVE FALSE
    OBVIOUS
  <2>2. Len(usageDays) = UsageDays /\ \A i \in DOMAIN usageDays : usageDate < usageDays[i].key
    BY <2>1 DEF UsageInv, DaysExact
  <2>3. 1 \in DOMAIN usageDays
    BY <1>1, <2>2, LenProperties DEF UsageInv, UsageTypeOK
  <2>4. usageDays[1].key \in 1..MaxUsageDate
    BY <1>2, <2>3 DEF UsageInv, DaysExact
  <2>5. QED BY <1>1, <1>3, <2>2, <2>3, <2>4
<1>5. QED BY <1>1, <1>3, <1>4 DEF Dates

(* The table of days before today is entered. *)
LEMMA DaysCount ==
  ASSUME UsageInv
  PROVE  /\ usageDays \in Slots(1..MaxUsageDate) /\ Agrees(usageDays, ledger, OfDate)
         /\ Rising(usageDays) /\ Distinct(usageDays)
         /\ Len(usageDays) \in Nat /\ Len(usageDays) <= UsageDays /\ DOMAIN usageDays = 1..Len(usageDays)
<1>1. /\ usageDays \in Slots(1..MaxUsageDate) /\ Rising(usageDays)
      /\ Len(usageDays) \in Nat /\ Len(usageDays) <= UsageDays /\ DOMAIN usageDays = 1..Len(usageDays)
  BY LenProperties DEF UsageInv, UsageTypeOK, TablesInv, Slots, Rising
<1>2. \A i \in DOMAIN usageDays : usageDays[i].key \in 1..MaxUsageDate
  <2>1. \A i \in DOMAIN usageDays : usageDays[i] \in [key : 1..MaxUsageDate, counter : Counter]
    BY <1>1, ElementOfSeq DEF Slots
  <2>2. QED BY <2>1
<1>3. Distinct(usageDays)
  <2>1. SUFFICES ASSUME NEW i \in DOMAIN usageDays, NEW k \in DOMAIN usageDays, i # k
                 PROVE  usageDays[i].key # usageDays[k].key
    BY DEF Distinct
  <2>2. i \in Nat /\ k \in Nat /\ usageDays[i].key \in Nat /\ usageDays[k].key \in Nat
    BY <1>1, <1>2
  <2>3. CASE i < k
    BY <1>1, <2>2, <2>3 DEF Rising
  <2>4. CASE k < i
    BY <1>1, <2>2, <2>4 DEF Rising
  <2>5. QED BY <2>1, <2>2, <2>3, <2>4
<1>4. Agrees(usageDays, ledger, OfDate)
  <2>1. \A i \in DOMAIN usageDays : OfDate[usageDays[i].key] = {k \in OfLife : ledger[k].date = usageDays[i].key}
    BY <1>2, OfLifeTypes DEF UsageInv
  <2>2. \A i \in DOMAIN usageDays :
          usageDays[i].counter = CountIn(ledger, {k \in OfLife : ledger[k].date = usageDays[i].key})
    BY OfLifeTypes DEF UsageInv, DaysExact
  <2>3. QED BY <2>1, <2>2 DEF Agrees
<1>5. QED BY <1>1, <1>3, <1>4

(* The slot of today, the oldest day making room if need be. *)
LEMMA TodaySlot ==
  ASSUME UsageInv
  PROVE  LET t == WithToday IN
         /\ t \in Slots(1..MaxUsageDate) /\ Distinct(t) /\ Rising(t) /\ Agrees(t, ledger, OfDate)
         /\ Len(t) <= UsageDays /\ Has(t, usageDate)
         /\ \A i \in DOMAIN t : t[i].key \in Dates \union {usageDate}
         /\ \A d \in Dates \union {usageDate} :
              Has(t, d) \/ (Len(t) = UsageDays /\ \A i \in DOMAIN t : d < t[i].key)
<1>1. /\ usageDays \in Slots(1..MaxUsageDate) /\ Agrees(usageDays, ledger, OfDate)
      /\ Rising(usageDays) /\ Distinct(usageDays) /\ DOMAIN usageDays = 1..Len(usageDays)
  BY DaysCount
<1>2. /\ Len(usageDays) \in Nat /\ Len(usageDays) <= UsageDays /\ UsageDays \in Nat \ {0}
      /\ usageDate \in 1..MaxUsageDate /\ MaxUsageDate \in Nat
  BY DaysCount, UsageAssumption DEF UsageInv, UsageTypeOK
<1>3. \A d \in Dates : d \in 1..MaxUsageDate /\ d <= usageDate
  BY OfLifeTypes DEF UsageInv, NothingAhead, Dates
<1>4. /\ \A i \in DOMAIN usageDays : usageDays[i].key \in Dates
      /\ \A d \in Dates : Has(usageDays, d) \/ (Len(usageDays) = UsageDays
                                                /\ \A i \in DOMAIN usageDays : d < usageDays[i].key)
  BY DEF UsageInv, DaysExact
<1>5. CASE Has(usageDays, usageDate)
  <2>1. WithToday = usageDays
    BY <1>5 DEF WithToday
  <2>2. QED BY <1>1, <1>2, <1>4, <1>5, <2>1
<1>6. CASE ~Has(usageDays, usageDate)
  <2> DEFINE u == IF Len(usageDays) >= UsageDays THEN Tail(usageDays) ELSE usageDays
             t == Append(u, Entry(usageDate))
             c == IF Len(usageDays) >= UsageDays THEN 1 ELSE 0
  <2>1. WithToday = t
    BY <1>6 DEF WithToday
  <2>2. /\ u \in Slots(1..MaxUsageDate) /\ Len(u) = Len(usageDays) - c /\ DOMAIN u = 1..Len(u)
        /\ \A i \in DOMAIN u : i + c \in DOMAIN usageDays /\ u[i] = usageDays[i + c]
    <3>1. CASE Len(usageDays) >= UsageDays
      <4>1. usageDays # <<>>
        BY <1>2, <3>1
      <4>2. /\ Tail(usageDays) \in Slots(1..MaxUsageDate) /\ Len(Tail(usageDays)) = Len(usageDays) - 1
            /\ \A i \in 1..Len(Tail(usageDays)) : Tail(usageDays)[i] = usageDays[i + 1]
        BY <1>1, <4>1, HeadTailProperties DEF Slots
      <4>3. DOMAIN Tail(usageDays) = 1..Len(Tail(usageDays))
        BY <4>2, LenProperties DEF Slots
      <4>4. u = Tail(usageDays) /\ c = 1
        BY <3>1
      <4> HIDE DEF u, c
      <4>5. \A i \in 1..Len(usageDays) - 1 : i + 1 \in 1..Len(usageDays)
        BY <1>2
      <4>6. QED BY <1>1, <4>2, <4>3, <4>4, <4>5
    <3>2. CASE ~(Len(usageDays) >= UsageDays)
      <4>1. u = usageDays /\ c = 0
        BY <3>2
      <4> HIDE DEF u, c
      <4>2. \A i \in 1..Len(usageDays) : i + 0 = i
        OBVIOUS
      <4>3. QED BY <1>1, <1>2, <4>1, <4>2
    <3>3. QED BY <3>1, <3>2
  <2>3. /\ Len(u) \in Nat /\ Len(u) < UsageDays /\ c \in {0, 1}
        /\ c = 1 => Len(usageDays) = UsageDays /\ Len(u) + 1 = UsageDays /\ 1 \in DOMAIN usageDays
    <3>1. Len(u) = Len(usageDays) - c
      BY <2>2
    <3> HIDE DEF u
    <3>2. CASE Len(usageDays) >= UsageDays
      <4>1. c = 1 /\ Len(usageDays) = UsageDays
        BY <1>2, <3>2
      <4>2. Len(u) = UsageDays - 1
        BY <3>1, <4>1
      <4>3. 1 \in 1..Len(usageDays)
        BY <1>2, <4>1
      <4>4. QED BY <1>1, <1>2, <4>1, <4>2, <4>3
    <3>3. CASE ~(Len(usageDays) >= UsageDays)
      <4>1. c = 0 /\ Len(usageDays) < UsageDays
        BY <1>2, <3>3
      <4>2. Len(u) = Len(usageDays)
        BY <1>2, <3>1, <4>1
      <4>3. QED BY <1>2, <4>1, <4>2
    <3>4. QED BY <3>2, <3>3
  <2>4. c = 0 => u = usageDays
    OBVIOUS
  <2>5. OfDate[usageDate] = {} /\ \A i \in DOMAIN usageDays : usageDays[i].key < usageDate
    BY <1>6, TodayIsNew
  <2> HIDE DEF u, c
  <2>6. \A i \in DOMAIN u : u[i].key \in Dates /\ u[i].key < usageDate /\ u[i].key \in Nat
    BY <1>3, <1>4, <2>2, <2>5
  <2>7. ~Has(u, usageDate)
    BY <1>2, <2>6 DEF Has
  <2>8. Rising(u)
    <3>1. SUFFICES ASSUME NEW i \in DOMAIN u, NEW k \in DOMAIN u, i < k PROVE u[i].key < u[k].key
      BY DEF Rising
    <3>2. i + c < k + c
      BY <2>2, <2>3, <3>1
    <3>3. QED BY <1>1, <2>2, <3>2 DEF Rising
  <2>9. Distinct(u)
    <3>1. SUFFICES ASSUME NEW i \in DOMAIN u, NEW k \in DOMAIN u, i # k PROVE u[i].key # u[k].key
      BY DEF Distinct
    <3>2. i + c # k + c
      BY <2>2, <2>3, <3>1
    <3>3. QED BY <1>1, <2>2, <3>2 DEF Distinct
  <2>10. Agrees(u, ledger, OfDate)
    BY <1>1, <2>2 DEF Agrees
  <2>11. ledger \in Seq(Request) /\ OfDate \in [1..MaxUsageDate -> SUBSET DOMAIN ledger]
    BY OfLifeTypes DEF UsageInv, UsageTypeOK
  <2>12. /\ t \in Slots(1..MaxUsageDate) /\ Len(t) = Len(u) + 1 /\ Distinct(t) /\ Agrees(t, ledger, OfDate)
         /\ DOMAIN t = 1..Len(u) + 1 /\ t[Len(u) + 1].key = usageDate
         /\ \A i \in DOMAIN u : t[i] = u[i]
    <3> DEFINE K == 1..MaxUsageDate
    <3>1. u \in Slots(K) /\ usageDate \in K /\ OfDate \in [K -> SUBSET DOMAIN ledger]
      BY <1>2, <2>2, <2>11
    <3> HIDE DEF K
    <3>2. Distinct(u) /\ Agrees(u, ledger, OfDate) /\ ~Has(u, usageDate)
          /\ ledger \in Seq(Request) /\ OfDate[usageDate] = {}
      BY <2>5, <2>7, <2>9, <2>10, <2>11
    <3>3. /\ t \in Slots(K) /\ Len(t) = Len(u) + 1 /\ Distinct(t) /\ Agrees(t, ledger, OfDate)
          /\ DOMAIN t = 1..Len(u) + 1 /\ t[Len(u) + 1].key = usageDate
          /\ \A i \in DOMAIN u : t[i] = u[i]
      BY <3>1, <3>2, AddedCounts
    <3>4. QED BY <3>3 DEF K
  <2> DEFINE z == Len(u) + 1
  <2>13. z \in DOMAIN t /\ \A i \in DOMAIN t : i = z \/ (i \in DOMAIN u /\ i < z)
    BY <2>2, <2>3, <2>12
  <2>14. t[z].key = usageDate
    BY <2>12
  <2>15. Len(t) = z /\ z <= UsageDays /\ (c = 1 => z = UsageDays)
    BY <1>2, <2>3, <2>12
  <2>16. \A i \in DOMAIN u : t[i] = u[i]
    BY <2>12
  <2>17. DOMAIN u \subseteq DOMAIN t /\ DOMAIN t \subseteq Nat /\ z \in Nat
    BY <2>2, <2>3, <2>12
  <2> HIDE DEF t, z
  <2>18. Rising(t)
    <3>1. SUFFICES ASSUME NEW i \in DOMAIN t, NEW k \in DOMAIN t, i < k PROVE t[i].key < t[k].key
      BY DEF Rising
    <3>2. i \in DOMAIN u
      BY <2>13, <2>17, <3>1
    <3>3. CASE k = z
      BY <2>6, <2>14, <2>16, <3>2, <3>3
    <3>4. CASE k \in DOMAIN u
      BY <2>8, <2>16, <3>1, <3>2, <3>4 DEF Rising
    <3>5. QED BY <2>13, <3>3, <3>4
  <2>19. Has(t, usageDate)
    BY <2>13, <2>14 DEF Has
  <2>20. \A i \in DOMAIN t : t[i].key \in Dates \union {usageDate}
    BY <2>6, <2>13, <2>14, <2>16
  <2>21. ASSUME NEW d \in Dates
         PROVE  Has(t, d) \/ (Len(t) = UsageDays /\ \A i \in DOMAIN t : d < t[i].key)
    <3>0. d \in Nat /\ d <= usageDate /\ usageDate \in Nat
      BY <1>2, <1>3
    <3>1. CASE c = 0
      <4>1. u = usageDays
        BY <2>4, <3>1
      <4>2. Has(u, d)
        <5>1. CASE Has(usageDays, d)
          BY <4>1, <5>1
        <5>2. CASE ~Has(usageDays, d)
          <6>1. Len(usageDays) = UsageDays
            BY <1>4, <5>2
          <6>2. Len(u) = UsageDays
            BY <4>1, <6>1
          <6>3. QED BY <1>2, <2>3, <6>2
        <5>3. QED BY <5>1, <5>2
      <4>3. QED BY <2>16, <2>17, <4>2 DEF Has
    <3>2. CASE c = 1 /\ Has(usageDays, d)
      <4>1. PICK k \in DOMAIN usageDays : usageDays[k].key = d
        BY <3>2 DEF Has
      <4>2. CASE k = 1
        <5>1. \A i \in DOMAIN u : d < u[i].key
          <6>1. TAKE i \in DOMAIN u
          <6>2. i + 1 \in DOMAIN usageDays /\ u[i] = usageDays[i + 1] /\ i \in Nat /\ 1 < i + 1
            BY <2>2, <3>2
          <6>3. QED BY <1>1, <4>1, <4>2, <6>2 DEF Rising
        <5>2. d < usageDate
          BY <2>5, <4>1
        <5>3. QED BY <2>13, <2>14, <2>15, <2>16, <3>2, <5>1, <5>2
      <4>3. CASE k # 1
        <5>1. k - 1 \in DOMAIN u /\ u[k - 1] = usageDays[k]
          <6>1. k \in 1..Len(usageDays) /\ k - 1 \in 1..Len(usageDays) - 1 /\ k - 1 + 1 = k
            BY <1>1, <1>2, <4>1, <4>3
          <6>2. DOMAIN u = 1..Len(usageDays) - 1
            BY <2>2, <3>2
          <6>3. k - 1 \in DOMAIN u
            BY <6>1, <6>2
          <6>4. u[k - 1] = usageDays[k - 1 + 1]
            BY <2>2, <3>2, <6>3
          <6>5. QED BY <6>1, <6>3, <6>4
        <5>2. QED BY <2>16, <2>17, <4>1, <5>1 DEF Has
      <4>4. QED BY <4>2, <4>3
    <3>3. CASE c = 1 /\ ~Has(usageDays, d)
      <4>1. \A i \in DOMAIN usageDays : d < usageDays[i].key
        BY <1>4, <3>3
      <4>2. d < usageDate
        <5>1. usageDays[1].key \in Nat /\ d < usageDays[1].key /\ usageDays[1].key < usageDate
          BY <1>3, <1>4, <2>3, <2>5, <3>3, <4>1
        <5>2. QED BY <3>0, <5>1
      <4>3. \A i \in DOMAIN u : d < u[i].key
        BY <2>2, <4>1
      <4>4. QED BY <2>13, <2>14, <2>15, <2>16, <3>3, <4>2, <4>3
    <3>4. QED BY <2>3, <3>1, <3>2, <3>3
  <2>22. QED BY <2>1, <2>12, <2>15, <2>18, <2>19, <2>20, <2>21 DEF t
<1>7. QED BY <1>5, <1>6

LEMMA RecordKeeps ==
  ASSUME UsageInv, NEW p \in Payees, NEW error \in BOOLEAN, Record(p, error)
  PROVE  UsageInv'
<1> DEFINE request == [payee |-> p, date |-> usageDate, error |-> error, life |-> life]
           n == Len(ledger) + 1
<1>1. /\ payees' = IF Has(WithPayee(p), p) THEN Entered(WithPayee(p), p, error) ELSE payees
      /\ usageDays' = Entered(WithToday, usageDate, error)
      /\ totals' = Plus(totals, error)
      /\ ledger' = Append(ledger, request)
      /\ usageDate' = usageDate /\ rows' = rows /\ life' = life
  BY DEF Record
<1>2. /\ ledger \in Seq(Request) /\ request \in Request /\ request.error = error
      /\ usageDate \in 1..MaxUsageDate /\ life \in Nat /\ totals \in Counter
  BY DEF UsageInv, UsageTypeOK, Request
<1>3. /\ ledger' \in Seq(Request) /\ DOMAIN ledger = 1..Len(ledger) /\ DOMAIN ledger' = DOMAIN ledger \union {n}
      /\ n \notin DOMAIN ledger /\ ledger'[n] = request
      /\ \A i \in DOMAIN ledger : ledger'[i] = ledger[i]
  <2>1. /\ ledger' \in Seq(Request) /\ Len(ledger') = Len(ledger) + 1 /\ Len(ledger) \in Nat
        /\ ledger'[n] = request /\ \A i \in 1..Len(ledger) : ledger'[i] = ledger[i]
    <3> HIDE DEF request
    <3>1. QED BY <1>1, <1>2, AppendProperties, LenProperties
  <2>2. DOMAIN ledger = 1..Len(ledger) /\ DOMAIN ledger' = 1..Len(ledger')
    BY <1>2, <2>1, LenProperties
  <2> HIDE DEF request
  <2>3. QED BY <2>1, <2>2
<1>4. /\ OfLife \subseteq DOMAIN ledger /\ n \notin OfLife /\ OfLife' = OfLife \union {n}
  BY <1>1, <1>3 DEF OfLife
<1>5. /\ OfPayee \in [Payees -> SUBSET DOMAIN ledger] /\ OfDate \in [1..MaxUsageDate -> SUBSET DOMAIN ledger]
      /\ \A E : CountOf(E) = CountIn(ledger, E)
      /\ \A q \in Payees : OfPayee[q] = {k \in OfLife : ledger[k].payee = q}
      /\ \A d \in 1..MaxUsageDate : OfDate[d] = {k \in OfLife : ledger[k].date = d}
  BY OfLifeTypes DEF UsageInv
<1>6. \A E : CountOf(E)' = CountIn(ledger', E)
  BY DEF CountOf, CountIn
<1> DEFINE P == [OfPayee EXCEPT ![p] = OfPayee[p] \union {n}]
           D == [OfDate EXCEPT ![usageDate] = OfDate[usageDate] \union {n}]
<1>7. /\ \A q \in Payees : P[q] = {k \in OfLife' : ledger'[k].payee = q}
      /\ \A d \in 1..MaxUsageDate : D[d] = {k \in OfLife' : ledger'[k].date = d}
  <2>1. \A q \in Payees : P[q] = IF q = p THEN OfPayee[q] \union {n} ELSE OfPayee[q]
    BY <1>5
  <2>2. \A d \in 1..MaxUsageDate : D[d] = IF d = usageDate THEN OfDate[d] \union {n} ELSE OfDate[d]
    BY <1>5
  <2>3. ledger'[n].payee = p /\ ledger'[n].date = usageDate
    BY <1>3
  <2> HIDE DEF P, D, request
  <2>4. ASSUME NEW q \in Payees PROVE P[q] = {k \in OfLife' : ledger'[k].payee = q}
    <3>1. {k \in OfLife' : ledger'[k].payee = q} =
            IF q = p THEN {k \in OfLife : ledger[k].payee = q} \union {n} ELSE {k \in OfLife : ledger[k].payee = q}
      BY <1>3, <1>4, <2>3
    <3>2. QED BY <1>5, <2>1, <3>1
  <2>5. ASSUME NEW d \in 1..MaxUsageDate PROVE D[d] = {k \in OfLife' : ledger'[k].date = d}
    <3>1. {k \in OfLife' : ledger'[k].date = d} =
            IF d = usageDate THEN {k \in OfLife : ledger[k].date = d} \union {n} ELSE {k \in OfLife : ledger[k].date = d}
      BY <1>3, <1>4, <2>3
    <3>2. QED BY <1>5, <2>2, <3>1
  <2>6. QED BY <2>4, <2>5
<1> HIDE DEF P, D
<1>8. totals' \in Counter /\ (totals = CountOf(OfLife))'
  <2>1. CountIn(ledger', OfLife \union {n}) = Plus(CountIn(ledger, OfLife), error)
    <3> HIDE DEF request
    <3>1. QED BY <1>1, <1>2, <1>4, CountedOne
  <2>2. totals = CountIn(ledger, OfLife)
    BY <1>5 DEF UsageInv
  <2>3. totals' = CountIn(ledger', OfLife')
    BY <1>1, <1>4, <2>1, <2>2
  <2>4. QED BY <1>1, <1>2, <2>3, PlusOne DEF CountOf, CountIn
<1>9. /\ payees' \in Slots(Payees) /\ Distinct(payees') /\ Len(payees') <= MaxPayees
      /\ \A i \in DOMAIN payees' : payees'[i].counter = CountIn(ledger', P[payees'[i].key])
      /\ \A q : Has(payees, q) => Has(payees', q)
      /\ Len(payees) = MaxPayees => Len(payees') = MaxPayees
      /\ Has(payees', p) \/ Len(payees') = MaxPayees
  <2> DEFINE t == WithPayee(p)
  <2>1. /\ t \in Slots(Payees) /\ Distinct(t) /\ Agrees(t, ledger, OfPayee) /\ Len(t) <= MaxPayees
        /\ Len(payees) = MaxPayees => Len(t) = MaxPayees
        /\ \A q : Has(payees, q) => Has(t, q)
        /\ Has(t, p) \/ (Len(t) = MaxPayees /\ t = payees)
    BY PayeeSlot
  <2>2. payees' = IF Has(t, p) THEN Entered(t, p, error) ELSE payees
    BY <1>1
  <2> HIDE DEF t
  <2>3. CASE Has(t, p)
    <3>2. payees' = Entered(t, p, error)
      BY <2>2, <2>3
    <3>3. /\ payees' \in Slots(Payees) /\ Len(payees') = Len(t) /\ DOMAIN payees' = DOMAIN t
          /\ \A i \in DOMAIN t : payees'[i].key = t[i].key
          /\ Agrees(payees', ledger', P)
      <4>1. /\ Entered(t, p, request.error) \in Slots(Payees) /\ Len(Entered(t, p, request.error)) = Len(t)
            /\ DOMAIN Entered(t, p, request.error) = DOMAIN t
            /\ \A i \in DOMAIN t : Entered(t, p, request.error)[i].key = t[i].key
            /\ Agrees(Entered(t, p, request.error), ledger', P)
        <5> DEFINE e == Entered(t, p, request.error)
        <5>1. t \in Slots(Payees) /\ Distinct(t) /\ Agrees(t, ledger, OfPayee)
          BY <2>1
        <5> HIDE DEF request
        <5>2. /\ e \in Slots(Payees) /\ Len(e) = Len(t) /\ DOMAIN e = DOMAIN t
              /\ \A i \in DOMAIN t : e[i].key = t[i].key
              /\ Agrees(e, Append(ledger, request), [OfPayee EXCEPT ![p] = OfPayee[p] \union {Len(ledger) + 1}])
          BY <1>2, <1>5, <2>3, <5>1, EnteredCounts
        <5>3. QED BY <1>1, <5>2 DEF P
      <4>2. QED BY <1>2, <3>2, <4>1
    <3>4. Distinct(payees') /\ \A q : Has(t, q) => Has(payees', q)
      BY <2>1, <3>3 DEF Distinct, Has
    <3>5. \A i \in DOMAIN payees' : payees'[i].counter = CountIn(ledger', P[payees'[i].key])
      BY <3>3 DEF Agrees
    <3>6. QED BY <2>1, <2>3, <3>3, <3>4, <3>5
  <2>4. CASE ~Has(t, p)
    <3>1. payees' = payees /\ t = payees /\ Len(t) = MaxPayees
      BY <2>1, <2>2, <2>4
    <3>2. ASSUME NEW i \in DOMAIN t PROVE t[i].counter = CountIn(ledger', P[t[i].key])
      <4>1. t[i] \in [key : Payees, counter : Counter]
        BY <2>1, ElementOfSeq, LenProperties DEF Slots
      <4>2. t[i].key \in Payees /\ t[i].key # p
        BY <2>4, <4>1 DEF Has
      <4>3. P[t[i].key] = OfPayee[t[i].key] /\ OfPayee[t[i].key] \in SUBSET DOMAIN ledger
        BY <1>5, <4>2 DEF P
      <4>4. t[i].counter = CountIn(ledger, OfPayee[t[i].key])
        BY <2>1 DEF Agrees
      <4>5. CountIn(ledger', OfPayee[t[i].key]) = CountIn(ledger, OfPayee[t[i].key])
        <5> HIDE DEF request
        <5>1. QED BY <1>1, <1>2, <4>3, CountedOne
      <4>6. QED BY <4>3, <4>4, <4>5
    <3>3. Len(payees') = MaxPayees
      BY <3>1
    <3>4. QED BY <2>1, <3>1, <3>2, <3>3
  <2>5. QED BY <2>3, <2>4
<1>10. /\ usageDays' \in Slots(1..MaxUsageDate) /\ Rising(usageDays') /\ Len(usageDays') <= UsageDays
       /\ \A i \in DOMAIN usageDays' : /\ usageDays'[i].counter = CountIn(ledger', D[usageDays'[i].key])
                                        /\ usageDays'[i].key \in Dates \union {usageDate}
       /\ \A d \in Dates \union {usageDate} :
            Has(usageDays', d) \/ (Len(usageDays') = UsageDays /\ \A i \in DOMAIN usageDays' : d < usageDays'[i].key)
  <2> DEFINE t == WithToday
  <2>1. /\ t \in Slots(1..MaxUsageDate) /\ Distinct(t) /\ Rising(t) /\ Agrees(t, ledger, OfDate)
        /\ Len(t) <= UsageDays /\ Has(t, usageDate)
        /\ \A i \in DOMAIN t : t[i].key \in Dates \union {usageDate}
        /\ \A d \in Dates \union {usageDate} :
              Has(t, d) \/ (Len(t) = UsageDays /\ \A i \in DOMAIN t : d < t[i].key)
    BY TodaySlot
  <2>2. usageDays' = Entered(t, usageDate, error)
    BY <1>1
  <2> HIDE DEF t
  <2>4. /\ usageDays' \in Slots(1..MaxUsageDate) /\ Len(usageDays') = Len(t) /\ DOMAIN usageDays' = DOMAIN t
        /\ \A i \in DOMAIN t : usageDays'[i].key = t[i].key
        /\ Agrees(usageDays', ledger', D)
    <3> DEFINE e == Entered(t, usageDate, request.error)
               K == 1..MaxUsageDate
    <3>1. e \in Slots(K) /\ Len(e) = Len(t) /\ DOMAIN e = DOMAIN t
          /\ (\A i \in DOMAIN t : e[i].key = t[i].key) /\ Agrees(e, ledger', D)
      <4>2. t \in Slots(K) /\ usageDate \in K /\ OfDate \in [K -> SUBSET DOMAIN ledger]
        BY <1>2, <1>5, <2>1
      <4>3. Distinct(t) /\ Agrees(t, ledger, OfDate) /\ Has(t, usageDate)
        BY <2>1
      <4> HIDE DEF request, K
      <4>4. /\ e \in Slots(K) /\ Len(e) = Len(t) /\ DOMAIN e = DOMAIN t
            /\ \A i \in DOMAIN t : e[i].key = t[i].key
            /\ Agrees(e, Append(ledger, request),
                      [OfDate EXCEPT ![usageDate] = OfDate[usageDate] \union {Len(ledger) + 1}])
        BY <1>2, <4>2, <4>3, EnteredCounts
      <4>5. QED BY <1>1, <4>4 DEF D
    <3>2. QED BY <1>2, <2>2, <3>1
  <2>5. Rising(usageDays')
    BY <2>1, <2>4 DEF Rising
  <2>6. \A d : Has(t, d) => Has(usageDays', d)
    BY <2>4 DEF Has
  <2>7. \A i \in DOMAIN usageDays' : usageDays'[i].counter = CountIn(ledger', D[usageDays'[i].key])
    BY <2>4 DEF Agrees
  <2>8. \A i \in DOMAIN usageDays' : usageDays'[i].key \in Dates \union {usageDate}
    BY <2>1, <2>4
  <2>9. \A d \in Dates \union {usageDate} :
          Has(usageDays', d) \/ (Len(usageDays') = UsageDays /\ \A i \in DOMAIN usageDays' : d < usageDays'[i].key)
    BY <2>1, <2>4, <2>6
  <2>10. Len(usageDays') <= UsageDays
    BY <2>1, <2>4
  <2>11. QED BY <2>4, <2>5, <2>7, <2>8, <2>9, <2>10
<1>11. UsageTypeOK'
  BY <1>1, <1>2, <1>3, <1>8, <1>9, <1>10 DEF UsageTypeOK, Slots, UsageInv
<1>12. NothingAhead'
  <2>1. usageDate <= usageDate /\ life <= life
    BY <1>2
  <2>2. \A i \in DOMAIN ledger' : ledger'[i].date <= usageDate /\ ledger'[i].life <= life
    BY <1>3, <2>1 DEF UsageInv, NothingAhead
  <2>3. QED BY <1>1, <2>2 DEF UsageInv, NothingAhead
<1>13. TablesInv'
  BY <1>9, <1>10 DEF TablesInv, Distinct, Rising
<1>14. PayeesExact'
  <2>1. \A i \in DOMAIN payees' : payees'[i].key \in Payees
    <3>1. \A i \in DOMAIN payees' : payees'[i] \in [key : Payees, counter : Counter]
      BY <1>9, ElementOfSeq, LenProperties DEF Slots
    <3>2. QED BY <3>1
  <2>2. \A i \in DOMAIN payees' :
          payees'[i].counter = CountIn(ledger', {k \in OfLife' : ledger'[k].payee = payees'[i].key})
    BY <1>7, <1>9, <2>1
  <2>3. \A k \in OfLife' : Has(payees', ledger'[k].payee) \/ Len(payees') = MaxPayees
    <3>1. \A k \in OfLife : Has(payees, ledger[k].payee) \/ Len(payees) = MaxPayees
      BY DEF UsageInv, PayeesExact
    <3>2. ledger'[n].payee = p
      BY <1>3
    <3> HIDE DEF request
    <3>3. QED BY <1>3, <1>4, <1>9, <3>1, <3>2
  <2>4. QED BY <2>2, <2>3 DEF PayeesExact, CountOf, CountIn, Has
<1>15. DaysExact'
  <2>1. \A i \in DOMAIN usageDays' : usageDays'[i].key \in 1..MaxUsageDate
    <3>1. \A i \in DOMAIN usageDays' : usageDays'[i] \in [key : 1..MaxUsageDate, counter : Counter]
      BY <1>10, ElementOfSeq, LenProperties DEF Slots
    <3>2. QED BY <3>1
  <2>2. \A i \in DOMAIN usageDays' :
          usageDays'[i].counter = CountIn(ledger', {k \in OfLife' : ledger'[k].date = usageDays'[i].key})
    BY <1>7, <1>10, <2>1
  <2>3. Dates' = Dates \union {usageDate}
    <3>1. ledger'[n].date = usageDate
      BY <1>3
    <3> HIDE DEF request
    <3>2. QED BY <1>3, <1>4, <3>1 DEF Dates
  <2>4. QED BY <1>10, <2>2, <2>3 DEF DaysExact, CountOf, CountIn, Has
<1>16. RowsInv'
  <2>1. \A q, d : Earlier(q, d)' = Earlier(q, d)
    <3>1. ledger'[n].life = life
      BY <1>3
    <3> HIDE DEF request
    <3>2. QED BY <1>1, <1>2, <1>3, <3>1 DEF Earlier
  <2>2. \A q : SavedUntil(rows', q) = SavedUntil(rows, q)
    BY <1>1
  <2>3. QED BY <1>1, <2>1, <2>2 DEF RowsInv, UsageInv
<1>17. QED BY <1>8, <1>11, <1>12, <1>13, <1>14, <1>15, <1>16 DEF UsageInv

-----------------------------------------------------------------------------
(* The other steps.                                                        *)

(* What a new life begins with. *)
LEMMA AnewBegins ==
  ASSUME UsageInv, BeginsAnew, rows' \subseteq UsageRow, \A r \in rows' : r.date <= usageDate
  PROVE  /\ UsageTypeOK' /\ NothingAhead' /\ TablesInv'
         /\ (totals = CountOf(OfLife))' /\ PayeesExact' /\ DaysExact'
         /\ \A q, d : /\ Earlier(q, d) \subseteq DOMAIN ledger
                      /\ Earlier(q, d)' = Earlier(q, d) \union {k \in OfLife : ledger[k].payee = q /\ ledger[k].date <= d}
                      /\ Earlier(q, d) \intersect OfLife = {}
<1>1. /\ life' = life + 1 /\ payees' = <<>> /\ usageDays' = <<>> /\ totals' = Nothing
      /\ usageDate' = usageDate /\ ledger' = ledger
  BY DEF BeginsAnew
<1>2. life \in Nat /\ \A k \in DOMAIN ledger : ledger[k].life \in Nat /\ ledger[k].life <= life
  BY OfLifeTypes DEF UsageInv, UsageTypeOK, NothingAhead, Request
<1>3. OfLife' = {}
  BY <1>1, <1>2 DEF OfLife
<1>4. UsageTypeOK'
  BY <1>1 DEF UsageInv, UsageTypeOK, Nothing, Counter
<1>5. NothingAhead'
  BY <1>1, <1>2 DEF UsageInv, NothingAhead
<1>6. TablesInv'
  <2>1. DOMAIN payees' = {} /\ DOMAIN usageDays' = {} /\ Len(payees') = 0 /\ Len(usageDays') = 0
    BY <1>1
  <2>2. MaxPayees \in Nat /\ UsageDays \in Nat
    BY UsageAssumption
  <2>3. QED BY <2>1, <2>2 DEF TablesInv
<1>7. (totals = CountOf(OfLife))'
  <2>1. {i \in {} : ledger'[i].error} = {}
    OBVIOUS
  <2>2. CountIn(ledger', {}) = Nothing
    BY <2>1, FS_EmptySet DEF CountIn, Nothing
  <2>3. QED BY <1>1, <1>3, <2>2 DEF CountOf, CountIn
<1>8. PayeesExact'
  <2>1. DOMAIN payees' = {}
    BY <1>1
  <2>2. QED BY <1>3, <2>1 DEF PayeesExact
<1>9. DaysExact'
  <2>1. DOMAIN usageDays' = {} /\ Dates' = {}
    BY <1>1, <1>3 DEF Dates
  <2>2. QED BY <2>1 DEF DaysExact
<1>10. ASSUME NEW q, NEW d
       PROVE  /\ Earlier(q, d) \subseteq DOMAIN ledger
              /\ Earlier(q, d)' = Earlier(q, d) \union {k \in OfLife : ledger[k].payee = q /\ ledger[k].date <= d}
              /\ Earlier(q, d) \intersect OfLife = {}
  <2>1. \A k \in DOMAIN ledger : ledger[k].life < life + 1 /\ (ledger[k].life < life \/ ledger[k].life = life)
    BY <1>2
  <2>2. \A k \in DOMAIN ledger : ledger[k].life < life => ledger[k].life # life
    BY <1>2
  <2>3. QED BY <1>1, <2>1, <2>2 DEF Earlier, OfLife
<1>11. QED BY <1>4, <1>5, <1>6, <1>7, <1>8, <1>9, <1>10

(* What the earlier lives were asked only grows. *)
LEMMA EarlierCounted ==
  ASSUME UsageInv, BeginsAnew, rows' \subseteq UsageRow, \A r \in rows' : r.date <= usageDate, NEW q, NEW d
  PROVE  /\ Cardinality(Earlier(q, d)) \in Nat /\ Cardinality(Earlier(q, d)') \in Nat
         /\ Cardinality(Earlier(q, d)) <= Cardinality(Earlier(q, d)')
<1>1. /\ Earlier(q, d) \subseteq DOMAIN ledger /\ Earlier(q, d)' \subseteq DOMAIN ledger
      /\ Earlier(q, d) \subseteq Earlier(q, d)'
  BY AnewBegins DEF OfLife
<1>2. ledger \in Seq(Request)
  BY DEF UsageInv, UsageTypeOK
<1>3. IsFiniteSet(Earlier(q, d)')
  BY <1>1, <1>2, CountedType
<1>4. QED BY <1>1, <1>3, FS_Subset, FS_CardinalityType

LEMMA LostKeeps ==
  ASSUME UsageInv, UsageLost
  PROVE  UsageInv'
<1>1. BeginsAnew /\ rows' = rows
  BY DEF UsageLost
<1>2. rows' \subseteq UsageRow /\ \A r \in rows' : r.date <= usageDate
  BY <1>1 DEF UsageInv, UsageTypeOK, NothingAhead
<1>3. RowsInv'
  <2>1. ASSUME NEW q \in Payees, NEW d \in 0..MaxUsageDate
        PROVE  SavedUntil(rows', q)[d] <= Cardinality(Earlier(q, d)')
    <3>1. SavedUntil(rows, q)[d] <= Cardinality(Earlier(q, d))
      BY DEF UsageInv, RowsInv
    <3>2. SavedUntil(rows, q)[d] \in Nat
      <4>1. AddsUp(SavedUntil(rows, q), SavedTable(rows, q), MaxUsageDate)
        BY SavedAddsUp DEF UsageInv, UsageTypeOK
      <4>2. QED BY <4>1 DEF AddsUp
    <3>3. /\ Cardinality(Earlier(q, d)) \in Nat /\ Cardinality(Earlier(q, d)') \in Nat
          /\ Cardinality(Earlier(q, d)) <= Cardinality(Earlier(q, d)')
      BY <1>1, <1>2, EarlierCounted
    <3>4. SavedUntil(rows', q)[d] = SavedUntil(rows, q)[d]
      BY <1>1
    <3>5. QED BY <3>1, <3>2, <3>3, <3>4
  <2>2. \A r, s \in rows' : r.payee = s.payee /\ r.date = s.date => r = s
    BY <1>1 DEF UsageInv, RowsInv
  <2>3. QED BY <2>1, <2>2 DEF RowsInv
<1>4. QED BY <1>1, <1>2, <1>3, AnewBegins DEF UsageInv

LEMMA MidnightKeeps ==
  ASSUME UsageInv, Midnight
  PROVE  UsageInv'
<1>1. /\ usageDate' = usageDate + 1 /\ usageDate < MaxUsageDate
      /\ UNCHANGED <<payees, usageDays, totals, rows, ledger, life>>
  BY DEF Midnight, trackerVars
<1>2. usageDate \in 1..MaxUsageDate /\ MaxUsageDate \in Nat
  BY UsageAssumption DEF UsageInv, UsageTypeOK
<1>3. usageDate' \in 1..MaxUsageDate /\ \A m \in Nat : m <= usageDate => m <= usageDate'
  BY <1>1, <1>2
<1>4. UsageTypeOK'
  BY <1>1, <1>3 DEF UsageInv, UsageTypeOK
<1>5. NothingAhead'
  <2>1. \A i \in DOMAIN ledger : ledger[i].date \in Nat
    BY OfLifeTypes, <1>2 DEF UsageInv, Request
  <2>2. \A r \in rows : r.date \in Nat
    BY <1>2 DEF UsageInv, UsageTypeOK, UsageRow
  <2>3. QED BY <1>1, <1>3, <2>1, <2>2 DEF UsageInv, NothingAhead
<1>6. TablesInv' /\ (totals = CountOf(OfLife))'
  BY <1>1 DEF UsageInv, TablesInv, CountOf, OfLife
<1>7. PayeesExact'
  BY <1>1 DEF UsageInv, PayeesExact, CountOf, OfLife, Has
<1>8. DaysExact'
  BY <1>1 DEF UsageInv, DaysExact, CountOf, OfLife, Has, Dates
<1>9. RowsInv'
  <2>1. \A q, d : Earlier(q, d)' = Earlier(q, d)
    BY <1>1 DEF Earlier
  <2>2. QED BY <1>1, <2>1 DEF UsageInv, RowsInv
<1>10. QED BY <1>4, <1>5, <1>6, <1>7, <1>8, <1>9 DEF UsageInv

(* The table after a saving of some of the payees' counters: the rows that *)
(* were not replaced, and one of today for each of the payees.             *)
LEMMA SavedRows ==
  ASSUME UsageInv, NEW written \in SUBSET Range(payees)
  PROVE  LET R == Saved(written) IN
         /\ R \in SUBSET UsageRow /\ \A r \in R : r.date <= usageDate
         /\ \A r, s \in R : r.payee = s.payee /\ r.date = s.date => r = s
         /\ \A q, d : d # usageDate => SavedOn(R, q, d) = SavedOn(rows, q, d)
         /\ \A q : \/ SavedOn(R, q, usageDate) = SavedOn(rows, q, usageDate)
                  \/ SavedOn(R, q, usageDate) = Cardinality({k \in OfLife : ledger[k].payee = q})
<1> DEFINE R == Saved(written)
           row(e) == [payee |-> e.key, date |-> usageDate,
                      requests |-> e.counter.requests, errors |-> e.counter.errors]
           old == {r \in rows : \A e \in written : r.payee # e.key \/ r.date # usageDate}
           new == {row(e) : e \in written}
<1>1. R = old \union new
  BY DEF Saved
<1>2. /\ usageDate \in 1..MaxUsageDate /\ MaxUsageDate \in Nat /\ rows \subseteq UsageRow
      /\ \A r \in rows : r.date <= usageDate
      /\ \A r, s \in rows : r.payee = s.payee /\ r.date = s.date => r = s
  BY UsageAssumption DEF UsageInv, UsageTypeOK, NothingAhead, RowsInv
<1>3. ASSUME NEW e \in written
      PROVE  /\ e.key \in Payees /\ e.counter \in Counter
             /\ e.counter.requests = Cardinality({k \in OfLife : ledger[k].payee = e.key})
             /\ \A f \in written : f.key = e.key => f = e
  <2>1. \A f \in written : \E i \in DOMAIN payees : f = payees[i]
    BY DEF Range
  <2>2. PICK i \in DOMAIN payees : e = payees[i]
    BY <2>1
  <2>3. payees[i] \in [key : Payees, counter : Counter]
    BY ElementOfSeq, LenProperties DEF UsageInv, UsageTypeOK
  <2>4. payees[i].counter = CountOf({k \in OfLife : ledger[k].payee = payees[i].key})
    BY DEF UsageInv, PayeesExact
  <2>5. \A f \in written : f.key = e.key => f = e
    BY <2>1, <2>2 DEF UsageInv, TablesInv
  <2>6. QED BY <2>2, <2>3, <2>4, <2>5 DEF CountOf
<1>4. \A e \in written : /\ row(e).payee = e.key /\ row(e).date = usageDate
                          /\ row(e).requests = e.counter.requests /\ row(e) \in UsageRow
  <2>1. TAKE e \in written
  <2>2. e.key \in Payees /\ e.counter.requests \in Nat /\ e.counter.errors \in Nat
    BY <1>3 DEF Counter
  <2>3. QED BY <1>2, <2>2 DEF UsageRow
<1> HIDE DEF row
<1>5. R \in SUBSET UsageRow /\ \A r \in R : r.date <= usageDate
  <2>1. usageDate <= usageDate
    BY <1>2
  <2>2. QED BY <1>1, <1>2, <1>4, <2>1
<1>6. ASSUME NEW r \in R, NEW s \in R, r.payee = s.payee, r.date = s.date PROVE r = s
  <2>1. CASE r \in old /\ s \in old
    BY <1>2, <1>6, <2>1
  <2>2. CASE r \in old /\ s \in new
    BY <1>4, <1>6, <2>2
  <2>3. CASE r \in new /\ s \in old
    BY <1>4, <1>6, <2>3
  <2>4. CASE r \in new /\ s \in new
    <3>1. PICK e \in written, f \in written : r = row(e) /\ s = row(f)
      BY <2>4
    <3>2. e.key = f.key
      BY <1>4, <1>6, <3>1
    <3>3. QED BY <1>3, <3>1, <3>2
  <2>5. QED BY <1>1, <2>1, <2>2, <2>3, <2>4
<1>7. ASSUME NEW q, NEW d, d # usageDate \/ \A e \in written : e.key # q
      PROVE  SavedOn(R, q, d) = SavedOn(rows, q, d)
  <2>1. \A r : r \in R /\ r.payee = q /\ r.date = d <=> r \in rows /\ r.payee = q /\ r.date = d
    BY <1>1, <1>4, <1>7
  <2> HIDE DEF R
  <2>2. \A r \in R : r.payee = q /\ r.date = d => r \in rows
    BY <2>1
  <2>3. \A r \in rows : r.payee = q /\ r.date = d => r \in R
    BY <2>1
  <2>4. CASE \E r \in rows : r.payee = q /\ r.date = d
    <3>1. PICK r \in rows : r.payee = q /\ r.date = d
      BY <2>4
    <3>2. r \in R /\ \A s \in R : s.payee = q /\ s.date = d => s = r
      BY <1>2, <2>2, <2>3, <3>1
    <3>3. (CHOOSE s \in R : s.payee = q /\ s.date = d) = r
      BY <3>1, <3>2
    <3>4. (CHOOSE s \in rows : s.payee = q /\ s.date = d) = r
      BY <1>2, <3>1
    <3>5. QED BY <3>1, <3>2, <3>3, <3>4 DEF SavedOn
  <2>5. CASE ~ \E r \in rows : r.payee = q /\ r.date = d
    BY <2>2, <2>5 DEF SavedOn
  <2>6. QED BY <2>4, <2>5
<1>8. ASSUME NEW q, NEW e \in written, e.key = q
      PROVE  SavedOn(R, q, usageDate) = Cardinality({k \in OfLife : ledger[k].payee = q})
  <2>1. row(e) \in R /\ row(e).payee = q /\ row(e).date = usageDate
    BY <1>1, <1>4, <1>8
  <2>2. \A s \in R : s.payee = q /\ s.date = usageDate => s = row(e)
    BY <1>6, <2>1
  <2> HIDE DEF R
  <2>3. (CHOOSE s \in R : s.payee = q /\ s.date = usageDate) = row(e)
    BY <2>1, <2>2
  <2>4. SavedOn(R, q, usageDate) = row(e).requests
    BY <2>1, <2>3 DEF SavedOn
  <2>5. QED BY <1>3, <1>4, <1>8, <2>4
<1> HIDE DEF R
<1>9. QED BY <1>5, <1>6, <1>7, <1>8 DEF R

LEMMA SavesKeep ==
  ASSUME UsageInv, SavesAndRestarts
  PROVE  UsageInv'
<1>1. PICK written \in SUBSET Range(payees) : BeginsAnew /\ rows' = Saved(written)
  BY DEF SavesAndRestarts
<1>2. /\ rows' \in SUBSET UsageRow /\ \A r \in rows' : r.date <= usageDate
      /\ \A r, s \in rows' : r.payee = s.payee /\ r.date = s.date => r = s
      /\ \A q, d : d # usageDate => SavedOn(rows', q, d) = SavedOn(rows, q, d)
      /\ \A q : \/ SavedOn(rows', q, usageDate) = SavedOn(rows, q, usageDate)
               \/ SavedOn(rows', q, usageDate) = Cardinality({k \in OfLife : ledger[k].payee = q})
  BY <1>1, SavedRows
<1>3. /\ usageDate \in 1..MaxUsageDate /\ MaxUsageDate \in Nat /\ rows \in SUBSET UsageRow
      /\ \A r \in rows : r.date <= usageDate /\ ledger \in Seq(Request)
  BY UsageAssumption DEF UsageInv, UsageTypeOK, NothingAhead
<1>4. rows \in SUBSET UsageRow /\ ledger \in Seq(Request) /\ usageDate - 1 \in 0..MaxUsageDate
      /\ usageDate \in 0..MaxUsageDate
  BY <1>3 DEF UsageInv, UsageTypeOK
<1>5. ASSUME NEW q \in Payees, NEW d \in 0..MaxUsageDate
      PROVE  SavedUntil(rows', q)[d] <= Cardinality(Earlier(q, d)')
  <2> DEFINE f == SavedUntil(rows, q)
             a == SavedTable(rows, q)
             g == SavedUntil(rows', q)
             b == SavedTable(rows', q)
             T == usageDate
             N == MaxUsageDate
             mine == {k \in OfLife : ledger[k].payee = q}
  <2>1. a \in [1..N -> Nat] /\ AddsUp(f, a, N) /\ b \in [1..N -> Nat] /\ AddsUp(g, b, N)
    BY <1>2, <1>4, SavedAddsUp
  <2>2. \A i \in 1..N : /\ a[i] = SavedOn(rows, q, i) /\ b[i] = SavedOn(rows', q, i)
                        /\ i # T => b[i] = a[i]
    BY <1>2 DEF SavedTable
  <2>3. b[T] = a[T] \/ b[T] = Cardinality(mine)
    BY <1>2, <1>3, <2>2
  <2>4. \A i \in 0..N : f[i] \in Nat /\ g[i] \in Nat /\ f[i] <= Cardinality(Earlier(q, i))
    BY <2>1 DEF AddsUp, UsageInv, RowsInv
  <2>5. \A i : /\ Cardinality(Earlier(q, i)) \in Nat /\ Cardinality(Earlier(q, i)') \in Nat
               /\ Cardinality(Earlier(q, i)) <= Cardinality(Earlier(q, i)')
    BY <1>1, <1>2, EarlierCounted
  <2>6. mine \subseteq DOMAIN ledger
    BY OfLifeTypes DEF UsageInv
  <2> HIDE DEF f, a, g, b, N, mine
  <2>10. N \in Nat
    BY <1>3 DEF N
  <2>13. AddsUp(f, a, N) /\ AddsUp(g, b, N)
    BY <2>1
  <2>11. ASSUME NEW m \in 0..N, \A i \in 1..m : a[i] = b[i]
         PROVE  \A i \in 0..m : f[i] = g[i]
    BY <2>10, <2>13, <2>11, SumsAgree
  <2>12. ASSUME NEW m \in 0..N, \A i \in m + 1..N : b[i] = 0
         PROVE  \A i \in m..N : g[i] = g[m]
    BY <2>10, <2>13, <2>12, SumsEnd
  <2>7. CASE b[T] = a[T]
    <3>1. \A i \in 1..N : a[i] = b[i]
      BY <2>2, <2>7
    <3>2. N \in Nat /\ N \in 0..N
      BY <1>3 DEF N
    <3>3. \A i \in 0..N : f[i] = g[i]
      BY <2>11, <3>1, <3>2
    <3>4. d \in 0..N
      BY DEF N
    <3>5. g[d] <= Cardinality(Earlier(q, d)')
      BY <2>4, <2>5, <3>3, <3>4
    <3>6. QED BY <3>5 DEF g
  <2>8. CASE b[T] = Cardinality(mine)
    <3>1. /\ N \in Nat /\ T \in 1..N /\ T - 1 \in 0..N /\ T \in 0..N /\ T # 0 /\ d \in 0..N
          /\ \A i \in 1..T - 1 : i \in 1..N /\ i # T
      BY <1>3 DEF N
    <3>2. \A i \in 1..T - 1 : a[i] = b[i]
      BY <2>2, <3>1
    <3>3. \A i \in 0..T - 1 : f[i] = g[i]
      BY <2>11, <3>1, <3>2
    <3>4. CASE d < T
      <4>1. d \in 0..T - 1
        BY <3>1, <3>4
      <4>2. g[d] <= Cardinality(Earlier(q, d)')
        BY <2>4, <2>5, <3>1, <3>3, <4>1
      <4>3. QED BY <4>2 DEF g
    <3>5. CASE d >= T
      <4>1. \A i \in T + 1..N : b[i] = 0
        <5>1. TAKE i \in T + 1..N
        <5>2. i \in 1..N /\ i # T /\ T < i
          BY <3>1
        <5>3. \A r \in rows : r.date # i
          BY <1>3, <5>2
        <5>4. SavedOn(rows, q, i) = 0
          BY <5>3 DEF SavedOn
        <5>5. QED BY <2>2, <5>2, <5>4
      <4>2. \A i \in T..N : g[i] = g[T]
        BY <2>12, <3>1, <4>1
      <4>3. g[T] = g[T - 1] + b[T]
        BY <2>1, <3>1 DEF AddsUp
      <4>4. d \in T..N /\ T - 1 \in 0..T - 1
        BY <3>1, <3>5
      <4>5. g[d] = f[T - 1] + Cardinality(mine)
        BY <2>8, <3>3, <4>2, <4>3, <4>4
      <4>6. f[T - 1] <= Cardinality(Earlier(q, T - 1)) /\ f[T - 1] \in Nat
        BY <2>4, <3>1
      <4> DEFINE E == Earlier(q, T - 1)
                 F == Earlier(q, d)'
      <4>7. /\ E \subseteq DOMAIN ledger /\ E \intersect OfLife = {}
            /\ E \subseteq Earlier(q, d) /\ mine \subseteq {k \in OfLife : ledger[k].payee = q /\ ledger[k].date <= d}
        <5>1. /\ E \subseteq DOMAIN ledger /\ E \intersect OfLife = {}
          BY <1>1, <1>2, AnewBegins
        <5>2. \A k \in DOMAIN ledger : ledger[k].date \in Nat /\ ledger[k].date <= usageDate
          BY <1>3, OfLifeTypes DEF UsageInv, NothingAhead, Request
        <5>3. \A k \in DOMAIN ledger : ledger[k].date <= d
          BY <3>1, <3>5, <5>2
        <5>4. E \subseteq Earlier(q, d)
          BY <5>3 DEF Earlier
        <5>5. mine \subseteq {k \in OfLife : ledger[k].payee = q /\ ledger[k].date <= d}
          BY <2>6, <5>3 DEF mine
        <5>6. QED BY <5>1, <5>4, <5>5
      <4>8. F = Earlier(q, d) \union {k \in OfLife : ledger[k].payee = q /\ ledger[k].date <= d}
            /\ F \subseteq DOMAIN ledger
        BY <1>1, <1>2, AnewBegins, OfLifeTypes DEF UsageInv
      <4>9. mine \subseteq OfLife
        BY DEF mine
      <4> HIDE DEF E, F
      <4>10. E \union mine \subseteq F /\ E \intersect mine = {}
        BY <4>7, <4>8, <4>9
      <4>11. IsFiniteSet(E) /\ IsFiniteSet(mine) /\ IsFiniteSet(F)
        BY <1>3, <1>4, <2>6, <4>7, <4>8, CountedType
      <4>12. /\ Cardinality(E \union mine) = Cardinality(E) + Cardinality(mine) - Cardinality({})
             /\ Cardinality(E \union mine) <= Cardinality(F) /\ Cardinality({}) = 0
        BY <4>10, <4>11, FS_Union, FS_Subset, FS_EmptySet
      <4>13. Cardinality(E) \in Nat /\ Cardinality(mine) \in Nat /\ Cardinality(F) \in Nat
        BY <4>11, FS_CardinalityType
      <4>14. f[T - 1] <= Cardinality(E)
        BY <4>6 DEF E
      <4>15. g[d] <= Cardinality(F)
        BY <4>5, <4>6, <4>12, <4>13, <4>14
      <4>16. QED BY <4>15 DEF g, F
    <3>6. QED BY <1>3, <3>1, <3>4, <3>5
  <2>9. QED BY <2>3, <2>7, <2>8
<1>6. RowsInv'
  BY <1>2, <1>5 DEF RowsInv
<1>7. QED BY <1>1, <1>2, <1>6, AnewBegins DEF UsageInv

-----------------------------------------------------------------------------
(* In every behaviour the counters of a life are exact, and the table has  *)
(* no request twice, whatever was saved, lost or killed: sea_usage_record, *)
(* sea_usage_save, sea_usage_init.                                         *)
LEMMA UsageInvariant == UsageSpec => []UsageInv
<1>1. ASSUME UsageInit PROVE UsageInv
  <2>1. /\ usageDate = 1 /\ payees = <<>> /\ usageDays = <<>> /\ totals = Nothing
        /\ rows = {} /\ ledger = <<>> /\ life = 1
    BY <1>1 DEF UsageInit
  <2>2. MaxUsageDate \in Nat \ {0} /\ MaxPayees \in Nat /\ UsageDays \in Nat
    BY UsageAssumption
  <2>3. /\ DOMAIN payees = {} /\ DOMAIN usageDays = {} /\ DOMAIN ledger = {} /\ OfLife = {} /\ Dates = {}
        /\ Len(payees) = 0 /\ Len(usageDays) = 0
    BY <2>1 DEF OfLife, Dates
  <2>4. UsageTypeOK /\ NothingAhead /\ TablesInv
    BY <2>1, <2>2, <2>3 DEF UsageTypeOK, NothingAhead, TablesInv, Nothing, Counter
  <2>5. totals = CountOf(OfLife)
    <3>1. {i \in {} : ledger[i].error} = {}
      OBVIOUS
    <3>2. QED BY <2>1, <2>3, <3>1, FS_EmptySet DEF CountOf, Nothing
  <2>6. PayeesExact /\ DaysExact
    BY <2>3 DEF PayeesExact, DaysExact
  <2>7. RowsInv
    <3>1. ASSUME NEW q \in Payees, NEW d \in 0..MaxUsageDate
          PROVE  SavedUntil(rows, q)[d] <= Cardinality(Earlier(q, d))
      <4> DEFINE N == MaxUsageDate
                 f == SavedUntil(rows, q)
                 a == SavedTable(rows, q)
      <4>1. AddsUp(f, a, N)
        BY <2>1, SavedAddsUp
      <4>2. \A i \in 0 + 1..N : a[i] = 0
        BY <2>1, <2>2 DEF SavedTable, SavedOn
      <4>3. N \in Nat /\ 0 \in 0..N /\ d \in 0..N
        BY <2>2
      <4> HIDE DEF N, f, a
      <4>4. f[d] = f[0] /\ f[0] = 0
        <5>1. \A i \in 0..N : f[i] = f[0]
          BY <4>1, <4>2, <4>3, SumsEnd
        <5>2. f[0] = 0
          BY <4>1, <4>3 DEF AddsUp
        <5>3. QED BY <4>3, <5>1, <5>2
      <4>5. Earlier(q, d) = {}
        BY <2>3 DEF Earlier
      <4>6. Cardinality(Earlier(q, d)) = 0
        BY <4>5, FS_EmptySet
      <4>7. QED BY <4>4, <4>6 DEF f
    <3>2. QED BY <2>1, <3>1 DEF RowsInv
  <2>8. QED BY <2>4, <2>5, <2>6, <2>7 DEF UsageInv
<1>2. ASSUME UsageInv, [UsageNext]_usageVars PROVE UsageInv'
  <2>1. ASSUME NEW payee \in Payees, NEW error \in BOOLEAN, Record(payee, error) PROVE UsageInv'
    BY <1>2, <2>1, RecordKeeps
  <2>2. CASE Midnight
    BY <1>2, <2>2, MidnightKeeps
  <2>3. CASE SavesAndRestarts
    BY <1>2, <2>3, SavesKeep
  <2>4. CASE UsageLost
    BY <1>2, <2>4, LostKeeps
  <2>5. CASE UNCHANGED usageVars
    <3>1. UNCHANGED <<usageDate, payees, usageDays, totals, rows, ledger, life>>
      BY <2>5 DEF usageVars, trackerVars
    <3>2. UsageTypeOK' /\ NothingAhead' /\ TablesInv' /\ (totals = CountOf(OfLife))'
      BY <1>2, <3>1 DEF UsageInv, UsageTypeOK, NothingAhead, TablesInv, CountOf, OfLife
    <3>3. PayeesExact' /\ DaysExact'
      BY <1>2, <3>1 DEF UsageInv, PayeesExact, DaysExact, CountOf, OfLife, Has, Dates
    <3>4. RowsInv'
      <4>1. \A q, d : Earlier(q, d)' = Earlier(q, d)
        BY <3>1 DEF Earlier
      <4>2. QED BY <1>2, <3>1, <4>1 DEF UsageInv, RowsInv
    <3>5. QED BY <3>2, <3>3, <3>4 DEF UsageInv
  <2>6. QED BY <1>2, <2>1, <2>2, <2>3, <2>4, <2>5 DEF UsageNext
<1>3. QED BY <1>1, <1>2, PTL DEF UsageSpec

(* The days a table shows, counted. *)
LEMMA ShownCounted ==
  ASSUME UsageInv
  PROVE  Cardinality({usageDays[i].key : i \in DOMAIN usageDays}) = Len(usageDays)
<1> DEFINE S == DOMAIN usageDays
           T == {usageDays[i].key : i \in DOMAIN usageDays}
           b == [i \in S |-> usageDays[i].key]
<1>1. Distinct(usageDays) /\ S = 1..Len(usageDays) /\ Len(usageDays) \in Nat
  BY DaysCount
<1>2. b \in Bijection(S, T)
  <2>1. b \in [S -> T] /\ \A i \in S : b[i] = usageDays[i].key
    OBVIOUS
  <2>2. \A i, k \in S : b[i] = b[k] => i = k
    BY <1>1, <2>1 DEF Distinct
  <2>3. \A z \in T : \E i \in S : b[i] = z
    BY <2>1
  <2> HIDE DEF S, T, b
  <2>4. QED BY <2>1, <2>2, <2>3, Fun_IsBij
<1>3. IsFiniteSet(S) /\ Cardinality(S) = Len(usageDays)
  <2> HIDE DEF S, T, b
  <2>1. \A n \in Nat : IsFiniteSet(1..n) /\ Cardinality(1..n) = n
    BY FS_Interval
  <2>2. QED BY <1>1, <2>1
<1>4. ExistsBijection(S, T)
  BY <1>2 DEF ExistsBijection
<1> HIDE DEF S, T
<1>5. Cardinality(T) = Cardinality(S)
  BY <1>3, <1>4, FS_Bijection
<1>6. QED BY <1>3, <1>5 DEF T

(* The property follows from the invariant. *)
LEMMA UsageFollows == UsageInv => UsageAddsUp
<1> SUFFICES ASSUME UsageInv PROVE UsageAddsUp
  OBVIOUS
<1>1. CountersExact
  <2> DEFINE shown == {usageDays[i].key : i \in DOMAIN usageDays}
  <2>1. totals = CountOf(OfLife)
    BY DEF UsageInv
  <2>2. \A i \in DOMAIN usageDays :
          /\ usageDays[i].counter = CountOf({k \in OfLife : ledger[k].date = usageDays[i].key})
          /\ i > 1 => usageDays[i - 1].key < usageDays[i].key
    <3>1. TAKE i \in DOMAIN usageDays
    <3>2. DOMAIN usageDays = 1..Len(usageDays) /\ Len(usageDays) \in Nat /\ Rising(usageDays)
      BY DaysCount
    <3>3. i > 1 => i - 1 \in DOMAIN usageDays /\ i - 1 < i
      BY <3>2
    <3>4. i > 1 => usageDays[i - 1].key < usageDays[i].key
      BY <3>2, <3>3 DEF Rising
    <3>5. QED BY <3>4 DEF UsageInv, DaysExact
  <2>3. Cardinality(shown) = Len(usageDays)
    BY ShownCounted
  <2>4. /\ shown \subseteq Dates
        /\ \A d \in Dates \ shown : Len(usageDays) = UsageDays /\ \A s \in shown : d < s
    BY DEF UsageInv, DaysExact, Has
  <2>5. /\ \A i \in DOMAIN payees :
              payees[i].counter = CountOf({k \in OfLife : ledger[k].payee = payees[i].key})
        /\ \A k \in OfLife : Has(payees, ledger[k].payee) \/ Len(payees) = MaxPayees
    BY DEF UsageInv, PayeesExact
  <2> HIDE DEF shown
  <2>6. \A d \in Dates \ shown : Cardinality(shown) = UsageDays /\ \A s \in shown : d < s
    BY <2>3, <2>4
  <2>7. QED BY <2>1, <2>2, <2>4, <2>5, <2>6 DEF CountersExact, shown
<1>2. NothingTwice
  <2>1. ASSUME NEW q \in Payees, NEW d \in 1..MaxUsageDate
        PROVE  SavedUntil(rows, q)[d]
                 <= Cardinality({i \in DOMAIN ledger : ledger[i].payee = q /\ ledger[i].date <= d})
    <3> DEFINE E == Earlier(q, d)
               F == {i \in DOMAIN ledger : ledger[i].payee = q /\ ledger[i].date <= d}
    <3>1. MaxUsageDate \in Nat /\ d \in 0..MaxUsageDate
      BY UsageAssumption
    <3>2. SavedUntil(rows, q)[d] <= Cardinality(E) /\ SavedUntil(rows, q)[d] \in Nat
      <4>1. AddsUp(SavedUntil(rows, q), SavedTable(rows, q), MaxUsageDate)
        BY SavedAddsUp DEF UsageInv, UsageTypeOK
      <4>2. SavedUntil(rows, q)[d] \in Nat
        BY <3>1, <4>1 DEF AddsUp
      <4>3. QED BY <3>1, <4>2 DEF UsageInv, RowsInv
    <3>3. E \subseteq F /\ F \subseteq DOMAIN ledger /\ ledger \in Seq(Request)
      BY DEF Earlier, UsageInv, UsageTypeOK
    <3> HIDE DEF E, F
    <3>4. IsFiniteSet(F)
      BY <3>3, CountedType
    <3>5. Cardinality(E) <= Cardinality(F) /\ Cardinality(E) \in Nat /\ Cardinality(F) \in Nat
      BY <3>3, <3>4, FS_Subset, FS_CardinalityType
    <3>6. SavedUntil(rows, q)[d] <= Cardinality(F)
      BY <3>2, <3>5
    <3>7. QED BY <3>6 DEF F
  <2>2. QED BY <2>1 DEF NothingTwice, UsageInv, RowsInv
<1>3. QED BY <1>1, <1>2 DEF UsageAddsUp

(* For every number of providers, of days and of lives: within a life each *)
(* counter is what was recorded, and the rows saved over all lives add up  *)
(* to no more than what was asked.                                         *)
THEOREM UsageIsExact == UsageSpec => []UsageAddsUp
BY UsageInvariant, UsageFollows, PTL

=============================================================================
