------------------------------- MODULE SeaMesh -------------------------------
(***************************************************************************)
(* The captain of the mesh (src/mesh/sea_mesh.c): a table of crew nodes    *)
(* kept up to date by registrations and heartbeats that travel over HTTP,  *)
(* routing by capability, and dispatch of one task at a time.              *)
(*                                                                         *)
(* The slots of the table are kept as the code leaves them: a removal      *)
(* moves the slots behind it down and clears none, and the result of a     *)
(* dispatch names its node by a pointer into the table.                    *)
(***************************************************************************)
EXTENDS Integers, Sequences, FiniteSets, SequencesExt

CONSTANTS
  Crews,            \* names of the nodes
  Offers,           \* Offers[c]: the tools of node c, in the order it sends them
  MaxNodes,         \* SEA_MESH_MAX_NODES
  MaxCapabilities,  \* SEA_MESH_MAX_CAPABILITIES
  StaleAfter,       \* three heartbeat intervals
  MaxNow,           \* bound: the clock
  MaxWire,          \* bound: requests on the way at one time
  MaxDispatches     \* bound: tasks dispatched

ASSUME MeshAssumption ==
  /\ MaxNodes \in Nat \ {0} /\ MaxCapabilities \in Nat /\ StaleAfter \in Nat
  /\ MaxNow \in Nat /\ MaxWire \in Nat /\ MaxDispatches \in Nat

VARIABLES
  clock,     \* the captain's clock
  nodes,     \* SeaMesh.nodes, every slot
  count,     \* SeaMesh.node_count
  wire,      \* requests of crew nodes on the way to the captain
  post,      \* the dispatch in progress
  held,      \* the result the caller of the last dispatch still holds; its "before"
             \* is history: the nodes up to the one it names, until one is removed
  trail,     \* the audit log: what dispatches said of themselves
  executed,  \* what nodes have executed, with the number of the task
  begun,     \* history: tasks dispatched so far
  listed     \* history: when every slot was last examined for staleness

captainVars == <<nodes, count>>
taskVars == <<post, held, trail, executed, begun>>
meshVars == <<clock, captainVars, wire, taskVars, listed>>

ToolsOf(crew) == Range(Offers[crew])
MeshTools == UNION {ToolsOf(c) : c \in Crews}
EmptySlot == [name |-> "", caps |-> <<>>, healthy |-> FALSE, beat |-> 0, load |-> 0]
NoPost == [phase |-> "none", at |-> 0, task |-> 0, node |-> ""]
NoResult == [at |-> 0, task |-> 0, node |-> "", success |-> FALSE, before |-> {}]

MeshInit ==
  /\ clock = 0
  /\ nodes = [i \in 1..MaxNodes |-> EmptySlot] /\ count = 0
  /\ wire = {}
  /\ post = NoPost /\ held = NoResult /\ trail = <<>> /\ executed = {} /\ begun = 0
  /\ listed = 0

Table == 1..count
Positions(name) == {i \in Table : nodes[i].name = name}
Registered(name) == Positions(name) # {}
Position(name) == CHOOSE i \in Positions(name) : \A k \in Positions(name) : i <= k

(* The captain does one thing at a time. *)
Free == post.phase = "none"

Tick ==
  /\ clock < MaxNow
  /\ clock' = clock + 1
  /\ UNCHANGED <<captainVars, wire, taskVars, listed>>

-----------------------------------------------------------------------------
(* The registry.                                                           *)

(* sea_mesh_crew_register and sea_mesh_crew_heartbeat: a request leaves.   *)
(* What comes back changes nothing at the node.                            *)
CrewSends(c, kind) ==
  /\ Cardinality(wire) < MaxWire
  /\ wire' = wire \union {[from |-> c, kind |-> kind]}
  /\ UNCHANGED <<clock, captainVars, taskVars, listed>>

Lost(m) ==
  /\ wire' = wire \ {m}
  /\ UNCHANGED <<clock, captainVars, taskVars, listed>>

Capabilities(c) == SubSeq(Offers[c], 1, IF Len(Offers[c]) < MaxCapabilities
                                        THEN Len(Offers[c]) ELSE MaxCapabilities)

(* sea_mesh_register_node: a known node is brought up to date, a new one   *)
(* takes the next slot, and beyond the last slot it is refused.            *)
Register(c) ==
  /\ Free /\ [from |-> c, kind |-> "register"] \in wire
  /\ wire' = wire \ {[from |-> c, kind |-> "register"]}
  /\ IF Registered(c)
     THEN /\ nodes' = [nodes EXCEPT ![Position(c)].caps = Capabilities(c),
                                    ![Position(c)].healthy = TRUE,
                                    ![Position(c)].beat = clock]
          /\ UNCHANGED count
     ELSE IF count < MaxNodes
     THEN /\ nodes' = [nodes EXCEPT ![count + 1] =
                        [name |-> c, caps |-> Capabilities(c), healthy |-> TRUE,
                         beat |-> clock, load |-> 0]]
          /\ count' = count + 1
     ELSE UNCHANGED captainVars
  /\ UNCHANGED <<clock, taskVars, listed>>

(* sea_mesh_process_heartbeat: one of a node that is not known is ignored. *)
Heartbeat(c) ==
  /\ Free /\ [from |-> c, kind |-> "heartbeat"] \in wire
  /\ wire' = wire \ {[from |-> c, kind |-> "heartbeat"]}
  /\ nodes' = IF Registered(c)
              THEN [nodes EXCEPT ![Position(c)].healthy = TRUE, ![Position(c)].beat = clock]
              ELSE nodes
  /\ UNCHANGED <<clock, count, taskVars, listed>>

HeldWithout(c) == IF c \in held.before THEN [held EXCEPT !.before = {}] ELSE held

(* sea_mesh_remove_node: the last slot keeps what it held. *)
RemoveNode(c) ==
  /\ Free /\ Registered(c)
  /\ nodes' = [i \in DOMAIN nodes |->
                IF i \in Position(c)..count - 1 THEN nodes[i + 1] ELSE nodes[i]]
  /\ count' = count - 1
  /\ held' = HeldWithout(c)
  /\ UNCHANGED <<clock, wire, post, trail, executed, begun, listed>>

-----------------------------------------------------------------------------
(* Staleness.                                                              *)

Stale(node) == node.beat < clock - StaleAfter

(* sea_mesh_healthy_nodes looks at the slots until it has found max nodes. *)
Examined(max) ==
  {i \in Table :
    Cardinality({k \in 1..i - 1 : nodes[k].healthy /\ ~Stale(nodes[k])}) < max}

(* A node is only ever marked here: routing does not look at heartbeats.   *)
ListHealthy(max) ==
  /\ Free
  /\ nodes' = [i \in DOMAIN nodes |->
                IF i \in Examined(max) /\ Stale(nodes[i])
                THEN [nodes[i] EXCEPT !.healthy = FALSE] ELSE nodes[i]]
  /\ listed' = IF Examined(max) = Table THEN clock ELSE listed
  /\ UNCHANGED <<clock, count, wire, taskVars>>

-----------------------------------------------------------------------------
(* Tasks.                                                                  *)

Capable(tool) == {i \in Table : nodes[i].healthy /\ tool \in Range(nodes[i].caps)}

(* sea_mesh_route_tool: the first of those with the least load, which is   *)
(* tasks_completed + tasks_failed and is counted nowhere.                  *)
Route(tool) ==
  CHOOSE i \in Capable(tool) :
    \A k \in Capable(tool) :
      nodes[i].load < nodes[k].load \/ (nodes[i].load = nodes[k].load /\ i <= k)

(* sea_mesh_dispatch, up to the request. *)
Dispatch(tool) ==
  /\ Free /\ begun < MaxDispatches
  /\ begun' = begun + 1
  /\ IF Capable(tool) = {}
     THEN held' = NoResult /\ UNCHANGED post
     ELSE /\ post' = [phase |-> "posted", at |-> Route(tool), task |-> begun + 1,
                      node |-> nodes[Route(tool)].name]
          /\ UNCHANGED held
  /\ UNCHANGED <<clock, captainVars, wire, trail, executed, listed>>

(* The node executes the tool and answers, or its answer will not come. *)
NodeExecutes ==
  /\ post.phase = "posted"
  /\ \E phase \in {"answered", "silent"} : post' = [post EXCEPT !.phase = phase]
  /\ executed' = executed \union {<<post.node, post.task>>}
  /\ UNCHANGED <<clock, captainVars, wire, held, trail, begun, listed>>

Result(success) ==
  [at |-> post.at, task |-> post.task, node |-> post.node, success |-> success,
   before |-> {nodes[i].name : i \in 1..post.at}]

(* No answer, or one with a status other than 200: an error, not audited.  *)
DispatchFails ==
  /\ post.phase \in {"posted", "silent", "answered"}
  /\ held' = Result(FALSE)
  /\ post' = NoPost
  /\ UNCHANGED <<clock, captainVars, wire, trail, executed, begun, listed>>

(* Mutant: success is what remains when nothing has failed. *)
DispatchReturnsAnyway ==
  /\ post.phase \in {"posted", "answered"}
  /\ \E success \in BOOLEAN :
       /\ held' = Result(success)
       /\ trail' = Append(trail, [task |-> post.task, node |-> post.node, success |-> success])
  /\ post' = NoPost
  /\ UNCHANGED <<clock, captainVars, wire, executed, begun, listed>>

(* An answer: a success when it has an output that finds room and passes   *)
(* the shield.  Either way it is audited.                                  *)
DispatchReturns ==
  /\ post.phase = "answered"
  /\ \E success \in BOOLEAN :
       /\ held' = Result(success)
       /\ trail' = Append(trail, [task |-> post.task, node |-> post.node, success |-> success])
  /\ post' = NoPost
  /\ UNCHANGED <<clock, captainVars, wire, executed, begun, listed>>

-----------------------------------------------------------------------------
MeshNext ==
  \/ Tick
  \/ \E c \in Crews :
       \/ \E kind \in {"register", "heartbeat"} : CrewSends(c, kind)
       \/ Register(c) \/ Heartbeat(c) \/ RemoveNode(c)
  \/ \E m \in wire : Lost(m)
  \/ \E max \in {1, MaxNodes} : ListHealthy(max)
  \/ \E tool \in MeshTools : Dispatch(tool)
  \/ NodeExecutes \/ DispatchFails \/ DispatchReturns

MeshSpec == MeshInit /\ [][MeshNext]_meshVars

-----------------------------------------------------------------------------
(* No name is in the table twice, whatever order registrations, removals   *)
(* and late heartbeats come in; a node is only called stale when its last  *)
(* sign of life is old, and one that is called healthy has been fresh at   *)
(* the last look at the whole table: what routing trusts is at most one    *)
(* such look behind.                                                       *)
HealthIsFreshness ==
  /\ \A i, k \in Table : nodes[i].name = nodes[k].name => i = k
  /\ \A i \in Table :
       IF nodes[i].healthy THEN nodes[i].beat >= listed - StaleAfter ELSE Stale(nodes[i])

(* What the captain says of a task is true: a success, to the caller or in *)
(* the audit log, has been executed by the node it names - the converse is *)
(* false, an answer that is lost leaves a task executed and reported as    *)
(* failed - and the name in the result, a pointer into the table, goes on  *)
(* being that of the node the task was sent to as long as no node up to    *)
(* that one is removed.                                                    *)
ResultsTruthful ==
  /\ held.success => <<held.node, held.task>> \in executed
  /\ \A i \in DOMAIN trail : trail[i].success => <<trail[i].node, trail[i].task>> \in executed
  /\ held.before # {} => nodes[held.at].name = held.node

(* What the captain holds of its nodes, and says of their work, is true. *)
MeshTruthful == HealthIsFreshness /\ ResultsTruthful
=============================================================================
