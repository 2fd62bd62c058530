----------------------------- MODULE NodeWatch -----------------------------
(***************************************************************************)
(* The node and the zombie collectors (pkg/collector/node, zombie).  Both  *)
(* keep the nodes their informer reports, with the same handlers, so one   *)
(* map stands for either.  The node collector judges their conditions; the *)
(* zombie collector asks metrics-server which nodes have metrics, without  *)
(* the lock, and then writes the answers down for the nodes it finds.      *)
(***************************************************************************)
EXTENDS Naturals, Sequences, SequencesExt

CONSTANTS
  Nodes,           \* node names
  MaxNodeChanges,  \* bound: how often the nodes change
  MaxLists         \* bound: how often metrics-server is asked

ASSUME NodeBoundsAssumption == MaxNodeChanges \in Nat /\ MaxLists \in Nat

VARIABLES
  nodeApi,         \* the node of a name, at the API server
  nodeEvents,      \* the versions the informer has not delivered
  nodeChanges,     \* counts the changes
  ignoreNew,       \* a node younger than IgnoreNewNodeDuration, by its UID
  nodes,           \* c.nodes
  nodeHasMetrics,  \* c.nodeHasMetrics
  zombiePoll,      \* the zombie collector's poll: where it is, what it was told
  lists,           \* how often metrics-server was asked
  bornAt,          \* history: lists when a handler first saw this UID of the node
  askedAt,         \* history: the list that the node's entry comes from
  heirs            \* history: nodes whose entry was their predecessor's: no delete
                   \* was seen in between, and no poll since

nodeVars == <<nodeApi, nodeEvents, nodeChanges, ignoreNew, nodes,
              nodeHasMetrics, zombiePoll, lists, bornAt, askedAt, heirs>>

(* The conditions of a node, as far as the two collectors tell them apart: Ready
   may be missing, pressure stands for the four of them that count when they are True, custom
   for a type that isNodeHealthy does not know. *)
NoNode     == [uid |-> 0, ready |-> "none", pressure |-> "none", custom |-> "none"]
Conditions == {[ready |-> "True", pressure |-> "Unknown", custom |-> "Unknown"],
               [ready |-> "True", pressure |-> "True", custom |-> "False"],
               [ready |-> "Unknown", pressure |-> "False", custom |-> "Unknown"],
               [ready |-> "none", pressure |-> "False", custom |-> "False"]}
Uids       == 1..(1 + MaxNodeChanges)
NodeValues == {NoNode} \union
              {[uid |-> u, ready |-> c.ready, pressure |-> c.pressure,
                custom |-> c.custom] : u \in Uids, c \in Conditions}

isNodeReady(v) == v.ready = "True"

(* An Unknown pressure does not make a node unhealthy, nor does a condition of
   an unknown type: that one is listed, if the node is unhealthy. *)
isNodeHealthy(v) == v.ready = "True" /\ v.pressure # "True"
Abnormal(v)      == {c \in {"ready", "pressure", "custom"} :
                       CASE c = "ready" -> v.ready \notin {"True", "none"}
                         [] c = "pressure" -> v.pressure = "True"
                         [] OTHER -> v.custom # "False"}

NodeTypeOK ==
  /\ nodeApi \in [Nodes -> NodeValues]
  /\ nodeEvents \in [Nodes -> SeqOf(NodeValues, 2)]
  /\ nodeChanges \in 0..MaxNodeChanges
  /\ ignoreNew \in {0} \union Uids
  /\ nodes \in [Nodes -> NodeValues]
  /\ nodeHasMetrics \in [Nodes -> {"none", "yes", "no"}]
  /\ zombiePoll \in [at : {"idle", "asking", "told"}, has : SUBSET Nodes]
  /\ lists \in 0..MaxLists
  /\ bornAt \in [Nodes -> 0..MaxLists]
  /\ askedAt \in [Nodes -> 0..MaxLists]
  /\ heirs \subseteq Nodes

NodeInit ==
  /\ nodeApi = [n \in Nodes |-> NoNode]
  /\ nodeEvents = [n \in Nodes |-> <<>>]
  /\ nodeChanges = 0
  /\ ignoreNew = 0
  /\ nodes = [n \in Nodes |-> NoNode]
  /\ nodeHasMetrics = [n \in Nodes |-> "none"]
  /\ zombiePoll = [at |-> "idle", has |-> {}]
  /\ lists = 0
  /\ bornAt = [n \in Nodes |-> 0]
  /\ askedAt = [n \in Nodes |-> 0]
  /\ heirs = {}

-----------------------------------------------------------------------------
(* A node joins, changes a condition, or leaves; the UID is that of the change
   that created it. *)
NodeJoins(n, c) ==
  /\ nodeApi[n] = NoNode
  /\ nodeApi' = [nodeApi EXCEPT
       ![n] = [uid |-> 1 + nodeChanges, ready |-> c.ready,
               pressure |-> c.pressure, custom |-> c.custom]]

NodeTurns(n, c) ==
  /\ nodeApi[n] # NoNode
  /\ nodeApi' = [nodeApi EXCEPT
       ![n] = [uid |-> @.uid, ready |-> c.ready, pressure |-> c.pressure,
               custom |-> c.custom]]

NodeLeaves(n) == nodeApi[n] # NoNode /\ nodeApi' = [nodeApi EXCEPT ![n] = NoNode]

NodeChanges(n) ==
  /\ nodeChanges < MaxNodeChanges
  /\ Len(nodeEvents[n]) < 2
  /\ NodeLeaves(n) \/ \E c \in Conditions : NodeJoins(n, c) \/ NodeTurns(n, c)
  /\ nodeChanges' = nodeChanges + 1
  /\ nodeEvents' = [nodeEvents EXCEPT ![n] = Append(@, nodeApi'[n])]
  /\ UNCHANGED <<ignoreNew, nodes, nodeHasMetrics, zombiePoll, lists, bornAt,
                 askedAt, heirs>>

(* After a lost watch the informer lists: of a node that left and came back it
   reports an update. *)
NodeRelisted(n) ==
  /\ Len(nodeEvents[n]) = 2
  /\ nodeEvents' = [nodeEvents EXCEPT ![n] = <<Last(@)>>]
  /\ UNCHANGED <<nodeApi, nodeChanges, ignoreNew, nodes, nodeHasMetrics,
                 zombiePoll, lists, bornAt, askedAt, heirs>>

(* AddFunc and UpdateFunc of both collectors. *)
HandleNode(n) ==
  /\ nodeEvents[n] # <<>> /\ Head(nodeEvents[n]) # NoNode
  /\ nodeEvents' = [nodeEvents EXCEPT ![n] = Tail(@)]
  /\ nodes' = [nodes EXCEPT ![n] = Head(nodeEvents[n])]
  /\ bornAt' = IF Head(nodeEvents[n]).uid # nodes[n].uid
               THEN [bornAt EXCEPT ![n] = lists] ELSE bornAt
  /\ heirs' = IF nodes[n] # NoNode /\ Head(nodeEvents[n]).uid # nodes[n].uid
              THEN heirs \union {n} ELSE heirs
  /\ UNCHANGED <<nodeApi, nodeChanges, ignoreNew, nodeHasMetrics, zombiePoll,
                 lists, askedAt>>

(* DeleteFunc. *)
SlipHandleNodeDelete(n) ==
  /\ nodeEvents[n] # <<>> /\ Head(nodeEvents[n]) = NoNode
  /\ nodeEvents' = [nodeEvents EXCEPT ![n] = Tail(@)]
  /\ nodes' = [nodes EXCEPT ![n] = NoNode]
  /\ heirs' = heirs \ {n}
  /\ UNCHANGED <<nodeApi, nodeChanges, ignoreNew, nodeHasMetrics, zombiePoll, lists,
                 bornAt, askedAt>>

HandleNodeDelete(n) ==
  /\ nodeEvents[n] # <<>> /\ Head(nodeEvents[n]) = NoNode
  /\ nodeEvents' = [nodeEvents EXCEPT ![n] = Tail(@)]
  /\ nodes' = [nodes EXCEPT ![n] = NoNode]
  /\ nodeHasMetrics' = [nodeHasMetrics EXCEPT ![n] = "none"]
  /\ heirs' = heirs \ {n}
  /\ UNCHANGED <<nodeApi, nodeChanges, ignoreNew, zombiePoll, lists, bornAt, askedAt>>

(* The newest nodes grow older than IgnoreNewNodeDuration. *)
NodesAge ==
  /\ ignoreNew < nodeChanges
  /\ ignoreNew' = ignoreNew + 1
  /\ UNCHANGED <<nodeApi, nodeEvents, nodeChanges, nodes, nodeHasMetrics,
                 zombiePoll, lists, bornAt, askedAt, heirs>>

(* Poll: the list is taken some time before the answer arrives, without c.mu. *)
AskMetrics ==
  /\ zombiePoll.at = "idle" /\ lists < MaxLists
  /\ zombiePoll' = [at |-> "asking", has |-> {}]
  /\ lists' = lists + 1
  /\ UNCHANGED <<nodeApi, nodeEvents, nodeChanges, ignoreNew, nodes,
                 nodeHasMetrics, bornAt, askedAt, heirs>>

ListMetrics(s) ==
  /\ zombiePoll.at = "asking"
  /\ zombiePoll' = [at |-> "told", has |-> s]
  /\ UNCHANGED <<nodeApi, nodeEvents, nodeChanges, ignoreNew, nodes,
                 nodeHasMetrics, lists, bornAt, askedAt, heirs>>

AskFails ==
  /\ zombiePoll.at = "asking"
  /\ zombiePoll' = [at |-> "idle", has |-> {}]
  /\ UNCHANGED <<nodeApi, nodeEvents, nodeChanges, ignoreNew, nodes,
                 nodeHasMetrics, lists, bornAt, askedAt, heirs>>

(* The rest of Poll, under c.mu: only the Ready nodes known now get an answer. *)
ApplyMetrics ==
  /\ zombiePoll.at = "told"
  /\ nodeHasMetrics' = [n \in Nodes |->
       IF isNodeReady(nodes[n])
       THEN IF n \in zombiePoll.has THEN "yes" ELSE "no"
       ELSE nodeHasMetrics[n]]
  /\ askedAt' = [n \in Nodes |-> IF isNodeReady(nodes[n]) THEN lists ELSE askedAt[n]]
  /\ heirs' = {n \in heirs : ~isNodeReady(nodes[n])}
  /\ zombiePoll' = [at |-> "idle", has |-> {}]
  /\ UNCHANGED <<nodeApi, nodeEvents, nodeChanges, ignoreNew, nodes, lists, bornAt>>

NodeNext ==
  \/ \E n \in Nodes :
       NodeChanges(n) \/ NodeRelisted(n) \/ HandleNode(n) \/ HandleNodeDelete(n)
  \/ NodesAge \/ AskMetrics \/ AskFails \/ ApplyMetrics
  \/ \E s \in SUBSET Nodes : ListMetrics(s)

NodeSpec == NodeInit /\ [][NodeNext]_nodeVars

-----------------------------------------------------------------------------
(* What a scrape of the zombie collector and one of the node collector say. *)
zombieCollect == [n \in {k \in Nodes : isNodeReady(nodes[k])
                                       /\ nodeHasMetrics[k] # "none"} |->
                    nodeHasMetrics[n]]
nodeCollect   == [n \in {k \in Nodes : nodes[k] # NoNode /\ nodes[k].uid <= ignoreNew} |->
                    [healthy |-> isNodeHealthy(nodes[n]),
                     shown |-> IF isNodeHealthy(nodes[n]) THEN {} ELSE Abnormal(nodes[n])]]

(* Every node in a scrape is one the cluster has or that the informer has yet to
   report on.  The answer given for it is from a list asked for no earlier than
   the last one before a handler first saw this node, by its UID: at worst from
   the one list that was then on its way.  Only a node that was recreated while
   the watch was lost, so that its handler saw an update and no delete, is shown
   with its predecessor's answer, and that until the next poll that meets it
   Ready.  An unhealthy node is shown with a condition that says why, unless it
   has no Ready condition at all. *)
AnswersAreOfThisNode ==
  /\ \A n \in DOMAIN zombieCollect :
       /\ askedAt[n] >= bornAt[n] \/ n \in heirs
       /\ nodeEvents[n] = <<>> => isNodeReady(nodeApi[n])
  /\ \A n \in DOMAIN nodeCollect :
       /\ nodeEvents[n] = <<>> => nodeApi[n] # NoNode
       /\ nodeCollect[n].healthy \/ nodeCollect[n].shown # {} \/ nodes[n].ready = "none"
=============================================================================
