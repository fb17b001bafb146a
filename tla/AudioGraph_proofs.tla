-------------------------- MODULE AudioGraph_proofs --------------------------
(***************************************************************************)
(* The three invariants of AudioGraph hold for every set of identifiers    *)
(* and every set of node values a caller may pass.  Their conjunction is   *)
(* inductive: ConnectionsJoinPorts needs PortsGloballyUnique when a node   *)
(* leaves, because only then do the ports of the nodes that stay survive.  *)
(***************************************************************************)
EXTENDS AudioGraph, TLAPS

IInv == TypeOK /\ PortsGloballyUnique /\ ConnectionsJoinPorts

\* An accepted port list is well typed, new to the graph and free of repeats.
LEMMA AcceptedPorts ==
    ASSUME NEW node \in NodeInputs,
           node.id # EmptyId,
           \A i \in DOMAIN node.ports : PortError(node, i) = "None"
    PROVE  /\ node \in Node
           /\ \A i, j \in DOMAIN node.ports :
                 node.ports[i].id = node.ports[j].id => i = j
           /\ \A n \in nodes : PortIdsOf(n) \cap PortIdsOf(node) = {}
<1>1. node \in NodeInput
  BY InputsAreNodes
<1>2. ASSUME NEW i \in DOMAIN node.ports
      PROVE  node.ports[i] \in Port
  <2>1. node.ports \in Seq(PortInput)
    BY <1>1 DEF NodeInput
  <2>2. node.ports[i] \in PortInput
    BY <1>2, <2>1
  <2>3. PortError(node, i) = "None"
    OBVIOUS
  <2>4. node.ports[i].id # EmptyId /\ node.ports[i].valid
    BY <2>3 DEF PortError
  <2> QED
    BY <2>2, <2>4 DEF PortInput, Port
<1>3. node \in Node
  <2>1. node.id \in NodeIds /\ node.ports \in Seq(Port)
    BY <1>1, <1>2 DEF NodeInput
  <2> QED
    BY <1>1, <2>1 DEF NodeInput, Node
<1>4. \A i, j \in DOMAIN node.ports : node.ports[i].id = node.ports[j].id => i = j
  BY DEF PortError
<1>5. \A i \in DOMAIN node.ports : ~HasPort(node.ports[i].id)
  BY DEF PortError
<1>6. \A n \in nodes : PortIdsOf(n) \cap PortIdsOf(node) = {}
  BY <1>5 DEF HasPort, AllPorts, PortIdsOf, PortsOf
<1> QED
  BY <1>3, <1>4, <1>6

\* A refused call keeps the invariant: it changes result only.
LEMMA RefuseKeeps ==
    ASSUME IInv, NEW e \in GraphError, Refuse(e)
    PROVE  IInv'
BY DEF IInv, Refuse, TypeOK, PortsGloballyUnique, ConnectionsJoinPorts,
       HasDirection, AllPorts

LEMMA AddNodeKeeps ==
    ASSUME IInv, NEW node \in NodeInputs, AddNode(node)
    PROVE  IInv'
<1>1. CASE node.id = EmptyId /\ Refuse("EmptyId")
  BY <1>1, RefuseKeeps DEF GraphError
<1>2. CASE Refuse("DuplicateNode")
  BY <1>2, RefuseKeeps DEF GraphError
<1>3. CASE \E i \in DOMAIN node.ports : Refuse(PortError(node, i))
  BY <1>3, RefuseKeeps DEF PortError, GraphError
<1>4. CASE /\ node.id # EmptyId
           /\ \A i \in DOMAIN node.ports : PortError(node, i) = "None"
           /\ nodes' = nodes \cup {node}
           /\ result' = "None"
           /\ UNCHANGED connections
  <2>1. TypeOK'
    BY <1>4, AcceptedPorts DEF IInv, TypeOK, GraphError
  <2>2. PortsGloballyUnique'
    BY <1>4, AcceptedPorts DEF IInv, PortsGloballyUnique
  <2>3. ConnectionsJoinPorts'
    BY <1>4 DEF IInv, ConnectionsJoinPorts, HasDirection, AllPorts
  <2> QED
    BY <2>1, <2>2, <2>3 DEF IInv
<1> QED
  BY <1>1, <1>2, <1>3, <1>4 DEF AddNode

LEMMA RemoveNodeKeeps ==
    ASSUME IInv, NEW id \in NodeIds, RemoveNode(id)
    PROVE  IInv'
<1>1. CASE Refuse("NodeNotFound")
  BY <1>1, RefuseKeeps DEF GraphError
<1>2. ASSUME NEW n \in nodes,
             connections' = {c \in connections : ~Touches(c, n)},
             nodes' = nodes \ {n},
             result' = "None"
      PROVE  IInv'
  <2>1. TypeOK'
    BY <1>2 DEF IInv, TypeOK, GraphError
  <2>2. PortsGloballyUnique'
    BY <1>2 DEF IInv, PortsGloballyUnique
  <2>3. ASSUME NEW c \in connections', NEW p, NEW d,
               p \in {c.source, c.sink}, HasDirection(p, d)
        PROVE  HasDirection(p, d)'
    \* The port lies in a node; that node is not n, as n owns no port of c.
    <3>1. PICK m \in nodes : \E q \in PortsOf(m) : q.id = p /\ q.direction = d
      BY <2>3 DEF HasDirection, AllPorts
    <3>2. p \in PortIdsOf(m)
      BY <3>1 DEF PortIdsOf
    <3>3. p \notin PortIdsOf(n)
      BY <1>2, <2>3 DEF Touches
    <3>4. m \in nodes'
      BY <1>2, <3>2, <3>3
    <3> QED
      BY <3>1, <3>4 DEF HasDirection, AllPorts, PortsOf
  <2>4. ConnectionsJoinPorts'
    BY <1>2, <2>3 DEF IInv, ConnectionsJoinPorts
  <2> QED
    BY <2>1, <2>2, <2>4 DEF IInv
<1> QED
  BY <1>1, <1>2 DEF RemoveNode

LEMMA ConnectKeeps ==
    ASSUME IInv, NEW c \in ConnectionInput, Connect(c)
    PROVE  IInv'
<1>1. CASE Refuse(ConnectionError(c))
  <2>1. ConnectionError(c) \in GraphError
    BY DEF ConnectionError, GraphError
  <2> QED
    BY <1>1, <2>1, RefuseKeeps
<1>2. CASE /\ ConnectionError(c) = "None"
           /\ connections' = connections \cup {c}
           /\ result' = "None"
           /\ UNCHANGED nodes
  <2>1. /\ c.id # EmptyId
        /\ \A d \in connections : d.id # c.id
        /\ HasDirection(c.source, "Source")
        /\ HasDirection(c.sink, "Sink")
    BY <1>2 DEF ConnectionError
  <2>2. c.source \in PortIds /\ c.sink \in PortIds
    <3>1. \A q \in AllPorts : q.id \in PortIds
      <4> SUFFICES ASSUME NEW n \in nodes, NEW i \in DOMAIN n.ports
                   PROVE  n.ports[i].id \in PortIds
        BY DEF AllPorts, PortsOf
      <4>1. n.ports \in Seq(Port)
        BY DEF IInv, TypeOK, Node
      <4>2. n.ports[i] \in Port
        BY <4>1
      <4> QED
        BY <4>2 DEF Port
    <3> QED
      BY <2>1, <3>1 DEF HasDirection
  <2>3. c \in Connection
    BY <2>1, <2>2 DEF ConnectionInput, Connection
  <2>4. TypeOK'
    BY <1>2, <2>3 DEF IInv, TypeOK, GraphError
  <2>5. PortsGloballyUnique'
    BY <1>2 DEF IInv, PortsGloballyUnique
  <2>6. ConnectionsJoinPorts'
    BY <1>2, <2>1 DEF IInv, ConnectionsJoinPorts, HasDirection, AllPorts
  <2> QED
    BY <2>4, <2>5, <2>6 DEF IInv
<1> QED
  BY <1>1, <1>2 DEF Connect

LEMMA DisconnectKeeps ==
    ASSUME IInv, NEW id \in ConnectionIds, Disconnect(id)
    PROVE  IInv'
<1>1. CASE Refuse("ConnectionNotFound")
  BY <1>1, RefuseKeeps DEF GraphError
<1>2. CASE \E c \in connections : /\ connections' = connections \ {c}
                                  /\ result' = "None"
                                  /\ UNCHANGED nodes
  BY <1>2 DEF IInv, TypeOK, GraphError, PortsGloballyUnique,
              ConnectionsJoinPorts, HasDirection, AllPorts
<1> QED
  BY <1>1, <1>2 DEF Disconnect

\* Whatever sequence of calls is made, the graph is well typed, port ids name
\* one port each, and every connection joins a live Source to a live Sink.
THEOREM Invariance == Spec => [](TypeOK /\ PortsGloballyUnique /\ ConnectionsJoinPorts)
<1>1. Init => IInv
  BY DEF Init, IInv, TypeOK, GraphError, PortsGloballyUnique, ConnectionsJoinPorts
<1>2. IInv /\ [Next]_vars => IInv'
  <2> SUFFICES ASSUME IInv, [Next]_vars PROVE IInv'
    OBVIOUS
  <2>1. ASSUME NEW node \in NodeInputs, AddNode(node) PROVE IInv'
    BY <2>1, AddNodeKeeps
  <2>2. ASSUME NEW id \in NodeIds, RemoveNode(id) PROVE IInv'
    BY <2>2, RemoveNodeKeeps
  <2>3. ASSUME NEW c \in ConnectionInput, Connect(c) PROVE IInv'
    BY <2>3, ConnectKeeps
  <2>4. ASSUME NEW id \in ConnectionIds, Disconnect(id) PROVE IInv'
    BY <2>4, DisconnectKeeps
  <2>5. CASE UNCHANGED vars
    BY <2>5 DEF vars, IInv, TypeOK, PortsGloballyUnique, ConnectionsJoinPorts,
                HasDirection, AllPorts
  <2> QED
    BY <2>1, <2>2, <2>3, <2>4, <2>5 DEF Next
<1> QED
  BY <1>1, <1>2, PTL DEF Spec, IInv
\* Refused or accepted, add_node takes no connection away.
LEMMA AddNodeLosesNone ==
    ASSUME NEW node \in NodeInputs, AddNode(node)
    PROVE  connections' = connections
BY DEF AddNode, Refuse

\* What remove_node takes away touched the node that leaves.
LEMMA RemoveNodeLoses ==
    ASSUME NEW id \in NodeIds, RemoveNode(id), NEW c \in connections \ connections'
    PROVE  \E n \in nodes \ nodes' : {c.source, c.sink} \cap PortIdsOf(n) # {}
<1>1. PICK n \in nodes : /\ connections' = {d \in connections : ~Touches(d, n)}
                         /\ nodes' = nodes \ {n}
  BY DEF RemoveNode, Refuse
<1>2. Touches(c, n)
  BY <1>1
<1>3. n \in nodes \ nodes'
  BY <1>1
<1> QED
  BY <1>2, <1>3 DEF Touches

\* Disconnecting takes away the one connection that has the id.
LEMMA DisconnectLoses ==
    ASSUME NEW id \in ConnectionIds, Disconnect(id), NEW c \in connections \ connections'
    PROVE  connections' = connections \ {c} /\ nodes' = nodes
BY DEF Disconnect, Refuse

\* A connection is never lost but to a call that was about it or about a node
\* it was plugged into, for every graph and every call (the erase calls of
\* audio_graph.cpp).
THEOREM LossesAreExplained == Spec => LossIsExplained
<1> DEFINE Explained ==
        \A c \in connections \ connections' :
            \/ connections' = connections \ {c} /\ nodes' = nodes
            \/ \E n \in nodes \ nodes' : {c.source, c.sink} \cap PortIdsOf(n) # {}
<1>1. [Next]_vars => [Explained]_vars
  <2> SUFFICES ASSUME [Next]_vars, NEW c \in connections \ connections'
               PROVE  \/ connections' = connections \ {c} /\ nodes' = nodes
                      \/ \E n \in nodes \ nodes' :
                            {c.source, c.sink} \cap PortIdsOf(n) # {}
    OBVIOUS
  <2>1. ASSUME NEW node \in NodeInputs, AddNode(node) PROVE FALSE
    BY <2>1, AddNodeLosesNone
  <2>2. ASSUME NEW d \in ConnectionInput, Connect(d) PROVE FALSE
    BY <2>2 DEF Connect, Refuse
  <2>3. ASSUME UNCHANGED vars PROVE FALSE
    BY <2>3 DEF vars
  <2> QED
    BY <2>1, <2>2, <2>3, RemoveNodeLoses, DisconnectLoses DEF Next
<1> QED
  BY <1>1, PTL DEF Spec, LossIsExplained
==============================================================================
