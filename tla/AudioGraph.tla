----------------------------- MODULE AudioGraph -----------------------------
(***************************************************************************)
(* The desired-state graph of src/src/core/audio_graph.cpp: nodes group    *)
(* ports, connections join a Source port to a Sink port.  Each public      *)
(* member function is one action whose outcome is the GraphError it        *)
(* returns; the order of the guards is the order of the early returns.     *)
(*                                                                         *)
(* nodes_ and connections_ are vectors in the code.  Their order is only   *)
(* the order of display, and no element is pushed whose id is already      *)
(* there, so they are sets of records here.  The port list of a node stays *)
(* a sequence because add_node must notice a port listed twice.            *)
(***************************************************************************)
EXTENDS Integers, Sequences, FiniteSets

CONSTANTS
    NodeIds,          \* identifiers a caller may use for nodes
    PortIds,          \* ... for ports
    ConnectionIds,    \* ... for connections
    EmptyId,          \* the empty string, an illegal identifier of any kind
    NodeInputs        \* the AudioNode values a caller passes to add_node

Directions == {"Source", "Sink"}

\* What a caller passes: any identifier may be the empty string, a format may be
\* invalid (AudioFormat::is_valid) and a port may be listed twice.
PortInput == [id: PortIds \cup {EmptyId}, direction: Directions, valid: BOOLEAN]
NodeInput == [id: NodeIds \cup {EmptyId}, ports: Seq(PortInput)]
ConnectionInput == [id: ConnectionIds \cup {EmptyId},
                    source: PortIds \cup {EmptyId}, sink: PortIds \cup {EmptyId}]

\* What the graph may hold.
Port == [id: PortIds, direction: Directions, valid: {TRUE}]
Node == [id: NodeIds, ports: Seq(Port)]
Connection == [id: ConnectionIds, source: PortIds, sink: PortIds]

GraphError == {"None", "EmptyId", "DuplicateNode", "DuplicatePort",
               "DuplicateConnection", "NodeNotFound", "ConnectionNotFound",
               "SourceNotFound", "SinkNotFound", "InvalidSourceDirection",
               "InvalidSinkDirection", "InvalidFormat", "SelfConnection"}

ASSUME InputsAreNodes ==
    /\ NodeInputs \subseteq NodeInput
    /\ EmptyId \notin NodeIds \cup PortIds \cup ConnectionIds

VARIABLES
    nodes,            \* nodes_
    connections,      \* connections_
    result            \* GraphResult::error of the last call

vars == <<nodes, connections, result>>

PortsOf(node) == {node.ports[i] : i \in DOMAIN node.ports}
PortIdsOf(node) == {p.id : p \in PortsOf(node)}
AllPorts == UNION {PortsOf(n) : n \in nodes}

\* find_port succeeds, and the port it returns has the given direction.
HasPort(p) == \E q \in AllPorts : q.id = p
HasDirection(p, d) == \E q \in AllPorts : q.id = p /\ q.direction = d

\* Mutant of PortError: ports are compared with the graph, not with each other.
PortErrorGlobalOnly(node, i) ==
    LET p == node.ports[i] IN
    IF p.id = EmptyId THEN "EmptyId"
    ELSE IF ~p.valid THEN "InvalidFormat"
    ELSE IF HasPort(p.id) THEN "DuplicatePort" ELSE "None"

\* Mutant of PortError: the format is not looked at.
PortErrorAnyFormat(node, i) ==
    LET p == node.ports[i] IN
    IF p.id = EmptyId THEN "EmptyId"
    ELSE IF HasPort(p.id) \/ \E j \in DOMAIN node.ports \ {i} : node.ports[j].id = p.id
         THEN "DuplicatePort"
         ELSE "None"

\* The first of the three complaints add_node's loop has about port i.
PortError(node, i) ==
    LET p == node.ports[i] IN
    IF p.id = EmptyId THEN "EmptyId"
    ELSE IF ~p.valid THEN "InvalidFormat"
    ELSE IF HasPort(p.id) \/ \E j \in DOMAIN node.ports \ {i} : node.ports[j].id = p.id
         THEN "DuplicatePort"
         ELSE "None"

\* The first complaint connect has about a connection.
ConnectionError(c) ==
    IF c.id = EmptyId THEN "EmptyId"
    ELSE IF c.source = c.sink THEN "SelfConnection"
    ELSE IF \E d \in connections : d.id = c.id THEN "DuplicateConnection"
    ELSE IF ~HasPort(c.source) THEN "SourceNotFound"
    ELSE IF ~HasDirection(c.source, "Source") THEN "InvalidSourceDirection"
    ELSE IF ~HasPort(c.sink) THEN "SinkNotFound"
    ELSE IF ~HasDirection(c.sink, "Sink") THEN "InvalidSinkDirection"
    ELSE "None"

\* Mutant of Touches: only the sending end of a connection is looked at.
TouchesBySource(c, node) == c.source \in PortIdsOf(node)

\* Mutant of Touches: everything goes when any node goes.
TouchesAlways(c, node) == c.id \in ConnectionIds

\* The connections remove_node erases: those that touch a port of the node.
Touches(c, node) == c.source \in PortIdsOf(node) \/ c.sink \in PortIdsOf(node)

------------------------------------------------------------------------------
Init ==
    /\ nodes = {}
    /\ connections = {}
    /\ result = "None"

\* An early return: the caller gets the error and the graph is left alone.
Refuse(error) ==
    /\ result' = error
    /\ UNCHANGED <<nodes, connections>>

AddNode(node) ==
    \/ /\ node.id = EmptyId
       /\ Refuse("EmptyId")
    \/ /\ node.id # EmptyId
       /\ \E n \in nodes : n.id = node.id
       /\ Refuse("DuplicateNode")
    \/ /\ node.id # EmptyId
       /\ \A n \in nodes : n.id # node.id
       /\ \/ \E i \in DOMAIN node.ports :
              /\ PortError(node, i) # "None"
              /\ \A j \in 1..(i - 1) : PortError(node, j) = "None"
              /\ Refuse(PortError(node, i))
          \/ /\ \A i \in DOMAIN node.ports : PortError(node, i) = "None"
             /\ nodes' = nodes \cup {node}
             /\ result' = "None"
             /\ UNCHANGED connections

RemoveNode(id) ==
    \/ /\ \A n \in nodes : n.id # id
       /\ Refuse("NodeNotFound")
    \/ \E n \in nodes :
       /\ n.id = id
       /\ connections' = {c \in connections : ~Touches(c, n)}
       /\ nodes' = nodes \ {n}
       /\ result' = "None"

Connect(c) ==
    \/ /\ ConnectionError(c) # "None"
       /\ Refuse(ConnectionError(c))
    \/ /\ ConnectionError(c) = "None"
       /\ connections' = connections \cup {c}
       /\ result' = "None"
       /\ UNCHANGED nodes

Disconnect(id) ==
    \/ /\ \A c \in connections : c.id # id
       /\ Refuse("ConnectionNotFound")
    \/ \E c \in connections :
       /\ c.id = id
       /\ connections' = connections \ {c}
       /\ result' = "None"
       /\ UNCHANGED nodes

Next ==
    \/ \E node \in NodeInputs : AddNode(node)
    \/ \E id \in NodeIds : RemoveNode(id)
    \/ \E c \in ConnectionInput : Connect(c)
    \/ \E id \in ConnectionIds : Disconnect(id)

Spec == Init /\ [][Next]_vars

------------------------------------------------------------------------------
\* Every variable has the type of the C++ member it stands for.
TypeOK ==
    /\ nodes \subseteq Node
    /\ connections \subseteq Connection
    /\ result \in GraphError

\* A port id names one port in the whole graph: no two nodes share one and no
\* node lists one twice, whatever add/remove history led here (the message of
\* audio_graph.cpp:23 promises it).  connect and remove_node identify ports by
\* id alone, so they are wrong as soon as this fails.
PortsGloballyUnique ==
    /\ \A n \in nodes : \A i, j \in DOMAIN n.ports :
          n.ports[i].id = n.ports[j].id => i = j
    /\ \A m, n \in nodes : m # n => PortIdsOf(m) \cap PortIdsOf(n) = {}

\* Each connection runs from an existing Source port to an existing Sink port
\* and its id names it alone; in particular removing a node leaves no
\* connection that dangles, and re-adding a node with its ports turned round
\* finds none that became misdirected.
ConnectionsJoinPorts ==
    \A c \in connections :
        /\ HasDirection(c.source, "Source")
        /\ HasDirection(c.sink, "Sink")
        /\ \A d \in connections : d.id = c.id => d = c

\* A connection disappears only because it was disconnected (nothing else
\* changes then) or because the node that owned one of its ports left.
LossIsExplained ==
    [][\A c \in connections \ connections' :
          \/ connections' = connections \ {c} /\ nodes' = nodes
          \/ \E n \in nodes \ nodes' : {c.source, c.sink} \cap PortIdsOf(n) # {}]_vars

==============================================================================
