------------------------------ MODULE MCStores ------------------------------
(***************************************************************************)
(* Instances of AudioGraph, NodeState, DiagnosticLog, DeviceList and       *)
(* PairedRoutes for TLC: what a process keeps in memory, in a file or on a *)
(* page, and the routes two computers ask of each other.  They do not      *)
(* interact, so one run checks them side by side: part says which of them  *)
(* a behaviour is about, and the others stand still.                       *)
(*                                                                         *)
(* AudioGraph has two nodes and three ports: enough for two nodes to fight *)
(* over a port, for one node to list a port twice or with a bad format,    *)
(* and for a node to come back with its ports turned round.                *)
(***************************************************************************)
EXTENDS AudioGraph

CONSTANTS a, b, p1, p2, p3

In(p)  == [id |-> p, direction |-> "Source", valid |-> TRUE]
Out(p) == [id |-> p, direction |-> "Sink", valid |-> TRUE]

MCNodeInputs ==
    { [id |-> a, ports |-> <<In(p1), Out(p2)>>],
      [id |-> a, ports |-> <<Out(p1), In(p2)>>],
      [id |-> a, ports |-> <<In(p1), In(p1)>>],
      [id |-> b, ports |-> <<In(p3)>>],
      [id |-> b, ports |-> <<Out(p2), Out(p3)>>],
      [id |-> b, ports |-> <<Out(p3), [In(p2) EXCEPT !.valid = FALSE]>>],
      [id |-> b, ports |-> <<Out(EmptyId)>>],
      [id |-> EmptyId, ports |-> <<>>] }

------------------------------------------------------------------------------
CONSTANTS Names, Ids, MaxChanges, MaxStarts

VARIABLES part, memory, file, up, intended, changes, starts

stateVars == <<memory, file, up, intended, changes, starts>>

S == INSTANCE NodeState

------------------------------------------------------------------------------
CONSTANTS MaximumEntries, MaxEntries, MaxRequests, MaxRestarts

VARIABLES log_entries, next_sequence, cursor, requests, answers, shown, restarts, fresh

logVars == <<log_entries, next_sequence, cursor, requests, answers, shown, restarts, fresh>>

G == INSTANCE DiagnosticLog

------------------------------------------------------------------------------
CONSTANTS Hardware, Nothing, MaxMoves, MaxLinks, MaxSinks

Device(factory, device, name, monitor_of, default) ==
    [id |-> [factory |-> factory, device |-> device], name |-> name,
     monitor_of |-> monitor_of, default |-> default]

\* A Windows speaker (under both classes) and microphone, a PulseAudio output with
\* its monitor, a PipeWire output whose monitor has a name of its own, an ALSA card,
\* a microphone and an output without a selector, a default pair.
MCHardware ==
    {[capture |-> Device("wasapi2src", "g1", "Speakers", "", FALSE),
      playback |-> Device("wasapi2sink", "g1", "Speakers", "", FALSE), mirror |-> TRUE],
     [capture |-> Device("wasapi2src", "g2", "Microphone", "", FALSE),
      playback |-> Nothing, mirror |-> FALSE],
     [capture |-> Device("pulsesrc", "out.monitor", "Monitor of Out", "Out", FALSE),
      playback |-> Device("pulsesink", "out", "Out", "", FALSE), mirror |-> TRUE],
     [capture |-> Device("pipewiresrc", "41", "Monitor", "", FALSE),
      playback |-> Device("pipewiresink", "40", "Headset", "", FALSE), mirror |-> TRUE],
     [capture |-> Device("alsasrc", "hw:0", "Card", "", FALSE),
      playback |-> Device("alsasink", "hw:0", "Card", "", FALSE), mirror |-> FALSE],
     [capture |-> Device("osxaudiosrc", "", "Built-in", "", FALSE),
      playback |-> Device("osxaudiosink", "", "Built-in", "", FALSE), mirror |-> FALSE],
     [capture |-> Device("wasapi2src", "default", "Default Audio Capture", "", TRUE),
      playback |-> Device("wasapi2sink", "default", "Default Audio Render", "", TRUE),
      mirror |-> FALSE]}

VARIABLES plugged, moves, moved, step, captures, sinks, page, matrix

deviceVars == <<plugged, moves, moved, step, captures, sinks, page, matrix>>

D == INSTANCE DeviceList

ASSUME HardwareIsKnown == D!HardwareAssumption

------------------------------------------------------------------------------
CONSTANTS Nodes, NoCall, PortRange, Failures, MaxSources, MaxId, MaxPosts

VARIABLES next, legs, call, posts, granted

pairedVars == <<next, legs, call, posts, granted>>

R == INSTANCE PairedRoutes

ASSUME StoresAssumption == R!PairedAssumption /\ S!StateAssumption

------------------------------------------------------------------------------
MCInit ==
    /\ Init /\ S!Init /\ G!Init /\ D!Init /\ R!Init
    /\ part \in {"graph", "state", "log", "devices", "paired"}
    /\ part # "state" => memory = S!Fresh(CHOOSE id \in Ids : TRUE)
    /\ part # "devices" => plugged = {}

\* A step of one part.
Graph(do) == part = "graph" /\ do /\ UNCHANGED <<part, stateVars, logVars, deviceVars, pairedVars>>
State(do) == part = "state" /\ do /\ UNCHANGED <<part, vars, logVars, deviceVars, pairedVars>>
Log(do) == part = "log" /\ do /\ UNCHANGED <<part, vars, stateVars, deviceVars, pairedVars>>
Devices(do) == part = "devices" /\ do /\ UNCHANGED <<part, vars, stateVars, logVars, pairedVars>>
Paired(do) == part = "paired" /\ do /\ UNCHANGED <<part, vars, stateVars, logVars, deviceVars>>

\* Links are selected on a page of few sinks only: a matrix of two shows how sources
\* and sinks are numbered, whatever there is beside them.
FewSinks == Cardinality(page.sinks) <= MaxSinks

\* The disjuncts of each part's Next.
MCNext ==
    \/ \E node \in NodeInputs : Graph(AddNode(node))
    \/ \E id \in NodeIds : Graph(RemoveNode(id))
    \/ \E c \in ConnectionInput : Graph(Connect(c))
    \/ \E id \in ConnectionIds : Graph(Disconnect(id))
    \/ \E id \in Ids : State(S!Start(id)) \/ (\E name \in Names : State(S!AddPeer(id, name)))
    \/ \E name \in Names : State(S!SetAlias(name))
    \/ \E name \in Names \ {""} : State(S!SetTelemetry(name))
    \/ \E list \in S!BoundedSeq(Names, 2) : State(S!SetExposed(list))
    \/ \E on \in BOOLEAN : State(S!SetDiscovery(on))
    \/ \E i \in DOMAIN memory.peers : State(S!RemovePeer(i))
    \/ State(S!Kill)
    \/ Log(G!Write)
    \/ Log(G!Ask)
    \/ Log(G!Lose)
    \/ Log(G!Restart)
    \/ Log(G!Reload)
    \/ \E after \in requests : Log(G!Serve(after))
    \/ \E entries \in answers : Log(G!Show(entries))
    \/ \E h \in Hardware : Devices(D!Move(h))
    \/ Devices(D!ListCaptures)
    \/ Devices(D!ListPlaybacks)
    \/ Devices(D!DevicesJson)
    \/ \E link \in D!Offered : FewSinks /\ Devices(D!AddLink(link))
    \/ \E n \in Nodes, m \in Nodes, kind \in R!Directions : Paired(R!PairedRoute(n, kind, m))
    \/ \E n \in Nodes, with \in R!BoundedSeq(Nodes, MaxSources) : Paired(R!PairedMixer(n, with))
    \/ \E n \in Nodes : \/ Paired(R!AskNext(n))
                        \/ Paired(R!Finish(n))
                        \/ Paired(R!GiveUp(n))
                        \/ Paired(R!Disconnect(n))
    \/ \E post \in R!BagToSet(posts) : Paired(R!HandleRoute(post)) \/ Paired(R!Lose(post))

\* The fairness of PairedRoutes: elsewhere nothing is asked, and no fair action is
\* enabled.
MCSpec ==
    MCInit /\ [][MCNext]_<<part, vars, stateVars, logVars, deviceVars, pairedVars>> /\ R!Fairness

\* A node started again knows what it knew (NodeState, pairing_service.cpp:254-279).
RestartRestores == S!RestartRestores
\* A torn file yields no wrong peer (NodeState, pairing_service.cpp:277).
PeersAreWhole == S!PeersAreWhole
\* The page misses no entry the log still holds (DiagnosticLog, main.ts:84-90).
NothingSkipped == G!NothingSkipped
\* Each endpoint is presented exactly once (DeviceList, audio_backend.cpp:92-94).
EachEndpointOnce == D!EachEndpointOnce
\* What a device plays is not offered back to it (DeviceList, main.ts:370).
NoFeedback == D!NoFeedback
\* A monitor is never offered its own sink (DeviceList, linux-porting-guide.md:231).
MonitorsNeverFeedBack == D!MonitorsNeverFeedBack
\* The matrix plays exactly the links selected (DeviceList, web_server.cpp:616-629).
MatrixKeepsLinks == D!MatrixKeepsLinks
\* Devices without a selector are listed (DeviceList, device_enumerator.cpp:83-85).
WithoutSelectorListed == D!WithoutSelectorListed
\* The sources of a mixer keep apart (PairedRoutes, web_server.cpp:539-557).
MixerPortsDiffer == R!MixerPortsDiffer
\* A leg starts on what was granted (PairedRoutes, web_server.cpp:566-583).
LegsAreGranted == R!LegsAreGranted
\* Every paired request returns (PairedRoutes, pairing_service.cpp:434).
CallsReturn == R!CallsReturn
=============================================================================
