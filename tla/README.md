# OAMR: specifications, model checks and proofs

Open Audio Matrix Router (OAMR) routes audio between devices of one computer
and, over RTP/Opus, between paired computers and Android phones. This directory
holds TLA+ specifications of its control logic, translated from the source
under `src/`, the TLC configurations that check them, and proofs for TLAPS.

Check one configuration with `tlc -config MCRouteTable.cfg MCRouteTable`, one
proof module with `tlapm RouteTable_proofs.tla`. `PROJECT.json` lists the runs,
the lines each definition models, the hazards, the findings and the theorems.
Paths below are relative to the repository's root; the desktop's C++ is in its
own `src/` directory.

## 1. The system

| Component | Source | State | Operations | Module |
|---|---|---|---|---|
| Audio graph | `src/core/audio_graph.cpp` | nodes with ports, connections | add_node, remove_node, connect, disconnect | AudioGraph |
| Route table | `src/web/web_server.cpp` (`WebServer::Impl`) | routes, next_route_id, last_telemetry_sync | requests of the web UI, the poll of the serving loop, `start_remote_command` | RouteTable, RouteBoard |
| Routes between computers | same file, and `request_remote_route`, `/route` of the pairing service | the request a web thread waits in, the legs at both ends | paired route, paired mixer, remote command | PairedRoutes |
| Pairing service | `src/pairing/pairing_service.cpp` | node id, alias, one-time code, peers, catalog, telemetry | local calls, and /pair /unpair /update /route from peers | Pairing |
| State file | same file (`save_unlocked`, `load`) | rows of `oamr-pairing-state.txt` | save, load, being killed in between | NodeState |
| LAN discovery | same file | discovery socket and thread, discovered peers | enable, disable, announce, receive, expire | Discovery |
| GStreamer backend | `src/gstreamer/rtp_opus_pipeline.cpp`, `audio_backend.cpp` | a pipeline, its bus and its open devices per route | start, poll, stop, set gain, telemetry | RtpPipeline, AudioRoute |
| Audio types | `include/oamr/audio/audio_types.hpp` | none (pure functions) | resolve_network_profile, adapt_quality, selector_device_id | NetworkProfile |
| Device enumeration | `src/gstreamer/device_enumerator.cpp`, `list_sources` | none | list captures, list playbacks | DeviceList |
| Diagnostic log | `src/core/diagnostic_log.cpp` | the last 500 entries, next sequence | write, entries_after | DiagnosticLog |
| Serving loop | `src/web/web_server.cpp` (`serve`) | one connection at a time | accept, read, handle, answer, poll | in part: Discovery (start, end), RouteTable (poll) |
| Web UI | `web/src/main.ts` | the matrix choice, lists, log cursor | refresh, apply, edit | in part: DeviceList, DiagnosticLog |
| Android audio engine | `Android/app/src/main/cpp/oamr_audio.cpp` | streams, receiver thread and socket, sample queue, RTP counters | start sender, start receiver, stop, callbacks | AndroidAudio |
| Android peer service, application | `Android/app/src/main/java` | pairing server, foreground service | pair, route, start, stop | no |
| Command line | `apps/oamr/main.cpp` | one route | devices, web, loopback, fanout, send, receive | in part: RtpPipeline (`run_route`), NetworkProfile (options) |
| Build, scripts, theme | `CMakeLists.txt`, `cmake`, `scripts` | none | none | no |

How they interact. The browser (or the Android controller) sends one HTTP
request per connection to the serving loop. That loop is one thread: it accepts
a client, runs its request to the end in `handle`, answers, and then polls the
routes. A request may start or stop GStreamer pipelines, whose own threads
report errors on a bus that only the poll reads. It may call the pairing
service, and some of those calls (`pair_remote`, `request_remote_route`) block
the loop until another computer answers. The pairing service has a worker
thread of its own; it answers the requests of other computers under a mutex,
except for /route, which it forwards without a lock to the route table of the
web server. `announce` and `remove_peer` start a detached thread per request.
While an enabled route has telemetry, the serving loop pushes it to all peers
every two seconds.

What is hard, and what makes each part correct:

- *Audio graph.* Port ids are global but listed by nodes; connections refer to
  ports of nodes that come and go. Correct: ids stay unique, a connection joins
  a Source to a Sink that exist, and none is lost but by disconnect or with its
  node.
- *Route table.* A route keeps the same fact up to four times (the settings a
  resume rebuilds it from, the profile and gains that are shown, the pipeline
  that plays), pipelines fail on their own, and an edit of the profile destroys
  the old pipeline before the new one starts. Correct: what is shown is what is
  heard, a route is enabled exactly while it owns a pipeline, ids are never
  reused, failures are noticed, telemetry describes the present.
- *Pairing.* Requests are lost, delayed and overtaken, processes restart,
  addresses change, codes expire. Correct: one code admits one node, an entry
  exists only after a pairing, the last catalog arrives.
- *Routes between computers.* A leg at each end, a blocking request in between,
  a counter (next_route_id) that both threads of a node use, two computers that
  ask each other at once. Correct: no local leg without its counterparts, ports
  that do not collide, no mutual waiting.
- *State file.* It is truncated and written again at every change, and a process
  may be killed at any byte. Correct: a restart restores all that was saved, and
  what is left of a torn file contains no wrong peer.
- *Starting a pipeline.* Parse, bind the devices, change the state, wait, look
  at the bus: any step may fail, and errors may arrive at any moment after.
  Correct: the consumer has a running route, or a reason and nothing open;
  every element gets its own device; a failure is told once and ends with the
  device given back.
- *Latency.* Frame, jitter buffer and reserve are derived by cases and clamps.
  Correct: their sum stays within what the user chose.
- *Devices and the local matrix.* Three enumerations answer one request while
  devices come and go; platforms name endpoints differently; page and server
  compare different fields. Correct: each endpoint once, no loop from a playback
  to itself, and the matrix plays the links that were selected.
- *Serving loop.* One thread for all: every blocking call delays every poll.
- *Discovery.* A thread that uses a socket which another thread closes, and
  takes a mutex the closer also takes. Correct: switch, socket, thread and file
  agree, switching off ends, neighbours are found and not forgotten.
- *Diagnostic log.* A bounded log, read by a cursor and overlapping requests.
  Correct: nothing the log still holds is skipped.
- *Android audio engine.* Callbacks, a receiver thread and native calls meet in
  one state. Correct: the answer tells what runs, calls return, the queue holds
  the newest samples, RTP packets tile what was captured.
- *Android peer service.* A thread pool in which a code is checked and then
  cleared.

## 2. Plan

The order is by weight: what users rely on in every session first.

1. *AudioGraph* with proofs: done.
2. *RouteTable*, the abstract *RouteBoard* it implements, with proofs: done.
   RouteBoard is the promise of the page: a board of rows, the sound that
   goes with them, and requests that change both together.
3. *Pairing* with proofs: done.
4. *PairedRoutes* with proofs: done.
5. *NetworkProfile*, *RtpPipeline* and the abstract *AudioRoute* it implements;
   *DeviceList*; *Discovery*; *NodeState*; *DiagnosticLog*; *AndroidAudio*: done,
   with proofs of every invariant and of the refinement.
6. Left: *AndroidPeer* (pair and route on a thread pool, composed with a desktop
   of Pairing), the gain slider's unordered requests, and theorems about them.
   Liveness stays with TLC (section 6).

Each run asks one question of one module, or of a group of modules with small
state spaces that stand side by side (MCStores, MCThreads).

## 3. Modules and the code

One action is one request handler, poll or worker step, with all it changes. A
request that is refused changes only the error text, so it is a stuttering step
and has no disjunct. Every definition has its lines in `PROJECT.json`, "map".

**AudioGraph** keeps nodes and connections as the class does (`nodes`,
`connections`) and the error the last call returned. AddNode, RemoveNode,
Connect and Disconnect are the member functions, with every error in the order
of the checks; callers may pass any node of NodeInputs, also illegal ones.

**RouteTable** keeps `routes` (a sequence of records that are ActiveRoute, with
the pipeline as the field `route`), `next_route_id`, the telemetry and whether
its two seconds are over. A pipeline is an abstract record: its state, what
it plays on each leg, and its gains. `start_route` may fail at any time;
PipelineFails puts an error on the bus, and Poll takes it. Hosts, ports and
device names are left out.

**RouteBoard** is abstract: `board` is what `/api/routes` shows, `sound` what
is played. It says what a request may do to both, with no copies and no
pipelines.

**Pairing** has several nodes, each with the state of PairingService (saved at once;
what a kill in the middle leaves is NodeState's), the call its web thread waits in,
and a bag of requests under way. A request carries `at` and `hosts`, the address its
sender had and the computers that address reached when its connection was made: the
worker stores the address of the connection it accepted, so one that is handled
after its sender has moved brings the old address. Late makes the connection only
after a move. PairRemote, HandlePair, PairSucceeds and PairFails are the parts of
one pairing; SaveProfile, StartStream, EndStream, StopAll and Sync are what
announces; HandleUpdate and HandleUnpair are the worker. Events (a constant) says
what else happens: lost requests, restarts, moves (at most MaxMoves; Homes are the
addresses at first), expiry, edits. `accepted` and the field `by` are history
variables, used by properties only.

**PairedRoutes** has the web thread and the pairing worker of each computer.
PairedRoute and PairedMixer send the first request; AskNext, Finish, GiveUp
and Disconnect are what the web thread does when the answer is there, or is
not; HandleRoute is the worker. A request carries `open`: whether its sender
still waits, for the worker of the other computer will start the leg all the
same. An answer that is lost is a Disconnect followed by HandleRoute: nobody
sees the difference. `granted` is a history variable, and so is the field `drawn`:
the numbers a mixer's ports were computed from.

**NetworkProfile** has the functions of `audio_types.hpp` as operators; times
are milliseconds in integers, as in the code.

**RtpPipeline** is one `GStreamerRoute`: `phase` is how far `start_route` is or who
holds the route, `pipeline`, `bus`, `error` and `network_profile` are `Impl`'s
members, `opened` the devices GStreamer holds for it. Create checks the settings of
any of the six kinds; ParseFails, Parse, Play, Wait, Started and Refuse are the
steps of a start; Poll, SetGain, Stop, StopFailed and Destroy are the owner's calls;
Post and Packet are GStreamer's threads. Element names are kept as a word and an
index, because descriptions, bindings and telemetry each build them anew. A selector
stands for the element it was listed for: `values` is what that element had in each
string property its factory has, none for a factory whose device is a number.
ParsedDevice is the first of them that is not empty, as selector_for finds it; Opens
is set_device_if_supported, which writes that text into the first string property,
be it the same one or not. A second poll after a failure returns true again if no
more messages wait, but every owner stops the route at once (StopFailed).

**AudioRoute** is abstract: what a consumer of `audio_backend.hpp` may rely on.
RtpPipeline implements it, with `route` mapped to what the consumer holds.

Loops of the code whose result a theorem is about are recursive functions of the
number of turns made, each with the code's loop body as its step: Load
(NodeState), Push and Loop (AndroidAudio), Collected (RtpPipeline's telemetry).

**DeviceList** is one GET /api/devices and the matrix made of it. ListCaptures,
ListPlaybacks and DevicesJson are the three enumerations, Move plugs and unplugs
in between. A piece of hardware is what GStreamer reports of it under each class
and whether its capture records what its playback plays (`mirror`); ids and names
may be any, so that an ALSA card has one device for both and a monitor any name.
Offered is what `matrixChoice` lets the user select; AddLink is one
line of POST /api/matrix. What may be plugged in is a constant, Hardware, and
HardwareAssumption says what the module takes for granted of it (section 6).

**Discovery** is one desktop node and one neighbour. `web` is where the web
thread is in start, serve, set_discovery_enabled or stop; `thread` where
discovery_loop is. Time passes in Ticks of 200 ms, the timeout of select. After
Close the thread calls FD_SET with -1, which is undefined: Idle or Abort. A
failed restore of discovery at start changes memory only, so that the next save
for any other reason forgets the choice (`pairing_service.cpp:436-438`).

**NodeState** has the memory and the file of one node. Save writes all rows, or
is killed and leaves any beginning of them, also in the middle of a field; Start
loads what is there. Names may be empty: Fields drops an empty last field, as
getline does, and LoadRow then skips the row. `intended` is a history variable.

**DiagnosticLog** has the log and the page's cursor; an answer is the set of the
entries' numbers, and answers arrive in any order because the timer asks without
waiting.

**AndroidAudio** has `NetworkState`, the sample queue as the ring it is, and the
sender callback with its counters. Call, Close, Join and the Open and Bind steps are
the native methods, Check to PushFrames the receiver thread, MicrophoneReady and
SpeakerReady the callbacks. `opening` is the stream start_receiver has started and
not yet handed to the engine; when the port cannot be bound it is dropped as it is,
and `stray` says that it plays on, taking samples from the queue. Reuse gives the
closed descriptor to another thread of the app. StartInput runs without the mutex.

**MC...** modules hold the values and symmetry sets of the configurations.

## 4. Runs

| Run | Configuration | Checks | States |
|---|---|---|---|
| stores | MCStores | AudioGraph: TypeOK, PortsGloballyUnique, ConnectionsJoinPorts, LossIsExplained; NodeState: RestartRestores, PeersAreWhole; DiagnosticLog: NothingSkipped; DeviceList: EachEndpointOnce, NoFeedback, MatrixKeepsLinks; PairedRoutes: MixerPortsDiffer, LegsAreGranted, CallsReturn | 646 565 |
| devices_lost | MCDevicesLost | DeviceList: WithoutSelectorListed: violated | |
| devices_feedback | MCDevicesFeedback | DeviceList: MonitorsNeverFeedBack: violated | |
| threads | MCThreads | RtpPipeline: RefusalClean, DevicesBound, TelemetryCountsEveryLeg, LatencyBudget, Implements (refinement of AudioRoute), DeviceReleased; Discovery: SwitchIsTrue, StaysListed, StopReturns, NeighbourFound; AndroidAudio: AnswerTells, NewestKept, PacketsTile, MethodReturns | 127 721 |
| routes | MCRouteTable | TypeOK, OrderedIds, EnabledMeansLive, CopiesAgree, Implements (refinement of RouteBoard), FailureNoticed, TelemetryFollows | 40 434 |
| routes_idle | MCRouteTableIdle | IdleIsReported: violated | |
| routes_nan | MCRouteTableNaN | GainsInRange: violated | |
| pairing | MCPairing | TypeOK, OneUse, Authorised, NoReturnWithoutPairing | 576 687 (with symmetry) |
| pairing_live | MCPairingLive | ProfileArrives | 78 232 |
| pairing_moves | MCPairingMoves | ProfileArrives | 132 903 |
| pairing_sync | MCPairingSync | SavedMeansSynchronized: violated | |
| paired_ports | MCPairedPorts | ReceiversApart: violated | |

MCStores and MCThreads each hold several modules that do not interact. Their
variable `part` is chosen at the start and says which module a behaviour is
about; the others stand still in it. The states are the sum of the modules', not
the product, and each module is checked as it would be alone. MCNext lists the
disjuncts of every module's Next, so that TLC's coverage shows each of them
taken. The fairness of a module says nothing of the behaviours about another
one, because none of its fair actions is enabled where it stands still.

What they show.

- *stores*: a graph abused by its callers stays sound. A node killed at any point,
  also while it saves, and started again knows what it knew, but for an empty alias
  and endpoints without a name, and no peer it knows is half of one; what it may
  lose is the end of its last save. The page takes over every log entry that it will
  not ask for again, though the log drops entries and answers cross. Devices that
  stay plugged in during a listing are offered once each, except that the capture
  side of an ALSA card is taken for its playback and dropped; none is offered back
  to itself if the names or ids show that it is the same, and the matrix plays the
  links selected. Between two computers, the leg a request leaves in the table was
  granted by every computer asked, on the ports it uses, whatever drew route ids in
  between; requests of two computers to each other at one time both return, because
  /route is answered by a thread of its own. *devices_lost*: a capture without a
  selector is dropped as soon as one sink has none either. *devices_feedback*: a
  PipeWire monitor that is not called "Monitor of" its sink gets no link to it and
  is offered that sink.
- *threads*: a start that fails anywhere leaves a reason and nothing else, a
  pipeline tells every element the device its own selector lists, counts every leg
  and stays in its latency, and to its consumer is the AudioRoute the header
  describes. Discovery's switch, socket, thread and file agree between any two
  requests, it can be switched off, and it finds and keeps neighbours over two lost
  announcements in a row. On Android the answer to the last call is true of all that
  a stop can end, the queue and the packets are sound across every wrap, and calls
  return, unless a descriptor is reused in the moment between the thread's test of
  its flag and its recvfrom.
- *routes*: through pauses, failed resumes, failed profile edits and failures at run
  time, the four copies agree, and whatever the page shows as enabled is what is
  heard (Implements). A failure reaches the page, and the telemetry becomes that of
  the first live network route and stays so while it is the first. *routes_idle*: it
  does not become idle again when the last one is paused or deleted, which the
  comment in `pairing_service.hpp:17` promises; peers keep showing a stream that is
  over.
- *routes_nan*: `gain=nan` is accepted and stored.
- *pairing*: no replay, delay, restart or removal lets a code be used twice or
  brings a removed peer back. *pairing_live*, *pairing_moves*: as long as a node
  receives a stream, its repeated announcements repair what was dropped, overtaken
  or sent to an old address, also where a connection made from the old address is
  handled after those from the new one. *pairing_sync*: without a stream nothing
  repairs it, although the page said "saved and synchronized".
- *paired_ports*: the ports of two computers are drawn from unrelated counters
  and meet.

Bounds, and why they are enough.

- AudioGraph: two nodes and three ports let two nodes fight over a port, one
  node list a port twice, and a node come back with its ports reversed; two
  connections share a port or an id.
- NodeState: two ids, two names of which one is empty, three changes and two
  processes: a change after a start from a torn file, with endpoints and peers
  before and behind the tear.
- DiagnosticLog: two entries kept of four written, two requests under way, one
  restart: entries are dropped between a request and its answer.
- DeviceList: one device of each kind the code tells apart (Windows speaker under
  both classes, microphone, PulseAudio output with its monitor, PipeWire output whose
  monitor has another name, ALSA card, no selector, default), two moves between the
  enumerations, three links of a matrix, selected on pages of at most two sinks
  (MaxSinks).
- RtpPipeline: one route after another, every kind, each way settings are
  refused, every latency and mode, two sources or inputs and three sinks; devices
  in the first property, behind an empty one, in the last one, and none; two
  messages and two packets.
- Discovery: one neighbour, two announcements lost in a row at most (MaxLost),
  which is what seven seconds bear.
- AndroidAudio: a queue of three samples, packets of two frames, RTP counters of
  2 and 3 values, bursts of up to five frames: everything wraps several times.
- RouteTable: two routes ever (MaxRoutes), since ids are never reused: both
  orders, a deletion before and behind the other, and every pair of kinds. Two
  profiles and two mixer inputs separate "all legs" from "the first one". Gains
  are asked at both sides of a limit.
- Pairing: two nodes and two codes: an old code against a new one and a pairing
  against its repetition. MaxPosts = 2 has one request overtake another, and a
  pair request race an update. With a third address one node moves once
  (pairing_moves, MaxMoves = 1) while two requests are under way: one connected before
  the move and one after, handled in either order. Edits are one, so that
  there is an old and a new catalog. Nothing in a property relates three nodes;
  the proofs cover any number.
- PairedRoutes: two computers that may both ask, mixers of two sources, two ids
  each (MaxId; a request that cannot end in a leg is not started), two requests
  under way. PortRange is 3 in *stores*, so that ports wrap around and the counter
  moves between the two requests of one mixer; in *paired_ports* it is the code's
  1000, so the collision found there is not one of the wrap.

Fairness, and why the code justifies it.

- RouteTable!FairSpec: WF of Poll and Elapse. `serve` polls after each turn,
  and a turn without a request ends after 200 ms. A turn with one ends when the
  client has sent its request: `recv` has no timeout, so FailureNoticed rests
  on clients that send what they connected for. No request is fair.
- Pairing!FairSpec: SF of Sync (the loop polls for ever; strong, because the
  bound on requests under way can disable it), WF of the requests under way
  ending in some way, SF of delivery between each two nodes: of announcements
  that are repeated for ever some arrive. ProfileArrives also asks that the
  node's web thread is free again and again, since `pair_remote` blocks it.
- RtpPipeline!Fairness: WF of the steps of a start (GStreamer's calls return,
  get_state after five seconds), of Poll (both owners poll every 100 or 200 ms)
  and of StopFailed, which follows in the same turn.
- Discovery!Fairness: the web thread goes on with its call, the discovery thread
  is scheduled (WF) and gets the mutex although saves keep taking it (SF of
  Note); the neighbour announces itself, and time passes though the user keeps
  the web thread busy (SF of Tick). No user and no loss is fair.
- AndroidAudio!Fairness: WF of the native method's and the receiver thread's
  own steps; nobody has to send or call.
- PairedRoutes!Fairness: SF of the web thread's own steps (strong for the
  same reason) and WF of the worker for each sender's requests. A request that
  is lost must be noticed by its sender: the model's Lose answers "refused",
  as a failed connection does. The eight seconds of `expires_after` do not bound
  Beast's blocking calls, so a computer that vanishes after it accepted the
  connection is beyond CallsReturn.

Deadlock is not checked where the bounds stop the system: PairedRoutes, whose
ids run out, and what else
is in MCStores and MCThreads, where changes, moves, links and samples do.

## 5. Findings

Each is a violation run, quoted in `PROJECT.json` with the text it contradicts.

1. Telemetry is never reset when the last network route is paused, deleted or
   fails (`web_server.cpp:340`; routes_idle).
2. A gain of NaN passes the range test (`web_server.cpp:239`; routes_nan).
3. "Saved and synchronized" is not: announcements have no version and no order
   (`pairing_service.cpp:488`; pairing_sync).
4. Ports of paired routes collide (`web_server.cpp:567`; paired_ports).
5. A monitor whose name is not "Monitor of" its sink may be written back to that
   sink (`audio_backend.cpp:67`; devices_feedback).
6. A capture device without a selector is hidden by any sink without one
   (`audio_backend.cpp:96`; devices_lost).

## 6. Proofs

Every invariant, action property and refinement that a passing run checks is
also a theorem, for every value of the constants that the modules' assumptions
admit. Only liveness is checked by TLC alone.

### Assumptions

Most only type a bound, keep a null value apart from the others and say that
inputs are what the code's structs hold: InputsAreNodes (AudioGraph),
RouteTableAssumption, PairingAssumption (the homes give each node an address),
PairedAssumption, RequestsAssumption (the settings of each kind of route have the legs
the structs of `audio_types.hpp` give them, and their selectors come from the three
properties `device_enumerator.cpp:52` reads), StateAssumption (ids are not empty,
which `random_hex(24)` gives; names may be), AudioAssumption. Two say more, and a
reader should know them.

- LossAssumption (Discovery): the announcements that may be lost in a row, one
  more, and their period fit into the expiry. With the code's 2 and 7 seconds
  that admits two.
- HardwareAssumption (DeviceList): a device part that is not empty names one device
  of its class; a monitor has a selector; and WASAPI, which reports an endpoint
  under both classes, does so with the same id and the same default flag. The code
  tests none of it. Of other systems nothing is assumed: an ALSA card may have one
  `hw:N` for both classes, and a monitor any name or none that says whose it is.

Where the code cannot tell, the properties say so instead. EachEndpointOnce excepts a
capture whose device a sink of another system than WASAPI shares (Shadowed):
`list_sources` takes it for the sink. NoFeedback is about hardware whose capture the
code can tie to its playback (Linked): one WASAPI device, or the name of just one
playback. Without that condition it is MonitorsNeverFeedBack, which the code does not
keep (section 5). RestartRestores has what a file can say of empty names (Kept), and
MixerPortsDiffer is about ports whose numbers are less than PortRange apart: were a
thousand ids drawn while one mixer is being agreed on, two of its sources could meet.

### Induction and loops

Library theorems of induction take an operator, which no installed prover can
instantiate. *Recursion* therefore states induction over 0..n of sets (Counting,
from the library's WFMin: a non-empty set of numbers has a least element), and
RecursionFollows: a recursive function over 0..n has a value at each n, in the
set that its step leads to. With the two, what a loop of the code computes is
proved for every number of turns. The definitions it is used for are Load,
Push, Loop and Collected.

### AudioGraph_proofs

Invariance: the three invariants are inductive together. AddNode needs that the
checks of `PortError` on every position give a list without repeats and disjoint
from the graph (AcceptedPorts). LossesAreExplained: only Disconnect and
RemoveNode take connections away, the one nothing else, the other only those of
the ports of the node that leaves.

### RouteTable_proofs

TypeCorrect, IdsOrdered, EnabledIsLive, CopiesAlwaysAgree. The inductive
invariant says of each route alone that it is Sound (typed, its copies agree,
enabled exactly with a pipeline), of the table that its ids are ordered below
next_route_id, and types the rest. It is stronger than the four invariants since
a paused route must remember what a resume will rebuild. Lemmas for a sequence
appended to, changed in one place and with one element removed carry each action.

RouteTableImplementsBoard: every initial state of the table maps to one of
RouteBoard and every step to a step or a stutter, under that invariant. The
lemmas ReplacedMapping, AppendedMapping and RemovedMapping say what one change
of the table does to the board and the sound; there is one lemma per action.

### Pairing_proofs

Types, CodesWorkOnce, EntriesAuthorised. OneUse is not inductive: CodesUnused
adds that no code now valid was accepted before and that codes are drawn below
`issued`; AnswersAuthorised adds that an accepted reply on its way rests on a
pairing in `accepted`. Actions that only let codes and entries fade need one
lemma (Quiet). ForgottenStaysForgotten: under the same invariant no step but a
pairing's two ends puts a peer into the list (NobodyAppearsElsewhere): the one
spends a code of that node, the other ends a call of it (PairAdmits).

### PairedRoutes_proofs

LegsWereGranted rests on PairedInv. Its GrantInv says that each port a web thread
has collected was granted by the computer it asked. That alone is not inductive:
the worker answers a request that may be one of two copies, or may be one whose
sender has given up and asks another by now. OpenInv excludes both: an
open request is the only copy of what its sender waits for. MixersPortsDiffer adds
RisingInv: the ports of a mixer are numbers modulo PortRange, and these numbers rise
from source to source, because next_route_id never falls while the worker of the same
node draws ids in between (CallsRise, LegsRise). Two numbers less than PortRange apart
have different remainders (CloseNumbers).

MCStores has PairedRoutes as the instance R. MCStores_proofs takes P as an
instance of PairedRoutes_proofs, shows that R's and P's definitions are the
same (SameBegin to SameSpec), and cites the theorems as P's.

### RtpPipeline_proofs

LatencyIsKept: JitterFits and ProfileFits say that frame, jitter buffer and
reserve of each profile stay within its latency; the invariant carries this to
what the pipeline was built with. RefusalsAreClean and DevicesAreBound follow
from RouteInv, which says of each phase of a start what exists by then: nothing
before the parse, an assembled pipeline (the devices of its settings, a
bus) from then on, and an error with all or nothing while a start is refused. That a
binding finds its element is OpensNamed; that the property it writes is the one the
device was read from, or an earlier one that was empty, ToldAsListed, which compares
the first string property with the first that has a text.

TelemetryCounts follows from CountInv: what `telemetry` collects over the legs is
what was received and lost in all. It needs that the jitter buffers' names differ
(JittersDiffer), so that a packet is counted at one leg (CollectedMore), and that
the loop over the legs adds zeros to zero (CollectedZero).

RoutesImplementTheirInterface: RtpPipeline implements AudioRoute. The steps of a
start are stutters, the end of one is Create's answer, a message on the bus is a
failure that Poll tells once.

### MCThreads_proofs

*Discovery.* SwitchTellsTheTruth and NeighboursStayListed follow from
DiscoveryInv. SwitchInv says at each place of the web thread what the socket,
the thread, the list and the file may be: SwitchIsTrue speaks only of the moments
between two requests and says nothing of the steps that lead there. AgeInv bounds
the age of the neighbour's entry by the time since its last announcement and the
number lost, unless a newer one is being handled or the list is about to be cleared.

*AndroidAudio.* AnswersTell needs MethodInv (while a method opens its devices, the
engine holds nothing of the one before). It says nothing of `stray`: a stream that a
failed start dropped may play on or end. NewestIsKept: QueueInv says that the ring
ends with the newest samples received, and how many it holds by those received and
heard; NewestKept follows. A ring is a function of places modulo the capacity, so
the proof starts from lemmas on quotient and remainder (Quotient to PlaceShifts).
PacketsAreTiles: SenderInv has as witness the number of turns that the sender's loop
has made in all: the frames of that many packets are gone, the counters are that
number less the packets skipped, modulo their width, the last packet has the
counters before it, and the pending frames follow on it.

### MCStores_proofs

*NodeState.* StateTypes, RestartsRestore and PeersStayWhole follow from StateInv:
the file loads what the node knows, or a beginning of it; each row names a saved
peer, and each peer in memory is one of the intended peers in every field. For a
save, SavedLoads goes through the rows in the order they are written and shows what
Load has read after each: a row of an endpoint without a name adds nothing
(LoadNameless), as Named leaves it out of the list (NamedSteps), and what was loaded
is not changed by being saved again (KeptIsLoaded); for a torn one, PrefixIs and
CutRowIs say what is left, and SavedIsKnown that a row cut in a field is dropped or
still names its peer.

*DiagnosticLog.* NothingIsSkipped follows from LogInv. The log holds consecutive
numbers, a request that is under way asks after an entry the page had got to, and
an answer is an interval that begins no later than the page or the log does.

*DeviceList.* EndpointsAreListedOnce, NoLinkFeedsBack: ListInv relates the two
enumerations and the page to the hardware that stayed. SourcesAre splits the sources
into captures and rendered sinks: two with one device are the same, since line 96
drops the captures that share one with a sink. MirroredNamed finds the sink a
monitor is named after, if that name is no other's. LinksAreKept: MatrixInv adds
that each route's indices stay in range while the lists grow, and that all offered
links from one source have the same loopback flag (OfferedOneFlag): the matrix keeps
one flag per source, so this is what MatrixKeepsLinks stands on.

*PairedRoutes.* MixersKeepApart and LegsWereGranted, as above.

### What stays with TLC

Liveness is out of the prover's reach: FailureNoticed, TelemetryFollows,
ProfileArrives, CallsReturn, DeviceReleased, StopReturns, NeighbourFound and
MethodReturns hold on the instances of section 4 only. The findings are
violations on an instance, which need no proof. AudioRoute and RouteBoard are
abstract: nothing is proved about them but that they are implemented.

## 7. What is not modelled

- Audio itself: codecs, clocks, the inside of jitter buffers. Of a pipeline only
  its state, devices and parameters exist; samples are numbers (AndroidAudio).
- adapt_quality, which no program code calls.
- Texts: messages, labels, escaping, JSON, HTML, log lines.
- Two threads inside one operation. The pairing worker and the web thread use
  the route vector without a lock; that is undefined behaviour with no set of
  outcomes to choose from, and the module takes the addition of a leg as one
  step.
- In Pairing, node ids are constants, codes are distinct, a node does not pair
  with itself, and a save is atomic. NodeState has the torn file alone, without
  the peers' view of it: a node that comes back with another id, because it never
  saved or its first row was cut, is a stranger to its peers.
- What the serving loop does while it waits: one recv takes a whole request, and
  a client that sends nothing stops the polls.
- The Android peer service: Kotlin's thread pool in front of the protocol that
  Pairing has, with no persistence.
- A handler of the web server that saves and then announces is one step: what
  the worker could do in between, it can do just after.
- The rest of the web UI and of the command line, the Android application and
  the build: rendering, option texts and calls into the components above.
