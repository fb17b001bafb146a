---------------------------- MODULE RtpPipeline ----------------------------
(***************************************************************************)
(* One route of the GStreamer backend (src/src/gstreamer: start_route of   *)
(* audio_backend.cpp and RtpOpusPipeline), from the settings a consumer    *)
(* gives to the device it opens.  A start is several steps, any of which   *)
(* may fail; GStreamer's own threads post messages meanwhile.              *)
(*                                                                         *)
(* An element is named as in the pipeline description: a word and its      *)
(* C++ index plus one, 0 when it has no suffix.  PCM settings are never    *)
(* changed from their valid defaults and are left out.                     *)
(***************************************************************************)
EXTENDS NetworkProfile, Sequences

CONSTANTS
    Requests,         \* the settings consumers create routes with
    Gains,            \* the gains (percent) they ask for
    MaxMessages,      \* bound: messages waiting on the bus
    MaxPackets        \* bound: packets received or lost by one route

\* The settings structs of audio_types.hpp: an input of a mixer has a port and a
\* network profile, and a kind with one source or one sink has exactly one.
ASSUME RequestsAssumption ==
    \A s \in Requests :
        /\ s.kind \in {"send", "receive", "mixer", "loopback", "fanout", "matrix"}
        /\ s.ports \in Seq(Nat)
        /\ \A list \in {s.sources, s.sinks} :
              /\ Len(list) \in Nat /\ DOMAIN list = 1..Len(list)
              /\ \A i \in DOMAIN list : /\ list[i].form \in {"full", "plain", "bad"}
                                       /\ DOMAIN list[i].values \subseteq 1..3
        /\ Len(s.sources) = 1 \/ s.kind \notin {"send", "loopback", "fanout"}
        /\ Len(s.sinks) = 1 \/ s.kind \notin {"receive", "mixer", "loopback"}
        /\ s.kind = "send" => s.sinks = << >>
        /\ s.kind \in {"receive", "mixer"} => s.sources = << >>
        /\ s.kind \in {"send", "receive"} => 1 \in DOMAIN s.networks
        /\ s.kind = "mixer" => DOMAIN s.networks = DOMAIN s.ports

VARIABLES
    phase,            \* how far start_route is, then who holds the route
    settings,         \* the settings of the route being made or played
    pipeline,         \* Impl::pipeline
    bus,              \* Impl::bus: the messages waiting, or NoBus
    opened,           \* the endpoints the pipeline holds open
    error,            \* Impl::error is not empty
    network_profile,  \* Impl::network_profile
    backend_error,    \* GStreamerBackend::error_ is not empty
    answer,           \* what the owner's last poll returned
    packets           \* received and lost by the legs, as they counted them

vars == <<phase, settings, pipeline, bus, opened, error, network_profile,
          backend_error, answer, packets>>

NoBus == "no bus"
NoProfile == "no profile"
NoTelemetry == "no telemetry"
Null == [state |-> "null", devices |-> << >>, volumes |-> << >>, latency |-> << >>, stats |-> << >>]

------------------------------------------------------------------------------
(* Settings.  A selector is text: "plain" has no separator (or is empty),  *)
(* "bad" has a factory name with other characters, "full" is as listed.    *)
(* values: what the element it was listed for had in each of the string    *)
(* properties its factory has, of device (1), path (2), target-object (3). *)

Empty == ""
First(places) == CHOOSE k \in places : \A j \in places : k <= j

\* selector_for: the properties with a text; the first one is listed.
Filled(selector) == {k \in DOMAIN selector.values : selector.values[k] # Empty}

\* parse_selector: the device, none with the fallback factory.
ParsedDevice(selector) ==
    IF selector.form = "full" /\ Filled(selector) # {}
    THEN selector.values[First(Filled(selector))] ELSE Empty

OutOfRange(gain) == gain < 0 \/ gain > 200

\* The checks of the six start_* functions.
Valid(s) ==
    /\ \A i \in DOMAIN s.ports : s.ports[i] # 0
    /\ \A i \in DOMAIN s.networks : s.networks[i] \in NetworkProfiles
    /\ \A i \in DOMAIN s.gains : ~OutOfRange(s.gains[i])
    /\ s.kind = "send" => s.host
    /\ s.kind = "mixer" => Len(s.ports) >= 2
    /\ s.kind = "fanout" => s.sinks # << >>
    /\ s.kind = "matrix" =>
          /\ s.sources # << >> /\ s.sinks # << >> /\ s.links # << >>
          /\ \A i \in DOMAIN s.links : /\ s.links[i].source \in DOMAIN s.sources
                                       /\ s.links[i].sink \in DOMAIN s.sinks

\* The endpoints of a description: the name of each source and sink element
\* and the selector it stands for.
Endpoints(s) ==
    LET Index(list, i) == IF s.kind = "matrix" \/ (s.kind = "fanout" /\ list = "sink")
                          THEN i ELSE 0
    IN  {[name |-> <<"source", Index("source", i)>>, of |-> s.sources[i]] : i \in DOMAIN s.sources}
        \cup {[name |-> <<"sink", Index("sink", i)>>, of |-> s.sinks[i]] : i \in DOMAIN s.sinks}

\* Its jitter buffers, one for a receiver and one per input of a mixer.
Jitter(i) == <<"receiver_jitter", i>>
JitterBuffers(s) ==
    CASE s.kind = "receive" -> {Jitter(0)}
      [] s.kind = "mixer"   -> {Jitter(i) : i \in DOMAIN s.ports}
      [] OTHER              -> {}

Leg(name) == IF name[2] = 0 THEN 1 ELSE name[2]

\* Mutant of Bindings: the sinks of a fanout are bound like a single sink.
BindingsUnnumbered(s) ==
    {[name |-> <<"source", i - 1>>, device |-> ParsedDevice(s.sources[i])] : i \in DOMAIN s.sources}
    \cup {[name |-> <<"sink", i - 1>>, device |-> ParsedDevice(s.sinks[i])] : i \in DOMAIN s.sinks}

\* The DeviceBindings each start_* function hands to Impl::start.
Bindings(s) ==
    LET Bind(word, selector, i) == [name |-> <<word, i>>, device |-> ParsedDevice(selector)]
        All(word, list) == {Bind(word, list[i], i) : i \in DOMAIN list}
    IN  CASE s.kind = "send"     -> {Bind("source", s.sources[1], 0)}
          [] s.kind \in {"receive", "mixer"} -> {Bind("sink", s.sinks[1], 0)}
          [] s.kind = "loopback" -> {Bind("source", s.sources[1], 0), Bind("sink", s.sinks[1], 0)}
          [] s.kind = "fanout"   -> {Bind("source", s.sources[1], 0)} \cup All("sink", s.sinks)
          [] s.kind = "matrix"   -> All("source", s.sources) \cup All("sink", s.sinks)

\* What an element opens that was told nothing.
Default == [property |-> 0, value |-> Empty]

\* set_device_if_supported, on the element named as in a binding: the first string
\* property it has takes the device, and without one nothing is said.
Opens(s, e) ==
    LET given == {b \in Bindings(s) : b.name = e.name}
        device == (CHOOSE b \in given : TRUE).device
    IN  IF given = {} \/ device = Empty \/ DOMAIN e.of.values = {} THEN Default
        ELSE [property |-> First(DOMAIN e.of.values), value |-> device]

\* gst_parse_launch and the bindings: what the description builds, not running.
Built(s) ==
    [state |-> "ready",
     devices |-> [e \in Endpoints(s) |-> Opens(s, e)],
     volumes |-> s.gains,
     latency |-> [j \in JitterBuffers(s) |-> JitterMs(s.networks[Leg(j)])],
     stats |-> [j \in JitterBuffers(s) |-> [pushed |-> 0, lost |-> 0]]]

------------------------------------------------------------------------------
Init ==
    /\ phase = "none" /\ settings \in Requests
    /\ pipeline = Null /\ bus = NoBus /\ opened = {}
    /\ error = FALSE /\ network_profile = NoProfile /\ backend_error = FALSE
    /\ answer = TRUE /\ packets = [pushed |-> 0, lost |-> 0]

\* Mutant of Release: the pipeline is dropped without going to NULL.
ReleaseUnstopped ==
    /\ pipeline' = Null /\ bus' = NoBus /\ network_profile' = NoProfile
    /\ UNCHANGED opened

\* Impl::stop.
Release ==
    /\ pipeline' = Null /\ bus' = NoBus /\ network_profile' = NoProfile
    /\ opened' = {}

\* create_* begins: a new GStreamerRoute, its settings checked.
Create(s) ==
    /\ phase = "none"
    /\ settings' = s
    /\ phase' = IF Valid(s) THEN "parse" ELSE "refused"
    /\ error' = ~Valid(s)
    /\ packets' = [pushed |-> 0, lost |-> 0]
    /\ UNCHANGED <<pipeline, bus, opened, network_profile, backend_error, answer>>

\* An element that is not installed, or a name taken for a property.
ParseFails ==
    /\ phase = "parse" /\ phase' = "refused" /\ error' = TRUE
    /\ UNCHANGED <<settings, pipeline, bus, opened, network_profile, backend_error, answer, packets>>

Parse ==
    /\ phase = "parse" /\ phase' = "play"
    /\ pipeline' = Built(settings) /\ bus' = << >>
    /\ UNCHANGED <<settings, opened, error, network_profile, backend_error, answer, packets>>

\* gst_element_set_state(PLAYING): SUCCESS, ASYNC, or FAILURE with any of the
\* devices opened by then.
Play ==
    /\ phase = "play"
    /\ \/ /\ \E some \in SUBSET DOMAIN pipeline.devices : opened' = some
          /\ phase' = "refused" /\ error' = TRUE
          /\ UNCHANGED pipeline
       \/ /\ opened' = DOMAIN pipeline.devices
          /\ \E state \in {"playing", "async"} :
                /\ pipeline' = [pipeline EXCEPT !.state = state]
                /\ phase' = IF state = "async" THEN "wait" ELSE "started"
          /\ UNCHANGED error
    /\ UNCHANGED <<settings, bus, network_profile, backend_error, answer, packets>>

\* After an asynchronous start: at most five seconds in get_state, then one
\* poll, whose message refuses the start.
Wait ==
    /\ phase = "wait"
    /\ \/ phase' = "refused" /\ error' = TRUE /\ UNCHANGED bus
       \/ /\ bus # << >>
          /\ phase' = "refused" /\ error' = TRUE /\ bus' = Tail(bus)
       \/ /\ bus = << >>
          /\ phase' = "started" /\ UNCHANGED <<bus, error>>
    /\ UNCHANGED <<settings, pipeline, opened, network_profile, backend_error, answer, packets>>

\* start returns true, start_* notes the profile, the consumer gets the route.
Started ==
    /\ phase = "started" /\ phase' = "owned"
    /\ error' = FALSE /\ backend_error' = FALSE
    /\ network_profile' = IF settings.kind \in {"send", "receive"}
                          THEN Resolved(settings.networks[1]) ELSE NoProfile
    /\ UNCHANGED <<settings, pipeline, bus, opened, answer, packets>>

\* start_route returns nullptr: the error is kept, the route destroyed.
Refuse ==
    /\ phase = "refused" /\ phase' = "none"
    /\ Release
    /\ backend_error' = error /\ error' = FALSE
    /\ UNCHANGED <<settings, answer, packets>>

------------------------------------------------------------------------------
(* The owner: a route of the Web UI server, or run_route of the CLI.       *)

\* Mutant of Poll: an end of stream is not taken for a failure.
PollErrorsOnly ==
    /\ phase = "owned"
    /\ answer' = (bus = << >> \/ Head(bus) = "eos")
    /\ phase' = IF answer' THEN "owned" ELSE "reported"
    /\ error' = (error \/ ~answer')
    /\ bus' = IF bus = << >> THEN bus ELSE Tail(bus)
    /\ UNCHANGED <<settings, pipeline, opened, network_profile, backend_error, packets>>

\* Impl::poll: one message is popped, none means all is well.
Poll ==
    /\ phase = "owned"
    /\ answer' = (bus = << >>)
    /\ phase' = IF answer' THEN "owned" ELSE "reported"
    /\ error' = (error \/ ~answer')
    /\ bus' = IF bus = << >> THEN bus ELSE Tail(bus)
    /\ UNCHANGED <<settings, pipeline, opened, network_profile, backend_error, packets>>

\* set_mixer_input_gain: refused without such an element or out of range.
SetGain(i, gain) ==
    /\ phase = "owned"
    /\ error' = (OutOfRange(gain) \/ i \notin DOMAIN pipeline.volumes)
    /\ pipeline' = IF error' THEN pipeline ELSE [pipeline EXCEPT !.volumes[i] = gain]
    /\ UNCHANGED <<phase, settings, bus, opened, network_profile, backend_error, answer, packets>>

\* The owner stops a route it has had enough of.
Stop ==
    /\ phase = "owned" /\ phase' = "stopped"
    /\ Release
    /\ UNCHANGED <<settings, error, backend_error, answer, packets>>

\* A poll that returned false is followed by stop in the same turn.
StopFailed ==
    /\ phase = "reported" /\ phase' = "stopped"
    /\ Release
    /\ UNCHANGED <<settings, error, backend_error, answer, packets>>

Destroy ==
    /\ phase = "stopped" /\ phase' = "none"
    /\ Release
    /\ error' = FALSE /\ answer' = TRUE
    /\ UNCHANGED <<settings, backend_error, packets>>

------------------------------------------------------------------------------
(* GStreamer's threads and the network.                                    *)

\* A device disappears or a stream ends, also while the start is waiting.
Post(message) ==
    /\ opened # {} /\ bus # NoBus /\ Len(bus) < MaxMessages
    /\ bus' = Append(bus, message)
    /\ UNCHANGED <<phase, settings, pipeline, opened, error, network_profile, backend_error,
                   answer, packets>>

\* A packet passes the jitter buffer j, or is found to be lost; the first one
\* ends an asynchronous start.
Packet(j, fate) ==
    /\ pipeline.state \in {"async", "playing"}
    /\ packets.pushed + packets.lost < MaxPackets
    /\ pipeline' = [pipeline EXCEPT !.state = "playing", !.stats[j][fate] = @ + 1]
    /\ packets' = [packets EXCEPT ![fate] = @ + 1]
    /\ UNCHANGED <<phase, settings, bus, opened, error, network_profile, backend_error, answer>>

\* The last leg transport_telemetry finds, by name, before the first gap.
LastLeg(stats) ==
    CHOOSE n \in {0} \cup {j[2] : j \in DOMAIN stats} :
        /\ \A i \in 1..n : Jitter(i) \in DOMAIN stats
        /\ Jitter(n + 1) \notin DOMAIN stats

\* Mutant of Collected: the loop starts at the second leg.
CollectedFromSecond(stats, fate) ==
    LET upTo[n \in 0..LastLeg(stats)] ==
            IF n > 1 THEN upTo[n - 1] + stats[Jitter(n)][fate]
            ELSE IF Jitter(0) \in DOMAIN stats THEN stats[Jitter(0)][fate] ELSE 0
    IN  upTo[LastLeg(stats)]

\* What collect adds up: the leg of a receiver, then those of a mixer in turn.
Collected(stats, fate) ==
    LET upTo[n \in 0..LastLeg(stats)] ==
            IF n > 0 THEN upTo[n - 1] + stats[Jitter(n)][fate]
            ELSE IF Jitter(0) \in DOMAIN stats THEN stats[Jitter(0)][fate] ELSE 0
    IN  upTo[LastLeg(stats)]

transport_telemetry ==
    LET received == Collected(pipeline.stats, "pushed")
        lost == Collected(pipeline.stats, "lost")
        total == received + lost
    IN  IF {Jitter(0), Jitter(1)} \cap DOMAIN pipeline.stats = {} THEN NoTelemetry
        ELSE [received |-> received, lost |-> lost,
              percent |-> IF total = 0 THEN 0 ELSE (lost * 100) \div total]

StartStep == ParseFails \/ Parse \/ Play \/ Wait \/ Started \/ Refuse

Next ==
    \/ \E s \in Requests : Create(s)
    \/ StartStep
    \/ Poll
    \/ \E i \in 1..3, gain \in Gains : SetGain(i, gain)
    \/ Stop
    \/ StopFailed
    \/ Destroy
    \/ \E message \in {"error", "eos"} : Post(message)
    \/ \E j \in DOMAIN pipeline.stats, fate \in {"pushed", "lost"} : Packet(j, fate)

\* GStreamer's calls return (get_state after five seconds); the owner polls every
\* 100 or 200 ms and stops the route whose poll was false.
Fairness == WF_vars(StartStep) /\ WF_vars(Poll) /\ WF_vars(StopFailed)

Spec == Init /\ [][Next]_vars /\ Fairness

------------------------------------------------------------------------------
\* Whatever step of a start fails, the consumer that got no route is left with a
\* reason, and with no pipeline, bus or open device (audio_backend.cpp:138-147).
RefusalClean ==
    /\ phase = "refused" => error
    /\ phase \in {"none", "stopped"} => pipeline = Null /\ bus = NoBus /\ opened = {}

\* In a running route every endpoint element was told the device its own selector
\* lists, and no other element's: descriptions (rtp_opus_pipeline.cpp:26-137) and
\* bindings (255-342) name the elements alike.  The device goes to the property it
\* was read from (device_enumerator.cpp:47-66) or to an earlier one that was empty
\* then; only a selector that lists no device leaves the default one.
DevicesBound ==
    phase \in {"owned", "reported"} =>
        \A e \in Endpoints(settings) :
            LET told == pipeline.devices[e]
                from == First(Filled(e.of))
            IN  IF e.of.form = "full" /\ Filled(e.of) # {}
                THEN /\ told.value = e.of.values[from]
                     /\ told.property = from \/ e.of.values[told.property] = Empty
                ELSE told = Default

\* Telemetry counts the packets of every leg of a running receiver or mixer once,
\* whatever the legs are named, and is absent for other routes.
TelemetryCountsEveryLeg ==
    phase \in {"owned", "reported"} =>
        IF JitterBuffers(settings) = {} THEN transport_telemetry = NoTelemetry
        ELSE /\ transport_telemetry.received = packets.pushed
             /\ transport_telemetry.lost = packets.lost

\* Frame, jitter buffer and the 10 ms reserved for capture and rendering fit into
\* the latency the user chose (audio_types.hpp:149-158), on every leg that plays.
LatencyBudget ==
    \A j \in DOMAIN pipeline.latency :
        LET p == settings.networks[Leg(j)]
        IN  pipeline.latency[j] + FrameMs(p) + 10 <= p.max_latency

\* The route as its consumer sees it.
Route ==
    CASE phase = "owned" -> IF bus = << >> THEN "running" ELSE "failed"
      [] phase \in {"reported", "stopped"} -> phase
      [] OTHER -> "none"

Contract == INSTANCE AudioRoute WITH route <- Route, answer <- answer

\* A route keeps the promises of the AudioRoute interface: the consumer sees all of
\* a start or nothing, and a failure is told by the first poll after it.
Implements == Contract!Spec

\* The devices of a route that failed are given back (device lost, stream ended).
DeviceReleased == (phase = "owned" /\ bus # << >>) ~> (opened = {})
=============================================================================
