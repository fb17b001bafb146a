------------------------- MODULE RtpPipeline_proofs -------------------------
(***************************************************************************)
(* A route is made whole or not at all, opens the devices its settings     *)
(* name, keeps the latency its user chose, and keeps the promises of the   *)
(* AudioRoute interface: for any settings consumers create routes with.    *)
(***************************************************************************)
EXTENDS RtpPipeline, Recursion, SequenceTheorems

------------------------------------------------------------------------------
(* Latency.                                                                *)

\* For every latency from 40 ms on, not only the four the user is offered, the
\* frame, the jitter buffer and 10 ms fit into it.
LEMMA JitterFits ==
    ASSUME NEW p, p.mode \in Modes, p.max_latency \in Nat, p.max_latency >= 40
    PROVE  JitterMs(p) + FrameMs(p) + 10 <= p.max_latency
<1> DEFINE x == p.max_latency
<1>1. CASE p.mode = "stable"
  <2>1. FrameMs(p) = IF x <= 60 THEN 10 ELSE 20
    BY <1>1 DEF FrameMs
  <2>2. AvailableMs(p) = x - FrameMs(p) - 10 /\ AvailableMs(p) >= 20
    BY <2>1 DEF AvailableMs, ReserveMs
  <2>3. JitterMs(p) = Clamp(AvailableMs(p), 15, 100)
    BY <1>1 DEF JitterMs
  <2> QED
    BY <2>1, <2>2, <2>3 DEF Clamp
<1>2. CASE p.mode = "auto"
  <2>1. FrameMs(p) = IF x <= 60 THEN 5 ELSE 10
    BY <1>2 DEF FrameMs
  <2>2. AvailableMs(p) = x - FrameMs(p) - 10 /\ AvailableMs(p) >= 20
    BY <2>1 DEF AvailableMs, ReserveMs
  <2>3. JitterMs(p) = Clamp((AvailableMs(p) * 3) \div 4, 10, 60)
    BY <1>2 DEF JitterMs
  <2> QED
    BY <2>1, <2>2, <2>3 DEF Clamp
<1>3. CASE p.mode = "low-latency"
  <2>1. FrameMs(p) = 5
    BY <1>3 DEF FrameMs
  <2>2. AvailableMs(p) = x - FrameMs(p) - 10 /\ AvailableMs(p) >= 20
    BY <2>1 DEF AvailableMs, ReserveMs
  <2>3. JitterMs(p) = Clamp(AvailableMs(p) \div 2, 5, 25)
    BY <1>3 DEF JitterMs
  <2> QED
    BY <2>1, <2>2, <2>3 DEF Clamp
<1> QED
  BY <1>1, <1>2, <1>3 DEF Modes

LEMMA ProfileFits ==
    ASSUME NEW p \in NetworkProfiles
    PROVE  JitterMs(p) + FrameMs(p) + 10 <= p.max_latency
<1>1. p.mode \in Modes /\ p.max_latency \in Nat /\ p.max_latency >= 40
  BY DEF NetworkProfiles, MaxLatencies
<1> QED
  BY <1>1, JitterFits

\* Every jitter buffer of valid settings belongs to a leg with a valid profile.
LEMMA LegProfile ==
    ASSUME NEW s \in Requests, Valid(s), NEW j \in JitterBuffers(s)
    PROVE  s.networks[Leg(j)] \in NetworkProfiles
<1>1. CASE s.kind = "receive"
  <2>1. Leg(j) = 1 /\ 1 \in DOMAIN s.networks
    BY <1>1, RequestsAssumption DEF JitterBuffers, Jitter, Leg
  <2> QED
    BY <2>1 DEF Valid
<1>2. CASE s.kind = "mixer"
  <2>1. PICK i \in DOMAIN s.ports : j = <<"receiver_jitter", i>>
    BY <1>2 DEF JitterBuffers, Jitter
  <2>2. i \in Nat \ {0} /\ i \in DOMAIN s.networks
    BY <1>2, RequestsAssumption
  <2>3. Leg(j) = i
    BY <2>1, <2>2 DEF Leg
  <2> QED
    BY <2>2, <2>3 DEF Valid
<1> QED
  BY <1>1, <1>2 DEF JitterBuffers, Jitter

------------------------------------------------------------------------------
(* Bindings.                                                               *)

\* The name of each endpoint element is bound, and only to its own selector.
LEMMA OpensNamed ==
    ASSUME NEW s \in Requests, NEW e \in Endpoints(s)
    PROVE  Opens(s, e) = IF ParsedDevice(e.of) = Empty \/ DOMAIN e.of.values = {} THEN Default
                         ELSE [property |-> First(DOMAIN e.of.values), value |-> ParsedDevice(e.of)]
<1> DEFINE given == {b \in Bindings(s) : b.name = e.name}
<1>0. /\ s.kind \in {"send", "receive", "mixer", "loopback", "fanout", "matrix"}
      /\ s.kind \in {"send", "loopback", "fanout"} => DOMAIN s.sources = {1}
      /\ s.kind \in {"receive", "mixer", "loopback"} => DOMAIN s.sinks = {1}
      /\ s.kind = "send" => DOMAIN s.sinks = {}
      /\ s.kind \in {"receive", "mixer"} => DOMAIN s.sources = {}
  BY RequestsAssumption
<1>1. \/ \E i \in DOMAIN s.sources :
            e = [name |-> <<"source", IF s.kind = "matrix" THEN i ELSE 0>>, of |-> s.sources[i]]
      \/ \E i \in DOMAIN s.sinks :
            e = [name |-> <<"sink", IF s.kind \in {"matrix", "fanout"} THEN i ELSE 0>>, of |-> s.sinks[i]]
  BY DEF Endpoints
<1>2. given = {[name |-> e.name, device |-> ParsedDevice(e.of)]}
  <2>1. CASE s.kind = "send"
    BY <1>0, <1>1, <2>1 DEF Bindings
  <2>2. CASE s.kind \in {"receive", "mixer"}
    BY <1>0, <1>1, <2>2 DEF Bindings
  <2>3. CASE s.kind = "loopback"
    BY <1>0, <1>1, <2>3 DEF Bindings
  <2>4. CASE s.kind = "fanout"
    BY <1>0, <1>1, <2>4 DEF Bindings
  <2>5. CASE s.kind = "matrix"
    BY <1>0, <1>1, <2>5 DEF Bindings
  <2> QED
    BY <1>0, <2>1, <2>2, <2>3, <2>4, <2>5
<1>3. (CHOOSE b \in given : TRUE) \in given /\ given # {}
  BY <1>2
<1>4. (CHOOSE b \in given : TRUE).device = ParsedDevice(e.of)
  BY <1>2, <1>3
<1> QED
  BY <1>3, <1>4, Zenon DEF Opens

\* The first of some of the three properties.
LEMMA FirstProperty ==
    ASSUME NEW S, S \subseteq 1..3, S # {}
    PROVE  First(S) \in S /\ \A j \in S : First(S) <= j
<1>1. \E k \in S : \A j \in S : k <= j
  <2>1. CASE 1 \in S
    BY <2>1
  <2>2. CASE 1 \notin S /\ 2 \in S
    BY <2>2
  <2>3. CASE S = {3}
    BY <2>3
  <2>4. S = {3} \/ 1 \in S \/ 2 \in S
    <3>1. PICK k \in S : k \in 1..3
      OBVIOUS
    <3>2. k = 1 \/ k = 2 \/ k = 3
      BY <3>1
    <3>3. 1 \notin S /\ 2 \notin S => \A j \in S : j = 3
      OBVIOUS
    <3> QED
      BY <3>2, <3>3
  <2> QED
    BY <2>1, <2>2, <2>3, <2>4
<1> QED
  BY <1>1, Zenon DEF First

\* Where a device that was listed is put: the property it was read from, or an
\* earlier one that was empty.
LEMMA ToldAsListed ==
    ASSUME NEW of, DOMAIN of.values \subseteq 1..3, Filled(of) # {}
    PROVE  /\ of.values[First(Filled(of))] # Empty
           /\ DOMAIN of.values # {}
           /\ \/ First(DOMAIN of.values) = First(Filled(of))
              \/ of.values[First(DOMAIN of.values)] = Empty
<1>1. Filled(of) \subseteq DOMAIN of.values /\ Filled(of) \subseteq 1..3 /\ DOMAIN of.values # {}
  BY DEF Filled
<1>2. /\ First(Filled(of)) \in Filled(of) /\ \A j \in Filled(of) : First(Filled(of)) <= j
      /\ First(DOMAIN of.values) \in DOMAIN of.values
      /\ \A j \in DOMAIN of.values : First(DOMAIN of.values) <= j
  BY <1>1, FirstProperty
<1>3. of.values[First(Filled(of))] # Empty
  BY <1>2 DEF Filled
<1>4. First(DOMAIN of.values) \in Filled(of) \/ of.values[First(DOMAIN of.values)] = Empty
  BY <1>2 DEF Filled
<1>5. First(DOMAIN of.values) \in 1..3 /\ First(Filled(of)) \in 1..3
  BY <1>1, <1>2
<1>6. First(DOMAIN of.values) \in Filled(of) => First(DOMAIN of.values) = First(Filled(of))
  BY <1>1, <1>2, <1>5
<1> QED
  BY <1>1, <1>3, <1>4, <1>6
------------------------------------------------------------------------------
(* The inductive invariant.                                                *)

Phases == {"none", "parse", "play", "wait", "started", "refused", "owned", "reported", "stopped"}

Messages == {"error", "eos"}

\* Nothing is left of a pipeline.
Clean == pipeline = Null /\ bus = NoBus /\ opened = {}

\* The pipeline is what the valid settings describe, but for its volumes and counters.
Assembled ==
    /\ Valid(settings)
    /\ DOMAIN pipeline = DOMAIN Null /\ pipeline.state # "null"
    /\ pipeline.devices = Built(settings).devices
    /\ pipeline.latency = Built(settings).latency
    /\ bus \in Seq(Messages)

RouteInv ==
    /\ settings \in Requests
    /\ phase \in Phases
    /\ phase \in {"none", "parse", "stopped"} => Clean
    /\ phase = "parse" => Valid(settings)
    /\ phase \in {"play", "wait", "started", "owned", "reported"} => Assembled
    /\ phase = "refused" => error /\ (Clean \/ Assembled)

LEMMA RouteInvInit == Init => RouteInv
BY DEF Init, RouteInv, Phases, Clean

\* A step that keeps the pipeline but for its state, volumes and counters.
LEMMA AssembledKept ==
    ASSUME Assembled, settings' = settings, DOMAIN pipeline' = DOMAIN pipeline,
           pipeline'.devices = pipeline.devices, pipeline'.latency = pipeline.latency,
           pipeline'.state # "null",
           bus' \in Seq(Messages)
    PROVE  Assembled'
BY DEF Assembled

LEMMA ReleaseCleans == ASSUME Release PROVE Clean'
BY DEF Release, Clean, Null

LEMMA RouteInvStart == ASSUME RouteInv, StartStep PROVE RouteInv'
<1>1. CASE ParseFails
  BY <1>1 DEF ParseFails, RouteInv, Phases, Clean
<1>2. CASE Parse
  <2>1. Assembled'
    BY <1>2 DEF Parse, RouteInv, Assembled, Built, Null
  <2> QED
    BY <1>2, <2>1 DEF Parse, RouteInv, Phases
<1>3. CASE Play
  <2>1. Assembled
    BY <1>3 DEF Play, RouteInv
  <2>2. /\ DOMAIN pipeline' = DOMAIN pipeline /\ pipeline'.state # "null"
        /\ pipeline'.devices = pipeline.devices
        /\ pipeline'.latency = pipeline.latency
    BY <1>3, <2>1 DEF Play, Assembled, Null
  <2>3. Assembled'
    BY <1>3, <2>1, <2>2, AssembledKept DEF Play, Assembled
  <2>4. phase' \in {"refused", "wait", "started"} /\ (phase' = "refused" => error')
    BY <1>3 DEF Play
  <2> QED
    BY <1>3, <2>3, <2>4 DEF Play, RouteInv, Phases
<1>4. CASE Wait
  <2>1. Assembled /\ bus \in Seq(Messages)
    BY <1>4 DEF Wait, RouteInv, Assembled
  <2>2. bus' \in Seq(Messages)
    BY <1>4, <2>1 DEF Wait
  <2>3. Assembled'
    BY <1>4, <2>1, <2>2, AssembledKept DEF Wait, Assembled
  <2>4. phase' \in {"refused", "started"} /\ (phase' = "refused" => error')
    BY <1>4 DEF Wait
  <2> QED
    BY <1>4, <2>3, <2>4 DEF Wait, RouteInv, Phases
<1>5. CASE Started
  <2>1. Assembled
    BY <1>5 DEF Started, RouteInv
  <2>2. Assembled'
    BY <1>5, <2>1, AssembledKept DEF Started, Assembled
  <2> QED
    BY <1>5, <2>2 DEF Started, RouteInv, Phases
<1>6. CASE Refuse
  <2>1. Clean'
    BY <1>6, ReleaseCleans DEF Refuse
  <2> QED
    BY <1>6, <2>1 DEF Refuse, RouteInv, Phases
<1> QED
  BY <1>1, <1>2, <1>3, <1>4, <1>5, <1>6 DEF StartStep

\* Every phase in which a pipeline runs or holds a device, or a bus is open.
LEMMA InUse ==
    ASSUME RouteInv, ~Clean
    PROVE  Assembled /\ (phase = "refused" => error) /\ phase \notin {"none", "parse", "stopped"}
BY DEF RouteInv, Phases

LEMMA RouteInvStep == RouteInv /\ [Next]_vars => RouteInv'
<1> SUFFICES ASSUME RouteInv, [Next]_vars PROVE RouteInv'
  OBVIOUS
<1>1. ASSUME NEW s \in Requests, Create(s) PROVE RouteInv'
  BY <1>1 DEF Create, RouteInv, Phases, Clean, Valid, OutOfRange
<1>2. CASE StartStep
  BY <1>2, RouteInvStart
<1>3. CASE Poll
  <2>1. Assembled /\ bus \in Seq(Messages)
    BY <1>3 DEF Poll, RouteInv, Assembled
  <2>2. bus' = bus \/ (bus # << >> /\ bus' = Tail(bus))
    BY <1>3 DEF Poll
  <2>3. ASSUME bus # << >> PROVE Tail(bus) \in Seq(Messages)
    BY <2>1, <2>3, HeadTailProperties
  <2>4. bus' \in Seq(Messages)
    BY <2>1, <2>2, <2>3
  <2>5. Assembled'
    BY <1>3, <2>1, <2>4, AssembledKept DEF Poll, Assembled
  <2> QED
    BY <1>3, <2>5 DEF Poll, RouteInv, Phases
<1>4. ASSUME NEW i \in 1..3, NEW gain \in Gains, SetGain(i, gain) PROVE RouteInv'
  <2>1. Assembled
    BY <1>4 DEF SetGain, RouteInv
  <2>2. /\ DOMAIN pipeline' = DOMAIN pipeline /\ pipeline'.state # "null"
        /\ pipeline'.devices = pipeline.devices
        /\ pipeline'.latency = pipeline.latency
    BY <1>4, <2>1 DEF SetGain, Assembled, Null
  <2>3. Assembled'
    BY <1>4, <2>1, <2>2, AssembledKept DEF SetGain, Assembled
  <2> QED
    BY <1>4, <2>3 DEF SetGain, RouteInv, Phases
<1>5. CASE Stop
  BY <1>5, ReleaseCleans DEF Stop, RouteInv, Phases
<1>6. CASE StopFailed
  BY <1>6, ReleaseCleans DEF StopFailed, RouteInv, Phases
<1>7. CASE Destroy
  BY <1>7, ReleaseCleans DEF Destroy, RouteInv, Phases
<1>8. ASSUME NEW message \in Messages, Post(message) PROVE RouteInv'
  <2>1. ~Clean /\ Assembled
    BY <1>8, InUse DEF Post, Clean
  <2>2. bus' \in Seq(Messages)
    <3>1. message \in Messages /\ bus \in Seq(Messages)
      BY <2>1 DEF Assembled
    <3> QED
      BY <1>8, <3>1 DEF Post
  <2>3. Assembled'
    BY <1>8, <2>1, <2>2, AssembledKept DEF Post, Assembled
  <2> QED
    BY <1>8, <2>1, <2>3, InUse DEF Post, RouteInv
<1>9. ASSUME NEW j \in DOMAIN pipeline.stats, NEW fate \in {"pushed", "lost"}, Packet(j, fate)
      PROVE  RouteInv'
  <2>1. ~Clean /\ Assembled
    BY <1>9, InUse DEF Packet, Clean, Null
  <2>2. /\ DOMAIN pipeline' = DOMAIN pipeline /\ pipeline'.state # "null"
        /\ pipeline'.devices = pipeline.devices
        /\ pipeline'.latency = pipeline.latency
    BY <1>9, <2>1 DEF Packet, Assembled, Null
  <2>3. Assembled'
    BY <1>9, <2>1, <2>2, AssembledKept DEF Packet, Assembled
  <2> QED
    BY <1>9, <2>1, <2>3, InUse DEF Packet, RouteInv
<1>10. CASE UNCHANGED vars
  BY <1>10 DEF vars, RouteInv, Clean, Assembled
<1> QED
  BY <1>1, <1>2, <1>3, <1>4, <1>5, <1>6, <1>7, <1>8, <1>9, <1>10 DEF Next, Messages

\* A route's pipeline, bus, devices and error fit the phase it is in.
THEOREM RouteInvariant == Spec => []RouteInv
BY RouteInvInit, RouteInvStep, PTL DEF Spec

------------------------------------------------------------------------------
(* The properties.                                                         *)

\* Whatever step of a start fails, it leaves a reason and no pipeline, bus or open
\* device (audio_backend.cpp:138-147).
THEOREM RefusalsAreClean == Spec => []RefusalClean
<1>1. RouteInv => RefusalClean
  BY DEF RouteInv, RefusalClean, Clean
<1> QED
  BY <1>1, RouteInvariant, PTL

\* In a running route every endpoint element was told the device its own selector
\* lists (rtp_opus_pipeline.cpp:26-137, 139-153, 255-342), or nothing when it lists
\* none.
THEOREM DevicesAreBound == Spec => []DevicesBound
<1>1. RouteInv => DevicesBound
  <2> SUFFICES ASSUME RouteInv, phase \in {"owned", "reported"}, NEW e \in Endpoints(settings)
               PROVE  IF e.of.form = "full" /\ Filled(e.of) # {}
                      THEN /\ pipeline.devices[e].value = e.of.values[First(Filled(e.of))]
                           /\ \/ pipeline.devices[e].property = First(Filled(e.of))
                              \/ e.of.values[pipeline.devices[e].property] = Empty
                      ELSE pipeline.devices[e] = Default
    BY Zenon DEF DevicesBound
  <2>1. settings \in Requests /\ pipeline.devices = Built(settings).devices
    BY DEF RouteInv, Assembled
  <2>2. pipeline.devices[e] = Opens(settings, e)
    BY <2>1 DEF Built
  <2>3. DOMAIN e.of.values \subseteq 1..3
    BY <2>1, RequestsAssumption DEF Endpoints
  <2>4. CASE e.of.form = "full" /\ Filled(e.of) # {}
    <3>1. ParsedDevice(e.of) = e.of.values[First(Filled(e.of))]
      BY <2>4, Zenon DEF ParsedDevice
    <3>2. pipeline.devices[e] = [property |-> First(DOMAIN e.of.values),
                                 value |-> e.of.values[First(Filled(e.of))]]
      BY <2>1, <2>2, <2>3, <2>4, <3>1, OpensNamed, ToldAsListed, Zenon
    <3>3. /\ pipeline.devices[e].property = First(DOMAIN e.of.values)
          /\ pipeline.devices[e].value = e.of.values[First(Filled(e.of))]
      BY <3>2
    <3> QED
      BY <2>3, <2>4, <3>3, ToldAsListed, Zenon
  <2>5. CASE ~(e.of.form = "full" /\ Filled(e.of) # {})
    <3>1. ParsedDevice(e.of) = Empty
      BY <2>5, Zenon DEF ParsedDevice
    <3> QED
      BY <2>1, <2>2, <2>5, <3>1, OpensNamed, Zenon
  <2> QED
    BY <2>4, <2>5, Zenon
<1> QED
  BY <1>1, RouteInvariant, PTL

\* On every leg that plays, frame, jitter buffer and reserve fit into the latency the
\* user chose (audio_types.hpp:149-158).
THEOREM LatencyIsKept == Spec => []LatencyBudget
<1>1. RouteInv => LatencyBudget
  <2> SUFFICES ASSUME RouteInv, NEW j \in DOMAIN pipeline.latency
               PROVE  LET p == settings.networks[Leg(j)]
                      IN  pipeline.latency[j] + FrameMs(p) + 10 <= p.max_latency
    BY DEF LatencyBudget
  <2>1. ~Clean
    BY DEF Clean, Null
  <2>2. Assembled
    BY <2>1, InUse
  <2>3. j \in JitterBuffers(settings)
    BY <2>2 DEF Assembled, Built
  <2>4. pipeline.latency[j] = JitterMs(settings.networks[Leg(j)])
    BY <2>2, <2>3 DEF Assembled, Built
  <2>5. settings.networks[Leg(j)] \in NetworkProfiles
    BY <2>2, <2>3, LegProfile DEF Assembled, RouteInv
  <2> QED
    BY <2>4, <2>5, ProfileFits
<1> QED
  BY <1>1, RouteInvariant, PTL

------------------------------------------------------------------------------
(* Telemetry.                                                              *)

Counters == [pushed: Nat, lost: Nat]
Fates == {"pushed", "lost"}

\* The legs that have a number.
Legs(s) == IF s.kind = "mixer" THEN Len(s.ports) ELSE 0

\* What the first leg, the only one without a number, counted.
Base(s, stats, fate) == IF s.kind = "mixer" THEN 0 ELSE stats[Jitter(0)][fate]

\* The name of a leg is its number: no two are alike.
LEMMA JittersDiffer == \A i, k : Jitter(i) = Jitter(k) => i = k
BY DEF Jitter

\* The loop of transport_telemetry finds every leg.
LEMMA LastLegIs ==
    ASSUME NEW s \in Requests, JitterBuffers(s) # {},
           NEW stats, DOMAIN stats = JitterBuffers(s)
    PROVE  /\ Legs(s) \in Nat /\ LastLeg(stats) = Legs(s)
           /\ \A k \in 1..Legs(s) : Jitter(k) \in JitterBuffers(s)
           /\ (Jitter(0) \in JitterBuffers(s)) <=> (s.kind # "mixer")
<1> DEFINE n == Legs(s)
           Is(k) == /\ \A i \in 1..k : Jitter(i) \in DOMAIN stats
                    /\ Jitter(k + 1) \notin DOMAIN stats
<1>1. /\ s.kind \in {"receive", "mixer"}
      /\ s.kind = "receive" => n = 0 /\ DOMAIN stats = {Jitter(0)}
      /\ s.kind = "mixer" => /\ n \in Nat /\ n = Len(s.ports)
                             /\ DOMAIN stats = {Jitter(i) : i \in 1..n}
  <2>1. s.ports \in Seq(Nat)
    BY RequestsAssumption
  <2>2. Len(s.ports) \in Nat /\ DOMAIN s.ports = 1..Len(s.ports)
    BY <2>1
  <2> QED
    BY <2>2 DEF JitterBuffers, Legs
<1>2. n \in Nat
  BY <1>1
<1>3. \A k \in Nat \ {0} : Jitter(k) \in DOMAIN stats <=> k \in 1..n
  BY <1>1, JittersDiffer
<1>4. \A j \in DOMAIN stats : j[2] \in 0..n
  BY <1>1, <1>2 DEF Jitter
<1>5. n \in {0} \cup {j[2] : j \in DOMAIN stats}
  <2>1. CASE n # 0
    <3>1. Jitter(n) \in DOMAIN stats /\ Jitter(n)[2] = n
      BY <1>2, <1>3, <2>1 DEF Jitter
    <3> QED
      BY <3>1
  <2> QED
    BY <2>1
<1> HIDE DEF n
<1>6. Is(n)
  <2>1. PICK k \in Nat \ {0} : k = n + 1 /\ k \notin 1..n
    BY <1>2
  <2>2. Jitter(k) \notin DOMAIN stats
    BY <1>3, <2>1
  <2>3. \A i \in 1..n : Jitter(i) \in DOMAIN stats
    BY <1>2, <1>3
  <2> QED
    BY <2>1, <2>2, <2>3
<1>7. ASSUME NEW k \in {0} \cup {j[2] : j \in DOMAIN stats}, Is(k) PROVE k = n
  <2>1. k \in 0..n
    BY <1>2, <1>4
  <2>2. PICK l \in Nat \ {0} : l = k + 1
    BY <1>2, <2>1
  <2>3. l \notin 1..n
    BY <1>3, <1>7, <2>2
  <2> QED
    BY <1>2, <2>1, <2>2, <2>3
<1>8. LastLeg(stats) = n
  <2> HIDE DEF Is
  <2>1. LastLeg(stats) = CHOOSE k \in {0} \cup {j[2] : j \in DOMAIN stats} : Is(k)
    BY DEF LastLeg, Is
  <2> QED
    BY <1>5, <1>6, <1>7, <2>1
<1>9. (Jitter(0) \in JitterBuffers(s)) <=> (s.kind # "mixer")
  BY <1>1, JittersDiffer
<1> QED
  BY <1>2, <1>3, <1>8, <1>9 DEF n

\* What transport_telemetry has collected after each leg.
LEMMA CollectedSteps ==
    ASSUME NEW s \in Requests, JitterBuffers(s) # {},
           NEW stats \in [JitterBuffers(s) -> Counters], NEW fate \in Fates
    PROVE  \E g : /\ g[0] = Base(s, stats, fate)
                  /\ \A k \in 1..Legs(s) : g[k] = g[k - 1] + stats[Jitter(k)][fate]
                  /\ \A k \in 0..Legs(s) : g[k] \in Nat
                  /\ Collected(stats, fate) = g[Legs(s)]
<1> DEFINE n == Legs(s)
           base == Base(s, stats, fate)
           count == [k \in 1..n |-> stats[Jitter(k)][fate]]
           turn == [k \in 1..n |-> [x \in Nat |-> x + count[k]]]
           T == [k \in 0..n |-> Nat]
           Is(g) == g = [k \in 0..n |-> IF k > 0 THEN g[k - 1] + stats[Jitter(k)][fate]
                                        ELSE IF Jitter(0) \in DOMAIN stats
                                             THEN stats[Jitter(0)][fate] ELSE 0]
           upTo == CHOOSE g : Is(g)
<1>1. /\ n \in Nat /\ LastLeg(stats) = n
      /\ \A k \in 1..n : Jitter(k) \in JitterBuffers(s)
      /\ (Jitter(0) \in JitterBuffers(s)) <=> (s.kind # "mixer")
  BY LastLegIs
<1>2. \A j \in JitterBuffers(s) : stats[j][fate] \in Nat
  BY DEF Counters, Fates
<1>3. base = IF Jitter(0) \in DOMAIN stats THEN stats[Jitter(0)][fate] ELSE 0
  BY <1>1 DEF Base
<1>4. base \in Nat
  BY <1>2, <1>3
<1>5. \A k \in 1..n : count[k] \in Nat /\ count[k] = stats[Jitter(k)][fate]
  BY <1>1, <1>2
<1>6. Collected(stats, fate) = upTo[n]
  BY <1>1 DEF Collected
<1> HIDE DEF n, base, count
<1>7. \A k \in 0..n : T[k] = Nat
  OBVIOUS
<1>8. Climbs(n, T, turn)
  <2>1. ASSUME NEW k \in 1..n, NEW x \in T[k - 1] PROVE turn[k][x] \in T[k]
    <3>1. k \in 0..n /\ k - 1 \in 0..n
      BY <1>1
    <3>2. x \in Nat /\ T[k] = Nat
      BY <1>7, <3>1
    <3>3. turn[k][x] = x + count[k]
      BY <3>2
    <3> HIDE DEF T, turn
    <3> QED
      BY <1>5, <3>2, <3>3
  <2> HIDE DEF T, turn
  <2> QED
    BY <2>1 DEF Climbs
<1>9. base \in T[0]
  BY <1>1, <1>4, <1>7
<1> HIDE DEF T
<1>10. PICK g : /\ g = [k \in 0..n |-> IF k = 0 THEN base ELSE turn[k][g[k - 1]]]
                /\ \A k \in 0..n : g[k] \in T[k]
  <2> HIDE DEF turn
  <2>1. \E g : Follows(g, n, T, base, turn)
    BY <1>1, <1>8, <1>9, RecursionFollows
  <2> QED
    BY <2>1 DEF Follows
<1>11. Is(g)
  <2>1. ASSUME NEW k \in 0..n
        PROVE  g[k] = IF k > 0 THEN g[k - 1] + stats[Jitter(k)][fate]
                      ELSE IF Jitter(0) \in DOMAIN stats THEN stats[Jitter(0)][fate] ELSE 0
    <3>1. CASE k = 0
      <4>1. g[k] = base
        BY <1>10, <3>1
      <4> QED
        BY <1>3, <3>1, <4>1
    <3>2. CASE k # 0
      <4>1. k \in 1..n /\ k - 1 \in 0..n /\ k > 0
        BY <1>1, <3>2
      <4>2. g[k - 1] \in Nat
        BY <1>7, <1>10, <4>1
      <4>3. g[k] = turn[k][g[k - 1]]
        BY <1>10, <3>2
      <4>4. turn[k][g[k - 1]] = g[k - 1] + count[k]
        BY <4>1, <4>2
      <4> HIDE DEF turn
      <4> QED
        BY <1>5, <4>1, <4>3, <4>4
    <3> QED
      BY <3>1, <3>2
  <2>2. g = [k \in 0..n |-> g[k]]
    BY <1>10
  <2> QED
    BY <2>1, <2>2
<1>12. Is(upTo)
  BY <1>11
<1> HIDE DEF upTo
<1>13. upTo[0] = base /\ \A k \in 1..n : upTo[k] = upTo[k - 1] + stats[Jitter(k)][fate]
  <2>1. upTo[0] = base
    BY <1>1, <1>3, <1>12
  <2>2. ASSUME NEW k \in 1..n PROVE upTo[k] = upTo[k - 1] + stats[Jitter(k)][fate]
    <3>1. k \in 0..n /\ k > 0
      BY <1>1
    <3> QED
      BY <1>12, <3>1
  <2> QED
    BY <2>1, <2>2
<1>14. \A k \in 0..n : upTo[k] \in Nat
  <2> DEFINE K == {k \in 0..n : upTo[k] \in Nat}
  <2>1. 0 \in K
    BY <1>1, <1>4, <1>13
  <2>2. ASSUME NEW k \in 1..n, k - 1 \in K PROVE k \in K
    <3>1. upTo[k - 1] \in Nat /\ stats[Jitter(k)][fate] \in Nat /\ k \in 0..n
      BY <1>1, <1>2, <2>2
    <3> QED
      BY <1>13, <3>1
  <2> HIDE DEF K
  <2>3. 0..n \subseteq K
    BY <1>1, <2>1, <2>2, Counting
  <2> QED
    BY <2>3 DEF K
<1> QED
  BY <1>6, <1>13, <1>14 DEF n, base

\* Legs that counted nothing add up to nothing.
LEMMA CollectedZero ==
    ASSUME NEW s \in Requests, JitterBuffers(s) # {}, NEW fate \in Fates,
           NEW stats \in [JitterBuffers(s) -> Counters],
           \A j \in JitterBuffers(s) : stats[j][fate] = 0
    PROVE  Collected(stats, fate) = 0
<1> DEFINE n == Legs(s)
<1>1. PICK g : /\ g[0] = Base(s, stats, fate)
               /\ \A k \in 1..n : g[k] = g[k - 1] + stats[Jitter(k)][fate]
               /\ Collected(stats, fate) = g[n]
  BY CollectedSteps
<1>2. /\ n \in Nat
      /\ \A k \in 1..n : Jitter(k) \in JitterBuffers(s)
      /\ (Jitter(0) \in JitterBuffers(s)) <=> (s.kind # "mixer")
  BY LastLegIs
<1> HIDE DEF n
<1> DEFINE K == {k \in 0..n : g[k] = 0}
<1>3. 0 \in K
  BY <1>1, <1>2 DEF Base
<1>4. ASSUME NEW k \in 1..n, k - 1 \in K PROVE k \in K
  <2>1. stats[Jitter(k)][fate] = 0 /\ k \in 0..n
    BY <1>2
  <2> QED
    BY <1>1, <1>4, <2>1
<1> HIDE DEF K
<1>5. 0..n \subseteq K
  BY <1>2, <1>3, <1>4, Counting
<1>6. n \in K
  BY <1>2, <1>5
<1> QED
  BY <1>1, <1>6 DEF K

\* A packet counted by one leg is counted once.
LEMMA CollectedMore ==
    ASSUME NEW s \in Requests, NEW j \in JitterBuffers(s), NEW fate \in Fates,
           NEW stats \in [JitterBuffers(s) -> Counters], NEW next \in [JitterBuffers(s) -> Counters],
           next[j][fate] = stats[j][fate] + 1,
           \A i \in JitterBuffers(s) \ {j} : next[i][fate] = stats[i][fate]
    PROVE  Collected(next, fate) = Collected(stats, fate) + 1
<1> DEFINE n == Legs(s)
<1>0. JitterBuffers(s) # {}
  OBVIOUS
<1>1. PICK g : /\ g[0] = Base(s, stats, fate)
               /\ \A k \in 1..n : g[k] = g[k - 1] + stats[Jitter(k)][fate]
               /\ \A k \in 0..n : g[k] \in Nat
               /\ Collected(stats, fate) = g[n]
  BY <1>0, CollectedSteps
<1>2. PICK h : /\ h[0] = Base(s, next, fate)
               /\ \A k \in 1..n : h[k] = h[k - 1] + next[Jitter(k)][fate]
               /\ \A k \in 0..n : h[k] \in Nat
               /\ Collected(next, fate) = h[n]
  BY <1>0, CollectedSteps
<1>3. /\ n \in Nat
      /\ \A k \in 1..n : Jitter(k) \in JitterBuffers(s)
      /\ (Jitter(0) \in JitterBuffers(s)) <=> (s.kind # "mixer")
  <2>1. DOMAIN stats = JitterBuffers(s)
    OBVIOUS
  <2> QED
    BY <1>0, <2>1, LastLegIs
<1>4. PICK m \in 0..n : j = Jitter(m) /\ (m = 0 <=> s.kind # "mixer")
  <2>1. CASE s.kind = "receive"
    <3>1. j = Jitter(0) /\ 0 \in 0..n
      BY <1>3, <2>1 DEF JitterBuffers
    <3> QED
      BY <2>1, <3>1
  <2>2. CASE s.kind = "mixer"
    <3>1. n = Len(s.ports) /\ DOMAIN s.ports = 1..n
      BY <2>2, RequestsAssumption DEF Legs
    <3>2. PICK m \in 1..n : j = Jitter(m)
      BY <2>2, <3>1 DEF JitterBuffers
    <3> QED
      BY <1>3, <2>2, <3>2
  <2> QED
    BY <2>1, <2>2 DEF JitterBuffers
<1>5. \A i \in JitterBuffers(s) : stats[i][fate] \in Nat /\ next[i][fate] \in Nat
  BY DEF Counters, Fates
<1> HIDE DEF n
<1> DEFINE K == {k \in 0..n : h[k] = g[k] + (IF m <= k THEN 1 ELSE 0)}
<1>6. 0 \in K
  <2>1. CASE m = 0
    <3>1. Base(s, stats, fate) = stats[j][fate] /\ Base(s, next, fate) = next[j][fate]
      BY <1>4, <2>1 DEF Base
    <3> QED
      BY <1>1, <1>2, <1>3, <1>5, <2>1, <3>1
  <2>2. CASE m # 0
    <3>1. Base(s, stats, fate) = 0 /\ Base(s, next, fate) = 0
      BY <1>4, <2>2 DEF Base
    <3>2. ~(m <= 0)
      BY <1>3, <2>2
    <3> QED
      BY <1>1, <1>2, <1>3, <3>1, <3>2
  <2> QED
    BY <2>1, <2>2
<1>7. ASSUME NEW k \in 1..n, k - 1 \in K PROVE k \in K
  <2>1. PICK x \in Nat, y \in Nat : x = g[k - 1] /\ y = h[k - 1]
    BY <1>1, <1>2, <1>3
  <2>2. y = x + (IF m <= k - 1 THEN 1 ELSE 0)
    BY <1>7, <2>1
  <2>3. PICK u \in Nat, v \in Nat : u = stats[Jitter(k)][fate] /\ v = next[Jitter(k)][fate]
    BY <1>3, <1>5
  <2>4. g[k] = x + u /\ h[k] = y + v
    BY <1>1, <1>2, <2>1, <2>3
  <2>5. v = u + (IF m = k THEN 1 ELSE 0)
    <3>1. CASE m = k
      BY <1>4, <2>3, <3>1
    <3>2. CASE m # k
      <4>1. Jitter(k) \in JitterBuffers(s) \ {j}
        BY <1>3, <1>4, <3>2, JittersDiffer
      <4> QED
        BY <2>3, <3>2, <4>1
    <3> QED
      BY <3>1, <3>2
  <2>6. k \in 0..n /\ y + v = x + u + (IF m <= k THEN 1 ELSE 0)
    BY <1>3, <2>2, <2>5
  <2> QED
    BY <2>4, <2>6
<1> HIDE DEF K
<1>8. 0..n \subseteq K
  BY <1>3, <1>6, <1>7, Counting
<1>9. n \in K /\ m <= n
  BY <1>3, <1>8
<1> QED
  BY <1>1, <1>2, <1>9 DEF K

\* What one fate of a packet counts, the other does not.
LEMMA CollectedSame ==
    ASSUME NEW s \in Requests, JitterBuffers(s) # {}, NEW fate \in Fates,
           NEW stats \in [JitterBuffers(s) -> Counters], NEW next \in [JitterBuffers(s) -> Counters],
           \A i \in JitterBuffers(s) : next[i][fate] = stats[i][fate]
    PROVE  Collected(next, fate) = Collected(stats, fate)
<1> DEFINE n == Legs(s)
<1>1. PICK g : /\ g[0] = Base(s, stats, fate)
               /\ \A k \in 1..n : g[k] = g[k - 1] + stats[Jitter(k)][fate]
               /\ Collected(stats, fate) = g[n]
  BY CollectedSteps
<1>2. PICK h : /\ h[0] = Base(s, next, fate)
               /\ \A k \in 1..n : h[k] = h[k - 1] + next[Jitter(k)][fate]
               /\ Collected(next, fate) = h[n]
  BY CollectedSteps
<1>3. /\ n \in Nat
      /\ \A k \in 1..n : Jitter(k) \in JitterBuffers(s)
      /\ (Jitter(0) \in JitterBuffers(s)) <=> (s.kind # "mixer")
  <2>1. DOMAIN stats = JitterBuffers(s)
    OBVIOUS
  <2> QED
    BY <2>1, LastLegIs
<1> HIDE DEF n
<1> DEFINE K == {k \in 0..n : h[k] = g[k]}
<1>4. 0 \in K
  BY <1>1, <1>2, <1>3 DEF Base
<1>5. ASSUME NEW k \in 1..n, k - 1 \in K PROVE k \in K
  <2>1. next[Jitter(k)][fate] = stats[Jitter(k)][fate] /\ k \in 0..n
    BY <1>3
  <2> QED
    BY <1>1, <1>2, <1>5, <2>1
<1> HIDE DEF K
<1>6. 0..n \subseteq K
  BY <1>3, <1>4, <1>5, Counting
<1>7. n \in K
  BY <1>3, <1>6
<1> QED
  BY <1>1, <1>2, <1>7 DEF K

\* Telemetry follows the packets of every leg; a route made anew starts from none.
CountInv ==
    /\ packets \in Counters
    /\ phase = "parse" => packets = [pushed |-> 0, lost |-> 0]
    /\ pipeline # Null =>
          /\ DOMAIN pipeline = DOMAIN Null
          /\ pipeline.stats \in [JitterBuffers(settings) -> Counters]
          /\ JitterBuffers(settings) # {} =>
                 \A fate \in Fates : Collected(pipeline.stats, fate) = packets[fate]

\* A step that leaves settings, packets and counters alone, or drops the pipeline.
LEMMA CountKept ==
    ASSUME CountInv, packets' = packets, phase' # "parse",
           pipeline' = Null \/ (/\ pipeline # Null /\ DOMAIN pipeline' = DOMAIN pipeline
                               /\ pipeline'.stats = pipeline.stats /\ settings' = settings)
    PROVE  CountInv'
BY DEF CountInv

LEMMA CountInvStep == RouteInv /\ CountInv /\ [Next]_vars => CountInv'
<1> SUFFICES ASSUME RouteInv, CountInv, [Next]_vars PROVE CountInv'
  OBVIOUS
<1>1. ASSUME NEW s \in Requests, Create(s) PROVE CountInv'
  <2>1. pipeline' = Null
    BY <1>1 DEF Create, RouteInv, Clean
  <2>2. packets' = [pushed |-> 0, lost |-> 0]
    BY <1>1 DEF Create
  <2> QED
    BY <2>1, <2>2 DEF CountInv, Counters
<1>2. CASE Parse
  <2>1. /\ pipeline' = Built(settings) /\ settings' = settings /\ packets' = packets
        /\ phase' = "play" /\ packets = [pushed |-> 0, lost |-> 0] /\ settings \in Requests
    BY <1>2 DEF Parse, CountInv, RouteInv
  <2> DEFINE stats == [j \in JitterBuffers(settings) |-> [pushed |-> 0, lost |-> 0]]
  <2>2. DOMAIN pipeline' = DOMAIN Null /\ pipeline'.stats = stats
    BY <2>1 DEF Built, Null
  <2>3. stats \in [JitterBuffers(settings) -> Counters]
    BY DEF Counters
  <2>4. \A fate \in Fates : \A j \in JitterBuffers(settings) : stats[j][fate] = 0
    BY DEF Fates
  <2> HIDE DEF stats
  <2>5. ASSUME JitterBuffers(settings) # {}, NEW fate \in Fates
        PROVE  Collected(pipeline'.stats, fate) = packets'[fate]
    <3>1. Collected(stats, fate) = 0
      BY <2>1, <2>3, <2>4, <2>5, CollectedZero
    <3> QED
      BY <2>1, <2>2, <3>1 DEF Fates
  <2> QED
    BY <2>1, <2>2, <2>3, <2>5 DEF CountInv, Counters
<1>3. ASSUME NEW j \in DOMAIN pipeline.stats, NEW fate \in Fates, Packet(j, fate)
      PROVE  CountInv'
  <2> DEFINE stats == pipeline.stats
             next == pipeline'.stats
             other == IF fate = "pushed" THEN "lost" ELSE "pushed"
  <2>1. pipeline # Null /\ settings' = settings /\ phase' = phase
    BY <1>3 DEF Packet, Null
  <2>2. /\ settings \in Requests /\ phase # "parse"
        /\ DOMAIN pipeline = DOMAIN Null /\ stats \in [JitterBuffers(settings) -> Counters]
        /\ packets \in Counters
    BY <2>1 DEF CountInv, RouteInv, Clean
  <2>3. /\ DOMAIN pipeline' = DOMAIN Null /\ next = [stats EXCEPT ![j][fate] = @ + 1]
        /\ packets' = [packets EXCEPT ![fate] = @ + 1]
    BY <1>3, <2>2 DEF Packet, Null
  <2> HIDE DEF next
  <2>4. /\ j \in JitterBuffers(settings) /\ other \in Fates /\ other # fate
        /\ \A f \in Fates : f = fate \/ f = other
    BY <1>3, <2>2 DEF Fates
  <2> HIDE DEF stats, other
  <2>5. /\ next \in [JitterBuffers(settings) -> Counters] /\ packets' \in Counters
        /\ next[j][fate] = stats[j][fate] + 1
        /\ \A i \in JitterBuffers(settings) \ {j} : next[i][fate] = stats[i][fate]
        /\ \A i \in JitterBuffers(settings) : next[i][other] = stats[i][other]
        /\ packets'[fate] = packets[fate] + 1 /\ packets'[other] = packets[other]
    BY <1>3, <2>2, <2>3, <2>4 DEF Counters, Fates
  <2>6. /\ Collected(next, fate) = Collected(stats, fate) + 1
        /\ Collected(next, other) = Collected(stats, other)
    BY <1>3, <2>2, <2>4, <2>5, CollectedMore, CollectedSame
  <2>7. \A f \in Fates : Collected(stats, f) = packets[f]
    BY <2>1, <2>4 DEF CountInv, stats
  <2>8. \A f \in Fates : Collected(next, f) = packets'[f]
    BY <1>3, <2>4, <2>5, <2>6, <2>7
  <2> QED
    BY <2>1, <2>2, <2>3, <2>5, <2>8 DEF CountInv, next
<1>4. CASE StartStep /\ ~Parse
  <2>1. CASE ParseFails
    BY <2>1, CountKept DEF ParseFails, RouteInv, Clean
  <2>2. CASE Play
    <3>1. pipeline # Null => DOMAIN pipeline' = DOMAIN pipeline /\ pipeline'.stats = pipeline.stats
      BY <2>2 DEF Play, CountInv, Null
    <3>2. pipeline # Null /\ phase' # "parse" /\ packets' = packets /\ settings' = settings
      BY <2>2 DEF Play, RouteInv, Assembled, Null
    <3> QED
      BY <3>1, <3>2, CountKept
  <2>3. CASE Wait
    BY <2>3, CountKept DEF Wait
  <2>4. CASE Started
    BY <2>4, CountKept DEF Started
  <2>5. CASE Refuse
    BY <2>5, CountKept DEF Refuse, Release
  <2> QED
    BY <1>4, <2>1, <2>2, <2>3, <2>4, <2>5 DEF StartStep
<1>5. CASE Poll
  BY <1>5, CountKept DEF Poll
<1>6. ASSUME NEW i \in 1..3, NEW gain \in Gains, SetGain(i, gain) PROVE CountInv'
  <2>1. pipeline # Null => DOMAIN pipeline' = DOMAIN pipeline /\ pipeline'.stats = pipeline.stats
    BY <1>6 DEF SetGain, CountInv, Null
  <2>2. pipeline # Null /\ phase' # "parse" /\ packets' = packets /\ settings' = settings
    BY <1>6 DEF SetGain, RouteInv, Assembled, Null
  <2> QED
    BY <2>1, <2>2, CountKept
<1>7. CASE Stop
  BY <1>7, CountKept DEF Stop, Release
<1>8. CASE StopFailed
  BY <1>8, CountKept DEF StopFailed, Release
<1>9. CASE Destroy
  BY <1>9, CountKept DEF Destroy, Release
<1>10. ASSUME NEW message \in Messages, Post(message) PROVE CountInv'
  BY <1>10, CountKept DEF Post, RouteInv, Clean
<1>11. CASE UNCHANGED vars
  BY <1>11 DEF vars, CountInv
<1> QED
  BY <1>1, <1>2, <1>3, <1>4, <1>5, <1>6, <1>7, <1>8, <1>9, <1>10, <1>11 DEF Next, Messages, Fates

\* The counters of a route are of the legs its settings name, and what telemetry
\* collects of them is what the legs counted.
THEOREM CountInvariant == Spec => []CountInv
<1>1. Init => CountInv
  BY DEF Init, CountInv, Counters
<1> QED
  BY <1>1, CountInvStep, RouteInvariant, PTL DEF Spec

\* Telemetry counts the packets of every leg of a running receiver or mixer once,
\* for any number of legs, and is absent for other routes
\* (rtp_opus_pipeline.cpp:349-379).
THEOREM TelemetryCounts == Spec => []TelemetryCountsEveryLeg
<1>1. RouteInv /\ CountInv => TelemetryCountsEveryLeg
  <2> SUFFICES ASSUME RouteInv, CountInv, phase \in {"owned", "reported"}
               PROVE  IF JitterBuffers(settings) = {} THEN transport_telemetry = NoTelemetry
                      ELSE /\ transport_telemetry.received = packets.pushed
                           /\ transport_telemetry.lost = packets.lost
    BY DEF TelemetryCountsEveryLeg
  <2>1. settings \in Requests /\ pipeline # Null
    BY DEF RouteInv, Assembled, Null
  <2>2. DOMAIN pipeline.stats = JitterBuffers(settings)
    BY <2>1 DEF CountInv
  <2>3. CASE JitterBuffers(settings) = {}
    BY <2>2, <2>3 DEF transport_telemetry
  <2>4. CASE JitterBuffers(settings) # {}
    <3>1. /\ Collected(pipeline.stats, "pushed") = packets.pushed
          /\ Collected(pipeline.stats, "lost") = packets.lost
      BY <2>1, <2>4 DEF CountInv, Fates
    <3>2. {Jitter(0), Jitter(1)} \cap DOMAIN pipeline.stats # {}
      <4>1. CASE settings.kind = "receive"
        BY <2>2, <4>1 DEF JitterBuffers
      <4>2. CASE settings.kind = "mixer"
        <5>1. PICK n \in Nat : n = Len(settings.ports) /\ DOMAIN settings.ports = 1..n
          BY <2>1, RequestsAssumption
        <5>2. 1 \in DOMAIN settings.ports
          BY <2>4, <4>2, <5>1 DEF JitterBuffers
        <5> QED
          BY <2>2, <4>2, <5>2 DEF JitterBuffers
      <4> QED
        BY <2>4, <4>1, <4>2 DEF JitterBuffers
    <3> QED
      BY <2>4, <3>1, <3>2 DEF transport_telemetry
  <2> QED
    BY <2>3, <2>4
<1> QED
  BY <1>1, RouteInvariant, CountInvariant, PTL

------------------------------------------------------------------------------
(* The refinement of AudioRoute.                                           *)

LEMMA ContractInit == Init => Contract!Init
BY DEF Init, Contract!Init, Route

\* Every step of the pipeline is a step of the contract or none the consumer sees.
LEMMA ContractStep == RouteInv /\ [Next]_vars => [Contract!Next]_(Contract!vars)
<1> SUFFICES ASSUME RouteInv, [Next]_vars PROVE [Contract!Next]_(Contract!vars)
  OBVIOUS
<1> USE DEF Contract!vars, Route
<1>1. ASSUME NEW s \in Requests, Create(s) PROVE UNCHANGED Contract!vars
  BY <1>1 DEF Create
<1>2. CASE ParseFails \/ Parse
  BY <1>2 DEF ParseFails, Parse
<1>3. CASE Play
  BY <1>3 DEF Play
<1>4. CASE Wait
  BY <1>4 DEF Wait
<1>5. CASE Started
  BY <1>5 DEF Started, Contract!Next, Contract!Create
<1>6. CASE Refuse
  BY <1>6 DEF Refuse
<1>7. CASE Poll
  BY <1>7 DEF Poll, Contract!Next, Contract!Poll
<1>8. ASSUME NEW i \in 1..3, NEW gain \in Gains, SetGain(i, gain) PROVE UNCHANGED Contract!vars
  BY <1>8 DEF SetGain
<1>9. CASE Stop \/ StopFailed
  BY <1>9 DEF Stop, StopFailed, Contract!Next, Contract!Stop
<1>10. CASE Destroy
  BY <1>10 DEF Destroy, Contract!Next, Contract!Destroy
<1>11. ASSUME NEW message \in Messages, Post(message)
       PROVE  [Contract!Next]_(Contract!vars)
  <2>1. bus \in Seq(Messages)
    BY <1>11, InUse DEF Post, Clean, Assembled
  <2>2. bus' # << >>
    BY <1>11, <2>1 DEF Post
  <2> QED
    BY <1>11, <2>2 DEF Post, Contract!Next, Contract!Fail
<1>12. ASSUME NEW j \in DOMAIN pipeline.stats, NEW fate \in {"pushed", "lost"}, Packet(j, fate)
       PROVE  UNCHANGED Contract!vars
  BY <1>12 DEF Packet
<1>13. CASE UNCHANGED vars
  BY <1>13 DEF vars
<1> QED
  BY <1>1, <1>2, <1>3, <1>4, <1>5, <1>6, <1>7, <1>8, <1>9, <1>10, <1>11, <1>12, <1>13
     DEF Next, StartStep, Messages

\* A route keeps the promises of the AudioRoute interface (audio_backend.hpp): the
\* consumer sees all of a start or nothing, and a failure is told by the first poll
\* after it.
THEOREM RoutesImplementTheirInterface == Spec => Implements
<1>1. Implements <=> Contract!Spec
  BY DEF Implements
<1> QED
  BY <1>1, RouteInvariant, ContractInit, ContractStep, PTL DEF Spec, Contract!Spec
=============================================================================
