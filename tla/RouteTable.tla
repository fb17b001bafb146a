----------------------------- MODULE RouteTable -----------------------------
(***************************************************************************)
(* The route table of the Web UI server (src/src/web/web_server.cpp,       *)
(* WebServer::Impl) and the pipelines it owns (src/src/gstreamer).         *)
(*                                                                         *)
(* An ActiveRoute keeps the same facts several times: the settings it can  *)
(* be rebuilt from, the network_profile and mixer_inputs that /api/routes  *)
(* shows, and the pipeline that plays.  Every request handler is one       *)
(* action, as is the poll that follows each turn of the serving loop.  A   *)
(* refused request changes none of these variables (only the error text,   *)
(* which is left out), so it is a stuttering step and has no disjunct.     *)
(*                                                                         *)
(* Of the settings only what the properties tell apart is kept: the kind,  *)
(* the network profile of each leg and the gain of each mixer input, in    *)
(* percent.  Hosts, ports and devices are left out; start_* refusing them, *)
(* like a device or socket that cannot be opened, is a start that fails.   *)
(***************************************************************************)
EXTENDS Integers, Sequences, FiniteSets

CONSTANTS
    Profiles,         \* the valid NetworkProfile values
    NoProfile,        \* network_profile == std::nullopt
    GainInputs,       \* the gains (percent) clients ask for, legal or not
    NaN,              \* what std::stod returns for "nan"
    MaxInputs,        \* bound: most inputs of one matrix or mixer
    MaxRoutes         \* bound: most routes ever started

ASSUME RouteTableAssumption ==
    /\ NoProfile \notin Profiles
    /\ NaN \notin Int
    /\ GainInputs \subseteq Int \cup {NaN}
    /\ MaxInputs \in Nat
    /\ MaxRoutes \in Nat

VARIABLES
    routes,           \* Impl::routes
    next_route_id,    \* Impl::next_route_id
    telemetry,        \* PairingService::local_telemetry
    sync_due          \* two seconds passed since last_telemetry_sync

vars == <<routes, next_route_id, telemetry, sync_due>>

------------------------------------------------------------------------------
(* Settings: one leg per RTP stream, one gain per mixer input.             *)

Kinds == {"matrix", "send", "receive", "mixer"}
Unity == 100
GainValues == (0..200) \cup {NaN}

Uniform(n, value) == [i \in 1..n |-> value]

MatrixSettings(n)    == [kind |-> "matrix", networks |-> << >>, gains |-> Uniform(n, Unity)]
SenderSettings(p)    == [kind |-> "send", networks |-> <<p>>, gains |-> << >>]
ReceiverSettings(p)  == [kind |-> "receive", networks |-> <<p>>, gains |-> << >>]
MixerSettings(n, p)  == [kind |-> "mixer", networks |-> Uniform(n, p), gains |-> Uniform(n, Unity)]

\* Mutant of OutOfRange: the upper limit is off by one.
OutOfRangeByOne(gain) == gain # NaN /\ (gain < 0 \/ gain > 201)

\* A comparison with a NaN is false, so the range test lets it pass.
OutOfRange(gain) == gain # NaN /\ (gain < 0 \/ gain > 200)

\* The checks start_local_matrix and start_network_mixer make on the settings.
Startable(settings) ==
    /\ settings.kind = "matrix" => Len(settings.gains) >= 1
    /\ settings.kind = "mixer"  => Len(settings.gains) >= 2
    /\ \A i \in DOMAIN settings.gains : ~OutOfRange(settings.gains[i])

(* Pipelines: item.route is null, or stopped (its GstElement released), or  *)
(* playing, or failed with the error still waiting on the bus.             *)

NoRoute == [state |-> "null", networks |-> << >>, gains |-> << >>]
Stopped == [state |-> "stopped", networks |-> << >>, gains |-> << >>]
Playing(settings) ==
    [state |-> "playing", networks |-> settings.networks, gains |-> settings.gains]

\* Mutant of PollOk: the bus is never read.
PollOkAlways(route) == route.state \in {"playing", "failed"}

\* RtpOpusPipeline::poll finds no error and no end of stream.
PollOk(route) == route.state = "playing"

\* transport_telemetry returns a value: a pipeline with a jitter buffer.
HasTransport(item) == item.settings.kind \in {"receive", "mixer"}

\* The routes /api/routes lists under an id (the handlers stop at the first).
Positions(id) == {k \in DOMAIN routes : routes[k].id = id}

------------------------------------------------------------------------------
(* Telemetry: whose it is, the profile it reports, measured or announced.  *)

Idle == [id |-> 0, profile |-> NoProfile, measured |-> FALSE]
Report(id, profile, measured) == [id |-> id, profile |-> profile, measured |-> measured]

\* The entries poll_routes_and_sync_telemetry reports from, the first wins.
Live(table) ==
    {k \in DOMAIN table : /\ table[k].enabled
                          /\ table[k].route.state # "null"
                          /\ table[k].network_profile # NoProfile
                          /\ HasTransport(table[k])}

Init ==
    /\ routes = << >>
    /\ next_route_id = 1
    /\ telemetry = Idle
    /\ sync_due = TRUE

\* The table entry push_back stores for a route that started.
NewRoute(settings, profile) ==
    [id |-> next_route_id, enabled |-> TRUE, settings |-> settings,
     network_profile |-> profile, route |-> Playing(settings),
     mixer_inputs |-> settings.gains]

\* Mutant of Add: ids are positions in the table.
AddByPosition(settings, profile) ==
    /\ next_route_id <= MaxRoutes
    /\ Startable(settings)
    /\ routes' = Append(routes, NewRoute(settings, profile))
    /\ next_route_id' = Len(routes') + 1

\* add_route and add_network_route when the backend starts the route.
Add(settings, profile) ==
    /\ next_route_id <= MaxRoutes
    /\ Startable(settings)
    /\ routes' = Append(routes, NewRoute(settings, profile))
    /\ next_route_id' = next_route_id + 1

\* POST /api/matrix.
ApiMatrix(n) == Add(MatrixSettings(n), NoProfile) /\ UNCHANGED <<telemetry, sync_due>>

\* POST /api/network/send and /api/network/receive: telemetry without loss.
ApiNetworkSend(p) ==
    /\ Add(SenderSettings(p), p)
    /\ telemetry' = Report(next_route_id, p, FALSE)
    /\ UNCHANGED sync_due

ApiNetworkReceive(p) ==
    /\ Add(ReceiverSettings(p), p)
    /\ telemetry' = Report(next_route_id, p, FALSE)
    /\ UNCHANGED sync_due

\* The local half of POST /api/paired/route and start_remote_command.
PairedRoute(p) ==
    /\ \/ Add(SenderSettings(p), p)
       \/ Add(ReceiverSettings(p), p)
    /\ UNCHANGED <<telemetry, sync_due>>

\* The local half of POST /api/paired/mixer.
PairedMixer(n, p) == Add(MixerSettings(n, p), p) /\ UNCHANGED <<telemetry, sync_due>>

------------------------------------------------------------------------------
(* Requests on an existing route.  Ids are unique (OrderedIds), so the loop *)
(* that stops at the first match finds the only one.                       *)

\* Mutant of Stop: the pipeline is left running.
StopForgotten(route) == route

\* AudioRoute::stop through a possibly null pointer.
Stop(route) == IF route.state = "null" THEN NoRoute ELSE Stopped

\* set_route_mixer_gain past its guards: pipeline, settings, displayed value.
GainEdited(item, input, gain) ==
    [item EXCEPT !.mixer_inputs[input] = gain,
                 !.settings.gains[input] = gain,
                 !.route = IF item.enabled THEN [@ EXCEPT !.gains[input] = gain] ELSE @]

\* POST /api/routes/<id>/mixer/gain.
SetMixerGain(id, input, gain) ==
    \E k \in Positions(id) :
        /\ ~OutOfRange(gain)
        /\ input \in DOMAIN routes[k].mixer_inputs
        /\ routes[k].enabled => input \in DOMAIN routes[k].route.gains
        /\ routes' = [routes EXCEPT ![k] = GainEdited(@, input, gain)]
        /\ UNCHANGED <<next_route_id, telemetry, sync_due>>

\* POST /api/routes/<id>/toggle: a resume rebuilds the pipeline from the
\* settings (and is refused when that fails), a pause stops it.
SetEnabled(id, enable) ==
    \E k \in Positions(id) :
        /\ routes[k].enabled # enable
        /\ enable => Startable(routes[k].settings)
        /\ routes' = [routes EXCEPT
                        ![k].enabled = enable,
                        ![k].route = IF enable THEN Playing(routes[k].settings) ELSE Stop(@)]
        /\ UNCHANGED <<next_route_id, telemetry, sync_due>>

\* Mutant of Retuned: only the first leg of the settings gets the profile.
RetunedFirstLeg(item, profile) ==
    [item EXCEPT !.network_profile = profile,
                 !.settings.networks = [@ EXCEPT ![1] = profile]]

\* The route with its profile replaced in the display and in every leg.
Retuned(item, profile) ==
    [item EXCEPT !.network_profile = profile,
                 !.settings.networks = [i \in DOMAIN @ |-> profile]]

\* Mutant of RestartFailed: the entry stays enabled.
RestartFailedEnabled(item) == [item EXCEPT !.route = NoRoute]

\* update_network_route when the restart fails: released, null, shown paused.
RestartFailed(item) == [item EXCEPT !.enabled = FALSE, !.route = NoRoute]

\* POST /api/routes/<id>/profile: a paused route is only retuned; an enabled
\* one has its pipeline destroyed and started again, which may fail.
UpdateProfile(id, profile) ==
    \E k \in Positions(id) :
        /\ routes[k].network_profile # NoProfile
        /\ LET item == Retuned(routes[k], profile) IN
           \/ /\ ~item.enabled
              /\ routes' = [routes EXCEPT ![k] = item]
           \/ /\ item.enabled
              /\ Startable(item.settings)
              /\ routes' = [routes EXCEPT ![k] = [item EXCEPT !.route = Playing(item.settings)]]
           \/ /\ item.enabled
              /\ routes' = [routes EXCEPT ![k] = RestartFailed(item)]
        /\ UNCHANGED <<next_route_id, telemetry, sync_due>>

\* The vector without its k-th element.
Without(s, k) == [i \in 1..(Len(s) - 1) |-> IF i < k THEN s[i] ELSE s[i + 1]]

\* POST /api/routes/<id>/delete.
EraseRoute(id) ==
    /\ \E k \in Positions(id) : routes' = Without(routes, k)
    /\ UNCHANGED <<next_route_id, telemetry, sync_due>>

\* POST /api/stop: the only request that resets telemetry.
StopAll ==
    /\ routes' = << >>
    /\ telemetry' = Idle
    /\ UNCHANGED <<next_route_id, sync_due>>

------------------------------------------------------------------------------
(* The serving loop and the world around it.                               *)

\* One turn of the first loop of poll_routes_and_sync_telemetry.
Polled(item) ==
    IF item.enabled /\ item.route.state # "null" /\ ~PollOk(item.route)
    THEN [item EXCEPT !.enabled = FALSE, !.route = Stop(@)]
    ELSE item

\* Mutant of Sync: telemetry is written once and never refreshed.
SyncOnce(table) ==
    \/ /\ Live(table) = {} \/ telemetry.measured
       /\ UNCHANGED telemetry
    \/ /\ ~telemetry.measured
       /\ \E k \in Live(table) :
             telemetry' = Report(table[k].id, table[k].network_profile, TRUE)

\* The second loop: the first live route reports, otherwise nothing changes.
Sync(table) ==
    \/ /\ Live(table) = {}
       /\ UNCHANGED telemetry
    \/ \E k \in Live(table) :
       /\ \A j \in Live(table) : k <= j
       /\ telemetry' = Report(table[k].id, table[k].network_profile, TRUE)

\* poll_routes_and_sync_telemetry.
Poll ==
    /\ routes' = [k \in DOMAIN routes |-> Polled(routes[k])]
    /\ IF sync_due THEN Sync(routes') ELSE UNCHANGED telemetry
    /\ sync_due' = FALSE
    /\ UNCHANGED next_route_id

\* Two seconds pass.
Elapse == sync_due' = TRUE /\ UNCHANGED <<routes, next_route_id, telemetry>>

\* A device disappears or a stream ends: the error waits on the bus.
PipelineFails(k) ==
    /\ routes[k].route.state = "playing"
    /\ routes' = [routes EXCEPT ![k].route.state = "failed"]
    /\ UNCHANGED <<next_route_id, telemetry, sync_due>>

Request ==
    \/ \E n \in 1..MaxInputs : ApiMatrix(n)
    \/ \E p \in Profiles : \/ ApiNetworkSend(p)
                           \/ ApiNetworkReceive(p)
                           \/ PairedRoute(p)
    \/ \E n \in 2..MaxInputs, p \in Profiles : PairedMixer(n, p)
    \/ \E id \in 1..MaxRoutes :
          \/ \E input \in 1..MaxInputs, gain \in GainInputs : SetMixerGain(id, input, gain)
          \/ \E enable \in BOOLEAN : SetEnabled(id, enable)
          \/ \E p \in Profiles : UpdateProfile(id, p)
          \/ EraseRoute(id)
    \/ StopAll

Next ==
    \/ Request
    \/ Poll
    \/ Elapse
    \/ \E k \in DOMAIN routes : PipelineFails(k)

Spec == Init /\ [][Next]_vars

\* serve() polls after every turn of its loop, which ends after 200 ms without a
\* request; that clients which connect do send a request is assumed, for recv has
\* no timeout.  Time passes.  Nothing obliges clients to connect.
FairSpec == Spec /\ WF_vars(Poll) /\ WF_vars(Elapse)

------------------------------------------------------------------------------
Networks == Seq(Profiles)
Gains == Seq(GainValues)

Settings == [kind: Kinds, networks: Networks, gains: Gains]
Route == [state: {"null", "stopped", "playing", "failed"}, networks: Networks, gains: Gains]
ActiveRoute == [id: Nat \ {0}, enabled: BOOLEAN, settings: Settings,
                network_profile: Profiles \cup {NoProfile}, route: Route, mixer_inputs: Gains]
Telemetry == [id: Nat, profile: Profiles \cup {NoProfile}, measured: BOOLEAN]

\* The variables have the types of the C++ members; a gain that was accepted
\* is between 0 and 200 percent or the NaN that web_server.cpp:239 lets through.
TypeOK ==
    /\ routes \in Seq(ActiveRoute)
    /\ next_route_id \in Nat \ {0}
    /\ telemetry \in Telemetry
    /\ sync_due \in BOOLEAN

\* Ids follow the order of the vector and are below next_route_id: an id a page
\* still shows for a deleted route can never act on a route added later.
OrderedIds ==
    /\ \A i, j \in DOMAIN routes : i < j => routes[i].id < routes[j].id
    /\ \A i \in DOMAIN routes : routes[i].id < next_route_id

\* A route is shown as enabled exactly when it owns a live pipeline, through
\* failed resumes, failed profile restarts and runtime failures alike.
EnabledMeansLive ==
    \A i \in DOMAIN routes :
        routes[i].enabled <=> routes[i].route.state \in {"playing", "failed"}

\* What /api/routes shows, what a resume would rebuild and what plays now are
\* the same profile on every leg and the same gain on every mixer input.
CopiesAgree ==
    \A i \in DOMAIN routes :
        LET item == routes[i] IN
        /\ item.mixer_inputs = item.settings.gains
        /\ \A leg \in DOMAIN item.settings.networks :
              item.settings.networks[leg] = item.network_profile
        /\ item.network_profile = NoProfile <=> item.settings.networks = << >>
        /\ item.enabled => /\ item.route.networks = item.settings.networks
                           /\ item.route.gains = item.settings.gains

\* No accepted gain is outside 0..200 percent (web_server.cpp:239: "Mixer gain
\* must be between 0 and 200 percent.").
GainsInRange ==
    \A i \in DOMAIN routes : \A input \in DOMAIN routes[i].mixer_inputs :
        routes[i].mixer_inputs[input] \in 0..200

\* A pipeline that failed is shown as paused in the end, whatever the users do
\* to other routes meanwhile.
FailureNoticed ==
    \A id \in 1..MaxRoutes :
        (\E k \in Positions(id) : routes[k].route.state = "failed")
            ~> (\A k \in Positions(id) : routes[k].route.state # "failed")

\* When the same route stays the first live one with the same profile and no
\* further route is started, the telemetry pushed to the peers becomes that
\* route's and stays so: no poll, pause or failure of another route brings an
\* older report back.
TelemetryFollows ==
    \A id \in 1..MaxRoutes, p \in Profiles, next \in 1..(MaxRoutes + 1) :
        LET leads == /\ next_route_id = next
                     /\ \E k \in Live(routes) :
                           /\ routes[k].id = id
                           /\ routes[k].network_profile = p
                           /\ \A j \in Live(routes) : k <= j
        IN  <>[]leads => <>[](telemetry = Report(id, p, TRUE))

\* pairing_service.hpp:17 says of PeerTelemetry "Empty device_name means idle":
\* once no network route is enabled for good, the node reports itself idle.
IdleIsReported ==
    <>[](\A k \in DOMAIN routes : routes[k].network_profile = NoProfile \/ ~routes[k].enabled)
        => []<>(telemetry = Idle)

------------------------------------------------------------------------------
(* The refinement: the board is what /api/routes shows, the sound is what  *)
(* the pipelines play.                                                     *)

RangeOf(f) == {f[x] : x \in DOMAIN f}
IdsOf(table) == {table[k].id : k \in DOMAIN table}
Item(table, id) == table[CHOOSE k \in DOMAIN table : table[k].id = id]

Row(item) == [enabled |-> item.enabled,
              profile |-> {item.network_profile} \ {NoProfile},
              gains |-> item.mixer_inputs]
Played(item) == [profile |-> RangeOf(item.route.networks), gains |-> item.route.gains]

Shown(table) == [id \in IdsOf(table) |-> Row(Item(table, id))]
Audible(table) == {id \in IdsOf(table) : Item(table, id).route.state = "playing"}
Heard(table) == [id \in Audible(table) |-> Played(Item(table, id))]

Board == INSTANCE RouteBoard WITH
    Ids <- 1..MaxRoutes,
    GainValues <- {g \in GainInputs : ~OutOfRange(g)},
    Rows <- [enabled: {TRUE}, profile: {{}} \cup {{p} : p \in Profiles},
             gains: {Uniform(n, Unity) : n \in 0..MaxInputs}],
    board <- Shown(routes),
    sound <- Heard(routes),
    used <- 1..(next_route_id - 1)

\* The table implements the board.
Implements == Board!Spec
==============================================================================
