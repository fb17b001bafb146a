-------------------------- MODULE RouteTable_proofs --------------------------
(***************************************************************************)
(* The invariants of RouteTable for any profiles, any gains a client asks  *)
(* for, and any number of routes and mixer inputs.                         *)
(*                                                                         *)
(* Every operation either appends one entry, replaces entries in place or  *)
(* removes one, so the inductive invariant is a predicate on single        *)
(* entries (Sound) and the order of the ids.  Sound is where the four      *)
(* copies of a route's facts meet: EnabledMeansLive cannot be proved       *)
(* without the type, nor CopiesAgree without EnabledMeansLive, because a   *)
(* gain edit writes to the pipeline only of an enabled route.              *)
(***************************************************************************)
EXTENDS RouteTable, SequenceTheorems, TLAPS

\* One entry of the table is well typed, enabled exactly when its pipeline is
\* live, and its copies agree.
Sound(item) ==
    /\ item \in ActiveRoute
    /\ item.enabled <=> item.route.state \in {"playing", "failed"}
    /\ item.mixer_inputs = item.settings.gains
    /\ \A leg \in DOMAIN item.settings.networks :
          item.settings.networks[leg] = item.network_profile
    /\ item.network_profile = NoProfile <=> item.settings.networks = << >>
    /\ item.enabled => /\ item.route.networks = item.settings.networks
                       /\ item.route.gains = item.settings.gains

RestTyped ==
    /\ next_route_id \in Nat \ {0}
    /\ telemetry \in Telemetry
    /\ sync_due \in BOOLEAN

IInv ==
    /\ routes \in Seq(ActiveRoute)
    /\ \A k \in DOMAIN routes : Sound(routes[k])
    /\ OrderedIds
    /\ RestTyped

\* Equal values everywhere make a sequence.
LEMMA UniformIsSeq ==
    ASSUME NEW S, NEW n \in Nat, NEW v \in S
    PROVE  Uniform(n, v) \in Seq(S) /\ Len(Uniform(n, v)) = n
BY DEF Uniform

\* The inductive invariant is the four invariants of the runs.
LEMMA IInvImplies == IInv => TypeOK /\ OrderedIds /\ EnabledMeansLive /\ CopiesAgree
BY DEF IInv, RestTyped, TypeOK, EnabledMeansLive, CopiesAgree, Sound

------------------------------------------------------------------------------
(* The three ways the table changes.                                       *)

LEMMA Appended ==
    ASSUME IInv, NEW item, Sound(item), item.id = next_route_id,
           routes' = Append(routes, item),
           next_route_id' = next_route_id + 1,
           telemetry' \in Telemetry, sync_due' \in BOOLEAN
    PROVE  IInv'
<1>1. routes \in Seq(ActiveRoute) /\ item \in ActiveRoute /\ Len(routes) \in Nat
  BY LenProperties DEF IInv, Sound
<1>2. /\ routes' \in Seq(ActiveRoute)
      /\ Len(routes') = Len(routes) + 1
      /\ \A k \in 1..Len(routes) : routes'[k] = routes[k]
      /\ routes'[Len(routes) + 1] = item
  BY <1>1
<1>3. \A k \in DOMAIN routes' : k \in DOMAIN routes \/ k = Len(routes) + 1
  BY <1>1, <1>2
<1>4. \A k \in DOMAIN routes' : Sound(routes'[k])
  BY <1>1, <1>2, <1>3 DEF IInv
<1>5. OrderedIds'
  <2>1. \A k \in DOMAIN routes : routes[k].id \in Nat
    BY DEF IInv, Sound, ActiveRoute
  <2> QED
    BY <1>1, <1>2, <1>3, <2>1 DEF IInv, OrderedIds, RestTyped
<1>6. RestTyped'
  BY DEF IInv, RestTyped
<1> QED
  BY <1>2, <1>4, <1>5, <1>6 DEF IInv

LEMMA Replaced ==
    ASSUME IInv, NEW k \in DOMAIN routes, NEW item, Sound(item),
           item.id = routes[k].id,
           routes' = [routes EXCEPT ![k] = item],
           next_route_id' = next_route_id,
           telemetry' \in Telemetry, sync_due' \in BOOLEAN
    PROVE  IInv'
<1>1. /\ routes' \in Seq(ActiveRoute)
      /\ DOMAIN routes' = DOMAIN routes
      /\ \A j \in DOMAIN routes : routes'[j] = IF j = k THEN item ELSE routes[j]
  BY DEF IInv, Sound
<1>2. \A j \in DOMAIN routes' : Sound(routes'[j])
  BY <1>1 DEF IInv
<1>3. \A j \in DOMAIN routes : routes'[j].id = routes[j].id
  BY <1>1
<1>4. OrderedIds'
  BY <1>1, <1>3 DEF IInv, OrderedIds
<1> QED
  BY <1>1, <1>2, <1>4 DEF IInv, RestTyped

LEMMA Removed ==
    ASSUME IInv, NEW k \in DOMAIN routes,
           routes' = Without(routes, k),
           next_route_id' = next_route_id,
           telemetry' \in Telemetry, sync_due' \in BOOLEAN
    PROVE  IInv'
<1> DEFINE from(i) == IF i < k THEN i ELSE i + 1
<1>1. routes \in Seq(ActiveRoute) /\ Len(routes) \in Nat /\ k \in 1..Len(routes)
  BY LenProperties DEF IInv
<1>2. /\ Len(routes') = Len(routes) - 1
      /\ DOMAIN routes' = 1..(Len(routes) - 1)
      /\ \A i \in DOMAIN routes' : from(i) \in DOMAIN routes /\ routes'[i] = routes[from(i)]
  BY <1>1 DEF Without
<1>3. \A i \in DOMAIN routes' : routes'[i] \in ActiveRoute /\ Sound(routes'[i])
  BY <1>2 DEF IInv, Sound
<1>4. routes' \in Seq(ActiveRoute)
  <2>1. routes' = [i \in 1..(Len(routes) - 1) |-> routes'[i]]
    BY <1>2 DEF Without
  <2>2. Len(routes) - 1 \in Nat
    BY <1>1
  <2> HIDE DEF from
  <2> QED
    BY <1>2, <1>3, <2>1, <2>2
<1>5. \A i, j \in DOMAIN routes' : i < j => from(i) < from(j)
  BY <1>1, <1>2
<1>6. OrderedIds'
  BY <1>2, <1>5 DEF IInv, OrderedIds
<1> QED
  BY <1>3, <1>4, <1>6 DEF IInv, RestTyped

------------------------------------------------------------------------------
(* What the operations put into the table.                                 *)

LEMMA NewRouteIsSound ==
    ASSUME IInv, NEW settings \in Settings, NEW profile \in Profiles \cup {NoProfile},
           \A leg \in DOMAIN settings.networks : settings.networks[leg] = profile,
           profile = NoProfile <=> settings.networks = << >>
    PROVE  Sound(NewRoute(settings, profile)) /\ NewRoute(settings, profile).id = next_route_id
BY DEF IInv, RestTyped, Sound, NewRoute, Playing, ActiveRoute, Settings, Route

LEMMA AddKeeps ==
    ASSUME IInv, NEW settings \in Settings, NEW profile \in Profiles \cup {NoProfile},
           \A leg \in DOMAIN settings.networks : settings.networks[leg] = profile,
           profile = NoProfile <=> settings.networks = << >>,
           Add(settings, profile),
           telemetry' \in Telemetry, sync_due' \in BOOLEAN
    PROVE  IInv'
<1>1. Sound(NewRoute(settings, profile)) /\ NewRoute(settings, profile).id = next_route_id
  BY NewRouteIsSound
<1>2. routes' = Append(routes, NewRoute(settings, profile)) /\ next_route_id' = next_route_id + 1
  BY DEF Add
<1> HIDE DEF NewRoute
<1> QED
  BY <1>1, <1>2, Appended

\* The settings each handler builds.
LEMMA SettingsTyped ==
    ASSUME NEW p \in Profiles, NEW n \in Nat
    PROVE  /\ MatrixSettings(n) \in Settings
           /\ SenderSettings(p) \in Settings
           /\ ReceiverSettings(p) \in Settings
           /\ MixerSettings(n, p) \in Settings
<1>1. Uniform(n, Unity) \in Gains
  BY UniformIsSeq DEF Gains, GainValues, Unity
<1>2. Uniform(n, p) \in Networks
  BY UniformIsSeq DEF Networks
<1>3. <<p>> \in Networks /\ << >> \in Networks /\ << >> \in Gains
  BY DEF Networks, Gains
<1> QED
  BY <1>1, <1>2, <1>3 DEF Settings, Kinds, MatrixSettings, SenderSettings,
                          ReceiverSettings, MixerSettings

LEMMA ReportTyped ==
    ASSUME IInv, NEW p \in Profiles, NEW b \in BOOLEAN
    PROVE  Report(next_route_id, p, b) \in Telemetry
BY DEF IInv, RestTyped, Report, Telemetry

------------------------------------------------------------------------------
(* One lemma per action.                                                   *)

LEMMA ApiMatrixKeeps ==
    ASSUME IInv, NEW n \in 1..MaxInputs, ApiMatrix(n)
    PROVE  IInv'
<1>1. n \in Nat
  BY RouteTableAssumption
<1>2. MatrixSettings(n) \in Settings
  <2>1. Uniform(n, Unity) \in Gains /\ << >> \in Networks
    BY <1>1, UniformIsSeq DEF Gains, GainValues, Unity, Networks
  <2> QED
    BY <2>1 DEF MatrixSettings, Settings, Kinds
<1>3. MatrixSettings(n).networks = << >>
  BY DEF MatrixSettings
<1>4. Add(MatrixSettings(n), NoProfile) /\ telemetry' \in Telemetry /\ sync_due' \in BOOLEAN
  BY DEF ApiMatrix, IInv, RestTyped
<1> HIDE DEF MatrixSettings
<1> QED
  BY <1>2, <1>3, <1>4, AddKeeps

LEMMA OneLegKeeps ==
    ASSUME IInv, NEW p \in Profiles,
           Add(SenderSettings(p), p) \/ Add(ReceiverSettings(p), p),
           telemetry' \in Telemetry, sync_due' \in BOOLEAN
    PROVE  IInv'
<1>1. p # NoProfile
  BY RouteTableAssumption
<1>2. /\ SenderSettings(p) \in Settings /\ ReceiverSettings(p) \in Settings
      /\ SenderSettings(p).networks = <<p>> /\ ReceiverSettings(p).networks = <<p>>
  BY SettingsTyped, 0 \in Nat DEF SenderSettings, ReceiverSettings
<1> HIDE DEF SenderSettings, ReceiverSettings
<1> QED
  BY <1>1, <1>2, AddKeeps

LEMMA PairedMixerKeeps ==
    ASSUME IInv, NEW n \in 2..MaxInputs, NEW p \in Profiles, PairedMixer(n, p)
    PROVE  IInv'
<1>1. n \in Nat /\ n >= 2 /\ p # NoProfile
  BY RouteTableAssumption
<1>2. MixerSettings(n, p) \in Settings
  BY <1>1, SettingsTyped
<1>3. /\ DOMAIN MixerSettings(n, p).networks = 1..n
      /\ \A leg \in 1..n : MixerSettings(n, p).networks[leg] = p
  BY <1>1 DEF MixerSettings, Uniform
<1>4. MixerSettings(n, p).networks # << >>
  BY <1>1, <1>3
<1>5. Add(MixerSettings(n, p), p) /\ telemetry' \in Telemetry /\ sync_due' \in BOOLEAN
  BY DEF PairedMixer, IInv, RestTyped
<1> HIDE DEF MixerSettings
<1> QED
  BY <1>1, <1>2, <1>3, <1>4, <1>5, AddKeeps

LEMMA SetMixerGainKeeps ==
    ASSUME IInv, NEW id, NEW input, NEW gain \in GainInputs, SetMixerGain(id, input, gain)
    PROVE  IInv'
<1>1. PICK k \in Positions(id) :
        /\ ~OutOfRange(gain)
        /\ input \in DOMAIN routes[k].mixer_inputs
        /\ routes' = [routes EXCEPT ![k] = GainEdited(routes[k], input, gain)]
        /\ UNCHANGED <<next_route_id, telemetry, sync_due>>
  BY DEF SetMixerGain
<1> DEFINE item == routes[k]
           edited == GainEdited(item, input, gain)
<1>2. k \in DOMAIN routes /\ Sound(item)
  BY DEF Positions, IInv
<1>3. gain \in GainValues
  BY <1>1, RouteTableAssumption DEF OutOfRange, GainValues
<1>4. [item.mixer_inputs EXCEPT ![input] = gain] \in Gains
  BY <1>1, <1>2, <1>3 DEF Sound, ActiveRoute, Gains
<1>5. edited = [item EXCEPT
        !.mixer_inputs = [item.mixer_inputs EXCEPT ![input] = gain],
        !.settings = [item.settings EXCEPT !.gains = [item.mixer_inputs EXCEPT ![input] = gain]],
        !.route = IF item.enabled
                  THEN [item.route EXCEPT !.gains = [item.mixer_inputs EXCEPT ![input] = gain]]
                  ELSE item.route]
  BY <1>2 DEF GainEdited, Sound, ActiveRoute, Settings, Route
<1>6. Sound(edited) /\ edited.id = item.id
  <2> DEFINE g == [item.mixer_inputs EXCEPT ![input] = gain]
  <2>1. g \in Gains
    BY <1>4
  <2> HIDE DEF edited, g
  <2> QED
    BY <1>2, <1>5, <2>1 DEF Sound, ActiveRoute, Settings, Route, g
<1> HIDE DEF edited
<1> QED
  BY <1>1, <1>2, <1>6, Replaced DEF edited, IInv, RestTyped

LEMMA SetEnabledKeeps ==
    ASSUME IInv, NEW id, NEW enable \in BOOLEAN, SetEnabled(id, enable)
    PROVE  IInv'
<1>1. PICK k \in Positions(id) :
        /\ routes' = [routes EXCEPT
                        ![k].enabled = enable,
                        ![k].route = IF enable THEN Playing(routes[k].settings)
                                               ELSE Stop(routes[k].route)]
        /\ UNCHANGED <<next_route_id, telemetry, sync_due>>
  BY DEF SetEnabled
<1> DEFINE item == [routes[k] EXCEPT
                      !.enabled = enable,
                      !.route = IF enable THEN Playing(routes[k].settings)
                                          ELSE Stop(routes[k].route)]
<1>2. k \in DOMAIN routes /\ Sound(routes[k])
  BY DEF Positions, IInv
<1>3. routes' = [routes EXCEPT ![k] = item]
  BY <1>1, <1>2 DEF IInv
<1>4. Sound(item) /\ item.id = routes[k].id
  <2>1. << >> \in Networks /\ << >> \in Gains
    BY DEF Networks, Gains
  <2> QED
    BY <1>2, <2>1 DEF Sound, ActiveRoute, Settings, Route, Playing, Stop, NoRoute, Stopped
<1> HIDE DEF item
<1> QED
  BY <1>1, <1>2, <1>3, <1>4, Replaced DEF IInv, RestTyped

\* Retuning keeps an entry sound except that a live pipeline lags behind.
LEMMA RetunedTyped ==
    ASSUME NEW item, Sound(item), item.network_profile # NoProfile,
           NEW p \in Profiles
    PROVE  LET new == Retuned(item, p) IN
           /\ new \in ActiveRoute
           /\ new.id = item.id
           /\ new.enabled = item.enabled
           /\ new.route = item.route
           /\ new.network_profile = p
           /\ new.mixer_inputs = new.settings.gains
           /\ new.settings.networks # << >>
           /\ \A leg \in DOMAIN new.settings.networks : new.settings.networks[leg] = p
<1> DEFINE legs == [i \in DOMAIN item.settings.networks |-> p]
<1>1. /\ item \in ActiveRoute
      /\ item.settings \in Settings
      /\ item.settings.networks \in Seq(Profiles)
      /\ item.settings.networks # << >>
  BY DEF Sound, ActiveRoute, Settings, Networks
<1>2. legs \in Seq(Profiles) /\ DOMAIN legs = DOMAIN item.settings.networks
  BY <1>1
<1>3. legs # << >>
  BY <1>1, <1>2
<1>4. \A leg \in DOMAIN legs : legs[leg] = p
  OBVIOUS
<1>5. Retuned(item, p) = [item EXCEPT !.network_profile = p,
                                      !.settings = [item.settings EXCEPT !.networks = legs]]
  BY <1>1 DEF Retuned, ActiveRoute, Settings
<1> HIDE DEF legs
<1> QED
  BY <1>1, <1>2, <1>3, <1>4, <1>5 DEF Sound, ActiveRoute, Settings, Networks

LEMMA UpdateProfileKeeps ==
    ASSUME IInv, NEW id, NEW p \in Profiles, UpdateProfile(id, p)
    PROVE  IInv'
<1>1. PICK k \in Positions(id) :
        /\ routes[k].network_profile # NoProfile
        /\ LET item == Retuned(routes[k], p) IN
           \/ /\ ~item.enabled
              /\ routes' = [routes EXCEPT ![k] = item]
           \/ /\ item.enabled
              /\ routes' = [routes EXCEPT ![k] = [item EXCEPT !.route = Playing(item.settings)]]
           \/ /\ item.enabled
              /\ routes' = [routes EXCEPT ![k] = RestartFailed(item)]
        /\ UNCHANGED <<next_route_id, telemetry, sync_due>>
  BY DEF UpdateProfile
<1> DEFINE item == Retuned(routes[k], p)
<1>2. k \in DOMAIN routes /\ Sound(routes[k])
  BY DEF Positions, IInv
<1>3. /\ item \in ActiveRoute
      /\ item.id = routes[k].id
      /\ item.enabled = routes[k].enabled
      /\ item.route = routes[k].route
      /\ item.network_profile = p
      /\ item.mixer_inputs = item.settings.gains
      /\ item.settings.networks # << >>
      /\ \A leg \in DOMAIN item.settings.networks : item.settings.networks[leg] = p
  BY <1>1, <1>2, RetunedTyped
<1>4. p # NoProfile
  BY RouteTableAssumption
<1> HIDE DEF item
<1>5. CASE ~item.enabled /\ routes' = [routes EXCEPT ![k] = item]
  <2>1. Sound(item)
    BY <1>2, <1>3, <1>4, <1>5 DEF Sound
  <2> QED
    BY <1>1, <1>2, <1>3, <1>5, <2>1, Replaced DEF IInv, RestTyped
<1>6. CASE item.enabled /\ routes' = [routes EXCEPT ![k] = [item EXCEPT !.route = Playing(item.settings)]]
  <2> DEFINE new == [item EXCEPT !.route = Playing(item.settings)]
  <2>1. Sound(new) /\ new.id = routes[k].id
    BY <1>3, <1>4, <1>6 DEF Sound, ActiveRoute, Settings, Route, Playing
  <2> HIDE DEF new
  <2> QED
    BY <1>1, <1>2, <1>6, <2>1, Replaced DEF new, IInv, RestTyped
<1>7. CASE item.enabled /\ routes' = [routes EXCEPT ![k] = RestartFailed(item)]
  <2> DEFINE new == RestartFailed(item)
  <2>1. << >> \in Networks /\ << >> \in Gains
    BY DEF Networks, Gains
  <2>2. Sound(new) /\ new.id = routes[k].id
    BY <1>3, <1>4, <1>7, <2>1 DEF Sound, ActiveRoute, Settings, Route, RestartFailed, NoRoute
  <2> HIDE DEF new
  <2> QED
    BY <1>1, <1>2, <1>7, <2>2, Replaced DEF new, IInv, RestTyped
<1> QED
  BY <1>1, <1>5, <1>6, <1>7 DEF item

LEMMA EraseRouteKeeps ==
    ASSUME IInv, NEW id, EraseRoute(id)
    PROVE  IInv'
BY Removed DEF EraseRoute, Positions, IInv, RestTyped

LEMMA StopAllKeeps ==
    ASSUME IInv, StopAll
    PROVE  IInv'
BY DEF StopAll, IInv, RestTyped, OrderedIds, Idle, Telemetry

\* Polling an entry keeps it sound: it may only be shown as paused.
LEMMA PolledIsSound ==
    ASSUME NEW item, Sound(item)
    PROVE  Sound(Polled(item)) /\ Polled(item).id = item.id
<1>1. << >> \in Networks /\ << >> \in Gains
  BY DEF Networks, Gains
<1> QED
  BY <1>1 DEF Sound, ActiveRoute, Route, Polled, Stop, NoRoute, Stopped

LEMMA PollKeeps ==
    ASSUME IInv, Poll
    PROVE  IInv'
<1>1. /\ routes' \in Seq(ActiveRoute)
      /\ DOMAIN routes' = DOMAIN routes
      /\ \A k \in DOMAIN routes : routes'[k] = Polled(routes[k])
  <2>1. \A k \in DOMAIN routes : Polled(routes[k]) \in ActiveRoute
    BY PolledIsSound DEF IInv, Sound
  <2>2. routes' = [k \in DOMAIN routes |-> Polled(routes[k])]
    BY DEF Poll
  <2> QED
    BY <2>1, <2>2 DEF IInv
<1>2. \A k \in DOMAIN routes' : Sound(routes'[k]) /\ routes'[k].id = routes[k].id
  BY <1>1, PolledIsSound DEF IInv
<1>3. next_route_id' = next_route_id /\ sync_due' \in BOOLEAN
  BY DEF Poll
<1>4. OrderedIds'
  BY <1>1, <1>2, <1>3 DEF IInv, OrderedIds
<1>5. telemetry' \in Telemetry
  <2>1. CASE UNCHANGED telemetry
    BY <2>1 DEF IInv, RestTyped
  <2>2. CASE Sync(routes')
    <3>1. ASSUME NEW k \in Live(routes'),
                 telemetry' = Report(routes'[k].id, routes'[k].network_profile, TRUE)
          PROVE  telemetry' \in Telemetry
      <4>1. k \in DOMAIN routes'
        BY DEF Live
      <4>2. routes'[k] \in ActiveRoute
        BY <1>2, <4>1 DEF Sound
      <4> QED
        BY <3>1, <4>2 DEF Report, Telemetry, ActiveRoute
    <3> QED
      BY <2>1, <2>2, <3>1 DEF Sync
  <2> QED
    BY <2>1, <2>2 DEF Poll
<1> QED
  BY <1>1, <1>2, <1>3, <1>4, <1>5 DEF IInv, RestTyped

LEMMA PipelineFailsKeeps ==
    ASSUME IInv, NEW k \in DOMAIN routes, PipelineFails(k)
    PROVE  IInv'
<1> DEFINE item == [routes[k] EXCEPT !.route = [routes[k].route EXCEPT !.state = "failed"]]
<1>1. Sound(routes[k]) /\ routes[k].route.state = "playing"
  BY DEF IInv, PipelineFails
<1>2. routes' = [routes EXCEPT ![k] = item]
  BY <1>1 DEF IInv, PipelineFails, Sound, ActiveRoute
<1>3. Sound(item) /\ item.id = routes[k].id
  BY <1>1 DEF Sound, ActiveRoute, Route
<1> HIDE DEF item
<1> QED
  BY <1>2, <1>3, Replaced DEF PipelineFails, IInv, RestTyped

LEMMA NextKeeps == IInv /\ [Next]_vars => IInv'
<1> SUFFICES ASSUME IInv, [Next]_vars PROVE IInv'
  OBVIOUS
<1>1. CASE Request
  <2>1. ASSUME NEW n \in 1..MaxInputs, ApiMatrix(n) PROVE IInv'
    BY <2>1, ApiMatrixKeeps
  <2>2. ASSUME NEW p \in Profiles, ApiNetworkSend(p) PROVE IInv'
    BY <2>2, OneLegKeeps, ReportTyped DEF ApiNetworkSend, IInv, RestTyped
  <2>3. ASSUME NEW p \in Profiles, ApiNetworkReceive(p) PROVE IInv'
    BY <2>3, OneLegKeeps, ReportTyped DEF ApiNetworkReceive, IInv, RestTyped
  <2>4. ASSUME NEW p \in Profiles, PairedRoute(p) PROVE IInv'
    BY <2>4, OneLegKeeps DEF PairedRoute, IInv, RestTyped
  <2>5. ASSUME NEW n \in 2..MaxInputs, NEW p \in Profiles, PairedMixer(n, p) PROVE IInv'
    BY <2>5, PairedMixerKeeps
  <2>6. ASSUME NEW id, NEW input, NEW gain \in GainInputs, SetMixerGain(id, input, gain)
        PROVE  IInv'
    BY <2>6, SetMixerGainKeeps
  <2>7. ASSUME NEW id, NEW enable \in BOOLEAN, SetEnabled(id, enable) PROVE IInv'
    BY <2>7, SetEnabledKeeps
  <2>8. ASSUME NEW id, NEW p \in Profiles, UpdateProfile(id, p) PROVE IInv'
    BY <2>8, UpdateProfileKeeps
  <2>9. ASSUME NEW id, EraseRoute(id) PROVE IInv'
    BY <2>9, EraseRouteKeeps
  <2> QED
    BY <1>1, <2>1, <2>2, <2>3, <2>4, <2>5, <2>6, <2>7, <2>8, <2>9, StopAllKeeps DEF Request
<1>2. CASE Poll
  BY <1>2, PollKeeps
<1>3. CASE Elapse
  BY <1>3 DEF Elapse, IInv, RestTyped, OrderedIds
<1>4. ASSUME NEW k \in DOMAIN routes, PipelineFails(k) PROVE IInv'
  BY <1>4, PipelineFailsKeeps
<1>5. CASE UNCHANGED vars
  BY <1>5 DEF vars, IInv, RestTyped, OrderedIds
<1> QED
  BY <1>1, <1>2, <1>3, <1>4, <1>5 DEF Next

LEMMA InitKeeps == Init => IInv
BY DEF Init, IInv, RestTyped, OrderedIds, Idle, Telemetry

LEMMA Inductive == Spec => []IInv
<1> QED
  BY InitKeeps, NextKeeps, PTL DEF Spec

\* Every variable keeps its type, so an accepted gain is in range or a NaN.
THEOREM TypeCorrect == Spec => []TypeOK
<1> QED
  BY Inductive, IInvImplies, PTL

\* Route ids are unique, ordered and never handed out twice.
THEOREM IdsOrdered == Spec => []OrderedIds
<1> QED
  BY Inductive, IInvImplies, PTL

\* A route is shown as enabled exactly when it owns a live pipeline.
THEOREM EnabledIsLive == Spec => []EnabledMeansLive
<1> QED
  BY Inductive, IInvImplies, PTL

\* What is shown, what a resume would rebuild and what plays are the same.
THEOREM CopiesAlwaysAgree == Spec => []CopiesAgree
<1> QED
  BY Inductive, IInvImplies, PTL

------------------------------------------------------------------------------
(* RouteTable implements RouteBoard.  The mapping looks entries up by id,  *)
(* so its lemmas are about what appending, replacing and removing one      *)
(* entry of an ordered table does to the two functions Shown and Heard;    *)
(* the theorem then maps each action.                                      *)

\* A table the lookups by id are well defined on.
Ordered(table) ==
    /\ table \in Seq(ActiveRoute)
    /\ \A i, j \in DOMAIN table : i < j => table[i].id < table[j].id

LEMMA IInvOrdered == IInv => Ordered(routes)
BY DEF IInv, OrderedIds, Ordered

LEMMA UniqueIds ==
    ASSUME NEW table, Ordered(table), NEW i \in DOMAIN table, NEW j \in DOMAIN table,
           table[i].id = table[j].id
    PROVE  i = j
<1>1. i \in Nat /\ j \in Nat /\ table[i].id \in Nat /\ table[j].id \in Nat
  <2>1. table[i] \in ActiveRoute /\ table[j] \in ActiveRoute /\ DOMAIN table \subseteq Nat
    BY DEF Ordered
  <2> QED
    BY <2>1 DEF ActiveRoute
<1>2. ~(i < j) /\ ~(j < i)
  BY <1>1 DEF Ordered
<1> QED
  BY <1>1, <1>2

\* Looking an entry up by its id finds the entry.
LEMMA ItemAt ==
    ASSUME NEW table, Ordered(table), NEW k \in DOMAIN table
    PROVE  Item(table, table[k].id) = table[k]
<1> DEFINE c == CHOOSE j \in DOMAIN table : table[j].id = table[k].id
<1>1. c \in DOMAIN table /\ table[c].id = table[k].id
  OBVIOUS
<1>2. c = k
  BY <1>1, UniqueIds
<1> QED
  BY <1>2 DEF Item

\* The mapping in terms of positions.
LEMMA Mapping ==
    ASSUME NEW table, Ordered(table)
    PROVE  /\ DOMAIN Shown(table) = IdsOf(table)
           /\ DOMAIN Heard(table) = Audible(table)
           /\ Audible(table) \subseteq IdsOf(table)
           /\ \A k \in DOMAIN table :
                 /\ table[k].id \in IdsOf(table)
                 /\ Shown(table)[table[k].id] = Row(table[k])
                 /\ table[k].id \in Audible(table) <=> table[k].route.state = "playing"
                 /\ table[k].route.state = "playing"
                       => Heard(table)[table[k].id] = Played(table[k])
BY ItemAt DEF Shown, Heard, Audible, IdsOf

\* Every entry of s but those with the id x is an entry of t.
Covers(s, t, x) ==
    \A i \in DOMAIN s : s[i].id # x => \E j \in DOMAIN t : t[j] = s[i]

\* Two ordered tables whose entries agree, except for those with the id x, map
\* to functions that agree away from x.
AgreeAwayFrom(s, t, x) ==
    /\ IdsOf(s) \ {x} = IdsOf(t) \ {x}
    /\ Audible(s) \ {x} = Audible(t) \ {x}
    /\ \A y \in IdsOf(s) \ {x} : Shown(t)[y] = Shown(s)[y]
    /\ \A y \in Audible(s) \ {x} : Heard(t)[y] = Heard(s)[y]

LEMMA AgreeAway ==
    ASSUME NEW s, Ordered(s), NEW t, Ordered(t), NEW x,
           Covers(s, t, x), Covers(t, s, x)
    PROVE  AgreeAwayFrom(s, t, x)
<1>1. IdsOf(s) \ {x} = IdsOf(t) \ {x}
  BY DEF IdsOf, Covers
<1>2. ASSUME NEW y \in IdsOf(s) \ {x}
      PROVE  Item(t, y) = Item(s, y)
  <2>1. PICK i \in DOMAIN s : s[i].id = y
    BY DEF IdsOf
  <2>2. PICK j \in DOMAIN t : t[j] = s[i]
    BY <1>2, <2>1 DEF Covers
  <2>3. t[j].id = y
    BY <2>1, <2>2
  <2>4. Item(s, y) = s[i]
    BY <2>1, ItemAt
  <2>5. Item(t, y) = t[j]
    BY <2>3, ItemAt
  <2> QED
    BY <2>2, <2>4, <2>5
<1>3. Audible(s) \ {x} = Audible(t) \ {x}
  BY <1>1, <1>2 DEF Audible
<1> QED
  BY <1>1, <1>2, <1>3 DEF AgreeAwayFrom, Shown, Heard, Audible

\* The table t is s with its k-th entry replaced by one of the same id.
ReplacedAt(s, t, k, item) ==
    k \in DOMAIN s /\ t = [s EXCEPT ![k] = item] /\ item.id = s[k].id

\* What the board then sees change.
ShowsReplaced(s, t, item) ==
    /\ Shown(t) = [Shown(s) EXCEPT ![item.id] = Row(item)]
    /\ item.route.state = "playing" => Heard(t) = Board!Put(Heard(s), item.id, Played(item))
    /\ item.route.state # "playing" => Heard(t) = Board!Drop(Heard(s), item.id)

\* Replacing one entry changes the mapping at its id only.
LEMMA ReplacedMapping ==
    ASSUME NEW s, Ordered(s), NEW t, Ordered(t), NEW k, NEW item,
           ReplacedAt(s, t, k, item)
    PROVE  ShowsReplaced(s, t, item)
<1>1. /\ DOMAIN t = DOMAIN s
      /\ k \in DOMAIN s
      /\ t[k] = item
      /\ item.id = s[k].id
      /\ \A j \in DOMAIN s : j # k => t[j] = s[j]
  BY DEF Ordered, ReplacedAt
<1>2. Covers(s, t, item.id)
  BY <1>1 DEF Covers
<1>3. Covers(t, s, item.id)
  BY <1>1 DEF Covers
<1>4. /\ IdsOf(s) \ {item.id} = IdsOf(t) \ {item.id}
      /\ Audible(s) \ {item.id} = Audible(t) \ {item.id}
      /\ \A y \in IdsOf(s) \ {item.id} : Shown(t)[y] = Shown(s)[y]
      /\ \A y \in Audible(s) \ {item.id} : Heard(t)[y] = Heard(s)[y]
  <2>1. AgreeAwayFrom(s, t, item.id)
    BY <1>2, <1>3, AgreeAway
  <2> QED
    BY <2>1 DEF AgreeAwayFrom
<1>5. /\ item.id \in IdsOf(s)
      /\ item.id \in IdsOf(t)
      /\ Shown(t)[item.id] = Row(item)
      /\ item.id \in Audible(t) <=> item.route.state = "playing"
      /\ item.route.state = "playing" => Heard(t)[item.id] = Played(item)
  <2>1. /\ t[k].id \in IdsOf(t)
        /\ Shown(t)[t[k].id] = Row(t[k])
        /\ t[k].id \in Audible(t) <=> t[k].route.state = "playing"
        /\ t[k].route.state = "playing" => Heard(t)[t[k].id] = Played(t[k])
    BY <1>1, Mapping
  <2>2. s[k].id \in IdsOf(s)
    BY <1>1, Mapping
  <2> QED
    BY <1>1, <2>1, <2>2
<1>6. IdsOf(t) = IdsOf(s)
  <2> SUFFICES ASSUME NEW y PROVE y \in IdsOf(t) <=> y \in IdsOf(s)
    OBVIOUS
  <2>1. CASE y = item.id
    BY <1>5, <2>1
  <2>2. CASE y # item.id
    BY <1>4, <2>2
  <2> QED
    BY <2>1, <2>2
<1>7. /\ DOMAIN Shown(s) = IdsOf(s) /\ DOMAIN Shown(t) = IdsOf(t)
      /\ DOMAIN Heard(s) = Audible(s) /\ DOMAIN Heard(t) = Audible(t)
  BY Mapping
<1>8. /\ Shown(s) = [y \in IdsOf(s) |-> Shown(s)[y]]
      /\ Shown(t) = [y \in IdsOf(t) |-> Shown(t)[y]]
      /\ Heard(t) = [y \in Audible(t) |-> Heard(t)[y]]
  BY <1>7 DEF Shown, Heard
<1>9. Shown(t) = [Shown(s) EXCEPT ![item.id] = Row(item)]
  BY <1>4, <1>5, <1>6, <1>8
<1>10. ASSUME item.route.state = "playing"
       PROVE  Heard(t) = Board!Put(Heard(s), item.id, Played(item))
  BY <1>4, <1>5, <1>7, <1>8, <1>10 DEF Board!Put
<1>11. ASSUME item.route.state # "playing"
       PROVE  Heard(t) = Board!Drop(Heard(s), item.id)
  BY <1>4, <1>5, <1>7, <1>8, <1>11 DEF Board!Drop
<1> QED
  BY <1>9, <1>10, <1>11 DEF ShowsReplaced

\* Appending an entry puts its id on the board.
LEMMA AppendedMapping ==
    ASSUME NEW s, Ordered(s), NEW t, Ordered(t), NEW item \in ActiveRoute,
           t = Append(s, item), item.route.state = "playing"
    PROVE  /\ Shown(t) = Board!Put(Shown(s), item.id, Row(item))
           /\ Heard(t) = Board!Put(Heard(s), item.id, Played(item))
<1> DEFINE n == Len(s) + 1
<1>1. s \in Seq(ActiveRoute) /\ Len(s) \in Nat
  BY DEF Ordered
<1>2. /\ DOMAIN t = 1..n /\ DOMAIN s = 1..Len(s)
      /\ t[n] = item
      /\ \A j \in DOMAIN s : j \in DOMAIN t /\ t[j] = s[j]
      /\ \A j \in DOMAIN t : j # n => j \in DOMAIN s
  BY <1>1
<1>3. Covers(s, t, item.id)
  BY <1>2 DEF Covers
<1>4. Covers(t, s, item.id)
  BY <1>2 DEF Covers
<1>5. AgreeAwayFrom(s, t, item.id)
  BY <1>3, <1>4, AgreeAway
<1>6. /\ item.id \in IdsOf(t)
      /\ Shown(t)[item.id] = Row(item)
      /\ item.id \in Audible(t)
      /\ Heard(t)[item.id] = Played(item)
  <2>1. n \in DOMAIN t
    BY <1>1, <1>2
  <2>2. /\ t[n].id \in IdsOf(t)
        /\ Shown(t)[t[n].id] = Row(t[n])
        /\ t[n].id \in Audible(t) <=> t[n].route.state = "playing"
        /\ t[n].route.state = "playing" => Heard(t)[t[n].id] = Played(t[n])
    BY <2>1, Mapping
  <2> QED
    BY <1>2, <2>2
<1>7. /\ DOMAIN Shown(s) = IdsOf(s) /\ DOMAIN Shown(t) = IdsOf(t)
      /\ DOMAIN Heard(s) = Audible(s) /\ DOMAIN Heard(t) = Audible(t)
  BY Mapping
<1>8. /\ Shown(t) = [y \in IdsOf(t) |-> Shown(t)[y]]
      /\ Heard(t) = [y \in Audible(t) |-> Heard(t)[y]]
  BY <1>7 DEF Shown, Heard
<1>9. IdsOf(t) = IdsOf(s) \cup {item.id} /\ Audible(t) = Audible(s) \cup {item.id}
  BY <1>5, <1>6 DEF AgreeAwayFrom
<1>10. Shown(t) = Board!Put(Shown(s), item.id, Row(item))
  BY <1>5, <1>6, <1>7, <1>8, <1>9 DEF Board!Put, AgreeAwayFrom
<1>11. Heard(t) = Board!Put(Heard(s), item.id, Played(item))
  BY <1>5, <1>6, <1>7, <1>8, <1>9 DEF Board!Put, AgreeAwayFrom
<1> QED
  BY <1>10, <1>11

\* Removing an entry takes its id off the board.
LEMMA RemovedMapping ==
    ASSUME NEW s, Ordered(s), NEW t, Ordered(t), NEW k \in DOMAIN s,
           t = Without(s, k)
    PROVE  /\ Shown(t) = Board!Drop(Shown(s), s[k].id)
           /\ Heard(t) = Board!Drop(Heard(s), s[k].id)
<1> DEFINE x == s[k].id
<1>1. s \in Seq(ActiveRoute) /\ Len(s) \in Nat /\ DOMAIN s = 1..Len(s) /\ k \in 1..Len(s)
  BY DEF Ordered
<1>2. /\ DOMAIN t = 1..(Len(s) - 1)
      /\ \A i \in DOMAIN t : t[i] = IF i < k THEN s[i] ELSE s[i + 1]
  BY <1>1 DEF Without
<1>3. ASSUME NEW i \in DOMAIN t
      PROVE  \E j \in DOMAIN s : j # k /\ s[j] = t[i]
  <2>1. CASE i < k
    BY <1>1, <1>2, <1>3, <2>1
  <2>2. CASE ~(i < k)
    <3>1. i + 1 \in DOMAIN s /\ i + 1 # k /\ s[i + 1] = t[i]
      BY <1>1, <1>2, <1>3, <2>2
    <3> QED
      BY <3>1
  <2> QED
    BY <2>1, <2>2
<1>4. ASSUME NEW j \in DOMAIN s, j # k
      PROVE  \E i \in DOMAIN t : t[i] = s[j]
  <2>1. CASE j < k
    BY <1>1, <1>2, <1>4, <2>1
  <2>2. CASE ~(j < k)
    <3>1. j - 1 \in DOMAIN t /\ t[j - 1] = s[j]
      BY <1>1, <1>2, <1>4, <2>2
    <3> QED
      BY <3>1
  <2> QED
    BY <2>1, <2>2
<1>5. Covers(s, t, x)
  BY <1>4 DEF Covers
<1>6. Covers(t, s, x)
  BY <1>3 DEF Covers
<1> HIDE DEF x
<1>7. AgreeAwayFrom(s, t, x)
  BY <1>5, <1>6, AgreeAway
<1>8. x \notin IdsOf(t)
  <2> SUFFICES ASSUME NEW i \in DOMAIN t, t[i].id = x PROVE FALSE
    BY DEF IdsOf
  <2>1. PICK j \in DOMAIN s : j # k /\ s[j] = t[i]
    BY <1>3
  <2>2. s[j].id = s[k].id
    BY <2>1 DEF x
  <2> QED
    BY <2>1, <2>2, UniqueIds
<1>9. /\ DOMAIN Shown(s) = IdsOf(s) /\ DOMAIN Shown(t) = IdsOf(t)
      /\ DOMAIN Heard(s) = Audible(s) /\ DOMAIN Heard(t) = Audible(t)
      /\ Audible(t) \subseteq IdsOf(t)
  BY Mapping
<1>10. /\ Shown(t) = [y \in IdsOf(t) |-> Shown(t)[y]]
       /\ Heard(t) = [y \in Audible(t) |-> Heard(t)[y]]
  BY <1>9 DEF Shown, Heard
<1>11. IdsOf(t) = IdsOf(s) \ {x} /\ Audible(t) = Audible(s) \ {x}
  BY <1>7, <1>8, <1>9 DEF AgreeAwayFrom
<1>12. Shown(t) = Board!Drop(Shown(s), x)
  BY <1>7, <1>9, <1>10, <1>11 DEF Board!Drop, AgreeAwayFrom
<1>13. Heard(t) = Board!Drop(Heard(s), x)
  BY <1>7, <1>9, <1>10, <1>11 DEF Board!Drop, AgreeAwayFrom
<1> QED
  BY <1>12, <1>13 DEF x

------------------------------------------------------------------------------
(* What plays is what is shown.                                            *)

LEMMA PlayedIsShown ==
    ASSUME NEW item, Sound(item), item.enabled
    PROVE  Played(item) = Board!Heard(Row(item))
<1>1. /\ item.settings.networks \in Seq(Profiles)
      /\ item.route.networks = item.settings.networks
      /\ item.route.gains = item.mixer_inputs
  BY DEF Sound, ActiveRoute, Settings, Networks
<1>2. RangeOf(item.route.networks) = {item.network_profile} \ {NoProfile}
  <2>1. CASE item.network_profile = NoProfile
    BY <1>1, <2>1 DEF Sound, RangeOf
  <2>2. CASE item.network_profile # NoProfile
    <3>1. item.settings.networks # << >>
      BY <2>2 DEF Sound
    <3>2. 1 \in DOMAIN item.settings.networks
      BY <1>1, <3>1
    <3> QED
      BY <1>1, <2>2, <3>2 DEF Sound, RangeOf
  <2> QED
    BY <2>1, <2>2
<1> QED
  BY <1>1, <1>2 DEF Played, Row, Board!Heard

\* A step of the table maps to a step of the board or to none.
BoardStep == Board!Next \/ UNCHANGED <<Shown(routes), Heard(routes), next_route_id>>

LEMMA OrderedNow == ASSUME IInv PROVE Ordered(routes)
BY IInvOrdered

LEMMA OrderedNext == ASSUME IInv' PROVE Ordered(routes')
BY DEF IInv, OrderedIds, Ordered

LEMMA MapsAdd ==
    ASSUME IInv, IInv', NEW settings \in Settings, NEW profile \in Profiles \cup {NoProfile},
           NEW n \in 0..MaxInputs, settings.gains = Uniform(n, Unity),
           \A leg \in DOMAIN settings.networks : settings.networks[leg] = profile,
           profile = NoProfile <=> settings.networks = << >>,
           Add(settings, profile)
    PROVE  Board!Next
<1> DEFINE item == NewRoute(settings, profile)
           id == next_route_id
<1>1. Sound(item) /\ item.id = id
  BY NewRouteIsSound
<1>2. /\ item \in ActiveRoute
      /\ item.enabled
      /\ item.route.state = "playing"
      /\ item.mixer_inputs = Uniform(n, Unity)
      /\ item.network_profile = profile
  BY <1>1 DEF Sound, NewRoute, Playing
<1>3. /\ routes' = Append(routes, item)
      /\ next_route_id' = id + 1
      /\ id <= MaxRoutes
  BY DEF Add
<1>4. id \in Nat \ {0} /\ MaxRoutes \in Nat
  BY RouteTableAssumption DEF IInv, RestTyped
<1> HIDE DEF item
<1>5. /\ Shown(routes') = Board!Put(Shown(routes), id, Row(item))
      /\ Heard(routes') = Board!Put(Heard(routes), id, Played(item))
  BY <1>1, <1>2, <1>3, OrderedNow, OrderedNext, AppendedMapping
<1>6. Played(item) = Board!Heard(Row(item))
  BY <1>1, <1>2, PlayedIsShown
<1>7. Row(item) \in [enabled: {TRUE}, profile: {{}} \cup {{p} : p \in Profiles},
                     gains: {Uniform(m, Unity) : m \in 0..MaxInputs}]
  BY <1>2 DEF Row
<1>8. Row(item).enabled
  BY <1>2 DEF Row
<1>9. /\ id \notin 1..(next_route_id - 1)
      /\ 1..(next_route_id' - 1) = (1..(next_route_id - 1)) \cup {id}
      /\ id \in 1..MaxRoutes
  BY <1>3, <1>4
<1>10. Board!Start(id, Row(item))
  BY <1>5, <1>6, <1>8, <1>9 DEF Board!Start
<1> QED
  BY <1>7, <1>9, <1>10 DEF Board!Next

\* A replaced entry seen from the board.
LEMMA ReplacedStep ==
    ASSUME IInv, IInv', NEW k, NEW item, ReplacedAt(routes, routes', k, item)
    PROVE  /\ ShowsReplaced(routes, routes', item)
           /\ item.id \in DOMAIN Shown(routes)
           /\ Shown(routes)[item.id] = Row(routes[k])
           /\ item.id \in DOMAIN Heard(routes) <=> routes[k].route.state = "playing"
           /\ routes[k].route.state = "playing"
                 => Heard(routes)[item.id] = Played(routes[k])
<1>1. Ordered(routes) /\ Ordered(routes')
  BY OrderedNow, OrderedNext
<1>2. k \in DOMAIN routes /\ item.id = routes[k].id
  BY DEF ReplacedAt
<1>3. /\ routes[k].id \in IdsOf(routes)
      /\ Shown(routes)[routes[k].id] = Row(routes[k])
      /\ routes[k].id \in Audible(routes) <=> routes[k].route.state = "playing"
      /\ routes[k].route.state = "playing"
            => Heard(routes)[routes[k].id] = Played(routes[k])
  BY <1>1, <1>2, Mapping
<1>4. DOMAIN Shown(routes) = IdsOf(routes) /\ DOMAIN Heard(routes) = Audible(routes)
  BY <1>1, Mapping
<1>5. ShowsReplaced(routes, routes', item)
  BY <1>1, ReplacedMapping
<1> QED
  BY <1>2, <1>3, <1>4, <1>5

\* Dropping an id that is not there changes nothing.
LEMMA DropNothing ==
    ASSUME NEW table, Ordered(table), NEW x, x \notin DOMAIN Heard(table)
    PROVE  Board!Drop(Heard(table), x) = Heard(table)
<1>1. Heard(table) = [y \in DOMAIN Heard(table) |-> Heard(table)[y]]
  BY DEF Heard
<1>2. DOMAIN Heard(table) \ {x} = DOMAIN Heard(table)
  OBVIOUS
<1> QED
  BY <1>1, <1>2 DEF Board!Drop

LEMMA MapsErase ==
    ASSUME IInv, IInv', NEW id \in 1..MaxRoutes, EraseRoute(id)
    PROVE  Board!Next
<1>1. PICK k \in DOMAIN routes : routes[k].id = id /\ routes' = Without(routes, k)
  BY DEF EraseRoute, Positions
<1>2. /\ Shown(routes') = Board!Drop(Shown(routes), id)
      /\ Heard(routes') = Board!Drop(Heard(routes), id)
  BY <1>1, OrderedNow, OrderedNext, RemovedMapping
<1>3. id \in DOMAIN Shown(routes)
  BY <1>1, OrderedNow, Mapping
<1>4. Board!Remove(id)
  BY <1>2 DEF EraseRoute, Board!Remove
<1> QED
  BY <1>3, <1>4 DEF Board!Next

LEMMA MapsStopAll ==
    ASSUME StopAll
    PROVE  Board!Next
<1>1. routes' = << >> /\ next_route_id' = next_route_id
  BY DEF StopAll
<1>2. IdsOf(routes') = {} /\ Audible(routes') = {}
  BY <1>1 DEF IdsOf, Audible
<1>3. Shown(routes') = << >> /\ Heard(routes') = << >>
  BY <1>2 DEF Shown, Heard
<1>4. Board!Clear
  BY <1>1, <1>3 DEF Board!Clear
<1> QED
  BY <1>4 DEF Board!Next

LEMMA MapsSetEnabled ==
    ASSUME IInv, IInv', NEW id \in 1..MaxRoutes, NEW enable \in BOOLEAN,
           SetEnabled(id, enable)
    PROVE  Board!Next
<1>1. PICK k \in Positions(id) :
        /\ routes[k].enabled # enable
        /\ routes' = [routes EXCEPT
                        ![k].enabled = enable,
                        ![k].route = IF enable THEN Playing(routes[k].settings)
                                               ELSE Stop(routes[k].route)]
        /\ UNCHANGED <<next_route_id, telemetry, sync_due>>
  BY DEF SetEnabled
<1> DEFINE old == routes[k]
           item == [old EXCEPT
                      !.enabled = enable,
                      !.route = IF enable THEN Playing(old.settings) ELSE Stop(old.route)]
<1>2. k \in DOMAIN routes /\ old.id = id /\ Sound(old)
  BY DEF Positions, IInv
<1>3. routes' = [routes EXCEPT ![k] = item]
  BY <1>1, <1>2 DEF IInv
<1>4. /\ item.id = id
      /\ item.enabled = enable
      /\ Row(item) = [Row(old) EXCEPT !.enabled = enable]
      /\ item.route.state = "playing" <=> enable
  <2>1. old \in ActiveRoute
    BY <1>2 DEF Sound
  <2>2. Stop(old.route).state # "playing"
    BY DEF Stop, NoRoute, Stopped
  <2>3. /\ item.route = IF enable THEN Playing(old.settings) ELSE Stop(old.route)
        /\ item.id = id
        /\ item.enabled = enable
        /\ item.network_profile = old.network_profile
        /\ item.mixer_inputs = old.mixer_inputs
    BY <1>2, <2>1 DEF ActiveRoute
  <2> HIDE DEF item
  <2> QED
    BY <2>2, <2>3 DEF Row, Playing
<1>5. Sound(item)
  <2>1. item = routes'[k] /\ k \in DOMAIN routes'
    BY <1>2, <1>3 DEF IInv
  <2> QED
    BY <2>1 DEF IInv
<1> HIDE DEF item
<1>6. /\ id \in DOMAIN Shown(routes)
      /\ Shown(routes)[id] = Row(old)
      /\ Shown(routes') = [Shown(routes) EXCEPT ![id] = Row(item)]
      /\ enable => Heard(routes') = Board!Put(Heard(routes), id, Played(item))
      /\ ~enable => Heard(routes') = Board!Drop(Heard(routes), id)
  <2>1. ReplacedAt(routes, routes', k, item)
    BY <1>2, <1>3, <1>4 DEF ReplacedAt
  <2> QED
    BY <1>2, <1>4, <2>1, ReplacedStep DEF ShowsReplaced
<1>7. CASE enable
  <2>1. Played(item) = Board!Heard(Row(old))
    <3>1. Played(item) = Board!Heard(Row(item))
      BY <1>4, <1>5, <1>7, PlayedIsShown
    <3> QED
      BY <1>4, <3>1 DEF Board!Heard, Row
  <2>2. ~Row(old).enabled /\ enable = TRUE
    BY <1>1, <1>7, <1>2 DEF Row, Sound, ActiveRoute
  <2>3. Board!Resume(id)
    BY <1>1, <1>4, <1>6, <1>7, <2>1, <2>2 DEF Board!Resume
  <2> QED
    BY <1>6, <2>3 DEF Board!Next
<1>8. CASE ~enable
  <2>1. enable = FALSE
    BY <1>8
  <2>2. Board!Pause(id)
    BY <1>1, <1>4, <1>6, <1>8, <2>1 DEF Board!Pause
  <2> QED
    BY <1>6, <2>2 DEF Board!Next
<1> QED
  BY <1>7, <1>8

LEMMA MapsSetMixerGain ==
    ASSUME IInv, IInv', NEW id \in 1..MaxRoutes, NEW input \in 1..MaxInputs,
           NEW gain \in GainInputs, SetMixerGain(id, input, gain)
    PROVE  Board!Next
<1>1. PICK k \in Positions(id) :
        /\ ~OutOfRange(gain)
        /\ input \in DOMAIN routes[k].mixer_inputs
        /\ routes' = [routes EXCEPT ![k] = GainEdited(routes[k], input, gain)]
        /\ UNCHANGED <<next_route_id, telemetry, sync_due>>
  BY DEF SetMixerGain
<1> DEFINE old == routes[k]
           item == GainEdited(old, input, gain)
<1>2. k \in DOMAIN routes /\ old.id = id /\ Sound(old)
  BY DEF Positions, IInv
<1>3. /\ item.id = id
      /\ Row(item) = [Row(old) EXCEPT !.gains[input] = gain]
      /\ item.route.state = old.route.state
      /\ old.enabled => Played(item) = [Played(old) EXCEPT !.gains[input] = gain]
      /\ old.route.state = "playing" => old.enabled
  <2>1. old \in ActiveRoute /\ (old.route.state = "playing" => old.enabled)
    BY <1>2 DEF Sound
  <2>2. old.route \in Route
    BY <2>1 DEF ActiveRoute
  <2>3. /\ item.id = old.id
        /\ item.enabled = old.enabled
        /\ item.network_profile = old.network_profile
        /\ item.mixer_inputs = [old.mixer_inputs EXCEPT ![input] = gain]
        /\ item.route = IF old.enabled THEN [old.route EXCEPT !.gains[input] = gain]
                                       ELSE old.route
    BY <2>1 DEF GainEdited, ActiveRoute
  <2> HIDE DEF item
  <2>4. Row(item) = [Row(old) EXCEPT !.gains[input] = gain]
    BY <2>3 DEF Row
  <2>5. /\ item.route.state = old.route.state
        /\ item.route.networks = old.route.networks
        /\ old.enabled => item.route.gains = [old.route.gains EXCEPT ![input] = gain]
    BY <2>2, <2>3 DEF Route
  <2>6. old.enabled => Played(item) = [Played(old) EXCEPT !.gains[input] = gain]
    BY <2>5 DEF Played
  <2> QED
    BY <1>2, <2>1, <2>3, <2>4, <2>5, <2>6
<1> HIDE DEF item
<1>4. ReplacedAt(routes, routes', k, item)
  BY <1>1, <1>2, <1>3 DEF ReplacedAt, item
<1>5. /\ ShowsReplaced(routes, routes', item)
      /\ id \in DOMAIN Shown(routes)
      /\ Shown(routes)[id] = Row(old)
      /\ id \in DOMAIN Heard(routes) <=> old.route.state = "playing"
      /\ old.route.state = "playing" => Heard(routes)[id] = Played(old)
  BY <1>3, <1>4, ReplacedStep
<1>6. Shown(routes') = [Shown(routes) EXCEPT ![id].gains[input] = gain]
  BY <1>3, <1>5 DEF ShowsReplaced
<1>7. input \in DOMAIN Shown(routes)[id].gains
  BY <1>1, <1>5 DEF Row
<1>8. Heard(routes') = IF id \in DOMAIN Heard(routes)
                       THEN [Heard(routes) EXCEPT ![id].gains[input] = gain]
                       ELSE Heard(routes)
  <2>1. CASE old.route.state = "playing"
    <3>1. Heard(routes') = Board!Put(Heard(routes), id, [Heard(routes)[id] EXCEPT !.gains[input] = gain])
      BY <1>3, <1>5, <2>1 DEF ShowsReplaced
    <3>2. Heard(routes) = [y \in DOMAIN Heard(routes) |-> Heard(routes)[y]]
      BY DEF Heard
    <3>3. DOMAIN Heard(routes) \cup {id} = DOMAIN Heard(routes)
      BY <1>5, <2>1
    <3> QED
      BY <1>5, <2>1, <3>1, <3>2, <3>3 DEF Board!Put
  <2>2. CASE old.route.state # "playing"
    <3>1. id \notin DOMAIN Heard(routes)
      BY <1>5, <2>2
    <3>2. Heard(routes') = Board!Drop(Heard(routes), id)
      BY <1>3, <1>5, <2>2 DEF ShowsReplaced
    <3> QED
      BY <3>1, <3>2, OrderedNow, DropNothing
  <2> QED
    BY <2>1, <2>2
<1>9. Board!SetGain(id, input, gain)
  BY <1>1, <1>6, <1>7, <1>8 DEF Board!SetGain
<1> QED
  BY <1>1, <1>5, <1>9 DEF Board!Next

LEMMA MapsUpdateProfile ==
    ASSUME IInv, IInv', NEW id \in 1..MaxRoutes, NEW p \in Profiles, UpdateProfile(id, p)
    PROVE  Board!Next
<1>1. PICK k \in Positions(id) :
        /\ routes[k].network_profile # NoProfile
        /\ LET new == Retuned(routes[k], p) IN
           \/ /\ ~new.enabled
              /\ routes' = [routes EXCEPT ![k] = new]
           \/ /\ new.enabled
              /\ routes' = [routes EXCEPT ![k] = [new EXCEPT !.route = Playing(new.settings)]]
           \/ /\ new.enabled
              /\ routes' = [routes EXCEPT ![k] = RestartFailed(new)]
        /\ UNCHANGED <<next_route_id, telemetry, sync_due>>
  BY DEF UpdateProfile
<1> DEFINE old == routes[k]
           new == Retuned(old, p)
           row == [Row(old) EXCEPT !.profile = {p}]
<1>2. k \in DOMAIN routes /\ old.id = id /\ Sound(old) /\ p # NoProfile
  BY RouteTableAssumption DEF Positions, IInv
<1>3. /\ new \in ActiveRoute
      /\ new.id = id
      /\ new.enabled = old.enabled
      /\ new.route = old.route
      /\ Row(new) = row
  <2>1. /\ new \in ActiveRoute
        /\ new.id = id
        /\ new.enabled = old.enabled
        /\ new.route = old.route
        /\ new.network_profile = p
    BY <1>1, <1>2, RetunedTyped
  <2>2. new.mixer_inputs = old.mixer_inputs
    BY <1>2 DEF Retuned, Sound, ActiveRoute
  <2> HIDE DEF new
  <2> QED
    BY <1>2, <2>1, <2>2 DEF Row
<1>4. Row(old).profile # {} /\ Row(old).enabled = old.enabled /\ row.enabled = old.enabled
  BY <1>1 DEF Row
<1> HIDE DEF new
<1>5. ASSUME NEW item, ReplacedAt(routes, routes', k, item), item.id = id
      PROVE  /\ ShowsReplaced(routes, routes', item)
             /\ id \in DOMAIN Shown(routes)
             /\ Shown(routes)[id] = Row(old)
             /\ id \in DOMAIN Heard(routes) <=> old.route.state = "playing"
             /\ Sound(item)
  <2>1. item = routes'[k] /\ k \in DOMAIN routes'
    BY <1>5 DEF IInv, ReplacedAt
  <2>2. Sound(item)
    BY <2>1 DEF IInv
  <2> QED
    BY <1>5, <2>2, ReplacedStep
<1>6. CASE ~new.enabled /\ routes' = [routes EXCEPT ![k] = new]
  <2>1. ReplacedAt(routes, routes', k, new)
    BY <1>2, <1>3, <1>6 DEF ReplacedAt
  <2>2. new.route.state # "playing"
    BY <1>2, <1>3, <1>6 DEF Sound
  <2>3. Heard(routes') = Heard(routes)
    BY <1>3, <1>5, <2>1, <2>2, OrderedNow, DropNothing DEF ShowsReplaced
  <2>4. Board!SetProfile(id, p)
    BY <1>1, <1>3, <1>4, <1>5, <1>6, <2>1, <2>3 DEF Board!SetProfile, ShowsReplaced
  <2> QED
    BY <1>3, <1>5, <2>1, <2>4 DEF Board!Next
<1>7. CASE /\ new.enabled
           /\ routes' = [routes EXCEPT ![k] = [new EXCEPT !.route = Playing(new.settings)]]
  <2> DEFINE item == [new EXCEPT !.route = Playing(new.settings)]
  <2>1. item.id = id /\ Row(item) = row /\ item.enabled /\ item.route.state = "playing"
    BY <1>3, <1>7 DEF ActiveRoute, Row, Playing
  <2> HIDE DEF item
  <2>2. ReplacedAt(routes, routes', k, item)
    BY <1>2, <1>7, <2>1 DEF ReplacedAt, item
  <2>3. Played(item) = Board!Heard(row)
    BY <1>5, <2>1, <2>2, PlayedIsShown
  <2>5. Shown(routes') = [Shown(routes) EXCEPT ![id] = row]
    BY <1>5, <2>1, <2>2 DEF ShowsReplaced
  <2>6. Heard(routes') = Board!Put(Heard(routes), id, Board!Heard(row))
    BY <1>5, <2>1, <2>2, <2>3 DEF ShowsReplaced
  <2>7. row = [Shown(routes)[id] EXCEPT !.profile = {p}] /\ Shown(routes)[id].profile # {}
    BY <1>4, <1>5, <2>2, <2>1
  <2>8. row.enabled
    BY <1>3, <1>4, <1>7
  <2> HIDE DEF row
  <2>4. Board!SetProfile(id, p)
    BY <1>1, <2>5, <2>6, <2>7, <2>8 DEF Board!SetProfile
  <2> QED
    BY <1>5, <2>1, <2>2, <2>4 DEF Board!Next
<1>8. CASE new.enabled /\ routes' = [routes EXCEPT ![k] = RestartFailed(new)]
  <2> DEFINE item == RestartFailed(new)
  <2>0. PICK off \in BOOLEAN : off = FALSE
    OBVIOUS
  <2>1. /\ item.id = id
        /\ Row(item) = [row EXCEPT !.enabled = off]
        /\ item.route.state # "playing"
    <3>1. /\ item.id = id
          /\ item.enabled = off
          /\ item.route = NoRoute
          /\ item.network_profile = new.network_profile
          /\ item.mixer_inputs = new.mixer_inputs
      BY <1>3, <2>0 DEF ActiveRoute, RestartFailed
    <3> HIDE DEF item
    <3>2. Row(item) = [Row(new) EXCEPT !.enabled = off]
      BY <3>1 DEF Row
    <3> QED
      BY <1>3, <3>1, <3>2 DEF NoRoute
  <2> HIDE DEF item
  <2>2. ReplacedAt(routes, routes', k, item)
    BY <1>2, <1>8, <2>1 DEF ReplacedAt, item
  <2>5. Shown(routes') = [Shown(routes) EXCEPT ![id] = [row EXCEPT !.enabled = off]]
    BY <1>5, <2>1, <2>2 DEF ShowsReplaced
  <2>6. Heard(routes') = Board!Drop(Heard(routes), id)
    BY <1>5, <2>1, <2>2 DEF ShowsReplaced
  <2>7. row = [Shown(routes)[id] EXCEPT !.profile = {p}] /\ Shown(routes)[id].profile # {}
    BY <1>4, <1>5, <2>2, <2>1
  <2>8. row.enabled
    BY <1>3, <1>4, <1>8
  <2> HIDE DEF row
  <2>3. Board!SetProfile(id, p)
    BY <1>1, <2>0, <2>5, <2>6, <2>7, <2>8 DEF Board!SetProfile
  <2> QED
    BY <1>5, <2>1, <2>2, <2>3 DEF Board!Next
<1> QED
  BY <1>1, <1>6, <1>7, <1>8 DEF new

LEMMA MapsPipelineFails ==
    ASSUME IInv, IInv', NEW k \in DOMAIN routes, PipelineFails(k)
    PROVE  Board!Next
<1> DEFINE old == routes[k]
           item == [old EXCEPT !.route = [old.route EXCEPT !.state = "failed"]]
           id == old.id
<1>1. Sound(old) /\ old.route.state = "playing"
  BY DEF IInv, PipelineFails
<1>2. item.id = id /\ Row(item) = Row(old) /\ item.route.state # "playing"
  BY <1>1 DEF Sound, ActiveRoute, Route, Row
<1>3. routes' = [routes EXCEPT ![k] = item] /\ next_route_id' = next_route_id
  BY <1>1 DEF IInv, PipelineFails, Sound, ActiveRoute
<1> HIDE DEF item
<1>4. ReplacedAt(routes, routes', k, item)
  BY <1>2, <1>3 DEF ReplacedAt
<1>5. /\ ShowsReplaced(routes, routes', item)
      /\ item.id \in DOMAIN Shown(routes)
      /\ Shown(routes)[item.id] = Row(old)
      /\ item.id \in DOMAIN Heard(routes)
  BY <1>1, <1>4, ReplacedStep
<1>6. Heard(routes') = Board!Drop(Heard(routes), id)
  BY <1>2, <1>5 DEF ShowsReplaced
<1>7. Shown(routes') = Shown(routes)
  <2>1. Shown(routes') = [Shown(routes) EXCEPT ![id] = Shown(routes)[id]]
    BY <1>2, <1>5 DEF ShowsReplaced
  <2>2. Shown(routes) = [y \in DOMAIN Shown(routes) |-> Shown(routes)[y]]
    BY DEF Shown
  <2> QED
    BY <2>1, <2>2
<1>8. Board!Break(id)
  BY <1>3, <1>6, <1>7 DEF Board!Break
<1> QED
  BY <1>2, <1>5, <1>8 DEF Board!Next

\* Polling an entry pauses it unless it plays, and leaves a playing one alone.
LEMMA PolledShape ==
    ASSUME NEW item, Sound(item)
    PROVE  LET polled == Polled(item) IN
           /\ polled.id = item.id
           /\ polled.route.state = "playing" <=> item.route.state = "playing"
           /\ item.route.state = "playing" => polled = item
           /\ polled.enabled <=> item.route.state = "playing"
           /\ polled.network_profile = item.network_profile
           /\ polled.mixer_inputs = item.mixer_inputs
<1>1. /\ item \in ActiveRoute
      /\ item.enabled \in BOOLEAN
      /\ item.enabled <=> item.route.state \in {"playing", "failed"}
  BY DEF Sound, ActiveRoute
<1>2. CASE item.route.state = "failed"
  <2> DEFINE polled == [item EXCEPT !.enabled = FALSE, !.route = Stop(@)]
  <2>1. Polled(item) = polled
    BY <1>1, <1>2 DEF Polled, PollOk
  <2>2. Stop(item.route) = Stopped
    BY <1>2 DEF Stop
  <2>3. /\ polled.id = item.id
        /\ polled.enabled = FALSE
        /\ polled.route = Stopped
        /\ polled.network_profile = item.network_profile
        /\ polled.mixer_inputs = item.mixer_inputs
    BY <1>1, <2>2 DEF ActiveRoute
  <2> HIDE DEF polled
  <2> QED
    BY <1>2, <2>1, <2>3 DEF Stopped
<1>3. CASE item.route.state # "failed"
  <2>1. Polled(item) = item
    BY <1>1, <1>3 DEF Polled, PollOk
  <2> QED
    BY <1>1, <1>3, <2>1
<1> QED
  BY <1>2, <1>3

\* Polling keeps every id and what is heard, and shows the silent as paused.
LEMMA MapsPoll ==
    ASSUME IInv, IInv', Poll
    PROVE  Board!Next
<1>1. Ordered(routes) /\ Ordered(routes')
  BY OrderedNow, OrderedNext
<1>2. /\ DOMAIN routes' = DOMAIN routes
      /\ \A k \in DOMAIN routes : routes'[k] = Polled(routes[k])
      /\ next_route_id' = next_route_id
  BY DEF Poll
<1>3. ASSUME NEW k \in DOMAIN routes
      PROVE  /\ routes'[k].id = routes[k].id
             /\ routes'[k].route.state = "playing" <=> routes[k].route.state = "playing"
             /\ routes[k].route.state = "playing" => routes'[k] = routes[k]
             /\ routes'[k].enabled <=> routes[k].route.state = "playing"
             /\ routes'[k].network_profile = routes[k].network_profile
             /\ routes'[k].mixer_inputs = routes[k].mixer_inputs
  <2>1. Sound(routes[k]) /\ routes'[k] = Polled(routes[k])
    BY <1>2 DEF IInv
  <2> QED
    BY <2>1, PolledShape
<1>4. IdsOf(routes') = IdsOf(routes)
  BY <1>2, <1>3 DEF IdsOf
<1>5. ASSUME NEW y \in IdsOf(routes)
      PROVE  \E k \in DOMAIN routes :
                /\ routes[k].id = y
                /\ Item(routes, y) = routes[k]
                /\ Item(routes', y) = routes'[k]
  <2>1. PICK k \in DOMAIN routes : routes[k].id = y
    BY DEF IdsOf
  <2>2. Item(routes, y) = routes[k]
    BY <1>1, <2>1, ItemAt
  <2>3. k \in DOMAIN routes' /\ routes'[k].id = y
    BY <1>2, <1>3, <2>1
  <2>4. Item(routes', y) = routes'[k]
    BY <1>1, <2>3, ItemAt
  <2> QED
    BY <2>1, <2>2, <2>4
<1>6. Audible(routes') = Audible(routes)
  BY <1>3, <1>4, <1>5 DEF Audible
<1>7. Heard(routes') = Heard(routes)
  <2>1. \A y \in Audible(routes) : Played(Item(routes', y)) = Played(Item(routes, y))
    BY <1>3, <1>5 DEF Audible
  <2> QED
    BY <1>6, <2>1 DEF Heard
<1>8. ASSUME NEW y \in IdsOf(routes)
      PROVE  Row(Item(routes', y)) = [Row(Item(routes, y)) EXCEPT !.enabled = (y \in Audible(routes))]
  <2>1. PICK k \in DOMAIN routes :
            /\ routes[k].id = y
            /\ Item(routes, y) = routes[k]
            /\ Item(routes', y) = routes'[k]
    BY <1>5
  <2>2. /\ routes'[k].enabled \in BOOLEAN
        /\ routes'[k].network_profile = routes[k].network_profile
        /\ routes'[k].mixer_inputs = routes[k].mixer_inputs
    BY <1>2, <1>3 DEF IInv, Sound, ActiveRoute
  <2> DEFINE on == routes'[k].enabled
  <2>3. on = (y \in Audible(routes))
    BY <1>3, <2>1, <2>2 DEF Audible
  <2>4. Row(routes'[k]) = [Row(routes[k]) EXCEPT !.enabled = on]
    BY <2>2 DEF Row
  <2> QED
    BY <2>1, <2>3, <2>4
<1>9. /\ DOMAIN Shown(routes) = IdsOf(routes)
      /\ DOMAIN Heard(routes) = Audible(routes)
      /\ \A y \in IdsOf(routes) : Shown(routes)[y] = Row(Item(routes, y))
  BY DEF Shown, Heard
<1>10. Shown(routes') = [y \in IdsOf(routes) |-> Row(Item(routes', y))]
  BY <1>4 DEF Shown
<1>11. Shown(routes') = [y \in DOMAIN Shown(routes) |->
          [Shown(routes)[y] EXCEPT !.enabled = y \in DOMAIN Heard(routes)]]
  BY <1>8, <1>9, <1>10
<1>12. Board!Notice
  BY <1>2, <1>7, <1>11 DEF Board!Notice
<1> QED
  BY <1>12 DEF Board!Next

------------------------------------------------------------------------------
LEMMA MapsNext ==
    ASSUME IInv, IInv', [Next]_vars
    PROVE  [Board!Next]_(Board!vars)
<1>0. \A n \in Nat : Uniform(n, Unity) = [i \in 1..n |-> Unity]
  BY DEF Uniform
<1>1. CASE UNCHANGED vars
  BY <1>1 DEF vars, Board!vars, Shown, Heard, Audible, IdsOf, Item
<1>2. ASSUME NEW n \in 1..MaxInputs, ApiMatrix(n) PROVE Board!Next
  <2>1. n \in Nat /\ n \in 0..MaxInputs
    BY RouteTableAssumption
  <2>2. /\ MatrixSettings(n) \in Settings
        /\ MatrixSettings(n).gains = Uniform(n, Unity)
        /\ MatrixSettings(n).networks = << >>
    <3>1. Uniform(n, Unity) \in Gains /\ << >> \in Networks
      BY <2>1, UniformIsSeq DEF Gains, GainValues, Unity, Networks
    <3> QED
      BY <3>1 DEF MatrixSettings, Settings, Kinds
  <2>3. Add(MatrixSettings(n), NoProfile)
    BY <1>2 DEF ApiMatrix
  <2> HIDE DEF MatrixSettings
  <2> QED
    BY <2>1, <2>2, <2>3, MapsAdd
<1>3. ASSUME NEW p \in Profiles, Add(SenderSettings(p), p) \/ Add(ReceiverSettings(p), p)
      PROVE  Board!Next
  <2>1. /\ SenderSettings(p) \in Settings /\ ReceiverSettings(p) \in Settings
        /\ SenderSettings(p).networks = <<p>> /\ ReceiverSettings(p).networks = <<p>>
        /\ SenderSettings(p).gains = << >> /\ ReceiverSettings(p).gains = << >>
    BY SettingsTyped, 0 \in Nat DEF SenderSettings, ReceiverSettings
  <2>2. Uniform(0, Unity) = << >> /\ 0 \in 0..MaxInputs /\ p # NoProfile
    BY RouteTableAssumption DEF Uniform
  <2> HIDE DEF SenderSettings, ReceiverSettings
  <2> QED
    BY <1>3, <2>1, <2>2, MapsAdd
<1>4. ASSUME NEW n \in 2..MaxInputs, NEW p \in Profiles, PairedMixer(n, p) PROVE Board!Next
  <2>1. n \in Nat /\ n >= 2 /\ n \in 0..MaxInputs /\ p # NoProfile
    BY RouteTableAssumption
  <2>2. /\ MixerSettings(n, p) \in Settings
        /\ MixerSettings(n, p).gains = Uniform(n, Unity)
        /\ DOMAIN MixerSettings(n, p).networks = 1..n
        /\ \A leg \in 1..n : MixerSettings(n, p).networks[leg] = p
    BY <2>1, SettingsTyped DEF MixerSettings, Uniform
  <2>3. MixerSettings(n, p).networks # << >>
    BY <2>1, <2>2
  <2>4. Add(MixerSettings(n, p), p)
    BY <1>4 DEF PairedMixer
  <2> HIDE DEF MixerSettings
  <2> QED
    BY <2>1, <2>2, <2>3, <2>4, MapsAdd
<1>5. CASE Request
  <2>1. ASSUME NEW p \in Profiles,
               ApiNetworkSend(p) \/ ApiNetworkReceive(p) \/ PairedRoute(p)
        PROVE  Board!Next
    BY <1>3, <2>1 DEF ApiNetworkSend, ApiNetworkReceive, PairedRoute
  <2>2. ASSUME NEW id \in 1..MaxRoutes, NEW input \in 1..MaxInputs, NEW gain \in GainInputs,
               SetMixerGain(id, input, gain)
        PROVE  Board!Next
    BY <2>2, MapsSetMixerGain
  <2>3. ASSUME NEW id \in 1..MaxRoutes, NEW enable \in BOOLEAN, SetEnabled(id, enable)
        PROVE  Board!Next
    BY <2>3, MapsSetEnabled
  <2>4. ASSUME NEW id \in 1..MaxRoutes, NEW p \in Profiles, UpdateProfile(id, p)
        PROVE  Board!Next
    BY <2>4, MapsUpdateProfile
  <2>5. ASSUME NEW id \in 1..MaxRoutes, EraseRoute(id) PROVE Board!Next
    BY <2>5, MapsErase
  <2>6. CASE StopAll
    BY <2>6, MapsStopAll
  <2> QED
    BY <1>2, <1>4, <1>5, <2>1, <2>2, <2>3, <2>4, <2>5, <2>6 DEF Request
<1>6. CASE Poll
  BY <1>6, MapsPoll
<1>7. CASE Elapse
  BY <1>7 DEF Elapse, Board!vars, Shown, Heard, Audible, IdsOf, Item
<1>8. ASSUME NEW k \in DOMAIN routes, PipelineFails(k) PROVE Board!Next
  BY <1>8, MapsPipelineFails
<1> QED
  BY <1>1, <1>5, <1>6, <1>7, <1>8 DEF Next

LEMMA MapsInit ==
    ASSUME Init
    PROVE  Board!Init
<1>1. routes = << >> /\ next_route_id = 1
  BY DEF Init
<1>2. IdsOf(routes) = {} /\ Audible(routes) = {}
  BY <1>1 DEF IdsOf, Audible
<1> QED
  BY <1>1, <1>2 DEF Board!Init, Shown, Heard

\* The route table implements the board: what is heard is what is shown, ids
\* are fresh, and a silent route is shown as paused after the next poll.
THEOREM RouteTableImplementsBoard == Spec => Implements
<1>1. Init => Board!Init
  BY MapsInit
<1>2. IInv /\ IInv' /\ [Next]_vars => [Board!Next]_(Board!vars)
  BY MapsNext
<1> QED
  BY <1>1, <1>2, Inductive, PTL DEF Spec, Implements, Board!Spec
==============================================================================
