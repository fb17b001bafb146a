----------------------------- MODULE DeviceList -----------------------------
(***************************************************************************)
(* The audio devices the Web UI offers and the local matrix it makes of    *)
(* them: device_enumerator.cpp, list_sources of audio_backend.cpp,         *)
(* devices_json and POST /api/matrix of web_server.cpp, matrixChoice of    *)
(* the page.  One GET /api/devices enumerates the hardware three times;    *)
(* devices come and go in between.                                         *)
(***************************************************************************)
EXTENDS Integers, Sequences

CONSTANTS
    Hardware,         \* what may be plugged in: [capture: .., playback: .., mirror: ..],
                      \* what GStreamer reports of it under each class, or Nothing, and
                      \* whether the capture records what the playback plays
    Nothing,
    MaxMoves,         \* bound: devices plugged or unplugged
    MaxLinks          \* bound: links of one matrix

VARIABLES
    plugged,          \* the hardware that is there
    moves,            \* how many times it changed
    moved,            \* what was plugged or unplugged since the listing began
    step,             \* the enumeration /api/devices does next
    captures, sinks,  \* the results of the first two
    page,             \* the devices the page shows
    matrix            \* the settings POST /api/matrix made of the page's links

vars == <<plugged, moves, moved, step, captures, sinks, page, matrix>>

\* What GStreamer reports of a device: its selector factory|device, its name and the
\* sink it says it is the "Monitor of", if any.
Selector == [factory: STRING, device: STRING]
Device == [id: Selector, name: STRING, monitor_of: STRING, default: BOOLEAN]

Reported(class) == {h[class] : h \in Hardware} \ {Nothing}

\* What DeviceList takes for granted of the hardware: the device part of a selector
\* names one device of a class, a monitor has a selector, and WASAPI reports an
\* endpoint under both classes alike, under an id of its own.
HardwareAssumption ==
    /\ Hardware \subseteq [capture: Device \cup {Nothing}, playback: Device \cup {Nothing},
                           mirror: BOOLEAN]
    /\ Nothing \notin Device \cup Selector
    /\ \A class \in {"capture", "playback"} : \A d, e \in Reported(class) :
          d.id.device = e.id.device /\ d.id.device # "" => d = e
    /\ \A c \in Reported("capture") : c.id.device = "" => c.monitor_of = ""
    /\ \A c \in Reported("capture"), p \in Reported("playback") :
          c.id.device = p.id.device /\ c.id.factory = "wasapi2src" /\ c.id.device # "" =>
              p.id.factory = "wasapi2sink" /\ c.default = p.default

NoMatrix == [links |-> << >>, sources |-> << >>, sinks |-> << >>, loopback |-> << >>, routes |-> << >>]

------------------------------------------------------------------------------
\* list_devices.  Without a string property the device of a selector is empty.
Listed(class) == {h[class] : h \in plugged} \ {Nothing}

\* monitor_sink_selector.
Mirrored(source, list) ==
    LET named == {s \in list : source.monitor_of # "" /\ s.name = source.monitor_of}
    IN  IF named = {} THEN Nothing ELSE (CHOOSE s \in named : TRUE).id

Source(device, loopback_of) ==
    [id |-> device.id, name |-> device.name, default |-> device.default, loopback_of |-> loopback_of]

\* render_source_selector.
IsWasapi(sink) == sink.id.factory = "wasapi2sink"

\* Mutant of Sources: render endpoints listed as captures are kept.
SourcesTwice(inputs, outputs) ==
    {Source(c, Mirrored(c, outputs)) : c \in inputs}
    \cup {Source([s EXCEPT !.id.factory = "wasapi2src"], s.id) :
              s \in {k \in outputs : ~k.default /\ IsWasapi(k)}}

\* list_sources.
Sources(inputs, outputs) ==
    LET playback == {s.id.device : s \in outputs}
    IN  {Source(c, Mirrored(c, outputs)) : c \in {d \in inputs : d.id.device \notin playback}}
        \cup {Source([s EXCEPT !.id.factory = "wasapi2src"], s.id) :
                  s \in {k \in outputs : ~k.default /\ IsWasapi(k)}}

\* renderLoopback and endpoint, as devices_json writes them.
IsLoopback(source) == source.loopback_of # Nothing
Endpoint(source) == IF IsLoopback(source) THEN source.loopback_of.device ELSE source.id.device

\* Mutant of Choice: the page compares what the server compares.
ChoiceById(source, sink) == ~(IsLoopback(source) /\ source.id.device = sink.id.device)

\* matrixChoice: the page offers no link from a playback to itself.
Choice(source, sink) == ~(IsLoopback(source) /\ Endpoint(source) = sink.id.device)

Offered == {[source |-> p[1].id, loopback |-> IsLoopback(p[1]), sink |-> p[2].id] :
                p \in {q \in page.sources \X page.sinks : Choice(q[1], q[2])}}

------------------------------------------------------------------------------
Init ==
    /\ plugged \in SUBSET Hardware
    /\ moves = 0 /\ moved = {} /\ step = "captures"
    /\ captures = {} /\ sinks = {} /\ page = [sources |-> {}, sinks |-> {}]
    /\ matrix = NoMatrix

\* A device is plugged in or pulled out; later than the list nothing here sees it.
Move(h) ==
    /\ step # "done" /\ moves < MaxMoves /\ moves' = moves + 1
    /\ plugged' = IF h \in plugged THEN plugged \ {h} ELSE plugged \cup {h}
    /\ moved' = moved \cup {h}
    /\ UNCHANGED <<step, captures, sinks, page, matrix>>

\* list_sources: the captures, then the sinks.
ListCaptures ==
    /\ step = "captures" /\ step' = "sinks"
    /\ captures' = Listed("capture") /\ moved' = {}
    /\ UNCHANGED <<plugged, moves, sinks, page, matrix>>

ListPlaybacks ==
    /\ step = "sinks" /\ step' = "page"
    /\ sinks' = Listed("playback")
    /\ UNCHANGED <<plugged, moves, moved, captures, page, matrix>>

\* list_sinks, and the answer that leaves the defaults out.
DevicesJson ==
    /\ step = "page" /\ step' = "done"
    /\ page' = [sources |-> {s \in Sources(captures, sinks) : ~s.default},
                sinks |-> {s \in Listed("playback") : ~s.default}]
    /\ UNCHANGED <<plugged, moves, moved, captures, sinks, matrix>>

\* The place of x in the vector, which grows by it when it is new.
PushBackNew(list, x) == IF \E i \in DOMAIN list : list[i] = x THEN list ELSE Append(list, x)
PlaceOf(list, x) == CHOOSE i \in DOMAIN list : list[i] = x

\* Mutant of LinkAdded: a source already known counts as the last one.
LinkAddedLast(m, link) ==
    LET sources == PushBackNew(m.sources, link.source)
        outputs == PushBackNew(m.sinks, link.sink)
    IN  [links |-> Append(m.links, link), sources |-> sources, sinks |-> outputs,
         loopback |-> IF sources = m.sources THEN m.loopback ELSE Append(m.loopback, link.loopback),
         routes |-> Append(m.routes, [source |-> Len(sources), sink |-> Len(outputs)])]

\* One line of POST /api/matrix: endpoints are numbered as they first occur.
LinkAdded(m, link) ==
    LET sources == PushBackNew(m.sources, link.source)
        outputs == PushBackNew(m.sinks, link.sink)
    IN  [links |-> Append(m.links, link), sources |-> sources, sinks |-> outputs,
         loopback |-> IF sources = m.sources THEN m.loopback ELSE Append(m.loopback, link.loopback),
         routes |-> Append(m.routes, [source |-> PlaceOf(sources, link.source),
                                      sink |-> PlaceOf(outputs, link.sink)])]

\* The user selects one more offered link; the request skips a loopback onto its
\* own endpoint.
AddLink(link) ==
    /\ step = "done" /\ Len(matrix.links) < MaxLinks
    /\ \A i \in DOMAIN matrix.links : matrix.links[i] # link
    /\ ~(link.loopback /\ link.source.device = link.sink.device)
    /\ matrix' = LinkAdded(matrix, link)
    /\ UNCHANGED <<plugged, moves, moved, step, captures, sinks, page>>

Next ==
    \/ \E h \in Hardware : Move(h)
    \/ ListCaptures
    \/ ListPlaybacks
    \/ DevicesJson
    \/ \E link \in Offered : AddLink(link)

Spec == Init /\ [][Next]_vars

------------------------------------------------------------------------------
\* The hardware did not change while the page's list was made.
Steady(h) == h \in plugged /\ h \notin moved

\* A sink of another system than WASAPI has the device of a capture, as ALSA's hw:0
\* is both: the capture is taken for the sink, and no source is made of the sink.
Shadowed(c) == c.id.factory # "wasapi2src" /\ \E k \in sinks : k.id.device = c.id.device

\* Each endpoint is presented exactly once (audio_backend.cpp:92-94) although
\* GStreamer reports render endpoints under both classes and devices come and go
\* between the enumerations: no two sources share a device, and hardware that
\* stayed has a source for each device its own selector names, unless the capture
\* of another system than WASAPI shares its device with a sink.
EachEndpointOnce ==
    step = "done" =>
        /\ \A x, y \in page.sources : x.id.device = y.id.device /\ x.id.device # "" => x = y
        /\ \A h \in Hardware :
              Steady(h) /\ h.capture # Nothing =>
                  \/ h.capture.default \/ h.capture.id.device = "" \/ Shadowed(h.capture)
                  \/ \E s \in page.sources : s.id = h.capture.id

\* What list_sources can tell of a capture that mirrors a playback: under WASAPI the
\* device they share, elsewhere a name that no other playback has.
Linked(h) ==
    IF h.capture.id.factory = "wasapi2src" THEN h.capture.id.device = h.playback.id.device
    ELSE /\ h.capture.monitor_of # "" /\ h.capture.monitor_of = h.playback.name
         /\ \A g \in Hardware : g.playback # Nothing /\ g.playback.name = h.playback.name => g = h

FeedsBack(h) == \E link \in Offered : link.source = h.capture.id /\ link.sink = h.playback.id

Mirrors == {h \in Hardware : h.capture # Nothing /\ h.playback # Nothing /\ h.mirror}

\* No offered link sends what a device plays back to the same device when the device
\* stayed during the listing and list_sources can tell that its capture mirrors it:
\* page and server compare different fields (main.ts:370, web_server.cpp:623).
NoFeedback ==
    \A h \in Mirrors : step = "done" /\ Steady(h) /\ Linked(h) => ~FeedsBack(h)

\* "A monitor source to a different playback sink works, and is not written back to
\* the same endpoint" (docs/linux-porting-guide.md:231): whatever the monitor's name.
MonitorsNeverFeedBack == \A h \in Mirrors : step = "done" /\ Steady(h) => ~FeedsBack(h)

\* The matrix plays exactly the links that were selected: each route's indices lead
\* back to the source, the sink and the render-loopback flag of its link.
MatrixKeepsLinks ==
    \A i \in DOMAIN matrix.links :
        LET route == matrix.routes[i] IN
        matrix.links[i] = [source |-> matrix.sources[route.source],
                           loopback |-> matrix.loopback[route.source],
                           sink |-> matrix.sinks[route.sink]]

\* "They remain discoverable but use the default endpoint" (device_enumerator.cpp:84).
WithoutSelectorListed ==
    step = "done" => \A c \in captures :
        c.id.device = "" /\ ~c.default => \E s \in page.sources : s.id = c.id
=============================================================================
