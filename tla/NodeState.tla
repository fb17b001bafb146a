----------------------------- MODULE NodeState -----------------------------
(***************************************************************************)
(* What a desktop node remembers: the state file of the pairing service    *)
(* (save_unlocked and load of src/src/pairing/pairing_service.cpp).  Every *)
(* change is saved before the mutex is released; the file is truncated     *)
(* first, so a process killed meanwhile leaves any beginning of it.        *)
(*                                                                         *)
(* A text is kept with whether it is whole: a row may end inside one.      *)
(* Percent-encoding keeps tabs and line ends out of texts, so only where   *)
(* a row ends matters.  known_peers is in the order of pairing here, of    *)
(* the ids in the code.                                                    *)
(***************************************************************************)
EXTENDS Integers, SequencesExt

CONSTANTS
    Names,            \* aliases, endpoint names and device names; "" may be one
    Ids,              \* node ids, random_hex(24); also those of peers
    MaxChanges,       \* bound: changes saved
    MaxStarts         \* bound: processes started

\* No id is empty, random_hex(24); an alias or an endpoint's name may be, as nothing
\* asks for one that is not (web_server.cpp:465-473).
StateAssumption == "" \notin Ids /\ MaxChanges \in Nat /\ MaxStarts \in Nat

VARIABLES
    memory,           \* what the running process knows
    file,             \* the rows of oamr-pairing-state.txt
    up,               \* the process runs
    intended,         \* history: what the last save was to store
    changes, starts   \* how often there were, up to the bounds

vars == <<memory, file, up, intended, changes, starts>>

Text(value) == [of |-> value, whole |-> TRUE]
Empty == Text("")
Cut(text) == IF text = Empty THEN Empty ELSE [text EXCEPT !.whole = FALSE]
Row(kind, fields) == [kind |-> kind, fields |-> fields]

\* A RemotePeer; port, catalog and telemetry are texts of the row as well.
PeerRow(p) == Row("peer", <<p.id, p.alias, p.host, p.port, p.catalog, p.telemetry>>)

\* Mutant of Rows: the discovery switch is not saved.
RowsWithoutDiscovery(m) ==
    <<Row("node", <<m.node>>), Row("alias", <<m.alias>>)>>
    \o [i \in DOMAIN m.exposed |-> Row("endpoint", <<Text("S"), Text("id"), m.exposed[i]>>)]
    \o <<Row("telemetry", <<m.telemetry>>)>>
    \o [i \in DOMAIN m.peers |-> PeerRow(m.peers[i])]

\* save_unlocked.
Rows(m) ==
    <<Row("node", <<m.node>>), Row("alias", <<m.alias>>),
      Row("discovery", <<Text(IF m.discovery THEN "1" ELSE "0")>>)>>
    \o [i \in DOMAIN m.exposed |-> Row("endpoint", <<Text("S"), Text("id"), m.exposed[i]>>)]
    \o <<Row("telemetry", <<m.telemetry>>)>>
    \o [i \in DOMAIN m.peers |-> PeerRow(m.peers[i])]

\* What a process killed while it writes the rows leaves of them: the rows before
\* some row, and of that row the fields before some field, which is cut or empty.
CutRow(row, j, text) == [row EXCEPT !.fields = Append(SubSeq(@, 1, j - 1), text)]
TornAt(rows, k) ==
    {SubSeq(rows, 1, k - 1)} \cup
    UNION {{Append(SubSeq(rows, 1, k - 1), CutRow(rows[k], j, text)) :
                text \in {Empty, Cut(rows[k].fields[j])}} : j \in DOMAIN rows[k].fields}
Torn(rows) == UNION {TornAt(rows, k) : k \in DOMAIN rows}

\* The constructor's members before load: a random id, the computer's name.
Fresh(id) == [node |-> Text(id), alias |-> Text("host"), discovery |-> FALSE,
              exposed |-> << >>, telemetry |-> Text("idle"), peers |-> << >>]

\* getline finds no field after a last tab.
Fields(row) == IF Last(row.fields) = Empty THEN Front(row.fields) ELSE row.fields

\* Mutant of Enough: a peer is taken from its first four fields.
EnoughForAddress(kind, fields) ==
    Len(fields) >= CASE kind = "endpoint" -> 3 [] kind = "peer" -> 4 [] OTHER -> 1

\* The fields load asks for, the kind of the row not counted.
Enough(kind, fields) ==
    Len(fields) >= CASE kind = "endpoint" -> 3 [] kind = "peer" -> 5 [] OTHER -> 1

\* The known_peers entry; without a seventh field its telemetry is idle.
Peer(f) == [id |-> f[1], alias |-> f[2], host |-> f[3], port |-> f[4],
            catalog |-> IF Len(f) >= 5 THEN f[5] ELSE Empty,
            telemetry |-> IF Len(f) >= 6 THEN f[6] ELSE Text("idle")]

\* One turn of the loop of load.
LoadRow(m, row) ==
    LET f == Fields(row) IN
    IF ~Enough(row.kind, f) THEN m
    ELSE CASE row.kind = "node"      -> [m EXCEPT !.node = f[1]]
           [] row.kind = "alias"     -> [m EXCEPT !.alias = f[1]]
           [] row.kind = "discovery" -> [m EXCEPT !.discovery = (f[1] = Text("1"))]
           [] row.kind = "endpoint"  -> [m EXCEPT !.exposed = Append(@, f[3])]
           [] row.kind = "telemetry" -> [m EXCEPT !.telemetry = f[1]]
           [] row.kind = "peer"      -> [m EXCEPT !.peers = Append(@, Peer(f))]

Load(rows, id) ==
    LET after[n \in 0..Len(rows)] ==
            IF n = 0 THEN Fresh(id) ELSE LoadRow(after[n - 1], rows[n])
    IN  after[Len(rows)]

------------------------------------------------------------------------------
Init ==
    /\ file = << >> /\ up = FALSE
    /\ \E id \in Ids : memory = Fresh(id) /\ intended = Fresh(id)
    /\ changes = 0 /\ starts = 0

\* The constructor; start may fail to restore discovery and does not save that.
Start(id) ==
    /\ ~up /\ up' = TRUE
    /\ starts < MaxStarts /\ starts' = starts + 1
    /\ \E restored \in BOOLEAN :
          memory' = [Load(file, id) EXCEPT !.discovery = @ /\ restored]
    /\ UNCHANGED <<file, intended, changes>>

\* A change under the mutex, saved before it is released: or the process is
\* killed meanwhile.
Save(m) ==
    /\ up /\ changes < MaxChanges /\ changes' = changes + 1
    /\ intended' = m
    /\ memory' = m
    /\ \/ file' = Rows(m) /\ UNCHANGED up
       \/ file' \in Torn(Rows(m)) /\ up' = FALSE
    /\ UNCHANGED starts

SetAlias(name) == Save([memory EXCEPT !.alias = Text(name)])
SetExposed(list) == Save([memory EXCEPT !.exposed = [i \in DOMAIN list |-> Text(list[i])]])
SetDiscovery(on) == Save([memory EXCEPT !.discovery = on])

\* serialize_telemetry of what plays: never empty.
SetTelemetry(name) == Save([memory EXCEPT !.telemetry = Text(name)])

\* pair_remote or /pair, and /unpair or remove_peer.
AddPeer(id, name) ==
    /\ \A i \in DOMAIN memory.peers : memory.peers[i].id # Text(id)
    /\ Save([memory EXCEPT !.peers =
                 Append(@, [id |-> Text(id), alias |-> Text(name), host |-> Text("h"),
                            port |-> Text("8791"), catalog |-> Empty, telemetry |-> Text("idle")])])
RemovePeer(i) == Save([memory EXCEPT !.peers = RemoveAt(@, i)])

\* Ctrl+C: no handler runs.
Kill == up /\ up' = FALSE /\ UNCHANGED <<memory, file, intended, changes, starts>>

Next ==
    \/ \E id \in Ids : Start(id) \/ (\E name \in Names : AddPeer(id, name))
    \/ \E name \in Names : SetAlias(name)
    \/ \E name \in Names \ {""} : SetTelemetry(name)
    \/ \E list \in BoundedSeq(Names, 2) : SetExposed(list)
    \/ \E on \in BOOLEAN : SetDiscovery(on)
    \/ \E i \in DOMAIN memory.peers : RemovePeer(i)
    \/ Kill

Spec == Init /\ [][Next]_vars

------------------------------------------------------------------------------
TypeOK ==
    /\ up \in BOOLEAN /\ changes \in 0..MaxChanges /\ starts \in 0..MaxStarts
    /\ memory.discovery \in BOOLEAN
    /\ \A row \in Range(file) : row.kind \in {"node", "alias", "discovery", "endpoint", "telemetry", "peer"}

\* The endpoints of a list that have a name, in its order.
Named(list) ==
    LET upto[n \in 0..Len(list)] ==
            IF n = 0 THEN << >>
            ELSE IF list[n] = Empty THEN upto[n - 1] ELSE Append(upto[n - 1], list[n])
    IN  upto[Len(list)]

\* What the rows of a file can say of what a node knows: a row whose last field is
\* empty has one field less, and load skips an alias or an endpoint for it.
Kept(m) == [m EXCEPT !.alias = IF @ = Empty THEN Text("host") ELSE @, !.exposed = Named(@)]

\* Killing the node now and starting it again would change nothing it knows, but
\* the id of a node that never saved, a discovery it could not restore, an empty
\* alias, which becomes the computer's name, and the endpoints without a name, which
\* it no longer exposes: even after it started from a file that a killed process
\* left behind.
RestartRestores ==
    up => LET again == Load(file, memory.node.of) IN
          /\ [again EXCEPT !.discovery = memory.discovery] = Kept(memory)
          /\ memory.discovery => again.discovery

\* However much of its last save is missing, a restarted node knows no peer by a
\* wrong id, alias, host or port, and none that was not to be saved: those fields
\* come before the fifth, and a row with fewer is skipped (line 277).
PeersAreWhole ==
    up =>
        \A i \in DOMAIN memory.peers :
            \E k \in DOMAIN intended.peers :
                \A field \in {"id", "alias", "host", "port"} :
                    memory.peers[i][field] = intended.peers[k][field]
=============================================================================
