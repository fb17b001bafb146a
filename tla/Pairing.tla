------------------------------- MODULE Pairing -------------------------------
(***************************************************************************)
(* The pairing service of several desktop nodes                            *)
(* (src/src/pairing/pairing_service.cpp) and the web requests that drive   *)
(* it: one-time codes, the table of known peers, and the catalog and       *)
(* telemetry each node pushes to its peers.                                *)
(*                                                                         *)
(* Two threads of a node meet here under its mutex.  The web thread runs   *)
(* the requests of the user; it is blocked while pair_remote waits for a   *)
(* reply.  The worker answers the other nodes.  Each push of announce and  *)
(* remove_peer is a thread and a connection of its own, so what is under   *)
(* way is a bag: it may arrive in any order, late, or never.  The worker   *)
(* takes a sender's address from the connection, so it is the address the  *)
(* sender had when it connected, whatever it has by now.                   *)
(*                                                                         *)
(* A catalog and the alias sent with it are one version number; telemetry  *)
(* is idle or busy, and what the node streams is the set of kinds of its   *)
(* enabled network routes.  Every change is saved before the mutex is      *)
(* released, so a restart keeps all but the pairing code, the routes and   *)
(* the web thread's call.  A process killed inside save_unlocked, which    *)
(* truncates its file, or before its first save, which stores its random   *)
(* id, is not modelled, and random codes are taken to be distinct.  A      *)
(* handler that takes the mutex twice in a row (save, then announce) is    *)
(* one step: what the worker could do in between, it can do just after.    *)
(***************************************************************************)
EXTENDS Integers, Sequences, FiniteSets, Bags

CONSTANTS
    Nodes,            \* node ids
    Addrs,            \* IPv4 addresses
    Homes,            \* the addresses the nodes may have at first
    Unknown,          \* no entry in known_peers
    NoCall,           \* the web thread is not inside pair_remote
    Kinds,            \* kinds of network route that are used
    Events,           \* what may happen besides pairing, see Happenings
    MaxCodes,         \* bound: most codes ever drawn
    MaxEdits,         \* bound: most edits of one node's profile
    MaxPosts,         \* bound: most requests under way
    MaxMoves          \* bound: most changes of address

Happenings == {"edit", "stream", "remove", "rename", "readdress", "move",
               "lose", "restart", "expire"}

\* Connections of a process that ends may be lost with it.
ASSUME PairingAssumption ==
    /\ Kinds \subseteq {"send", "receive"}
    /\ Homes \subseteq [Nodes -> Addrs]
    /\ Events \subseteq Happenings
    /\ "restart" \in Events => "lose" \in Events
    /\ MaxCodes \in Nat
    /\ MaxEdits \in Nat
    /\ MaxPosts \in Nat
    /\ MaxMoves \in Nat

VARIABLES
    home,             \* the address each node has now
    moves,            \* changes of address so far, for the bound
    profile,          \* alias, exposed and local_telemetry of each node
    stream,           \* kinds of network route each node has enabled
    peers,            \* known_peers, a map
    code,             \* pair_code, 0 when empty
    fresh,            \* whether the code's ten minutes are not over
    issued,           \* codes drawn so far, by all nodes
    call,             \* the pair_remote the web thread waits in
    posts,            \* the requests under way, a bag
    accepted          \* history: the pairings that codes authorised, in order

vars == <<home, moves, profile, stream, peers, code, fresh, issued, call, posts, accepted>>

------------------------------------------------------------------------------
Codes == 1..MaxCodes
Profile == [catalog: Nat, telemetry: {"idle", "busy"}]

\* An entry of known_peers.  named: the user gave it its alias; by: the code
\* that authorised it (history, not in the code).
Peer == [addr: Addrs, named: BOOLEAN, catalog: Nat, telemetry: {"idle", "busy"}, by: Codes]

\* The nodes, at most one, that a connection to an address reaches.
Owners(a) == {m \in Nodes : home[m] = a}

\* Requests: "for" is the node the entry was about, not part of the request; "at"
\* and "hosts" are those of the connection, made at once unless Late is taken.
PairRequest(n, a, c) ==
    [kind |-> "pair", from |-> n, to |-> a, at |-> home[n], hosts |-> Owners(a), code |-> c]
Update(n, m, a, p) ==
    [kind |-> "update", from |-> n, to |-> a, at |-> home[n], hosts |-> Owners(a),
     for |-> m, profile |-> p]
Unpair(n, a) ==
    [kind |-> "unpair", from |-> n, to |-> a, at |-> home[n], hosts |-> Owners(a)]

Post == [kind: {"pair"}, from: Nodes, to: Addrs, at: Addrs, hosts: SUBSET Nodes, code: Codes]
            \cup [kind: {"update"}, from: Nodes, to: Addrs, at: Addrs, hosts: SUBSET Nodes,
                  for: Nodes, profile: Profile]
            \cup [kind: {"unpair"}, from: Nodes, to: Addrs, at: Addrs, hosts: SUBSET Nodes]

Waiting == [kind |-> "waiting"]
Refused == [kind |-> "refused"]
Answer == {Waiting, Refused} \cup [kind: {"accepted"}, node: Nodes, catalog: Nat]

\* A pair_remote under way.
Call == [to: Addrs, code: Codes, reply: Answer]

Knows(n, m) == peers[n][m] # Unknown
Free(n) == call[n] = NoCall

Single(post) == SetToBag({post})

\* The snapshot announce takes under the mutex, one request per known peer.
Announcement(n, known, p) ==
    SetToBag({Update(n, m, known[m].addr, p) : m \in {k \in Nodes : known[k] # Unknown}})

Room(bag) == BagCardinality(bag) <= MaxPosts

Init ==
    /\ home \in Homes
    /\ moves = 0
    /\ profile = [n \in Nodes |-> [catalog |-> 0, telemetry |-> "idle"]]
    /\ stream = [n \in Nodes |-> {}]
    /\ peers = [n \in Nodes |-> [m \in Nodes |-> Unknown]]
    /\ code = [n \in Nodes |-> 0]
    /\ fresh = [n \in Nodes |-> FALSE]
    /\ issued = 0
    /\ call = [n \in Nodes |-> NoCall]
    /\ posts = EmptyBag
    /\ accepted = << >>

------------------------------------------------------------------------------
(* The web thread.                                                         *)

\* create_pair_code, and current_pair_code when no code is valid.
NewCode(n) ==
    /\ Free(n)
    /\ issued < MaxCodes
    /\ issued' = issued + 1
    /\ code' = [code EXCEPT ![n] = issued + 1]
    /\ fresh' = [fresh EXCEPT ![n] = TRUE]
    /\ UNCHANGED <<home, moves, profile, stream, peers, call, posts, accepted>>

\* POST /api/pair/config: alias and endpoints are saved, then announced.
SaveProfile(n) ==
    /\ "edit" \in Events
    /\ Free(n)
    /\ profile[n].catalog < MaxEdits
    /\ profile' = [profile EXCEPT ![n].catalog = @ + 1]
    /\ posts' = posts (+) Announcement(n, peers[n], profile'[n])
    /\ Room(posts')
    /\ UNCHANGED <<home, moves, stream, peers, code, fresh, issued, call, accepted>>

\* set_telemetry and announce.
Tell(n, telemetry) ==
    /\ profile' = [profile EXCEPT ![n].telemetry = telemetry]
    /\ posts' = posts (+) Announcement(n, peers[n], profile'[n])
    /\ Room(posts')
    /\ UNCHANGED <<home, moves, peers, code, fresh, issued, call, accepted>>

\* POST /api/network/send and receive, when the route starts.
StartStream(n, kind) ==
    /\ "stream" \in Events
    /\ Free(n)
    /\ stream' = [stream EXCEPT ![n] = @ \cup {kind}]
    /\ Tell(n, "busy")

\* A network route is deleted or disabled by the user, or fails in poll.
EndStream(n, kind) ==
    /\ Free(n)
    /\ kind \in stream[n]
    /\ stream' = [stream EXCEPT ![n] = @ \ {kind}]
    /\ UNCHANGED <<home, moves, profile, peers, code, fresh, issued, call, posts, accepted>>

\* POST /api/stop.
StopAll(n) ==
    /\ "stream" \in Events
    /\ Free(n)
    /\ stream' = [stream EXCEPT ![n] = {}]
    /\ Tell(n, "idle")

\* Every two seconds poll_routes_and_sync_telemetry reports the first route
\* with transport telemetry, which only a receiving route has.
Sync(n) ==
    /\ Free(n)
    /\ "receive" \in stream[n]
    /\ Tell(n, "busy")
    /\ UNCHANGED stream

\* POST /api/pair/alias and set_peer_alias.
RenamePeer(n, m) ==
    /\ "rename" \in Events
    /\ Free(n)
    /\ Knows(n, m)
    /\ peers' = [peers EXCEPT ![n][m].named = TRUE]
    /\ UNCHANGED <<home, moves, profile, stream, code, fresh, issued, call, posts, accepted>>

\* POST /api/pair/endpoint and set_peer_endpoint.
SetPeerEndpoint(n, m, a) ==
    /\ "readdress" \in Events
    /\ Free(n)
    /\ Knows(n, m)
    /\ peers' = [peers EXCEPT ![n][m].addr = a]
    /\ UNCHANGED <<home, moves, profile, stream, code, fresh, issued, call, posts, accepted>>

\* POST /api/pair/delete: forget the peer, and tell it in a thread of its own.
RemovePeer(n, m) ==
    /\ "remove" \in Events
    /\ Free(n)
    /\ Knows(n, m)
    /\ peers' = [peers EXCEPT ![n][m] = Unknown]
    /\ posts' = posts (+) Single(Unpair(n, peers[n][m].addr))
    /\ Room(posts')
    /\ UNCHANGED <<home, moves, profile, stream, code, fresh, issued, call, accepted>>

\* POST /api/pair/connect: the user types an address, not the node's own, and
\* some code ever shown.
PairRemote(n, a, c) ==
    /\ Free(n)
    /\ a # home[n]
    /\ c <= issued
    /\ call' = [call EXCEPT ![n] = [to |-> a, code |-> c, reply |-> Waiting]]
    /\ posts' = posts (+) Single(PairRequest(n, a, c))
    /\ Room(posts')
    /\ UNCHANGED <<home, moves, profile, stream, peers, code, fresh, issued, accepted>>

\* The reply arrived: the peer is stored at the address that was called, with
\* the catalog of the reply and no telemetry, and then told our own profile.
PairSucceeds(n) ==
    /\ ~Free(n)
    /\ call[n].reply.kind = "accepted"
    /\ LET m == call[n].reply.node IN
       peers' = [peers EXCEPT ![n][m] =
                    [addr |-> call[n].to, named |-> FALSE, catalog |-> call[n].reply.catalog,
                     telemetry |-> "idle", by |-> call[n].code]]
    /\ posts' = posts (+) Announcement(n, peers'[n], profile[n])
    /\ Room(posts')
    /\ call' = [call EXCEPT ![n] = NoCall]
    /\ UNCHANGED <<home, moves, profile, stream, code, fresh, issued, accepted>>

\* The other node refused, or the connection failed at some point.
PairFails(n) ==
    /\ ~Free(n)
    /\ call[n].reply = Refused \/ "lose" \in Events
    /\ call' = [call EXCEPT ![n] = NoCall]
    /\ UNCHANGED <<home, moves, profile, stream, peers, code, fresh, issued, posts, accepted>>

------------------------------------------------------------------------------
(* The worker of the node that accepted the connection of a request.       *)

\* The caller's thread gets the answer, unless it no longer waits for it or the
\* answer is lost.
Replies(post, reply) ==
    LET c == call[post.from]
        waits == c # NoCall /\ c.to = post.to /\ c.code = post.code /\ c.reply = Waiting
        told == IF waits THEN [call EXCEPT ![post.from].reply = reply] ELSE call
    IN  {told} \cup (IF "lose" \in Events THEN {call} ELSE {})

\* pair_code is set, not expired and the one presented.
Valid(m, c) == code[m] # 0 /\ fresh[m] /\ code[m] = c

\* Mutant of Spent: the code stays after it was used.
SpentNever(m) == code

\* A code is cleared when a request has used it.
Spent(m) == [code EXCEPT ![m] = 0]

HandlePair(m, post) ==
    /\ post.kind = "pair"
    /\ m \in post.hosts
    /\ \/ /\ ~Valid(m, post.code)
          /\ call' \in Replies(post, Refused)
          /\ UNCHANGED <<peers, code, accepted>>
       \/ /\ Valid(m, post.code)
          /\ code' = Spent(m)
          /\ peers' = [peers EXCEPT ![m][post.from] =
                          [addr |-> post.at, named |-> FALSE, catalog |-> 0,
                           telemetry |-> "idle", by |-> post.code]]
          /\ accepted' = Append(accepted, [host |-> m, guest |-> post.from, code |-> post.code])
          /\ call' \in Replies(post, [kind |-> "accepted", node |-> m,
                                       catalog |-> profile[m].catalog])
    /\ posts' = posts (-) Single(post)
    /\ UNCHANGED <<home, moves, profile, stream, fresh, issued>>

\* Mutant of Updated: the entry is created when there is none.
UpdatedAlways(m, post) ==
    [addr |-> post.at, named |-> FALSE, catalog |-> post.profile.catalog,
     telemetry |-> post.profile.telemetry,
     by |-> IF Knows(m, post.from) THEN peers[m][post.from].by ELSE issued]

\* Mutant of Updated: the catalog and address of the request are ignored.
UpdatedTelemetry(m, post) ==
    IF Knows(m, post.from)
    THEN [peers[m][post.from] EXCEPT !.telemetry = post.profile.telemetry]
    ELSE Unknown

\* Mutant of Updated: the sender's id is stored where its address belongs.
UpdatedSwapped(m, post) ==
    IF Knows(m, post.from)
    THEN [addr |-> post.from, named |-> FALSE, catalog |-> post.profile.catalog,
          telemetry |-> post.profile.telemetry, by |-> peers[m][post.from].by]
    ELSE Unknown

\* What /update makes of the entry for its sender: nothing when it is unpaired,
\* otherwise everything in it is replaced, the address by the connection's.
Updated(m, post) ==
    IF Knows(m, post.from)
    THEN [addr |-> post.at, named |-> FALSE, catalog |-> post.profile.catalog,
          telemetry |-> post.profile.telemetry, by |-> peers[m][post.from].by]
    ELSE Unknown

HandleUpdate(m, post) ==
    /\ post.kind = "update"
    /\ m \in post.hosts
    /\ peers' = [peers EXCEPT ![m][post.from] = Updated(m, post)]
    /\ posts' = posts (-) Single(post)
    /\ UNCHANGED <<home, moves, profile, stream, code, fresh, issued, call, accepted>>

HandleUnpair(m, post) ==
    /\ post.kind = "unpair"
    /\ m \in post.hosts
    /\ peers' = [peers EXCEPT ![m][post.from] = Unknown]
    /\ posts' = posts (-) Single(post)
    /\ UNCHANGED <<home, moves, profile, stream, code, fresh, issued, call, accepted>>

------------------------------------------------------------------------------
(* The network, time and crashes.                                          *)

\* The thread of a request connects only now, after the computers have moved.
Late(post) ==
    LET late == [post EXCEPT !.at = home[post.from], !.hosts = Owners(post.to)]
    IN  /\ late # post
        /\ posts' = (posts (-) Single(post)) (+) Single(late)
        /\ UNCHANGED <<home, moves, profile, stream, peers, code, fresh, issued, call, accepted>>

\* A request that reaches nobody, or is lost on the way.
Lose(post) ==
    /\ "lose" \in Events \/ post.hosts = {}
    /\ posts' = posts (-) Single(post)
    /\ IF post.kind = "pair" THEN call' \in Replies(post, Refused) ELSE UNCHANGED call
    /\ UNCHANGED <<home, moves, profile, stream, peers, code, fresh, issued, accepted>>

\* The ten minutes of a code are over.
Expire(n) ==
    /\ "expire" \in Events
    /\ fresh' = [fresh EXCEPT ![n] = FALSE]
    /\ UNCHANGED <<home, moves, profile, stream, peers, code, issued, call, posts, accepted>>

\* The process ends and starts again from its state file.
Restart(n) ==
    /\ "restart" \in Events
    /\ code' = [code EXCEPT ![n] = 0]
    /\ fresh' = [fresh EXCEPT ![n] = FALSE]
    /\ stream' = [stream EXCEPT ![n] = {}]
    /\ call' = [call EXCEPT ![n] = NoCall]
    /\ UNCHANGED <<home, moves, profile, peers, issued, posts, accepted>>

\* The computer gets another address.
Move(n, a) ==
    /\ "move" \in Events
    /\ moves < MaxMoves
    /\ Owners(a) = {}
    /\ moves' = moves + 1
    /\ home' = [home EXCEPT ![n] = a]
    /\ UNCHANGED <<profile, stream, peers, code, fresh, issued, call, posts, accepted>>

WebThread(n) ==
    \/ NewCode(n)
    \/ SaveProfile(n)
    \/ \E kind \in Kinds : StartStream(n, kind) \/ EndStream(n, kind)
    \/ StopAll(n)
    \/ Sync(n)
    \/ \E m \in Nodes : \/ RenamePeer(n, m)
                        \/ RemovePeer(n, m)
                        \/ \E a \in Addrs : SetPeerEndpoint(n, m, a)
    \/ \E a \in Addrs, c \in Codes : PairRemote(n, a, c)
    \/ PairSucceeds(n)
    \/ PairFails(n)

Worker(m, post) == HandlePair(m, post) \/ HandleUpdate(m, post) \/ HandleUnpair(m, post)

Next ==
    \/ \E n \in Nodes : \/ WebThread(n)
                        \/ Expire(n)
                        \/ Restart(n)
                        \/ \E a \in Addrs : Move(n, a)
    \/ \E post \in BagToSet(posts) : \/ \E m \in Nodes : Worker(m, post)
                                     \/ Late(post)
                                     \/ Lose(post)

Spec == Init /\ [][Next]_vars

------------------------------------------------------------------------------
(* Properties.                                                             *)

TypeOK ==
    /\ home \in [Nodes -> Addrs]
    /\ moves \in 0..MaxMoves
    /\ profile \in [Nodes -> Profile]
    /\ stream \in [Nodes -> SUBSET Kinds]
    /\ peers \in [Nodes -> [Nodes -> Peer \cup {Unknown}]]
    /\ code \in [Nodes -> Codes \cup {0}]
    /\ fresh \in [Nodes -> BOOLEAN]
    /\ issued \in 0..MaxCodes
    /\ call \in [Nodes -> Call \cup {NoCall}]
    /\ IsABag(posts) /\ DOMAIN posts \subseteq Post
    /\ accepted \in Seq([host: Nodes, guest: Nodes, code: Codes])

\* A one-time code admits one node: no two pairings were accepted on the same
\* code, whatever was requested again, delivered late or restarted.
OneUse ==
    \A i, j \in DOMAIN accepted : accepted[i].code = accepted[j].code => i = j

\* The pairing of two nodes under a code.
Joins(pairing, n, m, c) ==
    pairing.code = c /\ {pairing.host, pairing.guest} = {n, m}

\* A node lists another only on the strength of a pairing of those two nodes
\* that one of them accepted with the code the entry was made with: no late
\* update, restart or reply makes an entry out of nothing.
Authorised ==
    \A n, m \in Nodes : Knows(n, m) =>
        \E i \in DOMAIN accepted : Joins(accepted[i], n, m, peers[n][m].by)

\* A peer that was forgotten returns only by a pairing the node itself took part
\* in: a code of its own was used, or a pair_remote of its own was answered.
NoReturnWithoutPairing ==
    [][\A n, m \in Nodes : ~Knows(n, m) /\ Knows(n, m)' =>
            \/ code[n] # 0 /\ code'[n] = 0
            \/ ~Free(n) /\ Free(n)' ]_vars

\* Nothing is under way: every request was answered and every call returned.
AtRest == posts = EmptyBag /\ \A n \in Nodes : Free(n)

Paired(n, m) == Knows(n, m) /\ Knows(m, n)

\* "Pairing profile saved and synchronized." (web_server.cpp:479, POST
\* /api/pair/config): with nothing under way, a node's peers show its catalog.
SavedMeansSynchronized ==
    AtRest => \A n, m \in Nodes : Paired(n, m) => peers[m][n].catalog = profile[n].catalog

------------------------------------------------------------------------------
(* Liveness.  The serving loop of a node polls for ever, so a node that    *)
(* keeps receiving keeps announcing (strong, because the bound on posts    *)
(* may hold it back); every request ends, answered or not; and of the      *)
(* announcements that are repeated some get through.                       *)

\* Some announcement of n reaches m.
Deliver(n, m) ==
    \E post \in BagToSet(posts) :
        /\ post.kind = "update" /\ post.from = n
        /\ HandleUpdate(m, post)

Drain == \E post \in BagToSet(posts) : (\E m \in Nodes : Worker(m, post)) \/ Lose(post)

Fairness ==
    /\ \A n \in Nodes : SF_vars(Sync(n))
    /\ WF_vars(Drain)
    /\ \A n \in Nodes : \A m \in Nodes \ {n} : SF_vars(Deliver(n, m))

FairSpec == Spec /\ Fairness

\* n goes on receiving at one address, paired with m and knowing m's address.
Settled(n, m, a) ==
    /\ Paired(n, m)
    /\ "receive" \in stream[n]
    /\ home[n] = a
    /\ peers[n][m].addr = home[m]

Shown(n, m, a) ==
    Knows(m, n) /\ peers[m][n].addr = a /\ peers[m][n].catalog = profile[n].catalog

\* A settled node is in the end shown by its peer at its address with its last
\* catalog, whatever was lost, overtaken or changed before.
Arrives(n, m, a) == <>[]Settled(n, m, a) /\ []<>Free(n) => <>[]Shown(n, m, a)

ProfileArrives == \A n \in Nodes : \A m \in Nodes \ {n}, a \in Addrs : Arrives(n, m, a)
==============================================================================
