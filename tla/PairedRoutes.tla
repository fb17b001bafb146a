---------------------------- MODULE PairedRoutes ----------------------------
(***************************************************************************)
(* Routes between paired computers (src/src/web/web_server.cpp, POST       *)
(* /api/paired/route and /api/paired/mixer; start_remote_command;          *)
(* request_remote_route and /route of pairing_service.cpp).                *)
(*                                                                         *)
(* A paired route has two legs, one in the table of each computer, that    *)
(* meet on a UDP port which the asking computer takes from its own         *)
(* next_route_id.  The web thread of the asking computer first asks the    *)
(* other one and waits; the pairing worker of the other computer starts    *)
(* its leg and answers; only then is the local leg started.  A mixer asks  *)
(* for one sender after the other and receives them all in one leg.        *)
(*                                                                         *)
(* Every two nodes are paired, so /route is refused only when the leg does *)
(* not start.  Deleting a leg, which the other computer is not told of,    *)
(* and routes that are not paired are left to RouteTable: here they would  *)
(* only free ports and draw ids.  A leg is added in one step.  (The code's *)
(* two threads may add to one table at once, unprotected; what that does   *)
(* to the vector is not modelled.)                                         *)
(***************************************************************************)
EXTENDS Integers, Sequences, FiniteSets, Bags, SequencesExt

CONSTANTS
    Nodes,            \* paired computers
    NoCall,           \* the web thread is not inside a paired request
    PortRange,        \* ports 52000 to 52000 + PortRange - 1; the code has 1000
    Failures,         \* what may fail: "start" a leg, "lose" a request or answer
    MaxSources,       \* bound: most sources of a mixer
    MaxId,            \* bound: most route ids drawn by one node
    MaxPosts          \* bound: most requests under way

VARIABLES
    next,             \* next_route_id
    legs,             \* the network legs in each route table, in order
    call,             \* the paired request the web thread is in
    posts,            \* /route requests under way, a bag
    granted           \* history: what others started for a node's request

vars == <<next, legs, call, posts, granted>>

------------------------------------------------------------------------------
Ports == 0..(PortRange - 1)
Kinds == {"send", "receive", "mixer"}
Directions == {"send", "receive"}

\* drawn: history, what the port of each source was computed from (a leg that
\* another computer asked for computes none).
Leg == [kind: Kinds, ports: Seq(Ports), drawn: Seq(Nat)]

\* open: the web thread that asked still waits at the other end.
Post == [from: Nodes, to: Nodes, direction: Directions, port: Ports, open: BOOLEAN]

\* with: the computers to ask, one after the other; got: ports agreed so far;
\* drawn: history, as in Leg, for got and port.
Call == [kind: Kinds, with: Seq(Nodes), got: Seq(Ports), port: Ports, drawn: Seq(Nat),
         reply: {"waiting", "ok", "refused"}]

\* What PairedRoutes takes for granted of its constants.
PairedAssumption ==
    /\ PortRange \in Nat \ {0}
    /\ Failures \subseteq {"start", "lose"}
    /\ MaxSources \in Nat
    /\ MaxId \in Nat
    /\ MaxPosts \in Nat
    /\ NoCall \notin Call

Free(n) == call[n] = NoCall

\* A leg may fail to start (and does when the bound on ids is reached).
MayFail(n) == "start" \in Failures \/ next[n] > MaxId

\* Mutant of MediaPort: every source of a mixer is sent to the same port.
MediaPortSame(id, index) == id % PortRange

\* The port of the index-th source, counted from 0; 52000 is left out.
MediaPort(id, index) == (id + index) % PortRange

\* What the other computer has to do for a leg of this kind here.
Counterpart(kind) == IF kind = "send" THEN "receive" ELSE "send"

Ask(n, m, kind, port) ==
    [from |-> n, to |-> m, direction |-> Counterpart(kind), port |-> port, open |-> TRUE]

Single(post) == SetToBag({post})

\* The bound on requests under way.
Room(bag) == BagCardinality(bag) <= MaxPosts

Init ==
    /\ next = [n \in Nodes |-> 1]
    /\ legs = [n \in Nodes |-> << >>]
    /\ call = [n \in Nodes |-> NoCall]
    /\ posts = EmptyBag
    /\ granted = [n \in Nodes |-> {}]

------------------------------------------------------------------------------
(* The web thread.                                                         *)

\* Starts a paired request: the first computer is asked.  (No id left: the bound.)
Begin(n, kind, with) ==
    LET port == MediaPort(next[n], 0) IN
    /\ Free(n) /\ next[n] <= MaxId
    /\ call' = [call EXCEPT ![n] = [kind |-> kind, with |-> with, got |-> << >>,
                                    port |-> port, drawn |-> <<next[n]>>,
                                    reply |-> "waiting"]]
    /\ posts' = posts (+) Single(Ask(n, with[1], kind, port))
    /\ Room(posts')
    /\ UNCHANGED <<next, legs, granted>>

PairedRoute(n, kind, m) ==
    /\ kind \in {"send", "receive"}
    /\ n # m
    /\ Begin(n, kind, <<m>>)

PairedMixer(n, with) ==
    /\ Len(with) >= 2
    /\ \A i \in DOMAIN with : with[i] # n
    /\ Begin(n, "mixer", with)

Granted(n) == ~Free(n) /\ call[n].reply = "ok"
Agreed(n) == Append(call[n].got, call[n].port)
MoreToAsk(n) == Len(Agreed(n)) < Len(call[n].with)

\* The next source of a mixer is asked, on a port from what next_route_id is now.
AskNext(n) ==
    /\ Granted(n) /\ MoreToAsk(n)
    /\ LET index == Len(Agreed(n))
           port == MediaPort(next[n], index)
       IN  /\ call' = [call EXCEPT ![n] = [@ EXCEPT !.got = Agreed(n), !.port = port,
                                                    !.drawn = Append(call[n].drawn, next[n] + index),
                                                    !.reply = "waiting"]]
           /\ posts' = posts (+) Single(Ask(n, call[n].with[index + 1], call[n].kind, port))
    /\ Room(posts')
    /\ UNCHANGED <<next, legs, granted>>

\* A leg that starts is added to the table under the next id.
AddLeg(n, kind, ports, drawn) ==
    /\ next[n] <= MaxId
    /\ legs' = [legs EXCEPT ![n] = Append(@, [kind |-> kind, ports |-> ports,
                                              drawn |-> drawn])]
    /\ next' = [next EXCEPT ![n] = @ + 1]

\* Mutant of LocalPorts: the port is read again after the other computer answered.
LocalPortsRead(n) == [Agreed(n) EXCEPT ![Len(Agreed(n))] = MediaPort(next[n], Len(Agreed(n)) - 1)]

\* The ports the local leg is started on: those that were asked for.
LocalPorts(n) == Agreed(n)

\* All were granted: the local leg starts, or does not.
Finish(n) ==
    /\ Granted(n) /\ ~MoreToAsk(n)
    /\ \/ AddLeg(n, call[n].kind, LocalPorts(n), call[n].drawn)
       \/ MayFail(n) /\ UNCHANGED <<next, legs>>
    /\ call' = [call EXCEPT ![n] = NoCall]
    /\ granted' = [granted EXCEPT ![n] = {}]
    /\ UNCHANGED posts

\* The computer that was asked refused or could not be reached: the request
\* ends, and nothing that was granted before is taken back.
GiveUp(n) ==
    /\ ~Free(n) /\ call[n].reply = "refused"
    /\ call' = [call EXCEPT ![n] = NoCall]
    /\ granted' = [granted EXCEPT ![n] = {}]
    /\ UNCHANGED <<next, legs, posts>>

\* The connection fails while the answer is awaited; the other computer may
\* have read the request all the same.
Disconnect(n) ==
    /\ "lose" \in Failures
    /\ \E post \in BagToSet(posts) :
          /\ post.from = n /\ post.open
          /\ posts' = (posts (-) Single(post)) (+) Single([post EXCEPT !.open = FALSE])
    /\ call' = [call EXCEPT ![n] = NoCall]
    /\ granted' = [granted EXCEPT ![n] = {}]
    /\ UNCHANGED <<next, legs>>

------------------------------------------------------------------------------
(* The pairing worker.                                                     *)

\* Mutant of Ready: requests of other computers wait for the web thread.
ReadyWhenFree(m) == Free(m)

\* The worker is a thread of its own, whatever the web thread waits for.
Ready(m) == TRUE

\* The answer reaches the web thread that asked, if it still waits.
Replied(post, reply) ==
    IF post.open THEN [call EXCEPT ![post.from].reply = reply] ELSE call

HandleRoute(post) ==
    LET m == post.to IN
    /\ Ready(m)
    /\ \/ /\ AddLeg(m, post.direction, <<post.port>>, << >>)
          /\ granted' = [granted EXCEPT ![post.from] = IF post.open THEN @ \cup {post} ELSE @]
          /\ call' = Replied(post, "ok")
       \/ /\ MayFail(m)
          /\ call' = Replied(post, "refused")
          /\ UNCHANGED <<next, legs, granted>>
    /\ posts' = posts (-) Single(post)

\* The request does not reach the other computer.
Lose(post) ==
    /\ "lose" \in Failures
    /\ posts' = posts (-) Single(post)
    /\ call' = Replied(post, "refused")
    /\ UNCHANGED <<next, legs, granted>>

WebThread(n) ==
    \/ \E m \in Nodes, kind \in Directions : PairedRoute(n, kind, m)
    \/ \E with \in BoundedSeq(Nodes, MaxSources) : PairedMixer(n, with)
    \/ AskNext(n)
    \/ Finish(n)
    \/ GiveUp(n)
    \/ Disconnect(n)

Next ==
    \/ \E n \in Nodes : WebThread(n)
    \/ \E post \in BagToSet(posts) : HandleRoute(post) \/ Lose(post)

Spec == Init /\ [][Next]_vars

------------------------------------------------------------------------------
(* Properties.                                                             *)

TypeOK ==
    /\ next \in [Nodes -> 1..(MaxId + 1)]
    /\ legs \in [Nodes -> Seq(Leg)]
    /\ call \in [Nodes -> Call \cup {NoCall}]
    /\ IsABag(posts) /\ DOMAIN posts \subseteq Post
    /\ granted \in [Nodes -> SUBSET Post]

\* "No local table entry is retained when the paired computer rejects it"
\* (web_server.cpp:576): the leg a request ends with was granted, source by
\* source, by the computers that were asked and on the ports it uses, whatever
\* happened to next_route_id in the meantime.
LegsAreGranted ==
    [][\A n \in Nodes : ~Free(n) /\ Free(n)' /\ legs'[n] # legs[n] =>
            LET leg == legs'[n][Len(legs'[n])] IN
            /\ Len(leg.ports) = Len(call[n].with)
            /\ \A k \in DOMAIN leg.ports :
                  Ask(n, call[n].with[k], leg.kind, leg.ports[k]) \in granted[n]]_vars

\* The sources of one mixer are received on different ports, although next_route_id
\* may change while they are asked for one by one; only what was computed from
\* numbers that are PortRange or more apart, so many ids having been drawn between
\* the two, may come round to one port (web_server.cpp:542).
MixerPortsDiffer ==
    \A n \in Nodes : \A i \in DOMAIN legs[n] :
        LET leg == legs[n][i] IN
        leg.kind = "mixer" =>
            \A j, k \in DOMAIN leg.ports :
                j < k /\ leg.drawn[k] - leg.drawn[j] < PortRange
                => leg.ports[j] # leg.ports[k]

\* Media ports are "selected dynamically" (README.md:54): no two receiving legs
\* of one computer listen on the same port.
ReceiversApart ==
    \A n \in Nodes : \A i, j \in DOMAIN legs[n] :
        /\ i # j
        /\ legs[n][i].kind # "send"
        /\ legs[n][j].kind # "send"
        => ToSet(legs[n][i].ports) \cap ToSet(legs[n][j].ports) = {}

\* Computers that are up answer, and their web threads go on (strong, because the
\* bound on requests under way may hold AskNext back).
Fairness ==
    \A n \in Nodes :
        /\ SF_vars(AskNext(n) \/ Finish(n) \/ GiveUp(n))
        /\ WF_vars(\E post \in BagToSet(posts) : post.from = n /\ HandleRoute(post))

FairSpec == Spec /\ Fairness

\* Two computers that ask each other at the same time do not wait for each other:
\* every paired request returns to the user.
CallsReturn == \A n \in Nodes : ~Free(n) ~> Free(n)
==============================================================================
