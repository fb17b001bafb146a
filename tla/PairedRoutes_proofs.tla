------------------------- MODULE PairedRoutes_proofs -------------------------
(***************************************************************************)
(* Theorems about PairedRoutes, for any number of computers, failures and  *)
(* requests under way: a leg ends a request only on ports the others       *)
(* granted, and the sources of a mixer keep apart.                         *)
(***************************************************************************)
EXTENDS PairedRoutes, TLAPS

------------------------------------------------------------------------------
(* Bags.                                                                   *)

LEMMA Added ==
    ASSUME NEW B, IsABag(B), NEW x
    PROVE  /\ IsABag(B (+) Single(x)) /\ DOMAIN (B (+) Single(x)) = DOMAIN B \cup {x}
           /\ x \notin DOMAIN B => (B (+) Single(x))[x] = 1
           /\ \A y \in DOMAIN B : y # x => (B (+) Single(x))[y] = B[y]
<1>1. \A e \in DOMAIN B : B[e] \in Nat /\ B[e] > 0
  BY DEF IsABag
<1>2. DOMAIN Single(x) = {x} /\ Single(x)[x] = 1
  BY DEF Single, SetToBag
<1> QED
  BY <1>1, <1>2 DEF IsABag, (+)

LEMMA Removed ==
    ASSUME NEW B, IsABag(B), NEW x
    PROVE  /\ IsABag(B (-) Single(x)) /\ DOMAIN (B (-) Single(x)) \subseteq DOMAIN B
           /\ x \in DOMAIN B /\ B[x] = 1 => x \notin DOMAIN (B (-) Single(x))
           /\ \A y \in DOMAIN (B (-) Single(x)) : y # x => (B (-) Single(x))[y] = B[y]
<1>1. \A e \in DOMAIN B : B[e] \in Nat /\ B[e] > 0
  BY DEF IsABag
<1>2. DOMAIN Single(x) = {x} /\ Single(x)[x] = 1
  BY DEF Single, SetToBag
<1> QED
  BY <1>1, <1>2 DEF IsABag, (-)

------------------------------------------------------------------------------
(* The inductive invariant.                                                *)

\* The request a call waits for.
Asked(n) == Ask(n, call[n].with[Len(call[n].got) + 1], call[n].kind, call[n].port)

\* An open request is the only copy of what its sender waits for.
OpenInv ==
    \A post \in DOMAIN posts : post.open =>
        /\ posts[post] = 1
        /\ ~Free(post.from) /\ call[post.from].reply = "waiting"
        /\ post = Asked(post.from)

\* What was agreed was granted.
GrantInv ==
    \A n \in Nodes : ~Free(n) =>
        /\ Len(call[n].got) < Len(call[n].with)
        /\ \A k \in 1..Len(call[n].got) :
              Ask(n, call[n].with[k], call[n].kind, call[n].got[k]) \in granted[n]
        /\ call[n].reply = "ok" => Asked(n) \in granted[n]

PairedInv == TypeOK /\ OpenInv /\ GrantInv

\* The ports of a mixer are what its numbers give, and these rise from source to
\* source.
Numbered(ports, drawn) ==
    /\ Len(drawn) = Len(ports)
    /\ \A i \in 1..Len(ports) : ports[i] = drawn[i] % PortRange
    /\ \A i, j \in 1..Len(ports) : i < j => drawn[i] < drawn[j]

\* The next number drawn by a call would be larger than its last one.
CallsRise ==
    \A n \in Nodes : ~Free(n) =>
        /\ Numbered(Agreed(n), call[n].drawn)
        /\ call[n].drawn[Len(Agreed(n))] < next[n] + Len(Agreed(n))

LegsRise ==
    \A n \in Nodes : \A i \in 1..Len(legs[n]) :
        legs[n][i].kind = "mixer" => Numbered(legs[n][i].ports, legs[n][i].drawn)

RisingInv == CallsRise /\ LegsRise

------------------------------------------------------------------------------
(* Types.                                                                  *)

LEMMA PortsFit ==
    ASSUME PairedAssumption, NEW id \in Nat, NEW index \in Nat
    PROVE  MediaPort(id, index) \in Ports
BY DEF PairedAssumption, MediaPort, Ports

LEMMA AskIsPost ==
    ASSUME NEW n \in Nodes, NEW m \in Nodes, NEW kind, NEW port \in Ports
    PROVE  Ask(n, m, kind, port) \in Post
BY DEF Ask, Post, Counterpart, Directions

LEMMA AskFields ==
    ASSUME NEW n, NEW m, NEW kind, NEW port
    PROVE  Ask(n, m, kind, port).from = n /\ Ask(n, m, kind, port).open
BY DEF Ask

LEMMA CallFields ==
    ASSUME TypeOK, NEW n \in Nodes, ~Free(n)
    PROVE  /\ call[n] \in Call
           /\ call[n].kind \in Kinds /\ call[n].with \in Seq(Nodes) /\ call[n].got \in Seq(Ports)
           /\ call[n].port \in Ports /\ call[n].drawn \in Seq(Nat)
           /\ Agreed(n) \in Seq(Ports) /\ Len(Agreed(n)) = Len(call[n].got) + 1
           /\ \A k \in 1..Len(call[n].got) : Agreed(n)[k] = call[n].got[k]
           /\ Agreed(n)[Len(call[n].got) + 1] = call[n].port
<1>1. call[n] \in Call
  BY DEF TypeOK, Free
<1>2. /\ call[n].kind \in Kinds /\ call[n].with \in Seq(Nodes) /\ call[n].got \in Seq(Ports)
      /\ call[n].port \in Ports /\ call[n].drawn \in Seq(Nat)
  BY <1>1 DEF Call
<1> QED
  BY <1>1, <1>2 DEF Agreed

\* A call that is answered, or left, keeps its type.
LEMMA RepliedTypes ==
    ASSUME TypeOK, OpenInv, NEW post \in DOMAIN posts, NEW reply \in {"ok", "refused"}
    PROVE  /\ Replied(post, reply) \in [Nodes -> Call \cup {NoCall}]
           /\ \A n \in Nodes : Replied(post, reply)[n] =
                 IF post.open /\ n = post.from THEN [call[n] EXCEPT !.reply = reply] ELSE call[n]
<1>1. post \in Post /\ post.from \in Nodes
  BY DEF TypeOK, Post
<1>2. call \in [Nodes -> Call \cup {NoCall}]
  BY DEF TypeOK
<1>3. CASE post.open
  <2>1. call[post.from] \in Call
    BY <1>1, <1>2, <1>3 DEF OpenInv, Free
  <2>2. [call[post.from] EXCEPT !.reply = reply] \in Call
    BY <2>1 DEF Call
  <2>3. Replied(post, reply) = [call EXCEPT ![post.from] = [call[post.from] EXCEPT !.reply = reply]]
    BY <1>3 DEF Replied
  <2> QED
    BY <1>1, <1>2, <1>3, <2>2, <2>3
<1>4. CASE ~post.open
  BY <1>2, <1>4 DEF Replied
<1> QED
  BY <1>3, <1>4

LEMMA LegAdded ==
    ASSUME PairedAssumption, TypeOK, NEW n \in Nodes, NEW kind \in Kinds, NEW ports \in Seq(Ports),
           NEW drawn \in Seq(Nat), AddLeg(n, kind, ports, drawn)
    PROVE  /\ next' \in [Nodes -> 1..(MaxId + 1)] /\ legs' \in [Nodes -> Seq(Leg)]
           /\ \A m \in Nodes : next[m] <= next'[m]
<1> DEFINE leg == [kind |-> kind, ports |-> ports, drawn |-> drawn]
<1>1. next \in [Nodes -> 1..(MaxId + 1)] /\ legs \in [Nodes -> Seq(Leg)] /\ MaxId \in Nat
  BY DEF TypeOK, PairedAssumption
<1>2. /\ next[n] \in 1..MaxId /\ next' = [next EXCEPT ![n] = next[n] + 1]
      /\ legs' = [legs EXCEPT ![n] = Append(legs[n], leg)]
  BY <1>1 DEF AddLeg
<1>3. leg \in Leg
  BY DEF Leg
<1>4. next[n] + 1 \in 1..(MaxId + 1)
  BY <1>1, <1>2
<1>5. Append(legs[n], leg) \in Seq(Leg)
  BY <1>1, <1>3
<1>6. next' \in [Nodes -> 1..(MaxId + 1)] /\ legs' \in [Nodes -> Seq(Leg)]
  BY <1>1, <1>2, <1>4, <1>5
<1> QED
  BY <1>1, <1>2, <1>6

------------------------------------------------------------------------------
(* The web thread.                                                         *)

LEMMA BeginInv ==
    ASSUME PairedAssumption, PairedInv, NEW n \in Nodes, NEW kind \in Kinds,
           NEW with \in Seq(Nodes), Len(with) > 0, Begin(n, kind, with)
    PROVE  PairedInv'
<1> DEFINE port == MediaPort(next[n], 0)
           post == Ask(n, with[1], kind, port)
           begun == [kind |-> kind, with |-> with, got |-> << >>, port |-> port,
                     drawn |-> <<next[n]>>, reply |-> "waiting"]
<1>1. /\ next \in [Nodes -> 1..(MaxId + 1)] /\ call \in [Nodes -> Call \cup {NoCall}]
      /\ IsABag(posts) /\ DOMAIN posts \subseteq Post /\ MaxId \in Nat
  BY DEF PairedInv, TypeOK, PairedAssumption
<1>2. port \in Ports /\ with[1] \in Nodes
  BY <1>1, PortsFit
<1>3. post \in Post /\ post.from = n /\ post.open
  BY <1>2, AskIsPost, AskFields
<1>4. begun \in Call /\ begun # NoCall
  <2>1. <<next[n]>> \in Seq(Nat)
    BY <1>1
  <2>2. begun \in Call
    BY <1>2, <2>1 DEF Call
  <2> QED
    BY <2>2 DEF PairedAssumption
<1>5. /\ Free(n) /\ call' = [call EXCEPT ![n] = begun] /\ posts' = posts (+) Single(post)
      /\ UNCHANGED <<next, legs, granted>>
  BY DEF Begin
<1>6. \A m \in Nodes : call'[m] = IF m = n THEN begun ELSE call[m]
  BY <1>1, <1>5
<1> HIDE DEF post, begun, port
<1>7. post \notin DOMAIN posts /\ \A p \in DOMAIN posts : p.open => p.from # n
  BY <1>3, <1>5 DEF PairedInv, OpenInv
<1>8. /\ IsABag(posts') /\ DOMAIN posts' = DOMAIN posts \cup {post}
      /\ posts'[post] = 1 /\ \A p \in DOMAIN posts : posts'[p] = posts[p]
  <2>1. /\ IsABag(posts (+) Single(post)) /\ DOMAIN (posts (+) Single(post)) = DOMAIN posts \cup {post}
        /\ (posts (+) Single(post))[post] = 1
        /\ \A p \in DOMAIN posts : p # post => (posts (+) Single(post))[p] = posts[p]
    BY <1>1, <1>7, Added
  <2> QED
    BY <1>5, <1>7, <2>1
<1>9. TypeOK'
  BY <1>1, <1>3, <1>4, <1>5, <1>8 DEF PairedInv, TypeOK
<1>10. OpenInv'
  <2> SUFFICES ASSUME NEW p \in DOMAIN posts', p.open
               PROVE  /\ posts'[p] = 1 /\ ~Free(p.from)' /\ call'[p.from].reply = "waiting"
                      /\ p = Asked(p.from)'
    BY DEF OpenInv
  <2>1. CASE p = post
    <3>1. call'[n] = begun
      BY <1>6
    <3>2. call'[n].reply = "waiting" /\ call'[n] # NoCall /\ Asked(n)' = post
      BY <1>4, <3>1 DEF Asked, begun, post
    <3> QED
      BY <1>3, <1>8, <2>1, <3>2 DEF Free
  <2>2. CASE p \in DOMAIN posts
    <3>1. call'[p.from] = call[p.from]
      BY <1>1, <1>6, <1>7, <2>2 DEF Post
    <3> QED
      BY <1>8, <2>2, <3>1 DEF PairedInv, OpenInv, Free, Asked
  <2> QED
    BY <1>8, <2>1, <2>2
<1>11. GrantInv'
  <2> SUFFICES ASSUME NEW m \in Nodes, ~Free(m)'
               PROVE  /\ Len(call'[m].got) < Len(call'[m].with)
                      /\ \A k \in 1..Len(call'[m].got) :
                            Ask(m, call'[m].with[k], call'[m].kind, call'[m].got[k]) \in granted'[m]
                      /\ call'[m].reply = "ok" => Asked(m)' \in granted'[m]
    BY DEF GrantInv
  <2>1. CASE m = n
    <3>1. call'[m] = begun
      BY <1>6, <2>1
    <3>2. Len(call'[m].got) = 0 /\ call'[m].with = with /\ call'[m].reply = "waiting"
      BY <3>1 DEF begun
    <3>3. Len(with) \in Nat
      OBVIOUS
    <3> QED
      BY <3>2, <3>3
  <2>2. CASE m # n
    <3>1. call'[m] = call[m] /\ granted' = granted
      BY <1>5, <1>6, <2>2
    <3> QED
      BY <3>1 DEF PairedInv, GrantInv, Free, Asked
  <2> QED
    BY <2>1, <2>2
<1> QED
  BY <1>9, <1>10, <1>11 DEF PairedInv

LEMMA AskNextInv ==
    ASSUME PairedAssumption, PairedInv, NEW n \in Nodes, AskNext(n)
    PROVE  PairedInv'
<1> DEFINE index == Len(Agreed(n))
           port == MediaPort(next[n], index)
           post == Ask(n, call[n].with[index + 1], call[n].kind, port)
           asking == [call[n] EXCEPT !.got = Agreed(n), !.port = port,
                                     !.drawn = Append(call[n].drawn, next[n] + index),
                                     !.reply = "waiting"]
<1>1. /\ next \in [Nodes -> 1..(MaxId + 1)] /\ call \in [Nodes -> Call \cup {NoCall}]
      /\ IsABag(posts) /\ DOMAIN posts \subseteq Post /\ MaxId \in Nat
  BY DEF PairedInv, TypeOK, PairedAssumption
<1>2. /\ ~Free(n) /\ call[n].reply = "ok" /\ index < Len(call[n].with)
      /\ call' = [call EXCEPT ![n] = asking] /\ posts' = posts (+) Single(post)
      /\ UNCHANGED <<next, legs, granted>>
  BY DEF AskNext, Granted, MoreToAsk
<1>3. /\ call[n] \in Call
      /\ call[n].kind \in Kinds /\ call[n].with \in Seq(Nodes) /\ call[n].got \in Seq(Ports)
      /\ call[n].port \in Ports /\ call[n].drawn \in Seq(Nat)
      /\ Agreed(n) \in Seq(Ports) /\ index = Len(call[n].got) + 1
      /\ \A k \in 1..Len(call[n].got) : Agreed(n)[k] = call[n].got[k]
      /\ Agreed(n)[Len(call[n].got) + 1] = call[n].port
  BY <1>2, CallFields DEF PairedInv
<1>4. port \in Ports /\ call[n].with[index + 1] \in Nodes
  <2>1. index \in Nat /\ index + 1 \in 1..Len(call[n].with) /\ next[n] \in Nat
    BY <1>1, <1>2, <1>3
  <2>2. call[n].with[index + 1] \in Nodes
    BY <1>3, <2>1
  <2> QED
    BY <2>1, <2>2, PortsFit
<1>5. post \in Post /\ post.from = n /\ post.open
  BY <1>4, AskIsPost, AskFields
<1>6. asking \in Call /\ asking # NoCall
  <2>1. next[n] + index \in Nat
    BY <1>1, <1>3
  <2>2. Append(call[n].drawn, next[n] + index) \in Seq(Nat)
    BY <1>3, <2>1
  <2>3. asking \in Call
    BY <1>3, <1>4, <2>2 DEF Call
  <2> QED
    BY <2>3 DEF PairedAssumption
<1>7. /\ asking.got = Agreed(n) /\ asking.with = call[n].with /\ asking.kind = call[n].kind
      /\ asking.port = port /\ asking.reply = "waiting"
  BY <1>3 DEF Call
<1>8. \A m \in Nodes : call'[m] = IF m = n THEN asking ELSE call[m]
  BY <1>1, <1>2
<1> HIDE DEF asking, port
<1>9. post \notin DOMAIN posts /\ \A p \in DOMAIN posts : p.open => p.from # n
  BY <1>2, <1>5 DEF PairedInv, OpenInv
<1>10. /\ IsABag(posts') /\ DOMAIN posts' = DOMAIN posts \cup {post}
       /\ posts'[post] = 1 /\ \A p \in DOMAIN posts : posts'[p] = posts[p]
  <2>1. /\ IsABag(posts (+) Single(post)) /\ DOMAIN (posts (+) Single(post)) = DOMAIN posts \cup {post}
        /\ (posts (+) Single(post))[post] = 1
        /\ \A p \in DOMAIN posts : p # post => (posts (+) Single(post))[p] = posts[p]
    BY <1>1, <1>9, Added
  <2> QED
    BY <1>2, <1>9, <2>1
<1>11. TypeOK'
  BY <1>1, <1>2, <1>5, <1>6, <1>10 DEF PairedInv, TypeOK
<1>12. Asked(n)' = post
  BY <1>7, <1>8 DEF Asked
<1> HIDE DEF post
<1>13. OpenInv'
  <2> SUFFICES ASSUME NEW p \in DOMAIN posts', p.open
               PROVE  /\ posts'[p] = 1 /\ ~Free(p.from)' /\ call'[p.from].reply = "waiting"
                      /\ p = Asked(p.from)'
    BY DEF OpenInv
  <2>1. CASE p = post
    BY <1>5, <1>6, <1>7, <1>8, <1>10, <1>12, <2>1 DEF Free
  <2>2. CASE p \in DOMAIN posts
    <3>1. call'[p.from] = call[p.from]
      BY <1>1, <1>8, <1>9, <2>2 DEF Post
    <3> QED
      BY <1>10, <2>2, <3>1 DEF PairedInv, OpenInv, Free, Asked
  <2> QED
    BY <1>10, <2>1, <2>2
<1>14. GrantInv'
  <2> SUFFICES ASSUME NEW m \in Nodes, ~Free(m)'
               PROVE  /\ Len(call'[m].got) < Len(call'[m].with)
                      /\ \A k \in 1..Len(call'[m].got) :
                            Ask(m, call'[m].with[k], call'[m].kind, call'[m].got[k]) \in granted'[m]
                      /\ call'[m].reply = "ok" => Asked(m)' \in granted'[m]
    BY DEF GrantInv
  <2>1. CASE m = n
    <3>1. /\ \A k \in 1..Len(call[n].got) :
                Ask(n, call[n].with[k], call[n].kind, call[n].got[k]) \in granted[n]
          /\ Asked(n) \in granted[n]
      BY <1>2 DEF PairedInv, GrantInv
    <3>2. ASSUME NEW k \in 1..index
          PROVE  Ask(n, call[n].with[k], call[n].kind, Agreed(n)[k]) \in granted[n]
      <4>1. CASE k \in 1..Len(call[n].got)
        BY <1>3, <3>1, <4>1
      <4>2. CASE k = Len(call[n].got) + 1
        BY <1>3, <3>1, <4>2 DEF Asked
      <4> QED
        BY <1>3, <4>1, <4>2
    <3>3. /\ call'[n].got = Agreed(n) /\ call'[n].with = call[n].with /\ call'[n].kind = call[n].kind
          /\ call'[n].reply = "waiting" /\ granted' = granted
      BY <1>2, <1>7, <1>8
    <3> QED
      BY <1>2, <2>1, <3>2, <3>3
  <2>2. CASE m # n
    <3>1. call'[m] = call[m] /\ granted' = granted
      BY <1>2, <1>8, <2>2
    <3> QED
      BY <3>1 DEF PairedInv, GrantInv, Free, Asked
  <2> QED
    BY <2>1, <2>2
<1> QED
  BY <1>11, <1>13, <1>14 DEF PairedInv

\* A request that ends takes its call and what was granted with it.
LEMMA HungUp ==
    ASSUME PairedAssumption, PairedInv, NEW n \in Nodes,
           next' \in [Nodes -> 1..(MaxId + 1)], legs' \in [Nodes -> Seq(Leg)],
           call' = [call EXCEPT ![n] = NoCall], granted' = [granted EXCEPT ![n] = {}],
           IsABag(posts'), DOMAIN posts' \subseteq Post,
           \A p \in DOMAIN posts' : p.open => p \in DOMAIN posts /\ p.from # n /\ posts'[p] = posts[p]
    PROVE  PairedInv'
<1>1. /\ call \in [Nodes -> Call \cup {NoCall}] /\ granted \in [Nodes -> SUBSET Post]
      /\ \A p \in DOMAIN posts' : p.from \in Nodes
  BY DEF PairedInv, TypeOK, Post
<1>2. \A m \in Nodes : /\ call'[m] = IF m = n THEN NoCall ELSE call[m]
                       /\ granted'[m] = IF m = n THEN {} ELSE granted[m]
  BY <1>1
<1>3. TypeOK'
  BY <1>1 DEF TypeOK
<1>4. OpenInv'
  <2> SUFFICES ASSUME NEW p \in DOMAIN posts', p.open
               PROVE  /\ posts'[p] = 1 /\ ~Free(p.from)' /\ call'[p.from].reply = "waiting"
                      /\ p = Asked(p.from)'
    BY DEF OpenInv
  <2>1. p \in DOMAIN posts /\ posts'[p] = posts[p] /\ call'[p.from] = call[p.from]
    BY <1>1, <1>2
  <2> QED
    BY <2>1 DEF PairedInv, OpenInv, Free, Asked
<1>5. GrantInv'
  <2> SUFFICES ASSUME NEW m \in Nodes, ~Free(m)'
               PROVE  /\ Len(call'[m].got) < Len(call'[m].with)
                      /\ \A k \in 1..Len(call'[m].got) :
                            Ask(m, call'[m].with[k], call'[m].kind, call'[m].got[k]) \in granted'[m]
                      /\ call'[m].reply = "ok" => Asked(m)' \in granted'[m]
    BY DEF GrantInv
  <2>1. m # n /\ call'[m] = call[m] /\ granted'[m] = granted[m]
    BY <1>2 DEF Free
  <2> QED
    BY <2>1 DEF PairedInv, GrantInv, Free, Asked
<1> QED
  BY <1>3, <1>4, <1>5 DEF PairedInv

LEMMA FinishInv ==
    ASSUME PairedAssumption, PairedInv, NEW n \in Nodes, Finish(n)
    PROVE  PairedInv'
<1>1. next' \in [Nodes -> 1..(MaxId + 1)] /\ legs' \in [Nodes -> Seq(Leg)]
  <2>1. CASE AddLeg(n, call[n].kind, LocalPorts(n), call[n].drawn)
    <3>1. call[n].kind \in Kinds /\ LocalPorts(n) \in Seq(Ports) /\ call[n].drawn \in Seq(Nat)
      BY CallFields DEF Finish, Granted, LocalPorts, PairedInv
    <3> QED
      BY <2>1, <3>1, LegAdded DEF PairedInv
  <2>2. CASE UNCHANGED <<next, legs>>
    BY <2>2 DEF PairedInv, TypeOK
  <2> QED
    BY <2>1, <2>2 DEF Finish
<1>2. \A p \in DOMAIN posts : p.open => p.from # n
  BY DEF Finish, Granted, PairedInv, OpenInv
<1>3. /\ call' = [call EXCEPT ![n] = NoCall] /\ granted' = [granted EXCEPT ![n] = {}]
      /\ posts' = posts
  BY DEF Finish
<1>4. IsABag(posts) /\ DOMAIN posts \subseteq Post
  BY DEF PairedInv, TypeOK
<1> QED
  BY <1>1, <1>2, <1>3, <1>4, HungUp

LEMMA GiveUpInv ==
    ASSUME PairedAssumption, PairedInv, NEW n \in Nodes, GiveUp(n)
    PROVE  PairedInv'
<1>1. next' \in [Nodes -> 1..(MaxId + 1)] /\ legs' \in [Nodes -> Seq(Leg)]
  BY DEF GiveUp, PairedInv, TypeOK
<1>2. \A p \in DOMAIN posts : p.open => p.from # n
  BY DEF GiveUp, PairedInv, OpenInv
<1>3. /\ call' = [call EXCEPT ![n] = NoCall] /\ granted' = [granted EXCEPT ![n] = {}]
      /\ posts' = posts
  BY DEF GiveUp
<1>4. IsABag(posts) /\ DOMAIN posts \subseteq Post
  BY DEF PairedInv, TypeOK
<1> QED
  BY <1>1, <1>2, <1>3, <1>4, HungUp

LEMMA DisconnectInv ==
    ASSUME PairedAssumption, PairedInv, NEW n \in Nodes, Disconnect(n)
    PROVE  PairedInv'
<1>1. /\ next' \in [Nodes -> 1..(MaxId + 1)] /\ legs' \in [Nodes -> Seq(Leg)]
      /\ IsABag(posts) /\ DOMAIN posts \subseteq Post
      /\ call' = [call EXCEPT ![n] = NoCall] /\ granted' = [granted EXCEPT ![n] = {}]
  BY DEF Disconnect, PairedInv, TypeOK
<1>2. PICK post \in DOMAIN posts :
          /\ post.from = n /\ post.open
          /\ posts' = (posts (-) Single(post)) (+) Single([post EXCEPT !.open = FALSE])
  BY DEF Disconnect, BagToSet
<1> DEFINE rest == posts (-) Single(post)
           closed == [post EXCEPT !.open = FALSE]
<1>3. closed \in Post /\ closed.open = FALSE
  BY <1>1 DEF Post
<1>4. posts[post] = 1 /\ \A p \in DOMAIN posts : p.open /\ p.from = n => p = post
  BY <1>2 DEF PairedInv, OpenInv
<1>5. /\ IsABag(rest) /\ DOMAIN rest \subseteq DOMAIN posts /\ post \notin DOMAIN rest
      /\ \A p \in DOMAIN rest : p # post => rest[p] = posts[p]
  BY <1>1, <1>4, Removed
<1> HIDE DEF rest, closed
<1>6. /\ IsABag(rest (+) Single(closed)) /\ DOMAIN (rest (+) Single(closed)) = DOMAIN rest \cup {closed}
      /\ \A p \in DOMAIN rest : p # closed => (rest (+) Single(closed))[p] = rest[p]
  BY <1>5, Added
<1>7. posts' = rest (+) Single(closed)
  BY <1>2 DEF rest, closed
<1>8. IsABag(posts') /\ DOMAIN posts' \subseteq Post
  BY <1>1, <1>3, <1>5, <1>6, <1>7
<1>9. ASSUME NEW p \in DOMAIN posts', p.open
      PROVE  p \in DOMAIN posts /\ p.from # n /\ posts'[p] = posts[p]
  <2>1. p # closed /\ p \in DOMAIN rest
    BY <1>3, <1>6, <1>7, <1>9
  <2>2. p # post /\ p \in DOMAIN posts
    BY <1>5, <2>1
  <2> QED
    BY <1>4, <1>5, <1>6, <1>7, <1>9, <2>1, <2>2
<1> QED
  BY <1>1, <1>8, <1>9, HungUp

------------------------------------------------------------------------------
(* The pairing worker.                                                     *)

\* An answered request is gone, and its sender, if it waits, has the answer.
LEMMA Answered ==
    ASSUME PairedAssumption, PairedInv, NEW post \in DOMAIN posts, NEW reply \in {"ok", "refused"},
           next' \in [Nodes -> 1..(MaxId + 1)], legs' \in [Nodes -> Seq(Leg)],
           granted' \in [Nodes -> SUBSET Post],
           \A n \in Nodes : granted[n] \subseteq granted'[n],
           post.open /\ reply = "ok" => post \in granted'[post.from],
           call' = Replied(post, reply), posts' = posts (-) Single(post)
    PROVE  PairedInv'
<1>1. /\ IsABag(posts) /\ DOMAIN posts \subseteq Post /\ \A p \in DOMAIN posts : p.from \in Nodes
      /\ call \in [Nodes -> Call \cup {NoCall}]
  BY DEF PairedInv, TypeOK, Post
<1>2. /\ call' \in [Nodes -> Call \cup {NoCall}]
      /\ \A n \in Nodes : call'[n] =
            IF post.open /\ n = post.from THEN [call[n] EXCEPT !.reply = reply] ELSE call[n]
  BY RepliedTypes DEF PairedInv
<1>3. /\ IsABag(posts') /\ DOMAIN posts' \subseteq DOMAIN posts
      /\ posts[post] = 1 => post \notin DOMAIN posts'
      /\ \A p \in DOMAIN posts' : p # post => posts'[p] = posts[p]
  BY <1>1, Removed
<1>4. TypeOK'
  BY <1>1, <1>2, <1>3 DEF TypeOK
<1>5. OpenInv'
  <2> SUFFICES ASSUME NEW p \in DOMAIN posts', p.open
               PROVE  /\ posts'[p] = 1 /\ ~Free(p.from)' /\ call'[p.from].reply = "waiting"
                      /\ p = Asked(p.from)'
    BY DEF OpenInv
  <2>1. p \in DOMAIN posts /\ posts[p] = 1 /\ p = Asked(p.from)
    BY <1>3 DEF PairedInv, OpenInv
  <2>2. p # post
    BY <1>3, <2>1
  <2>3. ~(post.open /\ post.from = p.from)
    BY <2>1, <2>2 DEF PairedInv, OpenInv
  <2>4. call'[p.from] = call[p.from] /\ posts'[p] = posts[p]
    BY <1>1, <1>2, <1>3, <2>1, <2>2, <2>3
  <2> QED
    BY <2>1, <2>4 DEF PairedInv, OpenInv, Free, Asked
<1>6. GrantInv'
  <2> SUFFICES ASSUME NEW m \in Nodes, ~Free(m)'
               PROVE  /\ Len(call'[m].got) < Len(call'[m].with)
                      /\ \A k \in 1..Len(call'[m].got) :
                            Ask(m, call'[m].with[k], call'[m].kind, call'[m].got[k]) \in granted'[m]
                      /\ call'[m].reply = "ok" => Asked(m)' \in granted'[m]
    BY DEF GrantInv
  <2>1. CASE post.open /\ m = post.from
    <3>1. ~Free(m) /\ post = Asked(m)
      BY <2>1 DEF PairedInv, OpenInv
    <3>2. call[m] \in Call
      BY <1>1, <3>1 DEF Free
    <3>3. /\ call'[m].got = call[m].got /\ call'[m].with = call[m].with
          /\ call'[m].kind = call[m].kind /\ call'[m].port = call[m].port
          /\ call'[m].reply = reply
      <4>1. call'[m] = [call[m] EXCEPT !.reply = reply]
        BY <1>2, <2>1
      <4> QED
        BY <3>2, <4>1 DEF Call
    <3>4. Asked(m)' = post
      BY <3>1, <3>3 DEF Asked
    <3> QED
      BY <2>1, <3>1, <3>3, <3>4 DEF PairedInv, GrantInv
  <2>2. CASE ~(post.open /\ m = post.from)
    <3>1. call'[m] = call[m] /\ granted[m] \subseteq granted'[m]
      BY <1>2, <2>2
    <3> QED
      BY <3>1 DEF PairedInv, GrantInv, Free, Asked
  <2> QED
    BY <2>1, <2>2
<1> QED
  BY <1>4, <1>5, <1>6 DEF PairedInv

LEMMA HandleRouteInv ==
    ASSUME PairedAssumption, PairedInv, NEW post \in DOMAIN posts, HandleRoute(post)
    PROVE  PairedInv'
<1>1. /\ post \in Post /\ post.to \in Nodes /\ post.from \in Nodes /\ post.direction \in Kinds
      /\ post.port \in Ports
  BY DEF PairedInv, TypeOK, Post, Directions, Kinds
<1>2. posts' = posts (-) Single(post)
  BY DEF HandleRoute
<1>3. granted \in [Nodes -> SUBSET Post]
  BY DEF PairedInv, TypeOK
<1>4. CASE /\ AddLeg(post.to, post.direction, <<post.port>>, << >>)
           /\ granted' = [granted EXCEPT ![post.from] = IF post.open THEN @ \cup {post} ELSE @]
           /\ call' = Replied(post, "ok")
  <2>1. <<post.port>> \in Seq(Ports) /\ << >> \in Seq(Nat)
    BY <1>1
  <2>2. next' \in [Nodes -> 1..(MaxId + 1)] /\ legs' \in [Nodes -> Seq(Leg)]
    BY <1>1, <1>4, <2>1, LegAdded DEF PairedInv
  <2>3. /\ granted' \in [Nodes -> SUBSET Post]
        /\ \A n \in Nodes : granted[n] \subseteq granted'[n]
        /\ post.open => post \in granted'[post.from]
    BY <1>1, <1>3, <1>4
  <2> QED
    BY <1>2, <1>4, <2>2, <2>3, Answered
<1>5. CASE call' = Replied(post, "refused") /\ UNCHANGED <<next, legs, granted>>
  <2>1. next' \in [Nodes -> 1..(MaxId + 1)] /\ legs' \in [Nodes -> Seq(Leg)]
    BY <1>5 DEF PairedInv, TypeOK
  <2> QED
    BY <1>2, <1>3, <1>5, <2>1, Answered
<1> QED
  BY <1>4, <1>5 DEF HandleRoute

LEMMA LoseInv ==
    ASSUME PairedAssumption, PairedInv, NEW post \in DOMAIN posts, Lose(post)
    PROVE  PairedInv'
<1>1. /\ posts' = posts (-) Single(post) /\ call' = Replied(post, "refused")
      /\ UNCHANGED <<next, legs, granted>>
  BY DEF Lose
<1>2. /\ next' \in [Nodes -> 1..(MaxId + 1)] /\ legs' \in [Nodes -> Seq(Leg)]
      /\ granted \in [Nodes -> SUBSET Post]
  BY <1>1 DEF PairedInv, TypeOK
<1> QED
  BY <1>1, <1>2, Answered

------------------------------------------------------------------------------
(* Every step.                                                             *)

\* A paired request that begins asks one computer or, for a mixer, several.
Begun(n, kind, with) ==
    /\ Len(with) > 0
    /\ Len(with) = 1 \/ Len(with) <= MaxSources
    /\ Begin(n, kind, with)

LEMMA Steps ==
    ASSUME PairedAssumption, Next
    PROVE  \/ \E n \in Nodes, kind \in Kinds, with \in Seq(Nodes) : Begun(n, kind, with)
           \/ \E n \in Nodes : AskNext(n) \/ Finish(n) \/ GiveUp(n) \/ Disconnect(n)
           \/ \E post \in DOMAIN posts : HandleRoute(post) \/ Lose(post)
<1>1. ASSUME NEW n \in Nodes, NEW m \in Nodes, NEW kind \in Directions, PairedRoute(n, kind, m)
      PROVE  \E k \in Kinds, with \in Seq(Nodes) : Begun(n, k, with)
  <2>1. <<m>> \in Seq(Nodes) /\ Len(<<m>>) = 1 /\ kind \in Kinds
    BY DEF Directions, Kinds
  <2>2. Begun(n, kind, <<m>>)
    BY <1>1, <2>1 DEF PairedRoute, Begun
  <2> QED
    BY <2>1, <2>2
<1>2. ASSUME NEW n \in Nodes, NEW with \in BoundedSeq(Nodes, MaxSources), PairedMixer(n, with)
      PROVE  \E k \in Kinds, w \in Seq(Nodes) : Begun(n, k, w)
  <2>1. MaxSources \in Nat
    BY DEF PairedAssumption
  <2>2. PICK count \in 0..MaxSources : with \in [1..count -> Nodes]
    BY DEF BoundedSeq, SeqOf
  <2>3. with \in Seq(Nodes) /\ Len(with) = count
    BY <2>1, <2>2
  <2>4. Begun(n, "mixer", with)
    BY <1>2, <2>1, <2>3 DEF PairedMixer, Begun
  <2> QED
    BY <2>3, <2>4 DEF Kinds
<1> QED
  BY <1>1, <1>2 DEF Next, WebThread, BagToSet

LEMMA PairedInvStep == PairedAssumption /\ PairedInv /\ [Next]_vars => PairedInv'
<1> SUFFICES ASSUME PairedAssumption, PairedInv, [Next]_vars PROVE PairedInv'
  OBVIOUS
<1>1. CASE Next
  BY <1>1, Steps, BeginInv, AskNextInv, FinishInv, GiveUpInv, DisconnectInv, HandleRouteInv, LoseInv
  DEF Begun
<1>2. CASE UNCHANGED vars
  BY <1>2 DEF vars, PairedInv, TypeOK, OpenInv, GrantInv, Free, Asked
<1> QED
  BY <1>1, <1>2

\* Of the requests under way, their calls and what was granted.
THEOREM PairedInvariant == PairedAssumption => (Spec => []PairedInv)
<1> SUFFICES ASSUME PairedAssumption PROVE Spec => []PairedInv
  OBVIOUS
<1>1. Init => PairedInv
  <2> SUFFICES ASSUME Init PROVE PairedInv
    OBVIOUS
  <2>1. IsABag(posts) /\ DOMAIN posts = {}
    BY DEF Init, EmptyBag, SetToBag, IsABag
  <2>2. MaxId \in Nat
    BY DEF PairedAssumption
  <2>3. TypeOK
    BY <2>1, <2>2 DEF Init, TypeOK
  <2> QED
    BY <2>1, <2>3 DEF Init, PairedInv, OpenInv, GrantInv, Free
<1> QED
  BY <1>1, PairedInvStep, PTL DEF Spec

------------------------------------------------------------------------------
(* What was granted.                                                       *)

\* Only a request that finishes adds a leg and frees the web thread.
LEMMA GrantedStep ==
    ASSUME PairedAssumption, PairedInv, [Next]_vars,
           NEW n \in Nodes, ~Free(n), Free(n)', legs'[n] # legs[n]
    PROVE  LET leg == legs'[n][Len(legs'[n])] IN
           /\ Len(leg.ports) = Len(call[n].with)
           /\ \A k \in DOMAIN leg.ports :
                 Ask(n, call[n].with[k], leg.kind, leg.ports[k]) \in granted[n]
<1>1. /\ call \in [Nodes -> Call \cup {NoCall}] /\ legs \in [Nodes -> Seq(Leg)]
      /\ NoCall \notin Call
  BY DEF PairedInv, TypeOK, PairedAssumption
<1>2. Finish(n) /\ legs' # legs
  <2>0. legs' # legs
    OBVIOUS
  <2>1. ASSUME NEW post \in DOMAIN posts, HandleRoute(post) PROVE FALSE
    <3>1. call' = Replied(post, "ok") \/ call' = Replied(post, "refused")
      BY <2>1 DEF HandleRoute
    <3>2. PICK reply \in {"ok", "refused"} :
              call'[n] = IF post.open /\ n = post.from THEN [call[n] EXCEPT !.reply = reply] ELSE call[n]
      BY <3>1, RepliedTypes DEF PairedInv
    <3>3. call[n] \in Call
      BY <1>1 DEF Free
    <3>4. \A answer \in {"ok", "refused"} : [call[n] EXCEPT !.reply = answer] \in Call
      BY <3>3 DEF Call
    <3> QED
      BY <1>1, <3>2, <3>3, <3>4 DEF Free
  <2>2. ASSUME NEW m \in Nodes, Finish(m) PROVE m = n
    BY <1>1, <2>2 DEF Finish, Free
  <2>3. CASE Next
    BY <2>0, <2>1, <2>2, <2>3, Steps DEF Begun, Begin, AskNext, GiveUp, Disconnect, Lose
  <2>4. CASE UNCHANGED vars
    BY <2>0, <2>4 DEF vars
  <2> QED
    BY <2>0, <2>3, <2>4
<1> DEFINE leg == [kind |-> call[n].kind, ports |-> Agreed(n), drawn |-> call[n].drawn]
<1>3. legs' = [legs EXCEPT ![n] = Append(legs[n], leg)] /\ Granted(n) /\ ~MoreToAsk(n)
  BY <1>1, <1>2 DEF Finish, AddLeg, LocalPorts
<1>4. legs'[n] = Append(legs[n], leg)
  BY <1>1, <1>3
<1>5. legs'[n][Len(legs'[n])] = leg
  <2> HIDE DEF leg
  <2>1. legs[n] \in Seq(Leg)
    BY <1>1
  <2> QED
    BY <1>4, <2>1
<1>6. /\ call[n].with \in Seq(Nodes) /\ call[n].got \in Seq(Ports)
      /\ Agreed(n) \in Seq(Ports) /\ Len(Agreed(n)) = Len(call[n].got) + 1
      /\ \A k \in 1..Len(call[n].got) : Agreed(n)[k] = call[n].got[k]
      /\ Agreed(n)[Len(call[n].got) + 1] = call[n].port
  BY CallFields DEF PairedInv
<1>7. /\ Len(call[n].got) < Len(call[n].with)
      /\ \A k \in 1..Len(call[n].got) :
            Ask(n, call[n].with[k], call[n].kind, call[n].got[k]) \in granted[n]
      /\ Asked(n) \in granted[n]
  BY <1>3 DEF Granted, PairedInv, GrantInv
<1>8. Len(Agreed(n)) = Len(call[n].with)
  BY <1>3, <1>6, <1>7 DEF MoreToAsk
<1>9. ASSUME NEW k \in 1..Len(Agreed(n))
      PROVE  Ask(n, call[n].with[k], call[n].kind, Agreed(n)[k]) \in granted[n]
  <2>1. CASE k \in 1..Len(call[n].got)
    BY <1>6, <1>7, <2>1
  <2>2. CASE k = Len(call[n].got) + 1
    BY <1>6, <1>7, <2>2 DEF Asked
  <2> QED
    BY <1>6, <2>1, <2>2
<1> QED
  BY <1>5, <1>6, <1>8, <1>9

\* "No local table entry is retained when the paired computer rejects it"
\* (web_server.cpp:576): a request ends with a leg only if every computer it asked
\* granted the port of that leg.
THEOREM LegsWereGranted == PairedAssumption => (Spec => LegsAreGranted)
<1> SUFFICES ASSUME PairedAssumption PROVE Spec => LegsAreGranted
  OBVIOUS
<1>1. PairedInv /\ [Next]_vars =>
         [\A n \in Nodes : ~Free(n) /\ Free(n)' /\ legs'[n] # legs[n] =>
            LET leg == legs'[n][Len(legs'[n])] IN
            /\ Len(leg.ports) = Len(call[n].with)
            /\ \A k \in DOMAIN leg.ports :
                  Ask(n, call[n].with[k], leg.kind, leg.ports[k]) \in granted[n]]_vars
  BY GrantedStep
<1> QED
  BY <1>1, PairedInvariant, PTL DEF Spec, LegsAreGranted

------------------------------------------------------------------------------
(* The ports of a mixer.                                                   *)

LEMMA Appended ==
    ASSUME NEW S, NEW s \in Seq(S), NEW e \in S, NEW size \in Nat, Len(s) = size
    PROVE  /\ Len(Append(s, e)) = size + 1
           /\ \A i \in 1..size : Append(s, e)[i] = s[i]
           /\ Append(s, e)[size + 1] = e
OBVIOUS

LEMMA DrawnIsNumber == ASSUME NEW drawn \in Seq(Nat), NEW i \in 1..Len(drawn) PROVE drawn[i] \in Nat
OBVIOUS

LEMMA AppendedToNone == ASSUME NEW e PROVE Append(<< >>, e) = <<e>>
OBVIOUS

\* One more source keeps ports and numbers in line, if its number is a larger one.
LEMMA NumberedOnward ==
    ASSUME NEW ports \in Seq(Ports), NEW drawn \in Seq(Nat), Numbered(ports, drawn), Len(ports) > 0,
           NEW port \in Ports, NEW number \in Nat,
           port = number % PortRange, drawn[Len(ports)] < number
    PROVE  Numbered(Append(ports, port), Append(drawn, number))
<1> DEFINE agreed == Append(ports, port)
           later == Append(drawn, number)
           size == Len(ports)
<1>1. size \in Nat /\ size > 0 /\ Len(drawn) = size
  BY DEF Numbered
<1>2. Len(agreed) = size + 1 /\ (\A i \in 1..size : agreed[i] = ports[i]) /\ agreed[size + 1] = port
  BY <1>1, Appended
<1>3. Len(later) = size + 1 /\ (\A i \in 1..size : later[i] = drawn[i]) /\ later[size + 1] = number
  BY <1>1, Appended
<1>4. \A i \in 1..size : drawn[i] \in Nat
  BY <1>1, DrawnIsNumber
<1>5. /\ \A i \in 1..size : ports[i] = drawn[i] % PortRange
      /\ \A i, j \in 1..size : i < j => drawn[i] < drawn[j]
      /\ drawn[size] < number
  BY <1>1 DEF Numbered
<1> HIDE DEF agreed, later, size
<1>6. \A i \in 1..size : drawn[i] < number
  BY <1>1, <1>4, <1>5
<1>7. \A i \in 1..(size + 1) : agreed[i] = later[i] % PortRange
  BY <1>1, <1>2, <1>3, <1>5
<1>8. \A i, j \in 1..(size + 1) : i < j => later[i] < later[j]
  BY <1>1, <1>3, <1>5, <1>6
<1>9. Numbered(agreed, later)
  BY <1>2, <1>3, <1>7, <1>8 DEF Numbered
<1> QED
  BY <1>9 DEF agreed, later

\* What a call is about stays, or the call ends, while ids are drawn.
LEMMA CallsKept ==
    ASSUME PairedAssumption, PairedInv, CallsRise, next' \in [Nodes -> 1..(MaxId + 1)],
           \A m \in Nodes : next[m] <= next'[m],
           \A m \in Nodes : ~Free(m)' =>
               /\ ~Free(m)
               /\ call'[m].got = call[m].got /\ call'[m].port = call[m].port
               /\ call'[m].drawn = call[m].drawn
    PROVE  CallsRise'
<1> SUFFICES ASSUME NEW m \in Nodes, ~Free(m)'
             PROVE  /\ Numbered(Agreed(m)', call'[m].drawn)
                    /\ call'[m].drawn[Len(Agreed(m)')] < next'[m] + Len(Agreed(m)')
  BY DEF CallsRise, Numbered
<1>1. ~Free(m) /\ Agreed(m)' = Agreed(m) /\ call'[m].drawn = call[m].drawn
  BY DEF Agreed
<1>2. /\ Numbered(Agreed(m), call[m].drawn)
      /\ call[m].drawn[Len(Agreed(m))] < next[m] + Len(Agreed(m))
  BY <1>1 DEF CallsRise
<1>3. /\ call[m].drawn \in Seq(Nat) /\ Len(Agreed(m)) = Len(call[m].got) + 1
      /\ call[m].got \in Seq(Ports)
  BY <1>1, CallFields DEF PairedInv
<1>4. Len(Agreed(m)) \in 1..Len(call[m].drawn)
  BY <1>2, <1>3 DEF Numbered
<1>5. next[m] \in Nat /\ next'[m] \in Nat /\ next[m] <= next'[m]
  BY DEF PairedInv, TypeOK, PairedAssumption
<1>6. call[m].drawn[Len(Agreed(m))] \in Nat
  BY <1>3, <1>4, DrawnIsNumber
<1>7. call[m].drawn[Len(Agreed(m))] < next'[m] + Len(Agreed(m))
  BY <1>2, <1>3, <1>5, <1>6
<1> QED
  BY <1>1, <1>2, <1>7

LEMMA LegsKept ==
    ASSUME PairedInv, LegsRise, NEW n \in Nodes, NEW kind \in Kinds, NEW ports \in Seq(Ports),
           NEW drawn \in Seq(Nat),
           AddLeg(n, kind, ports, drawn), kind = "mixer" => Numbered(ports, drawn)
    PROVE  LegsRise'
<1> DEFINE leg == [kind |-> kind, ports |-> ports, drawn |-> drawn]
<1>1. legs \in [Nodes -> Seq(Leg)] /\ leg \in Leg
  <2>1. leg \in Leg
    BY DEF Leg
  <2> QED
    BY <2>1 DEF PairedInv, TypeOK
<1>2. leg.kind = kind /\ leg.ports = ports /\ leg.drawn = drawn
  OBVIOUS
<1>3. \A m \in Nodes : legs'[m] = IF m = n THEN Append(legs[n], leg) ELSE legs[m]
  BY <1>1 DEF AddLeg
<1> HIDE DEF leg
<1> SUFFICES ASSUME NEW m \in Nodes, NEW i \in 1..Len(legs'[m]), legs'[m][i].kind = "mixer"
             PROVE  Numbered(legs'[m][i].ports, legs'[m][i].drawn)
  BY DEF LegsRise, Numbered
<1>4. CASE m # n
  BY <1>3, <1>4 DEF LegsRise
<1>5. CASE m = n
  <2>1. /\ legs'[m] = Append(legs[n], leg) /\ Len(legs'[m]) = Len(legs[n]) + 1
        /\ \A k \in 1..Len(legs[n]) : legs'[m][k] = legs[n][k]
        /\ legs'[m][Len(legs[n]) + 1] = leg
    <3>1. legs'[m] = Append(legs[n], leg) /\ legs[n] \in Seq(Leg)
      BY <1>1, <1>3, <1>5
    <3> QED
      BY <1>1, <3>1
  <2>2. CASE i \in 1..Len(legs[n])
    BY <1>1, <2>1, <2>2 DEF LegsRise
  <2>3. CASE i = Len(legs[n]) + 1
    BY <1>2, <2>1, <2>3
  <2> QED
    BY <1>1, <2>1, <2>2, <2>3
<1> QED
  BY <1>4, <1>5

LEMMA BeginRises ==
    ASSUME PairedAssumption, PairedInv, RisingInv, NEW n \in Nodes, NEW kind \in Kinds,
           NEW with \in Seq(Nodes), Begun(n, kind, with)
    PROVE  RisingInv'
<1> DEFINE begun == [kind |-> kind, with |-> with, got |-> << >>,
                     port |-> MediaPort(next[n], 0), drawn |-> <<next[n]>>, reply |-> "waiting"]
<1>1. /\ next \in [Nodes -> 1..(MaxId + 1)] /\ call \in [Nodes -> Call \cup {NoCall}]
      /\ MaxId \in Nat
  BY DEF PairedInv, TypeOK, PairedAssumption
<1>2. call' = [call EXCEPT ![n] = begun] /\ UNCHANGED <<next, legs>>
  BY DEF Begun, Begin
<1>3. begun.got = << >> /\ begun.port = MediaPort(next[n], 0) /\ begun.drawn = <<next[n]>>
  OBVIOUS
<1>4. \A m \in Nodes : call'[m] = IF m = n THEN begun ELSE call[m]
  BY <1>1, <1>2
<1> HIDE DEF begun
<1>5. CallsRise'
  <2> SUFFICES ASSUME NEW m \in Nodes, ~Free(m)'
               PROVE  /\ Numbered(Agreed(m)', call'[m].drawn)
                      /\ call'[m].drawn[Len(Agreed(m)')] < next'[m] + Len(Agreed(m)')
    BY DEF CallsRise, Numbered
  <2>1. CASE m = n
    <3>1. Agreed(m)' = <<MediaPort(next[n], 0)>> /\ call'[m].drawn = <<next[n]>>
      <4>1. /\ call'[m].got = << >> /\ call'[m].port = MediaPort(next[n], 0)
            /\ call'[m].drawn = <<next[n]>>
        BY <1>3, <1>4, <2>1
      <4> QED
        BY <4>1, AppendedToNone DEF Agreed
    <3>2. MediaPort(next[n], 0) = next[n] % PortRange
      BY <1>1 DEF MediaPort
    <3>3. next[n] \in Nat /\ next'[m] = next[n]
      BY <1>1, <1>2, <2>1
    <3>4. Numbered(<<MediaPort(next[n], 0)>>, <<next[n]>>)
      BY <3>2 DEF Numbered
    <3> QED
      BY <3>1, <3>3, <3>4
  <2>2. CASE m # n
    <3>1. call'[m] = call[m] /\ next' = next
      BY <1>2, <1>4, <2>2
    <3> QED
      BY <3>1 DEF RisingInv, CallsRise, Free, Agreed
  <2> QED
    BY <2>1, <2>2
<1> QED
  BY <1>2, <1>5 DEF RisingInv, LegsRise, Numbered

LEMMA AskNextRises ==
    ASSUME PairedAssumption, PairedInv, RisingInv, NEW n \in Nodes, AskNext(n)
    PROVE  RisingInv'
<1> DEFINE index == Len(Agreed(n))
           port == MediaPort(next[n], index)
           number == next[n] + index
           asking == [call[n] EXCEPT !.got = Agreed(n), !.port = port,
                                     !.drawn = Append(call[n].drawn, number), !.reply = "waiting"]
<1>1. /\ next \in [Nodes -> 1..(MaxId + 1)] /\ call \in [Nodes -> Call \cup {NoCall}]
      /\ MaxId \in Nat
  BY DEF PairedInv, TypeOK, PairedAssumption
<1>2. /\ ~Free(n) /\ call' = [call EXCEPT ![n] = asking] /\ UNCHANGED <<next, legs>>
  BY <1>1 DEF AskNext, Granted
<1>3. /\ call[n] \in Call /\ call[n].drawn \in Seq(Nat) /\ call[n].got \in Seq(Ports)
      /\ Agreed(n) \in Seq(Ports) /\ index = Len(call[n].got) + 1
  BY <1>2, CallFields DEF PairedInv
<1>4. /\ asking.got = Agreed(n) /\ asking.port = port
      /\ asking.drawn = Append(call[n].drawn, number)
  BY <1>3 DEF Call
<1>5. \A m \in Nodes : call'[m] = IF m = n THEN asking ELSE call[m]
  BY <1>1, <1>2
<1>6. number \in Nat /\ index \in Nat /\ next[n] \in Nat
  BY <1>1, <1>3
<1>7. port = number % PortRange
  BY DEF MediaPort
<1>8. Numbered(Agreed(n), call[n].drawn) /\ call[n].drawn[index] < number
  BY <1>2 DEF RisingInv, CallsRise
<1> HIDE DEF asking, port, number, index
<1>9. Agreed(n)' = Append(Agreed(n), port) /\ call'[n].drawn = Append(call[n].drawn, number)
  BY <1>4, <1>5 DEF Agreed
<1>10. Len(Agreed(n)) = index /\ Len(call[n].drawn) = index /\ port \in Ports
  BY <1>3, <1>6, <1>8, PortsFit DEF Numbered, index, port
<1>11. Len(Append(Agreed(n), port)) = index + 1
  BY <1>3, <1>6, <1>10, Appended
<1>12. Append(call[n].drawn, number)[index + 1] = number
  BY <1>3, <1>6, <1>10, Appended
<1>13. index > 0
  BY <1>3 DEF index
<1>14. Numbered(Append(Agreed(n), port), Append(call[n].drawn, number))
  BY <1>3, <1>6, <1>7, <1>8, <1>10, <1>13, NumberedOnward
<1>15. CallsRise'
  <2> SUFFICES ASSUME NEW m \in Nodes, ~Free(m)'
               PROVE  /\ Numbered(Agreed(m)', call'[m].drawn)
                      /\ call'[m].drawn[Len(Agreed(m)')] < next'[m] + Len(Agreed(m)')
    BY DEF CallsRise, Numbered
  <2>1. CASE m = n
    <3>1. next'[m] = next[n] /\ number = next[n] + index
      BY <1>2, <2>1 DEF number
    <3>2. number < next[n] + (index + 1)
      BY <1>6, <3>1
    <3> QED
      BY <1>9, <1>11, <1>12, <1>14, <2>1, <3>1, <3>2
  <2>2. CASE m # n
    <3>1. call'[m] = call[m] /\ next' = next
      BY <1>2, <1>5, <2>2
    <3> QED
      BY <3>1 DEF RisingInv, CallsRise, Free, Agreed
  <2> QED
    BY <2>1, <2>2
<1> QED
  BY <1>2, <1>15 DEF RisingInv, LegsRise, Numbered

LEMMA EndRises ==
    ASSUME PairedAssumption, PairedInv, RisingInv, NEW n \in Nodes,
           Finish(n) \/ GiveUp(n) \/ Disconnect(n)
    PROVE  RisingInv'
<1>1. /\ next \in [Nodes -> 1..(MaxId + 1)] /\ call \in [Nodes -> Call \cup {NoCall}]
      /\ MaxId \in Nat
  BY DEF PairedInv, TypeOK, PairedAssumption
<1>2. call' = [call EXCEPT ![n] = NoCall]
  BY DEF Finish, GiveUp, Disconnect
<1>3. \A m \in Nodes : ~Free(m)' => ~Free(m) /\ call'[m] = call[m]
  BY <1>1, <1>2 DEF Free
<1>4. CASE UNCHANGED <<next, legs>>
  <2>1. CallsRise'
    BY <1>1, <1>3, <1>4, CallsKept DEF RisingInv
  <2> QED
    BY <1>4, <2>1 DEF RisingInv, LegsRise, Numbered
<1>5. CASE Finish(n) /\ AddLeg(n, call[n].kind, LocalPorts(n), call[n].drawn)
  <2>1. /\ ~Free(n) /\ call[n].kind \in Kinds /\ Agreed(n) \in Seq(Ports)
        /\ call[n].drawn \in Seq(Nat)
    BY <1>5, CallFields DEF Finish, Granted, PairedInv
  <2>2. AddLeg(n, call[n].kind, Agreed(n), call[n].drawn)
    BY <1>5 DEF LocalPorts
  <2>3. next' \in [Nodes -> 1..(MaxId + 1)] /\ \A m \in Nodes : next[m] <= next'[m]
    BY <2>1, <2>2, LegAdded DEF PairedInv
  <2>4. CallsRise'
    BY <1>3, <2>3, CallsKept DEF RisingInv
  <2>5. LegsRise'
    BY <2>1, <2>2, LegsKept DEF RisingInv, CallsRise
  <2> QED
    BY <2>4, <2>5 DEF RisingInv
<1> QED
  BY <1>4, <1>5 DEF Finish, GiveUp, Disconnect

LEMMA WorkerRises ==
    ASSUME PairedAssumption, PairedInv, RisingInv, NEW post \in DOMAIN posts,
           HandleRoute(post) \/ Lose(post)
    PROVE  RisingInv'
<1>1. /\ next \in [Nodes -> 1..(MaxId + 1)] /\ call \in [Nodes -> Call \cup {NoCall}]
      /\ MaxId \in Nat /\ NoCall \notin Call
      /\ post.to \in Nodes /\ post.direction \in Directions /\ post.port \in Ports
  BY DEF PairedInv, TypeOK, PairedAssumption, Post
<1>2. PICK reply \in {"ok", "refused"} :
          \A m \in Nodes : call'[m] =
              IF post.open /\ m = post.from THEN [call[m] EXCEPT !.reply = reply] ELSE call[m]
  <2>1. call' = Replied(post, "ok") \/ call' = Replied(post, "refused")
    BY DEF HandleRoute, Lose
  <2> QED
    BY <2>1, RepliedTypes DEF PairedInv
<1>3. ASSUME NEW m \in Nodes, ~Free(m)'
      PROVE  /\ ~Free(m) /\ call'[m].got = call[m].got
             /\ call'[m].port = call[m].port /\ call'[m].drawn = call[m].drawn
  <2>1. CASE post.open /\ m = post.from
    <3>1. ~Free(m)
      BY <2>1 DEF PairedInv, OpenInv
    <3>2. call[m] \in Call /\ call'[m] = [call[m] EXCEPT !.reply = reply]
      BY <1>1, <1>2, <2>1, <3>1 DEF Free
    <3> QED
      BY <3>1, <3>2 DEF Call
  <2>2. CASE ~(post.open /\ m = post.from)
    BY <1>2, <1>3, <2>2 DEF Free
  <2> QED
    BY <2>1, <2>2
<1>4. CASE UNCHANGED <<next, legs>>
  <2>1. CallsRise'
    BY <1>1, <1>3, <1>4, CallsKept DEF RisingInv
  <2> QED
    BY <1>4, <2>1 DEF RisingInv, LegsRise, Numbered
<1>5. CASE AddLeg(post.to, post.direction, <<post.port>>, << >>)
  <2>1. /\ <<post.port>> \in Seq(Ports) /\ << >> \in Seq(Nat)
        /\ post.direction \in Kinds /\ post.direction # "mixer"
    BY <1>1 DEF Directions, Kinds
  <2>2. next' \in [Nodes -> 1..(MaxId + 1)] /\ \A m \in Nodes : next[m] <= next'[m]
    BY <1>1, <1>5, <2>1, LegAdded DEF PairedInv
  <2>3. CallsRise'
    BY <1>3, <2>2, CallsKept DEF RisingInv
  <2>4. LegsRise'
    BY <1>1, <1>5, <2>1, LegsKept DEF RisingInv
  <2> QED
    BY <2>3, <2>4 DEF RisingInv
<1> QED
  BY <1>4, <1>5 DEF HandleRoute, Lose

\* Two numbers less than PortRange apart give two ports.
LEMMA CloseNumbers ==
    ASSUME PairedAssumption, NEW low \in Nat, NEW high \in Nat, low < high,
           high - low < PortRange
    PROVE  low % PortRange # high % PortRange
<1> DEFINE first == low \div PortRange
           second == high \div PortRange
           rounds == second - first
<1>1. PortRange \in Nat /\ PortRange > 0
  BY DEF PairedAssumption
<1>2. /\ first \in Int /\ second \in Int
      /\ low = PortRange * first + (low % PortRange)
      /\ high = PortRange * second + (high % PortRange)
      /\ low % PortRange \in Int /\ high % PortRange \in Int
  BY <1>1
<1> HIDE DEF first, second
<1> SUFFICES ASSUME low % PortRange = high % PortRange PROVE FALSE
  OBVIOUS
<1>3. rounds \in Int /\ high - low = PortRange * second - PortRange * first
  BY <1>1, <1>2
<1>4. PortRange * second - PortRange * first = PortRange * rounds
  BY <1>1, <1>2
<1>5. PortRange * rounds > 0 /\ PortRange * rounds < PortRange
  BY <1>3, <1>4
<1> HIDE DEF rounds
<1>6. CASE rounds >= 1
  <2>1. PortRange * rounds >= PortRange
    BY <1>1, <1>3, <1>6
  <2> QED
    BY <1>1, <1>3, <1>5, <2>1
<1>7. CASE rounds <= 0
  <2>1. PortRange * rounds <= 0
    BY <1>1, <1>3, <1>7
  <2> QED
    BY <1>1, <1>3, <1>5, <2>1
<1> QED
  BY <1>3, <1>6, <1>7

\* The sources of a mixer are received on different ports, although next_route_id may
\* change while they are asked for one by one (web_server.cpp:539-557), unless
\* PortRange ids or more are drawn in between.
THEOREM MixersPortsDiffer == PairedAssumption => (Spec => []MixerPortsDiffer)
<1> SUFFICES ASSUME PairedAssumption PROVE Spec => []MixerPortsDiffer
  OBVIOUS
<1>1. Init => RisingInv
  BY DEF Init, RisingInv, CallsRise, LegsRise, Free
<1>2. PairedInv /\ RisingInv /\ [Next]_vars => RisingInv'
  <2> SUFFICES ASSUME PairedInv, RisingInv, [Next]_vars PROVE RisingInv'
    OBVIOUS
  <2>1. CASE Next
    BY <2>1, Steps, BeginRises, AskNextRises, EndRises, WorkerRises
  <2>2. CASE UNCHANGED vars
    BY <2>2 DEF vars, RisingInv, CallsRise, LegsRise, Free, Agreed, Numbered
  <2> QED
    BY <2>1, <2>2
<1>3. PairedInv /\ RisingInv => MixerPortsDiffer
  <2> SUFFICES ASSUME PairedInv, RisingInv, NEW n \in Nodes, NEW i \in DOMAIN legs[n],
                      legs[n][i].kind = "mixer",
                      NEW j \in DOMAIN legs[n][i].ports, NEW k \in DOMAIN legs[n][i].ports,
                      j < k, legs[n][i].drawn[k] - legs[n][i].drawn[j] < PortRange
               PROVE  legs[n][i].ports[j] # legs[n][i].ports[k]
    BY DEF MixerPortsDiffer
  <2> DEFINE leg == legs[n][i]
  <2>1. legs[n] \in Seq(Leg)
    BY DEF PairedInv, TypeOK
  <2>2. leg \in Leg /\ i \in 1..Len(legs[n])
    BY <2>1
  <2>3. leg.ports \in Seq(Ports) /\ leg.drawn \in Seq(Nat) /\ Numbered(leg.ports, leg.drawn)
    BY <2>2 DEF Leg, RisingInv, LegsRise
  <2> HIDE DEF leg
  <2>4. j \in 1..Len(leg.drawn) /\ k \in 1..Len(leg.drawn)
    BY <2>3 DEF leg, Numbered
  <2>5. /\ leg.drawn[j] \in Nat /\ leg.drawn[k] \in Nat /\ leg.drawn[j] < leg.drawn[k]
        /\ leg.ports[j] = leg.drawn[j] % PortRange /\ leg.ports[k] = leg.drawn[k] % PortRange
    BY <2>3, <2>4 DEF Numbered
  <2>6. leg.drawn[k] - leg.drawn[j] < PortRange
    BY DEF leg
  <2> QED
    BY <2>5, <2>6, CloseNumbers DEF leg
<1> QED
  BY <1>1, <1>2, <1>3, PairedInvariant, PTL DEF Spec
==============================================================================
