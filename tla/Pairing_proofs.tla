--------------------------- MODULE Pairing_proofs ---------------------------
(***************************************************************************)
(* One-time codes work once, and a node lists another only after a pairing *)
(* of the two was accepted, for any number of nodes and any bounds.        *)
(***************************************************************************)
EXTENDS Pairing, TLAPS

------------------------------------------------------------------------------
(* Bags.                                                                   *)

LEMMA BagOfSet ==
    ASSUME NEW S
    PROVE  IsABag(SetToBag(S)) /\ DOMAIN SetToBag(S) = S
BY DEF IsABag, SetToBag

LEMMA BagAdded ==
    ASSUME NEW B, IsABag(B), NEW C, IsABag(C)
    PROVE  IsABag(B (+) C) /\ DOMAIN (B (+) C) = DOMAIN B \cup DOMAIN C
<1>1. \A e \in DOMAIN B : B[e] \in Nat /\ B[e] > 0
  BY DEF IsABag
<1>2. \A e \in DOMAIN C : C[e] \in Nat /\ C[e] > 0
  BY DEF IsABag
<1> QED
  BY <1>1, <1>2 DEF IsABag, (+)

LEMMA BagRemoved ==
    ASSUME NEW B, IsABag(B), NEW C, IsABag(C)
    PROVE  IsABag(B (-) C) /\ DOMAIN (B (-) C) \subseteq DOMAIN B
<1>1. \A e \in DOMAIN B : B[e] \in Nat /\ B[e] > 0
  BY DEF IsABag
<1>2. \A e \in DOMAIN C : C[e] \in Nat /\ C[e] > 0
  BY DEF IsABag
<1> QED
  BY <1>1, <1>2 DEF IsABag, (-)

\* A bag of requests.
Requests(bag) == IsABag(bag) /\ DOMAIN bag \subseteq Post

LEMMA PostAdded ==
    ASSUME NEW bag, Requests(bag), NEW S, S \subseteq Post
    PROVE  Requests(bag (+) SetToBag(S))
<1>1. IsABag(SetToBag(S)) /\ DOMAIN SetToBag(S) = S
  BY BagOfSet
<1>2. IsABag(bag) /\ DOMAIN bag \subseteq Post
  BY DEF Requests
<1>3. /\ IsABag(bag (+) SetToBag(S))
      /\ DOMAIN (bag (+) SetToBag(S)) = DOMAIN bag \cup DOMAIN SetToBag(S)
  BY <1>1, <1>2, BagAdded
<1> QED
  BY <1>1, <1>2, <1>3 DEF Requests

LEMMA PostRemoved ==
    ASSUME NEW bag, Requests(bag), NEW post
    PROVE  Requests(bag (-) Single(post))
BY BagOfSet, BagRemoved DEF Requests, Single

LEMMA Announced ==
    ASSUME NEW bag, Requests(bag), NEW n \in Nodes, home \in [Nodes -> Addrs],
           NEW known \in [Nodes -> Peer \cup {Unknown}], NEW p \in Profile
    PROVE  Requests(bag (+) Announcement(n, known, p))
<1> DEFINE S == {Update(n, m, known[m].addr, p) : m \in {k \in Nodes : known[k] # Unknown}}
<1>1. \A m \in Nodes : known[m] # Unknown => known[m].addr \in Addrs
  BY DEF Peer
<1>2. S \subseteq Post
  BY <1>1 DEF Post, Update, Owners
<1> QED
  BY <1>2, PostAdded DEF Announcement

\* A request whose connection is made only now.
LEMMA Reconnected ==
    ASSUME NEW post \in Post, NEW a \in Addrs, NEW S, S \subseteq Nodes
    PROVE  [post EXCEPT !.at = a, !.hosts = S] \in Post
<1>1. CASE post.kind = "pair"
  BY <1>1 DEF Post
<1>2. CASE post.kind = "update"
  BY <1>2 DEF Post
<1>3. CASE post.kind = "unpair"
  BY <1>3 DEF Post
<1> QED
  BY <1>1, <1>2, <1>3 DEF Post

------------------------------------------------------------------------------
(* Types.                                                                  *)

LEMMA TypeInit == Init => TypeOK
<1> SUFFICES ASSUME Init PROVE TypeOK
  OBVIOUS
<1>1. IsABag(posts) /\ DOMAIN posts \subseteq Post
  BY BagOfSet DEF Init, EmptyBag
<1>2. fresh \in [Nodes -> BOOLEAN]
  BY Zenon DEF Init
<1>3. accepted \in Seq([host: Nodes, guest: Nodes, code: Codes])
  BY DEF Init
<1>4. /\ home \in [Nodes -> Addrs]
      /\ moves \in 0..MaxMoves
      /\ profile \in [Nodes -> Profile]
      /\ stream \in [Nodes -> SUBSET Kinds]
      /\ peers \in [Nodes -> [Nodes -> Peer \cup {Unknown}]]
      /\ code \in [Nodes -> Codes \cup {0}]
      /\ issued \in 0..MaxCodes
      /\ call \in [Nodes -> Call \cup {NoCall}]
  BY PairingAssumption DEF Init, Profile
<1> QED
  BY <1>1, <1>2, <1>3, <1>4 DEF TypeOK

\* The entries made of a pairing or an update.
LEMMA EntryType ==
    ASSUME NEW a \in Addrs, NEW k \in Nat, NEW t \in {"idle", "busy"}, NEW c \in Codes
    PROVE  [addr |-> a, named |-> FALSE, catalog |-> k, telemetry |-> t, by |-> c] \in Peer
<1>1. PICK off \in BOOLEAN : off = FALSE
  OBVIOUS
<1>2. [addr |-> a, named |-> off, catalog |-> k, telemetry |-> t, by |-> c] \in Peer
  BY DEF Peer
<1> QED
  BY <1>1, <1>2

\* Replacing one entry of known_peers.
LEMMA EntryReplaced ==
    ASSUME TypeOK, NEW n \in Nodes, NEW m \in Nodes, NEW entry \in Peer \cup {Unknown}
    PROVE  [peers EXCEPT ![n][m] = entry] \in [Nodes -> [Nodes -> Peer \cup {Unknown}]]
BY DEF TypeOK

LEMMA RepliesType ==
    ASSUME TypeOK, NEW post, post.from \in Nodes, NEW answer \in Answer,
           call' \in Replies(post, answer)
    PROVE  call' \in [Nodes -> Call \cup {NoCall}]
<1> DEFINE c == call[post.from]
           waits == c # NoCall /\ c.to = post.to /\ c.code = post.code /\ c.reply = Waiting
<1>1. \/ call' = call
      \/ waits /\ call' = [call EXCEPT ![post.from].reply = answer]
  BY DEF Replies
<1>2. CASE call' = call
  BY <1>2 DEF TypeOK
<1>3. CASE waits /\ call' = [call EXCEPT ![post.from].reply = answer]
  <2>1. c \in Call
    BY <1>3 DEF TypeOK
  <2>2. [c EXCEPT !.reply = answer] \in Call
    BY <2>1 DEF Call
  <2>3. call' = [call EXCEPT ![post.from] = [c EXCEPT !.reply = answer]]
    BY <1>3
  <2> QED
    BY <2>2, <2>3 DEF TypeOK
<1> QED
  BY <1>1, <1>2, <1>3


\* Type correctness is kept by every step.
LEMMA TypeStep == TypeOK /\ [Next]_vars => TypeOK'
<1> SUFFICES ASSUME TypeOK, [Next]_vars PROVE TypeOK'
  OBVIOUS
<1> USE PairingAssumption
<1>a. Requests(posts)
  BY DEF TypeOK, Requests
<1>b. PICK on \in BOOLEAN : on = TRUE
  OBVIOUS
<1>c. PICK off \in BOOLEAN : off = FALSE
  OBVIOUS
<1>1. ASSUME NEW n \in Nodes, NewCode(n) PROVE TypeOK'
  <2>1. fresh' \in [Nodes -> BOOLEAN]
    <3>1. fresh' = [fresh EXCEPT ![n] = on]
      BY <1>1, <1>b DEF NewCode
    <3> QED
      BY <3>1 DEF TypeOK
  <2>2. issued + 1 \in Codes /\ issued' = issued + 1
    BY <1>1 DEF NewCode, TypeOK, Codes
  <2>3. code' \in [Nodes -> Codes \cup {0}]
    BY <1>1, <2>2 DEF NewCode, TypeOK
  <2> QED
    BY <1>1, <2>1, <2>2, <2>3 DEF NewCode, TypeOK, Codes
<1>2. ASSUME NEW n \in Nodes, NEW p \in Profile,
             profile' = [profile EXCEPT ![n] = p],
             posts' = posts (+) Announcement(n, peers[n], profile'[n])
      PROVE  profile' \in [Nodes -> Profile] /\ Requests(posts')
  <2>1. profile' \in [Nodes -> Profile] /\ profile'[n] \in Profile
    BY <1>2 DEF TypeOK
  <2>2. peers[n] \in [Nodes -> Peer \cup {Unknown}]
    BY DEF TypeOK
  <2> QED
    BY <1>2, <1>a, <2>1, <2>2, Announced DEF TypeOK
<1>3. ASSUME NEW n \in Nodes, SaveProfile(n) PROVE TypeOK'
  <2> DEFINE p == [profile[n] EXCEPT !.catalog = profile[n].catalog + 1]
  <2>1. p \in Profile
    <3>1. profile[n] \in Profile
      BY DEF TypeOK
    <3>2. profile[n].catalog + 1 \in Nat
      BY <3>1 DEF Profile
    <3> QED
      BY <3>1, <3>2 DEF Profile
  <2>2. profile' = [profile EXCEPT ![n] = p]
    BY <1>3 DEF SaveProfile
  <2>3. profile' \in [Nodes -> Profile] /\ Requests(posts')
    BY <1>2, <1>3, <2>1, <2>2 DEF SaveProfile
  <2> QED
    BY <1>3, <2>3 DEF SaveProfile, TypeOK, Requests
<1>4. ASSUME NEW n \in Nodes, NEW t \in {"idle", "busy"}, Tell(n, t),
             stream' \in [Nodes -> SUBSET Kinds]
      PROVE  TypeOK'
  <2> DEFINE p == [profile[n] EXCEPT !.telemetry = t]
  <2>1. p \in Profile
    BY DEF TypeOK, Profile
  <2>2. profile' = [profile EXCEPT ![n] = p]
    BY <1>4 DEF Tell
  <2>3. profile' \in [Nodes -> Profile] /\ Requests(posts')
    BY <1>2, <1>4, <2>1, <2>2 DEF Tell
  <2> QED
    BY <1>4, <2>3 DEF Tell, TypeOK, Requests
<1>5. ASSUME NEW n \in Nodes, NEW kind \in Kinds, StartStream(n, kind) PROVE TypeOK'
  BY <1>4, <1>5 DEF StartStream, TypeOK
<1>6. ASSUME NEW n \in Nodes, NEW kind \in Kinds, EndStream(n, kind) PROVE TypeOK'
  BY <1>6 DEF EndStream, TypeOK
<1>7. ASSUME NEW n \in Nodes, StopAll(n) PROVE TypeOK'
  BY <1>4, <1>7 DEF StopAll, TypeOK
<1>8. ASSUME NEW n \in Nodes, Sync(n) PROVE TypeOK'
  BY <1>4, <1>8 DEF Sync, TypeOK
<1>9. ASSUME NEW n \in Nodes, NEW m \in Nodes, RenamePeer(n, m) PROVE TypeOK'
  <2> DEFINE entry == [peers[n][m] EXCEPT !.named = on]
  <2>1. peers[n][m] \in Peer
    BY <1>9 DEF RenamePeer, Knows, TypeOK
  <2>2. entry \in Peer
    BY <2>1 DEF Peer
  <2>3. peers' = [peers EXCEPT ![n][m] = entry]
    BY <1>9, <1>b DEF RenamePeer
  <2>4. peers' \in [Nodes -> [Nodes -> Peer \cup {Unknown}]]
    BY <2>2, <2>3, EntryReplaced
  <2> QED
    BY <1>9, <2>4 DEF RenamePeer, TypeOK
<1>10. ASSUME NEW n \in Nodes, NEW m \in Nodes, NEW a \in Addrs, SetPeerEndpoint(n, m, a)
       PROVE  TypeOK'
  <2> DEFINE entry == [peers[n][m] EXCEPT !.addr = a]
  <2>1. peers[n][m] \in Peer
    BY <1>10 DEF SetPeerEndpoint, Knows, TypeOK
  <2>2. entry \in Peer
    BY <2>1 DEF Peer
  <2>3. peers' = [peers EXCEPT ![n][m] = entry]
    BY <1>10 DEF SetPeerEndpoint
  <2>4. peers' \in [Nodes -> [Nodes -> Peer \cup {Unknown}]]
    BY <2>2, <2>3, EntryReplaced
  <2> QED
    BY <1>10, <2>4 DEF SetPeerEndpoint, TypeOK
<1>11. ASSUME NEW n \in Nodes, NEW m \in Nodes, RemovePeer(n, m) PROVE TypeOK'
  <2>1. peers[n][m].addr \in Addrs
    BY <1>11 DEF RemovePeer, Knows, TypeOK, Peer
  <2>2. {Unpair(n, peers[n][m].addr)} \subseteq Post
    BY <2>1 DEF Unpair, Post, Owners, TypeOK
  <2>3. Requests(posts')
    BY <1>11, <1>a, <2>2, PostAdded DEF RemovePeer, Single
  <2>4. peers' \in [Nodes -> [Nodes -> Peer \cup {Unknown}]]
    BY <1>11, EntryReplaced DEF RemovePeer
  <2> QED
    BY <1>11, <2>3, <2>4 DEF RemovePeer, TypeOK, Requests
<1>12. ASSUME NEW n \in Nodes, NEW a \in Addrs, NEW c \in Codes, PairRemote(n, a, c)
       PROVE  TypeOK'
  <2>1. {PairRequest(n, a, c)} \subseteq Post
    BY DEF PairRequest, Post, Owners, TypeOK
  <2>2. Requests(posts')
    BY <1>12, <1>a, <2>1, PostAdded DEF PairRemote, Single
  <2>3. [to |-> a, code |-> c, reply |-> Waiting] \in Call
    BY DEF Call, Answer
  <2>4. call' \in [Nodes -> Call \cup {NoCall}]
    BY <1>12, <2>3 DEF PairRemote, TypeOK
  <2> QED
    BY <1>12, <2>2, <2>4 DEF PairRemote, TypeOK, Requests
<1>13. ASSUME NEW n \in Nodes, PairSucceeds(n) PROVE TypeOK'
  <2> DEFINE m == call[n].reply.node
             entry == [addr |-> call[n].to, named |-> FALSE,
                       catalog |-> call[n].reply.catalog,
                       telemetry |-> "idle", by |-> call[n].code]
  <2>1. call[n] \in Call /\ call[n].reply.kind = "accepted"
    BY <1>13 DEF PairSucceeds, Free, TypeOK
  <2>2. m \in Nodes /\ call[n].reply.catalog \in Nat
    BY <2>1 DEF Call, Answer, Waiting, Refused
  <2>3. call[n].to \in Addrs /\ call[n].code \in Codes
    BY <2>1 DEF Call
  <2>4. entry \in Peer
    BY <2>2, <2>3, EntryType
  <2>5. peers' = [peers EXCEPT ![n][m] = entry]
    BY <1>13 DEF PairSucceeds
  <2>6. peers' \in [Nodes -> [Nodes -> Peer \cup {Unknown}]]
    BY <2>2, <2>4, <2>5, EntryReplaced
  <2>7. peers'[n] \in [Nodes -> Peer \cup {Unknown}] /\ profile[n] \in Profile
    BY <2>6 DEF TypeOK
  <2>8. Requests(posts')
    BY <1>13, <1>a, <2>7, Announced DEF PairSucceeds, TypeOK
  <2>9. call' \in [Nodes -> Call \cup {NoCall}]
    BY <1>13 DEF PairSucceeds, TypeOK
  <2> QED
    BY <1>13, <2>6, <2>8, <2>9 DEF PairSucceeds, TypeOK, Requests
<1>14. ASSUME NEW n \in Nodes, PairFails(n) PROVE TypeOK'
  BY <1>14 DEF PairFails, TypeOK
<1>15. ASSUME NEW n \in Nodes, Expire(n) PROVE TypeOK'
  <2>1. fresh' = [fresh EXCEPT ![n] = off]
    BY <1>15, <1>c DEF Expire
  <2> QED
    BY <1>15, <2>1 DEF Expire, TypeOK
<1>16. ASSUME NEW n \in Nodes, Restart(n) PROVE TypeOK'
  <2>1. fresh' = [fresh EXCEPT ![n] = off]
    BY <1>16, <1>c DEF Restart
  <2> QED
    BY <1>16, <2>1 DEF Restart, TypeOK
<1>17. ASSUME NEW n \in Nodes, NEW a \in Addrs, Move(n, a) PROVE TypeOK'
  BY <1>17 DEF Move, TypeOK
<1>18. ASSUME NEW post \in BagToSet(posts)
       PROVE  /\ post \in Post
              /\ post.from \in Nodes /\ post.at \in Addrs
              /\ post.kind = "pair" => post.code \in Codes
              /\ post.kind = "update" => post.profile \in Profile
  BY DEF TypeOK, BagToSet, Post
<1>19. ASSUME NEW post \in BagToSet(posts), posts' = posts (-) Single(post)
       PROVE  Requests(posts')
  BY <1>a, <1>19, PostRemoved
<1>20. ASSUME NEW post \in BagToSet(posts), NEW m \in Nodes, HandlePair(m, post)
       PROVE  TypeOK'
  <2>1. post.from \in Nodes /\ post.at \in Addrs /\ post.code \in Codes /\ Requests(posts')
    BY <1>18, <1>19, <1>20 DEF HandlePair
  <2>2. CASE ~Valid(m, post.code)
    <3>1. call' \in Replies(post, Refused) /\ Refused \in Answer
      BY <1>20, <2>2 DEF HandlePair, Answer
    <3>2. call' \in [Nodes -> Call \cup {NoCall}]
      BY <2>1, <3>1, RepliesType
    <3> QED
      BY <1>20, <2>1, <2>2, <3>2 DEF HandlePair, TypeOK, Requests
  <2>3. CASE Valid(m, post.code)
    <3> DEFINE answer == [kind |-> "accepted", node |-> m, catalog |-> profile[m].catalog]
               entry == [addr |-> post.at, named |-> FALSE, catalog |-> 0,
                         telemetry |-> "idle", by |-> post.code]
               pairing == [host |-> m, guest |-> post.from, code |-> post.code]
    <3>1. answer \in Answer
      BY DEF Answer, TypeOK, Profile
    <3>2. call' \in Replies(post, answer)
      BY <1>20, <2>3 DEF HandlePair
    <3>3. call' \in [Nodes -> Call \cup {NoCall}]
      BY <2>1, <3>1, <3>2, RepliesType
    <3>4. entry \in Peer
      BY <2>1, EntryType DEF TypeOK
    <3>5. peers' = [peers EXCEPT ![m][post.from] = entry]
      BY <1>20, <2>3 DEF HandlePair
    <3>6. peers' \in [Nodes -> [Nodes -> Peer \cup {Unknown}]]
      BY <2>1, <3>4, <3>5, EntryReplaced
    <3>7. pairing \in [host: Nodes, guest: Nodes, code: Codes]
      BY <2>1
    <3>8. accepted' = Append(accepted, pairing)
      BY <1>20, <2>3 DEF HandlePair
    <3>9. accepted' \in Seq([host: Nodes, guest: Nodes, code: Codes])
      BY <3>7, <3>8 DEF TypeOK
    <3>10. code' \in [Nodes -> Codes \cup {0}]
      BY <1>20, <2>3 DEF HandlePair, Spent, TypeOK
    <3> QED
      BY <1>20, <2>1, <3>3, <3>6, <3>9, <3>10 DEF HandlePair, TypeOK, Requests
  <2> QED
    BY <2>2, <2>3
<1>21. ASSUME NEW post \in BagToSet(posts), NEW m \in Nodes, HandleUpdate(m, post)
       PROVE  TypeOK'
  <2>1. post.from \in Nodes /\ post.at \in Addrs /\ post.profile \in Profile /\ Requests(posts')
    BY <1>18, <1>19, <1>21 DEF HandleUpdate
  <2>2. Updated(m, post) \in Peer \cup {Unknown}
    <3>1. CASE Knows(m, post.from)
      <4>1. peers[m][post.from].by \in Codes
        BY <2>1, <3>1 DEF Knows, TypeOK, Peer
      <4>2. post.profile.catalog \in Nat /\ post.profile.telemetry \in {"idle", "busy"}
        BY <2>1 DEF Profile
      <4> QED
        BY <2>1, <3>1, <4>1, <4>2, EntryType DEF Updated
    <3>2. CASE ~Knows(m, post.from)
      BY <3>2 DEF Updated
    <3> QED
      BY <3>1, <3>2
  <2>3. peers' \in [Nodes -> [Nodes -> Peer \cup {Unknown}]]
    BY <1>21, <2>1, <2>2, EntryReplaced DEF HandleUpdate
  <2> QED
    BY <1>21, <2>1, <2>3 DEF HandleUpdate, TypeOK, Requests
<1>22. ASSUME NEW post \in BagToSet(posts), NEW m \in Nodes, HandleUnpair(m, post)
       PROVE  TypeOK'
  <2>1. post.from \in Nodes /\ Requests(posts')
    BY <1>18, <1>19, <1>22 DEF HandleUnpair
  <2>2. peers' \in [Nodes -> [Nodes -> Peer \cup {Unknown}]]
    BY <1>22, <2>1, EntryReplaced DEF HandleUnpair
  <2> QED
    BY <1>22, <2>1, <2>2 DEF HandleUnpair, TypeOK, Requests
<1>23. ASSUME NEW post \in BagToSet(posts), Lose(post) PROVE TypeOK'
  <2>1. post.from \in Nodes /\ Requests(posts')
    BY <1>18, <1>19, <1>23 DEF Lose
  <2>2. call' \in [Nodes -> Call \cup {NoCall}]
    <3>1. CASE post.kind = "pair"
      <4>1. call' \in Replies(post, Refused) /\ Refused \in Answer
        BY <1>23, <3>1 DEF Lose, Answer
      <4> QED
        BY <2>1, <4>1, RepliesType
    <3>2. CASE post.kind # "pair"
      BY <1>23, <3>2 DEF Lose, TypeOK
    <3> QED
      BY <3>1, <3>2
  <2> QED
    BY <1>23, <2>1, <2>2 DEF Lose, TypeOK, Requests
<1>24. ASSUME NEW post \in BagToSet(posts), Late(post) PROVE TypeOK'
  <2> DEFINE late == [post EXCEPT !.at = home[post.from], !.hosts = Owners(post.to)]
  <2>1. post \in Post /\ post.from \in Nodes
    BY <1>a, <1>18 DEF Requests, BagToSet
  <2>2. home[post.from] \in Addrs /\ Owners(post.to) \subseteq Nodes
    BY <2>1 DEF TypeOK, Owners
  <2>3. late \in Post
    BY <2>1, <2>2, Reconnected
  <2>4. posts' = (posts (-) Single(post)) (+) SetToBag({late})
    BY <1>24 DEF Late, Single
  <2> HIDE DEF late
  <2>5. Requests(posts (-) Single(post))
    BY <1>a, PostRemoved
  <2>6. Requests((posts (-) Single(post)) (+) SetToBag({late}))
    BY <2>3, <2>5, PostAdded
  <2> QED
    BY <1>24, <2>4, <2>6 DEF Late, TypeOK, Requests
<1>25. CASE UNCHANGED vars
  BY <1>25 DEF vars, TypeOK
<1> QED
  BY <1>1, <1>3, <1>5, <1>6, <1>7, <1>8, <1>9, <1>10, <1>11, <1>12, <1>13, <1>14, <1>15,
     <1>16, <1>17, <1>20, <1>21, <1>22, <1>23, <1>24, <1>25
     DEF Next, WebThread, Worker

------------------------------------------------------------------------------
(* The inductive invariant.  A code in force was drawn, is in force at one *)
(* node only and has not been used: that is what keeps a second acceptance *)
(* out.  A reply on its way to pair_remote says what was accepted.         *)

CodesUnused ==
    /\ \A i \in DOMAIN accepted : accepted[i].code <= issued
    /\ \A n \in Nodes : code[n] # 0 =>
          /\ code[n] <= issued
          /\ \A i \in DOMAIN accepted : accepted[i].code # code[n]
          /\ \A m \in Nodes : m # n => code[m] # code[n]

AnswersAuthorised ==
    \A n \in Nodes : ~Free(n) /\ call[n].reply.kind = "accepted" =>
        \E i \in DOMAIN accepted : Joins(accepted[i], n, call[n].reply.node, call[n].code)

IInv == TypeOK /\ CodesUnused /\ OneUse /\ Authorised /\ AnswersAuthorised

LEMMA InvInit == Init => IInv
<1> SUFFICES ASSUME Init PROVE IInv
  OBVIOUS
<1>1. TypeOK
  BY TypeInit
<1>2. accepted = << >> /\ DOMAIN accepted = {}
  BY DEF Init
<1>3. \A n \in Nodes : code[n] = 0 /\ Free(n)
  BY DEF Init, Free
<1>4. \A n, m \in Nodes : ~Knows(n, m)
  BY DEF Init, Knows
<1> QED
  BY <1>1, <1>2, <1>3, <1>4 DEF IInv, CodesUnused, OneUse, Authorised, AnswersAuthorised

\* Steps that accept nothing, draw no code and put none in force.
CodesFade ==
    /\ accepted' = accepted
    /\ issued' = issued
    /\ \A n \in Nodes : code'[n] \in {code[n], 0}

LEMMA CodesStep == TypeOK /\ CodesUnused /\ OneUse /\ CodesFade => CodesUnused' /\ OneUse'
BY DEF CodesFade, CodesUnused, OneUse

\* Steps that neither make an entry nor bring a reply.
EntriesFade ==
    /\ accepted' = accepted
    /\ \A n, m \in Nodes : Knows(n, m)' => Knows(n, m) /\ peers'[n][m].by = peers[n][m].by
    /\ \A n \in Nodes : ~Free(n)' /\ (call[n].reply.kind = "accepted")' =>
          ~Free(n) /\ call'[n] = call[n]

LEMMA EntriesStep ==
    Authorised /\ AnswersAuthorised /\ EntriesFade => Authorised' /\ AnswersAuthorised'
BY DEF EntriesFade, Authorised, AnswersAuthorised

LEMMA Quiet == IInv /\ TypeOK' /\ CodesFade /\ EntriesFade => IInv'
BY CodesStep, EntriesStep DEF IInv

\* Replacing one entry by one with the same authorisation, or removing it.
LEMMA EntryFades ==
    ASSUME TypeOK, NEW n \in Nodes, NEW m \in Nodes, NEW entry,
           entry # Unknown => Knows(n, m) /\ entry.by = peers[n][m].by,
           peers' = [peers EXCEPT ![n][m] = entry]
    PROVE  \A k, l \in Nodes :
              Knows(k, l)' => Knows(k, l) /\ peers'[k][l].by = peers[k][l].by
BY DEF TypeOK, Knows

\* Whoever is answered was waiting, and its call now holds the answer.
LEMMA AnsweredReply ==
    ASSUME TypeOK, NEW post, NEW answer \in Answer, call' \in Replies(post, answer),
           NEW n \in Nodes, call'[n] # call[n]
    PROVE  /\ n = post.from
           /\ call[n] # NoCall
           /\ call[n].code = post.code
           /\ call'[n].code = call[n].code
           /\ call'[n].reply = answer
<1> DEFINE c == call[post.from]
           waits == c # NoCall /\ c.to = post.to /\ c.code = post.code /\ c.reply = Waiting
           d == [c EXCEPT !.reply = answer]
<1>1. waits /\ call' = [call EXCEPT ![post.from].reply = answer]
  BY DEF Replies
<1>2. call' = [call EXCEPT ![post.from] = d]
  BY <1>1
<1>3. n = post.from /\ call'[n] = d
  <2> HIDE DEF d
  <2> QED
    BY <1>2 DEF TypeOK
<1>4. c \in Call
  BY <1>1, <1>3 DEF TypeOK
<1>5. d.code = c.code /\ d.reply = answer
  BY <1>4 DEF Call
<1> QED
  BY <1>1, <1>3, <1>5

\* Answering Refused, or nobody.
LEMMA RefusalFades ==
    ASSUME TypeOK, NEW post, call' \in Replies(post, Refused)
    PROVE  \A n \in Nodes : ~Free(n)' /\ (call[n].reply.kind = "accepted")' =>
              ~Free(n) /\ call'[n] = call[n]
<1>1. ASSUME NEW n \in Nodes, call'[n] # call[n]
      PROVE  call'[n].reply = Refused
  BY <1>1, AnsweredReply DEF Refused, Answer
<1> QED
  BY <1>1 DEF Free, Refused

LEMMA InvStep == IInv /\ [Next]_vars => IInv'
<1> SUFFICES ASSUME IInv, [Next]_vars PROVE IInv'
  OBVIOUS
<1> USE PairingAssumption
<1>a. TypeOK /\ TypeOK'
  BY TypeStep DEF IInv
<1>b. CodesUnused /\ OneUse /\ Authorised /\ AnswersAuthorised
  BY DEF IInv
<1>c. ASSUME code' = code, issued' = issued, accepted' = accepted PROVE CodesFade
  BY <1>c DEF CodesFade
<1>d. ASSUME peers' = peers, call' = call, accepted' = accepted PROVE EntriesFade
  BY <1>d DEF EntriesFade, Knows, Free
<1>1. ASSUME NEW n \in Nodes, NewCode(n) PROVE IInv'
  <2>1. EntriesFade
    BY <1>1, <1>d DEF NewCode
  <2>2. accepted' = accepted /\ issued' = issued + 1 /\ code' = [code EXCEPT ![n] = issued + 1]
    BY <1>1 DEF NewCode
  <2>3. issued \in Nat
    BY <1>a DEF TypeOK
  <2>codes. ASSUME NEW i \in DOMAIN accepted PROVE accepted[i].code \in Nat
    <3> DEFINE S == [host: Nodes, guest: Nodes, code: Codes]
    <3>1. accepted \in Seq(S)
      BY <1>a DEF TypeOK
    <3>2. \A pairing \in S : pairing.code \in Nat
      BY DEF Codes
    <3> HIDE DEF S
    <3>3. accepted[i] \in S
      BY <3>1
    <3> QED
      BY <3>2, <3>3
  <2>4. \A m \in Nodes : code[m] \in Nat /\ code[m] <= issued
    BY <1>a, <1>b, <2>3 DEF TypeOK, Codes, CodesUnused
  <2>5. CodesUnused'
    <3>1. code'[n] = issued + 1 /\ \A m \in Nodes : m # n => code'[m] = code[m]
      BY <1>a, <2>2 DEF TypeOK
    <3>2. \A i \in DOMAIN accepted : accepted[i].code <= issued
      BY <1>b DEF CodesUnused
    <3> QED
      BY <1>b, <2>2, <2>3, <2>4, <2>codes, <3>1, <3>2 DEF CodesUnused
  <2>6. OneUse'
    BY <1>b, <2>2 DEF OneUse
  <2> QED
    BY <1>a, <1>b, <2>1, <2>5, <2>6, EntriesStep DEF IInv
<1>2. ASSUME NEW n \in Nodes, SaveProfile(n) PROVE IInv'
  BY <1>2, <1>a, <1>c, <1>d, Quiet DEF SaveProfile
<1>3. ASSUME NEW n \in Nodes, NEW kind \in Kinds,
             StartStream(n, kind) \/ EndStream(n, kind)
      PROVE  IInv'
  BY <1>3, <1>a, <1>c, <1>d, Quiet DEF StartStream, EndStream, Tell
<1>4. ASSUME NEW n \in Nodes, StopAll(n) \/ Sync(n) PROVE IInv'
  BY <1>4, <1>a, <1>c, <1>d, Quiet DEF StopAll, Sync, Tell
<1>5. ASSUME NEW n \in Nodes, NEW m \in Nodes, RenamePeer(n, m) PROVE IInv'
  <2> DEFINE entry == [peers[n][m] EXCEPT !.named = TRUE]
  <2>1. peers' = [peers EXCEPT ![n][m] = entry] /\ call' = call /\ accepted' = accepted
    BY <1>5 DEF RenamePeer
  <2>2. peers[n][m] \in Peer /\ Knows(n, m)
    BY <1>5, <1>a DEF RenamePeer, Knows, TypeOK
  <2>3. entry.by = peers[n][m].by
    BY <2>2 DEF Peer
  <2> HIDE DEF entry
  <2>4. EntriesFade
    BY <1>a, <2>1, <2>2, <2>3, EntryFades DEF EntriesFade, Free
  <2> QED
    BY <1>5, <1>a, <1>c, <2>4, Quiet DEF RenamePeer
<1>6. ASSUME NEW n \in Nodes, NEW m \in Nodes, NEW a \in Addrs, SetPeerEndpoint(n, m, a)
      PROVE  IInv'
  <2> DEFINE entry == [peers[n][m] EXCEPT !.addr = a]
  <2>1. peers' = [peers EXCEPT ![n][m] = entry] /\ call' = call /\ accepted' = accepted
    BY <1>6 DEF SetPeerEndpoint
  <2>2. peers[n][m] \in Peer /\ Knows(n, m)
    BY <1>6, <1>a DEF SetPeerEndpoint, Knows, TypeOK
  <2>3. entry.by = peers[n][m].by
    BY <2>2 DEF Peer
  <2> HIDE DEF entry
  <2>4. EntriesFade
    BY <1>a, <2>1, <2>2, <2>3, EntryFades DEF EntriesFade, Free
  <2> QED
    BY <1>6, <1>a, <1>c, <2>4, Quiet DEF SetPeerEndpoint
<1>7. ASSUME NEW n \in Nodes, NEW m \in Nodes, RemovePeer(n, m) PROVE IInv'
  <2>1. EntriesFade
    BY <1>7, <1>a, EntryFades DEF RemovePeer, EntriesFade, Free
  <2> QED
    BY <1>7, <1>a, <1>c, <2>1, Quiet DEF RemovePeer
<1>8. ASSUME NEW n \in Nodes, NEW a \in Addrs, NEW c \in Codes, PairRemote(n, a, c)
      PROVE  IInv'
  <2> DEFINE started == [to |-> a, code |-> c, reply |-> Waiting]
  <2>1. call' = [call EXCEPT ![n] = started]
    BY <1>8 DEF PairRemote
  <2>2. started.reply.kind # "accepted"
    BY DEF Waiting
  <2> HIDE DEF started
  <2>3. \A m \in Nodes : m # n => call'[m] = call[m]
    BY <2>1, <1>a DEF TypeOK
  <2>4. call'[n] = started
    BY <2>1, <1>a DEF TypeOK
  <2>5. peers' = peers /\ accepted' = accepted
    BY <1>8 DEF PairRemote
  <2>6. EntriesFade
    BY <2>2, <2>3, <2>4, <2>5 DEF EntriesFade, Knows, Free
  <2> QED
    BY <1>8, <1>a, <1>c, <2>6, Quiet DEF PairRemote
<1>9. ASSUME NEW n \in Nodes, PairSucceeds(n) PROVE IInv'
  <2> DEFINE m == call[n].reply.node
             entry == [addr |-> call[n].to, named |-> FALSE,
                       catalog |-> call[n].reply.catalog,
                       telemetry |-> "idle", by |-> call[n].code]
  <2>1. /\ ~Free(n) /\ call[n].reply.kind = "accepted"
        /\ peers' = [peers EXCEPT ![n][m] = entry]
        /\ accepted' = accepted
        /\ call' = [call EXCEPT ![n] = NoCall]
    BY <1>9 DEF PairSucceeds
  <2>2. \E i \in DOMAIN accepted : Joins(accepted[i], n, m, call[n].code)
    BY <1>b, <2>1 DEF AnswersAuthorised
  <2>3. entry.by = call[n].code
    OBVIOUS
  <2> HIDE DEF entry, m
  <2>4. \A k, l \in Nodes : Knows(k, l)' =>
           \/ k = n /\ l = m /\ peers'[k][l].by = call[n].code
           \/ Knows(k, l) /\ peers'[k][l].by = peers[k][l].by
    BY <1>a, <2>1, <2>3 DEF TypeOK, Knows
  <2>5. Authorised'
    BY <1>b, <2>1, <2>2, <2>4 DEF Authorised
  <2>6. AnswersAuthorised'
    BY <1>a, <1>b, <2>1 DEF AnswersAuthorised, Free, TypeOK
  <2>7. CodesUnused' /\ OneUse'
    BY <1>9, <1>a, <1>b, <1>c, CodesStep DEF PairSucceeds
  <2> QED
    BY <1>a, <2>5, <2>6, <2>7 DEF IInv
<1>10. ASSUME NEW n \in Nodes, call' = [call EXCEPT ![n] = NoCall],
              peers' = peers, accepted' = accepted
       PROVE  EntriesFade
  BY <1>10, <1>a DEF EntriesFade, Knows, Free, TypeOK
<1>11. ASSUME NEW n \in Nodes, PairFails(n) PROVE IInv'
  <2>1. EntriesFade
    BY <1>10, <1>11 DEF PairFails
  <2> QED
    BY <1>11, <1>a, <1>c, <2>1, Quiet DEF PairFails
<1>12. ASSUME NEW n \in Nodes, Expire(n) PROVE IInv'
  BY <1>12, <1>a, <1>c, <1>d, Quiet DEF Expire
<1>13. ASSUME NEW n \in Nodes, Restart(n) PROVE IInv'
  <2>1. EntriesFade
    BY <1>10, <1>13 DEF Restart
  <2>2. CodesFade
    BY <1>13, <1>a DEF Restart, CodesFade, TypeOK
  <2> QED
    BY <1>a, <2>1, <2>2, Quiet
<1>14. ASSUME NEW n \in Nodes, NEW a \in Addrs, Move(n, a) PROVE IInv'
  BY <1>14, <1>a, <1>c, <1>d, Quiet DEF Move
<1>15. ASSUME NEW post \in BagToSet(posts)
       PROVE  /\ post.from \in Nodes
              /\ post.kind = "pair" => post.code \in Codes
  BY <1>a DEF TypeOK, BagToSet, Post
<1>16. ASSUME NEW post \in BagToSet(posts), call' \in Replies(post, Refused),
              peers' = peers, accepted' = accepted
       PROVE  EntriesFade
  BY <1>16, <1>a, RefusalFades DEF EntriesFade, Knows
<1>17. ASSUME NEW post \in BagToSet(posts), NEW m \in Nodes, HandlePair(m, post) PROVE IInv'
  <2>1. post.from \in Nodes /\ post.code \in Codes
    BY <1>15, <1>17 DEF HandlePair
  <2>2. CASE ~Valid(m, post.code)
    <3>1. EntriesFade
      BY <1>16, <1>17, <2>2 DEF HandlePair
    <3>2. CodesFade
      BY <1>17, <2>2, <1>c DEF HandlePair
    <3> QED
      BY <1>a, <3>1, <3>2, Quiet
  <2>3. CASE Valid(m, post.code)
    <3> DEFINE answer == [kind |-> "accepted", node |-> m, catalog |-> profile[m].catalog]
               entry == [addr |-> post.at, named |-> FALSE, catalog |-> 0,
                         telemetry |-> "idle", by |-> post.code]
               pairing == [host |-> m, guest |-> post.from, code |-> post.code]
    <3>1. /\ peers' = [peers EXCEPT ![m][post.from] = entry]
          /\ accepted' = Append(accepted, pairing)
          /\ call' \in Replies(post, answer)
          /\ code' = [code EXCEPT ![m] = 0]
          /\ issued' = issued
      BY <1>17, <2>3 DEF HandlePair, Spent
    <3>2. code[m] = post.code
      BY <2>3 DEF Valid
    <3>3. answer \in Answer
      BY <1>a DEF Answer, TypeOK, Profile
    <3>4. /\ entry.by = post.code /\ pairing.code = post.code
          /\ Joins(pairing, m, post.from, post.code)
          /\ Joins(pairing, post.from, m, post.code)
          /\ answer.node = m
      BY DEF Joins
    <3> HIDE DEF answer, entry, pairing
    <3>5. PICK last \in Nat : last = Len(accepted) + 1
      BY <1>a DEF TypeOK
    <3>6. /\ DOMAIN accepted' = DOMAIN accepted \cup {last}
          /\ last \notin DOMAIN accepted
          /\ accepted'[last] = pairing
          /\ \A i \in DOMAIN accepted : accepted'[i] = accepted[i]
      BY <1>a, <3>1, <3>5 DEF TypeOK
    <3>7. \A i \in DOMAIN accepted : accepted[i].code # post.code
      BY <1>b, <2>1, <3>2 DEF CodesUnused, Codes
    <3>8. OneUse'
      BY <1>b, <3>4, <3>6, <3>7 DEF OneUse
    <3>9. code'[m] = 0 /\ \A k \in Nodes : k # m => code'[k] = code[k]
      BY <1>a, <3>1 DEF TypeOK
    <3>10. CodesUnused'
      <4>1. \A i \in DOMAIN accepted' : accepted'[i].code <= issued'
        BY <1>b, <2>1, <3>1, <3>2, <3>4, <3>6 DEF CodesUnused, Codes
      <4>2. ASSUME NEW k \in Nodes, code'[k] # 0
            PROVE  /\ code'[k] <= issued'
                   /\ \A i \in DOMAIN accepted' : accepted'[i].code # code'[k]
                   /\ \A l \in Nodes : l # k => code'[l] # code'[k]
        <5>1. k # m /\ code'[k] = code[k]
          BY <3>9, <4>2
        <5>2. /\ code[k] <= issued /\ code[k] # code[m]
              /\ \A i \in DOMAIN accepted : accepted[i].code # code[k]
              /\ \A l \in Nodes : l # k => code[l] # code[k]
          BY <1>b, <4>2, <5>1 DEF CodesUnused
        <5> QED
          BY <3>1, <3>2, <3>4, <3>6, <3>9, <4>2, <5>1, <5>2
      <4> QED
        BY <4>1, <4>2 DEF CodesUnused
    <3>11. Authorised'
      <4>1. \A k, l \in Nodes : Knows(k, l)' =>
               \/ k = m /\ l = post.from /\ peers'[k][l].by = post.code
               \/ Knows(k, l) /\ peers'[k][l].by = peers[k][l].by
        BY <1>a, <2>1, <3>1, <3>4 DEF TypeOK, Knows
      <4> QED
        BY <1>b, <3>4, <3>6, <4>1 DEF Authorised
    <3>12. AnswersAuthorised'
      <4>1. \A k \in Nodes : call'[k] # call[k] =>
               k = post.from /\ call'[k].code = post.code /\ call'[k].reply = answer
        BY <1>a, <3>1, <3>3, AnsweredReply
      <4> QED
        BY <1>b, <3>4, <3>6, <4>1 DEF AnswersAuthorised, Free
    <3> QED
      BY <1>a, <3>8, <3>10, <3>11, <3>12 DEF IInv
  <2> QED
    BY <2>2, <2>3
<1>18. ASSUME NEW post \in BagToSet(posts), NEW m \in Nodes, HandleUpdate(m, post) PROVE IInv'
  <2>1. Updated(m, post) # Unknown =>
           Knows(m, post.from) /\ Updated(m, post).by = peers[m][post.from].by
    BY DEF Updated
  <2>2. EntriesFade
    BY <1>15, <1>18, <1>a, <2>1, EntryFades DEF HandleUpdate, EntriesFade, Free
  <2> QED
    BY <1>18, <1>a, <1>c, <2>2, Quiet DEF HandleUpdate
<1>19. ASSUME NEW post \in BagToSet(posts), NEW m \in Nodes, HandleUnpair(m, post) PROVE IInv'
  <2>1. EntriesFade
    BY <1>15, <1>19, <1>a, EntryFades DEF HandleUnpair, EntriesFade, Free
  <2> QED
    BY <1>19, <1>a, <1>c, <2>1, Quiet DEF HandleUnpair
<1>20. ASSUME NEW post \in BagToSet(posts), Lose(post) PROVE IInv'
  <2>1. EntriesFade
    BY <1>16, <1>20, <1>d DEF Lose
  <2> QED
    BY <1>20, <1>a, <1>c, <2>1, Quiet DEF Lose
<1>21. ASSUME NEW post \in BagToSet(posts), Late(post) PROVE IInv'
  BY <1>21, <1>a, <1>c, <1>d, Quiet DEF Late
<1>22. CASE UNCHANGED vars
  BY <1>22, <1>a, <1>c, <1>d, Quiet DEF vars
<1> QED
  BY <1>1, <1>2, <1>3, <1>4, <1>5, <1>6, <1>7, <1>8, <1>9, <1>11, <1>12, <1>13, <1>14,
     <1>17, <1>18, <1>19, <1>20, <1>21, <1>22
     DEF Next, WebThread, Worker

\* Reachable states are well typed, and the strengthening holds in them.
THEOREM Types == Spec => []TypeOK
<1>1. Init => TypeOK
  BY TypeInit
<1>2. TypeOK /\ [Next]_vars => TypeOK'
  BY TypeStep
<1> QED
  BY <1>1, <1>2, PTL DEF Spec

LEMMA Inductive == Spec => []IInv
BY InvInit, InvStep, PTL DEF Spec

\* A one-time code admits one node, for any number of nodes, addresses and codes
\* and whatever is lost, delayed or restarted.
THEOREM CodesWorkOnce == Spec => []OneUse
<1>1. IInv => OneUse
  BY DEF IInv
<1> QED
  BY <1>1, Inductive, PTL

\* Every entry of known_peers rests on a pairing of those two nodes that one of
\* them accepted with the code the entry was made with.
THEOREM EntriesAuthorised == Spec => []Authorised
<1>1. IInv => Authorised
  BY DEF IInv
<1> QED
  BY <1>1, Inductive, PTL
\* A peer is listed after the step only if it was before.
NobodyAppears == \A k, l \in Nodes : Knows(k, l)' => Knows(k, l)

\* Nobody appears when one entry is rewritten for a peer that was listed, or
\* taken out.
LEMMA NobodyAppearsBy ==
    ASSUME TypeOK, NEW n \in Nodes, NEW m \in Nodes, NEW entry,
           entry # Unknown => Knows(n, m),
           peers' = [peers EXCEPT ![n][m] = entry]
    PROVE  NobodyAppears
BY DEF TypeOK, Knows, NobodyAppears

\* An accepted request makes one entry, and spends the code of its host.
LEMMA PairAdmits ==
    ASSUME TypeOK, NEW h \in Nodes, NEW post, post.from \in Nodes, HandlePair(h, post),
           NEW n \in Nodes, NEW m \in Nodes, ~Knows(n, m), Knows(n, m)'
    PROVE  code[n] # 0 /\ code'[n] = 0
<1>1. peers' # peers
  BY DEF Knows
<1>2. /\ Valid(h, post.code)
      /\ code' = Spent(h)
      /\ \E entry : peers' = [peers EXCEPT ![h][post.from] = entry]
  BY <1>1 DEF HandlePair
<1>3. n = h
  BY <1>2 DEF TypeOK, Knows
<1> QED
  BY <1>2, <1>3 DEF Valid, Spent, TypeOK

\* The other steps that write a peer list only rewrite or clear an entry that is
\* there; no other step writes one.
LEMMA NobodyAppearsElsewhere ==
    ASSUME TypeOK, [Next]_vars,
           \A n \in Nodes : ~PairSucceeds(n),
           \A h \in Nodes, post \in BagToSet(posts) : ~HandlePair(h, post)
    PROVE  NobodyAppears
<1>0. ASSUME peers' = peers PROVE NobodyAppears
  BY <1>0 DEF NobodyAppears, Knows
<1>1. ASSUME NEW n \in Nodes, NEW m \in Nodes, NEW a \in Addrs,
             \/ RenamePeer(n, m) \/ RemovePeer(n, m) \/ SetPeerEndpoint(n, m, a)
      PROVE  NobodyAppears
  <2>1. CASE RenamePeer(n, m)
    <3>1. /\ Knows(n, m)
          /\ peers' = [peers EXCEPT ![n][m] = [peers[n][m] EXCEPT !.named = TRUE]]
      BY <2>1 DEF RenamePeer
    <3> QED
      BY <3>1, NobodyAppearsBy
  <2>2. CASE SetPeerEndpoint(n, m, a)
    <3>1. /\ Knows(n, m)
          /\ peers' = [peers EXCEPT ![n][m] = [peers[n][m] EXCEPT !.addr = a]]
      BY <2>2 DEF SetPeerEndpoint
    <3> QED
      BY <3>1, NobodyAppearsBy
  <2>3. CASE RemovePeer(n, m)
    BY <2>3, NobodyAppearsBy DEF RemovePeer
  <2> QED
    BY <1>1, <2>1, <2>2, <2>3
<1>2. ASSUME NEW n \in Nodes, WebThread(n) PROVE NobodyAppears
  <2>1. CASE \E m \in Nodes : \/ RenamePeer(n, m) \/ RemovePeer(n, m)
                             \/ \E a \in Addrs : SetPeerEndpoint(n, m, a)
    <3>1. PICK a \in Addrs : TRUE
      BY DEF TypeOK
    <3> QED
      BY <1>1, <2>1, <3>1
  <2>2. CASE NewCode(n) \/ SaveProfile(n) \/ PairFails(n)
    BY <1>0, <2>2 DEF NewCode, SaveProfile, PairFails
  <2>3. CASE \/ StopAll(n) \/ Sync(n)
             \/ \E kind \in Kinds : StartStream(n, kind) \/ EndStream(n, kind)
    BY <1>0, <2>3 DEF StopAll, Sync, StartStream, EndStream, Tell
  <2>4. CASE \E a \in Addrs, c \in Codes : PairRemote(n, a, c)
    BY <1>0, <2>4 DEF PairRemote
  <2> QED
    BY <1>2, <2>1, <2>2, <2>3, <2>4 DEF WebThread
<1>3. ASSUME NEW h \in Nodes, NEW post \in BagToSet(posts), Worker(h, post)
      PROVE  NobodyAppears
  <2>1. post \in Post
    BY DEF TypeOK, BagToSet
  <2>2. post.from \in Nodes
    BY <2>1 DEF Post
  <2>3. CASE HandleUpdate(h, post)
    <3>1. peers' = [peers EXCEPT ![h][post.from] = Updated(h, post)]
      BY <2>3 DEF HandleUpdate
    <3>2. Updated(h, post) # Unknown => Knows(h, post.from)
      BY DEF Updated
    <3> HIDE DEF Updated
    <3> QED
      BY <2>2, <3>1, <3>2, NobodyAppearsBy
  <2>4. CASE HandleUnpair(h, post)
    BY <2>2, <2>4, NobodyAppearsBy DEF HandleUnpair
  <2> QED
    BY <1>3, <2>3, <2>4 DEF Worker
<1>4. ASSUME NEW post \in BagToSet(posts), Lose(post) \/ Late(post) PROVE NobodyAppears
  BY <1>0, <1>4 DEF Lose, Late
<1>5. ASSUME NEW n \in Nodes, \/ Expire(n) \/ Restart(n)
                              \/ \E a \in Addrs : Move(n, a)
      PROVE  NobodyAppears
  BY <1>0, <1>5 DEF Expire, Restart, Move
<1>6. CASE UNCHANGED vars
  BY <1>0, <1>6 DEF vars
<1> QED
  BY <1>2, <1>3, <1>4, <1>5, <1>6 DEF Next

\* Forgetting a peer is final until the node itself pairs again: of all that may
\* arrive late, only a request with the node's own valid code (handle_request's
\* /pair) or the answer its own pair_remote waits for lists anybody.
THEOREM ForgottenStaysForgotten == Spec => NoReturnWithoutPairing
<1> DEFINE Step == \A n, m \in Nodes : ~Knows(n, m) /\ Knows(n, m)' =>
                      \/ code[n] # 0 /\ code'[n] = 0
                      \/ ~Free(n) /\ Free(n)'
<1>1. TypeOK /\ [Next]_vars => [Step]_vars
  <2> SUFFICES ASSUME TypeOK, [Next]_vars,
                      NEW n \in Nodes, NEW m \in Nodes, ~Knows(n, m), Knows(n, m)'
               PROVE  \/ code[n] # 0 /\ code'[n] = 0
                      \/ ~Free(n) /\ Free(n)'
    OBVIOUS
  <2>1. ASSUME NEW k \in Nodes, PairSucceeds(k) PROVE ~Free(n) /\ Free(n)'
    <3>1. /\ ~Free(k)
          /\ call' = [call EXCEPT ![k] = NoCall]
          /\ \E l, entry : peers' = [peers EXCEPT ![k][l] = entry]
      BY <2>1 DEF PairSucceeds
    <3>2. n = k
      BY <3>1 DEF TypeOK, Knows
    <3> QED
      BY <3>1, <3>2 DEF Free, TypeOK
  <2>2. ASSUME NEW h \in Nodes, NEW post \in BagToSet(posts), HandlePair(h, post)
        PROVE  code[n] # 0 /\ code'[n] = 0
    <3>1. post \in Post
      BY DEF TypeOK, BagToSet
    <3>2. post.from \in Nodes
      BY <3>1 DEF Post
    <3> QED
      BY <2>2, <3>2, PairAdmits
  <2> QED
    BY <2>1, <2>2, NobodyAppearsElsewhere DEF NobodyAppears
<1> QED
  BY <1>1, Types, PTL DEF Spec, NoReturnWithoutPairing
=============================================================================
