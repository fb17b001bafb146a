-------------------------- MODULE MCThreads_proofs --------------------------
(***************************************************************************)
(* Theorems about Discovery and AndroidAudio as MCThreads instantiates     *)
(* them: the switch of discovery tells the truth, a neighbour stays        *)
(* listed, and what a native method answered is what runs.                 *)
(***************************************************************************)
EXTENDS MCThreads, RtpPipeline_proofs

------------------------------------------------------------------------------
(* Discovery.                                                              *)

Threads == {"none", "top", "wait", "own", "other", "ended"}

DiscoveryTypes ==
    /\ {up, leaving, enabled, saved, socket, stopping, due, near} \subseteq BOOLEAN
    /\ web \in {"idle", "serve", "save", "start", "close", "join"}
    /\ thread \in Threads
    /\ inbox \in {"none", "own", "other"}

\* Where the web thread is tells what socket, thread, list and file may be.
SwitchInv ==
    /\ ~up => web = "idle" /\ ~enabled /\ ~socket
    /\ web # "join" => (socket <=> thread # "none") /\ (~socket => listed = D!NotListed)
    /\ web \in {"idle", "serve"} => (enabled <=> socket) /\ (enabled => saved)
    /\ web = "save" => (socket => enabled)
    /\ web = "start" => enabled /\ saved /\ ~socket
    /\ web = "join" => ~socket

\* The entry is no older than the announcements that were lost since allow, unless a
\* newer one is being handled or the list is about to be cleared.
AgeInv ==
    near =>
        /\ gap \in 0..(D!Period + 1)
        /\ lost \in 0..MaxLost
        /\ listed \in -1..D!Expiry
        /\ \/ listed <= gap + lost * (D!Period + 1)
           \/ inbox = "other" \/ thread = "other" \/ web = "join"

DiscoveryInv == DiscoveryTypes /\ SwitchInv /\ AgeInv

LEMMA DiscoveryInvInit == D!Init => DiscoveryInv
<1> USE DEF D!Init, D!NotListed
<1>1. D!Init => DiscoveryTypes
  BY DEF DiscoveryTypes, Threads
<1>2. D!Init => SwitchInv
  BY DEF SwitchInv
<1>3. D!Init => AgeInv
  BY ThreadsAssumption DEF AgeInv, D!LossAssumption, D!Period, D!Expiry
<1> QED
  BY <1>1, <1>2, <1>3 DEF DiscoveryInv

\* When the process ends, so do the thread, the socket and the list.
LEMMA GoneInv == ASSUME DiscoveryInv, D!Gone, saved' \in BOOLEAN PROVE DiscoveryInv'
<1> USE DEF DiscoveryInv, D!Gone, D!neighbour
<1>1. DiscoveryTypes'
  BY DEF DiscoveryTypes, Threads
<1>2. SwitchInv'
  BY DEF SwitchInv
<1>3. AgeInv'
  BY ThreadsAssumption DEF AgeInv, D!LossAssumption, D!Period, D!Expiry, D!NotListed
<1> QED
  BY <1>1, <1>2, <1>3

LEMMA ProcessInv == ASSUME DiscoveryInv, D!Start \/ D!Kill \/ D!Abort PROVE DiscoveryInv'
<1>1. CASE D!Start
  <2> USE <1>1 DEF DiscoveryInv, D!Start, D!StartThread, D!neighbour, D!air
  <2>1. DiscoveryTypes'
    BY DEF DiscoveryTypes, Threads
  <2>2. SwitchInv'
    BY DEF SwitchInv, DiscoveryTypes
  <2>3. listed' = D!NotListed
    BY DEF SwitchInv
  <2>4. AgeInv'
    BY <2>3, ThreadsAssumption DEF AgeInv, D!LossAssumption, D!Period, D!Expiry, D!NotListed
  <2> QED
    BY <2>1, <2>2, <2>4
<1>2. CASE D!Kill
  <2>1. saved' \in BOOLEAN
    BY <1>2 DEF D!Kill, DiscoveryInv, DiscoveryTypes
  <2> QED
    BY <1>2, <2>1, GoneInv DEF D!Kill
<1>3. CASE D!Abort
  BY <1>3, GoneInv DEF D!Abort, DiscoveryInv, DiscoveryTypes
<1> QED
  BY <1>1, <1>2, <1>3

LEMMA WebInv ==
    ASSUME DiscoveryInv, D!Web \/ D!Enable \/ D!Disable \/ D!Read
    PROVE  DiscoveryInv'
<1> USE DEF DiscoveryInv, D!neighbour, D!switch, D!air
<1>1. CASE D!Serve
  BY <1>1 DEF D!Serve, DiscoveryTypes, Threads, SwitchInv, AgeInv
<1>2. CASE D!Saved
  BY <1>2 DEF D!Saved, DiscoveryTypes, Threads, SwitchInv, AgeInv
<1>3. CASE D!StartDiscovery
  <2>1. DiscoveryTypes'
    BY <1>3 DEF D!StartDiscovery, D!StartThread, DiscoveryTypes, Threads
  <2>2. SwitchInv'
    <3>1. up /\ enabled /\ saved /\ ~socket /\ thread = "none" /\ listed = D!NotListed
      BY <1>3 DEF D!StartDiscovery, SwitchInv, DiscoveryTypes
    <3>2. CASE web' = "idle" /\ D!StartThread /\ UNCHANGED enabled
      BY <1>3, <3>1, <3>2 DEF D!StartDiscovery, D!StartThread, SwitchInv
    <3>3. CASE web' = "save" /\ enabled' = FALSE /\ UNCHANGED <<socket, stopping, thread, listed>>
      BY <1>3, <3>1, <3>3 DEF D!StartDiscovery, SwitchInv
    <3> QED
      BY <1>3, <3>2, <3>3 DEF D!StartDiscovery
  <2>3. listed = D!NotListed /\ listed' = listed
    BY <1>3 DEF D!StartDiscovery, D!StartThread, SwitchInv
  <2>4. AgeInv'
    BY <1>3, <2>3, ThreadsAssumption
       DEF D!StartDiscovery, AgeInv, D!LossAssumption, D!Period, D!Expiry, D!NotListed
  <2> QED
    BY <2>1, <2>2, <2>4
<1>4. CASE D!Close
  BY <1>4 DEF D!Close, DiscoveryTypes, Threads, SwitchInv, AgeInv
<1>5. CASE D!Join
  <2>1. DiscoveryTypes'
    BY <1>5 DEF D!Join, D!Joined, DiscoveryTypes, Threads
  <2>2. SwitchInv'
    BY <1>5 DEF D!Join, D!Joined, DiscoveryTypes, SwitchInv
  <2>3. AgeInv'
    BY <1>5, ThreadsAssumption
       DEF D!Join, AgeInv, D!LossAssumption, D!Period, D!Expiry, D!NotListed
  <2> QED
    BY <2>1, <2>2, <2>3
<1>6. CASE D!Enable
  BY <1>6 DEF D!Enable, DiscoveryTypes, Threads, SwitchInv, AgeInv
<1>7. CASE D!Disable
  BY <1>7 DEF D!Disable, DiscoveryTypes, Threads, SwitchInv, AgeInv
<1>8. CASE D!Read
  <2>1. DiscoveryTypes'
    BY <1>8 DEF D!Read, DiscoveryTypes, Threads
  <2>2. SwitchInv'
    BY <1>8 DEF D!Read, SwitchInv
  <2>3. AgeInv'
    BY <1>8, ThreadsAssumption
       DEF D!Read, AgeInv, D!LossAssumption, D!Period, D!Expiry, D!NotListed
  <2> QED
    BY <2>1, <2>2, <2>3
<1> QED
  BY <1>1, <1>2, <1>3, <1>4, <1>5, <1>6, <1>7, <1>8 DEF D!Web

LEMMA ThreadInv == ASSUME DiscoveryInv, D!Thread PROVE DiscoveryInv'
<1> USE DEF DiscoveryInv, D!neighbour, D!switch, D!air
<1>1. CASE D!Top
  BY <1>1 DEF D!Top, DiscoveryTypes, Threads, SwitchInv, AgeInv
<1>2. CASE D!Idle
  BY <1>2 DEF D!Idle, DiscoveryTypes, Threads, SwitchInv, AgeInv
<1>3. CASE D!Receive
  BY <1>3 DEF D!Receive, DiscoveryTypes, Threads, SwitchInv, AgeInv
<1>4. CASE D!Note
  <2>1. DiscoveryTypes'
    BY <1>4 DEF D!Note, DiscoveryTypes, Threads
  <2>2. SwitchInv'
    BY <1>4 DEF D!Note, SwitchInv
  <2>3. AgeInv'
    BY <1>4, ThreadsAssumption DEF D!Note, AgeInv, D!LossAssumption, D!Period, D!Expiry
  <2> QED
    BY <2>1, <2>2, <2>3
<1> QED
  BY <1>1, <1>2, <1>3, <1>4 DEF D!Thread

LEMMA NeighbourInv ==
    ASSUME DiscoveryInv, (\E arrives \in BOOLEAN : D!Announce(arrives)) \/ D!Leave \/ D!Tick
    PROVE  DiscoveryInv'
<1> USE DEF DiscoveryInv, D!neighbour, D!switch, D!air
<1>1. ASSUME NEW arrives \in BOOLEAN, D!Announce(arrives) PROVE DiscoveryInv'
  <2>1. DiscoveryTypes'
    BY <1>1 DEF D!Announce, DiscoveryTypes, Threads
  <2>2. SwitchInv'
    BY <1>1 DEF D!Announce, SwitchInv
  <2>3. AgeInv'
    <3>1. CASE arrives /\ socket
      BY <1>1, <3>1, ThreadsAssumption DEF D!Announce, AgeInv, D!LossAssumption, D!Period
    <3>2. CASE arrives /\ ~socket
      BY <1>1, <3>2, ThreadsAssumption
         DEF D!Announce, AgeInv, SwitchInv, D!LossAssumption, D!Period, D!NotListed
    <3>3. CASE ~arrives
      BY <1>1, <3>3, ThreadsAssumption DEF D!Announce, AgeInv, D!LossAssumption, D!Period
    <3> QED
      BY <3>1, <3>2, <3>3
  <2> QED
    BY <2>1, <2>2, <2>3
<1>2. CASE D!Leave
  BY <1>2 DEF D!Leave, DiscoveryTypes, Threads, SwitchInv, AgeInv
<1>3. CASE D!Tick
  <2>1. DiscoveryTypes'
    BY <1>3 DEF D!Tick, DiscoveryTypes, Threads
  <2>2. SwitchInv'
    BY <1>3 DEF D!Tick, SwitchInv, D!NotListed
  <2>3. AgeInv'
    <3> SUFFICES ASSUME near PROVE AgeInv'
      BY <1>3 DEF D!Tick, AgeInv
    <3>1. /\ gap \in 0..D!Period /\ gap' = gap + 1
          /\ lost \in 0..MaxLost /\ lost' = lost
          /\ listed \in -1..D!Expiry
          /\ listed <= gap + lost * (D!Period + 1)
      BY <1>3 DEF D!Tick, AgeInv, D!Period
    <3>2. listed' <= gap' + lost' * (D!Period + 1)
      BY <1>3, <3>1 DEF D!Tick, D!Period
    <3>3. gap' + lost' * (D!Period + 1) <= D!Expiry
      BY <3>1, ThreadsAssumption DEF D!LossAssumption, D!Period, D!Expiry
    <3>4. listed' \in -1..D!Expiry
      BY <1>3, <3>1, <3>2, <3>3 DEF D!Tick, D!Period, D!Expiry
    <3> QED
      BY <3>1, <3>2, <3>4 DEF AgeInv, D!Period
  <2> QED
    BY <2>1, <2>2, <2>3
<1> QED
  BY <1>1, <1>2, <1>3

LEMMA DiscoveryInvStep == DiscoveryInv /\ [D!Next]_(D!vars) => DiscoveryInv'
<1> SUFFICES ASSUME DiscoveryInv, [D!Next]_(D!vars) PROVE DiscoveryInv'
  OBVIOUS
<1>1. CASE UNCHANGED D!vars
  BY <1>1 DEF D!vars, DiscoveryInv, DiscoveryTypes, SwitchInv, AgeInv
<1> QED
  BY <1>1, ProcessInv, WebInv, ThreadInv, NeighbourInv DEF D!Next

THEOREM DiscoveryInvariant == D!Spec => []DiscoveryInv
BY DiscoveryInvInit, DiscoveryInvStep, PTL DEF D!Spec

\* Between two requests the switch, the socket, the thread, the list and the file
\* agree, whatever start failed or was undone (pairing_service.cpp:281-374).
THEOREM SwitchTellsTheTruth == D!Spec => []SwitchIsTrue
<1>1. DiscoveryInv => SwitchIsTrue
  BY DEF DiscoveryInv, SwitchInv, SwitchIsTrue, D!SwitchIsTrue
<1> QED
  BY <1>1, DiscoveryInvariant, PTL

\* A neighbour that keeps announcing itself is not forgotten, as long as the network
\* loses no more announcements in a row than fit into seven seconds
\* (pairing_service.cpp:447-478).
THEOREM NeighboursStayListed == D!Spec => []StaysListed
<1>1. DiscoveryInv => StaysListed
  BY DEF DiscoveryInv, AgeInv, StaysListed, D!StaysListed, D!Expiry
<1> QED
  BY <1>1, DiscoveryInvariant, PTL

------------------------------------------------------------------------------
(* AndroidAudio.  MCThreads calls its call, answer, socket and thread      *)
(* method, message, receiver_socket and receiver_thread.                   *)

AudioTypes ==
    /\ method \in {"idle", "close", "join", "open", "bind"}
    /\ want \in {"send", "receive", "stop"}
    /\ message \in {"stopped", "error", "sending", "receiving"}
    /\ running \in BOOLEAN
    /\ receiver_socket \in {"none", "open", "closed", "reused"}
    /\ receiver_thread \in {"none", "check", "call", "wait", "push", "lost", "ended"}
    /\ {input, output, opening} \subseteq {"none", "started", "ended"}

\* Between two methods the answer tells what the engine holds; while one opens its
\* devices the engine holds nothing of the one before, and only a method that binds
\* has a stream of its own.
MethodInv ==
    /\ AnswerTells
    /\ method # "idle" => ~running
    /\ method \in {"open", "bind"} =>
          /\ receiver_socket = "none" /\ receiver_thread = "none"
          /\ input = "none" /\ output = "none"
    /\ method = "bind" <=> opening # "none"

AudioInv == AudioTypes /\ MethodInv

LEMMA AudioInvInit == A!Init => AudioInv
BY DEF A!Init, AudioInv, AudioTypes, MethodInv, AnswerTells, A!AnswerTells

\* A step that leaves the method and the sockets, threads and streams it holds alone.
LEMMA ElsewhereInv ==
    ASSUME AudioInv,
           UNCHANGED <<method, want, message, running, receiver_socket, receiver_thread, input, output,
                       opening>>
    PROVE  AudioInv'
BY DEF AudioInv, AudioTypes, MethodInv, AnswerTells, A!AnswerTells

LEMMA MethodStepInv ==
    ASSUME AudioInv, (\E w \in {"send", "receive", "stop"} : A!Call(w)) \/ A!Method
    PROVE  AudioInv'
<1> USE DEF AudioInv, A!method, A!receiver, A!streams
<1>1. ASSUME NEW w \in {"send", "receive", "stop"}, A!Call(w) PROVE AudioInv'
  BY <1>1 DEF A!Call, AudioTypes, MethodInv, AnswerTells, A!AnswerTells
<1>2. CASE A!Close
  BY <1>2 DEF A!Close, AudioTypes, MethodInv, AnswerTells, A!AnswerTells
<1>3. CASE A!Join
  <2>1. AudioTypes'
    BY <1>3 DEF A!Join, AudioTypes
  <2>2. /\ ~running' /\ receiver_socket' = "none" /\ receiver_thread' = "none"
        /\ input' = "none" /\ output' = "none" /\ opening' = "none"
    BY <1>3 DEF A!Join, AudioTypes, MethodInv, AnswerTells, A!AnswerTells
  <2>3. method' = "open" \/ (method' = "idle" /\ message' = "stopped")
    BY <1>3 DEF A!Join
  <2> QED
    BY <2>1, <2>2, <2>3 DEF MethodInv, AnswerTells, A!AnswerTells
<1>4. CASE A!OpenSender
  BY <1>4 DEF A!OpenSender, A!Return, AudioTypes, MethodInv, AnswerTells, A!AnswerTells
<1>5. CASE A!OpenSpeaker
  BY <1>5 DEF A!OpenSpeaker, A!Return, AudioTypes, MethodInv, AnswerTells, A!AnswerTells
<1>6. CASE A!Bind
  <2>1. AudioTypes'
    BY <1>6 DEF A!Bind, A!Return, AudioTypes
  <2>2. method' = "idle" /\ input' = "none" /\ opening' = "none"
    BY <1>6 DEF A!Bind, A!Return, MethodInv
  <2>3. CASE message' = "error" /\ UNCHANGED <<running, receiver_socket, receiver_thread, output>>
    BY <1>6, <2>1, <2>2, <2>3 DEF A!Bind, MethodInv, AnswerTells, A!AnswerTells
  <2>4. CASE /\ message' = "receiving" /\ receiver_socket' = "open" /\ running' = TRUE
             /\ receiver_thread' = "check" /\ output' = opening
    BY <1>6, <2>1, <2>2, <2>4 DEF A!Bind, MethodInv, AnswerTells, A!AnswerTells
  <2> QED
    BY <1>6, <2>3, <2>4 DEF A!Bind, A!Return
<1> QED
  BY <1>1, <1>2, <1>3, <1>4, <1>5, <1>6 DEF A!Method

LEMMA ReceiverStepInv ==
    ASSUME AudioInv,
           A!Receiver \/ A!Reuse \/ A!Steal \/ \E n \in 0..MaxDecoded : A!Receive(n)
    PROVE  AudioInv'
<1> USE DEF AudioInv, A!method, A!streams
<1>1. CASE A!Check
  BY <1>1 DEF A!Check, AudioTypes, MethodInv, AnswerTells, A!AnswerTells
<1>2. CASE A!Recvfrom
  BY <1>2 DEF A!Recvfrom, AudioTypes, MethodInv, AnswerTells, A!AnswerTells
<1>3. CASE A!Wake
  BY <1>3 DEF A!Wake, A!Woken, AudioTypes, MethodInv, AnswerTells, A!AnswerTells
<1>4. CASE A!PushFrames
  BY <1>4 DEF A!PushFrames, AudioTypes, MethodInv, AnswerTells, A!AnswerTells
<1>5. CASE A!Reuse
  BY <1>5 DEF A!Reuse, AudioTypes, MethodInv, AnswerTells, A!AnswerTells
<1>6. CASE A!Steal
  BY <1>6 DEF A!Steal, AudioTypes, MethodInv, AnswerTells, A!AnswerTells
<1>7. ASSUME NEW n \in 0..MaxDecoded, A!Receive(n) PROVE AudioInv'
  BY <1>7 DEF A!Receive, AudioTypes, MethodInv, AnswerTells, A!AnswerTells
<1> QED
  BY <1>1, <1>2, <1>3, <1>4, <1>5, <1>6, <1>7 DEF A!Receiver

LEMMA StreamStepInv ==
    ASSUME AudioInv,
           \/ A!StartInput \/ A!Disconnect
           \/ \E burst \in 1..MaxBurst : A!MicrophoneReady(burst) \/ A!SpeakerReady(burst)
    PROVE  AudioInv'
<1> USE DEF A!method, A!receiver, A!streams
<1>1. CASE A!StartInput
  BY <1>1, ElsewhereInv DEF A!StartInput
<1>2. CASE A!Disconnect
  BY <1>2 DEF A!Disconnect, AudioInv, AudioTypes, MethodInv, AnswerTells, A!AnswerTells
<1>3. ASSUME NEW burst \in 1..MaxBurst, A!MicrophoneReady(burst) \/ A!SpeakerReady(burst)
      PROVE  AudioInv'
  BY <1>3, ElsewhereInv DEF A!MicrophoneReady, A!SpeakerReady
<1> QED
  BY <1>1, <1>2, <1>3

LEMMA AudioInvStep == AudioInv /\ [A!Next]_(A!vars) => AudioInv'
<1> SUFFICES ASSUME AudioInv, [A!Next]_(A!vars) PROVE AudioInv'
  OBVIOUS
<1>1. CASE UNCHANGED A!vars
  BY <1>1, ElsewhereInv DEF A!vars
<1> QED
  BY <1>1, MethodStepInv, ReceiverStepInv, StreamStepInv DEF A!Next

THEOREM AudioInvariant == A!Spec => []AudioInv
BY AudioInvInit, AudioInvStep, PTL DEF A!Spec

\* The answer of a native method tells what the engine holds until the next call,
\* though a start fails at any of its steps (oamr_audio.cpp:153-238).  A stream that
\* was started and dropped at 210 or 215 is not held by the engine and may play on.
THEOREM AnswersTell == A!Spec => []AnswerTells
<1>1. AudioInv => AnswerTells
  BY DEF AudioInv, MethodInv
<1> QED
  BY <1>1, AudioInvariant, PTL
------------------------------------------------------------------------------
(* The sample queue.                                                       *)

\* Division, with a divisor that is not known.
LEMMA Quotient ==
    ASSUME NEW n \in Nat \ {0}, NEW x \in Int
    PROVE  /\ x \div n \in Int
           /\ x % n \in 0..(n - 1)
           /\ x = n * (x \div n) + (x % n)
OBVIOUS

\* Quotient and remainder are unique.
LEMMA Remainder ==
    ASSUME NEW n \in Nat \ {0}, NEW q \in Int, NEW r \in 0..(n - 1)
    PROVE  /\ (n * q + r) % n = r
           /\ (n * q + r) \div n = q
<1> DEFINE x == n * q + r
           p == x \div n
           s == x % n
<1>1. x \in Int /\ p \in Int /\ s \in 0..(n - 1) /\ x = n * p + s
  BY Quotient
<1> HIDE DEF p, s
<1>2. n * (q - p) = s - r
  BY <1>1
<1>3. ~(q - p >= 1)
  <2> SUFFICES ASSUME q - p >= 1 PROVE FALSE
    OBVIOUS
  <2>1. n * (q - p) >= n
    BY <1>1
  <2> QED
    BY <2>1, <1>1, <1>2
<1>4. ~(p - q >= 1)
  <2> SUFFICES ASSUME p - q >= 1 PROVE FALSE
    OBVIOUS
  <2>1. n * (p - q) >= n
    BY <1>1
  <2>2. n * (p - q) = r - s
    BY <1>1
  <2> QED
    BY <2>1, <2>2, <1>1
<1>5. p = q
  BY <1>1, <1>3, <1>4
<1>6. s = r
  BY <1>1, <1>2, <1>5
<1> QED
  BY <1>5, <1>6 DEF p, s

\* A number of a ring, once around at most.
LEMMA Around ==
    ASSUME NEW n \in Nat \ {0}, NEW x \in 0..(2 * n - 1)
    PROVE  x % n = IF x < n THEN x ELSE x - n
<1>1. CASE x < n
  <2>1. (n * 0 + x) % n = x
    BY <1>1, Remainder
  <2> QED
    BY <1>1, <2>1
<1>2. CASE ~(x < n)
  <2>1. (n * 1 + (x - n)) % n = x - n
    <3>1. x - n \in 0..(n - 1)
      BY <1>2
    <3> QED
      BY <3>1, Remainder
  <2>2. n * 1 + (x - n) = x
    OBVIOUS
  <2> QED
    BY <1>2, <2>1, <2>2
<1> QED
  BY <1>1, <1>2

\* A counter that wraps counts on like one that does not.
LEMMA Advance ==
    ASSUME NEW n \in Nat \ {0}, NEW a \in Int, NEW b \in Int
    PROVE  ((a % n) + b) % n = (a + b) % n
<1> DEFINE q == a \div n
           r == a % n
           p == (r + b) \div n
           s == (r + b) % n
<1>1. q \in Int /\ r \in 0..(n - 1) /\ a = n * q + r
  BY Quotient
<1>2. r + b \in Int
  BY <1>1
<1>3. p \in Int /\ s \in 0..(n - 1) /\ r + b = n * p + s
  BY <1>2, Quotient
<1> HIDE DEF q, p, s
<1>4. a + b = n * (q + p) + s
  <2>1. n * (q + p) = n * q + n * p
    BY <1>1, <1>3
  <2> QED
    BY <1>1, <1>3, <2>1
<1>5. (n * (q + p) + s) % n = s
  <2>1. q + p \in Int
    BY <1>1, <1>3
  <2> HIDE DEF r
  <2> QED
    BY <2>1, <1>3, Remainder
<1>6. (a + b) % n = s
  BY <1>4, <1>5
<1> QED
  BY <1>6 DEF s, r
\* The place j after place r of a ring of c places.
Place(c, r, j) == (r + j) % c

LEMMA PlaceIs ==
    ASSUME NEW c \in Nat \ {0}, NEW r \in 0..(c - 1), NEW j \in 0..c
    PROVE  /\ Place(c, r, j) = IF r + j < c THEN r + j ELSE r + j - c
           /\ Place(c, r, j) \in 0..(c - 1)
<1>1. PICK x \in 0..(2 * c - 1) : x = r + j
  OBVIOUS
<1>2. x % c = IF x < c THEN x ELSE x - c
  BY Around
<1>3. Place(c, r, j) = x % c
  BY <1>1 DEF Place
<1> QED
  BY <1>1, <1>2, <1>3

LEMMA PlacesDiffer ==
    ASSUME NEW c \in Nat \ {0}, NEW r \in 0..(c - 1), NEW i \in 0..(c - 1), NEW j \in 0..(c - 1),
           i # j
    PROVE  Place(c, r, i) # Place(c, r, j)
<1>1. i \in 0..c /\ j \in 0..c
  OBVIOUS
<1>2. Place(c, r, i) = IF r + i < c THEN r + i ELSE r + i - c
  BY <1>1, PlaceIs
<1>3. Place(c, r, j) = IF r + j < c THEN r + j ELSE r + j - c
  BY <1>1, PlaceIs
<1> QED
  BY <1>2, <1>3

\* The ring seen from its second place.
LEMMA PlaceShifts ==
    ASSUME NEW c \in Nat \ {0}, NEW r \in 0..(c - 1), NEW j \in 0..(c - 1)
    PROVE  Place(c, Place(c, r, 1), j) = IF j = c - 1 THEN r ELSE Place(c, r, j + 1)
<1>1. Place(c, r, 1) = IF r + 1 < c THEN r + 1 ELSE 0
  BY PlaceIs
<1>2. PICK read \in 0..(c - 1) : read = Place(c, r, 1)
  BY <1>1
<1>3. Place(c, read, j) = IF read + j < c THEN read + j ELSE read + j - c
  BY PlaceIs
<1>4. Place(c, r, j + 1) = IF r + (j + 1) < c THEN r + (j + 1) ELSE r + (j + 1) - c
  BY PlaceIs
<1> QED
  BY <1>1, <1>2, <1>3, <1>4

\* In a ring of c places size numbers stand from place r on, in their order, the
\* last of them n.
Holds(c, data, r, size, n) ==
    \A j \in 0..(size - 1) : data[Place(c, r, j)] = n - size + 1 + j

\* The oldest number of a full ring makes room.
LEMMA RingFull ==
    ASSUME NEW c \in Nat \ {0}, NEW r \in 0..(c - 1), NEW n \in Nat,
           NEW data \in [0..(c - 1) -> Nat], Holds(c, data, r, c, n)
    PROVE  Holds(c, [data EXCEPT ![r] = n + 1], Place(c, r, 1), c, n + 1)
<1>1. ASSUME NEW j \in 0..(c - 1)
      PROVE  [data EXCEPT ![r] = n + 1][Place(c, Place(c, r, 1), j)] = (n + 1) - c + 1 + j
  <2>1. Place(c, Place(c, r, 1), j) = IF j = c - 1 THEN r ELSE Place(c, r, j + 1)
    BY PlaceShifts
  <2>2. CASE j = c - 1
    BY <2>1, <2>2
  <2>3. CASE j < c - 1
    <3>1. data[Place(c, r, j + 1)] = n - c + 1 + (j + 1)
      BY <2>3 DEF Holds
    <3>2. Place(c, r, j + 1) # r /\ Place(c, r, j + 1) \in 0..(c - 1)
      <4>1. PICK i \in 0..c : i = j + 1 /\ 0 < i /\ i < c
        BY <2>3
      <4>2. Place(c, r, i) = IF r + i < c THEN r + i ELSE r + i - c
        BY PlaceIs
      <4>3. Place(c, r, i) # r /\ Place(c, r, i) \in 0..(c - 1)
        BY <4>1, <4>2
      <4> QED
        BY <4>1, <4>3
    <3> QED
      BY <2>1, <2>3, <3>1, <3>2
  <2> QED
    BY <2>2, <2>3
<1> QED
  BY <1>1 DEF Holds

\* A number is put where a ring has room.
LEMMA RingRoom ==
    ASSUME NEW c \in Nat \ {0}, NEW r \in 0..(c - 1), NEW n \in Nat, NEW size \in 0..(c - 1),
           NEW data \in [0..(c - 1) -> Nat], Holds(c, data, r, size, n)
    PROVE  Holds(c, [data EXCEPT ![Place(c, r, size)] = n + 1], r, size + 1, n + 1)
<1>1. ASSUME NEW j \in 0..((size + 1) - 1)
      PROVE  [data EXCEPT ![Place(c, r, size)] = n + 1][Place(c, r, j)]
                = (n + 1) - (size + 1) + 1 + j
  <2>1. j \in 0..(c - 1) /\ Place(c, r, j) \in 0..(c - 1)
    <3>1. j \in 0..c /\ j \in 0..(c - 1)
      OBVIOUS
    <3> QED
      BY <3>1, PlaceIs
  <2>2. CASE j = size
    BY <2>1, <2>2
  <2>3. CASE j < size
    <3>1. Place(c, r, j) # Place(c, r, size)
      BY <2>1, <2>3, PlacesDiffer
    <3>2. data[Place(c, r, j)] = n - size + 1 + j
      BY <2>3 DEF Holds
    <3> QED
      BY <2>1, <3>1, <3>2
  <2> QED
    BY <2>2, <2>3
<1> QED
  BY <1>1 DEF Holds

Ring == [data: [0..(Capacity - 1) -> Nat], read: 0..(Capacity - 1), size: 0..Capacity]

\* The ring holds the numbers that end with n, in their order.
EndsWith(q, n) == q \in Ring /\ Holds(Capacity, q.data, q.read, q.size, n)

Grown(size, n) == IF size + n < Capacity THEN size + n ELSE Capacity

LEMMA Updated ==
    ASSUME NEW S, NEW f \in [S -> Nat], NEW i, NEW v \in Nat
    PROVE  [f EXCEPT ![i] = v] \in [S -> Nat]
OBVIOUS

LEMMA PushedOne ==
    ASSUME A!AudioAssumption, NEW n \in Nat, NEW q, EndsWith(q, n)
    PROVE  /\ EndsWith(A!PushOne(q, n + 1), n + 1)
           /\ A!PushOne(q, n + 1).size = Grown(q.size, 1)
<1>0. /\ Capacity \in Nat \ {0}
      /\ q.data \in [0..(Capacity - 1) -> Nat]
      /\ q.read \in 0..(Capacity - 1)
      /\ q.size \in 0..Capacity
      /\ Holds(Capacity, q.data, q.read, q.size, n)
  BY DEF A!AudioAssumption, EndsWith, Ring
<1>1. CASE q.size = Capacity
  <2> DEFINE read == Place(Capacity, q.read, 1)
             data == [q.data EXCEPT ![q.read] = n + 1]
  <2>1. Place(Capacity, read, Capacity - 1) = q.read
    BY <1>0, PlaceShifts
  <2>2. A!PushOne(q, n + 1) = [data |-> data, read |-> read, size |-> Capacity]
    <3>1. Capacity - 1 + 1 = Capacity
      BY <1>0
    <3>2. ((((q.read + 1) % Capacity) + (Capacity - 1)) % Capacity) = q.read
      BY <2>1 DEF Place
    <3> QED
      BY <1>1, <3>1, <3>2 DEF A!PushOne, Place
  <2>3. Holds(Capacity, data, read, Capacity, n + 1)
    <3>1. Holds(Capacity, q.data, q.read, Capacity, n)
      BY <1>0, <1>1
    <3> QED
      BY <1>0, <3>1, RingFull, Zenon
  <2>4. data \in [0..(Capacity - 1) -> Nat] /\ read \in 0..(Capacity - 1)
    <3>1. n + 1 \in Nat /\ 1 \in 0..Capacity
      BY <1>0
    <3> QED
      BY <1>0, <3>1, PlaceIs, Updated, Zenon
  <2> HIDE DEF data, read
  <2>5. EndsWith([data |-> data, read |-> read, size |-> Capacity], n + 1)
    BY <1>0, <2>3, <2>4 DEF EndsWith, Ring
  <2> QED
    BY <1>0, <1>1, <2>2, <2>5 DEF Grown
<1>2. CASE q.size < Capacity
  <2> DEFINE data == [q.data EXCEPT ![Place(Capacity, q.read, q.size)] = n + 1]
  <2>1. q.size \in 0..(Capacity - 1) /\ q.size # Capacity
    BY <1>0, <1>2
  <2>2. A!PushOne(q, n + 1) = [data |-> data, read |-> q.read, size |-> q.size + 1]
    BY <2>1 DEF A!PushOne, Place
  <2>3. Holds(Capacity, data, q.read, q.size + 1, n + 1)
    BY <1>0, <2>1, RingRoom, Zenon
  <2>4. data \in [0..(Capacity - 1) -> Nat]
    <3>1. n + 1 \in Nat
      OBVIOUS
    <3> QED
      BY <1>0, <3>1, Updated, Zenon
  <2> HIDE DEF data
  <2>5. EndsWith([data |-> data, read |-> q.read, size |-> q.size + 1], n + 1)
    BY <1>0, <2>1, <2>3, <2>4 DEF EndsWith, Ring
  <2> QED
    BY <1>0, <1>2, <2>2, <2>5 DEF Grown
<1> QED
  BY <1>0, <1>1, <1>2

\* A decoded packet is pushed whole: afterwards the ring ends with its last sample.
LEMMA PushedAll ==
    ASSUME A!AudioAssumption, NEW n \in Nat, NEW q, EndsWith(q, n), NEW count \in Nat
    PROVE  /\ EndsWith(A!Push(q, A!Numbers(n + 1, count)), n + count)
           /\ A!Push(q, A!Numbers(n + 1, count)).size = Grown(q.size, count)
<1> DEFINE list == A!Numbers(n + 1, count)
           T == [k \in 0..count |-> {x \in Ring : EndsWith(x, n + k) /\ x.size = Grown(q.size, k)}]
           step == [k \in 1..count |-> [x \in Ring |-> A!PushOne(x, n + k)]]
           Is(f) == f = [k \in 0..Len(list) |-> IF k = 0 THEN q ELSE A!PushOne(f[k - 1], list[k])]
           after == CHOOSE f : Is(f)
<1>1. Len(list) = count /\ \A k \in 1..count : list[k] = n + k
  BY DEF A!Numbers
<1>2. q \in T[0]
  BY DEF EndsWith, Grown, Ring, A!AudioAssumption
<1>3. ASSUME NEW k \in 1..count, NEW x \in T[k - 1]
      PROVE  A!PushOne(x, n + k) \in T[k]
  <2>1. EndsWith(x, n + (k - 1)) /\ x.size = Grown(q.size, k - 1)
    OBVIOUS
  <2>2. n + (k - 1) \in Nat /\ n + (k - 1) + 1 = n + k
    OBVIOUS
  <2>3. EndsWith(A!PushOne(x, n + k), n + k) /\ A!PushOne(x, n + k).size = Grown(x.size, 1)
    BY <2>1, <2>2, PushedOne
  <2>4. Grown(x.size, 1) = Grown(q.size, k)
    <3>1. q.size \in Nat /\ Capacity \in Nat \ {0}
      BY DEF EndsWith, Ring, A!AudioAssumption
    <3> QED
      BY <2>1, <3>1 DEF Grown
  <2> QED
    BY <2>3, <2>4 DEF EndsWith
<1>4. \A k \in 0..count : \A x \in T[k] : x \in Ring
  OBVIOUS
<1> HIDE DEF T
<1>5. PICK f : /\ f = [k \in 0..count |-> IF k = 0 THEN q ELSE step[k][f[k - 1]]]
               /\ \A k \in 0..count : f[k] \in T[k]
  <2>1. Climbs(count, T, step)
    <3>1. ASSUME NEW k \in 1..count, NEW x \in T[k - 1] PROVE step[k][x] \in T[k]
      <4>1. k - 1 \in 0..count
        OBVIOUS
      <4>2. x \in Ring
        BY <1>4, <4>1
      <4>3. step[k][x] = A!PushOne(x, n + k)
        BY <4>2
      <4> QED
        BY <1>3, <4>3
    <3> QED
      BY <3>1 DEF Climbs
  <2> HIDE DEF step
  <2> QED
    <3>1. \E g : Follows(g, count, T, q, step)
      BY <1>2, <2>1, RecursionFollows
    <3> QED
      BY <3>1 DEF Follows
<1>6. Is(f)
  <2>1. ASSUME NEW k \in 1..count PROVE step[k][f[k - 1]] = A!PushOne(f[k - 1], list[k])
    <3>1. k - 1 \in 0..count
      OBVIOUS
    <3>2. f[k - 1] \in Ring
      BY <3>1, <1>4, <1>5
    <3>3. step[k] = [x \in Ring |-> A!PushOne(x, n + k)]
      OBVIOUS
    <3>4. step[k][f[k - 1]] = A!PushOne(f[k - 1], n + k)
      BY <3>2, <3>3
    <3>5. list[k] = n + k
      BY <1>1
    <3> QED
      BY <3>4, <3>5
  <2> HIDE DEF step, list
  <2>2. \A k \in 0..count : f[k] = IF k = 0 THEN q ELSE A!PushOne(f[k - 1], list[k])
    BY <1>5, <2>1
  <2>3. f = [k \in 0..count |-> f[k]]
    BY <1>5
  <2>4. f = [k \in 0..count |-> IF k = 0 THEN q ELSE A!PushOne(f[k - 1], list[k])]
    BY <2>2, <2>3
  <2> QED
    BY <1>1, <2>4, Zenon
<1>7. Is(after)
  BY <1>6
<1>8. after[count] \in T[count]
  <2> DEFINE K == {k \in 0..count : after[k] \in T[k]}
  <2> HIDE DEF after, list
  <2>1. 0 \in K
    BY <1>1, <1>2, <1>7
  <2>2. ASSUME NEW k \in 1..count, k - 1 \in K PROVE k \in K
    <3>0. k \in 0..Len(list) /\ k # 0 /\ list[k] = n + k
      BY <1>1
    <3>1. after[k] = A!PushOne(after[k - 1], n + k)
      BY <3>0, <1>7
    <3> QED
      BY <1>3, <2>2, <3>1
  <2> HIDE DEF K
  <2>3. 0..count \subseteq K
    BY <2>1, <2>2, Counting
  <2> QED
    BY <2>3 DEF K
<1>9. A!Push(q, list) = after[count]
  <2>1. A!Push(q, list) = after[Len(list)]
    BY DEF A!Push
  <2> QED
    BY <1>1, <2>1
<1> QED
  BY <1>8, <1>9 DEF T

\* Going on from a place of the ring.
LEMMA PlaceMoves ==
    ASSUME NEW c \in Nat \ {0}, NEW r \in 0..(c - 1), NEW a \in 0..c, NEW j \in 0..c,
           a + j \in 0..c
    PROVE  Place(c, Place(c, r, a), j) = Place(c, r, a + j)
<1>1. PICK read \in 0..(c - 1) : read = Place(c, r, a)
  BY PlaceIs
<1>2. read = IF r + a < c THEN r + a ELSE r + a - c
  BY <1>1, PlaceIs
<1>3. Place(c, read, j) = IF read + j < c THEN read + j ELSE read + j - c
  BY PlaceIs
<1>4. PICK i \in 0..c : i = a + j
  OBVIOUS
<1>5. Place(c, r, i) = IF r + i < c THEN r + i ELSE r + i - c
  BY PlaceIs
<1>6. Place(c, read, j) = Place(c, r, i)
  BY <1>2, <1>3, <1>4, <1>5
<1> QED
  BY <1>1, <1>4, <1>6

\* What is taken from the ring is its oldest, and the rest stays.
LEMMA PoppedFrom ==
    ASSUME A!AudioAssumption, NEW n \in Nat, NEW q, EndsWith(q, n), NEW count \in Nat
    PROVE  /\ EndsWith(A!Pop(q, count), n)
           /\ A!Pop(q, count).size = q.size - A!Available(q, count)
           /\ A!Available(q, count) \in 0..q.size
           /\ \A i \in 1..A!Available(q, count) : A!Popped(q, count)[i] = n - q.size + i
<1> DEFINE taken == A!Available(q, count)
           read == Place(Capacity, q.read, taken)
           rest == q.size - taken
<1>0. /\ Capacity \in Nat \ {0}
      /\ q.data \in [0..(Capacity - 1) -> Nat]
      /\ q.read \in 0..(Capacity - 1)
      /\ q.size \in 0..Capacity
      /\ Holds(Capacity, q.data, q.read, q.size, n)
      /\ q \in Ring
  BY DEF A!AudioAssumption, EndsWith, Ring
<1>1. taken \in 0..q.size
  BY <1>0 DEF A!Available
<1>2. A!Pop(q, count) = [data |-> q.data, read |-> read, size |-> rest]
  BY DEF A!Pop, Place
<1>3. \A i \in 1..taken : A!Popped(q, count)[i] = q.data[Place(Capacity, q.read, i - 1)]
  <2>1. ASSUME NEW i \in 1..taken PROVE q.read + i - 1 = q.read + (i - 1)
    BY <1>0, <1>1
  <2> QED
    BY <2>1 DEF A!Popped, Place
<1> HIDE DEF taken, read
<1>4. \A i \in 1..taken : A!Popped(q, count)[i] = n - q.size + i
  <2> SUFFICES ASSUME NEW i \in 1..taken PROVE A!Popped(q, count)[i] = n - q.size + i
    OBVIOUS
  <2>1. PICK j \in 0..(q.size - 1) : j = i - 1
    BY <1>0, <1>1
  <2>2. q.data[Place(Capacity, q.read, j)] = n - q.size + 1 + j
    BY <1>0 DEF Holds
  <2> QED
    BY <1>0, <1>3, <2>1, <2>2
<1>5. read \in 0..(Capacity - 1) /\ rest \in 0..Capacity
  <2>1. taken \in 0..Capacity
    BY <1>0, <1>1
  <2>2. Place(Capacity, q.read, taken) \in 0..(Capacity - 1)
    BY <1>0, <2>1, PlaceIs
  <2> QED
    BY <1>0, <1>1, <2>2 DEF read
<1>6. Holds(Capacity, q.data, read, rest, n)
  <2> SUFFICES ASSUME NEW j \in 0..(rest - 1)
               PROVE  q.data[Place(Capacity, read, j)] = n - rest + 1 + j
    BY DEF Holds
  <2>0. q.size \in Nat /\ taken \in Nat /\ j \in 0..(q.size - taken - 1)
    BY <1>0, <1>1
  <2>1. PICK i \in 0..(q.size - 1) : i = taken + j
    BY <2>0
  <2>2. q.data[Place(Capacity, q.read, i)] = n - q.size + 1 + i
    BY <1>0 DEF Holds
  <2>3. taken \in 0..Capacity /\ j \in 0..Capacity /\ taken + j \in 0..Capacity
    BY <1>0, <1>1
  <2>4. Place(Capacity, read, j) = Place(Capacity, q.read, i)
    BY <1>0, <2>1, <2>3, PlaceMoves DEF read
  <2> QED
    BY <1>0, <1>1, <2>1, <2>2, <2>4
<1> HIDE DEF rest
<1>7. EndsWith([data |-> q.data, read |-> read, size |-> rest], n)
  BY <1>0, <1>5, <1>6 DEF EndsWith, Ring
<1> QED
  BY <1>1, <1>2, <1>4, <1>7 DEF taken, rest

\* The ring holds the newest of the samples that were received, and it holds all of
\* those that were not heard, as long as they fit.
QueueInv ==
    /\ received \in Nat /\ heard \in Nat /\ heard <= received /\ frames \in Nat
    /\ EndsWith(queue, received)
    /\ queue.size = Grown(0, received - heard)

LEMMA QueueInit == A!AudioAssumption /\ A!Init => QueueInv
<1> SUFFICES ASSUME A!AudioAssumption, A!Init PROVE QueueInv
  OBVIOUS
<1>1. queue = [data |-> [i \in 0..(Capacity - 1) |-> 0], read |-> 0, size |-> 0]
  BY DEF A!Init
<1>2. Capacity \in Nat \ {0}
  BY DEF A!AudioAssumption
<1>3. queue \in Ring
  BY <1>1, <1>2 DEF Ring
<1>4. Holds(Capacity, queue.data, queue.read, queue.size, 0)
  BY <1>1 DEF Holds
<1>5. received = 0 /\ heard = 0 /\ frames = 0
  BY DEF A!Init
<1> QED
  BY <1>1, <1>2, <1>3, <1>4, <1>5 DEF QueueInv, EndsWith, Grown

\* The steps that leave the queue alone.
LEMMA QueueElsewhere ==
    QueueInv /\ UNCHANGED <<frames, queue, received, heard>> => QueueInv'
BY DEF QueueInv, EndsWith

LEMMA QueueStep == A!AudioAssumption /\ QueueInv /\ [A!Next]_(A!vars) => QueueInv'
<1> SUFFICES ASSUME A!AudioAssumption, QueueInv, [A!Next]_(A!vars) PROVE QueueInv'
  OBVIOUS
<1>0. /\ received \in Nat /\ heard \in Nat /\ heard <= received /\ frames \in Nat
      /\ EndsWith(queue, received)
      /\ queue.size = Grown(0, received - heard)
      /\ Capacity \in Nat \ {0} /\ {MaxDecoded, MaxBurst} \subseteq Nat
  BY DEF QueueInv, A!AudioAssumption
<1>1. CASE UNCHANGED A!vars
  BY <1>1, QueueElsewhere DEF A!vars
<1>2. ASSUME NEW w \in {"send", "receive", "stop"}, A!Call(w) PROVE QueueInv'
  BY <1>2, QueueElsewhere DEF A!Call, A!samples
<1>3. CASE A!Method
  BY <1>3, QueueElsewhere
     DEF A!Method, A!Close, A!Join, A!OpenSender, A!OpenSpeaker, A!Bind, A!receiver, A!samples
<1>4. CASE A!StartInput \/ A!Disconnect \/ A!Check \/ A!Recvfrom \/ A!Wake \/ A!Reuse \/ A!Steal
  BY <1>4, QueueElsewhere
     DEF A!StartInput, A!Disconnect, A!Check, A!Recvfrom, A!Wake, A!Reuse, A!Steal,
         A!receiver, A!samples
<1>5. ASSUME NEW n \in 0..MaxDecoded, A!Receive(n) PROVE QueueInv'
  <2>1. frames' \in Nat /\ UNCHANGED <<queue, received, heard>>
    BY <1>0, <1>5 DEF A!Receive, A!samples
  <2> QED
    BY <1>0, <2>1 DEF QueueInv, EndsWith
<1>6. CASE A!PushFrames
  <2>1. /\ queue' = A!Push(queue, A!Numbers(received + 1, frames))
        /\ received' = received + frames /\ frames' = 0 /\ heard' = heard
    BY <1>6 DEF A!PushFrames
  <2>2. EndsWith(queue', received + frames) /\ queue'.size = Grown(queue.size, frames)
    BY <1>0, <2>1, PushedAll
  <2>3. Grown(queue.size, frames) = Grown(0, received + frames - heard)
    BY <1>0 DEF Grown
  <2> QED
    BY <1>0, <2>1, <2>2, <2>3 DEF QueueInv, EndsWith
<1>7. ASSUME NEW burst \in 1..MaxBurst, A!MicrophoneReady(burst) PROVE QueueInv'
  BY <1>7, QueueElsewhere DEF A!MicrophoneReady, A!receiver, A!samples
<1>8. ASSUME NEW burst \in 1..MaxBurst, A!SpeakerReady(burst) PROVE QueueInv'
  <2> DEFINE taken == A!Available(queue, burst)
  <2>1. /\ queue' = A!Pop(queue, burst) /\ received' = received /\ frames' = frames
        /\ heard' = IF queue.size = 0 THEN heard ELSE A!Popped(queue, burst)[taken]
    BY <1>8 DEF A!SpeakerReady, A!receiver
  <2>2. burst \in Nat /\ queue.size \in 0..Capacity
    BY <1>0 DEF EndsWith, Ring
  <2>3. taken = IF burst < queue.size THEN burst ELSE queue.size
    BY DEF A!Available
  <2> HIDE DEF taken
  <2>4. /\ EndsWith(queue', received) /\ queue'.size = queue.size - taken
        /\ \A i \in 1..taken : A!Popped(queue, burst)[i] = received - queue.size + i
    <3>1. /\ EndsWith(A!Pop(queue, burst), received)
          /\ A!Pop(queue, burst).size = queue.size - A!Available(queue, burst)
          /\ \A i \in 1..A!Available(queue, burst) :
                 A!Popped(queue, burst)[i] = received - queue.size + i
      <4>1. received \in Nat /\ EndsWith(queue, received) /\ burst \in Nat
        BY <1>0, <2>2
      <4> QED
        BY <4>1, PoppedFrom
    <3> QED
      BY <2>1, <3>1 DEF taken
  <2>5. CASE queue.size = 0
    BY <1>0, <2>1, <2>2, <2>3, <2>4, <2>5 DEF QueueInv, EndsWith, Grown
  <2>6. CASE queue.size # 0
    <3>1. taken \in 1..taken
      BY <2>2, <2>3, <2>6
    <3>2. heard' = received - queue.size + taken
      BY <2>1, <2>4, <2>6, <3>1
    <3>3. queue.size <= received - heard
      BY <1>0 DEF Grown
    <3>4. heard' \in Nat /\ heard' <= received /\ queue'.size = Grown(0, received - heard')
      BY <1>0, <2>2, <2>3, <2>4, <2>6, <3>2, <3>3 DEF Grown
    <3> QED
      BY <1>0, <2>1, <2>4, <3>4 DEF QueueInv, EndsWith
  <2> QED
    BY <2>5, <2>6
<1> QED
  BY <1>1, <1>2, <1>3, <1>4, <1>5, <1>6, <1>7, <1>8 DEF A!Next, A!Receiver

LEMMA QueueIsNewest == A!AudioAssumption /\ QueueInv => NewestKept
<1> SUFFICES ASSUME A!AudioAssumption, QueueInv PROVE NewestKept
  OBVIOUS
<1>1. queue.size \in Nat /\ received \in Nat /\ EndsWith(queue, received)
  BY DEF QueueInv, EndsWith, Ring, A!AudioAssumption
<1>2. A!Available(queue, queue.size) = queue.size
  BY DEF A!Available
<1>3. A!Popped(queue, queue.size) = [i \in 1..queue.size |-> A!Popped(queue, queue.size)[i]]
  BY <1>2 DEF A!Popped
<1>4. \A i \in 1..queue.size :
          A!Popped(queue, queue.size)[i] = received - queue.size + 1 + i - 1
  <2>1. \A i \in 1..queue.size : A!Popped(queue, queue.size)[i] = received - queue.size + i
    <3>1. \A i \in 1..A!Available(queue, queue.size) :
              A!Popped(queue, queue.size)[i] = received - queue.size + i
      BY <1>1, PoppedFrom
    <3> QED
      BY <1>2, <3>1
  <2> QED
    BY <1>1, <2>1
<1>5. A!Popped(queue, queue.size) = A!Numbers(received - queue.size + 1, queue.size)
  BY <1>3, <1>4 DEF A!Numbers
<1>6. queue.size = IF received - heard < Capacity THEN received - heard ELSE Capacity
  BY DEF QueueInv, Grown, A!AudioAssumption
<1> QED
  BY <1>5, <1>6 DEF NewestKept, A!NewestKept

\* The speaker's queue holds exactly the newest samples that were received and not
\* heard, in their order, whatever bursts come in and go out and however its ring
\* turned (SampleQueue, oamr_audio.cpp:35-53).
THEOREM NewestIsKept == A!Spec => []NewestKept
<1>1. A!AudioAssumption
  BY ThreadsAssumption
<1>2. A!Spec => []QueueInv
  BY <1>1, QueueInit, QueueStep, PTL DEF A!Spec
<1>3. QueueInv => NewestKept
  BY <1>1, QueueIsNewest
<1> QED
  BY <1>2, <1>3, PTL

------------------------------------------------------------------------------
(* The sender's packets.                                                   *)

LEMMA NumbersAre ==
    ASSUME NEW first \in Nat, NEW count \in Nat
    PROVE  /\ A!Numbers(first, count) \in Seq(Int)
           /\ Len(A!Numbers(first, count)) = count
           /\ \A i \in 1..count : A!Numbers(first, count)[i] = first + i - 1
BY DEF A!Numbers

LEMMA NumbersEqual ==
    ASSUME NEW first \in Nat, NEW count \in Nat, NEW s \in Seq(Int), Len(s) = count,
           \A i \in 1..count : s[i] = first + i - 1
    PROVE  s = A!Numbers(first, count)
<1>1. s = [i \in 1..count |-> s[i]]
  OBVIOUS
<1> QED
  BY <1>1 DEF A!Numbers

\* Numbers that follow one another.
LEMMA NumbersJoin ==
    ASSUME NEW first \in Nat, NEW m \in Nat, NEW k \in Nat
    PROVE  A!Numbers(first, m) \o A!Numbers(first + m, k) = A!Numbers(first, m + k)
<1> DEFINE a == A!Numbers(first, m)
           b == A!Numbers(first + m, k)
<1>1. /\ a \in Seq(Int) /\ Len(a) = m /\ b \in Seq(Int) /\ Len(b) = k
      /\ \A i \in 1..m : a[i] = first + i - 1
      /\ \A i \in 1..k : b[i] = first + m + i - 1
  <2>1. first + m \in Nat
    OBVIOUS
  <2> QED
    BY <2>1, NumbersAre
<1> HIDE DEF a, b
<1>2. a \o b \in Seq(Int) /\ Len(a \o b) = m + k
  <2>1. a \in Seq(Int) /\ b \in Seq(Int)
    BY <1>1
  <2>2. a \o b \in Seq(Int) /\ Len(a \o b) = Len(a) + Len(b)
    BY <2>1, ConcatProperties
  <2> QED
    BY <1>1, <2>2
<1>3. ASSUME NEW i \in 1..(m + k) PROVE (a \o b)[i] = first + i - 1
  <2>1. CASE i <= m
    BY <1>1, <2>1
  <2>2. CASE ~(i <= m)
    <3>1. (a \o b)[i] = b[i - m] /\ i - m \in 1..k
      BY <1>1, <2>2
    <3> QED
      BY <1>1, <3>1
  <2> QED
    BY <2>1, <2>2
<1>4. m + k \in Nat
  OBVIOUS
<1>5. a \o b = A!Numbers(first, m + k)
  BY <1>2, <1>3, <1>4, NumbersEqual
<1> QED
  BY <1>5 DEF a, b

\* The first k of the numbers, and the others.
LEMMA NumbersSplit ==
    ASSUME NEW first \in Nat, NEW m \in Nat, NEW k \in 0..m
    PROVE  /\ SubSeq(A!Numbers(first, m), 1, k) = A!Numbers(first, k)
           /\ SubSeq(A!Numbers(first, m), k + 1, m) = A!Numbers(first + k, m - k)
<1> DEFINE a == A!Numbers(first, m)
<1>1. a \in Seq(Int) /\ Len(a) = m /\ \A i \in 1..m : a[i] = first + i - 1
  BY NumbersAre
<1> HIDE DEF a
<1>2. SubSeq(a, 1, k) = A!Numbers(first, k)
  <2> DEFINE b == SubSeq(a, 1, k)
  <2>1. b \in Seq(Int) /\ Len(b) = k /\ \A i \in 1..k : b[i] = first + i - 1
    BY <1>1
  <2>2. k \in Nat
    OBVIOUS
  <2> HIDE DEF b
  <2>3. b = A!Numbers(first, k)
    BY <2>1, <2>2, NumbersEqual
  <2> QED
    BY <2>3 DEF b
<1>3. SubSeq(a, k + 1, m) = A!Numbers(first + k, m - k)
  <2> DEFINE b == SubSeq(a, k + 1, m)
  <2>1. b \in Seq(Int) /\ Len(b) = m - k /\ \A i \in 1..(m - k) : b[i] = first + k + i - 1
    BY <1>1
  <2>2. first + k \in Nat /\ m - k \in Nat
    OBVIOUS
  <2> HIDE DEF b
  <2>3. b = A!Numbers(first + k, m - k)
    BY <2>1, <2>2, NumbersEqual
  <2> QED
    BY <2>3 DEF b
<1> QED
  BY <1>2, <1>3 DEF a

Senders == [pending: Seq(Int), captured: Nat, sequence: Nat, timestamp: Nat, skipped: Nat]
Packets == [sequence: Nat, timestamp: Nat, samples: Seq(Int)]

\* After so many turns of the loop: the frames of one packet are gone for each, and
\* the two counters count those whose packet was sent.
Tile(s, p, turns) ==
    /\ s \in Senders /\ p \in Packets
    /\ s.captured = turns * PacketFrames + Len(s.pending)
    /\ s.skipped <= turns
    /\ s.pending = A!Numbers(turns * PacketFrames + 1, Len(s.pending))
    /\ s.sequence = (turns - s.skipped) % Sequences
    /\ s.timestamp = ((turns - s.skipped) * PacketFrames) % Timestamps
    /\ p # A!NoPacket =>
          /\ p.sequence = (turns - s.skipped - 1) % Sequences
          /\ p.timestamp = ((turns - s.skipped - 1) * PacketFrames) % Timestamps
          /\ \E k \in 0..(turns - 1) :
                 p.samples = A!Numbers(k * PacketFrames + 1, PacketFrames)

LEMMA FramesAre ==
    ASSUME A!AudioAssumption
    PROVE  /\ PacketFrames \in Nat \ {0} /\ Sequences \in Nat \ {0} /\ Timestamps \in Nat \ {0}
           /\ \A turns \in Nat : /\ turns * PacketFrames \in Nat
                                 /\ (turns + 1) * PacketFrames = turns * PacketFrames + PacketFrames
BY DEF A!AudioAssumption

\* One turn of the loop.
LEMMA TurnTiles ==
    ASSUME A!AudioAssumption, NEW s, NEW p, NEW turns \in Nat, Tile(s, p, turns),
           NEW sent \in BOOLEAN, Len(s.pending) >= PacketFrames
    PROVE  /\ Tile(A!Encoded(s, sent), IF sent THEN A!Packet(s) ELSE p, turns + 1)
           /\ Len(A!Encoded(s, sent).pending) = Len(s.pending) - PacketFrames
<1> DEFINE e == A!Encoded(s, sent)
           next == IF sent THEN A!Packet(s) ELSE p
           start == turns * PacketFrames
           n == Len(s.pending)
           u == turns - s.skipped
<1>0. /\ PacketFrames \in Nat \ {0} /\ Sequences \in Nat \ {0} /\ Timestamps \in Nat \ {0}
      /\ start \in Nat /\ (turns + 1) * PacketFrames = start + PacketFrames
  BY FramesAre
<1>1. s \in Senders /\ p \in Packets /\ n \in Nat /\ u \in Nat /\ s.skipped \in Nat
  BY DEF Tile, Senders
<1>2. s.captured = start + n /\ s.pending = A!Numbers(start + 1, n)
  BY DEF Tile
<1>3. e.pending = SubSeq(s.pending, PacketFrames + 1, n) /\ e.captured = s.captured
  BY <1>1 DEF A!Encoded, Senders
<1>4. e.sequence = IF sent THEN (s.sequence + 1) % Sequences ELSE s.sequence
  BY <1>1 DEF A!Encoded, Senders
<1>5. e.timestamp = IF sent THEN (s.timestamp + PacketFrames) % Timestamps ELSE s.timestamp
  BY <1>1 DEF A!Encoded, Senders
<1>6. e.skipped = IF sent THEN s.skipped ELSE s.skipped + 1
  BY <1>1 DEF A!Encoded, Senders
<1>7. s.sequence = u % Sequences /\ s.timestamp = (u * PacketFrames) % Timestamps
  BY DEF Tile
<1>8. /\ SubSeq(s.pending, 1, PacketFrames) = A!Numbers(start + 1, PacketFrames)
      /\ e.pending = A!Numbers(start + 1 + PacketFrames, n - PacketFrames)
  <2>1. start + 1 \in Nat /\ PacketFrames \in 0..n
    BY <1>0, <1>1
  <2> HIDE DEF e, start, n
  <2>2. PICK first \in Nat : first = start + 1
    BY <2>1
  <2>3. /\ SubSeq(A!Numbers(first, n), 1, PacketFrames) = A!Numbers(first, PacketFrames)
        /\ SubSeq(A!Numbers(first, n), PacketFrames + 1, n)
             = A!Numbers(first + PacketFrames, n - PacketFrames)
    BY <1>1, <2>1, NumbersSplit
  <2> QED
    BY <1>2, <1>3, <2>2, <2>3
<1>9. /\ e.pending \in Seq(Int) /\ Len(e.pending) = n - PacketFrames
      /\ A!Numbers(start + 1, PacketFrames) \in Seq(Int)
  <2>1. start + 1 \in Nat /\ start + 1 + PacketFrames \in Nat /\ n - PacketFrames \in Nat
    BY <1>0, <1>1
  <2> HIDE DEF e, start, n
  <2> QED
    BY <1>0, <1>8, <2>1, NumbersAre
<1>10. e \in Senders
  <2>1. e.sequence \in Nat /\ e.timestamp \in Nat
    <3>1. s.sequence \in Nat /\ s.timestamp \in Nat
      BY <1>1 DEF Senders
    <3>2. (s.sequence + 1) % Sequences \in Nat /\ (s.timestamp + PacketFrames) % Timestamps \in Nat
      BY <1>0, <3>1
    <3> HIDE DEF e
    <3> QED
      BY <1>4, <1>5, <3>1, <3>2
  <2>2. e.captured \in Nat /\ e.skipped \in Nat
    <3>1. s.captured \in Nat
      BY <1>1 DEF Senders
    <3> HIDE DEF e
    <3> QED
      BY <1>1, <1>3, <1>6, <3>1
  <2> QED
    BY <1>1, <1>9, <2>1, <2>2 DEF Senders, A!Encoded
<1> HIDE DEF e, start, n
<1>11. e.skipped \in Nat /\ turns + 1 - e.skipped = IF sent THEN u + 1 ELSE u
  BY <1>1, <1>6
<1>12. e.sequence = (turns + 1 - e.skipped) % Sequences
  <2>1. ((u % Sequences) + 1) % Sequences = (u + 1) % Sequences
    <3>1. u \in Int /\ 1 \in Int
      BY <1>1
    <3> HIDE DEF u
    <3> QED
      BY <1>0, <3>1, Advance, Zenon
  <2> HIDE DEF u
  <2> QED
    BY <1>4, <1>7, <1>11, <2>1
<1>13. e.timestamp = ((turns + 1 - e.skipped) * PacketFrames) % Timestamps
  <2>1. u * PacketFrames \in Int /\ (u + 1) * PacketFrames = u * PacketFrames + PacketFrames
    BY <1>0, <1>1, FramesAre
  <2>2. (((u * PacketFrames) % Timestamps) + PacketFrames) % Timestamps
           = (u * PacketFrames + PacketFrames) % Timestamps
    <3>1. PacketFrames \in Int
      BY <1>0
    <3> HIDE DEF u
    <3> QED
      BY <1>0, <2>1, <3>1, Advance, Zenon
  <2> HIDE DEF u
  <2> QED
    BY <1>5, <1>7, <1>11, <2>1, <2>2
<1>14. next \in Packets
  <2>1. s.sequence \in Nat /\ s.timestamp \in Nat
    BY <1>1 DEF Senders
  <2> QED
    BY <1>1, <1>8, <1>9, <2>1 DEF A!Packet, Packets
<1>15. next # A!NoPacket =>
          /\ next.sequence = (turns + 1 - e.skipped - 1) % Sequences
          /\ next.timestamp = ((turns + 1 - e.skipped - 1) * PacketFrames) % Timestamps
          /\ \E k \in 0..(turns + 1 - 1) :
                 next.samples = A!Numbers(k * PacketFrames + 1, PacketFrames)
  <2>1. CASE sent
    <3>1. /\ next.sequence = s.sequence /\ next.timestamp = s.timestamp
          /\ next.samples = A!Numbers(turns * PacketFrames + 1, PacketFrames)
      BY <1>8, <2>1 DEF A!Packet, start
    <3>2. turns + 1 - e.skipped - 1 = u /\ turns \in 0..(turns + 1 - 1)
      BY <1>1, <1>11, <2>1
    <3> HIDE DEF next, u
    <3> QED
      BY <1>7, <3>1, <3>2, Zenon
  <2>2. CASE ~sent
    <3>1. next = p
      BY <2>2
    <3>2. p # A!NoPacket =>
             /\ p.sequence = (u - 1) % Sequences
             /\ p.timestamp = ((u - 1) * PacketFrames) % Timestamps
             /\ \E k \in 0..(turns - 1) :
                    p.samples = A!Numbers(k * PacketFrames + 1, PacketFrames)
      BY DEF Tile
    <3>3. turns + 1 - e.skipped - 1 = u - 1 /\ 0..(turns - 1) \subseteq 0..(turns + 1 - 1)
      BY <1>1, <1>11, <2>2
    <3> HIDE DEF next, u
    <3> QED
      BY <3>1, <3>2, <3>3, Zenon
  <2> QED
    BY <2>1, <2>2
<1>16. e.captured = (turns + 1) * PacketFrames + Len(e.pending)
  BY <1>0, <1>1, <1>2, <1>3, <1>9
<1>17. e.skipped <= turns + 1
  BY <1>1, <1>6 DEF Tile
<1>18. e.pending = A!Numbers((turns + 1) * PacketFrames + 1, Len(e.pending))
  <2>1. start + 1 + PacketFrames = (turns + 1) * PacketFrames + 1
    BY <1>0
  <2> QED
    BY <1>8, <1>9, <2>1
<1> HIDE DEF next, u
<1>19. Tile(e, next, turns + 1)
  <2>1. PICK m \in Nat : m = turns + 1
    OBVIOUS
  <2>2. /\ e.captured = m * PacketFrames + Len(e.pending)
        /\ e.skipped <= m
        /\ e.pending = A!Numbers(m * PacketFrames + 1, Len(e.pending))
    BY <1>16, <1>17, <1>18, <2>1
  <2>3. e.sequence = (m - e.skipped) % Sequences
    BY <1>0, <1>11, <1>12, <2>1
  <2>4. e.timestamp = ((m - e.skipped) * PacketFrames) % Timestamps
    <3>1. turns + 1 - e.skipped = m - e.skipped
      BY <1>11, <2>1
    <3> QED
      BY <1>13, <3>1, Zenon
  <2>5. next # A!NoPacket =>
           /\ next.sequence = (m - e.skipped - 1) % Sequences
           /\ next.timestamp = ((m - e.skipped - 1) * PacketFrames) % Timestamps
           /\ \E k \in 0..(m - 1) :
                  next.samples = A!Numbers(k * PacketFrames + 1, PacketFrames)
    <3>1. turns + 1 - e.skipped - 1 = m - e.skipped - 1 /\ turns + 1 - 1 = m - 1
      BY <1>11, <2>1
    <3> QED
      BY <1>15, <3>1, Zenon
  <2>6. Tile(e, next, m)
    BY <1>10, <1>14, <2>2, <2>3, <2>4, <2>5, Zenon DEF Tile
  <2> QED
    BY <2>1, <2>6
<1> QED
  BY <1>9, <1>19 DEF e, next, n

States == [sender: Senders, packet: Packets]

\* The loop leaves less than one packet.
LEMMA LoopTiles ==
    ASSUME A!AudioAssumption, NEW s, NEW turns \in Nat, Tile(s, rtp, turns),
           NEW sents \in [1..A!Turns(s) -> BOOLEAN]
    PROVE  \E t \in Nat : /\ Tile(A!Loop(s, sents).sender, A!Loop(s, sents).packet, t)
                          /\ Len(A!Loop(s, sents).sender.pending) < PacketFrames
<1> DEFINE n == Len(s.pending)
           count == A!Turns(s)
           base == [sender |-> s, packet |-> rtp]
           Good(x, k) == /\ Tile(x.sender, x.packet, turns + k)
                         /\ Len(x.sender.pending) = n - k * PacketFrames
           T == [k \in 0..count |-> {x \in States : Good(x, k)}]
           step == [k \in 1..count |-> [x \in States |-> A!Turn(x, sents[k])]]
           Is(f) == f = [k \in 0..Len(sents) |-> IF k = 0 THEN base ELSE A!Turn(f[k - 1], sents[k])]
           after == CHOOSE f : Is(f)
<1>1. /\ PacketFrames \in Nat \ {0} /\ n \in Nat /\ count \in Nat
      /\ s \in Senders /\ rtp \in Packets
      /\ count * PacketFrames <= n /\ n - count * PacketFrames < PacketFrames
  <2>1. PacketFrames \in Nat \ {0} /\ s \in Senders /\ rtp \in Packets
    BY FramesAre DEF Tile
  <2>2. n \in Nat
    BY <2>1 DEF Senders
  <2>3. count = n \div PacketFrames
    BY DEF A!Turns
  <2> HIDE DEF count, n
  <2>4. count \in Nat /\ n = PacketFrames * count + (n % PacketFrames) /\ n % PacketFrames \in 0..(PacketFrames - 1)
    BY <2>1, <2>2, <2>3
  <2>5. count * PacketFrames = PacketFrames * count /\ PacketFrames * count \in Nat
    BY <2>1, <2>4
  <2> QED
    BY <2>1, <2>2, <2>4, <2>5
<1>2. Len(sents) = count
  <2> HIDE DEF count
  <2>1. sents \in [1..count -> BOOLEAN]
    BY DEF count
  <2> QED
    BY <1>1, <2>1
<1>3. base \in T[0]
  <2>1. Good(base, 0)
    <3>1. turns + 0 = turns
      OBVIOUS
    <3>2. n - 0 * PacketFrames = n
      <4> HIDE DEF n
      <4> QED
        BY <1>1
    <3>3. base.sender = s /\ base.packet = rtp
      OBVIOUS
    <3> HIDE DEF base
    <3> QED
      BY <3>1, <3>2, <3>3, Zenon
  <2>2. base \in States
    BY <1>1 DEF States
  <2> HIDE DEF Good, base
  <2> QED
    BY <1>1, <2>1, <2>2
<1>4. ASSUME NEW k \in 1..count, NEW x \in T[k - 1]
      PROVE  A!Turn(x, sents[k]) \in T[k]
  <2> DEFINE sent == sents[k]
             y == A!Turn(x, sent)
  <2>1. /\ x.sender \in Senders /\ x.packet \in Packets
        /\ Tile(x.sender, x.packet, turns + (k - 1))
        /\ Len(x.sender.pending) = n - (k - 1) * PacketFrames
    <3>1. x \in States /\ Good(x, k - 1)
      <4> HIDE DEF Good, count
      <4> QED
        BY <1>1
    <3> HIDE DEF T, count, n
    <3> QED
      BY <3>1 DEF States
  <2>2. sent \in BOOLEAN
    BY Zenon
  <2> HIDE DEF T, count
  <2>3. PICK m \in Nat : m = turns + (k - 1)
    BY <1>1
  <2>4. Len(x.sender.pending) >= PacketFrames
    <3>1. (k - 1) * PacketFrames = k * PacketFrames - PacketFrames
      BY <1>1
    <3>2. k * PacketFrames <= count * PacketFrames
      <4>1. (count - k) * PacketFrames >= 0
        BY <1>1
      <4>2. (count - k) * PacketFrames = count * PacketFrames - k * PacketFrames
        BY <1>1
      <4> QED
        BY <1>1, <4>1, <4>2
    <3> QED
      BY <1>1, <2>1, <3>1, <3>2
  <2>5. /\ Tile(A!Encoded(x.sender, sent), IF sent THEN A!Packet(x.sender) ELSE x.packet, m + 1)
        /\ Len(A!Encoded(x.sender, sent).pending) = Len(x.sender.pending) - PacketFrames
    BY <2>1, <2>2, <2>3, <2>4, TurnTiles
  <2>6. y = [sender |-> A!Encoded(x.sender, sent),
             packet |-> IF sent THEN A!Packet(x.sender) ELSE x.packet]
    BY DEF A!Turn
  <2> HIDE DEF y, sent
  <2>7. Tile(y.sender, y.packet, m + 1) /\ Len(y.sender.pending) = Len(x.sender.pending) - PacketFrames
    BY <2>5, <2>6
  <2>8. y \in States
    BY <2>5, <2>6 DEF Tile, States
  <2>9. m + 1 = turns + k
    BY <2>3
  <2>10. Len(y.sender.pending) = n - k * PacketFrames
    <3>1. (k - 1) * PacketFrames = k * PacketFrames - PacketFrames
      BY <1>1
    <3> QED
      BY <1>1, <2>1, <2>7, <3>1
  <2>11. Good(y, k)
    BY <2>7, <2>9, <2>10, Zenon
  <2> HIDE DEF Good
  <2>12. y \in T[k]
    BY <1>1, <2>8, <2>11 DEF T
  <2> QED
    BY <2>12 DEF y, sent
<1>5. \A k \in 0..count : \A x \in T[k] : x \in States
  OBVIOUS
<1> HIDE DEF T, count
<1>6. PICK f : /\ f = [k \in 0..count |-> IF k = 0 THEN base ELSE step[k][f[k - 1]]]
               /\ \A k \in 0..count : f[k] \in T[k]
  <2>1. Climbs(count, T, step)
    <3>1. ASSUME NEW k \in 1..count, NEW x \in T[k - 1] PROVE step[k][x] \in T[k]
      <4>1. k - 1 \in 0..count
        BY <1>1
      <4>2. x \in States
        BY <1>5, <4>1
      <4>3. step[k][x] = A!Turn(x, sents[k])
        BY <4>2
      <4> QED
        BY <1>4, <4>3
    <3> QED
      BY <3>1 DEF Climbs
  <2> HIDE DEF step, base
  <2>2. \E g : Follows(g, count, T, base, step)
    BY <1>1, <1>3, <2>1, RecursionFollows
  <2> QED
    BY <2>2 DEF Follows
<1> HIDE DEF base
<1>7. Is(f)
  <2>1. ASSUME NEW k \in 1..count PROVE step[k][f[k - 1]] = A!Turn(f[k - 1], sents[k])
    <3>1. k - 1 \in 0..count
      BY <1>1
    <3>2. f[k - 1] \in States
      BY <3>1, <1>5, <1>6
    <3>3. step[k] = [x \in States |-> A!Turn(x, sents[k])]
      OBVIOUS
    <3> QED
      BY <3>2, <3>3
  <2> HIDE DEF step
  <2>2. \A k \in 0..count : f[k] = IF k = 0 THEN base ELSE A!Turn(f[k - 1], sents[k])
    BY <1>1, <1>6, <2>1
  <2>3. f = [k \in 0..count |-> f[k]]
    BY <1>6
  <2>4. f = [k \in 0..count |-> IF k = 0 THEN base ELSE A!Turn(f[k - 1], sents[k])]
    BY <2>2, <2>3
  <2> QED
    BY <1>2, <2>4, Zenon
<1>8. Is(after)
  BY <1>7
<1>9. after[count] \in T[count]
  <2> DEFINE K == {k \in 0..count : after[k] \in T[k]}
  <2> HIDE DEF after
  <2>1. 0 \in K
    BY <1>1, <1>2, <1>3, <1>8
  <2>2. ASSUME NEW k \in 1..count, k - 1 \in K PROVE k \in K
    <3>0. k \in 0..Len(sents) /\ k # 0
      BY <1>1, <1>2
    <3>1. after[k] = A!Turn(after[k - 1], sents[k])
      BY <3>0, <1>8
    <3> QED
      BY <1>1, <1>4, <2>2, <3>1
  <2> HIDE DEF K
  <2>3. 0..count \subseteq K
    BY <1>1, <2>1, <2>2, Counting
  <2> QED
    BY <1>1, <2>3 DEF K
<1>10. A!Loop(s, sents) = after[count]
  <2>1. A!Loop(s, sents) = after[Len(sents)]
    BY DEF A!Loop, base
  <2> QED
    BY <1>2, <2>1
<1> HIDE DEF after
<1>11. /\ Tile(A!Loop(s, sents).sender, A!Loop(s, sents).packet, turns + count)
       /\ Len(A!Loop(s, sents).sender.pending) = n - count * PacketFrames
  <2>1. Good(after[count], count)
    <3> HIDE DEF Good
    <3> QED
      BY <1>1, <1>9 DEF T
  <2> QED
    BY <1>10, <2>1, Zenon
<1>12. turns + count \in Nat
  BY <1>1
<1> QED
  BY <1>1, <1>11, <1>12

\* What is captured follows what is pending.
LEMMA CaptureTiles ==
    ASSUME A!AudioAssumption, NEW s, NEW turns \in Nat, Tile(s, rtp, turns), NEW burst \in Nat
    PROVE  Tile(A!Capture(s, burst), rtp, turns)
<1> DEFINE e == A!Capture(s, burst)
           start == turns * PacketFrames
           n == Len(s.pending)
<1>1. PacketFrames \in Nat \ {0} /\ start \in Nat /\ s \in Senders /\ n \in Nat
  BY FramesAre DEF Tile, Senders
<1>2. s.captured = start + n /\ s.pending = A!Numbers(start + 1, n)
  BY DEF Tile
<1>3. /\ e.pending = s.pending \o A!Numbers(s.captured + 1, burst)
      /\ e.captured = s.captured + burst
      /\ e.sequence = s.sequence /\ e.timestamp = s.timestamp /\ e.skipped = s.skipped
  BY <1>1 DEF A!Capture, Senders
<1>4. PICK first \in Nat : first = start + 1
  BY <1>1
<1> HIDE DEF e, start, n
<1>5. e.pending = A!Numbers(first, n + burst)
  <2>1. s.captured + 1 = first + n
    BY <1>1, <1>2, <1>4
  <2>2. A!Numbers(first, n) \o A!Numbers(first + n, burst) = A!Numbers(first, n + burst)
    BY <1>1, NumbersJoin
  <2> QED
    BY <1>2, <1>3, <1>4, <2>1, <2>2
<1>6. e.pending \in Seq(Int) /\ Len(e.pending) = n + burst
  <2>1. n + burst \in Nat
    BY <1>1
  <2> QED
    BY <1>5, <2>1, NumbersAre
<1>7. e \in Senders
  <2>1. s.captured + burst \in Nat
    BY <1>1 DEF Senders
  <2> QED
    BY <1>1, <1>3, <1>6, <2>1 DEF e, A!Capture, Senders
<1>8. e.captured = start + Len(e.pending)
  <2>1. e.captured = start + n + burst
    BY <1>2, <1>3
  <2> QED
    BY <1>1, <1>6, <2>1
<1>9. e.pending = A!Numbers(start + 1, Len(e.pending))
  BY <1>4, <1>5, <1>6
<1> QED
  BY <1>3, <1>7, <1>8, <1>9 DEF Tile, e, start

\* After some number of turns the pending frames are those that follow the frames
\* of the turns, and fewer than a packet.
SenderInv == \E turns \in Nat : Tile(sender, rtp, turns) /\ Len(sender.pending) < PacketFrames

\* A new sender has sent nothing.
LEMMA NewTiles ==
    ASSUME A!AudioAssumption
    PROVE  Tile(A!NewSender, A!NoPacket, 0) /\ Len(A!NewSender.pending) < PacketFrames
<1> DEFINE s == A!NewSender
           p == A!NoPacket
<1>1. PacketFrames \in Nat \ {0} /\ Sequences \in Nat \ {0} /\ Timestamps \in Nat \ {0}
  BY FramesAre
<1>2. /\ s = [pending |-> << >>, captured |-> 0, sequence |-> 0, timestamp |-> 0, skipped |-> 0]
      /\ p = [sequence |-> 0, timestamp |-> 0, samples |-> << >>]
  BY DEF A!NewSender, A!NoPacket
<1> HIDE DEF s, p
<1>3. s \in Senders /\ p \in Packets
  BY <1>2 DEF Senders, Packets
<1>4. 0 * PacketFrames = 0 /\ 0 - 0 = 0 /\ 0 % Sequences = 0 /\ 0 % Timestamps = 0
  <2>1. /\ 0 % Sequences = (IF 0 < Sequences THEN 0 ELSE 0 - Sequences)
        /\ 0 % Timestamps = (IF 0 < Timestamps THEN 0 ELSE 0 - Timestamps)
    BY <1>1, Around
  <2> QED
    BY <1>1, <2>1
<1>5. << >> = A!Numbers(1, 0)
  BY DEF A!Numbers
<1>6. /\ Len(s.pending) = 0 /\ s.pending = << >> /\ s.captured = 0
      /\ s.skipped = 0 /\ s.sequence = 0 /\ s.timestamp = 0
  BY <1>2
<1>7. s.captured = 0 * PacketFrames + Len(s.pending)
  BY <1>4, <1>6
<1>8. s.pending = A!Numbers(0 * PacketFrames + 1, Len(s.pending))
  BY <1>4, <1>5, <1>6
<1>9. s.sequence = (0 - s.skipped) % Sequences
  BY <1>4, <1>6
<1>10. s.timestamp = ((0 - s.skipped) * PacketFrames) % Timestamps
  BY <1>4, <1>6
<1>11. Tile(s, p, 0)
  BY <1>3, <1>6, <1>7, <1>8, <1>9, <1>10 DEF Tile, p
<1> QED
  BY <1>1, <1>6, <1>11 DEF s, p

LEMMA SenderElsewhere == SenderInv /\ UNCHANGED <<sender, rtp>> => SenderInv'
BY DEF SenderInv, Tile

LEMMA SenderStep == A!AudioAssumption /\ SenderInv /\ [A!Next]_(A!vars) => SenderInv'
<1> SUFFICES ASSUME A!AudioAssumption, SenderInv, [A!Next]_(A!vars) PROVE SenderInv'
  OBVIOUS
<1>1. CASE UNCHANGED A!vars
  BY <1>1, SenderElsewhere DEF A!vars
<1>2. ASSUME NEW w \in {"send", "receive", "stop"}, A!Call(w) PROVE SenderInv'
  BY <1>2, SenderElsewhere DEF A!Call, A!sending
<1>3. CASE A!Close \/ A!OpenSender \/ A!OpenSpeaker \/ A!Bind
  BY <1>3, SenderElsewhere DEF A!Close, A!OpenSender, A!OpenSpeaker, A!Bind, A!sending
<1>4. CASE A!Join
  <2>1. sender' = A!NewSender /\ rtp' = A!NoPacket
    BY <1>4 DEF A!Join
  <2> QED
    BY <2>1, NewTiles DEF SenderInv, Tile
<1>5. CASE A!StartInput \/ A!Disconnect \/ A!Receiver \/ A!Reuse \/ A!Steal
  BY <1>5, SenderElsewhere
     DEF A!StartInput, A!Disconnect, A!Receiver, A!Check, A!Recvfrom, A!Wake, A!PushFrames,
         A!Reuse, A!Steal, A!sending
<1>6. ASSUME NEW n \in 0..MaxDecoded, A!Receive(n) PROVE SenderInv'
  BY <1>6, SenderElsewhere DEF A!Receive, A!sending
<1>7. ASSUME NEW burst \in 1..MaxBurst, A!SpeakerReady(burst) PROVE SenderInv'
  BY <1>7, SenderElsewhere DEF A!SpeakerReady, A!sending
<1>8. ASSUME NEW burst \in 1..MaxBurst, A!MicrophoneReady(burst) PROVE SenderInv'
  <2> DEFINE captured == A!Capture(sender, burst)
  <2>1. PICK sents \in [1..A!Turns(captured) -> BOOLEAN] :
           /\ sender' = A!Loop(captured, sents).sender
           /\ rtp' = A!Loop(captured, sents).packet
    BY <1>8 DEF A!MicrophoneReady
  <2>2. PICK turns \in Nat : Tile(sender, rtp, turns)
    BY DEF SenderInv
  <2>3. burst \in Nat
    BY DEF A!AudioAssumption
  <2>4. Tile(captured, rtp, turns)
    BY <2>2, <2>3, CaptureTiles
  <2> HIDE DEF captured
  <2>5. PICK t \in Nat : /\ Tile(A!Loop(captured, sents).sender, A!Loop(captured, sents).packet, t)
                         /\ Len(A!Loop(captured, sents).sender.pending) < PacketFrames
    BY <2>4, LoopTiles
  <2>6. Tile(sender', rtp', t) /\ Len(sender'.pending) < PacketFrames
    BY <2>1, <2>5, Zenon
  <2> QED
    BY <2>6 DEF SenderInv, Tile
<1> QED
  BY <1>1, <1>2, <1>3, <1>4, <1>5, <1>6, <1>7, <1>8 DEF A!Next, A!Method

LEMMA SenderTiles == A!AudioAssumption /\ SenderInv => PacketsTile
<1> SUFFICES ASSUME A!AudioAssumption, SenderInv PROVE PacketsTile
  OBVIOUS
<1>1. PICK t \in Nat : Tile(sender, rtp, t) /\ Len(sender.pending) < PacketFrames
  BY DEF SenderInv
<1>2. PacketFrames \in Nat \ {0} /\ t * PacketFrames \in Nat
  BY FramesAre
<1>3. /\ Len(sender.pending) \in Nat /\ sender.skipped \in Nat
      /\ sender.captured = t * PacketFrames + Len(sender.pending)
  BY <1>1 DEF Tile, Senders
<1> DEFINE turns == (sender.captured - Len(sender.pending)) \div PacketFrames
<1>4. turns = t
  <2>1. PacketFrames * t + 0 = sender.captured - Len(sender.pending)
    BY <1>2, <1>3
  <2>2. t \in Int /\ 0 \in 0..(PacketFrames - 1)
    BY <1>2
  <2>3. (PacketFrames * t + 0) \div PacketFrames = t
    BY <1>2, <2>2, Remainder, Zenon
  <2> QED
    BY <2>1, <2>3, Zenon
<1>5. /\ Len(sender.pending) < PacketFrames
      /\ sender.pending = A!Numbers(t * PacketFrames + 1, Len(sender.pending))
      /\ sender.sequence = (t - sender.skipped) % Sequences
      /\ sender.timestamp = ((t - sender.skipped) * PacketFrames) % Timestamps
      /\ rtp # A!NoPacket =>
            /\ rtp.sequence = (t - sender.skipped - 1) % Sequences
            /\ rtp.timestamp = ((t - sender.skipped - 1) * PacketFrames) % Timestamps
            /\ \E k \in 0..(t - 1) : rtp.samples = A!Numbers(k * PacketFrames + 1, PacketFrames)
  BY <1>1 DEF Tile
<1> HIDE DEF turns
<1>6. /\ Len(sender.pending) < PacketFrames
      /\ sender.pending = A!Numbers(turns * PacketFrames + 1, Len(sender.pending))
      /\ sender.sequence = (turns - sender.skipped) % Sequences
      /\ sender.timestamp = ((turns - sender.skipped) * PacketFrames) % Timestamps
      /\ rtp # A!NoPacket =>
            /\ rtp.sequence = (turns - sender.skipped - 1) % Sequences
            /\ rtp.timestamp = ((turns - sender.skipped - 1) * PacketFrames) % Timestamps
            /\ \E k \in 0..(turns - 1) : rtp.samples = A!Numbers(k * PacketFrames + 1, PacketFrames)
  BY <1>4, <1>5, Zenon
<1> QED
  BY <1>6, Zenon DEF PacketsTile, A!PacketsTile, turns

\* The packets tile what was captured: no frame is sent twice, split or left behind,
\* and sequence number and timestamp advance together over both of their wraps,
\* skipping what the encoder refused (RtpSenderCallback, oamr_audio.cpp:85-107).
THEOREM PacketsAreTiles == A!Spec => []PacketsTile
<1>1. A!AudioAssumption
  BY ThreadsAssumption
<1>2. A!Init => SenderInv
  BY <1>1, NewTiles DEF A!Init, SenderInv
<1>3. A!Spec => []SenderInv
  BY <1>1, <1>2, SenderStep, PTL DEF A!Spec
<1>4. SenderInv => PacketsTile
  BY <1>1, SenderTiles
<1> QED
  BY <1>3, <1>4, PTL
=============================================================================
