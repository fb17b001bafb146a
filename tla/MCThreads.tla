------------------------------ MODULE MCThreads ------------------------------
(***************************************************************************)
(* Instances of RtpPipeline, Discovery and AndroidAudio for TLC: what      *)
(* starts, waits and stops in threads of its own.  They do not interact,   *)
(* so one run checks them side by side: part says which of them a          *)
(* behaviour is about, and the others stand still.                         *)
(***************************************************************************)
EXTENDS RtpPipeline, TLC

\* Selectors of WASAPI, PulseAudio or ALSA, of two versions of the PipeWire plugin
\* and of one without a string property; the text may have no separator, or a
\* factory that is none.
Full(device) == [form |-> "full", values |-> <<device>>]
Node(id) == [form |-> "full", values |-> (2 :> "" @@ 3 :> id)]
Path(id) == [form |-> "full", values |-> (2 :> id)]
DefaultOnly == [form |-> "full", values |-> << >>]
Plain == [form |-> "plain", values |-> <<"mic">>]
Bad == [form |-> "bad", values |-> <<"mic">>]
Profile(latency, mode) == [quality |-> "low", max_latency |-> latency, mode |-> mode]

Request(kind, ports, networks, gains, sources, sinks, links) ==
    [kind |-> kind, host |-> TRUE, ports |-> ports, networks |-> networks, gains |-> gains,
     sources |-> sources, sinks |-> sinks, links |-> links]
Link(source, sink) == [source |-> source, sink |-> sink]
Medium == Profile(100, "auto")

\* Every kind, each way of being refused, and every latency and mode on a receiver.
MCRequests ==
    {Request("send", <<5>>, <<Medium>>, << >>, <<Full("mic")>>, << >>, << >>),
     [Request("send", <<5>>, <<Medium>>, << >>, <<Plain>>, << >>, << >>) EXCEPT !.host = FALSE],
     Request("receive", <<0>>, <<Medium>>, << >>, << >>, <<Plain>>, << >>),
     Request("mixer", <<5, 6>>, <<Profile(40, "stable"), Medium>>, <<100, 100>>, << >>, <<Full("out")>>, << >>),
     Request("mixer", <<5>>, <<Medium>>, <<100>>, << >>, <<Full("out")>>, << >>),
     Request("loopback", << >>, << >>, << >>, <<Full("mic")>>, <<Full("out")>>, << >>),
     Request("fanout", << >>, << >>, << >>, <<Full("mic")>>, <<Full("out"), Bad, Node("usb")>>, << >>),
     Request("fanout", << >>, << >>, << >>, <<Plain>>, << >>, << >>),
     Request("matrix", << >>, << >>, <<100, 100>>, <<Path("mic"), Bad>>, <<Full("out"), DefaultOnly>>,
             <<Link(1, 2), Link(2, 1)>>),
     Request("matrix", << >>, << >>, <<100>>, <<Plain>>, <<Full("out")>>, <<Link(1, 2)>>)}
    \cup {Request("receive", <<5>>, <<Profile(latency, mode)>>, << >>, << >>, <<Full("out")>>, << >>) :
              latency \in MaxLatencies \cup {80}, mode \in Modes}

------------------------------------------------------------------------------
CONSTANT MaxLost

VARIABLES part, up, web, leaving, enabled, saved, socket, stopping, thread, due,
          inbox, listed, gap, lost, near

discoveryVars == <<up, web, leaving, enabled, saved, socket, stopping, thread, due,
                   inbox, listed, gap, lost, near>>

D == INSTANCE Discovery

------------------------------------------------------------------------------
CONSTANTS Capacity, PacketFrames, Sequences, Timestamps,
          MaxDecoded, MaxBurst, MaxReceived, MaxCaptured

VARIABLES method, want, message, running, receiver_socket, receiver_thread, frames,
          input, output, opening, stray, monitor, sender, rtp, queue, received, heard

audioVars == <<method, want, message, running, receiver_socket, receiver_thread, frames,
               input, output, opening, stray, monitor, sender, rtp, queue, received, heard>>

A == INSTANCE AndroidAudio WITH
         call <- method, answer <- message, socket <- receiver_socket, thread <- receiver_thread, packet <- rtp

ASSUME ThreadsAssumption == D!LossAssumption /\ A!AudioAssumption

------------------------------------------------------------------------------
MCInit ==
    /\ Init /\ D!Init /\ A!Init
    /\ part \in {"pipeline", "discovery", "audio"}
    /\ part # "pipeline" => settings = CHOOSE s \in Requests : TRUE
    /\ part # "discovery" => ~near

\* A step of one part.
Pipeline(step) == part = "pipeline" /\ step /\ UNCHANGED <<part, discoveryVars, audioVars>>
Neighbours(step) == part = "discovery" /\ step /\ UNCHANGED <<part, vars, audioVars>>
Audio(step) == part = "audio" /\ step /\ UNCHANGED <<part, vars, discoveryVars>>

\* The disjuncts of each part's Next.
MCNext ==
    \/ \E s \in Requests : Pipeline(Create(s))
    \/ Pipeline(StartStep)
    \/ Pipeline(Poll)
    \/ \E i \in 1..3, gain \in Gains : Pipeline(SetGain(i, gain))
    \/ Pipeline(Stop)
    \/ Pipeline(StopFailed)
    \/ Pipeline(Destroy)
    \/ \E text \in {"error", "eos"} : Pipeline(Post(text))
    \/ \E j \in DOMAIN pipeline.stats, fate \in {"pushed", "lost"} : Pipeline(Packet(j, fate))
    \/ Neighbours(D!Start)
    \/ Neighbours(D!Kill)
    \/ Neighbours(D!Web)
    \/ Neighbours(D!Enable)
    \/ Neighbours(D!Disable)
    \/ Neighbours(D!Read)
    \/ Neighbours(D!Thread)
    \/ Neighbours(D!Abort)
    \/ \E arrives \in BOOLEAN : Neighbours(D!Announce(arrives))
    \/ Neighbours(D!Leave)
    \/ Neighbours(D!Tick)
    \/ \E w \in {"send", "receive", "stop"} : Audio(A!Call(w))
    \/ Audio(A!Method)
    \/ Audio(A!StartInput)
    \/ Audio(A!Receiver)
    \/ Audio(A!Reuse)
    \/ Audio(A!Steal)
    \/ \E n \in 0..MaxDecoded : Audio(A!Receive(n))
    \/ \E burst \in 1..MaxBurst : Audio(A!MicrophoneReady(burst)) \/ Audio(A!SpeakerReady(burst))
    \/ Audio(A!Disconnect)

\* The fairness of each part: where it stands still, none of its fair actions is
\* enabled.
MCSpec ==
    /\ MCInit /\ [][MCNext]_<<part, vars, discoveryVars, audioVars>>
    /\ Fairness /\ D!Fairness /\ A!Fairness

\* The switch, the socket and the thread agree (Discovery, pairing_service.cpp:281-374).
SwitchIsTrue == D!SwitchIsTrue
\* A neighbour that announces itself stays listed (Discovery, pairing_service.cpp:447-478).
StaysListed == D!StaysListed
\* Discovery can be stopped (Discovery, pairing_service.cpp:365-374).
StopReturns == D!StopReturns
\* A neighbour is found (Discovery, pairing_service.cpp:281-363).
NeighbourFound == D!NeighbourFound
\* The answer of a native method is true (AndroidAudio, oamr_audio.cpp:153-238).
AnswerTells == A!AnswerTells
\* The speaker's queue holds the newest samples (AndroidAudio, oamr_audio.cpp:35-53).
NewestKept == A!NewestKept
\* RTP packets tile what was captured (AndroidAudio, oamr_audio.cpp:85-107).
PacketsTile == A!PacketsTile
\* Native methods return (AndroidAudio, oamr_audio.cpp:153-161).
MethodReturns == A!MethodReturns
=============================================================================
