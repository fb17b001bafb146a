---------------------------- MODULE AndroidAudio ----------------------------
(***************************************************************************)
(* The audio engine of the Android node (oamr_audio.cpp): one network      *)
(* route at a time, the microphone as RTP packets or RTP packets to the    *)
(* speaker, and a microphone of its own for the level meter.               *)
(*                                                                         *)
(* Four threads meet here: the caller of a native method (one at a time,   *)
(* network.mutex), the receiver thread, and the microphone's and the       *)
(* speaker's callback threads.  Samples are numbered as they come in.      *)
(***************************************************************************)
EXTENDS Integers, Sequences

CONSTANTS
    Capacity,         \* samples a SampleQueue holds
    PacketFrames,     \* kPacketFrames
    Sequences,        \* the range of the RTP sequence number, 2^16
    Timestamps,       \* the range of the RTP timestamp, 2^32
    MaxDecoded,       \* bound: frames of one received packet
    MaxBurst,         \* bound: frames of one callback
    MaxReceived,      \* bound: samples received
    MaxCaptured       \* bound: samples captured by one sender

\* The array of a SampleQueue has room (kSampleRate * 2, oamr_audio.cpp:150) and so
\* has a packet (kPacketFrames).
AudioAssumption ==
    /\ {Capacity, PacketFrames, Sequences, Timestamps} \subseteq Nat \ {0}
    /\ {MaxDecoded, MaxBurst, MaxReceived, MaxCaptured} \subseteq Nat

VARIABLES
    call,             \* where the native method is, "idle" outside
    want, answer,     \* the method called, the last answer given
    running,          \* receiver_running
    socket,           \* receiver_socket's number: "none", "open", or after close
                      \* "closed" until another file of the app gets it: "reused"
    thread, frames,   \* where receiver_thread is, the frames it has decoded
    input, output,    \* network.input_stream and output_stream
    opening,          \* the stream start_receiver holds until the port is bound
    stray,            \* a stream it dropped while it played still plays
    monitor,          \* monitor_input_stream
    sender,           \* the RtpSenderCallback of input
    packet,           \* the last RTP packet it sent, or NoPacket
    queue,            \* received_samples: data, read and size
    received, heard   \* samples pushed so far, the last one played

vars == <<call, want, answer, running, socket, thread, frames, input, output, opening,
          stray, monitor, sender, packet, queue, received, heard>>
method == <<call, want, answer>>
receiver == <<running, socket, thread, frames>>
streams == <<input, output, opening, stray, monitor>>
sending == <<sender, packet>>
samples == <<queue, received, heard>>

------------------------------------------------------------------------------
(* SampleQueue: a ring that drops its oldest sample when it is full.       *)

\* Mutant of PushOne: a full ring drops the sample that comes.
PushOneUnlessFull(q, sample) ==
    IF q.size = Capacity THEN q
    ELSE [q EXCEPT !.data[(q.read + q.size) % Capacity] = sample, !.size = @ + 1]

PushOne(q, sample) ==
    LET full == q.size = Capacity
        read == IF full THEN (q.read + 1) % Capacity ELSE q.read
        size == IF full THEN q.size - 1 ELSE q.size
    IN  [data |-> [q.data EXCEPT ![(read + size) % Capacity] = sample],
         read |-> read, size |-> size + 1]

\* push, sample by sample.
Push(q, list) ==
    LET after[n \in 0..Len(list)] ==
            IF n = 0 THEN q ELSE PushOne(after[n - 1], list[n])
    IN  after[Len(list)]

Available(q, count) == IF count < q.size THEN count ELSE q.size
Popped(q, count) == [i \in 1..Available(q, count) |-> q.data[(q.read + i - 1) % Capacity]]
Pop(q, count) ==
    [data |-> q.data, read |-> (q.read + Available(q, count)) % Capacity,
     size |-> q.size - Available(q, count)]

------------------------------------------------------------------------------
(* RtpSenderCallback::onAudioReady.                                        *)

NoPacket == [sequence |-> 0, timestamp |-> 0, samples |-> << >>]
NewSender == [pending |-> << >>, captured |-> 0, sequence |-> 0, timestamp |-> 0, skipped |-> 0]

Numbers(first, count) == [i \in 1..count |-> first + i - 1]
Capture(s, burst) ==
    [s EXCEPT !.pending = @ \o Numbers(s.captured + 1, burst), !.captured = @ + burst]

\* Mutant of Encoded: a packet that is not sent counts in the sequence number.
EncodedCounted(s, sent) ==
    [s EXCEPT !.pending = SubSeq(@, PacketFrames + 1, Len(@)),
              !.sequence = (@ + 1) % Sequences,
              !.timestamp = IF sent THEN (@ + PacketFrames) % Timestamps ELSE @,
              !.skipped = IF sent THEN @ ELSE @ + 1]

\* One turn of the loop: the encoder may fail, then nothing is sent or counted.
Encoded(s, sent) ==
    [s EXCEPT !.pending = SubSeq(@, PacketFrames + 1, Len(@)),
              !.sequence = IF sent THEN (@ + 1) % Sequences ELSE @,
              !.timestamp = IF sent THEN (@ + PacketFrames) % Timestamps ELSE @,
              !.skipped = IF sent THEN @ ELSE @ + 1]

Packet(s) == [sequence |-> s.sequence, timestamp |-> s.timestamp,
              samples |-> SubSeq(s.pending, 1, PacketFrames)]

\* The loop, for the packets of one burst: which of them the encoder yields.
Turn(state, sent) == [sender |-> Encoded(state.sender, sent),
                      packet |-> IF sent THEN Packet(state.sender) ELSE state.packet]
Turns(s) == Len(s.pending) \div PacketFrames
Loop(s, sents) ==
    LET after[n \in 0..Len(sents)] ==
            IF n = 0 THEN [sender |-> s, packet |-> packet] ELSE Turn(after[n - 1], sents[n])
    IN  after[Len(sents)]

MicrophoneReady(burst) ==
    /\ input = "started" /\ sender.captured + burst <= MaxCaptured
    /\ LET captured == Capture(sender, burst) IN
       \E sents \in [1..Turns(captured) -> BOOLEAN] :
          /\ sender' = Loop(captured, sents).sender
          /\ packet' = Loop(captured, sents).packet
    /\ UNCHANGED <<method, receiver, streams, samples>>

\* OutputCallback::onAudioReady: what the queue lacks is silence.  Any stream that
\* was started and not stopped calls it, the engine's or not.
SpeakerReady(burst) ==
    /\ "started" \in {output, opening} \/ stray
    /\ queue' = Pop(queue, burst)
    /\ heard' = IF queue.size = 0 THEN heard ELSE Popped(queue, burst)[Available(queue, burst)]
    /\ UNCHANGED <<method, receiver, streams, sending, received>>

------------------------------------------------------------------------------
(* The native methods.                                                     *)

Init ==
    /\ call = "idle" /\ want = "stop" /\ answer = "stopped"
    /\ running = FALSE /\ socket = "none" /\ thread = "none" /\ frames = 0
    /\ input = "none" /\ output = "none" /\ opening = "none" /\ stray = FALSE /\ monitor = "none"
    /\ sender = NewSender /\ packet = NoPacket
    /\ queue = [data |-> [i \in 0..(Capacity - 1) |-> 0], read |-> 0, size |-> 0]
    /\ received = 0 /\ heard = 0

\* Each begins with NetworkState::stop, and that with the flag.
Call(w) ==
    /\ call = "idle" /\ call' = "close" /\ want' = w
    /\ running' = FALSE
    /\ UNCHANGED <<answer, socket, thread, frames, streams, sending, samples>>

\* shutdown wakes a thread that waits in recvfrom; the number is free again.
Close ==
    /\ call = "close" /\ call' = "join"
    /\ socket' = IF socket = "open" THEN "closed" ELSE socket
    /\ UNCHANGED <<want, answer, running, thread, frames, streams, sending, samples>>

\* The receiver thread is joined, then the streams end and their callbacks go; what
\* is in the queue stays.
Join ==
    /\ call = "join" /\ thread \in {"none", "ended"}
    /\ thread' = "none" /\ socket' = "none"
    /\ input' = "none" /\ output' = "none" /\ sender' = NewSender /\ packet' = NoPacket
    /\ IF want = "stop" THEN call' = "idle" /\ answer' = "stopped"
       ELSE call' = "open" /\ UNCHANGED answer
    /\ UNCHANGED <<want, running, frames, opening, stray, monitor, samples>>

Return(a) == call' = "idle" /\ answer' = a

\* The encoder, the host, the socket or the microphone fails: the callback and
\* the stream are dropped.
OpenSender ==
    /\ call = "open" /\ want = "send"
    /\ \/ Return("error") /\ UNCHANGED input
       \/ Return("sending") /\ input' = "started"
    /\ UNCHANGED <<want, receiver, output, opening, stray, monitor, sending, samples>>

\* The speaker plays before there is a socket, from what the queue still holds.
OpenSpeaker ==
    /\ call = "open" /\ want = "receive"
    /\ \/ Return("error") /\ UNCHANGED opening
       \/ call' = "bind" /\ opening' = "started" /\ UNCHANGED answer
    /\ UNCHANGED <<want, receiver, input, output, stray, monitor, sending, samples>>

\* Mutant of Bind: the stream is the engine's before the port is bound.
BindKept ==
    /\ call = "bind" /\ opening' = "none" /\ output' = opening
    /\ \/ Return("error") /\ UNCHANGED <<running, socket, thread>>
       \/ Return("receiving") /\ socket' = "open" /\ running' = TRUE /\ thread' = "check"
    /\ UNCHANGED <<want, frames, input, stray, monitor, sending, samples>>

\* The port is bound and the engine takes the stream; or it is not, and the stream
\* is dropped as it is, with neither requestStop nor close: whether it then ends
\* is Oboe's affair.
Bind ==
    /\ call = "bind" /\ opening' = "none"
    /\ \/ /\ Return("error")
          /\ stray' \in IF opening = "started" THEN {stray, TRUE} ELSE {stray}
          /\ UNCHANGED <<running, socket, thread, output>>
       \/ /\ Return("receiving")
          /\ socket' = "open" /\ running' = TRUE /\ thread' = "check" /\ output' = opening
          /\ UNCHANGED stray
    /\ UNCHANGED <<want, frames, input, monitor, sending, samples>>

\* nativeStartInput: without the mutex, and ended by nobody.
StartInput ==
    /\ monitor # "started" /\ monitor' = "started"
    /\ UNCHANGED <<method, receiver, input, output, opening, stray, sending, samples>>

\* A device goes: Oboe ends its stream, the engine keeps it.
Disconnect ==
    /\ \/ input = "started" /\ input' = "ended" /\ UNCHANGED <<output, opening, stray, monitor>>
       \/ output = "started" /\ output' = "ended" /\ UNCHANGED <<input, opening, stray, monitor>>
       \/ opening = "started" /\ opening' = "ended" /\ UNCHANGED <<input, output, stray, monitor>>
       \/ stray /\ stray' = FALSE /\ UNCHANGED <<input, output, opening, monitor>>
       \/ monitor = "started" /\ monitor' = "ended" /\ UNCHANGED <<input, output, opening, stray>>
    /\ UNCHANGED <<method, receiver, sending, samples>>

------------------------------------------------------------------------------
(* The receiver thread.                                                    *)

Check ==
    /\ thread = "check" /\ thread' = IF running THEN "call" ELSE "ended"
    /\ UNCHANGED <<method, running, socket, frames, streams, sending, samples>>

\* recvfrom waits; it fails when the number is closed, and waits for another's
\* data when the number was given away.
Recvfrom ==
    /\ thread = "call"
    /\ thread' = CASE socket = "open" -> "wait" [] socket = "closed" -> "check" [] OTHER -> "lost"
    /\ UNCHANGED <<method, running, socket, frames, streams, sending, samples>>

\* Mutant of Woken: the socket is only closed.
WokenByNobody == FALSE
Woken == thread = "wait" /\ socket # "open"

Wake ==
    /\ Woken /\ thread' = "check"
    /\ UNCHANGED <<method, running, socket, frames, streams, sending, samples>>

\* A packet: none of its frames count when it is no RTP packet or is not decoded.
Receive(n) ==
    /\ thread = "wait" /\ socket = "open" /\ received + n <= MaxReceived
    /\ frames' = n /\ thread' = IF n = 0 THEN "check" ELSE "push"
    /\ UNCHANGED <<method, running, socket, streams, sending, samples>>

PushFrames ==
    /\ thread = "push" /\ thread' = "check"
    /\ queue' = Push(queue, Numbers(received + 1, frames))
    /\ received' = received + frames /\ frames' = 0
    /\ UNCHANGED <<method, running, socket, streams, sending, heard>>

\* Another thread of the app opens a file or a socket and gets the number; what it
\* receives may end the thread's wait, and is lost to it.
Reuse ==
    /\ socket = "closed" /\ socket' = "reused"
    /\ UNCHANGED <<method, running, thread, frames, streams, sending, samples>>
Steal ==
    /\ thread = "lost" /\ thread' = "check"
    /\ UNCHANGED <<method, running, socket, frames, streams, sending, samples>>

Method == Close \/ Join \/ OpenSender \/ OpenSpeaker \/ Bind
Receiver == Check \/ Recvfrom \/ Wake \/ PushFrames

Next ==
    \/ \E w \in {"send", "receive", "stop"} : Call(w)
    \/ Method \/ StartInput
    \/ Receiver \/ Reuse \/ Steal
    \/ \E n \in 0..MaxDecoded : Receive(n)
    \/ \E burst \in 1..MaxBurst : MicrophoneReady(burst) \/ SpeakerReady(burst)
    \/ Disconnect

\* A method goes on, the receiver thread is scheduled; nobody has to send or call.
Fairness == WF_vars(Method) /\ WF_vars(Receiver)

Spec == Init /\ [][Next]_vars /\ Fairness

------------------------------------------------------------------------------
\* The answer tells what the engine holds until the next call: one direction at a
\* time, its thread alive and its socket open, and after an error nothing that a
\* stop would have to end, at whatever step the start failed (lines 172-215).  Of
\* the stream a failed bind drops it says nothing: nobody can stop that one.
AnswerTells ==
    call = "idle" =>
        /\ input # "none" <=> answer = "sending"
        /\ output # "none" <=> answer = "receiving"
        /\ running <=> answer = "receiving"
        /\ socket = (IF answer = "receiving" THEN "open" ELSE "none")
        /\ thread \in IF answer = "receiving" THEN {"check", "call", "wait", "push"} ELSE {"none"}

\* The queue holds exactly the newest samples that were received and not heard, in
\* their order, whatever bursts come in and go out and however its ring turned: a
\* session that follows another begins with what that one left.
NewestKept ==
    /\ queue.size = IF received - heard < Capacity THEN received - heard ELSE Capacity
    /\ Popped(queue, queue.size) = Numbers(received - queue.size + 1, queue.size)

\* The packets tile what was captured: no frame is sent twice, split or left
\* behind, the callback leaves less than one packet, and sequence number and
\* timestamp advance together over both of their wraps, skipping what the encoder
\* refused.
PacketsTile ==
    LET turns == (sender.captured - Len(sender.pending)) \div PacketFrames
        sent  == turns - sender.skipped
    IN  /\ Len(sender.pending) < PacketFrames
        /\ sender.pending = Numbers(turns * PacketFrames + 1, Len(sender.pending))
        /\ sender.sequence = sent % Sequences
        /\ sender.timestamp = (sent * PacketFrames) % Timestamps
        /\ packet # NoPacket =>
              /\ packet.sequence = (sent - 1) % Sequences
              /\ packet.timestamp = ((sent - 1) * PacketFrames) % Timestamps
              /\ \E k \in 0..(turns - 1) : packet.samples = Numbers(k * PacketFrames + 1, PacketFrames)

\* Every method returns, so stop never waits for ever for a thread that waits for a
\* packet: unless the descriptor the thread is about to use was given away.
MethodReturns == (call # "idle") ~> (call = "idle" \/ thread = "lost")
=============================================================================
