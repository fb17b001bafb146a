----------------------------- MODULE Discovery -----------------------------
(***************************************************************************)
(* LAN discovery of one desktop node (src/src/pairing/pairing_service.cpp) *)
(* inside the life of its process (start, stop, and WebServer::serve of    *)
(* web_server.cpp): the web thread switches it, the discovery thread       *)
(* announces this node and lists the neighbours it hears.                  *)
(*                                                                         *)
(* One neighbour runs the same loop.  Time is counted in the 200 ms that a *)
(* turn of the loop lasts at most; a neighbour announces itself every 10   *)
(* or 11 of them.  A thread with something to do does it within a tick.    *)
(***************************************************************************)
EXTENDS Integers

CONSTANTS MaxLost     \* the announcements the network loses in a row at most

VARIABLES
    up,               \* the process runs
    web,              \* where the web thread is
    leaving,          \* stop_discovery is part of PairingService::stop
    enabled,          \* discovery_enabled
    saved,            \* the discovery row of the state file
    socket,           \* discovery_socket is open
    stopping,         \* discovery_stopping
    thread,           \* where discovery_worker is
    due,              \* this node's own next announcement is due
    inbox,            \* whose announcement the socket holds, or none
    listed,           \* discovered: age of the neighbour's entry, or NotListed
    gap, lost,        \* ticks since the neighbour's last announcement, lost in a row
    near              \* the neighbour is there

vars == <<up, web, leaving, enabled, saved, socket, stopping, thread, due, inbox, listed, gap, lost, near>>
neighbour == <<gap, lost, near>>
switch == <<up, web, leaving, enabled, saved>>
air == <<due, inbox, listed>>

NotListed == -1

\* next_announcement = now + 2 s.
Period == 10

\* seen < now - 7 s.
Expiry == 35

\* What Discovery takes for granted of its constant: the network does not lose so many
\* announcements in a row that the next one comes too late.
LossAssumption == MaxLost \in Nat /\ (MaxLost + 1) * (Period + 1) <= Expiry

Init ==
    /\ up = FALSE /\ web = "idle" /\ leaving = FALSE
    /\ enabled = FALSE /\ saved = FALSE
    /\ socket = FALSE /\ stopping = TRUE /\ thread = "none"
    /\ due = TRUE /\ inbox = "none" /\ listed = NotListed
    /\ gap = 0 /\ lost = 0 /\ near \in BOOLEAN

------------------------------------------------------------------------------
(* The process.                                                            *)

StartThread ==
    /\ socket' = TRUE /\ stopping' = FALSE /\ thread' = "top"
    /\ due' = TRUE /\ inbox' = "none" /\ UNCHANGED listed

\* Constructor and PairingService::start; failing to restore discovery only
\* switches it off in memory.  Failing to listen ends the process at once.
Start ==
    /\ ~up /\ up' = TRUE /\ web' = "serve" /\ leaving' = FALSE
    /\ \/ saved /\ enabled' = TRUE /\ StartThread
       \/ enabled' = FALSE /\ UNCHANGED <<socket, stopping, thread, air>>
    /\ UNCHANGED <<saved, neighbour>>

\* serve listens, or fails and stops the pairing service (or its destructor does).
Serve ==
    /\ web = "serve"
    /\ \/ web' = "idle" /\ UNCHANGED <<leaving, stopping>>
       \/ web' = "close" /\ leaving' = TRUE /\ stopping' = TRUE
    /\ UNCHANGED <<up, enabled, saved, socket, thread, air, neighbour>>

\* Ctrl+C, or a crash: everything of the process is gone.
Gone ==
    /\ up' = FALSE /\ web' = "idle" /\ enabled' = FALSE
    /\ socket' = FALSE /\ stopping' = TRUE /\ thread' = "none" /\ inbox' = "none"
    /\ listed' = NotListed
    /\ UNCHANGED <<leaving, due, neighbour>>

\* The file is truncated before it is written.
Kill == up /\ Gone /\ saved' \in IF web = "save" THEN {enabled, FALSE} ELSE {saved}

------------------------------------------------------------------------------
(* set_discovery_enabled on the web thread.                                *)

Enable ==
    /\ up /\ web = "idle" /\ web' = "save" /\ enabled' = TRUE
    /\ UNCHANGED <<up, leaving, saved, socket, stopping, thread, air, neighbour>>

\* save_unlocked, with the mutex held.
Saved ==
    /\ web = "save" /\ web' = (IF enabled /\ ~socket THEN "start" ELSE "idle")
    /\ saved' = enabled
    /\ UNCHANGED <<up, leaving, enabled, socket, stopping, thread, air, neighbour>>

\* Mutant of StartDiscovery: a failure leaves the switch as it is.
StartDiscoveryOrNot ==
    /\ web = "start"
    /\ \/ web' = "idle" /\ StartThread
       \/ web' = "idle" /\ UNCHANGED <<socket, stopping, thread, air>>
    /\ UNCHANGED <<up, leaving, enabled, saved, neighbour>>

\* start_discovery; when it fails the switch is turned off and saved again.
StartDiscovery ==
    /\ web = "start"
    /\ \/ web' = "idle" /\ StartThread /\ UNCHANGED enabled
       \/ web' = "save" /\ enabled' = FALSE
          /\ UNCHANGED <<socket, stopping, thread, air>>
    /\ UNCHANGED <<up, leaving, saved, neighbour>>

Disable ==
    /\ up /\ web = "idle" /\ web' = "close"
    /\ leaving' = FALSE /\ stopping' = TRUE
    /\ UNCHANGED <<up, enabled, saved, socket, thread, air, neighbour>>

\* stop_discovery: the flag is set, the socket closed, the thread joined and
\* then the list cleared.
Close ==
    /\ web = "close" /\ web' = "join"
    /\ socket' = FALSE /\ inbox' = "none"
    /\ UNCHANGED <<up, leaving, enabled, saved, stopping, thread, due, listed, neighbour>>

Joined == thread \in {"none", "ended"}

Join ==
    /\ web = "join" /\ Joined
    /\ thread' = IF Joined /\ thread = "ended" THEN "none" ELSE thread
    /\ listed' = NotListed
    /\ IF leaving THEN up' = FALSE /\ web' = "idle" /\ enabled' = FALSE
       ELSE enabled' = FALSE /\ web' = "save" /\ UNCHANGED up
    /\ UNCHANGED <<leaving, saved, socket, stopping, due, inbox, neighbour>>

\* discovered_peers, which forgets what was not heard for seven seconds.
Read ==
    /\ up /\ web = "idle"
    /\ listed' = IF listed > Expiry THEN NotListed ELSE listed
    /\ UNCHANGED <<switch, socket, stopping, thread, due, inbox, neighbour>>

------------------------------------------------------------------------------
(* discovery_loop.                                                         *)

\* Top of the loop: the flag is read, the node announced when it is time; the
\* multicast comes back to the own socket.
Top ==
    /\ thread = "top"
    /\ thread' = IF stopping THEN "ended" ELSE "wait"
    /\ due' = (due /\ stopping)
    /\ inbox' = IF due /\ ~stopping /\ socket /\ inbox = "none" THEN "own" ELSE inbox
    /\ UNCHANGED <<switch, socket, stopping, listed, neighbour>>

\* select fails at once when the socket was closed; Tick is its timeout.
Idle ==
    /\ thread = "wait" /\ ~socket /\ thread' = "top"
    /\ UNCHANGED <<switch, socket, stopping, air, neighbour>>

\* FD_SET of the invalid descriptor is undefined: it may do nothing (Idle) or,
\* checked, abort the process.
Abort == thread = "wait" /\ ~socket /\ Gone /\ saved' = saved

Receive ==
    /\ thread = "wait" /\ socket /\ inbox # "none"
    /\ thread' = inbox /\ inbox' = "none"
    /\ UNCHANGED <<switch, socket, stopping, due, listed, neighbour>>

\* Mutant of MutexFree: stop_discovery holds the mutex all the time.
MutexFreeUnlessStopping == web \notin {"save", "close", "join"}
MutexFree == web # "save"

\* Mutant of Note: only known neighbours are renewed.
NoteKnown ==
    /\ thread \in {"own", "other"} /\ MutexFree
    /\ thread' = "top"
    /\ listed' = IF thread = "other" /\ listed # NotListed THEN 0 ELSE listed
    /\ UNCHANGED <<switch, socket, stopping, due, inbox, neighbour>>

\* Mutant of Note: a known neighbour is not renewed (emplace for []).
NoteOnce ==
    /\ thread \in {"own", "other"} /\ MutexFree
    /\ thread' = "top"
    /\ listed' = IF thread = "other" /\ listed = NotListed THEN 0 ELSE listed
    /\ UNCHANGED <<switch, socket, stopping, due, inbox, neighbour>>

\* The entry is made or renewed under the mutex, the own announcement ignored.
Note ==
    /\ thread \in {"own", "other"} /\ MutexFree
    /\ thread' = "top"
    /\ listed' = IF thread = "other" THEN 0 ELSE listed
    /\ UNCHANGED <<switch, socket, stopping, due, inbox, neighbour>>

------------------------------------------------------------------------------
(* The neighbour and time.                                                 *)

\* The neighbour announces itself; the network may lose that.
Announce(arrives) ==
    /\ near /\ gap >= Period
    /\ gap' = 0
    /\ lost' = (IF arrives THEN 0 ELSE lost + 1) /\ lost' <= MaxLost
    /\ inbox' = IF arrives /\ socket THEN "other" ELSE inbox
    /\ UNCHANGED <<switch, socket, stopping, thread, due, listed, near>>

\* The neighbour is switched off for good.
Leave == near /\ near' = FALSE /\ UNCHANGED <<switch, socket, stopping, thread, air, gap, lost>>

\* 200 ms pass: no thread is in the middle of something, no announcement overdue.
Tick ==
    /\ thread \in {"none", "wait"} /\ inbox = "none" /\ web = "idle"
    /\ near => gap <= Period
    /\ gap' = IF near THEN gap + 1 ELSE 0
    /\ thread' = IF thread = "wait" THEN "top" ELSE thread
    /\ due' \in {due, TRUE}
    /\ listed' = IF listed \in 0..Expiry THEN listed + 1 ELSE listed
    /\ UNCHANGED <<switch, socket, stopping, inbox, lost, near>>

Web == Serve \/ Saved \/ StartDiscovery \/ Close \/ Join
Thread == Top \/ Idle \/ Receive \/ Note

Next ==
    \/ Start \/ Kill \/ Web
    \/ Enable \/ Disable \/ Read
    \/ Thread \/ Abort
    \/ \E arrives \in BOOLEAN : Announce(arrives)
    \/ Leave
    \/ Tick

\* The web thread goes on with its call, the discovery thread is scheduled and gets
\* the mutex, the neighbour keeps announcing itself, and time passes however busy
\* the user keeps the web thread.
Fairness ==
    /\ WF_vars(Web) /\ WF_vars(Thread) /\ SF_vars(Note)
    /\ SF_vars(Tick) /\ WF_vars(Announce(TRUE) \/ Announce(FALSE))

Spec == Init /\ [][Next]_vars /\ Fairness

------------------------------------------------------------------------------
\* Between two requests the switch the page shows, the socket and the thread agree,
\* whatever start failed or was undone: an enabled node announces itself, and a
\* disabled one lists nobody, not even by an announcement its thread was handling.
\* An enabled one is enabled again after a crash.
SwitchIsTrue ==
    up /\ web = "idle" =>
        /\ enabled <=> socket
        /\ enabled => saved
        /\ socket <=> thread # "none"
        /\ ~socket => listed = NotListed

\* A neighbour that keeps announcing itself stays in the list as long as the network
\* loses no more than MaxLost announcements in a row: two periods fit into seven
\* seconds although a turn of the loop delays each by 200 ms.
StaysListed == near => listed <= Expiry

\* Switching off and leaving come to an end: the thread that is joined never waits
\* for something the stopping thread holds.
StopReturns == web \in {"close", "join"} ~> web \in {"save", "idle"}

\* A node that stays enabled next to a neighbour finds it in the end and then has it
\* listed.
NeighbourFound == <>[](socket /\ near) => <>[](listed # NotListed)
=============================================================================
