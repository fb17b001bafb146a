----------------------------- MODULE AudioRoute -----------------------------
(***************************************************************************)
(* What AudioBackend and AudioRoute (src/include/oamr/audio/               *)
(* audio_backend.hpp) promise their consumers, and what RouteTable takes a *)
(* route to be: creating one gives a route that runs or nothing; a failure *)
(* is told by the next poll and by no other; stop releases everything.     *)
(* RtpPipeline implements this specification.                              *)
(***************************************************************************)
VARIABLES
    route,            \* the consumer's view: "none" before create_* returns one
    answer            \* what the last poll said

vars == <<route, answer>>

Init == route = "none" /\ answer = TRUE

\* create_* returns a route, which may have failed in the meantime.
Create == route = "none" /\ route' \in {"running", "failed"} /\ UNCHANGED answer

\* A device disappears, a stream ends.
Fail == route = "running" /\ route' = "failed" /\ UNCHANGED answer

Poll ==
    /\ route \in {"running", "failed"}
    /\ answer' = (route = "running")
    /\ route' = IF route = "running" THEN "running" ELSE "reported"

Stop == route \in {"running", "failed", "reported"} /\ route' = "stopped" /\ UNCHANGED answer

\* The consumer drops the stopped route and may create another.
Destroy == route = "stopped" /\ route' = "none" /\ answer' = TRUE

Next == Create \/ Fail \/ Poll \/ Stop \/ Destroy

Spec == Init /\ [][Next]_vars
=============================================================================
