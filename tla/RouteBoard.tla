----------------------------- MODULE RouteBoard -----------------------------
(***************************************************************************)
(* What the route table of the Web UI promises, without settings, pipeline *)
(* objects or vectors.  The board is what /api/routes shows; sound is what *)
(* the backend plays.  A listed, enabled route plays exactly what the      *)
(* board shows for it until the backend fails it; anything else is silent. *)
(* RouteTable implements this specification.                               *)
(***************************************************************************)
EXTENDS Integers, Sequences

CONSTANTS
    Ids,              \* identifiers a route may get
    Profiles,         \* network profiles
    GainValues,       \* gains an input may be given
    Rows,             \* what the board may show for a route just started
    MaxInputs         \* most inputs of one mixer

VARIABLES
    board,            \* id -> [enabled, profile (at most one), gains]
    sound,            \* id -> [profile, gains] of the routes that play
    used              \* every id ever handed out

vars == <<board, sound, used>>

\* A row shows whether the route is enabled, its network profile (a set of at
\* most one) and the gains of its mixer inputs.
Heard(row) == [profile |-> row.profile, gains |-> row.gains]

\* f without id in its domain, and f with id mapped to v.
Drop(f, id) == [x \in DOMAIN f \ {id} |-> f[x]]
Put(f, id, v) == [x \in DOMAIN f \cup {id} |-> IF x = id THEN v ELSE f[x]]

Init ==
    /\ board = << >>
    /\ sound = << >>
    /\ used = {}

\* A new route gets an id never used before and plays at once.
Start(id, row) ==
    /\ id \notin used
    /\ row.enabled
    /\ board' = Put(board, id, row)
    /\ sound' = Put(sound, id, Heard(row))
    /\ used' = used \cup {id}

Remove(id) ==
    /\ board' = Drop(board, id)
    /\ sound' = Drop(sound, id)
    /\ UNCHANGED used

Clear ==
    /\ board' = << >>
    /\ sound' = << >>
    /\ UNCHANGED used

Pause(id) ==
    /\ board' = [board EXCEPT ![id].enabled = FALSE]
    /\ sound' = Drop(sound, id)
    /\ UNCHANGED used

Resume(id) ==
    /\ ~board[id].enabled
    /\ board' = [board EXCEPT ![id].enabled = TRUE]
    /\ sound' = Put(sound, id, Heard(board[id]))
    /\ UNCHANGED used

\* A gain edit reaches the board and, when the route plays, what is heard.
SetGain(id, input, gain) ==
    /\ input \in DOMAIN board[id].gains
    /\ board' = [board EXCEPT ![id].gains[input] = gain]
    /\ sound' = IF id \in DOMAIN sound THEN [sound EXCEPT ![id].gains[input] = gain]
                                       ELSE sound
    /\ UNCHANGED used

\* A profile edit restarts an enabled route with the new profile; when the
\* restart fails the route is shown as paused, with the new profile.
SetProfile(id, profile) ==
    /\ board[id].profile # {}
    /\ UNCHANGED used
    /\ LET row == [board[id] EXCEPT !.profile = {profile}] IN
       \/ /\ ~row.enabled
          /\ board' = [board EXCEPT ![id] = row]
          /\ UNCHANGED sound
       \/ /\ row.enabled
          /\ board' = [board EXCEPT ![id] = row]
          /\ sound' = Put(sound, id, Heard(row))
       \/ /\ row.enabled
          /\ board' = [board EXCEPT ![id] = [row EXCEPT !.enabled = FALSE]]
          /\ sound' = Drop(sound, id)

\* The backend fails a playing route: silence, which the board does not show yet.
Break(id) ==
    /\ sound' = Drop(sound, id)
    /\ UNCHANGED <<board, used>>

\* The serving loop finds the broken routes and shows them as paused.
Notice ==
    /\ board' = [id \in DOMAIN board |->
                   [board[id] EXCEPT !.enabled = id \in DOMAIN sound]]
    /\ UNCHANGED <<sound, used>>

Next ==
    \/ \E id \in Ids, row \in Rows : Start(id, row)
    \/ \E id \in DOMAIN board :
          \/ Remove(id)
          \/ Pause(id)
          \/ Resume(id)
          \/ \E input \in 1..MaxInputs, gain \in GainValues : SetGain(id, input, gain)
          \/ \E profile \in Profiles : SetProfile(id, profile)
    \/ \E id \in DOMAIN sound : Break(id)
    \/ Clear
    \/ Notice

Spec == Init /\ [][Next]_vars
==============================================================================
