---------------------------- MODULE DiagnosticLog ----------------------------
(***************************************************************************)
(* The bounded diagnostic log (diagnostic_log.cpp), GET /api/logs          *)
(* (web_server.cpp) and the page that asks for what it has not seen        *)
(* (refreshServerLogs of main.ts), on a timer that does not wait for the   *)
(* answer before.                                                          *)
(***************************************************************************)
EXTENDS Integers, Sequences, FiniteSets

CONSTANTS
    MaximumEntries,   \* kMaximumEntries
    MaxEntries,       \* bound: entries written by one process
    MaxRequests,      \* bound: requests under way
    MaxRestarts       \* bound: restarts of the process

VARIABLES
    log_entries, next_sequence,
    cursor,           \* lastServerLogSequence of the page
    requests,         \* under way: sequences after which entries were asked for
    answers,          \* on their way back to the page
    shown,            \* the entries the page has taken over
    restarts, fresh   \* restarts so far; none since the page was loaded

vars == <<log_entries, next_sequence, cursor, requests, answers, shown, restarts, fresh>>
page == <<cursor, shown, fresh>>

\* What the log holds; an entry is its sequence number.
Held == {log_entries[i] : i \in DOMAIN log_entries}

\* Mutant of entries_after: the entry that follows is taken for known too.
entries_after_next(sequence) == {entry \in Held : entry > sequence + 1}

\* The page takes over all entries of an answer, so their order is left out.
entries_after(sequence) == {entry \in Held : entry > sequence}

Init ==
    /\ log_entries = << >> /\ next_sequence = 1
    /\ cursor = 0 /\ shown = {} /\ fresh = TRUE
    /\ requests = {} /\ answers = {} /\ restarts = 0

\* write, from any thread of the process.
Write ==
    /\ next_sequence <= MaxEntries /\ next_sequence' = next_sequence + 1
    /\ LET pushed == Append(log_entries, next_sequence) IN
       log_entries' = IF Len(pushed) > MaximumEntries THEN Tail(pushed) ELSE pushed
    /\ UNCHANGED <<page, requests, answers, restarts>>

\* The timer asks whether or not it was answered.
Ask ==
    /\ Cardinality(requests) + Cardinality(answers) < MaxRequests
    /\ requests' = requests \cup {cursor}
    /\ UNCHANGED <<log_entries, next_sequence, page, answers, restarts>>

Serve(after) ==
    /\ after \in requests /\ requests' = requests \ {after}
    /\ answers' = answers \cup {entries_after(after)}
    /\ UNCHANGED <<log_entries, next_sequence, page, restarts>>

\* Answers arrive in any order.
Show(entries) ==
    /\ entries \in answers /\ answers' = answers \ {entries}
    /\ shown' = shown \cup entries
    /\ cursor' = CHOOSE n \in entries \cup {cursor} : \A m \in entries \cup {cursor} : m <= n
    /\ UNCHANGED <<log_entries, next_sequence, requests, restarts, fresh>>

\* A request or an answer that is lost changes nothing.
Lose ==
    /\ \/ \E after \in requests : requests' = requests \ {after} /\ UNCHANGED answers
       \/ \E entries \in answers : answers' = answers \ {entries} /\ UNCHANGED requests
    /\ UNCHANGED <<log_entries, next_sequence, page, restarts>>

\* The process counts from one again; the page goes on with its cursor.
Restart ==
    /\ restarts < MaxRestarts /\ restarts' = restarts + 1
    /\ log_entries' = << >> /\ next_sequence' = 1
    /\ requests' = {} /\ answers' = {} /\ fresh' = FALSE
    /\ UNCHANGED <<cursor, shown>>

Reload ==
    /\ cursor' = 0 /\ shown' = {} /\ fresh' = TRUE
    /\ requests' = {} /\ answers' = {}
    /\ UNCHANGED <<log_entries, next_sequence, restarts>>

Next ==
    \/ Write \/ Ask \/ Lose \/ Restart \/ Reload
    \/ \E after \in requests : Serve(after)
    \/ \E entries \in answers : Show(entries)

Spec == Init /\ [][Next]_vars

------------------------------------------------------------------------------
\* Asking after the last sequence seen misses nothing the log still holds: what the
\* page will not ask for again it has taken over, in whatever order overlapping
\* answers came.  Only a page that outlives its process misses what the next one
\* numbers below the old cursor.
NothingSkipped ==
    fresh => \A entry \in Held : entry <= cursor => entry \in shown
=============================================================================
