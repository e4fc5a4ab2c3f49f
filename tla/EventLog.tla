----------------------------- MODULE EventLog -----------------------------
(***************************************************************************)
(* What an event store promises its clients, without files, processes,     *)
(* rows or versions: every stream id has a log, a log only grows at its    *)
(* end, and it is given up as a whole when its stream is deleted.          *)
(***************************************************************************)
EXTENDS Sequences

CONSTANTS
    StreamId,
    Data

VARIABLES
    live,        \* the streams that exist
    log,         \* stream id -> the events pushed into it, oldest first
    strict       \* until now, events have gone into existing streams only

vars == <<live, log, strict>>

Init ==
    /\ live = {}
    /\ log = [s \in StreamId |-> <<>>]
    /\ strict = TRUE

\* A new stream takes over nothing as long as the store is strict.
Create(s) ==
    /\ s \notin live
    /\ strict => log[s] = <<>>
    /\ live' = live \cup {s}
    /\ UNCHANGED <<log, strict>>

\* Strictness may end with any event; it ends with one for a stream that does not
\* exist, and never comes back.
Extend(s, d) ==
    /\ strict' \in BOOLEAN
    /\ strict' => strict /\ s \in live
    /\ log' = [log EXCEPT ![s] = Append(@, d)]
    /\ UNCHANGED live

Drop(s) ==
    /\ live' = live \ {s}
    /\ log' = [log EXCEPT ![s] = <<>>]
    /\ UNCHANGED strict

Next == \E s \in StreamId : Create(s) \/ Drop(s) \/ \E d \in Data : Extend(s, d)

Spec == Init /\ [][Next]_vars
===========================================================================
