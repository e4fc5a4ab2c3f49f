--------------------------- MODULE MCEventStore ---------------------------
(* The refinement of EventLog by EventStore, for small instances. *)
EXTENDS EventStore

Log == INSTANCE EventLog WITH
           live <- DOMAIN streams,
           log <- [s \in StreamId |-> LogOf(s)],
           strict <- "foreign_keys" \notin lapsed

\* With any number of restarts, shells beside servers, crashes and rollbacks,
\* the store is a log per stream id: pushes extend one log by one event,
\* deletions empty one log, and nothing else is visible.  Events go into
\* existing streams as long as only the maker of the file has pushed.
ImplementsLog == Log!Spec
===========================================================================
