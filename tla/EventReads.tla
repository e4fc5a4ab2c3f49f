---------------------------- MODULE EventReads ----------------------------
(***************************************************************************)
(* The queries of Sqlite_stream_repo beside the writes of EventStore.  A   *)
(* query is a loop over sqlite3_step; other threads of the same server     *)
(* write on the same connection between two steps, and the open cursor     *)
(* sees what they inserted ahead of it.  Other processes cannot write: a   *)
(* query holds the SHARED lock of the file from its first step to its end, *)
(* and a commit elsewhere is refused with SQLITE_BUSY.                     *)
(*                                                                         *)
(* One query at a time is followed in every process; queries do not affect *)
(* each other.                                                             *)
(***************************************************************************)
EXTENDS EventStore, Sequences, SequencesExt

VARIABLE cursor      \* the query of each process

readVars == <<vars, cursor>>

---------------------------------------------------------------------------
(* Queries.  Each selects streams by id and by type, and returns either    *)
(* their rows or, through INNER JOIN, those of their events.               *)

Query == [of : {"streams", "events"}, ids : SUBSET StreamId, types : SUBSET Type]

All == [of |-> "streams", ids |-> StreamId, types |-> Type]
ByType(t) == [of |-> "streams", ids |-> StreamId, types |-> {t}]
Get(s) == [of |-> "streams", ids |-> {s}, types |-> Type]
GetEvents(s) == [of |-> "events", ids |-> {s}, types |-> Type]
GetEventsOfType(t) == [of |-> "events", ids |-> StreamId, types |-> {t}]

Queries ==
    {All} \cup {ByType(t) : t \in Type} \cup {Get(s) : s \in StreamId}
          \cup {GetEvents(s) : s \in StreamId} \cup {GetEventsOfType(t) : t \in Type}

Selected(q) == {s \in DOMAIN streams : s \in q.ids /\ streams[s].type \in q.types}

\* Mutation of Matching: LEFT JOIN's rows for streams without events, and no
\* condition on the stream.
MatchingAll(q) ==
    IF q.of = "streams"
    THEN Selected(q) \X {0}
    ELSE {<<events[e].stream_id, events[e].version>> : e \in DOMAIN events}

\* The keys of the rows that match.  A stream's key is that of an event 0.
Matching(q) ==
    IF q.of = "streams"
    THEN Selected(q) \X {0}
    ELSE UNION {{s} \X VersionsOf(s) : s \in Selected(q)}

\* The query plan: streams in the order of their ids, the events of each in the
\* order of the index on (stream_id, version).
Before(k, l) == k[1] < l[1] \/ (k[1] = l[1] /\ k[2] < l[2])

\* Mutation of Ahead: rows of streams behind the cursor are looked at again.
AheadByVersion(c) ==
    {k \in Matching(c.query) : c.rows # <<>> => Last(c.rows)[2] < k[2]}

\* What the cursor of a query has yet to return.
Ahead(c) == {k \in Matching(c.query) : c.rows # <<>> => Before(Last(c.rows), k)}

Idle == [at |-> "idle"]
Reading(p) == cursor[p].at = "reading"

\* A shell has one thread; a server goes on while it reads.
Busy(p) == p \in Shell /\ cursor[p].at # "idle"

---------------------------------------------------------------------------

\* The statement is prepared and bound; that takes no lock.
Prepare(p, q) ==
    /\ pc[p] = "ready"
    /\ Tables \subseteq schema
    /\ cursor[p].at = "idle"
    /\ removing[p] = {}
    /\ cursor' = [cursor EXCEPT ![p] =
                     [at |-> "bound", query |-> q, rows |-> <<>>, from |-> {}]]
    /\ UNCHANGED vars

\* executeStep finds a row.  The first one takes the lock; "from" remembers what
\* there was to read then.
StepRow(p) ==
    /\ cursor[p].at \in {"bound", "reading"}
    /\ \E k \in Ahead(cursor[p]) :
          /\ \A l \in Ahead(cursor[p]) \ {k} : Before(k, l)
          /\ cursor' = [cursor EXCEPT
                           ![p].at = "reading",
                           ![p].rows = Append(@, k),
                           ![p].from = IF Reading(p) THEN @ ELSE Ahead(cursor[p])]
    /\ UNCHANGED vars

\* Mutation of StepEnd: "if" for "while".
StepEndEarly(p) ==
    /\ cursor[p].at \in {"bound", "reading"}
    /\ cursor[p].rows = <<>> => Ahead(cursor[p]) = {}
    /\ cursor' = [cursor EXCEPT ![p] = Idle]
    /\ UNCHANGED vars

\* executeStep finds none: the loop ends, the statement is destroyed, the rows
\* are the answer.
StepEnd(p) ==
    /\ cursor[p].at \in {"bound", "reading"}
    /\ Ahead(cursor[p]) = {}
    /\ cursor' = [cursor EXCEPT ![p] = Idle]
    /\ UNCHANGED vars

\* Mutation of Allowed: another process's lock is ignored.
AllowedAlways(p) == TRUE

\* Whatever alters the file needs the EXCLUSIVE lock for a moment.
Allowed(p) ==
    <<schema, db>>' # <<schema, db>> => \A q \in Proc \ {p} : ~Reading(q)

\* A step of EventStore.
Store(p) ==
    /\ ~Busy(p)
    /\ InitDb(p) \/ Write(p)
    /\ Allowed(p)
    /\ UNCHANGED cursor

End(p) ==
    /\ Terminate(p)
    /\ cursor' = [cursor EXCEPT ![p] = Idle]

ReadInit == Init /\ cursor = [p \in Proc |-> Idle]

ReadNext ==
    \E p \in Proc :
        \/ \E q \in Queries : Prepare(p, q)
        \/ StepRow(p)
        \/ StepEnd(p)
        \/ Store(p)
        \/ End(p)

ReadSpec == ReadInit /\ [][ReadNext]_readVars

---------------------------------------------------------------------------
(* Properties.                                                             *)

Answered(p) == cursor[p].at # "idle" /\ cursor'[p] = Idle /\ pc'[p] = "ready"

Rows(c) == ToSet(c.rows)

\* A query is idle, or has returned rows of its own kind.
CursorTypeOK ==
    \A p \in Proc : cursor[p].at # "idle" =>
        /\ cursor[p].at \in {"bound", "reading"}
        /\ cursor[p].query \in Queries
        /\ \A i \in DOMAIN cursor[p].rows :
              /\ cursor[p].rows[i][1] \in cursor[p].query.ids
              /\ (cursor[p].rows[i][2] = 0) = (cursor[p].query.of = "streams")

\* What a query has returned is not deleted under it by a shell: the rows stay
\* rows of the query until it ends, and come once each, in the order of streams
\* and versions.
RowsAreStable ==
    \A p \in Proc : Reading(p) =>
        /\ Rows(cursor[p]) \subseteq Matching(cursor[p].query)
        /\ \A i \in 2..Len(cursor[p].rows) : Before(cursor[p].rows[i - 1], cursor[p].rows[i])

OneStream(q) == \E s \in StreamId : q.ids = {s}

\* The history of a stream, and a list of streams, are answered as they are when
\* the query ends, whatever was pushed and created meanwhile: nothing is missing
\* from the middle or the end.
HistoryIsCurrent ==
    [][\A p \in Proc :
          Answered(p) /\ (cursor[p].query.of = "streams" \/ OneStream(cursor[p].query))
          => Rows(cursor[p]) = Matching(cursor[p].query)]_readVars

\* The histories of a type are no snapshot.  But each is a prefix of its stream's
\* history without gaps, and misses nothing stored before the query's first step.
HistoriesArePrefixes ==
    [][\A p \in Proc :
          Answered(p) /\ cursor[p].query.of = "events" =>
              /\ cursor[p].from \subseteq Rows(cursor[p])
              /\ \A s \in StreamId :
                    \E n \in Version \cup {0} :
                        {k \in Rows(cursor[p]) : k[1] = s} = {s} \X (1..n)]_readVars
===========================================================================
