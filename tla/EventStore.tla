---------------------------- MODULE EventStore ----------------------------
(***************************************************************************)
(* The SQLite file of yess and the processes that open it: init_db, the    *)
(* two tables of the event log, the trigger that checks event versions,    *)
(* and the write operations of Sqlite_stream_repo.  A process is a yess    *)
(* server or an interactive shell (yess -i); each holds one connection.    *)
(* The handler threads of one server share its connection, whose mutex     *)
(* makes every sqlite3_step atomic, so for one-statement writes a process  *)
(* is the unit of interleaving.  Sqlite_stream_repo::remove is the only    *)
(* operation of several statements; it is two actions here.                *)
(*                                                                         *)
(* A statement that SQLite refuses (a constraint, RAISE(ABORT), a missing  *)
(* table, SQLITE_BUSY) raises SQLite::Exception and changes nothing: it is *)
(* a stuttering step.                                                      *)
(***************************************************************************)
EXTENDS Naturals, Rowids

CONSTANTS
    Proc,        \* processes that open the database file
    Shell,       \* those that are interactive shells; only they can delete a stream
    StreamId,    \* stream ids a row can get or a request can name
    EventId,     \* ids an event row can get (bounds the number of appends)
    Version,     \* versions a push request can carry
    Type,        \* stream types
    Data,        \* what an event carries: its type and payload
    MaxOpens,    \* bound on the number of process starts
    Exclusive    \* TRUE: no crash of, and no second start during, the creation of the file

ASSUME ConstantsAssumption ==
    /\ Shell \subseteq Proc
    /\ StreamId \subseteq Nat
    /\ EventId \subseteq Nat \ {0}
    /\ Version \subseteq Nat
    /\ MaxOpens \in Nat
    /\ Exclusive \in BOOLEAN

VARIABLES
    file,        \* the database file exists
    schema,      \* the schema objects it holds
    streams,     \* table streams: row id -> row
    events,      \* table events: row id -> row
    pc,          \* where each process is, in init_db and after it
    fk,          \* PRAGMA foreign_keys of each process's connection
    removing,    \* the stream ids of the delete transaction a process is in: {} or {id}
    opens,       \* how many processes have been started
    lapsed       \* history: the checks that were not in force when some event was inserted

db == <<streams, events>>
vars == <<file, schema, streams, events, pc, fk, removing, opens, lapsed>>

---------------------------------------------------------------------------
(* The tables.                                                             *)

Tables == {"streams", "events"}
FullSchema == Tables \cup {"ver_valid", "projections"}
Checks == {"ver_valid", "foreign_keys"}

StreamRow == [type : Type]
EventRow == [stream_id : StreamId, version : Version, data : Data]

EventsOf(s) == {e \in DOMAIN events : events[e].stream_id = s}
VersionsOf(s) == {events[e].version : e \in EventsOf(s)}

\* The log of a stream: what its events carry, in the order of their versions.
LogOf(s) == [v \in VersionsOf(s) |->
                events[CHOOSE e \in EventsOf(s) : events[e].version = v].data]

\* Mutation of Accepts: neither the trigger nor UNIQUE(stream_id, version).
AcceptsAnyVersion(p, s, v) == pc[p] = "ready" /\ (fk[p] => s \in DOMAIN streams)

\* Mutation of VersionValid: no 'Event version mismatch.' clause.
OnlyFirstVersionValid(s, v) == VersionsOf(s) = {} => v = 1

\* The trigger ver_valid, one conjunct per WHEN ... RAISE(ABORT).
VersionValid(s, v) ==
    /\ VersionsOf(s) = {} => v = 1
    /\ VersionsOf(s) # {} => /\ v - 1 \in VersionsOf(s)
                             /\ \A w \in VersionsOf(s) : w < v

\* UNIQUE(stream_id, version)
VersionFree(s, v) == v \notin VersionsOf(s)

\* Mutation of ForeignKeyHolds: the constraint is not declared.
NoForeignKey(p, s) == TRUE

\* FOREIGN KEY(stream_id) REFERENCES streams(id), enforced per connection.
ForeignKeyHolds(p, s) == fk[p] => s \in DOMAIN streams

\* A delete transaction holds the RESERVED lock of the file from its first
\* DELETE on: every other write is refused with SQLITE_BUSY.
Unlocked == \A q \in Proc : removing[q] = {}

\* A statement can be prepared by p only if its tables exist.
CanWrite(p) == pc[p] = "ready" /\ Tables \subseteq schema /\ Unlocked

\* What decides about the INSERT of an event.
Accepts(p, s, v) ==
    /\ CanWrite(p)
    /\ "ver_valid" \in schema => VersionValid(s, v)
    /\ VersionFree(s, v)
    /\ ForeignKeyHolds(p, s)

---------------------------------------------------------------------------
(* Starting a process: the Action_handler constructor and init_db.         *)

Creating(p) == pc[p] \in {"absent", "tables", "trigger", "projections"}

\* Outside shutdown and crash nothing is assumed of other processes, unless
\* Exclusive says that file creation is left alone.
Undisturbed == Exclusive => \A q \in Proc : ~Creating(q)

\* fs::exists(conn_str)
CheckFile(p) ==
    /\ pc[p] = "down"
    /\ opens < MaxOpens
    /\ Undisturbed
    /\ opens' = opens + 1
    /\ pc' = [pc EXCEPT ![p] = IF file THEN "exists" ELSE "absent"]
    /\ UNCHANGED <<file, schema, db, fk, removing, lapsed>>

\* Mutation of OpenFile: the pragma is not executed.
OpenWithoutPragma(p) ==
    /\ pc[p] \in {"exists", "absent"}
    /\ file' = TRUE
    /\ pc' = [pc EXCEPT ![p] = IF pc[p] = "exists" THEN "ready" ELSE "tables"]
    /\ UNCHANGED <<schema, db, fk, removing, opens, lapsed>>

\* Opening with OPEN_CREATE makes an empty file.  Only the process that found
\* no file goes on to PRAGMA foreign_keys = ON and to the tables; the other
\* returns with the pragma at SQLite's default, OFF.
OpenFile(p) ==
    /\ pc[p] \in {"exists", "absent"}
    /\ file' = TRUE
    /\ fk' = [fk EXCEPT ![p] = pc[p] = "absent"]
    /\ pc' = [pc EXCEPT ![p] = IF pc[p] = "exists" THEN "ready" ELSE "tables"]
    /\ UNCHANGED <<schema, db, removing, opens, lapsed>>

\* Mutation of CreateTables: init_db skips the trigger.
CreateTablesOnly(p) ==
    /\ pc[p] = "tables"
    /\ Tables \cap schema = {}
    /\ schema' = schema \cup Tables
    /\ pc' = [pc EXCEPT ![p] = "projections"]
    /\ UNCHANGED <<file, db, fk, removing, opens, lapsed>>

\* One transaction for both tables.
CreateTables(p) ==
    /\ pc[p] = "tables"
    /\ Tables \cap schema = {}
    /\ schema' = schema \cup Tables
    /\ pc' = [pc EXCEPT ![p] = "trigger"]
    /\ UNCHANGED <<file, db, fk, removing, opens, lapsed>>

CreateTrigger(p) ==
    /\ pc[p] = "trigger"
    /\ Unlocked
    /\ schema' = schema \cup {"ver_valid"}
    /\ pc' = [pc EXCEPT ![p] = "projections"]
    /\ UNCHANGED <<file, db, fk, removing, opens, lapsed>>

CreateProjections(p) ==
    /\ pc[p] = "projections"
    /\ Unlocked
    /\ schema' = schema \cup {"projections"}
    /\ pc' = [pc EXCEPT ![p] = "ready"]
    /\ UNCHANGED <<file, db, fk, removing, opens, lapsed>>

\* The process ends: it exits, crashes, or an exception leaves init_db (a
\* table that exists already, SQLITE_BUSY).  Its open transaction is rolled
\* back and the pragma goes with the connection.
Terminate(p) ==
    /\ pc[p] # "down"
    /\ Exclusive => ~Creating(p)
    /\ pc' = [pc EXCEPT ![p] = "down"]
    /\ fk' = [fk EXCEPT ![p] = FALSE]
    /\ removing' = [removing EXCEPT ![p] = {}]
    /\ UNCHANGED <<file, schema, db, opens, lapsed>>

---------------------------------------------------------------------------
(* The write operations.                                                   *)

CreateStream(p, t) ==
    /\ CanWrite(p)
    /\ \E id \in StreamId :
          /\ IsNewRowid(DOMAIN streams, id)
          /\ streams' = [s \in DOMAIN streams \cup {id} |->
                            IF s = id THEN [type |-> t] ELSE streams[s]]
    /\ UNCHANGED <<file, schema, events, pc, fk, removing, opens, lapsed>>

AttachEvent(p, s, v, d) ==
    /\ Accepts(p, s, v)
    /\ \E id \in EventId :
          /\ IsNewRowid(DOMAIN events, id)
          /\ events' = [e \in DOMAIN events \cup {id} |->
                           IF e = id THEN [stream_id |-> s, version |-> v, data |-> d]
                                     ELSE events[e]]
    /\ lapsed' = lapsed \cup (IF "ver_valid" \in schema THEN {} ELSE {"ver_valid"})
                        \cup (IF fk[p] THEN {} ELSE {"foreign_keys"})
    /\ UNCHANGED <<file, schema, streams, pc, fk, removing, opens>>

\* Mutation of RemoveEvents: a second remove joins a transaction left open.
RemoveEventsNested(p, s) ==
    /\ p \in Shell
    /\ pc[p] = "ready" /\ Tables \subseteq schema
    /\ removing' = [removing EXCEPT ![p] = @ \cup {s}]
    /\ UNCHANGED <<file, schema, db, pc, fk, opens, lapsed>>

\* Mutation of RemoveEvents: no transaction around the two deletions.
RemoveEventsAtOnce(p, s) ==
    /\ p \in Shell
    /\ CanWrite(p)
    /\ removing' = [removing EXCEPT ![p] = {s}]
    /\ events' = [e \in DOMAIN events \ EventsOf(s) |-> events[e]]
    /\ UNCHANGED <<file, schema, streams, pc, fk, opens, lapsed>>

\* remove(id): BEGIN, then DELETE FROM events, which takes the lock.
RemoveEvents(p, s) ==
    /\ p \in Shell
    /\ CanWrite(p)
    /\ removing' = [removing EXCEPT ![p] = {s}]
    /\ UNCHANGED <<file, schema, db, pc, fk, opens, lapsed>>

\* Mutation of RemoveCommit: the events are not deleted.
RemoveStreamOnly(p) ==
    /\ removing[p] # {}
    /\ streams' = [s \in DOMAIN streams \ removing[p] |-> streams[s]]
    /\ removing' = [removing EXCEPT ![p] = {}]
    /\ UNCHANGED <<file, schema, events, pc, fk, opens, lapsed>>

\* Mutation of RemoveCommit: DELETE FROM events WHERE id=?
RemoveEventsByRowid(p) ==
    /\ removing[p] # {}
    /\ events' = [e \in DOMAIN events \ removing[p] |-> events[e]]
    /\ streams' = [s \in DOMAIN streams \ removing[p] |-> streams[s]]
    /\ removing' = [removing EXCEPT ![p] = {}]
    /\ UNCHANGED <<file, schema, pc, fk, opens, lapsed>>

\* DELETE FROM streams and COMMIT: both deletions become visible together.
RemoveCommit(p) ==
    /\ removing[p] # {}
    /\ events' = [e \in {k \in DOMAIN events : events[k].stream_id \notin removing[p]}
                     |-> events[e]]
    /\ streams' = [s \in DOMAIN streams \ removing[p] |-> streams[s]]
    /\ removing' = [removing EXCEPT ![p] = {}]
    /\ UNCHANGED <<file, schema, pc, fk, opens, lapsed>>

\* COMMIT is refused while another process reads (SHARED lock): the exception
\* leaves the scope of the Transaction, whose destructor rolls back.
RemoveRollback(p) ==
    /\ removing[p] # {}
    /\ \E q \in Proc \ {p} : pc[q] = "ready"
    /\ removing' = [removing EXCEPT ![p] = {}]
    /\ UNCHANGED <<file, schema, db, pc, fk, opens, lapsed>>

---------------------------------------------------------------------------

Init ==
    /\ file = FALSE
    /\ schema = {}
    /\ streams = [s \in {} |-> s]
    /\ events = [e \in {} |-> e]
    /\ pc = [p \in Proc |-> "down"]
    /\ fk = [p \in Proc |-> FALSE]
    /\ removing = [p \in Proc |-> {}]
    /\ opens = 0
    /\ lapsed = {}

InitDb(p) ==
    \/ CheckFile(p)
    \/ OpenFile(p)
    \/ CreateTables(p)
    \/ CreateTrigger(p)
    \/ CreateProjections(p)

Write(p) ==
    \/ \E t \in Type : CreateStream(p, t)
    \/ \E s \in StreamId, v \in Version, d \in Data : AttachEvent(p, s, v, d)
    \/ \E s \in StreamId : RemoveEvents(p, s)
    \/ RemoveCommit(p)
    \/ RemoveRollback(p)

Next == \E p \in Proc : InitDb(p) \/ Write(p) \/ Terminate(p)

Spec == Init /\ [][Next]_vars

---------------------------------------------------------------------------
(* Properties.                                                             *)

ProcState == {"down", "exists", "absent", "tables", "trigger", "projections", "ready"}

\* The tables hold rows, a process has at most one delete transaction open.
TypeOK ==
    /\ file \in BOOLEAN
    /\ schema \subseteq FullSchema
    /\ DOMAIN streams \subseteq StreamId
    /\ streams \in [DOMAIN streams -> StreamRow]
    /\ DOMAIN events \subseteq EventId
    /\ events \in [DOMAIN events -> EventRow]
    /\ pc \in [Proc -> ProcState]
    /\ fk \in [Proc -> BOOLEAN]
    /\ removing \in [Proc -> {{}} \cup {{s} : s \in StreamId}]
    /\ opens \in Nat
    /\ lapsed \subseteq Checks

\* As long as every insertion was checked by the trigger, the versions of a
\* stream are 1, 2, ..., n without a gap, however the pushes of several
\* processes, deletions and crashes interleave ('The stream should starts
\* with event version 1.', 'Event version mismatch.').
Contiguous ==
    "ver_valid" \notin lapsed =>
        \A s \in StreamId : \E n \in Version \cup {0} : VersionsOf(s) = 1..n

\* Row ids grow along a stream although deletions let ids come back, and no
\* version is stored twice: a query that walks the table by row id and one
\* that walks the index on (stream_id, version) return a stream in the same
\* order (getEvents has no ORDER BY).
RowOrderIsVersionOrder ==
    "ver_valid" \notin lapsed =>
        \A e, f \in DOMAIN events :
            /\ events[e].stream_id = events[f].stream_id
            /\ events[e].version <= events[f].version
            => e <= f

\* As long as every insertion was made through the connection that created
\* the file, every event belongs to a stream that exists.
NoOrphansWhileEnforced ==
    "foreign_keys" \notin lapsed =>
        \A e \in DOMAIN events : events[e].stream_id \in DOMAIN streams

\* The process that created the file is protected by both checks for as long
\* as nobody else was started: they lapse only after a second start.
FirstRunIsChecked == opens <= 1 => lapsed = {}

\* If the creation of the file is never disturbed, no event ever escapes the
\* trigger, also after later restarts and with several processes.
TriggerSeesAll == Exclusive => "ver_valid" \notin lapsed

\* An event, once stored, is never altered, and it disappears only together
\* with its stream and with all the other events of its stream.
LogOnlyGrowsOrGoes ==
    [][\A e \in DOMAIN events :
          \/ e \in DOMAIN events' /\ events'[e] = events[e]
          \/ /\ events[e].stream_id \notin DOMAIN streams'
             /\ \A f \in DOMAIN events' : events'[f].stream_id # events[e].stream_id]_vars

\* A stream starts its life without events, also when its row id was used by
\* a stream deleted before ("create a new event stream").
FreshStreamIsEmpty ==
    [][\A s \in DOMAIN streams' \ DOMAIN streams :
          "foreign_keys" \notin lapsed =>
              \A f \in DOMAIN events' : events'[f].stream_id # s]_vars

\* Declared by the schema: FOREIGN KEY(stream_id) REFERENCES streams(id).
NoOrphans == \A e \in DOMAIN events : events[e].stream_id \in DOMAIN streams
===========================================================================
