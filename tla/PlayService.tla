---------------------------- MODULE PlayService ----------------------------
(***************************************************************************)
(* The Play call of the gRPC service, from the request to the answer, among *)
(* everything that goes on meanwhile: projections and streams are created   *)
(* and deleted, events are pushed, the server is aborted and started again. *)
(*                                                                          *)
(* The parts are those of the other modules: the table of projections is    *)
(* ProjectionStore, the event store is EventLog, which EventStore           *)
(* implements, and the engine is DukContext.  Action_handler::              *)
(* play_projection goes through them one after the other without a lock or  *)
(* a transaction around; in the event store it steps a cursor row by row,   *)
(* as EventReads has it.                                                    *)
(*                                                                          *)
(* The name of a projection's type is taken for a word that is no           *)
(* JavaScript program: the engine gets it as the source of typed            *)
(* projections, see ProjectionStore!ProjectionById.                         *)
(***************************************************************************)
EXTENDS ProjectionStore, Sequences, SequencesExt

CONSTANTS
    Thread,      \* threads of the gRPC server
    Defining,    \* scripts that define the function "projection"
    Broken,      \* scripts whose evaluation fails
    Failing,     \* scripts whose function may fail
    StreamId,
    Kind,        \* types of streams
    Event,
    BadPayload,  \* events whose payload is not JSON text
    MaxLog,      \* stream id -> bound on its events
    MaxPlays,    \* bound on the requests between two starts of the server
    StackLimit   \* entries the value stack may hold (64; one play needs up to 6)

ASSUME ServiceAssumption ==
    /\ {Defining, Broken, Failing} \subseteq SUBSET Script
    /\ Failing \subseteq Defining
    /\ BadPayload \subseteq Event
    /\ StreamId \subseteq Nat
    /\ MaxLog \in [StreamId -> Nat]
    /\ {MaxPlays, StackLimit} \subseteq Nat
    /\ StackLimit >= 6

VARIABLES
    kind,                       \* the streams that exist: stream id -> type
    log, strict,                \* EventLog
    up, stack, defined, job,    \* DukContext
    request,                    \* thread -> the Play request it serves
    plays                       \* requests since the start of the server

Log == INSTANCE EventLog WITH Data <- Event, live <- DOMAIN kind

\* The streams that DukContext makes up for itself are not used.
Engine == INSTANCE DukContext WITH
    Script <- Script \cup Type \cup {Empty},
    Broken <- Broken \cup Type,
    MaxEvents <- 0

logVars == <<kind, log, strict>>
engineVars == <<up, stack, defined, job>>
serveVars == <<vars, logVars, engineVars, request, plays>>

---------------------------------------------------------------------------
(* Events of the streams.                                                  *)

\* Where the events of the streams S are: stream and number.
Positions(S) == UNION {{s} \X DOMAIN log[s] : s \in S}

At(k) == log[k[1]][k[2]]

\* The order of a query: streams by id, the events of each by version.
Before(k, l) == k[1] < l[1] \/ (k[1] = l[1] /\ k[2] < l[2])

Stream(s) == [by |-> "id", of |-> s]
StreamType(k) == [by |-> "type", of |-> k]
Targets == {Stream(s) : s \in StreamId} \cup {StreamType(k) : k \in Kind}

\* Only streams that exist are joined.
Selected(target) ==
    {s \in DOMAIN kind : IF target.by = "id" THEN s = target.of ELSE kind[s] = target.of}

\* Mutation of Ahead: the events are not joined with the streams.
AheadInAll(r) ==
    {k \in Positions(StreamId) : r.rows # <<>> => Before(Last(r.rows), k)}

\* What the cursor of request r has yet to return.
Ahead(r) ==
    {k \in Positions(Selected(r.target)) : r.rows # <<>> => Before(Last(r.rows), k)}

---------------------------------------------------------------------------
(* Play, on thread t.                                                      *)

Idle == [at |-> "idle"]

Unknown == [data |-> Empty, type |-> Empty]

\* The client takes an id from the list of projections, or any other.  "wanted" is
\* what the list says of it, for as long as it is not deleted; "from" is what there is
\* to read; "dropped" tells that a stream of the request was deleted since.
Ask(t, id, target) ==
    /\ up
    /\ request[t] = Idle
    /\ plays < MaxPlays
    /\ plays' = plays + 1
    /\ request' = [request EXCEPT ![t] =
                      [at |-> "asked", id |-> id, target |-> target, script |-> Empty,
                       rows |-> <<>>, events |-> <<>>,
                       wanted |-> IF id \in DOMAIN asked THEN asked[id] ELSE Unknown,
                       from |-> Positions(Selected(target)),
                       dropped |-> FALSE, first |-> plays = 0]]
    /\ UNCHANGED <<vars, logVars, engineVars>>

\* proj_repo_->id(projection_id).  The columns of no row cannot be read: status 1.
ReadProjection(t) ==
    /\ up
    /\ request[t].at = "asked"
    /\ request' = [request EXCEPT ![t] =
                      IF request[t].id \in DOMAIN rows
                      THEN [@ EXCEPT !.at = "reading",
                                     !.script = ProjectionById(request[t].id).data]
                      ELSE Idle]
    /\ UNCHANGED <<vars, logVars, engineVars, plays>>

\* stream_repo_->getEvents, of a stream or of a type: executeStep finds a row, whose
\* event is put into the result.
ReadRow(t) ==
    /\ up
    /\ request[t].at = "reading"
    /\ \E k \in Ahead(request[t]) :
          /\ \A l \in Ahead(request[t]) \ {k} : Before(k, l)
          /\ request' = [request EXCEPT ![t].rows = Append(@, k),
                                        ![t].events = Append(@, At(k))]
    /\ UNCHANGED <<vars, logVars, engineVars, plays>>

\* The request goes on to the engine, and its cursor is gone.  From here on, "dropped"
\* speaks of the streams of the play.
Plays(r) ==
    [r EXCEPT !.at = "playing", !.rows = <<>>, !.events = <<>>, !.from = {},
              !.dropped = FALSE]

\* Mutation of ReadEvents: "if" for "while".
ReadEventsEarly(t) ==
    /\ request[t].at = "reading"
    /\ request[t].rows = <<>> => Ahead(request[t]) = {}
    /\ Engine!Play(t, request[t].script, request[t].events)
    /\ request' = [request EXCEPT ![t] = Plays(@)]
    /\ UNCHANGED <<vars, logVars, plays>>

\* Mutation of ReadEvents: the projection is looked up a second time.
ReadEventsAndProjection(t) ==
    /\ request[t].at = "reading"
    /\ Ahead(request[t]) = {}
    /\ request[t].id \in DOMAIN rows
    /\ Engine!Play(t, ProjectionById(request[t].id).data, request[t].events)
    /\ request' = [request EXCEPT ![t] = Plays(@)]
    /\ UNCHANGED <<vars, logVars, plays>>

\* executeStep finds none: the loop ends, and the result goes on to the engine.
ReadEvents(t) ==
    /\ request[t].at = "reading"
    /\ Ahead(request[t]) = {}
    /\ Engine!Play(t, request[t].script, request[t].events)
    /\ request' = [request EXCEPT ![t] = Plays(@)]
    /\ UNCHANGED <<vars, logVars, plays>>

\* ctx_->read and ctx_->call_projection.
Run(t) ==
    /\ request[t].at = "playing"
    /\ \/ Engine!Read(t)
       \/ Engine!Lookup(t)
       \/ Engine!PushArguments(t)
       \/ Engine!CallReturns(t)
       \/ Engine!CallFails(t)
       \/ Engine!Finish(t)
       \/ Engine!Abort(t)
    /\ UNCHANGED <<vars, logVars, request, plays>>

\* The result becomes the state of the answer, an exception its status 1.
Answer(t) ==
    /\ up
    /\ request[t].at = "playing"
    /\ job[t].at \in Engine!Answered
    /\ request' = [request EXCEPT ![t] = Idle]
    /\ job' = [job EXCEPT ![t] = Idle]
    /\ UNCHANGED <<vars, logVars, up, stack, defined, plays>>

---------------------------------------------------------------------------
(* What else happens.                                                      *)

CreateProj(data, type) ==
    /\ CreateProjection(data, type)
    /\ UNCHANGED <<logVars, engineVars, request, plays>>

DeleteProj(id) ==
    /\ DeleteProjection(id)
    /\ request' = [t \in Thread |->
                      IF request[t] # Idle /\ request[t].id = id
                      THEN [request[t] EXCEPT !.wanted = Unknown] ELSE request[t]]
    /\ UNCHANGED <<logVars, engineVars, plays>>

CreateStream(s, k) ==
    /\ kind' = [i \in DOMAIN kind \cup {s} |-> IF i = s THEN k ELSE kind[i]]
    /\ Log!Create(s)
    /\ UNCHANGED <<vars, engineVars, request, plays>>

\* A payload is any string.
PushEvent(s, e) ==
    /\ Len(log[s]) < MaxLog[s]
    /\ UNCHANGED kind
    /\ Log!Extend(s, e)
    /\ UNCHANGED <<vars, engineVars, request, plays>>

\* By a shell, whose commit is refused as long as a cursor holds the SHARED lock of the
\* file: from its first row to its last.
DeleteStream(s) ==
    /\ s \in DOMAIN kind
    /\ up => \A t \in Thread : request[t].at = "reading" => request[t].rows = <<>>
    /\ kind' = [i \in DOMAIN kind \ {s} |-> kind[i]]
    /\ Log!Drop(s)
    /\ request' = [t \in Thread |->
                      IF request[t] # Idle /\ s \in Selected(request[t].target)
                      THEN [request[t] EXCEPT !.dropped = TRUE] ELSE request[t]]
    /\ UNCHANGED <<vars, engineVars, plays>>

\* Mutation of Restart: the heap survives.
RestartWithHeap ==
    /\ up' = TRUE
    /\ job' = [t \in Thread |-> Idle]
    /\ request' = [t \in Thread |-> Idle]
    /\ plays' = 0
    /\ UNCHANGED <<vars, logVars, stack, defined>>

\* A server that was aborted, or stopped at any point, is started again: the file is
\* as it was, the heap and the requests are gone.
Restart ==
    /\ up' = TRUE
    /\ stack' = <<>>
    /\ defined' = {}
    /\ job' = [t \in Thread |-> Idle]
    /\ request' = [t \in Thread |-> Idle]
    /\ plays' = 0
    /\ UNCHANGED <<vars, logVars>>

---------------------------------------------------------------------------

ServeInit ==
    /\ Init
    /\ kind = [s \in {} |-> s]
    /\ Log!Init
    /\ Engine!Init
    /\ request = [t \in Thread |-> Idle]
    /\ plays = 0

PlayStep(t) == ReadProjection(t) \/ ReadRow(t) \/ ReadEvents(t) \/ Run(t) \/ Answer(t)

ServeNext ==
    \/ \E t \in Thread :
          \/ \E id \in ProjId, target \in Targets : Ask(t, id, target)
          \/ PlayStep(t)
    \/ \E data \in Script, type \in Type \cup {Empty} : CreateProj(data, type)
    \/ \E id \in ProjId : DeleteProj(id)
    \/ \E s \in StreamId :
          \/ \E k \in Kind : CreateStream(s, k)
          \/ \E e \in Event : PushEvent(s, e)
          \/ DeleteStream(s)
    \/ Restart

ServeSpec == ServeInit /\ [][ServeNext]_serveVars

---------------------------------------------------------------------------
(* Properties.                                                             *)

Playing(t) == request[t].at = "playing"
Succeeded(t) == Playing(t) /\ job[t].at = "ok"
Short(t) == Len(job[t].events) <= 2
WellFormed(t) == \A i \in DOMAIN job[t].events : job[t].events[i] \notin BadPayload

\* A thread works in the engine for a request that has got that far, on the source
\* that was read for it.
ServeTypeOK ==
    /\ DOMAIN kind \subseteq StreamId
    /\ \A s \in StreamId : log[s] \in Seq(Event) /\ Len(log[s]) <= MaxLog[s]
    /\ Engine!TypeOK
    /\ \A t \in Thread :
          /\ job[t] # Idle <=> Playing(t)
          /\ Playing(t) => job[t].script = request[t].script

\* A successful answer is made by the source that the list of projections showed to
\* the client, unless this projection was deleted since and its id came back; so a
\* typed projection never gets one.
RightSource ==
    \A t \in Thread :
        Succeeded(t) /\ request[t].wanted # Unknown =>
            LET wanted == request[t].wanted
            IN  /\ wanted.type = Empty
                /\ job[t].script = wanted.data
                /\ wanted.data \in Defining =>
                      \A i \in DOMAIN job[t].state : job[t].state[i][1] = wanted.data

\* The events that reach the engine are those stored where the cursor went, each once, in
\* the order of streams and versions, of the streams asked for only, although events are
\* pushed and streams created while the cursor steps.  A stream's own events are all that
\* it has; those of a type are no snapshot, but each stream's come without a gap from its
\* first on, and none is missing that was there when the client asked, unless a stream
\* was deleted since.
EventsOf(r, es) ==
    LET read == ToSet(r.rows)
    IN  /\ Len(es) = Len(r.rows)
        /\ \A i \in DOMAIN es : es[i] = At(r.rows[i])
        /\ \A i \in 2..Len(r.rows) : Before(r.rows[i - 1], r.rows[i])
        /\ read \subseteq Positions(Selected(r.target))
        /\ \A s \in StreamId : \E n \in 0..MaxLog[s] : {k \in read : k[1] = s} = {s} \X (1..n)
        /\ ~r.dropped => r.from \subseteq read
        /\ r.target.by = "id" => read = Positions(Selected(r.target))

RightEvents ==
    [][\A t \in Thread :
          request[t].at = "reading" /\ Playing(t)' => EventsOf(request[t], job'[t].events)]_serveVars

\* What can be wrong with a play: its source or its function (that of an earlier play
\* only if the source defines none) fails, a payload is no JSON, or there is too little
\* room left on the value stack.
Faulty(t) ==
    \/ job[t].script \in Broken \cup Type
    \/ \E f \in defined \cap Failing : job[t].script \in Defining => f = job[t].script
    \/ request[t].dropped
    \/ \E s \in Selected(request[t].target) : ToSet(log[s]) \cap BadPayload # {}
    \/ Len(job[t].base) + 6 > StackLimit

\* The server is aborted only by a play that has a fault itself.  A bad event in another
\* stream does no harm, nor does a function that another source defined.
AbortHasReason == ~up => \E t \in Thread : Playing(t) /\ Faulty(t)

\* A restart heals: whatever was played before it, the first play after it succeeds,
\* if its source, its function and its payloads are sound and its events are two at
\* most.
FirstPlayWorks ==
    \A t \in Thread :
        /\ Playing(t) /\ request[t].first
        /\ request[t].wanted.type = Empty
        /\ request[t].wanted.data \in Defining \ (Broken \cup Failing)
        /\ WellFormed(t) /\ Short(t)
        => up /\ job[t].at # "failed"
===========================================================================
