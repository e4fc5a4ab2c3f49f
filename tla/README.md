# yess in TLA+

yess is an event store: a gRPC server (or an interactive shell) over one SQLite
file, with projections written in JavaScript and run by Duktape. This directory
holds TLA+ models of it, the TLC configurations that check them, and proofs
checked by TLAPS.

## 1. The system

All paths are below `src/src/`, the C++ sources.

| part | code | state | operations |
|---|---|---|---|
| database file | `db/repositories/sqlite_repository.cpp` | the file, its schema objects, the pragma of each connection | `init_db` |
| event store | `db/repositories/sqlite_stream_repo.cpp` | tables `streams`, `events`, trigger `ver_valid` | `create`, `attachEvent`, `remove`; `all`, `get`, `getEvents` (two), `getLastEvent`, `by_type` |
| projection store | `db/repositories/sqlite_projection_repo.cpp` | table `projections` | `create`, `remove`; `all`, `id`, `type` |
| projection engine | `ext/duk_context.cpp` | one Duktape heap: value stack, global object | `read`, `call_projection` |
| action handler | `action_handler.cpp` | none of its own; owns the three above | one method per request; `play_projection` composes them; `handle` (JSON commands, tests only) |
| gRPC service | `grpc_service.cpp` | none | one method per rpc of `protos/yess.proto`, on the threads of a synchronous server |
| server process | `server.cpp`, `yess.service` | flags of the signal handler, watchdog thread | `parse_args`, `run`, `shell` |
| interactive shell | `cmd/*.cpp` | the loop | `tokenize`, `tokens`, `interpret`, `run`, one `execute` per command |
| entities, messages, log | `db/entities/`, `msg/`, `log.hpp` | none | records and formatting |

How they interact. A server and any number of shells are processes that share
the file and nothing else. The threads of a server share one SQLite connection
(whose mutex makes each step atomic) and one Duktape heap (without any lock).
`play_projection` reads a projection, then the events, then calls the engine:
three separate accesses. Only the shell can delete a stream.

What is hard, and what makes each part correct:

- *Event store*: optimistic concurrency is decided inside the database by a
  trigger, two constraints and a lock, each of which can be absent: the trigger
  if the creation of the file was interrupted, the foreign key if the connection
  did not make the file. Correct means: a stream is 1..n without gaps, its order
  is unambiguous, events go only with their stream, ids that come back bring
  nothing with them.
- *Database file*: start-up is a sequence of separately committed steps, which a
  crash or a second process can hit. Correct means: who gets through `init_db`
  has the whole schema.
- *Projection engine*: one value stack serves all plays of a server's life.
  Correct means: an answer is the fold of the played script's own function over
  all events in order, and a play leaves nothing behind that changes a later one.
- *Projection store*: two column swaps. Correct means: what was stored is what is
  played and listed.
- *Play, as a whole*: three accesses without a transaction, while clients create,
  delete and push. Correct means: the answer is about the projection the client saw
  in the list, and about all events of the stream, or of a type about a gap-free
  beginning of each stream; a fault harms the plays it belongs to, and a restart ends
  what it left behind.
- *Pushes, as clients see them*: answers get lost, requests are repeated or arrive
  late. Correct means: a push is a compare-and-append on what the client has read,
  is stored once, and once it is acknowledged it stays, through restarts, until somebody
  deletes the stream.
- *Server process*: options are looked at one after the other, each with effects on
  the next; then signal handler, watchdog and gRPC shutdown, with liveness.
- *Shell*: exceptions, end of input.

`PROJECT.json` lists the hazards at their lines, with the properties for each.

## 2. Modules

| module | models | depends on |
|---|---|---|
| `Rowids` | how SQLite numbers rows | |
| `EventStore` | `init_db` and the writes of `Sqlite_stream_repo`, several processes on one file | `Rowids` |
| `EventLog` | abstract: a log per stream | |
| `MCEventStore` | the mapping of `EventStore` to `EventLog` | both |
| `EventStoreProofs` | theorems about `EventStore`, and that it implements `EventLog` | `MCEventStore`, TLAPS |
| `ProjectionStore` | `Sqlite_projection_repo` and the operations of `Action_handler` on it | `Rowids` |
| `ProjectionStoreProofs` | theorems about `ProjectionStore` | `ProjectionStore`, TLAPS |
| `EventReads` | the queries of `Sqlite_stream_repo` beside the writes | `EventStore` |
| `EventReadsProofs` | theorems about `EventReads` | `EventReads`, `EventStoreProofs` |
| `DukContext` | `play_projection`, `read`, `call_projection` | |
| `DukContextProofs` | theorems about `DukContext`, with one thread and with any number | `DukContext`, TLAPS |
| `PlayService`, `MCPlayService` | `Play` from the request to the answer among everything else | `ProjectionStore`, `EventLog`, `DukContext` |
| `PlayServiceProofs` | theorems about `PlayService`, with one thread and with any number | `PlayService`, `DukContextProofs`, `ProjectionStoreProofs` |
| `PushClient`, `MCPushClient` | clients that push through gRPC to servers that crash | `EventStore` |
| `PushClientProofs` | theorems about `PushClient` | `PushClient`, `EventStoreProofs` |
| `Daemon` | `Server::run` with `--daemon`, its threads, systemd | |
| `Startup` | the command line, the loggers, `run` in both modes | `Daemon` |
| `StartupProofs` | theorems about `Startup` and the daemon in it | `Startup`, TLAPS |
| `Shell`, `MCShell` | `tokenize`, `interpret`, the commands, the loop; words to check them with | |
| `ShellProofs` | theorems about `Shell`, and about its tokenizer | `Shell`, TLAPS |

Definitions whose comment begins "Mutation of" are deliberately wrong variants of
the definition that follows. Nothing uses them; substituted for it they show that
the property named in `PROJECT.json` notices such a bug.

### EventStore

The variables `file`, `schema`, `streams`, `events` are the database, `pc`, `fk`,
`removing` the processes: where each is in `init_db`, whether its connection has
`PRAGMA foreign_keys`, and the delete transaction it is in. `opens` counts starts;
`lapsed` is a history variable that remembers which of the two checks (trigger,
foreign key) was not in force when some event was inserted.

| action | code |
|---|---|
| `CheckFile`, `OpenFile` | `fs::exists`, opening with `OPEN_CREATE`, early return or pragma (`sqlite_repository.cpp:18-34`) |
| `CreateTables`, `CreateTrigger`, `CreateProjections` | the transaction and the two autocommitted statements (36-77) |
| `Terminate` | exit, crash or exception at any point |
| `CreateStream`, `AttachEvent` | one INSERT each (`sqlite_stream_repo.cpp:69-97`), with trigger, UNIQUE and foreign key as guards |
| `RemoveEvents`, `RemoveCommit`, `RemoveRollback` | `remove` (195-212): the first DELETE takes the RESERVED lock, COMMIT publishes both, or is refused while another process reads |

A refused statement changes nothing and is a stuttering step. A stream row keeps
its type only: `version` is always 0 in the code and never read by a check. The
column list of an event is reduced to `stream_id`, `version` and `data` (type and
payload, which no statement looks at).

`Exclusive` is an assumption about operation, not about code: TRUE says that
nobody crashes or starts while the file is being made.

### DukContext

The value stack is a sequence of entries (`global`, `function`, `event`, ...),
`defined` is the script whose function the global property `projection` holds,
`job` is the request of each thread and how far it is. A JavaScript state is the
sequence of calls that made it, which is all that is needed to say "the fold of
this function over these events".

| action | code |
|---|---|
| `Play` | `play_projection` has its projection and events (`action_handler.cpp:266-285`) |
| `Read` | `read` (`duk_context.cpp:32-41`) |
| `Lookup` | both `duk_get_prop_string` on index 0 (52-63) |
| `PushArguments` | event object and state (66-89) |
| `CallReturns`, `CallFails` | `duk_pcall`, encode, parse, pop (91-106) |
| `Finish` | the last pop (108) |
| `Abort` | Duktape's fatal handler: errors outside a protected call |

Scripts that change the property `projection` from inside a function, and those
that do not terminate, are not modelled. With several threads the model
interleaves calls of the Duktape API; a real race inside Duktape can do worse.

### ProjectionStore

`rows` is the table, with both columns; `asked` remembers what the client gave.
The three queries are operators that apply the constructor exactly as the code
does, argument order included.

### EventReads

`cursor` is the query each process is in: its selection of streams, the keys of
the rows it has returned, and `from`, a history field with what there was to read
at its first step.

| action | code |
|---|---|
| `Prepare` | statement prepared and bound, no lock yet |
| `StepRow` | `executeStep` with a row (`sqlite_stream_repo.cpp:33-40` and its likes) |
| `StepEnd` | `executeStep` without one; the rows become the answer (`grpc_service.cpp:126-195`) |
| `Store` | any step of `EventStore`, unless it alters the file while another process reads (`Allowed`) |
| `End` | the process ends and its cursor with it |

A cursor is its last key. That is exact because the plan of both `getEvents`
visits streams by row id and, for each, the index of `UNIQUE(stream_id, version)`,
and because a cursor that is stepped sees what the same connection inserted ahead
of it. `all`, `by_type` and `get` walk `streams` alone; the first step of `get` is
its only one, and the second one the model takes finds nothing. Where a shell reads,
it does nothing else: it has one thread. The model assumes the rollback journal
(SQLite's default, which the code leaves alone).

### Daemon

`main` and `dog` are the places of the two threads, `server` the `grpc::Server`
(`null` when the port was taken), `calls` the requests in progress. `quiet` and
`nap` count seconds: of silence towards systemd, and of sleep.

| action | code |
|---|---|
| `InstallHandler` ... `StartWatchdog` | `run` up to the thread (`server.cpp:158-203`) |
| `Join`, `WaitAndExit` | `w_th.join()`, `server->Wait()`, STOPPING (203-215) |
| `DogCheck`, `DogNotify`, `DogWake` | the loop of the watchdog thread (194-199) |
| `DogShutdown`, `DogDone` | `Shutdown()`, which returns when the requests are answered (200) |
| `Sigterm` | `my_signal_handler` (38-51), or the default action before it is installed |
| `WatchdogKill`, `Restart` | `WatchdogSec=6`, `Restart=on-failure` (`src/yess.service`) |

`Daemon` has the actions and what they keep in the daemon itself; `Startup` puts them
together and says of which processes the watchdog is fed.

### Startup

`flags`, `conn` and `path` are the command line, `parse` is how far `parse_args`
is. `conn_str` is the member of the same name, `opened` the database file of the process;
`logger`, `console` and `logfile` say where lines go and which have arrived. A line is named for the place
that logs it, since no two places matter to the same property.

| action | code |
|---|---|
| `ParseInformation` | help and version, `exit(0)` (`server.cpp:98-107`) |
| `ParseMode` | shell or server (109-117); the shell is entered before `--conn-str` is read |
| `ParseLogPath`, `ParseNoLogPath`, `ParseLogPathFails` | 119-130, `rotating_logger` (`log.hpp:71-87`) |
| `ParseConnStr` | 132-136, the only place that sets `conn_str_` |
| `SkipToService`, `Open`, `Listen`, `WaitInForeground` | `run` in the foreground, and the common part |
| `RunMain`, `RunDog`, `SignalDaemon`, `Arrive`, `Request`, `PassTime`, `Kill`, `StartAgain` | the actions of `Daemon` with what they log |
| `SigtermEnds` | no handler: the signal ends the process |
| `QuitShell` | `exit(0)` after `shell()`; what happens before is `Shell` |

A foreground server has neither handler nor watchdog. Its `server->Wait()` never
returns, and through a null pointer (the port was taken) it is the end. A shell may wait
for its user for any time, and systemd watches it if it was started with `--daemon`: it
sends nothing and is killed.

### PlayService

The composition of the projection store (`ProjectionStore`), the event store and
the engine (`DukContext`). The event store is taken as `EventLog`, which the run
`event_log` shows it to implement: `DOMAIN kind` is `live`. So a stream of orphans is
possible here, after a restart. `request` is the request each thread serves.

| action | code |
|---|---|
| `Ask` | a `Play` request arrives (`grpc_service.cpp:218-234`) |
| `ReadProjection` | `proj_repo_->id` (`action_handler.cpp:271`), which throws for an unknown id |
| `ReadRow` | `executeStep` of `stream_repo_->getEvents` finds a row, of a stream or of a type (`sqlite_stream_repo.cpp:110-119`, `135-144`) |
| `ReadEvents` | it finds none: the loop ends, and its result goes to the engine's `Play` (`action_handler.cpp:272`, `282`) |
| `Run` | the steps of the engine |
| `Answer` | state or status 1 (`grpc_service.cpp:236-244`) |
| `CreateProj`, `DeleteProj`, `CreateStream`, `PushEvent`, `DeleteStream` | the other requests and the shell, at any point |
| `Restart` | an aborted or stopped server is started again: a new heap on the old file |

A row is a position, a stream and a version; `rows` are those the cursor has returned and
`events` what was stored there. It goes through the streams by id and through each by
version, as in `EventReads`, and other threads push and create between its steps, so a
query by type can return an event that is younger than one it misses. From its first row
to its last the cursor holds the SHARED lock, and the shell's commit of a deletion is
refused. `wanted`, `from`, `dropped` and `first` are history fields: what the list of
projections said when the client asked (until that projection is deleted), the events
there were to read then, whether a stream of the request (and later of the play) was
deleted since, whether it is the first play since the start. The name of a projection's
type, which is what the engine gets for a typed projection, is taken not to be a
JavaScript program that runs. The text of `initial_state` is passed on as a JSON string,
not parsed; a state is abstract here, so no property speaks of it.

### PushClient

The clients are not in the repository; they are what the rule of the trigger is made
for. A client reads its stream, pushes the next version, and when it hears nothing,
sends the request again or reads again. `calls` are requests that have not been
handled, also those given up; `answers` are on their way to clients that wait.

| action | code |
|---|---|
| `PushEvent` | `Grpc_service::PushEvent` (`grpc_service.cpp:49-70`) and `push_event`: accepted and OK, or refused and status 1 |
| `End` | the server ends, before or after the commit; calls and answers are lost |
| `DeleteStream` | the commit of `remove` in the shell |
| `Store` | the other steps of `EventStore` |
| `Read`, `Send`, `Timeout`, `Receive` | the client |

What an answer promises depends on the server that gave it. An OK says that the event is
stored, also through a server that does not enforce the foreign key; that every reader
finds it is true if the stream existed when the client read it (`live`, history), because
the queries join the events with the streams.

`stale` (history) marks what a client knows, and the requests it has sent, about a stream
that was deleted since; `abused` remembers that such a request was accepted by
another stream with the same id. `PushEventReq.stream_id` does not occur: the code
ignores it and uses the id in the event.

### Shell

The user composes words (`meant`) and writes each in any way that makes it one
word for the tokenizer (`line`), or forgets the last quote. `Interpret` tokenizes and builds the command,
`ExecuteCall`, `ExecuteOther`, `ExecuteQuit` are `execute()` and the end of the loop body
(`shell.cpp:157-193`). What `std::stoi` and `json::parse` do with a word is given
by three sets. A store operation returns or throws; the model follows the
exception through the catch clauses of each `execute()`, and `raised` remembers what got
past them. A play can also end the process without an exception, in Duktape's fatal
handler (`DukContext!Abort`): the place `aborted`. The uninitialized stream
id of a play with an empty target is any member of `Stray`.

## 3. Runs

| run | module, configuration | result | what it shows |
|---|---|---|---|
| `event_store` | `MCEventStore`, `MCEventStore.cfg` | pass | the invariants and step properties of the log with crashes also during creation (226,657 states) |
| `event_log` | `MCEventStore`, `MCEventLog.cfg` | pass | refinement of `EventLog`; the trigger sees everything if creation is left alone (84,163 states) |
| `push` | `MCPushClient`, `MCPushClient.cfg` | pass | to a client, a push is a compare-and-append; nothing is stored twice, and what is acknowledged stays until somebody deletes it (2,056,336 states) |
| `service` | `MCPlayService`, `MCPlayService.cfg` | pass | whose source an answer is made of, which events a cursor hands to the engine, what aborts the server, what a restart heals; untyped projections come back, typed ones are listed (1,302,356 states) |
| `reads` | `EventReads`, `MCEventReads.cfg` | pass | what a query returns while the store changes (319,242 states) |
| `startup` | `Startup`, `MCStartup.cfg` | pass | every command line: the named file is served, the log goes where asked, the watchdog of a service is fed, shutdown loses no request, SIGTERM ends the process (34,467 states) |
| `shell` | `MCShell`, `MCShell.cfg` | pass | arguments arrive as meant; which exceptions end the shell, and what ends it without one (231,823 states) |
| `play` | `DukContext`, `MCPlay.cfg` | pass | answers are folds; what a play leaves on the stack; when a faultless play can fail |
| `orphans` | `MCOrphans.cfg` | violation | restart, then push into a stream that does not exist |
| `typed_projection` | `MCTypedProjection.cfg` | violation | a typed projection is played with its type as source |
| `third_event` | `MCThirdEvent.cfg` | violation | the third event of any play fails |
| `two_threads` | `MCTwoThreads.cfg` | violation | a request is answered with the other's function |

Seen while modelling, and part of the models, but without a run of their own:

- A process that finds the file takes it for initialised ("TODO: Check schema",
  `sqlite_repository.cpp:21`) and can be ready without trigger or tables. This is
  why `Contiguous` is conditional in `event_store` and `event_log` needs `Exclusive`.
- One script that fails while the value stack is empty leaves its error at the bottom,
  and every later play fails until the server is started again
  (`SoundShortPlayWorks` excludes just that, `Poisoned`; `FirstPlayWorks` is the restart).
- A stored event whose payload is no JSON text aborts the server on every play of its
  stream (`AbortHasReason`), and again after each restart.
- A client that repeats a push after a lost answer is refused by its own event, and
  status 1 does not tell this from a conflict; only reading the stream does.
- A push that is delayed until its stream has been deleted is accepted by a new stream
  with the same id, if its version fits (`abused` in `PushClient`).
- A push through a server that found the file already there is acknowledged also if its
  stream does not exist; the event is stored, and no query finds it (`AckedIsOnTop`
  promises the log to such a client, and the history only to others).
- `yess --daemon --interactive` as a unit is killed by systemd after six seconds of its
  shell and started again, for ever: nothing sends WATCHDOG=1 there (`FedWhileServing`
  speaks of processes that serve).
- A play in the shell over a payload that is no JSON text ends the shell in Duktape's
  fatal handler, which no catch clause sees (`aborted`).
- `yess -i -c FILE` opens `yess.db`; and with `--file-only` the lines about the path
  itself still go to the console (`BeforeLogger`).
- `read` leaves the global object on the value stack after plays of no or one
  event (`ResidueOfPlay`), so faultless plays end in `Abort` after enough of them.
- A script that defines no function is played with that of an earlier script
  (`ResultIsFold` promises a script's own function only if it defines one).
- A query by type is no snapshot: it can return an event that was pushed later
  than one it misses. `HistoriesArePrefixes` says what is left, and `RightEvents` what a
  play gets of it.
- The end of the input never ends the shell (`spinning`); `play` with an empty
  target plays any stream (`Stray`); a stop signal from elsewhere than systemd lets
  the watchdog kill a daemon whose last request takes longer than its limit
  (`FedWhileServing` speaks of daemons nobody asked to stop).

Bounds, each a constant of its module:

- `Proc` is a server and a shell, two writers and one deleter. `MaxOpens` 3 gives
  a first run, a process beside it, and a restart of either, which reaches every
  combination of pragma and schema.
- `StreamId` two or three ids, `EventId` three rows, `Version` 0..3: enough for a
  gap, a duplicate, a version 0, an id that comes back, and two streams whose
  rows mix. In `event_log`, id 0 can never be a row, so it is always an id
  without a stream. `Data` has two values there, so that a swap would show.
- `MaxEvents` 3 because the loop changes its behaviour at the second and at the
  third event. `StackLimit` 8 instead of 64: the tallest single play on an empty
  stack needs 6, so plays complete on several depths of residue before the limit.
- `EventReads`: a server and a shell, two streams of two types and three events,
  so that a query by type can be overtaken in the first stream while it is in the
  second, and a stream can be deleted, and its id come back, between two queries.
- `PushClient`: two clients with one event each and two requests each, one stream,
  three starts. Two clients are a conflict, a second request is a retry or a new attempt
  after a refusal; the third start is a restart beside or after a shell. Versions 1
  and 2, because a stream with both events is complete; a third event row gives a
  repeated one room to show.
- `PlayService`: one thread (`two_threads` shows what several do to the engine), two
  sources, one type, one projection id, which comes back after each deletion, two streams
  of one kind, a good and a bad payload, two plays between two starts and any number of
  starts, `StackLimit` 8. `MaxLog` bounds the first stream by one event and the second by
  two: while the cursor is in the second, a push to the first is missed and a push to the
  second is not, and a play has up to three events. No source of the
  instance is broken or fails, so the aborts are those of bad payloads and of the typed
  projection; the theorem `AbortHasReasonHolds` is about all of them.
- `Startup`: all 576 command lines, with one file besides `yess.db`. In `Daemon`,
  `WatchdogSec` 6 and `Period` 5 as in the sources; `Jitter` 1 is the most the sleep may
  be late, and start-up may take `StartMax` 6. Both are
  assumptions about the machine (`TimingAssumption`). Two requests.
- `Shell`: a number, a number out of range after a blank, the empty word, a word
  with a blank and an apostrophe, a word in double quotes; up to four arguments
  (`push` takes four), one too many for the others.

`CHECK_DEADLOCK FALSE` is set where the bounds let a model stop (all process
starts used up, an aborted server); the program would go on or be restarted.
`push` uses the symmetry of its clients, `service` that of the scripts: no definition
tells them apart, and both check safety only. Streams are ordered by their ids, so they
have none.

Fairness. `Startup` assumes weak fairness of each of the two threads (the operating
system schedules them), of `Request` (a handler returns; a script that does not
terminate breaks this, and with it the shutdown, because `Shutdown()` has no
deadline) and of `PassTime`. Nothing is assumed of clients, signals and systemd.
Time waits for the threads of `Server::run` that can run (`MayPass`), so the seconds are
those of the sleep, of start-up, of requests, and of a shell at its prompt. `Shell` assumes weak fairness of the loop body and
nothing of the user. Safety specifications state none.

## 4. Proofs

`EventStoreProofs` proves, for every set of processes, streams, ids, versions and
data, and any number of starts:

- `TypeCorrect`: `Spec => []TypeOK`.
- `InductiveInvariant`: `Spec => []IInv`, and from it `ContiguousHolds`,
  `RowOrderHolds`, `NoOrphansHolds`, `TriggerSeesAllHolds`, `FirstRunIsCheckedHolds`.
- `LogIsAppendOnly` and `FreshStreamHolds`, the two step properties.

The only assumption is `ConstantsAssumption` of `EventStore`. The argument has two
halves that do not need each other:

- *Start-up.* `TriggerSeesAll` and `FirstRunIsChecked` speak of `lapsed`, which a
  push changes according to the pragma and the schema; they are inductive only
  together with `TriggerBeforeUse` (who is past `init_db` on a file made without
  disturbance has the trigger) and `FirstIsCreator` (the process of the only start
  made the file, so it has the pragma, and the trigger once it is past it).
- *Log.* `Contiguous` says the versions are 1..n; then the trigger admits exactly
  n+1 (`NextVersion`). A new row id exceeds all others, so the order of rows
  follows. `AttachEventRows`, `AttachEventVersions`, `RemoveCommitRows` and
  `RemoveCommitVersions` say what the two changing actions do to rows and versions.

`FreshStreamHolds` is a corollary of `NoOrphansWhileEnforced`: a fresh id is not
in `streams`, so no event can name it. `IInv` was checked by TLC as an invariant
before it was proved.

At its end the module proves `StoreImplementsLog`: under `Exclusive` (the making of the
file is not disturbed), `Spec => ImplementsLog`. In the states of `IInv` in which
the trigger has seen every event (`Trusted`; by `TriggerSeesAll` all of them), a
version belongs to one row of its stream (`OneRowPerVersion`, from
`RowOrderIsVersionOrder`) and the versions are 1..n, so `LogOf` is a sequence that
holds, at v, what the row of version v carries (`LogFacts`). Then a push is an append
(`PushAppends`), a `RemoveCommit` a drop, a `CreateStream` a creation with an empty
log while foreign keys were enforced, and every other step is invisible
(`HiddenStep`), which also covers crashes and rollbacks.

`ProjectionStoreProofs` proves, from `ProjectionAssumption` alone, `RowsInvariant`,
`TypeCorrect`, `UntypedHolds` and `TypedListsHolds`. The invariant that carries them
is `RowsAreRequests`: the row of a projection is the one its request became, however
often its id was used before; what the queries return is then a matter of which
columns the constructor is given.

`EventReadsProofs` proves `ReadInvariant`, `Spec` here being `ReadSpec`: `RowsAreStableHolds`
without further assumption, that is also after crashes during the creation, and under
`Exclusive` `CursorTypeCorrect`, `HistoryIsCurrentHolds` and `HistoriesArePrefixesHolds`.
`ReadInv` joins `IInv` of the event store, whose steps these are, with `CursorInv`: the
cursor of each process is a `ScanOf` the rows that its query matches now. That says:
what it has returned is still there and ascends (`Sorted`); what was there at its first
step is returned or lies ahead (`Remaining`); and what it has returned of a stream leaves
no version out. A step of another process keeps `ScanOf` because it only adds rows behind
all others of their stream; where it would take rows away, `Allowed` refuses it. The
three assume `Exclusive` because without the trigger a push can land in the middle.

`DukContextProofs` proves `PlayInvariant` and from it `ResultIsFoldHolds`,
`BaseUntouchedHolds`, `ResidueOfPlayHolds` and `SoundShortPlayWorksHolds`, for every set of
scripts and events, every length of streams and every limit of the stack, under
`OneThread`: plays do not overlap. That is what the shell does and what a server does
that gets one `Play` at a time; with two the run `two_threads` refutes `ResultIsFold`.
The invariant gives, place by place, what the play has put on the stack above its base
(`Placed`): in the loop that is `Left` before a call and `Below` under it, which shrink
by one entry per call. Hence a function, a function and the global object are what the
first three calls call, `done` never exceeds 2 (`Rounds`), and the two functions are the
only ones that can add to the state.

Its last section drops `OneThread`. Of plays that overlap on one stack nothing can be said
about what a call gets, because each finds the other's entries there; `SharedInv` is what
is left. The entries are of the known kinds and within the limit, one function is defined
at most, and each job is its thread's own: it is at a place of the loop that its count of
calls allows, and past `read` only if its script runs (`JobOK`). From `SharedInvariant`
follow `TypeCorrect` and `AnswersAreWholeHolds`: even among overlapping plays none answers
from a script that does not run, or after fewer or more calls than it has events. Together
with `two_threads` that is exactly what overlap breaks: not how many calls are made, but
which function is called on what.

`PlayServiceProofs` puts the parts together, for any sources, types, streams, events and
bounds. `ServeInvariant` and from it `ServeTypeCorrect`, `RightEventsHolds` and
`AnswersAreAskedHolds` (a successful answer is for the source that the list of projections
showed, and never for a typed projection) hold for any number of threads, so the events
and the source that a play starts from are right even where plays overlap.
`RightEventsHolds` is a property of the step at which the loop over the cursor ends.
`RightSourceHolds`, which adds that the function called is that source's,
`AbortHasReasonHolds` and `FirstPlayWorksHolds` assume `OneThread`: another play can leave
its function, or its entries, in between. `ServiceAssumption` says that stream ids are
natural numbers, any set of them, each with a bound on its log, and that the stack holds
at least the six entries one play needs (Duktape's limit is 64). `ServeInv` joins the invariant of the projection
store with those of the engine: `SharedInv`, and under `OneThread` also `HeapInv`
(`PlayInv`, a bottom entry that is not `undefined`, and a script that runs wherever a play
has got past it), both proved step by step in `DukContextProofs`. To them it adds what ties
a request to its parts; a request of another thread keeps it (`ServedBeside`):

- `SourceOf`: until the projection is read, the list still says what it said; from then
  on the source is the one that `SourceRead` computes from it. A deletion forgets it.
- `EngineOf`: the engine works for the requests that play, on that source.
- `ReadsOf`: while the cursor steps (`CursorOf`), its rows are a `ScanOf` the positions of
  the streams asked for. They come in order, leave no gap in a stream (`AdvanceGapless`:
  the next row by `Before` is the next version), and what was there when the client asked
  is among them or lies ahead, unless a stream was deleted; the events are `Copied` from
  where the rows are. A push adds a position behind all others of its stream
  (`ReadsGrown`), and a deletion is refused once there is a row. At the end nothing lies
  ahead, which is `EventsOf` (`AtTheEnd`). Afterwards only this is kept: the events of a
  play are events of its streams, unless one is deleted (`PlayedFrom`), for the reasons
  of an abort.
- `FirstOf`: the first play since the start finds the stack empty, and `FirstWorks` of the
  engine does the rest, under `OneThread`.

`AbortHasReason` is part of the invariant, under `OneThread` (`SoleFault`): `AbortCause`
names what can make a step of the engine fatal, and each cause stays one as long as the
server is down, through pushes and deletions by a shell. A function left by an earlier
play counts only if the source defines none. `ServedUntypedHolds` and `ServedListsHolds`
state the two properties of projections for the service, for any number of threads: they
need nothing of the engine.

`PushClientProofs` proves, under `Exclusive`, `PushInvariant`, `PushTypeCorrect`,
`StoredOnceHolds`, `AckedIsOnTopHolds` and the step property `CompareAndAppendHolds`, for
any number of clients, attempts, crashes and deletions. `PushInv` says what each party
knows: the log of a client's stream still extends what it has read, unless the stream was
deleted since, and the stream still exists if it did then (`ClientKnows`); a request says what its client knew (`CallKnows`), an
answer what has come of it (`AnswerKnows`); an attempt is in one place only
(`OncePerTry`); what is stored was sent (`Sent`), and once (`Once`). A repeated request is
refused because its version is no longer the next; a late one for the same reason. The
lemmas about logs are those of `EventStoreProofs`.

`StartupProofs` proves `StartInvariant` and from it `DaemonTypeCorrect`, `StartTypeCorrect`,
`FedWhileServingHolds`, `GracefulExitHolds`, `NamedFileHolds` and `LogHolds`, for every
timing that `TimingAssumption` admits, any number of requests and any files. For the
watchdog, the sleep and the silence add up to the period (`Punctual`), so the limit is
met with the jitter to spare; only a request starts a shutdown and only its end of all
calls ends it (`Orderly`). Along the command line (`Placed`), `conn_str` is the default until
`ParseConnStr` has been passed and what is named afterwards, only a process that has
passed it opens a file to serve it, and a shell has opened what `conn_str` was before. And what the logger is, is decided by the command line
alone (`LoggerAsAsked`).

`ShellProofs` proves `ShellInvariant` and from it `ShellTypeCorrect`, `WordsArriveHolds` and
`CrashHasCauseHolds`, for any set of words, any number of arguments, and every way a word
can be written. `WordAssumption` only says that words are sequences, that numbers and JSON
texts are words, and that no number is also out of range. `IInv` says, place by
place, what the line has to do with what was meant, and what `raised` has to do with the operation
that was executing: the line is `Spelled` while the words are
composed, and what `Interpret` makes of it is the command that was meant or the end of the
shell (`CommandIs`).

`tokenize` recurs over the characters of a line, so its part is an induction, and the
induction theorems of the library take a predicate, which the provers cannot instantiate.
`Least` stands in for them: a set of natural numbers that is not empty has a least element
(from `WFMin` and `NatLessThanWellFounded`), and what fails somewhere fails
at a first or a last place. With it:

- `ForwardRecursion`: a recursion that goes on to a later place each time has a solution;
  `After` does (`Ends`), hence `TokensUnfold` and `QuoteOpenUnfold`, without which nothing is
  known of a recursive function.
- `FindUnique`: the first place of a character; `ReadBack`: a word written in
  any way is read as itself, up to the place behind it; `StillRead`: what is read in a
  line is read in a longer one, because a word without quotes ends at a blank.
- `FirstWord`, `NextWord`: composing one word more keeps the line `Spelled`, that is, there
  are places at which its words begin, each word is read there, and the next one lies where
  reading goes on; `SpelledIsRead`, from the last word backward: `tokenize` returns the words.

Writing the proof showed that the guards of a CASE in `Commands` overlapped, for a line that
has too many words and whose numbers are out of range: TLC takes the first that is true,
TLA+ leaves it open. It is an IF now, in the order of the code.

Inductive invariants were checked by TLC, in the states of the runs of their modules and
with `Nat` cut to a range, before they were proved: those of `StartupProofs` and
`PushClientProofs` whole; of `ServeInv` all but the part of the engine, on an instance with
a third source whose function may fail (8.4 million states); of `ShellProofs` the part
that speaks of how the shell ends. What is proved for any number of threads was also
checked on two: `SharedInv` and `AnswersAreWhole` of the engine (2.5 million states), and
`ServeTypeOK`, `RightEvents` and `AnswersAreAsked` of a service with one source, one
projection id and two streams of one event (1.6 million, up to the symmetry of the
threads).

Only model-checked: `SigtermStops` and `QuitExits`, which are liveness under fairness. Every
invariant and every safety property of the passing runs is a theorem.

## 5. Not modelled, and the plan

Worth proving next: with several threads, that a play which no other one overlaps in time
still gets the answer it gets alone.

Left out for good:

- `Action_handler::handle`, the JSON commands: only a test calls it, and the
  operations behind it are modelled.
- Message declarations, the formatting of entities and of log lines, the rotation of
  log files, the build.
- JavaScript itself, beyond how a script and a call end; scripts that do not end.
- READY=1 before the port is bound: with `Type=simple` systemd does not wait for it,
  so nothing observable depends on it.
- Several gRPC threads in the run of `PlayService`: that of `DukContext` has them, and the
  theorems of both cover them.
