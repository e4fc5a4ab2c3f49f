------------------------------ MODULE Daemon ------------------------------
(***************************************************************************)
(* yess --daemon: Server::run on the main thread, its watchdog thread, the *)
(* signal handler, the gRPC server with requests in progress, and systemd, *)
(* which sends SIGTERM, kills a service whose watchdog falls silent and    *)
(* restarts it after a failure (yess.service).                             *)
(*                                                                         *)
(* Time is counted in seconds by two counters that Tick advances.  A thread*)
(* that can run does so within the second; only start-up, sleep_for and    *)
(* requests in progress take time.  Startup puts the actions together with *)
(* the command line and states what is fair.                               *)
(***************************************************************************)
EXTENDS Naturals

CONSTANTS
    WatchdogSec, \* systemd's limit on the silence of the watchdog
    Period,      \* sleep_for between two notifications
    Jitter,      \* how much longer sleep_for may take
    StartMax,    \* bound on the duration of start-up, up to the first notification
    MaxCalls     \* bound on the requests in progress

ASSUME TimingAssumption ==
    /\ {WatchdogSec, Period, Jitter, StartMax, MaxCalls} \subseteq Nat
    /\ Period > 0
    /\ Period + Jitter <= WatchdogSec
    /\ StartMax <= WatchdogSec

VARIABLES
    main,        \* where the main thread is; afterwards, how the process ended
    dog,         \* where the watchdog thread is
    requested,   \* do_shutdown and shutdown_requested, which are set together
    server,      \* the grpc::Server
    calls,       \* requests in progress
    quiet,       \* seconds since the start or the last WATCHDOG=1
    nap,         \* seconds left of the sleep
    watched      \* systemd has started the process and applies the watchdog

vars == <<main, dog, requested, server, calls, quiet, nap, watched>>

Starting == {"boot", "armed", "ready", "opened", "built"}
Ended == {"exited", "terminated", "aborted", "killed"}
Running == main \notin Ended

---------------------------------------------------------------------------
(* The main thread: Server::run.                                           *)

\* sigaction(SIGTERM)
InstallHandler ==
    /\ main = "boot"
    /\ main' = "armed"
    /\ UNCHANGED <<dog, requested, server, calls, quiet, nap, watched>>

\* READY=1 and "Yess daemon has successfully started up."
NotifyReady ==
    /\ main = "armed"
    /\ main' = "ready"
    /\ UNCHANGED <<dog, requested, server, calls, quiet, nap, watched>>

\* Grpc_service service(conn_str_): an exception of init_db leaves run.
OpenService ==
    /\ main = "ready"
    /\ main' \in {"opened", "aborted"}
    /\ UNCHANGED <<dog, requested, server, calls, quiet, nap, watched>>

\* BuildAndStart returns a null pointer when the port cannot be bound.
BuildAndStart ==
    /\ main = "opened"
    /\ main' = "built"
    /\ server' \in {"open", "null"}
    /\ UNCHANGED <<dog, requested, calls, quiet, nap, watched>>

StartWatchdog ==
    /\ main = "built"
    /\ main' = "join"
    /\ dog' = "check"
    /\ UNCHANGED <<requested, server, calls, quiet, nap, watched>>

\* w_th.join()
Join ==
    /\ main = "join"
    /\ dog = "done"
    /\ main' = "wait"
    /\ UNCHANGED <<dog, requested, server, calls, quiet, nap, watched>>

\* server->Wait(), STOPPING=1, return 0
WaitAndExit ==
    /\ main = "wait"
    /\ server = "closed"
    /\ main' = "exited"
    /\ watched' = FALSE
    /\ UNCHANGED <<dog, requested, server, calls, quiet, nap>>

---------------------------------------------------------------------------
(* The watchdog thread.                                                    *)

\* Mutation of DogCheck: the condition does not look at the flags.
DogNeverStops ==
    /\ Running
    /\ dog = "check"
    /\ dog' = "notify"
    /\ UNCHANGED <<main, requested, server, calls, quiet, nap, watched>>

\* while (!do_shutdown && !shutdown_requested.load())
DogCheck ==
    /\ Running
    /\ dog = "check"
    /\ dog' = IF requested THEN "shutdown" ELSE "notify"
    /\ UNCHANGED <<main, requested, server, calls, quiet, nap, watched>>

\* Mutation of DogNotify: a sleep longer than the limit of systemd.
DogSleepsLong ==
    /\ Running
    /\ dog = "notify"
    /\ dog' = "sleep"
    /\ quiet' = 0
    /\ nap' = WatchdogSec + 1
    /\ UNCHANGED <<main, requested, server, calls, watched>>

\* WATCHDOG=1, sleep_for
DogNotify ==
    /\ Running
    /\ dog = "notify"
    /\ dog' = "sleep"
    /\ quiet' = 0
    /\ nap' = Period
    /\ UNCHANGED <<main, requested, server, calls, watched>>

DogWake ==
    /\ Running
    /\ dog = "sleep"
    /\ nap = 0
    /\ dog' = "check"
    /\ UNCHANGED <<main, requested, server, calls, quiet, nap, watched>>

\* server->Shutdown() takes no new requests; through a null pointer it is the
\* end of the process.
DogShutdown ==
    /\ Running
    /\ dog = "shutdown"
    /\ IF server = "null"
       THEN main' = "aborted" /\ UNCHANGED <<dog, server>>
       ELSE dog' = "closing" /\ server' = "closing" /\ UNCHANGED main
    /\ UNCHANGED <<requested, calls, quiet, nap, watched>>

\* Mutation of DogDone: Shutdown with a deadline, pending requests are dropped.
DogDropsCalls ==
    /\ Running
    /\ dog = "closing"
    /\ server' = "closed"
    /\ dog' = "done"
    /\ UNCHANGED <<main, requested, calls, quiet, nap, watched>>

\* ... and returns, having no deadline, when all requests are answered.
DogDone ==
    /\ Running
    /\ dog = "closing"
    /\ calls = 0
    /\ server' = "closed"
    /\ dog' = "done"
    /\ UNCHANGED <<main, requested, calls, quiet, nap, watched>>

---------------------------------------------------------------------------
(* Requests, signals, time and systemd.                                    *)

CallArrives ==
    /\ Running
    /\ server = "open"
    /\ calls < MaxCalls
    /\ calls' = calls + 1
    /\ UNCHANGED <<main, dog, requested, server, quiet, nap, watched>>

CallEnds ==
    /\ Running
    /\ calls > 0
    /\ calls' = calls - 1
    /\ UNCHANGED <<main, dog, requested, server, quiet, nap, watched>>

\* my_signal_handler.  Before sigaction the signal ends the process, which systemd
\* takes for a clean end.  "systemctl stop" also ends the watchdog's watch; a signal
\* from elsewhere does not.
Sigterm ==
    /\ Running
    /\ ~requested
    /\ requested' = TRUE
    /\ main' = IF main = "boot" THEN "terminated" ELSE main
    /\ watched' \in {watched, FALSE}
    /\ UNCHANGED <<dog, server, calls, quiet, nap>>

\* The clock leaves no thread of Server::run behind that can run.
MayPass ==
    \/ main \in Starting /\ quiet < StartMax
    \/ dog = "sleep" /\ (nap > 0 \/ quiet < Period + Jitter)
    \/ dog = "closing" /\ calls > 0

Tick ==
    /\ Running
    /\ quiet <= WatchdogSec
    /\ quiet' = quiet + 1
    /\ nap' = IF nap > 0 THEN nap - 1 ELSE 0
    /\ UNCHANGED <<main, dog, requested, server, calls, watched>>

\* SIGABRT from systemd.
WatchdogKill ==
    /\ Running
    /\ watched
    /\ quiet > WatchdogSec
    /\ main' = "killed"
    /\ UNCHANGED <<dog, requested, server, calls, quiet, nap, watched>>

\* Restart=on-failure, unless the stop was systemd's.
Restart ==
    /\ main \in {"aborted", "killed"}
    /\ watched
    /\ main' = "boot"
    /\ dog' = "none"
    /\ requested' = FALSE
    /\ server' = "none"
    /\ calls' = 0
    /\ quiet' = 0
    /\ nap' = 0
    /\ UNCHANGED watched

---------------------------------------------------------------------------

Init ==
    /\ main = "boot"
    /\ dog = "none"
    /\ requested = FALSE
    /\ server = "none"
    /\ calls = 0
    /\ quiet = 0
    /\ nap = 0
    /\ watched \in BOOLEAN

---------------------------------------------------------------------------
(* Properties.                                                             *)

\* Each variable is in its range, and silence never outlasts the limit by more
\* than the second in which systemd notices.
TypeOK ==
    /\ main \in Starting \cup {"join", "wait"} \cup Ended
    /\ dog \in {"none", "check", "notify", "sleep", "shutdown", "closing", "done"}
    /\ requested \in BOOLEAN
    /\ server \in {"none", "null", "open", "closing", "closed"}
    /\ calls \in 0..MaxCalls
    /\ quiet \in 0..(WatchdogSec + 1)
    /\ nap \in 0..Period
    /\ watched \in BOOLEAN

\* run returns only on request, with the gRPC server shut down and every request
\* answered.
GracefulExit == main = "exited" => requested /\ server = "closed" /\ calls = 0

\* SIGTERM ends the process: the watchdog thread wakes up, shuts gRPC down, is
\* joined, and run returns.
SigtermStops == requested ~> main \in Ended
===========================================================================
