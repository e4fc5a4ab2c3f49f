------------------------------ MODULE Startup ------------------------------
(***************************************************************************)
(* A yess process from its command line on: Server::parse_args, which ends  *)
(* the process for some command lines and turns it into a shell for others, *)
(* the loggers it sets up, and Server::run in both of its modes: as a       *)
(* daemon, which is Daemon, and in the foreground, without a signal handler *)
(* and without a watchdog.                                                  *)
(***************************************************************************)
EXTENDS Daemon

CONSTANTS
    Default,     \* "yess.db"
    Named        \* files a command line can name

ASSUME FilesAssumption == Default \notin Named /\ Named # {}

VARIABLES
    flags,       \* options given: "version", "interactive", "daemon", "file_only", "malformed"
    conn,        \* the value of --conn-str: {} when it is empty, {file} else
    path,        \* the value of --log-path: "empty", "relative", "absolute", "unusable"
    parse,       \* how far parse_args is; "run" and "shell" after it
    conn_str,    \* conn_str_ of the Server: the file it is going to open
    opened,      \* the database files the process has opened
    logger,      \* the file logger: "none", "both" (console, too) or "only"
    console,     \* what log::info has shown on the console
    logfile      \* what this process has written into the file

cmdline == <<flags, conn, path>>
logVars == <<logger, console, logfile>>
startVars == <<vars, cmdline, parse, conn_str, opened, logVars>>

\* Lines are told apart by the place that logs them.
BeforeLogger == {"path", "absolute"}

\* log::info: to the file logger, and to spdlog's default unless only_file.
Info(line) ==
    /\ logfile' = IF logger = "none" THEN logfile ELSE logfile \cup {line}
    /\ console' = IF logger = "only" THEN console ELSE console \cup {line}
    /\ UNCHANGED logger

---------------------------------------------------------------------------
(* Server::parse_args.                                                     *)

\* exit(0) is "terminated"; other ends are "aborted" and a failure to systemd.
Exit(how) ==
    /\ main' = how
    /\ watched' = (watched /\ how = "aborted")
    /\ parse' = "ended"
    /\ UNCHANGED <<dog, requested, server, calls, quiet, nap, cmdline, conn_str, opened,
                   logVars>>

\* A malformed command line, answered with the help, and --version.
ParseInformation ==
    /\ Running
    /\ parse = "options"
    /\ flags \cap {"malformed", "version"} # {}
    /\ Exit("terminated")

\* --interactive is looked at before --conn-str; the shell opens what conn_str_ says then.
ParseMode ==
    /\ Running
    /\ parse = "options"
    /\ flags \cap {"malformed", "version"} = {}
    /\ parse' = IF "interactive" \in flags THEN "shell" ELSE "log_path"
    /\ opened' = IF "interactive" \in flags THEN {conn_str} ELSE opened
    /\ UNCHANGED <<vars, cmdline, conn_str, logVars>>

\* Mutation of ParseLogPath: rotating_logger has the default for its last argument.
ParseLogPathBoth ==
    /\ Running
    /\ parse = "log_path"
    /\ path \in {"relative", "absolute"}
    /\ logger' = "both"
    /\ console' = console \cup {"path"} \cup {l \in {"absolute"} : path = "relative"}
    /\ parse' = "conn_str"
    /\ UNCHANGED <<vars, cmdline, conn_str, opened, logfile>>

\* The path is logged before the file logger is there, and so is its conversion.
ParseLogPath ==
    /\ Running
    /\ parse = "log_path"
    /\ path \in {"relative", "absolute"}
    /\ logger' = IF "file_only" \in flags THEN "only" ELSE "both"
    /\ console' = console \cup {"path"} \cup {l \in {"absolute"} : path = "relative"}
    /\ parse' = "conn_str"
    /\ UNCHANGED <<vars, cmdline, conn_str, opened, logfile>>

ParseNoLogPath ==
    /\ Running
    /\ parse = "log_path"
    /\ path = "empty"
    /\ "file_only" \notin flags
    /\ parse' = "conn_str"
    /\ UNCHANGED <<vars, cmdline, conn_str, opened, logVars>>

\* exit(1) for --file-only without a path; spdlog throws for a path it cannot open.
\* What is shown before is left out.
ParseLogPathFails ==
    /\ Running
    /\ parse = "log_path"
    /\ \/ path = "unusable"
       \/ path = "empty" /\ "file_only" \in flags
    /\ Exit("aborted")

\* Mutation of ParseConnStr: the value is logged and not kept.
ParseConnStrLost ==
    /\ Running
    /\ parse = "conn_str"
    /\ parse' = "run"
    /\ IF conn = {} THEN UNCHANGED logVars ELSE Info("conn")
    /\ UNCHANGED <<vars, cmdline, conn_str, opened>>

ParseConnStr ==
    /\ Running
    /\ parse = "conn_str"
    /\ parse' = "run"
    /\ IF conn = {}
       THEN UNCHANGED <<conn_str, logVars>>
       ELSE conn_str' \in conn /\ Info("conn")
    /\ UNCHANGED <<vars, cmdline, opened>>

ParseArgs ==
    ParseInformation \/ ParseMode \/ ParseLogPath \/ ParseNoLogPath \/ ParseLogPathFails
        \/ ParseConnStr

---------------------------------------------------------------------------
(* Server::run.                                                            *)

Serving == parse = "run"
InDaemon == Serving /\ "daemon" \in flags
InForeground == Serving /\ "daemon" \notin flags

\* Without --daemon, run starts with the service.
SkipToService ==
    /\ InForeground
    /\ main = "boot"
    /\ main' = "ready"
    /\ UNCHANGED <<dog, requested, server, calls, quiet, nap, watched, cmdline, parse, conn_str,
                   opened, logVars>>

Open ==
    /\ Serving
    /\ OpenService
    /\ opened' = {conn_str}
    /\ Info("database")
    /\ UNCHANGED <<cmdline, parse, conn_str>>

Listen ==
    /\ Serving
    /\ BuildAndStart
    /\ Info("listening")
    /\ UNCHANGED <<cmdline, parse, conn_str, opened>>

\* server->Wait() for ever; through a null pointer it is the end of the process.
WaitInForeground ==
    /\ InForeground
    /\ main = "built"
    /\ main' = IF server = "null" THEN "aborted" ELSE "wait"
    /\ UNCHANGED <<dog, requested, server, calls, quiet, nap, watched, cmdline, parse, conn_str,
                   opened, logVars>>

RunMain ==
    \/ SkipToService
    \/ Open
    \/ Listen
    \/ WaitInForeground
    \/ /\ InDaemon
       /\ InstallHandler \/ NotifyReady \/ StartWatchdog \/ Join \/ WaitAndExit
       /\ UNCHANGED <<cmdline, parse, conn_str, opened, logVars>>

RunDog ==
    \/ /\ DogDone
       /\ Info("shutdown")
       /\ UNCHANGED <<cmdline, parse, conn_str, opened>>
    \/ /\ DogCheck \/ DogNotify \/ DogWake \/ DogShutdown
       /\ UNCHANGED <<cmdline, parse, conn_str, opened, logVars>>

---------------------------------------------------------------------------
(* The rest of the world.                                                  *)

\* Only the daemon handles the signal.
SigtermEnds ==
    /\ Running
    /\ ~InDaemon
    /\ requested' = TRUE
    /\ main' = "terminated"
    /\ watched' \in {watched, FALSE}
    /\ UNCHANGED <<dog, server, calls, quiet, nap, cmdline, parse, conn_str,
                   opened, logVars>>

SignalDaemon ==
    /\ InDaemon
    /\ Sigterm
    /\ UNCHANGED <<cmdline, parse, conn_str, opened, logVars>>

\* Mutation of QuitShell: no exit(0) after shell().
QuitShellGoesOn ==
    /\ Running
    /\ parse = "shell"
    /\ parse' = "log_path"
    /\ UNCHANGED <<vars, cmdline, conn_str, opened, logVars>>

\* The user quits; Shell is what happens until then.
QuitShell ==
    /\ Running
    /\ parse = "shell"
    /\ Exit("terminated")

\* A request logs what the repositories do.
Request ==
    /\ CallEnds
    /\ Info("request")
    /\ UNCHANGED <<cmdline, parse, conn_str, opened>>

\* A shell waits for its user as long as he likes.  Nothing feeds the watchdog there.
PassTime ==
    /\ MayPass \/ parse = "shell"
    /\ Tick
    /\ UNCHANGED <<cmdline, parse, conn_str, opened, logVars>>

Arrive ==
    /\ CallArrives
    /\ UNCHANGED <<cmdline, parse, conn_str, opened, logVars>>

Kill ==
    /\ WatchdogKill
    /\ UNCHANGED <<cmdline, parse, conn_str, opened, logVars>>

\* systemd starts the same command line again, in a new process.
StartAgain ==
    /\ Restart
    /\ parse' = "options"
    /\ conn_str' = Default
    /\ opened' = {}
    /\ logger' = "none"
    /\ console' = {}
    /\ logfile' = {}
    /\ UNCHANGED cmdline

---------------------------------------------------------------------------

\* ExecStart=/usr/bin/yess --daemon; other options can be added to the unit.
StartInit ==
    /\ Init
    /\ flags \in SUBSET {"malformed", "version", "interactive", "daemon", "file_only"}
    /\ watched => "daemon" \in flags
    /\ conn \in {{}} \cup {{f} : f \in Named \cup {Default}}
    /\ path \in {"empty", "relative", "absolute", "unusable"}
    /\ parse = "options"
    /\ conn_str = Default
    /\ opened = {}
    /\ logger = "none"
    /\ console = {}
    /\ logfile = {}

StartNext ==
    \/ ParseArgs
    \/ RunMain
    \/ RunDog
    \/ SignalDaemon
    \/ SigtermEnds
    \/ QuitShell
    \/ Arrive
    \/ Request
    \/ PassTime
    \/ Kill
    \/ StartAgain

\* As in Daemon.
StartFairness ==
    /\ WF_startVars(ParseArgs \/ RunMain)
    /\ WF_startVars(RunDog)
    /\ WF_startVars(Request)
    /\ WF_startVars(PassTime)

StartSpec == StartInit /\ [][StartNext]_startVars /\ StartFairness

---------------------------------------------------------------------------
(* Properties.                                                             *)

\* Options decide before anything is opened: only a process that serves or is a shell
\* has a file open, at most one, and has a server only after its file.
StartTypeOK ==
    /\ opened # {} => parse \in {"run", "shell", "ended"}
    /\ opened \in {{}} \cup {{f} : f \in Named \cup {Default}}
    /\ server # "none" => Serving /\ opened # {}
    /\ dog # "none" => InDaemon

\* systemd never kills a daemon that serves and was not asked to stop: notifications
\* come in time whatever the requests do ('notify every 5 sec').  Nothing is said of a
\* watched process that became a shell: it sends none, and is killed for it.
FedWhileServing == main = "killed" => requested \/ ~Serving

\* Whatever way the other options take through parse_args, requests are answered from the
\* file that --conn-str names, and if it names none from yess.db, also after systemd has
\* started the process again ('connection string').  A shell is entered before that
\* option is looked at and has yess.db, whatever it says.
RequestsMeetTheNamedFile ==
    /\ calls > 0 => opened = IF conn = {} THEN {Default} ELSE conn
    /\ parse = "shell" => opened = {Default}

\* The first line of a service and the last one of its shutdown go where the options
\* ask: into the file if there is a log path, else to the console.  With --file-only
\* nothing more is shown than how the path was set ('log into file only').
LogGoesWhereAsked ==
    Serving =>
        /\ opened # {} => "database" \in (IF path = "empty" THEN console ELSE logfile)
        /\ dog = "done" => "shutdown" \in (IF path = "empty" THEN console ELSE logfile)
        /\ "file_only" \in flags => console \subseteq BeforeLogger
===========================================================================
