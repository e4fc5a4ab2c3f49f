--------------------------- MODULE StartupProofs ---------------------------
(***************************************************************************)
(* Theorems about Startup and the Daemon in it, for every timing that      *)
(* TimingAssumption admits, any number of requests and any files.          *)
(***************************************************************************)
EXTENDS Startup, TLAPS

---------------------------------------------------------------------------
(* The inductive invariant.                                                *)

\* The command line stays in its range, and so does how far it is looked at.
CmdlineOK ==
    /\ flags \subseteq {"malformed", "version", "interactive", "daemon", "file_only"}
    /\ conn \in {{}} \cup {{f} : f \in Named \cup {Default}}
    /\ path \in {"empty", "relative", "absolute", "unusable"}
    /\ parse \in {"options", "log_path", "conn_str", "run", "shell", "ended"}
    /\ logger \in {"none", "both", "only"}

\* The watchdog thread runs beside a main thread that is past its start.  A sleep
\* and the silence since the last notification add up to the period, and the limit
\* is kept outside of the shell as long as nobody asked for the shutdown.
Punctual ==
    /\ dog # "none" => main \notin Starting
    /\ dog = "sleep" => /\ quiet <= Period + Jitter
                        /\ nap > 0 => quiet + nap <= Period
    /\ ~requested /\ Running /\ parse # "shell" => quiet <= WatchdogSec

\* Only a request leads to a shutdown, and only an end of all calls out of it.
Orderly ==
    /\ dog \in {"shutdown", "closing", "done"} => requested
    /\ server \in {"closing", "closed"} => requested
    /\ server = "closed" => calls = 0
    /\ calls > 0 => server # "none"

\* conn_str_ keeps its initial value until the options before it are through, and what
\* is opened is what it says then.  The service exists after parse_args only.
Placed ==
    /\ parse \in {"options", "log_path", "conn_str", "shell"} => conn_str = Default
    /\ Serving => IF conn = {} THEN conn_str = Default ELSE conn = {conn_str}
    /\ Serving /\ opened # {} => opened = {conn_str}
    /\ parse = "shell" => opened = {conn_str}
    /\ main \in {"opened", "built", "join", "wait"} => Serving /\ opened # {}
    /\ main \in {"armed", "ready"} => Serving

\* What the logger is follows from the command line, once it has been looked at.
LoggerAsAsked ==
    /\ parse \in {"options", "log_path"} => console = {} /\ logger = "none"
    /\ parse \in {"conn_str", "run"} =>
          /\ "file_only" \in flags => path # "empty"
          /\ logger = IF path = "empty" THEN "none"
                      ELSE IF "file_only" \in flags THEN "only" ELSE "both"
          /\ "file_only" \in flags => console \subseteq BeforeLogger

\* The part about the daemon, and the part about the command line, the file and
\* the logs.
DaemonInv == TypeOK /\ Punctual /\ Orderly /\ FedWhileServing /\ GracefulExit
FrontInv == CmdlineOK /\ StartTypeOK /\ Placed /\ LoggerAsAsked /\ LogGoesWhereAsked

IInv == DaemonInv /\ FrontInv

LEMMA TimesAreNatural ==
    /\ WatchdogSec \in Nat /\ Period \in Nat /\ Jitter \in Nat
    /\ StartMax \in Nat /\ MaxCalls \in Nat
    /\ Period + Jitter <= WatchdogSec
    /\ StartMax <= WatchdogSec
BY TimingAssumption

\* A step of Daemon beside which Startup's own variables stay as they are.
FrontUnchanged == UNCHANGED <<cmdline, parse, conn_str, opened, logVars>>

\* The steps of others than yess itself, and its requests.
World ==
    SignalDaemon \/ SigtermEnds \/ QuitShell \/ Arrive \/ Request \/ PassTime \/ Kill
        \/ StartAgain

---------------------------------------------------------------------------
(* parse_args.                                                           *)

LEMMA ParseArgsDaemon ==
    ASSUME DaemonInv, FrontInv, ParseArgs
    PROVE  DaemonInv'
<1>. USE TimesAreNatural
     DEF DaemonInv, TypeOK, Punctual, Orderly, FedWhileServing, GracefulExit, Serving,
         Starting, Ended, Running, vars
<1>1. ASSUME ParseInformation PROVE DaemonInv'
  BY <1>1 DEF ParseInformation, Exit
<1>2. ASSUME ParseMode PROVE DaemonInv'
  BY <1>2 DEF ParseMode
<1>3. ASSUME ParseLogPath PROVE DaemonInv'
  BY <1>3 DEF ParseLogPath
<1>4. ASSUME ParseNoLogPath PROVE DaemonInv'
  BY <1>4 DEF ParseNoLogPath
<1>5. ASSUME ParseLogPathFails PROVE DaemonInv'
  BY <1>5 DEF ParseLogPathFails, Exit
<1>6. ASSUME ParseConnStr PROVE DaemonInv'
  BY <1>6 DEF ParseConnStr, Info
<1>. QED
  BY <1>1, <1>2, <1>3, <1>4, <1>5, <1>6 DEF ParseArgs

LEMMA ParseArgsFront ==
    ASSUME DaemonInv, FrontInv, ParseArgs
    PROVE  FrontInv'
<1>. USE DEF FrontInv, CmdlineOK, StartTypeOK, Placed, LoggerAsAsked, LogGoesWhereAsked,
             Serving, InDaemon, InForeground, BeforeLogger,
             Starting, Ended, Running, vars, cmdline, logVars
<1>1. ASSUME ParseInformation PROVE FrontInv'
  BY <1>1 DEF ParseInformation, Exit
<1>2. ASSUME ParseMode PROVE FrontInv'
  BY <1>2 DEF ParseMode
<1>3. ASSUME ParseLogPath PROVE FrontInv'
  BY <1>3 DEF ParseLogPath
<1>4. ASSUME ParseNoLogPath PROVE FrontInv'
  BY <1>4 DEF ParseNoLogPath
<1>5. ASSUME ParseLogPathFails PROVE FrontInv'
  BY <1>5 DEF ParseLogPathFails, Exit
<1>6. ASSUME ParseConnStr PROVE FrontInv'
  BY <1>6 DEF ParseConnStr, Info
<1>. QED
  BY <1>1, <1>2, <1>3, <1>4, <1>5, <1>6 DEF ParseArgs

---------------------------------------------------------------------------
(* Server::run.                                                          *)

LEMMA RunMainDaemon ==
    ASSUME DaemonInv, FrontInv, RunMain
    PROVE  DaemonInv'
<1>. USE TimesAreNatural
     DEF DaemonInv, TypeOK, Punctual, Orderly, FedWhileServing, GracefulExit, Serving,
         Starting, Ended, Running, vars
<1>1. ASSUME SkipToService PROVE DaemonInv'
  BY <1>1 DEF SkipToService
<1>2. ASSUME Open PROVE DaemonInv'
  BY <1>2 DEF Open, OpenService, Info
<1>3. ASSUME Listen PROVE DaemonInv'
  BY <1>3 DEF Listen, BuildAndStart, Info
<1>4. ASSUME WaitInForeground PROVE DaemonInv'
  BY <1>4 DEF WaitInForeground
<1>5. ASSUME InDaemon, InstallHandler, FrontUnchanged PROVE DaemonInv'
  BY <1>5 DEF InstallHandler, FrontUnchanged
<1>6. ASSUME InDaemon, NotifyReady, FrontUnchanged PROVE DaemonInv'
  BY <1>6 DEF NotifyReady, FrontUnchanged
<1>7. ASSUME InDaemon, StartWatchdog, FrontUnchanged PROVE DaemonInv'
  BY <1>7 DEF StartWatchdog, FrontUnchanged
<1>8. ASSUME InDaemon, Join, FrontUnchanged PROVE DaemonInv'
  BY <1>8 DEF Join, FrontUnchanged
<1>9. ASSUME InDaemon, WaitAndExit, FrontUnchanged PROVE DaemonInv'
  BY <1>9 DEF WaitAndExit, FrontUnchanged
<1>. QED
  BY <1>1, <1>2, <1>3, <1>4, <1>5, <1>6, <1>7, <1>8, <1>9 DEF RunMain, FrontUnchanged

LEMMA RunMainFront ==
    ASSUME DaemonInv, FrontInv, RunMain
    PROVE  FrontInv'
<1>. USE DEF FrontInv, CmdlineOK, StartTypeOK, Placed, LoggerAsAsked, LogGoesWhereAsked,
             Serving, InDaemon, InForeground, BeforeLogger,
             Starting, Ended, Running, vars, cmdline, logVars, FrontUnchanged
<1>1. ASSUME SkipToService PROVE FrontInv'
  BY <1>1 DEF SkipToService
<1>2. ASSUME Open PROVE FrontInv'
  BY <1>2 DEF Open, OpenService, Info
<1>3. ASSUME Listen PROVE FrontInv'
  BY <1>3 DEF Listen, BuildAndStart, Info
<1>4. ASSUME WaitInForeground PROVE FrontInv'
  BY <1>4 DEF WaitInForeground
<1>5. ASSUME InDaemon, InstallHandler, FrontUnchanged PROVE FrontInv'
  BY <1>5 DEF InstallHandler
<1>6. ASSUME InDaemon, NotifyReady, FrontUnchanged PROVE FrontInv'
  BY <1>6 DEF NotifyReady
<1>7. ASSUME InDaemon, StartWatchdog, FrontUnchanged PROVE FrontInv'
  BY <1>7 DEF StartWatchdog
<1>8. ASSUME InDaemon, Join, FrontUnchanged PROVE FrontInv'
  BY <1>8 DEF Join
<1>9. ASSUME InDaemon, WaitAndExit, FrontUnchanged PROVE FrontInv'
  BY <1>9 DEF WaitAndExit
<1>. QED
  BY <1>1, <1>2, <1>3, <1>4, <1>5, <1>6, <1>7, <1>8, <1>9 DEF RunMain, FrontUnchanged

---------------------------------------------------------------------------
(* The watchdog thread.                                                  *)

LEMMA RunDogDaemon ==
    ASSUME DaemonInv, FrontInv, RunDog
    PROVE  DaemonInv'
<1>. USE TimesAreNatural
     DEF DaemonInv, TypeOK, Punctual, Orderly, FedWhileServing, GracefulExit, Serving,
         Starting, Ended, Running, vars
<1>1. ASSUME DogDone, Info("shutdown"), UNCHANGED <<cmdline, parse, conn_str, opened>>
      PROVE  DaemonInv'
  BY <1>1 DEF DogDone, Info
<1>2. ASSUME DogCheck, FrontUnchanged PROVE DaemonInv'
  BY <1>2 DEF DogCheck, FrontUnchanged
<1>3. ASSUME DogNotify, FrontUnchanged PROVE DaemonInv'
  BY <1>3 DEF DogNotify, FrontUnchanged
<1>4. ASSUME DogWake, FrontUnchanged PROVE DaemonInv'
  BY <1>4 DEF DogWake, FrontUnchanged
<1>5. ASSUME DogShutdown, FrontUnchanged PROVE DaemonInv'
  BY <1>5 DEF DogShutdown, FrontUnchanged
<1>. QED
  BY <1>1, <1>2, <1>3, <1>4, <1>5 DEF RunDog, FrontUnchanged

LEMMA RunDogFront ==
    ASSUME DaemonInv, FrontInv, RunDog
    PROVE  FrontInv'
<1>. USE DEF FrontInv, CmdlineOK, StartTypeOK, Placed, LoggerAsAsked, LogGoesWhereAsked,
             Serving, InDaemon, InForeground, BeforeLogger,
             Starting, Ended, Running, vars, cmdline, logVars, FrontUnchanged
<1>1. ASSUME DogDone, Info("shutdown"), UNCHANGED <<cmdline, parse, conn_str, opened>>
      PROVE  FrontInv'
  BY <1>1 DEF DogDone, Info, DaemonInv, TypeOK, Punctual, Orderly
<1>2. ASSUME DogCheck, FrontUnchanged PROVE FrontInv'
  BY <1>2 DEF DogCheck
<1>3. ASSUME DogNotify, FrontUnchanged PROVE FrontInv'
  BY <1>3 DEF DogNotify
<1>4. ASSUME DogWake, FrontUnchanged PROVE FrontInv'
  BY <1>4 DEF DogWake
<1>5. ASSUME DogShutdown, FrontUnchanged PROVE FrontInv'
  BY <1>5 DEF DogShutdown, DaemonInv, TypeOK, Punctual, Orderly
<1>. QED
  BY <1>1, <1>2, <1>3, <1>4, <1>5 DEF RunDog, FrontUnchanged

---------------------------------------------------------------------------
(* Signals, requests, time and systemd.                                  *)

LEMMA WorldDaemon ==
    ASSUME DaemonInv, FrontInv, World \/ UNCHANGED startVars
    PROVE  DaemonInv'
<1>. USE TimesAreNatural
     DEF DaemonInv, TypeOK, Punctual, Orderly, FedWhileServing, GracefulExit, Serving,
         Starting, Ended, Running, vars
<1>1. ASSUME SignalDaemon PROVE DaemonInv'
  BY <1>1 DEF SignalDaemon, Sigterm
<1>2. ASSUME SigtermEnds PROVE DaemonInv'
  BY <1>2 DEF SigtermEnds
<1>3. ASSUME QuitShell PROVE DaemonInv'
  BY <1>3 DEF QuitShell, Exit
<1>4. ASSUME Arrive PROVE DaemonInv'
  BY <1>4 DEF Arrive, CallArrives
<1>5. ASSUME Request PROVE DaemonInv'
  BY <1>5 DEF Request, CallEnds, Info
<1>6. ASSUME PassTime PROVE DaemonInv'
  BY <1>6 DEF PassTime, Tick, MayPass, FrontInv, StartTypeOK, InDaemon
<1>7. ASSUME Kill PROVE DaemonInv'
  BY <1>7 DEF Kill, WatchdogKill
<1>8. ASSUME StartAgain PROVE DaemonInv'
  <2>1. main' = "boot" /\ dog' = "none" /\ server' = "none" /\ requested' = FALSE
    BY <1>8 DEF StartAgain, Restart
  <2>2. calls' = 0 /\ quiet' = 0 /\ nap' = 0 /\ watched' = watched
    BY <1>8 DEF StartAgain, Restart
  <2>3. TypeOK'
    <3>1. calls' \in 0..MaxCalls /\ quiet' \in 0..(WatchdogSec + 1) /\ nap' \in 0..Period
      BY <2>2
    <3>. QED
      BY <2>1, <2>2, <3>1
  <2>4. Punctual'
    BY <2>1, <2>2
  <2>5. Orderly'
    BY <2>1, <2>2
  <2>6. FedWhileServing' /\ GracefulExit'
    BY <2>1
  <2>. QED
    BY <2>3, <2>4, <2>5, <2>6
<1>9. ASSUME UNCHANGED startVars PROVE DaemonInv'
  BY <1>9 DEF startVars
<1>. QED
  BY <1>1, <1>2, <1>3, <1>4, <1>5, <1>6, <1>7, <1>8, <1>9 DEF World

LEMMA WorldFront ==
    ASSUME DaemonInv, FrontInv, World \/ UNCHANGED startVars
    PROVE  FrontInv'
<1>. USE DEF FrontInv, CmdlineOK, StartTypeOK, Placed, LoggerAsAsked, LogGoesWhereAsked,
             Serving, InDaemon, InForeground, BeforeLogger,
             Starting, Ended, Running, vars, cmdline, logVars
<1>1. ASSUME SignalDaemon PROVE FrontInv'
  BY <1>1 DEF SignalDaemon, Sigterm
<1>2. ASSUME SigtermEnds PROVE FrontInv'
  BY <1>2 DEF SigtermEnds
<1>3. ASSUME QuitShell PROVE FrontInv'
  BY <1>3 DEF QuitShell, Exit
<1>4. ASSUME Arrive PROVE FrontInv'
  BY <1>4 DEF Arrive, CallArrives
<1>5. ASSUME Request PROVE FrontInv'
  BY <1>5 DEF Request, CallEnds, Info, DaemonInv, TypeOK, Orderly
<1>6. ASSUME PassTime PROVE FrontInv'
  BY <1>6 DEF PassTime, Tick, MayPass
<1>7. ASSUME Kill PROVE FrontInv'
  BY <1>7 DEF Kill, WatchdogKill
<1>8. ASSUME StartAgain PROVE FrontInv'
  BY <1>8 DEF StartAgain, Restart
<1>9. ASSUME UNCHANGED startVars PROVE FrontInv'
  BY <1>9 DEF startVars
<1>. QED
  BY <1>1, <1>2, <1>3, <1>4, <1>5, <1>6, <1>7, <1>8, <1>9 DEF World

---------------------------------------------------------------------------
(* The theorems.                                                           *)

LEMMA InitIInv == StartInit => IInv
<1>. SUFFICES ASSUME StartInit PROVE DaemonInv /\ FrontInv
  BY DEF IInv
<1>. USE DEF StartInit, Init, Starting, Ended, Running
<1>1. DaemonInv
  <2>1. calls \in 0..MaxCalls /\ quiet \in 0..(WatchdogSec + 1) /\ nap \in 0..Period
    BY TimesAreNatural
  <2>2. TypeOK
    BY <2>1 DEF TypeOK
  <2>3. Punctual
    BY TimesAreNatural DEF Punctual
  <2>4. Orderly /\ FedWhileServing /\ GracefulExit
    BY DEF Orderly, FedWhileServing, GracefulExit, Serving
  <2>. QED
    BY <2>2, <2>3, <2>4 DEF DaemonInv
<1>2. FrontInv
  BY DEF FrontInv, CmdlineOK, StartTypeOK, Placed, LoggerAsAsked, LogGoesWhereAsked,
         Serving, InDaemon, BeforeLogger
<1>. QED
  BY <1>1, <1>2

LEMMA NextIInv == IInv /\ [StartNext]_startVars => IInv'
<1>. SUFFICES ASSUME DaemonInv, FrontInv, [StartNext]_startVars
              PROVE  DaemonInv' /\ FrontInv'
  BY DEF IInv
<1>. QED
  BY ParseArgsDaemon, ParseArgsFront, RunMainDaemon, RunMainFront, RunDogDaemon,
     RunDogFront, WorldDaemon, WorldFront DEF StartNext, World

\* The inductive invariant, for every timing and every command line.
THEOREM StartInvariant == StartSpec => []IInv
BY InitIInv, NextIInv, PTL DEF StartSpec

\* Every variable of the daemon stays in its range; silence is noticed within a second.
THEOREM DaemonTypeCorrect == StartSpec => []TypeOK
<1>1. IInv => TypeOK
  BY DEF IInv, DaemonInv
<1>. QED
  BY <1>1, StartInvariant, PTL

\* Nothing is opened and no server or watchdog exists before the options allow it.
THEOREM StartTypeCorrect == StartSpec => []StartTypeOK
<1>1. IInv => StartTypeOK
  BY DEF IInv, FrontInv
<1>. QED
  BY <1>1, StartInvariant, PTL

\* A daemon that serves, and whose sleep and start-up fit into the limit of systemd, is
\* killed only after it was asked to stop, whatever its requests do.
THEOREM FedWhileServingHolds == StartSpec => []FedWhileServing
<1>1. IInv => FedWhileServing
  BY DEF IInv, DaemonInv
<1>. QED
  BY <1>1, StartInvariant, PTL

\* run returns only on request and after every call was answered.
THEOREM GracefulExitHolds == StartSpec => []GracefulExit
<1>1. IInv => GracefulExit
  BY DEF IInv, DaemonInv
<1>. QED
  BY <1>1, StartInvariant, PTL

\* No request is answered from another file than the one the command line names, and no
\* shell opens another one than yess.db: it is entered before --conn-str is looked at.
THEOREM NamedFileHolds == StartSpec => []RequestsMeetTheNamedFile
<1>1. IInv => RequestsMeetTheNamedFile
  BY DEF IInv, DaemonInv, TypeOK, Orderly, FrontInv, StartTypeOK, Placed,
         RequestsMeetTheNamedFile
<1>. QED
  BY <1>1, StartInvariant, PTL

\* The first line of a service and the last one of its shutdown go into the file if there
\* is a path, and to the console if not.
THEOREM LogHolds == StartSpec => []LogGoesWhereAsked
<1>1. IInv => LogGoesWhereAsked
  BY DEF IInv, FrontInv
<1>. QED
  BY <1>1, StartInvariant, PTL
===========================================================================
