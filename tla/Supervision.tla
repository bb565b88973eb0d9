---------------------------- MODULE Supervision ----------------------------
(***************************************************************************)
(* The service and the app it looks after, in one session of Windows. The  *)
(* service watches the app's pipe, kills and starts the app when the pipe  *)
(* does not answer, gives up after MaxCrashes of that, and exits when it   *)
(* is told to. The app starts the service when it finds none.              *)
(*                                                                         *)
(* Explorer starts the processes: a launch is a request that is served     *)
(* later, if at all. Of two processes of the app the later one leaves at   *)
(* once, so there is one. The threads of the service are its main thread,  *)
(* the monitor, the hotkeys and the tasks of its pipe. Deadlines are       *)
(* flags that expire.                                                      *)
(***************************************************************************)
EXTENDS Naturals

CONSTANTS
  MaxCrashes,  \* MAX_CRASHES: failures in a row that are repaired
  MaxLaunches  \* bound on the launches explorer has not served yet

ASSUME SupervisionAssumption == MaxCrashes \in Nat /\ MaxLaunches \in Nat \ {0}

VARIABLES
  \* --- the app
  app,          \* its process: "off", "starting" without a pipe, "listening" and
                \* about to look for the service, "up", "stuck", "quitting"
  stop,         \* the Stop it sends when the user quits: "no", "sending", "sent"
  launches,     \* launches handed to explorer.exe
  \* --- the service
  svc,          \* "off", "setup", "running", "cleanup"
  exiting,      \* EXITING
  exitSignal,   \* a message in EXIT_CHANNEL
  forceQuit,    \* what the hotkey has yet to do: "no", "kill" the app, "exit"
  \* --- the monitor
  mon,          \* "off", "sleep", "probe", "failed", "kill", "backoff", "gaveUp"
  crashCount, connected, grace, wasSuspended,
  suspended,    \* SYSTEM_SUSPENDED
  \* --- history, no code reads it
  answered,     \* the app answered a health check after the last failure
  final         \* the service was told to exit while nothing was being launched

appVars == <<app, stop, launches>>
svcVars == <<svc, exiting, exitSignal, forceQuit, final>>
monVars == <<mon, crashCount, connected, grace, wasSuspended, answered>>
vars == <<appVars, svcVars, monVars, suspended>>

\* Its end of the pipe is served: AppIpc::can_stablish_connection.
Answers == app \in {"listening", "up", "quitting"}

\* Nobody is past the test of EXITING or about to launch the app.
NothingUnderWay ==
  mon \in {"off", "sleep", "gaveUp"} /\ svc # "setup" /\ launches = 0

Init ==
  /\ app = "off" /\ stop = "no" /\ launches = 0
  /\ svc = "off" /\ exiting = FALSE /\ exitSignal = FALSE /\ forceQuit = "no"
  /\ mon = "off" /\ crashCount = 0 /\ connected = TRUE /\ grace = FALSE
  /\ wasSuspended = FALSE /\ suspended = FALSE
  /\ answered = FALSE /\ final = FALSE
-----------------------------------------------------------------------------
(* The app *)

\* The user starts it, at logon or from the menu.
UserStarts ==
  /\ app = "off"
  /\ app' = "starting"
  /\ UNCHANGED <<stop, launches, svcVars, monVars, suspended>>

\* explorer.exe starts it, or a second process that leaves, or nothing at all.
ExplorerStarts ==
  /\ launches > 0
  /\ launches' = launches - 1
  /\ app' = IF app = "off" THEN "starting" ELSE app
  /\ UNCHANGED <<stop, svcVars, monVars, suspended>>

ExplorerFails ==
  /\ launches > 0
  /\ launches' = launches - 1
  /\ UNCHANGED <<app, stop, svcVars, monVars, suspended>>

\* SelfPipe::start_listener
AppListens ==
  /\ app = "starting"
  /\ app' = "listening"
  /\ UNCHANGED <<stop, launches, svcVars, monVars, suspended>>

\* setup: the pipe of the service answers from its setup to its last moment.
AppFindsService ==
  /\ app = "listening" /\ svc # "off"
  /\ app' = "up"
  /\ UNCHANGED <<stop, launches, svcVars, monVars, suspended>>

\* A new process, whose statics have their initial values
SvcStarts ==
  /\ svc = "off"
  /\ svc' = "setup" /\ final' = FALSE
  /\ UNCHANGED <<exiting, exitSignal, forceQuit, monVars, suspended>>

AppStartsService ==
  /\ app = "listening"
  /\ app' = "up"
  /\ SvcStarts
  /\ UNCHANGED <<stop, launches>>

\* The app ends on an error, a crash, the task manager, the force-restart
\* hotkey; what it was sending is lost with it.
AppDies == app' = "off" /\ stop' = IF stop = "sending" THEN "no" ELSE stop

AppCrashes ==
  /\ app # "off"
  /\ AppDies
  /\ UNCHANGED <<launches, svcVars, monVars, suspended>>

AppHangs ==
  /\ app = "up"
  /\ app' = "stuck"
  /\ UNCHANGED <<stop, launches, svcVars, monVars, suspended>>

AppRecovers ==
  /\ app = "stuck"
  /\ app' = "up"
  /\ UNCHANGED <<stop, launches, svcVars, monVars, suspended>>

\* ExitRequested with code 0: request(Stop) starts a task of the app's runtime.
UserQuits ==
  /\ app = "up" /\ stop = "no"
  /\ app' = "quitting" /\ stop' = "sending"
  /\ UNCHANGED <<launches, svcVars, monVars, suspended>>

StopSent ==
  /\ stop = "sending" /\ svc # "off"
  /\ stop' = "sent"
  /\ UNCHANGED <<app, launches, svcVars, monVars, suspended>>

\* send_with_retry has no attempt left.
StopGivenUp ==
  /\ stop = "sending" /\ svc = "off"
  /\ stop' = "no"
  /\ UNCHANGED <<app, launches, svcVars, monVars, suspended>>

\* main returns and drops the runtime, whether or not the task was done.
AppExits ==
  /\ app = "quitting"
  /\ AppDies
  /\ UNCHANGED <<launches, svcVars, monVars, suspended>>
-----------------------------------------------------------------------------
(* The service: start and end *)

\* explorer.exe has a request more; one more than the bound changes nothing.
Launch == launches' = IF launches < MaxLaunches THEN launches + 1 ELSE launches

\* setup, from the probe on. EXITING is not looked at before the monitor's
\* first round.
SetupDone(launched) ==
  /\ svc = "setup"
  /\ svc' = "running"
  /\ mon' = "sleep" /\ grace' = launched
  /\ UNCHANGED <<app, stop, exiting, exitSignal, forceQuit, final, crashCount,
                 connected, wasSuspended, answered, suspended>>

SetupLaunches == ~Answers /\ Launch /\ SetupDone(TRUE)

SetupFindsApp == Answers /\ UNCHANGED launches /\ SetupDone(FALSE)

\* exit: EXITING and, by a task, the exit code
Exit ==
  /\ exiting' = TRUE /\ exitSignal' = TRUE
  /\ final' = (final \/ (~exiting /\ NothingUnderWay))

\* The Stop of the app, handled by a task of the pipe
StopHandled ==
  /\ stop = "sent" /\ svc # "off"
  /\ stop' = "no"
  /\ Exit
  /\ UNCHANGED <<app, launches, svc, forceQuit, monVars, suspended>>

\* WM_QUERYENDSESSION, whether or not the session ends in the end
SessionEnds ==
  /\ svc \in {"setup", "running"} /\ ~exiting
  /\ Exit
  /\ UNCHANGED <<appVars, svc, forceQuit, monVars, suspended>>

\* Fault: EXITING is left to exit().
ForceQuitUnannounced ==
  /\ svc = "running" /\ ~exiting /\ forceQuit = "no"
  /\ forceQuit' = "kill"
  /\ final' = NothingUnderWay
  /\ UNCHANGED <<appVars, svc, exiting, exitSignal, monVars, suspended>>

\* The force-quit hotkey: EXITING first, so that the app is not started again,
ForceQuit ==
  /\ svc = "running" /\ ~exiting /\ forceQuit = "no"
  /\ forceQuit' = "kill"
  /\ exiting' = TRUE
  /\ final' = NothingUnderWay
  /\ UNCHANGED <<appVars, svc, exitSignal, monVars, suspended>>

\* then the app is killed,
ForceQuitKills ==
  /\ forceQuit = "kill"
  /\ forceQuit' = "exit"
  /\ AppDies
  /\ UNCHANGED <<launches, svc, exiting, exitSignal, final, monVars, suspended>>

\* Fault: EXITING is taken for enough.
ForceQuitLingers ==
  /\ forceQuit = "exit"
  /\ forceQuit' = "no"
  /\ UNCHANGED <<appVars, svc, exiting, exitSignal, final, monVars, suspended>>

\* then exit(0).
ForceQuitExits ==
  /\ forceQuit = "exit"
  /\ forceQuit' = "no"
  /\ Exit
  /\ UNCHANGED <<appVars, svc, monVars, suspended>>

\* The main thread receives the code and cleans up.
MainWakes ==
  /\ svc = "running" /\ exitSignal
  /\ svc' = "cleanup"
  /\ UNCHANGED <<appVars, exiting, exitSignal, forceQuit, final, monVars, suspended>>

\* process::exit, or a kill: the threads and statics of the service are gone,
\* and a Stop it has not handled, which the app sends again while it lives.
SvcGone ==
  /\ svc' = "off" /\ exiting' = FALSE /\ exitSignal' = FALSE /\ forceQuit' = "no"
  /\ mon' = "off" /\ crashCount' = 0 /\ connected' = TRUE /\ grace' = FALSE
  /\ wasSuspended' = FALSE /\ answered' = FALSE /\ suspended' = FALSE
  /\ stop' = IF stop # "sent" THEN stop ELSE IF app = "quitting" THEN "sending" ELSE "no"
  /\ UNCHANGED <<app, launches, final>>

MainLeaves == svc = "cleanup" /\ SvcGone

SvcKilled == svc \in {"setup", "running"} /\ SvcGone
-----------------------------------------------------------------------------
(* The monitor *)

\* Windows suspends and resumes: power_callback.
Suspend ==
  /\ svc = "running" /\ ~suspended
  /\ suspended' = TRUE
  /\ UNCHANGED <<appVars, svcVars, monVars>>

Resume ==
  /\ suspended
  /\ suspended' = FALSE
  /\ UNCHANGED <<appVars, svcVars, monVars>>

\* A round begins, after a second.
WakeToExit ==
  /\ mon = "sleep" /\ exiting
  /\ mon' = "off"
  /\ UNCHANGED <<appVars, svcVars, crashCount, connected, grace, wasSuspended,
                 answered, suspended>>

WakeSuspended ==
  /\ mon = "sleep" /\ ~exiting /\ suspended
  /\ wasSuspended' = TRUE
  /\ UNCHANGED <<appVars, svcVars, mon, crashCount, connected, grace, answered, suspended>>

\* Fault: the failures of the time before are kept.
WakeForgiving ==
  /\ mon = "sleep" /\ ~exiting /\ ~suspended /\ wasSuspended
  /\ wasSuspended' = FALSE /\ connected' = TRUE /\ grace' = TRUE
  /\ UNCHANGED <<appVars, svcVars, mon, crashCount, answered, suspended>>

\* Fault: the suspension is found again in every round.
WakeForEver ==
  /\ mon = "sleep" /\ ~exiting /\ ~suspended /\ wasSuspended
  /\ crashCount' = 0 /\ connected' = TRUE /\ grace' = TRUE
  /\ UNCHANGED <<appVars, svcVars, mon, wasSuspended, answered, suspended>>

WakeResumed ==
  /\ mon = "sleep" /\ ~exiting /\ ~suspended /\ wasSuspended
  /\ wasSuspended' = FALSE
  /\ crashCount' = 0 /\ connected' = TRUE /\ grace' = TRUE
  /\ UNCHANGED <<appVars, svcVars, mon, answered, suspended>>

WakeToCheck ==
  /\ mon = "sleep" /\ ~exiting /\ ~suspended /\ ~wasSuspended
  /\ mon' = "probe"
  /\ UNCHANGED <<appVars, svcVars, crashCount, connected, grace, wasSuspended,
                 answered, suspended>>

ProbeOk ==
  /\ mon = "probe" /\ Answers
  /\ mon' = "sleep" /\ connected' = TRUE /\ answered' = TRUE
  /\ crashCount' = IF connected THEN crashCount ELSE 0
  /\ grace' = (grace /\ connected)
  /\ UNCHANGED <<appVars, svcVars, wasSuspended, suspended>>

\* Failures are not counted before the deadline.
ProbeFails ==
  /\ mon = "probe" /\ ~Answers
  /\ mon' = IF grace THEN "sleep" ELSE "failed"
  /\ UNCHANGED <<appVars, svcVars, crashCount, connected, grace, wasSuspended,
                 answered, suspended>>

CountFailure ==
  /\ mon = "failed"
  /\ crashCount' = crashCount + 1 /\ connected' = FALSE /\ answered' = FALSE
  /\ mon' = IF crashCount + 1 > MaxCrashes THEN "gaveUp" ELSE "kill"
  /\ UNCHANGED <<appVars, svcVars, grace, wasSuspended, suspended>>

\* kill_all_seelen_ui_processes, whatever has become of the app since the probe
Kill ==
  /\ mon = "kill"
  /\ mon' = "backoff"
  /\ AppDies
  /\ UNCHANGED <<launches, svcVars, crashCount, connected, grace, wasSuspended,
                 answered, suspended>>

Relaunch ==
  /\ mon = "backoff"
  /\ mon' = "sleep" /\ grace' = TRUE
  /\ Launch
  /\ UNCHANGED <<app, stop, svcVars, crashCount, connected, wasSuspended, answered,
                 suspended>>

GiveUp ==
  /\ mon = "gaveUp"
  /\ mon' = "off"
  /\ Exit
  /\ UNCHANGED <<appVars, svc, forceQuit, crashCount, connected, grace, wasSuspended,
                 answered, suspended>>

\* grace_until passes: STARTUP_TIMEOUT or RESUME_GRACE after it was set.
GraceExpires ==
  /\ grace
  /\ grace' = FALSE
  /\ UNCHANGED <<appVars, svcVars, mon, crashCount, connected, wasSuspended, answered,
                 suspended>>
-----------------------------------------------------------------------------
(* The specification *)

App ==
  \/ UserStarts \/ ExplorerStarts \/ ExplorerFails
  \/ AppListens \/ AppFindsService \/ AppStartsService
  \/ AppCrashes \/ AppHangs \/ AppRecovers
  \/ UserQuits \/ StopSent \/ StopGivenUp \/ AppExits

\* The service is also started at logon and by the user.
ServiceStarts == SvcStarts /\ UNCHANGED appVars

Setup == SetupLaunches \/ SetupFindsApp

ForceQuitGoesOn == ForceQuitKills \/ ForceQuitExits

Main == MainWakes \/ MainLeaves

Monitor ==
  \/ WakeToExit \/ WakeSuspended \/ WakeResumed \/ WakeToCheck
  \/ ProbeOk \/ ProbeFails \/ CountFailure \/ Kill \/ Relaunch \/ GiveUp

Next ==
  \/ App \/ ServiceStarts \/ Setup \/ Main
  \/ StopHandled \/ SessionEnds \/ ForceQuit \/ ForceQuitGoesOn
  \/ SvcKilled
  \/ Suspend \/ Resume \/ GraceExpires \/ Monitor

Spec == Init /\ [][Next]_vars

\* The threads of the service run and time passes. Nothing is assumed of the
\* app, of explorer.exe or of the user.
FairSpec ==
  /\ Spec
  /\ WF_vars(Setup) /\ WF_vars(Monitor) /\ WF_vars(GraceExpires)
  /\ WF_vars(ForceQuitGoesOn) /\ WF_vars(Main)
-----------------------------------------------------------------------------
(* Properties *)

TypeOK ==
  /\ app \in {"off", "starting", "listening", "up", "stuck", "quitting"}
  /\ stop \in {"no", "sending", "sent"}
  /\ launches \in 0..MaxLaunches
  /\ svc \in {"off", "setup", "running", "cleanup"}
  /\ exiting \in BOOLEAN /\ exitSignal \in BOOLEAN
  /\ forceQuit \in {"no", "kill", "exit"}
  /\ mon \in {"off", "sleep", "probe", "failed", "kill", "backoff", "gaveUp"}
  /\ crashCount \in 0..(MaxCrashes + 1)
  /\ connected \in BOOLEAN /\ grace \in BOOLEAN /\ wasSuspended \in BOOLEAN
  /\ suspended \in BOOLEAN /\ answered \in BOOLEAN /\ final \in BOOLEAN

\* Once the service is told to exit it does not start the app again, unless it
\* was already about to: by a Stop, by the end of the session, or from the moment
\* the force-quit hotkey is pressed, whose kill must not look like a crash.
QuitIsFinal == final => launches = 0

\* "Max consecutive failures before giving up": crash_count never holds a failure
\* from before the app last answered, although it is only reset by the first
\* answer after a failure, by a resume and by the start of the service.
FailuresInARow == answered => crashCount = 0

\* An app that died or hangs is not left alone: it answers again sooner or later,
\* or the service has given up or ended, or the system is suspended. Whatever the
\* grace windows, suspensions, failing launches and crashes in between.
AppComesBack ==
  svc = "running" /\ app \in {"off", "stuck"}
    ~> Answers \/ exiting \/ svc = "off" \/ suspended

\* A service that was told to exit ends, from whichever thread it was told.
ExitEnds == exiting ~> svc = "off"
=============================================================================
