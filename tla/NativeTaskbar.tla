--------------------------- MODULE NativeTaskbar ---------------------------
(***************************************************************************)
(* Hiding the taskbar of Windows. The app asks for it by messages over the *)
(* service's pipe, each one sent by a task of its own, again when the      *)
(* answer is late; the service does it, by threads that hide the bar       *)
(* repeatedly, and remembers in NATIVE_TASKBAR_HIDDEN that it did. When it *)
(* exits it restores the bar.                                              *)
(*                                                                         *)
(* When the app and the service start and end is free here; Supervision    *)
(* has the rules. Each connection is served by its own task, so messages   *)
(* are handled in any order.                                               *)
(***************************************************************************)
EXTENDS Naturals

CONSTANTS
  Request,     \* tasks of the app that send a message
  Hider,       \* threads of the service that hide the bar
  MaxRetries,  \* MAX_RETRIES: attempts to send a message
  Attempts,    \* times a thread hides the bar
  MaxShowing   \* bound on the tasks that restore the bar at a time

ASSUME TaskbarAssumption ==
  /\ MaxRetries \in Nat \ {0} /\ Attempts \in Nat \ {0} /\ MaxShowing \in Nat \ {0}

VARIABLES
  \* --- the app
  app,        \* it is running
  weg,        \* is_weg_enabled, a saved setting
  request,    \* task -> its message and how far it is
  \* --- the service
  svc,        \* "off", "running", and its main thread: "restore", "show", "leave"
  inbox,      \* messages that arrived, one for each attempt
  flag,       \* NATIVE_TASKBAR_HIDDEN
  hider,      \* thread -> how far it is
  showing,    \* restore_native_taskbar calls between the flag and the bar
  \* --- Windows
  hidden,     \* the taskbar is hidden
  shownEvent, \* EVENT_OBJECT_SHOW of the taskbar, not handled yet
  \* --- history, no code reads it
  sure,       \* the newest message was sent alone, was not given up, and the
              \* service that was to get it has not ended since
  stranded    \* the bar was hidden behind the back of the flag

appVars == <<app, weg, request>>
svcVars == <<svc, inbox, flag, hider, showing>>
barVars == <<hidden, shownEvent>>
vars == <<appVars, svcVars, barVars, sure, stranded>>

Idle == [pc |-> "idle", act |-> "none", try |-> 0]

Resting == [pc |-> "idle", left |-> 0]

IdleRequests == [r \in Request |-> Idle]

IdleHiders == [h \in Hider |-> Resting]

Message(r) == [req |-> r, act |-> request[r].act, try |-> request[r].try]

\* A task without a message, of which no late copy is on its way either
Spare(r) == request[r] = Idle /\ \A m \in inbox : m.req # r

\* Nothing is being sent, handled or done to the bar.
Quiet ==
  /\ \A r \in Request : Spare(r)
  /\ hider = IdleHiders /\ showing = 0

Init ==
  /\ app = FALSE /\ weg \in BOOLEAN /\ request = IdleRequests
  /\ svc = "off" /\ inbox = {} /\ flag = FALSE /\ hider = IdleHiders /\ showing = 0
  /\ hidden = FALSE /\ shownEvent = FALSE
  /\ sure = FALSE /\ stranded = FALSE
-----------------------------------------------------------------------------
(* The app: what it asks for *)

\* ServicePipe::request: a task is spawned and its result ignored.
Ask(act) ==
  \E r \in Request :
    /\ Spare(r)
    /\ request' = [request EXCEPT ![r] = [pc |-> "sending", act |-> act, try |-> 1]]
    /\ sure' = Quiet

Wanted(enabled) == IF enabled THEN "hide" ELSE "restore"

\* setup makes sure of the service; start asks for nothing when the dock is off.
AppBoots ==
  /\ ~app
  /\ app' = TRUE
  /\ IF weg THEN Ask("hide") ELSE UNCHANGED <<request, sure>>
  /\ svc' = IF svc = "off" THEN "running" ELSE svc
  /\ shownEvent' = FALSE
  /\ UNCHANGED <<weg, inbox, flag, hider, showing, hidden, stranded>>

\* on_settings_change: whatever setting it was
SettingsChange ==
  /\ app
  /\ weg' \in BOOLEAN
  /\ Ask(Wanted(weg'))
  /\ UNCHANGED <<app, svcVars, barVars, stranded>>

\* Fault: the bar that comes back is left alone.
HookShownIgnored ==
  /\ app /\ shownEvent
  /\ shownEvent' = FALSE
  /\ UNCHANGED <<appVars, svcVars, hidden, sure, stranded>>

\* process_win_event: the bar was shown or created while the dock is enabled.
HookShown ==
  /\ app /\ shownEvent
  /\ shownEvent' = FALSE
  /\ IF weg THEN Ask("hide") ELSE UNCHANGED <<request, sure>>
  /\ UNCHANGED <<app, weg, svcVars, hidden, stranded>>

\* The app quits or crashes, and its tasks with it. What is in the pipe stays.
AppEnds ==
  /\ app
  /\ app' = FALSE
  /\ request' = IdleRequests
  /\ sure' = (sure /\ \A r \in Request : request[r].pc # "sending")
  /\ shownEvent' = FALSE
  /\ UNCHANGED <<weg, svcVars, hidden, stranded>>
-----------------------------------------------------------------------------
(* send_with_retry *)

Deliver(r) ==
  /\ request[r].pc = "sending" /\ svc # "off"
  /\ request' = [request EXCEPT ![r].pc = "waiting"]
  /\ inbox' = inbox \cup {Message(r)}
  /\ UNCHANGED <<app, weg, svc, flag, hider, showing, barVars, sure, stranded>>

\* There is no service, or its answer is late: it may yet handle the message.
AttemptFails(r) ==
  /\ \/ request[r].pc = "sending" /\ svc = "off"
     \/ request[r].pc = "waiting"
  /\ IF request[r].try < MaxRetries
     THEN /\ request' = [request EXCEPT ![r].pc = "sending", ![r].try = @ + 1]
          /\ UNCHANGED sure
     ELSE /\ request' = [request EXCEPT ![r] = Idle]
          /\ sure' = FALSE
  /\ UNCHANGED <<app, weg, svcVars, barVars, stranded>>

\* The answer ends the task that still waits for it.
Answered(m) ==
  request' = IF request[m.req].pc = "waiting" /\ Message(m.req) = m
             THEN [request EXCEPT ![m.req] = Idle] ELSE request
-----------------------------------------------------------------------------
(* The service *)

SvcStarts ==
  /\ svc = "off"
  /\ svc' = "running"
  /\ UNCHANGED <<appVars, inbox, flag, hider, showing, barVars, sure, stranded>>

\* hide_native_taskbar: the flag, and a thread
HandleHide(m) ==
  /\ svc # "off" /\ m \in inbox /\ m.act = "hide"
  /\ inbox' = inbox \ {m}
  /\ Answered(m)
  /\ flag' = TRUE
  /\ \E h \in Hider :
       hider[h] = Resting /\ hider' = [hider EXCEPT ![h] = [pc |-> "check", left |-> Attempts]]
  /\ UNCHANGED <<app, weg, svc, showing, barVars, sure, stranded>>

\* Nothing is done unless the flag was set.
ClearFlag == flag' = FALSE

HandleRestore(m) ==
  /\ svc # "off" /\ m \in inbox /\ m.act = "restore" /\ showing < MaxShowing
  /\ inbox' = inbox \ {m}
  /\ Answered(m)
  /\ showing' = IF flag THEN showing + 1 ELSE showing
  /\ ClearFlag
  /\ UNCHANGED <<app, weg, svc, hider, barVars, sure, stranded>>

\* Every attempt of the thread looks at the flag first,
HiderChecks(h) ==
  /\ hider[h].pc = "check"
  /\ hider' = [hider EXCEPT ![h] = IF flag /\ hider[h].left > 0
                                   THEN [pc |-> "hide", left |-> hider[h].left - 1]
                                   ELSE Resting]
  /\ UNCHANGED <<appVars, svc, inbox, flag, showing, barVars, sure, stranded>>

\* then hides the bar, although it may have been restored in between.
HiderHides(h) ==
  /\ hider[h].pc = "hide"
  /\ hider' = [hider EXCEPT ![h].pc = "check"]
  /\ hidden' = TRUE
  /\ stranded' = (stranded \/ ~flag)
  /\ UNCHANGED <<appVars, svc, inbox, flag, showing, shownEvent, sure>>

\* The app is told of a bar that was not shown before.
BarShown ==
  /\ hidden' = FALSE
  /\ shownEvent' = (shownEvent \/ (hidden /\ app))

\* The bar is visible again; threads past their check may still hide it.
Show ==
  /\ BarShown
  /\ stranded' = FALSE

ShowRestored ==
  /\ showing > 0
  /\ showing' = showing - 1
  /\ Show
  /\ UNCHANGED <<appVars, svc, inbox, flag, hider, sure>>

\* The main thread is told to exit: restore_native_taskbar, then process::exit,
\* while the other threads go on.
MainWakes ==
  /\ svc = "running"
  /\ svc' = "restore"
  /\ UNCHANGED <<appVars, inbox, flag, hider, showing, barVars, sure, stranded>>

\* Fault: the flag is cleared first and looked at afterwards.
MainRestoresNothing ==
  /\ svc = "restore"
  /\ svc' = "leave"
  /\ flag' = FALSE
  /\ UNCHANGED <<appVars, inbox, hider, showing, barVars, sure, stranded>>

MainRestores ==
  /\ svc = "restore"
  /\ svc' = IF flag THEN "show" ELSE "leave"
  /\ ClearFlag
  /\ UNCHANGED <<appVars, inbox, hider, showing, barVars, sure, stranded>>

MainShows ==
  /\ svc = "show"
  /\ svc' = "leave"
  /\ Show
  /\ UNCHANGED <<appVars, inbox, flag, hider, showing, sure>>

\* The process is gone. A hidden bar stays hidden and nobody knows of it; a new
\* process is told nothing.
SvcGone ==
  /\ svc' = "off" /\ inbox' = {} /\ flag' = FALSE
  /\ hider' = IdleHiders /\ showing' = 0
  /\ sure' = FALSE
  /\ UNCHANGED <<appVars, barVars>>

\* What was handled during the clean-up is not restored.
MainLeaves ==
  /\ svc = "leave"
  /\ SvcGone
  /\ stranded' = (stranded \/ (hidden /\ (flag \/ showing > 0)))

SvcKilled ==
  /\ svc # "off"
  /\ SvcGone
  /\ stranded' = (stranded \/ hidden)

\* Explorer starts again with a visible bar; the threads have the old handles.
ExplorerRestarts ==
  /\ hidden' = FALSE /\ shownEvent' = app /\ stranded' = FALSE
  /\ hider' = IdleHiders
  /\ UNCHANGED <<appVars, svc, inbox, flag, showing, sure>>
-----------------------------------------------------------------------------
(* The specification *)

App == AppBoots \/ SettingsChange \/ HookShown \/ AppEnds

Send(r) == Deliver(r) \/ AttemptFails(r)

Service ==
  \/ SvcStarts \/ MainWakes \/ MainRestores \/ MainShows \/ MainLeaves \/ SvcKilled
  \/ ShowRestored
  \/ \E m \in inbox : HandleHide(m) \/ HandleRestore(m)
  \/ \E h \in Hider : HiderChecks(h) \/ HiderHides(h)

Next == App \/ (\E r \in Request : Send(r)) \/ Service \/ ExplorerRestarts

Spec == Init /\ [][Next]_vars
-----------------------------------------------------------------------------
(* Properties *)

TypeOK ==
  /\ app \in BOOLEAN /\ weg \in BOOLEAN
  /\ request \in [Request -> [pc : {"idle", "sending", "waiting"},
                              act : {"none", "hide", "restore"}, try : 0..MaxRetries]]
  /\ svc \in {"off", "running", "restore", "show", "leave"}
  /\ inbox \subseteq [req : Request, act : {"hide", "restore"}, try : 1..MaxRetries]
  /\ hider \in [Hider -> [pc : {"idle", "check", "hide"}, left : 0..Attempts]]
  /\ showing \in 0..MaxShowing /\ flag \in BOOLEAN
  /\ hidden \in BOOLEAN /\ shownEvent \in BOOLEAN
  /\ sure \in BOOLEAN /\ stranded \in BOOLEAN

\* A hidden bar is known to the service or about to be shown, so that the exit of
\* the service restores it, "even if the main app crashes". Except for a bar that a
\* thread hid after the restore, or that the service left hidden: because it was
\* killed, or because it was asked to hide the bar while it was leaving.
HiddenIsOurs == hidden => flag \/ showing > 0 \/ svc = "show" \/ stranded

\* When nothing is under way the bar is as the setting says, if the newest message
\* was sent while nothing was; however often it was sent and handled, and whatever
\* Explorer and the app did in the meantime.
LastRequestWins ==
  app /\ svc = "running" /\ Quiet /\ ~shownEvent /\ sure /\ ~stranded => (hidden <=> weg)
=============================================================================
