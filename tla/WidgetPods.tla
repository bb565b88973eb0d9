----------------------------- MODULE WidgetPods -----------------------------
(***************************************************************************)
(* The windows of the widgets. A deployment holds the pods of a widget, a  *)
(* pod its window, and dropping a pod destroys the window. Reconciling     *)
(* brings the deployments and pods in line with the settings and the       *)
(* monitors, by a call on any thread and a job it leaves behind; game mode *)
(* takes all windows away; triggers start the windows of lazy widgets.     *)
(*                                                                         *)
(* The deployments are behind one lock: what is done under it is a step.   *)
(* The UI thread destroys windows later, and each destroyed window starts  *)
(* a thread that brings it back if it should be there. A label names a pod *)
(* and its window: here the pods of widgets with one instance or with one  *)
(* for each monitor.                                                       *)
(***************************************************************************)
EXTENDS Naturals

CONSTANTS
  Widget, Label,
  WidgetOf,     \* label -> its widget
  Priority,     \* widgets that a job takes first, one by one
  Caller,       \* threads that change settings or handle monitors
  Env,          \* what users and Windows do in the instance
  MaxHandlers   \* bound on the destroyed windows of a label to be handled

ASSUME PodsAssumption ==
  /\ WidgetOf \in [Label -> Widget] /\ Priority \subseteq Widget /\ "none" \notin Widget
  /\ MaxHandlers \in Nat \ {0}

Thread == Caller \cup {"power"}

VARIABLES
  \* --- settings, resources, monitors
  enabled,    \* FULL_STATE: the enabled widgets
  wanted,     \* labels with a place: the monitor is there and not excepted
  lazy,       \* widgets started by triggers only
  \* --- WIDGET_MANAGER
  deployed,   \* widgets with a deployment
  place,      \* label -> its pod, its window, and what is left of earlier ones
  gameMode,   \* GAME_MODE_ACTIVE
  \* --- threads
  call,       \* reconcile: how far a thread is in it
  job,        \* the job a thread has spawned: widgets to take first, or None
  power,      \* the dispatcher of the power events: "idle", "clear"
  report,     \* label -> set_current_widget_status: "no", "status", "take"
  trigger,    \* trigger_widget: how far it is, and its label
  pending,    \* PENDING_TRIGGERS
  \* --- history, no code reads it
  cleared,    \* suspend_all is through
  asked,      \* labels started by a trigger since
  outdated,   \* widgets last deployed or removed by settings that were not the latest
  missed      \* labels whose trigger was kept after they had looked for it

settingVars == <<enabled, wanted, lazy>>
threadVars == <<call, job, power>>
askVars == <<report, trigger, pending, missed>>
vars == <<settingVars, deployed, place, gameMode, threadVars, askVars,
          cleared, asked, outdated>>

NoJob == {"none"}

Resting == [pc |-> "idle", seen |-> {}, todo |-> {}, widget |-> "none"]

NoTrigger == [pc |-> "idle", label |-> "none"]

LabelsOf(w) == {l \in Label : WidgetOf[l] = w}
-----------------------------------------------------------------------------
(* Pods and windows. A place has the status of the pod or "none", whether  *)
(* the pod holds a window, the window that Tauri has under the label, the  *)
(* page in it, the handlers of destroyed windows that are to run, and      *)
(* whether a page reported to a pod that has no window.                    *)

Empty == [pod |-> "none", holds |-> FALSE, window |-> "none", page |-> "none",
          handlers |-> 0, late |-> FALSE]

\* Fault: the window is left to Tauri.
Forget(p) == [p EXCEPT !.pod = "none", !.holds = FALSE, !.late = FALSE]

\* Drop: the window is destroyed if Tauri still has it.
Drop(p) ==
  [p EXCEPT !.pod = "none", !.holds = FALSE, !.late = FALSE,
            !.window = IF p.holds /\ @ = "open" THEN "dying" ELSE @]

\* The UI thread is done with a window: its label is free, a handler starts.
Destroyed(p) == [p EXCEPT !.window = "none", !.page = "none", !.handlers = @ + 1]

\* run: a label that Tauri still has is refused. It may become free in time.
Run(p, quick) ==
  IF p.pod # "Pending" THEN p
  ELSE IF p.window = "none" \/ (p.window = "dying" /\ quick)
       THEN [(IF p.window = "none" THEN p ELSE Destroyed(p)) EXCEPT
               !.pod = "Mounting", !.holds = TRUE, !.window = "open", !.page = "loading"]
       ELSE [p EXCEPT !.pod = "CrashedOnCreation"]

\* WidgetDeployment::reconcile, for one label
Reconciled(l, p) ==
  IF l \notin wanted THEN Drop(p)
  ELSE IF p.pod = "none" THEN [p EXCEPT !.pod = "Pending"] ELSE p

\* Fault: a game is not thought of.
StartsAnyway(w) == w \notin lazy

Starts(w) == w \notin lazy /\ ~gameMode

\* reconcile and start_all_webviews of the deployments of ws, from places ps
Refreshed(ws, ps, quick) ==
  [l \in Label |->
     LET w == WidgetOf[l]
     IN  IF w \notin ws \cap deployed THEN ps[l]
         ELSE IF Starts(w) THEN Run(Reconciled(l, ps[l]), quick)
         ELSE Reconciled(l, ps[l])]

\* The handlers there would be are within the bound.
Bounded(ps) == \A l \in Label : ps[l].handlers <= MaxHandlers

Refresh(ws, ps) ==
  \E quick \in BOOLEAN :
    /\ Bounded(Refreshed(ws, ps, quick))
    /\ place' = Refreshed(ws, ps, quick)

Without(w) == [l \in Label |-> IF WidgetOf[l] = w THEN Drop(place[l]) ELSE place[l]]

Ready(p) == p.holds /\ p.pod = "Ready"

\* SeelenUI::start has begun the first reconcile.
Init ==
  /\ enabled \in SUBSET Widget /\ wanted \in SUBSET Label /\ lazy \in SUBSET Widget
  /\ deployed = {} /\ place = [l \in Label |-> Empty] /\ gameMode = FALSE
  /\ \E start \in Caller :
       call = [t \in Thread |-> IF t = start THEN [Resting EXCEPT !.pc = "load"] ELSE Resting]
  /\ job = [t \in Thread |-> NoJob]
  /\ power = "idle"
  /\ report = [l \in Label |-> "no"] /\ trigger = NoTrigger /\ pending = {}
  /\ cleared = FALSE /\ asked = {} /\ outdated = {} /\ missed = {}
-----------------------------------------------------------------------------
(* WidgetManager::reconcile *)

\* What the caller did before is seen by itself.
Begin(t) == call' = [call EXCEPT ![t] = [Resting EXCEPT !.pc = "load"]]

Free(t) == call[t] = Resting /\ job[t] = NoJob

\* Settings are replaced, then emit_settings reconciles.
ChangeSettings(t, w) ==
  /\ "settings" \in Env /\ Free(t)
  /\ enabled' = IF w \in enabled THEN enabled \ {w} ELSE enabled \cup {w}
  /\ Begin(t)
  /\ UNCHANGED <<wanted, lazy, deployed, place, gameMode, job, power, askVars,
                 cleared, asked, outdated>>

\* A monitor comes or goes, or the widget is excepted from it.
ChangeMonitors(t, l) ==
  /\ "monitors" \in Env /\ Free(t)
  /\ wanted' = IF l \in wanted THEN wanted \ {l} ELSE wanted \cup {l}
  /\ Begin(t)
  /\ UNCHANGED <<enabled, lazy, deployed, place, gameMode, job, power, askVars,
                 cleared, asked, outdated>>

\* FULL_STATE.load: one snapshot for all widgets
Load(t) ==
  /\ call[t].pc = "load"
  /\ call' = [call EXCEPT ![t] = [pc |-> "apply", seen |-> enabled, todo |-> Widget,
                                  widget |-> "none"]]
  /\ UNCHANGED <<settingVars, deployed, place, gameMode, job, power, askVars,
                 cleared, asked, outdated>>

\* A step for w by what the caller has seen, current or not
Judged(t, w) ==
  outdated' = IF (w \in call[t].seen) = (w \in enabled) THEN outdated \ {w}
              ELSE outdated \cup {w}

RemoveDisabled(t, w) ==
  /\ call[t].pc = "apply" /\ w \in call[t].todo \ call[t].seen
  /\ deployed' = deployed \ {w}
  /\ place' = Without(w)
  /\ call' = [call EXCEPT ![t].todo = @ \ {w}]
  /\ Judged(t, w)
  /\ UNCHANGED <<settingVars, gameMode, job, power, askVars, cleared, asked>>

\* contains_key, and upsert when the lock was taken again: it replaces what
\* another thread has put there meanwhile.
FindDeployed(t, w) ==
  /\ call[t].pc = "apply" /\ w \in call[t].todo \cap call[t].seen
  /\ call' = [call EXCEPT ![t].todo = @ \ {w},
                          ![t].pc = IF w \in deployed THEN "apply" ELSE "upsert",
                          ![t].widget = IF w \in deployed THEN "none" ELSE w]
  /\ Judged(t, w)
  /\ UNCHANGED <<settingVars, deployed, place, gameMode, job, power, askVars,
                 cleared, asked>>

Upsert(t) ==
  LET w == call[t].widget
  IN  /\ call[t].pc = "upsert"
      /\ deployed' = deployed \cup {w}
      /\ place' = Without(w)
      /\ call' = [call EXCEPT ![t].pc = "apply", ![t].widget = "none"]
      /\ Judged(t, w)
      /\ UNCHANGED <<settingVars, gameMode, job, power, askVars, cleared, asked>>

SpawnJob(t) ==
  /\ call[t].pc = "apply" /\ call[t].todo = {}
  /\ call' = [call EXCEPT ![t] = Resting]
  /\ job' = [job EXCEPT ![t] = Priority]
  /\ UNCHANGED <<settingVars, deployed, place, gameMode, power, askVars,
                 cleared, asked, outdated>>

\* The widgets the user sees first, then all in one go
JobFirst(t, w) ==
  /\ w \in job[t]
  /\ job' = [job EXCEPT ![t] = @ \ {w}]
  /\ Refresh({w}, place)
  /\ UNCHANGED <<settingVars, deployed, gameMode, call, power, askVars,
                 cleared, asked, outdated>>

JobRest(t) ==
  /\ job[t] = {}
  /\ job' = [job EXCEPT ![t] = NoJob]
  /\ Refresh(Widget, place)
  /\ UNCHANGED <<settingVars, deployed, gameMode, call, power, askVars,
                 cleared, asked, outdated>>
-----------------------------------------------------------------------------
(* The UI thread and the windows that go away *)

UiDestroys(l) ==
  /\ place[l].window = "dying" /\ place[l].handlers < MaxHandlers
  /\ place' = [place EXCEPT ![l] = Destroyed(@)]
  /\ UNCHANGED <<settingVars, deployed, gameMode, threadVars, askVars,
                 cleared, asked, outdated>>

\* The user closes it, or its process crashes: the pod does not know yet.
WindowCloses(l) ==
  /\ "close" \in Env
  /\ place[l].window = "open" /\ place[l].handlers < MaxHandlers
  /\ place' = [place EXCEPT ![l] = Destroyed(@)]
  /\ UNCHANGED <<settingVars, deployed, gameMode, threadVars, askVars,
                 cleared, asked, outdated>>

\* Fault: the pod is killed and no other one put in its place.
HandleDestroyedKills(l) ==
  /\ place[l].handlers > 0
  /\ LET p == [place[l] EXCEPT !.handlers = @ - 1]
     IN  place' = [place EXCEPT ![l] = IF WidgetOf[l] \in deployed THEN Drop(p) ELSE p]
  /\ UNCHANGED <<settingVars, deployed, gameMode, threadVars, askVars,
                 cleared, asked, outdated>>

\* The thread of a Destroyed event: kill_pod of whatever has the label now,
\* reconcile, and start all windows of the widget unless a game runs.
HandleDestroyed(l) ==
  LET p    == [place[l] EXCEPT !.handlers = @ - 1]
      here == IF WidgetOf[l] \in deployed THEN Drop(p) ELSE p
  IN  /\ place[l].handlers > 0
      /\ Refresh({WidgetOf[l]}, [place EXCEPT ![l] = here])
      /\ UNCHANGED <<settingVars, deployed, gameMode, threadVars, askVars,
                     cleared, asked, outdated>>

\* soft_restart, after the session was locked or a probe was not answered
SoftRestart(l) ==
  /\ "reload" \in Env
  /\ WidgetOf[l] \in deployed /\ place[l].holds
  /\ place' = [place EXCEPT ![l].pod = "Restarting",
                            ![l].page = IF place[l].window = "open" THEN "loading" ELSE @]
  /\ UNCHANGED <<settingVars, deployed, gameMode, threadVars, askVars,
                 cleared, asked, outdated>>
-----------------------------------------------------------------------------
(* Game mode *)

\* suspend_all: the flag first,
Suspend ==
  /\ "game" \in Env /\ power = "idle" /\ Free("power") /\ ~gameMode
  /\ power' = "clear"
  /\ gameMode' = TRUE
  /\ UNCHANGED <<settingVars, deployed, place, call, job, askVars, outdated,
                 cleared, asked>>

\* then every pod.
ClearPods ==
  /\ power = "clear"
  /\ power' = "idle"
  /\ place' = [l \in Label |-> IF WidgetOf[l] \in deployed THEN Drop(place[l]) ELSE place[l]]
  /\ cleared' = TRUE /\ asked' = {}
  /\ UNCHANGED <<settingVars, deployed, gameMode, call, job, askVars, outdated>>

\* resume_all, at every change to a mode that is no game
Resume ==
  /\ "game" \in Env /\ power = "idle" /\ Free("power")
  /\ gameMode' = FALSE /\ cleared' = FALSE
  /\ Begin("power")
  /\ UNCHANGED <<settingVars, deployed, place, job, power, askVars, asked, outdated>>
-----------------------------------------------------------------------------
(* Pages that report and triggers that wait for them *)

\* The page has loaded; its command runs on some thread.
PageLoads(l) ==
  /\ place[l].page = "loading" /\ report[l] = "no"
  /\ place' = [place EXCEPT ![l].page = "loaded"]
  /\ report' = [report EXCEPT ![l] = "status"]
  /\ UNCHANGED <<settingVars, deployed, gameMode, threadVars, trigger, pending, missed,
                 cleared, asked, outdated>>

\* set_status, on whatever pod has the label now
ReportStatus(l) ==
  /\ report[l] = "status"
  /\ report' = [report EXCEPT ![l] = "take"]
  /\ IF WidgetOf[l] \in deployed /\ place[l].pod # "none"
     THEN place' = [place EXCEPT ![l].pod = "Ready", ![l].late = ~place[l].holds]
     ELSE UNCHANGED place
  /\ UNCHANGED <<settingVars, deployed, gameMode, threadVars, trigger, pending, missed,
                 cleared, asked, outdated>>

\* Fault: the report does not look for a trigger.
ReportOnly(l) ==
  /\ report[l] = "take"
  /\ report' = [report EXCEPT ![l] = "no"]
  /\ UNCHANGED <<settingVars, deployed, place, gameMode, threadVars, trigger, pending,
                 missed, cleared, asked, outdated>>

\* The trigger that waits is sent to the page.
ReportTake(l) ==
  /\ report[l] = "take"
  /\ report' = [report EXCEPT ![l] = "no"]
  /\ pending' = pending \ {l} /\ missed' = missed \ {l}
  /\ UNCHANGED <<settingVars, deployed, place, gameMode, threadVars, trigger,
                 cleared, asked, outdated>>

\* trigger_widget: sent at once to a widget that is ready,
Trigger(l) ==
  /\ "trigger" \in Env /\ trigger = NoTrigger
  /\ WidgetOf[l] \in enabled
  /\ ~(WidgetOf[l] \in deployed /\ Ready(place[l]))
  /\ trigger' = [pc |-> "keep", label |-> l]
  /\ UNCHANGED <<settingVars, deployed, place, gameMode, threadVars, report, pending,
                 missed, cleared, asked, outdated>>

\* kept for one that was not, although it may be by now,
TriggerKept ==
  LET l == trigger.label
  IN  /\ trigger.pc = "keep"
      /\ trigger' = [trigger EXCEPT !.pc = "start"]
      /\ pending' = pending \cup {l}
      /\ missed' = IF Ready(place[l]) /\ report[l] = "no" THEN missed \cup {l} ELSE missed
      /\ UNCHANGED <<settingVars, deployed, place, gameMode, threadVars, report,
                     cleared, asked, outdated>>

\* which is started.
TriggerStarts ==
  LET l == trigger.label
  IN  /\ trigger.pc = "start"
      /\ trigger' = NoTrigger
      /\ \E quick \in BOOLEAN :
           LET p == Run(place[l], quick)
           IN  /\ p.handlers <= MaxHandlers
               /\ place' = IF WidgetOf[l] \in deployed THEN [place EXCEPT ![l] = p] ELSE place
      /\ asked' = asked \cup {l}
      /\ UNCHANGED <<settingVars, deployed, gameMode, threadVars, report, pending, missed,
                     cleared, outdated>>
-----------------------------------------------------------------------------
(* The specification *)

Reconcile(t) ==
  \/ Load(t) \/ Upsert(t) \/ SpawnJob(t) \/ JobRest(t)
  \/ \E w \in Widget : RemoveDisabled(t, w) \/ FindDeployed(t, w) \/ JobFirst(t, w)

Windows(l) == UiDestroys(l) \/ WindowCloses(l) \/ HandleDestroyed(l) \/ SoftRestart(l)

Game == Suspend \/ ClearPods \/ Resume

Pages(l) == PageLoads(l) \/ ReportStatus(l) \/ ReportTake(l)

Next ==
  \/ \E t \in Caller : \/ \E w \in Widget : ChangeSettings(t, w)
                       \/ \E l \in Label : ChangeMonitors(t, l)
  \/ \E t \in Thread : Reconcile(t)
  \/ \E l \in Label : Windows(l) \/ Pages(l) \/ Trigger(l)
  \/ Game \/ TriggerKept \/ TriggerStarts

Spec == Init /\ [][Next]_vars
-----------------------------------------------------------------------------
(* Properties *)

TypeOK ==
  /\ enabled \subseteq Widget /\ wanted \subseteq Label /\ lazy \subseteq Widget
  /\ deployed \subseteq Widget
  /\ place \in [Label -> [pod : {"none", "Pending", "Mounting", "Ready", "Restarting",
                                 "CrashedOnCreation"},
                          holds : BOOLEAN, window : {"none", "open", "dying"},
                          page : {"none", "loading", "loaded"},
                          handlers : 0..MaxHandlers, late : BOOLEAN]]
  /\ \A l \in Label : place[l].pod # "none" => WidgetOf[l] \in deployed
  /\ gameMode \in BOOLEAN /\ power \in {"idle", "clear"}
  /\ report \in [Label -> {"no", "status", "take"}]
  /\ pending \subseteq Label /\ missed \subseteq Label

\* No window is left over and no pod is without the window it counts on: an open
\* window belongs to a pod, and a pod that holds one has it, or will be killed by a
\* handler. Whoever replaced, removed, suspended or killed the pod in between.
PodsMatchWindows ==
  \A l \in Label :
    /\ place[l].window = "open" => place[l].holds
    /\ place[l].holds => place[l].window = "open" \/ place[l].handlers > 0

\* Nothing is running that would still change a pod.
Settled ==
  /\ \A t \in Thread : Free(t)
  /\ power = "idle" /\ trigger = NoTrigger
  /\ \A l \in Label : place[l].window # "dying" /\ place[l].handlers = 0 /\ report[l] = "no"

\* When everything has run, the widgets are as configured: enabled ones deployed,
\* and their windows open where they have a place, except lazy ones and during a
\* game. Not so for a widget that was last handled by a call that had loaded older
\* settings, and for one whose old page reported itself to the new pod.
WidgetsAsConfigured ==
  Settled =>
    /\ \A w \in Widget \ outdated : w \in deployed <=> w \in enabled
    /\ \A l \in Label :
         WidgetOf[l] \in deployed =>
           /\ l \notin wanted => place[l].pod = "none"
           /\ l \in wanted /\ Starts(WidgetOf[l]) => place[l].holds \/ place[l].late

\* "respawning here would bring them back on top of the game": once suspend_all is
\* through, no window opens before the end of the game but by a trigger.
NoWidgetOverGame ==
  cleared => \A l \in Label : place[l].window = "open" => l \in asked

\* A trigger that is kept for a widget reaches it when it is ready, unless the
\* widget became ready between the test and the moment the trigger was kept.
TriggersServed ==
  Settled => \A l \in pending : Ready(place[l]) => l \in missed
=============================================================================
