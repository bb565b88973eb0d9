--------------------------- MODULE TilingDesktops ---------------------------
(***************************************************************************)
(* The tiling window manager among the threads that feed it: VdManager,    *)
(* which announces an operation after it has released its lock, the hook   *)
(* dispatcher, the dispatcher of the VirtualDesktopEvents and the          *)
(* subscriber that minimizes and brings back the windows of the stacks.    *)
(*                                                                         *)
(* There is one monitor. VirtualDesktops has the detail of VdManager that  *)
(* is left out here: grids, indexes, pinned windows, start-up.             *)
(***************************************************************************)
EXTENDS TilingProperties

CONSTANTS
  Caller,   \* threads running commands
  Env,      \* what users and applications do to windows in the instance
  MaxQueue  \* bound: nothing new starts while so much is unfinished

Thread == Caller \cup {"hook", "apps"}

VARIABLES
  \* --- VdManager
  home,        \* window -> its workspace, or None when it is not tracked
  active,      \* the active workspace
  open,        \* the workspaces there are
  marks,       \* MINIMIZED_BY_WORKSPACES
  restored,    \* RESTORED_EVENT_QUEUE: entries waiting, per window
  out,         \* thread -> events it has yet to send, its lock released
  vdQueue,     \* channel of the VirtualDesktopEvents
  \* --- hooks and Windows
  hookQueue,   \* HookManager's channel
  hookCall,    \* what the hook dispatcher is in the middle of
  minimized,   \* iconic windows
  alive,       \* existing windows
  leaving,     \* destroyed windows VdManager has yet to be told of
  \* --- window manager
  stackMarks,  \* MINIMIZED_BY_STACK
  drawing,     \* the active workspace restore_stacks has read, or None
  \* --- history, no code reads it
  sentHidden   \* windows that were minimized when they were sent elsewhere

vdVars == <<home, active, open, marks, restored, out, vdQueue>>
hookVars == <<hookQueue, hookCall, minimized, alive, leaving>>
vars == <<twmVars, vdVars, hookVars, stackMarks, drawing, sentHidden>>

HookIdle == [pc |-> "idle", win |-> None, ws |-> None]

Sent(kind, w, x) == [kind |-> kind, win |-> w, ws |-> x]

Hooked(kind, w) == [kind |-> kind, win |-> w]

On(x) == {w \in Window : home[w] = x}

\* Interactable windows are the tracked ones here.
Manageable(w) == home[w] # None /\ w \notin minimized

\* Events, operations and redraws somebody still has to finish
Unfinished ==
  Len(hookQueue) + Len(vdQueue) + changed + Cardinality(leaving)
  + SumFunction([t \in Thread |-> Len(out[t])])
  + Cardinality({hookCall, HookIdle}) + Cardinality({drawing, None}) - 2

Room == Unfinished < MaxQueue

Free(t) == out[t] = <<>>

TypeOK ==
  /\ TwmTypeOK
  /\ home \in [Window -> Workspace \cup {None}]
  /\ open \subseteq Workspace /\ active \in open
  /\ marks \subseteq Window /\ stackMarks \subseteq Window
  /\ minimized \subseteq alive /\ leaving \subseteq Window /\ alive \subseteq Window
  /\ restored \in [Window -> Nat]
  /\ drawing \in Workspace \cup {None}
-----------------------------------------------------------------------------
(* VdManager *)

\* hide on one list of windows, restore on another one, minimized being the
\* windows that are iconic in between
Hide(ws) ==
  LET hidden == (ws \cap alive) \ minimized
  IN  [marks |-> marks \cup hidden, minimized |-> minimized \cup hidden,
       events |-> {Hooked("minimized", w) : w \in hidden}]

\* Windows the user minimized have no mark and stay as they are.
Restore(ws, s) ==
  LET back == ws \cap s.minimized \cap s.marks
  IN  /\ marks' = s.marks \ (back \cup (ws \ s.minimized))
      /\ minimized' = s.minimized \ back
      /\ restored' = [w \in Window |-> restored[w] + IF w \in back THEN 1 ELSE 0]
      /\ \E first \in SetToSeqs(s.events),
            then \in SetToSeqs({Hooked("unminimized", w) : w \in back}) :
           hookQueue' = hookQueue \o first \o then

\* switch_to_id, whose event is sent before the lock is released
SwitchTo(x) ==
  /\ x \in open /\ x # active
  /\ Restore(On(x), Hide(On(active)))
  /\ active' = x
  /\ vdQueue' = Append(vdQueue, Sent("changed", None, x))
  /\ UNCHANGED <<twmVars, home, open, alive, leaving, stackMarks, drawing, sentHidden>>

Switch(t, x) ==
  /\ Free(t) /\ Room
  /\ SwitchTo(x)
  /\ UNCHANGED <<out, hookCall>>

\* A window that is sent to an inactive workspace is marked and minimized; one
\* that is sent to the active workspace stays as it is.
SendTo(t, w, x) ==
  /\ Free(t) /\ Room
  /\ x \in open /\ home[w] \notin {None, x}
  /\ home' = [home EXCEPT ![w] = x]
  /\ IF x = active
     THEN UNCHANGED <<marks, minimized, hookQueue>>
     ELSE /\ marks' = marks \cup {w}
          /\ minimized' = minimized \cup ({w} \cap alive)
          /\ hookQueue' = IF w \in alive \ minimized
                          THEN Append(hookQueue, Hooked("minimized", w)) ELSE hookQueue
  /\ out' = [out EXCEPT ![t] = <<Sent("moved", w, x)>>]
  /\ sentHidden' = sentHidden \cup ({w} \cap minimized)
  /\ UNCHANGED <<twmVars, active, open, restored, vdQueue, hookCall, alive, leaving,
                 stackMarks, drawing>>

\* Fault: the workspace that is gone stays the active one.
ActiveAnyway(x, y) == active

\* The workspace that is active once x is gone
ActiveAfter(x, y) == IF active = x THEN y ELSE active

\* The windows of the workspace go to a sibling.
Destroy(t, x) ==
  /\ Free(t) /\ Room
  /\ x \in open
  /\ \E y \in open \ {x} :
       LET now == ActiveAfter(x, y)
           still == [marks |-> marks, minimized |-> minimized, events |-> {}]
       IN  /\ home' = [w \in Window |-> IF home[w] = x THEN y ELSE home[w]]
           /\ active' = now
           /\ IF active = x \/ (On(x) # {} /\ y = active)
              THEN Restore(On(now) \cup IF y = now THEN On(x) ELSE {}, still)
              ELSE UNCHANGED <<marks, minimized, restored, hookQueue>>
           /\ \E ws \in SetToSeqs(On(x)) :
                out' = [out EXCEPT ![t] =
                  [i \in DOMAIN ws |-> Sent("moved", ws[i], y)]
                  \o <<Sent("destroyed", None, x)>>
                  \o IF now # active THEN <<Sent("changed", None, now)>> ELSE <<>>]
  /\ open' = open \ {x}
  /\ UNCHANGED <<twmVars, vdQueue, hookCall, alive, leaving, stackMarks, drawing, sentHidden>>

\* The dispatcher of the UserApps events
Untrack(w) ==
  /\ Free("apps")
  /\ w \in leaving
  /\ leaving' = leaving \ {w}
  /\ home' = [home EXCEPT ![w] = None]
  /\ out' = [out EXCEPT !["apps"] = <<Sent("removed", w, None)>>]
  /\ UNCHANGED <<twmVars, active, open, marks, restored, vdQueue, hookQueue, hookCall,
                 minimized, alive, stackMarks, drawing, sentHidden>>

\* A new window, whose handle may have been used before
Track(w) ==
  /\ "open" \in Env /\ Room
  /\ Free("apps")
  /\ w \notin alive \cup leaving /\ home[w] = None
  /\ alive' = alive \cup {w}
  /\ home' = [home EXCEPT ![w] = active]
  /\ out' = [out EXCEPT !["apps"] = <<Sent("added", w, active)>>]
  /\ UNCHANGED <<twmVars, active, open, marks, restored, vdQueue, hookQueue, hookCall,
                 minimized, leaving, stackMarks, drawing, sentHidden>>

\* The lock is released, the event goes into the channel.
Announce(t) ==
  /\ out[t] # <<>>
  /\ vdQueue' = Append(vdQueue, Head(out[t]))
  /\ out' = [out EXCEPT ![t] = Tail(@)]
  /\ UNCHANGED <<twmVars, home, active, open, marks, restored, hookVars, stackMarks, drawing, sentHidden>>
-----------------------------------------------------------------------------
(* Users and applications *)

UserMinimize(w) ==
  /\ "minimize" \in Env /\ Room
  /\ w \in alive \ minimized
  /\ minimized' = minimized \cup {w}
  /\ hookQueue' = Append(hookQueue, Hooked("minimized", w))
  /\ UNCHANGED <<twmVars, vdVars, hookCall, alive, leaving, stackMarks, drawing, sentHidden>>

UserUnminimize(w) ==
  /\ "unminimize" \in Env /\ Room
  /\ w \in minimized
  /\ minimized' = minimized \ {w}
  /\ hookQueue' = Append(hookQueue, Hooked("unminimized", w))
  /\ UNCHANGED <<twmVars, vdVars, hookCall, alive, leaving, stackMarks, drawing, sentHidden>>

Close(w) ==
  /\ "open" \in Env /\ Room
  /\ w \in alive
  /\ alive' = alive \ {w}
  /\ minimized' = minimized \ {w}
  /\ sentHidden' = sentHidden \ {w}
  /\ hookQueue' = Append(hookQueue, Hooked("destroyed", w))
  /\ UNCHANGED <<twmVars, vdVars, hookCall, leaving, stackMarks, drawing>>
-----------------------------------------------------------------------------
(* The hook dispatcher *)

Takes(kind) ==
  /\ hookCall = HookIdle /\ Free("hook")
  /\ hookQueue # <<>> /\ Head(hookQueue).kind = kind
  /\ hookQueue' = Tail(hookQueue)

\* SystemMinimizeStart: the marks tell why. They are read before the lock of
\* the window manager is taken.
HookMinimizeStart ==
  LET w == Head(hookQueue).win
  IN  /\ Takes("minimized")
      /\ hookCall' = IF w \in marks \cup stackMarks THEN HookIdle
                     ELSE [pc |-> "forgetting", win |-> w, ws |-> None]
      /\ UNCHANGED <<twmVars, vdVars, minimized, alive, leaving, stackMarks, drawing, sentHidden>>

HookForget ==
  /\ drawing = None
  /\ hookCall.pc = "forgetting"
  /\ Forget(hookCall.win)
  /\ hookCall' = HookIdle
  /\ UNCHANGED <<vdVars, hookQueue, minimized, alive, leaving, stackMarks, drawing, sentHidden>>

\* Fault: what was restored with its workspace counts as brought back by the
\* user, too.
HookMinimizeEndAlways ==
  LET w == Head(hookQueue).win
  IN  /\ Takes("unminimized")
      /\ hookCall' = [pc |-> "switching", win |-> w, ws |-> home[w]]
      /\ UNCHANGED <<twmVars, vdVars, minimized, alive, leaving, stackMarks, drawing, sentHidden>>

\* SystemMinimizeEnd: without an entry in the queue it was the user.
HookMinimizeEnd ==
  LET w == Head(hookQueue).win
  IN  /\ Takes("unminimized")
      /\ IF restored[w] > 0
         THEN /\ restored' = [restored EXCEPT ![w] = @ - 1]
              /\ UNCHANGED hookCall
         ELSE /\ hookCall' = [pc |-> "switching", win |-> w, ws |-> home[w]]
              /\ UNCHANGED restored
      /\ UNCHANGED <<twmVars, home, active, open, marks, out, vdQueue, minimized, alive,
                     leaving, stackMarks, drawing, sentHidden>>

\* The workspace that was read is switched to, unless it is the active one or
\* gone by now, and the event goes out in any case.
HookSwitch ==
  /\ hookCall.pc = "switching"
  /\ IF hookCall.ws \in open \ {active} THEN SwitchTo(hookCall.ws)
     ELSE UNCHANGED <<twmVars, home, active, open, marks, restored, vdQueue, hookQueue,
                      minimized, alive, leaving, stackMarks, drawing, sentHidden>>
  /\ out' = [out EXCEPT !["hook"] = <<Sent("unminimizedByUser", hookCall.win, None)>>]
  /\ hookCall' = HookIdle

HookDestroyed ==
  LET w == Head(hookQueue).win
  IN  /\ Takes("destroyed")
      /\ restored' = [restored EXCEPT ![w] = 0]
      /\ marks' = marks \ {w}
      /\ leaving' = leaving \cup {w}
      /\ UNCHANGED <<twmVars, home, active, open, out, vdQueue, hookCall, minimized, alive,
                     stackMarks, drawing, sentHidden>>
-----------------------------------------------------------------------------
(* The window manager *)

OnEvent(e) ==
  \/ e.kind = "changed" /\ OnDesktopChanged
  \/ e.kind = "added" /\ OnWindowAdded(e.win, e.ws, Manageable(e.win))
  \/ e.kind = "moved" /\ OnWindowMoved(e.win, e.ws)
  \/ e.kind = "destroyed" /\ OnDesktopDestroyed(e.ws)
  \/ e.kind = "removed" /\ Forget(e.win)
  \/ e.kind = "unminimizedByUser" /\ OnUnminimizedByUser(e.win, home[e.win], Manageable(e.win))

Deliver ==
  /\ drawing = None
  /\ vdQueue # <<>>
  /\ vdQueue' = Tail(vdQueue)
  /\ OnEvent(Head(vdQueue))
  /\ UNCHANGED <<home, active, open, marks, restored, out, hookVars, stackMarks, drawing, sentHidden>>

TileCommand ==
  /\ drawing = None /\ Room
  /\ Commands([w \in Window |-> {home[w]} \ {None}])
  /\ UNCHANGED <<vdVars, hookVars, stackMarks, drawing, sentHidden>>

\* restore_stacks reads the active workspace and then goes through its tree,
\* with WM_STATE locked but not the monitors.
BeginDraw ==
  /\ Unlocked /\ drawing = None
  /\ changed > 0
  /\ changed' = changed - 1
  /\ drawing' = active
  /\ UNCHANGED <<trees, monocle, reservation, setting, layoutCache, vdVars, hookVars, stackMarks, sentHidden>>

RestoreStacks ==
  LET nodes == IF drawing \in DOMAIN trees
               THEN {n \in Range(trees[drawing].nodes) : n.active # None} ELSE {}
      front == {n.active : n \in nodes}
      behind == UNION {ToSet(n.windows) : n \in nodes} \ front
      raised == front \cap minimized
      lowered == (behind \ minimized) \cap alive
  IN  /\ drawing # None
      /\ stackMarks' = (stackMarks \ front) \cup behind
      /\ minimized' = (minimized \ raised) \cup lowered
      /\ \E events \in SetToSeqs({Hooked("unminimized", w) : w \in raised}
                                 \cup {Hooked("minimized", w) : w \in lowered}) :
           hookQueue' = hookQueue \o events
      /\ drawing' = None
      /\ UNCHANGED <<twmVars, vdVars, hookCall, alive, leaving, sentHidden>>
-----------------------------------------------------------------------------
Init ==
  /\ TwmInit
  /\ open = Workspace /\ active \in open
  /\ home = [w \in Window |-> None]
  /\ alive = {} /\ minimized = {} /\ leaving = {}
  /\ marks = {} /\ stackMarks = {} /\ restored = [w \in Window |-> 0]
  /\ out = [t \in Thread |-> <<>>]
  /\ vdQueue = <<>> /\ hookQueue = <<>> /\ hookCall = HookIdle
  /\ drawing = None /\ sentHidden = {}

DesktopCommand(t) ==
  \/ "switch" \in Command /\ \E x \in Workspace : Switch(t, x)
  \/ "send" \in Command /\ \E w \in On(active) \ minimized, x \in Workspace : SendTo(t, w, x)
  \/ "sendAny" \in Command /\ \E w \in Window, x \in Workspace : SendTo(t, w, x)
  \/ "destroy" \in Command /\ \E x \in Workspace : Destroy(t, x)

HookStep ==
  \/ HookMinimizeStart \/ HookForget \/ HookMinimizeEnd
  \/ HookSwitch \/ HookDestroyed

TwmStep == Deliver \/ BeginDraw \/ RestoreStacks

WindowEvent(w) == UserMinimize(w) \/ UserUnminimize(w) \/ Close(w) \/ Track(w)

Next ==
  \/ \E t \in Caller : DesktopCommand(t)
  \/ \E t \in Thread : Announce(t)
  \/ \E w \in Window : WindowEvent(w) \/ Untrack(w)
  \/ TileCommand
  \/ HookStep
  \/ TwmStep

Spec == Init /\ [][Next]_vars

\* What each thread does when it goes on, told by the variables that only it
\* changes in this way: a whole step is as fair as this part of it.
HookTakes == /\ hookCall = HookIdle /\ Free("hook")
             /\ hookQueue # <<>> /\ hookQueue' = Tail(hookQueue)
HookGoesOn == /\ hookCall # HookIdle /\ hookCall' = HookIdle
              /\ hookCall.pc = "forgetting" => drawing = None
TwmTakes == drawing = None /\ vdQueue # <<>> /\ vdQueue' = Tail(vdQueue)
TwmDraws == \/ drawing = None /\ changed > 0 /\ drawing' = active
            \/ drawing # None /\ drawing' = None

\* The threads go on as long as there is something for them to do. Users,
\* applications and commands owe nothing.
Fairness ==
  /\ \A t \in Thread : WF_vars(Announce(t))
  /\ \A w \in Window : WF_vars(Untrack(w))
  /\ WF_hookQueue(HookTakes) /\ WF_hookCall(HookGoesOn)
  /\ WF_vdQueue(TwmTakes) /\ WF_drawing(TwmDraws)

FairSpec == Spec /\ Fairness
-----------------------------------------------------------------------------
Quiet == Unfinished = 0




\* Whatever was done, the events it causes come to an end: what the manager
\* itself minimizes and brings back does not start it all over again. Users may
\* minimize windows here, but bring none back themselves.
Settles == []<>Quiet
=============================================================================
