---------------------------- MODULE WindowEvents ----------------------------
(***************************************************************************)
(* How the app hears of windows. A hook of Windows puts events into the    *)
(* channel of HookManager, whose dispatcher calls the managers; windows    *)
(* that move go through a thread of their own, which reports each one when *)
(* it has stopped; and the zombie exterminator looks for windows that went *)
(* away without an event. While the session is locked the hook is deaf.    *)
(*                                                                         *)
(* A window is a handle, which Windows gives to another window once the    *)
(* first is gone. What the managers do with an event is reduced to whether *)
(* they hold something under the handle. Events of the same window that    *)
(* are the same to them are one: ObjectNameChange, ObjectUncloaked and the *)
(* others by which a window is found later are "notice".                   *)
(***************************************************************************)
EXTENDS Sequences, SequencesExt

CONSTANTS
  Window,
  Passing,    \* windows that come and go in the instance; the others stay
  MaxEvents,  \* bound on the events in the channel when Windows adds one
  MaxMoves    \* bound on the messages to the debouncing thread

ASSUME WindowEventsAssumption ==
  /\ Passing \subseteq Window /\ "all" \notin Window
  /\ MaxEvents \in Nat \ {0} /\ MaxMoves \in Nat \ {0}

VARIABLES
  alive,        \* windows that exist: is_window
  interactive,  \* IS_INTERACTIVE_SESSION
  channel,      \* events of HookManager
  held,         \* windows the managers have something of
  \* --- PerWindowDebounce
  moves,        \* its channel: Update of a window, or "all" for TerminateAll
  pending,      \* windows that moved and are not reported yet
  \* --- the exterminator
  known,        \* existing_windows
  reaper,       \* "scan", "insert", "sleep", "reap", "send"
  dead,         \* the windows it has found, still to be inserted or reaped
  reaping,      \* the window it has removed and is about to report
  \* --- history, no code reads it
  moved,        \* windows that moved after the managers last looked at their place
  unwatched,    \* windows the exterminator was not told of, or was told are gone
  again         \* handles used again while a death was still to be reported

moveVars == <<moves, pending, moved>>
reaperVars == <<known, reaper, dead, reaping>>
vars == <<alive, interactive, channel, held, moveVars, reaperVars, unwatched, again>>

Event == {"create", "notice", "destroy", "rect"} \X Window

Waiting(e, w) == Contains(channel, <<e, w>>)

\* HookManager::send, from a thread of the app
Posted(c, e, ws) == c \o SetToSeq({<<e, w>> : w \in ws})

\* The managers and the exterminator start together, after the managers' scan.
Init ==
  /\ \E ws \in SUBSET Passing : alive = ws \cup (Window \ Passing)
  /\ interactive = TRUE /\ channel = <<>>
  /\ held = alive
  /\ moves = <<>> /\ pending = {} /\ moved = {}
  /\ known = {} /\ reaper = "scan" /\ dead = {} /\ reaping = {}
  /\ unwatched = alive /\ again = {}
-----------------------------------------------------------------------------
(* Windows and the hook: raw_win_event_hook_recv *)

\* An event reaches the channel unless the session is locked.
Hooked(e, w) ==
  IF interactive
  THEN /\ Len(channel) < MaxEvents
       /\ channel' = Append(channel, <<e, w>>)
  ELSE UNCHANGED channel

\* The end of the window before is still to be found, removed or reported.
DeathPending(w) ==
  \/ Waiting("destroy", w)
  \/ w \in dead /\ reaper \in {"reap", "send"}
  \/ w \in reaping

WindowCreated(w) ==
  /\ w \notin alive
  /\ alive' = alive \cup {w}
  /\ Hooked("create", w)
  /\ unwatched' = IF interactive THEN unwatched ELSE unwatched \cup {w}
  /\ again' = IF DeathPending(w) THEN again \cup {w} ELSE again
  /\ moved' = moved \ {w}
  /\ UNCHANGED <<interactive, held, moves, pending, reaperVars>>

\* A window that is not held yet; bound: while no other event waits
WindowNoticed(w) ==
  /\ interactive /\ w \in alive \ held /\ channel = <<>>
  /\ Hooked("notice", w)
  /\ UNCHANGED <<alive, interactive, held, moveVars, reaperVars, unwatched, again>>

WindowDestroyed(w) ==
  /\ w \in alive
  /\ alive' = alive \ {w}
  /\ Hooked("destroy", w)
  /\ again' = again \ {w}
  /\ UNCHANGED <<interactive, held, moveVars, reaperVars, unwatched>>

\* Its process is killed: there is no event.
WindowVanishes(w) ==
  /\ w \in alive
  /\ alive' = alive \ {w}
  /\ again' = again \ {w}
  /\ UNCHANGED <<interactive, channel, held, moveVars, reaperVars, unwatched>>

\* debounce_as_needed: ObjectLocationChange
WindowMoves(w) ==
  /\ interactive /\ w \in alive /\ Len(moves) < MaxMoves
  /\ moves' = Append(moves, w)
  /\ moved' = moved \cup {w}
  /\ UNCHANGED <<alive, interactive, channel, held, pending, reaperVars, unwatched, again>>

\* debounce_as_needed: SystemMoveSizeEnd
MoveEnds ==
  /\ interactive /\ Len(moves) < MaxMoves
  /\ moves' = Append(moves, "all")
  /\ UNCHANGED <<alive, interactive, channel, held, pending, moved, reaperVars,
                 unwatched, again>>

\* The session is locked, or another user's is shown, and back.
SessionChanges ==
  /\ interactive' = ~interactive
  /\ UNCHANGED <<alive, channel, held, moveVars, reaperVars, unwatched, again>>
-----------------------------------------------------------------------------
(* PerWindowDebounce *)

\* A report that waits already is not repeated.
Fire(ws) ==
  /\ channel' = Posted(channel, "rect", {w \in ws : ~Waiting("rect", w)})
  /\ pending' = pending \ ws

\* Fault: a TerminateAll is taken for an update.
ReceiveAnything ==
  /\ moves # <<>>
  /\ moves' = Tail(moves)
  /\ pending' = pending \cup {Head(moves)}
  /\ UNCHANGED <<alive, interactive, channel, held, moved, reaperVars, unwatched, again>>

ReceiveUpdate ==
  /\ moves # <<>> /\ Head(moves) # "all"
  /\ moves' = Tail(moves)
  /\ pending' = pending \cup {Head(moves)}
  /\ UNCHANGED <<alive, interactive, channel, held, moved, reaperVars, unwatched, again>>

ReceiveTerminate ==
  /\ moves # <<>> /\ Head(moves) = "all"
  /\ moves' = Tail(moves)
  /\ Fire(pending)
  /\ UNCHANGED <<alive, interactive, held, moved, reaperVars, unwatched, again>>

\* Fault: whatever is pending is dropped with what is due.
TimeOutDropping ==
  /\ moves = <<>>
  /\ \E due \in SUBSET pending \ {{}} :
       channel' = Posted(channel, "rect", {w \in due : ~Waiting("rect", w)})
  /\ pending' = {}
  /\ UNCHANGED <<alive, interactive, held, moves, moved, reaperVars, unwatched, again>>

\* Fault: what is due is left for the next message.
TimeOutLate ==
  /\ moves = <<>>
  /\ \E due \in SUBSET pending \ {{}} : due # pending /\ Fire(due)
  /\ UNCHANGED <<alive, interactive, held, moves, moved, reaperVars, unwatched, again>>

\* recv_timeout gives a message that is there before it times out: then the windows
\* whose delay has passed since their last move are due.
TimeOut ==
  /\ moves = <<>>
  /\ \E due \in SUBSET pending \ {{}} : Fire(due)
  /\ UNCHANGED <<alive, interactive, held, moves, moved, reaperVars, unwatched, again>>
-----------------------------------------------------------------------------
(* The dispatcher, which calls the exterminator's callback and the managers *)

\* A window that lives is not watched any more, and no event will change that.
Unwatch(w, c) ==
  unwatched' = IF w \in alive /\ ~Contains(c, <<"create", w>>) THEN unwatched \cup {w}
               ELSE unwatched

\* The managers look at the window itself: it may be gone by now.
DispatchFound ==
  \E e \in {"create", "notice"} : \E w \in Window :
    /\ channel # <<>> /\ Head(channel) = <<e, w>>
    /\ channel' = Tail(channel)
    /\ known' = IF e = "create" THEN known \cup {w} ELSE known
    /\ held' = IF w \in alive THEN held \cup {w} ELSE held
    /\ unwatched' = IF e = "create" THEN unwatched \ {w} ELSE unwatched
    /\ UNCHANGED <<alive, interactive, moveVars, reaper, dead, reaping, again>>

DispatchDestroy ==
  \E w \in Window :
    /\ channel # <<>> /\ Head(channel) = <<"destroy", w>>
    /\ channel' = Tail(channel)
    /\ known' = known \ {w}
    /\ held' = held \ {w}
    /\ Unwatch(w, channel')
    /\ UNCHANGED <<alive, interactive, moveVars, reaper, dead, reaping>>
    /\ again' = IF DeathPending(w)' THEN again ELSE again \ {w}

\* The place of the window is read now.
DispatchRect ==
  \E w \in Window :
    /\ channel # <<>> /\ Head(channel) = <<"rect", w>>
    /\ channel' = Tail(channel)
    /\ moved' = moved \ {w}
    /\ UNCHANGED <<alive, interactive, held, moves, pending, reaperVars, unwatched, again>>
-----------------------------------------------------------------------------
(* The zombie exterminator *)

\* The windows there are, found and then inserted
Scan ==
  /\ reaper = "scan"
  /\ reaper' = "insert" /\ dead' = alive
  /\ UNCHANGED <<alive, interactive, channel, held, moveVars, known, reaping,
                 unwatched, again>>

ScanInserts ==
  /\ reaper = "insert"
  /\ reaper' = "sleep" /\ dead' = {}
  /\ known' = known \cup dead
  /\ unwatched' = unwatched \ dead
  /\ UNCHANGED <<alive, interactive, channel, held, moveVars, reaping, again>>

\* Fault: windows that nobody holds count as dead.
ListUnheld ==
  /\ reaper = "sleep" /\ interactive /\ known \ (alive \cap held) # {}
  /\ reaper' = "reap" /\ dead' = known \ (alive \cap held)
  /\ UNCHANGED <<alive, interactive, channel, held, moveVars, known, reaping,
                 unwatched, again>>

\* Once a second: the windows it knows that are none, under the read lock
ListDead ==
  /\ reaper = "sleep" /\ interactive /\ known \ alive # {}
  /\ reaper' = "reap" /\ dead' = known \ alive
  /\ UNCHANGED <<alive, interactive, channel, held, moveVars, known, reaping,
                 unwatched, again>>

\* Each is removed under the write lock, whatever has the handle by now,
Reap(w) ==
  /\ reaper = "reap" /\ w \in dead
  /\ reaper' = "send" /\ reaping' = {w}
  /\ dead' = dead \ {w} /\ known' = known \ {w}
  /\ Unwatch(w, channel)
  /\ UNCHANGED <<alive, interactive, channel, held, moveVars, again>>

\* Fault: the window is taken off the list and not reported.
ReapInSilence ==
  /\ reaper = "send"
  /\ reaper' = (IF dead = {} THEN "sleep" ELSE "reap") /\ reaping' = {}
  /\ UNCHANGED <<alive, interactive, channel, held, moveVars, known, dead, unwatched, again>>

\* and reported.
ReportReaped ==
  /\ reaper = "send"
  /\ reaper' = (IF dead = {} THEN "sleep" ELSE "reap") /\ reaping' = {}
  /\ channel' = Posted(channel, "destroy", reaping)
  /\ UNCHANGED <<alive, interactive, held, moveVars, known, dead, unwatched, again>>
-----------------------------------------------------------------------------
(* The specification *)

Windows ==
  \/ \E w \in Passing : \/ WindowCreated(w) \/ WindowNoticed(w)
                        \/ WindowDestroyed(w) \/ WindowVanishes(w)
  \/ \E w \in Window : WindowMoves(w)
  \/ MoveEnds \/ SessionChanges

Debounce == ReceiveUpdate \/ ReceiveTerminate \/ TimeOut

Dispatch == DispatchFound \/ DispatchDestroy \/ DispatchRect

Exterminate ==
  \/ Scan \/ ScanInserts \/ ListDead \/ ReportReaped
  \/ \E w \in Window : Reap(w)

Next == Windows \/ Debounce \/ Dispatch \/ Exterminate

Spec == Init /\ [][Next]_vars

\* The threads of the app run and time passes. A time-out needs a moment without a
\* message: nothing makes the windows leave one.
FairSpec ==
  /\ Spec
  /\ WF_vars(Debounce) /\ WF_vars(Dispatch) /\ WF_vars(Exterminate)
-----------------------------------------------------------------------------
(* Properties *)

TypeOK ==
  /\ alive \subseteq Window /\ held \subseteq Window /\ interactive \in BOOLEAN
  /\ channel \in Seq(Event) /\ moves \in Seq(Window \cup {"all"})
  /\ pending \subseteq Window
  /\ known \subseteq Window /\ dead \subseteq Window /\ reaping \subseteq Window
  /\ reaper \in {"scan", "insert", "sleep", "reap", "send"}
  /\ Cardinality(reaping) = IF reaper = "send" THEN 1 ELSE 0
  /\ moved \subseteq Window /\ unwatched \subseteq Window /\ again \subseteq Window

\* A move is not lost: until the managers look at the place of a window that moved,
\* its move is on the way to the thread, is pending there, or its event is queued.
MovesKept ==
  \A w \in moved :
    Contains(moves, w) \/ w \in pending \/ Waiting("rect", w)

\* What the managers hold is watched by the exterminator, or its end is about to be
\* reported. Except for windows that came while the session was locked, that were
\* there before its first scan, or whose handle it took for the one of a dead window.
HeldAreWatched ==
  \A w \in held :
    w \in known \cup unwatched \cup reaping \/ Waiting("create", w) \/ Waiting("destroy", w)

\* A window that lives is reported destroyed only if its handle was used again while
\* the end of the window before was still to be reported.
LiveWindowsKept ==
  [][\A w \in Window : w \in held \cap alive /\ w \notin held' => w \in again]_vars

\* "detects such windows and emits the missing destruction events": the managers let
\* go of a window that is gone, with or without an event, while the session stays
\* unlocked.
GhostsReaped ==
  \A w \in Passing :
    w \in held \ (alive \cup unwatched) ~>
      w \notin held \/ w \in alive \/ ~interactive

\* The windows that moved are all looked at, where they are then, once no other
\* move comes. Not before: while others keep moving a window may wait for ever.
MovesSettle == moved # {} /\ moves = <<>> ~> moved = {} \/ moves # <<>>
=============================================================================
