------------------------ MODULE NativeTaskbarProofs ------------------------
(***************************************************************************)
(* What holds of the taskbar of Windows for any number of messages,        *)
(* attempts to send one and threads that hide the bar.                     *)
(***************************************************************************)
EXTENDS NativeTaskbar, TLAPS

Acts == {"hide", "restore"}

RequestType == [pc : {"idle", "sending", "waiting"}, act : {"none", "hide", "restore"},
                try : 0..MaxRetries]

MessageType == [req : Request, act : Acts, try : 1..MaxRetries]

HiderType == [pc : {"idle", "check", "hide"}, left : 0..Attempts]

\* A task that is at work has something to send.
Asking == \A r \in Request :
            request[r].pc # "idle" => request[r].act # "none" /\ request[r].try # 0

\* TypeOK in parts: tasks, messages, threads, and the rest.
RequestsOK == request \in [Request -> RequestType] /\ Asking
InboxOK == inbox \subseteq MessageType
HidersOK == hider \in [Hider -> HiderType]

ScalarsOK ==
  /\ app \in BOOLEAN /\ weg \in BOOLEAN
  /\ svc \in {"off", "running", "restore", "show", "leave"}
  /\ showing \in 0..MaxShowing /\ flag \in BOOLEAN
  /\ hidden \in BOOLEAN /\ shownEvent \in BOOLEAN
  /\ sure \in BOOLEAN /\ stranded \in BOOLEAN

TypeInv == RequestsOK /\ InboxOK /\ HidersOK /\ ScalarsOK

LEMMA TypeParts == TypeInv => TypeOK
  BY DEF TypeInv, TypeOK, RequestsOK, InboxOK, HidersOK, ScalarsOK, RequestType,
         MessageType, HiderType, Acts
-----------------------------------------------------------------------------
(* Tasks and messages *)

LEMMA IdleIsTyped == Idle \in RequestType /\ Idle.pc = "idle"
  BY TaskbarAssumption DEF Idle, RequestType

LEMMA RestingIsTyped == Resting \in HiderType
  BY TaskbarAssumption DEF Resting, HiderType

LEMMA AllIdle ==
  /\ request' = IdleRequests => RequestsOK'
  /\ hider' = IdleHiders => HidersOK'
  BY IdleIsTyped, RestingIsTyped DEF IdleRequests, IdleHiders, RequestsOK, HidersOK, Asking

\* A task that begins
LEMMA AskTyped ==
  ASSUME RequestsOK, NEW act \in Acts, Ask(act)
  PROVE  RequestsOK' /\ sure' \in BOOLEAN
<1>1. PICK r \in Request :
        request' = [request EXCEPT ![r] = [pc |-> "sending", act |-> act, try |-> 1]]
  BY DEF Ask
<1>2. [pc |-> "sending", act |-> act, try |-> 1] \in RequestType
  BY TaskbarAssumption DEF RequestType, Acts
<1>3. request' \in [Request -> RequestType]
  BY <1>1, <1>2 DEF RequestsOK
<1>4. Asking'
  BY <1>1, <1>3 DEF RequestsOK, Asking, Acts
<1>5. sure' \in BOOLEAN
  BY Zenon DEF Ask, Quiet
<1> QED BY <1>3, <1>4, <1>5 DEF RequestsOK

LEMMA WantedIsAct == ASSUME NEW b PROVE Wanted(b) \in Acts
  BY DEF Wanted, Acts

LEMMA DeliverTyped ==
  ASSUME RequestsOK, InboxOK, NEW r \in Request, Deliver(r)
  PROVE  RequestsOK' /\ InboxOK'
<1>1. request[r] \in RequestType /\ request[r].act \in Acts /\ request[r].try \in 1..MaxRetries
  BY DEF RequestsOK, RequestType, Asking, Deliver, Acts
<1>2. Message(r) \in MessageType
  BY <1>1 DEF Message, MessageType
<1>3. request' = [request EXCEPT ![r] = [request[r] EXCEPT !.pc = "waiting"]]
  BY DEF Deliver
<1>4. [request[r] EXCEPT !.pc = "waiting"] \in RequestType
  BY <1>1 DEF RequestType
<1>5. RequestsOK'
  BY <1>1, <1>3, <1>4 DEF RequestsOK, Asking, RequestType, Acts
<1> QED BY <1>2, <1>5 DEF InboxOK, Deliver

LEMMA AttemptTyped ==
  ASSUME RequestsOK, NEW r \in Request, AttemptFails(r)
  PROVE  RequestsOK'
<1>1. request[r] \in RequestType /\ request[r].pc # "idle"
  BY DEF RequestsOK, AttemptFails
<1>2. request[r].act # "none" /\ request[r].try \in 1..MaxRetries
  BY <1>1 DEF RequestsOK, Asking, RequestType
<1>3. CASE request[r].try < MaxRetries
  <2> DEFINE new == [request[r] EXCEPT !.pc = "sending", !.try = request[r].try + 1]
  <2>1. request' = [request EXCEPT ![r] = new]
    BY <1>3 DEF AttemptFails
  <2>2. new \in RequestType /\ new.act # "none" /\ new.try # 0
    <3>1. request[r].try + 1 \in 1..MaxRetries
      BY <1>2, <1>3, TaskbarAssumption
    <3>2. new.pc = "sending" /\ new.act = request[r].act /\ new.try = request[r].try + 1
      BY <1>1 DEF RequestType
    <3>3. request[r].act \in {"none", "hide", "restore"} /\ 1..MaxRetries \subseteq 0..MaxRetries
      BY <1>1 DEF RequestType
    <3>4. new \in RequestType
      BY <1>1, <3>1, <3>2, <3>3 DEF RequestType
    <3> QED BY <1>2, <3>1, <3>2, <3>4
  <2> QED BY <2>1, <2>2 DEF RequestsOK, Asking
<1>4. CASE ~(request[r].try < MaxRetries)
  <2>1. request' = [request EXCEPT ![r] = Idle]
    BY <1>4 DEF AttemptFails
  <2> QED BY <2>1, IdleIsTyped DEF RequestsOK, Asking
<1> QED BY <1>3, <1>4

LEMMA AnsweredTyped ==
  ASSUME RequestsOK, InboxOK, NEW m \in inbox, Answered(m)
  PROVE  RequestsOK'
<1>1. m.req \in Request
  BY DEF InboxOK, MessageType
<1>2. request' = request \/ request' = [request EXCEPT ![m.req] = Idle]
  BY DEF Answered
<1> QED BY <1>1, <1>2, IdleIsTyped DEF RequestsOK, Asking
-----------------------------------------------------------------------------
(* Types *)

LEMMA TypesInitially == Init => TypeInv
<1> SUFFICES ASSUME Init PROVE RequestsOK /\ InboxOK /\ HidersOK /\ ScalarsOK
  BY DEF TypeInv
<1>1. RequestsOK
  BY IdleIsTyped DEF Init, IdleRequests, RequestsOK, Asking
<1>2. HidersOK
  BY RestingIsTyped DEF Init, IdleHiders, HidersOK
<1>3. /\ app \in BOOLEAN /\ weg \in BOOLEAN /\ flag \in BOOLEAN /\ hidden \in BOOLEAN
      /\ shownEvent \in BOOLEAN /\ sure \in BOOLEAN /\ stranded \in BOOLEAN
  BY Zenon DEF Init
<1> QED BY <1>1, <1>2, <1>3, TaskbarAssumption DEF Init, InboxOK, ScalarsOK

LEMMA TypesPreserved == TypeInv /\ [Next]_vars => TypeInv'
<1> SUFFICES ASSUME RequestsOK, InboxOK, HidersOK, ScalarsOK, [Next]_vars
             PROVE  RequestsOK' /\ InboxOK' /\ HidersOK' /\ ScalarsOK'
  BY DEF TypeInv
<1> USE DEF ScalarsOK, InboxOK
<1>1. CASE UNCHANGED vars
  BY <1>1 DEF vars, appVars, svcVars, barVars, RequestsOK, HidersOK, Asking
<1>2. CASE AppBoots
  <2>1. RequestsOK' /\ sure' \in BOOLEAN
    <3>1. CASE weg
      BY <1>2, <3>1, AskTyped DEF AppBoots, Acts
    <3>2. CASE ~weg
      BY <1>2, <3>2 DEF AppBoots, RequestsOK, Asking
    <3> QED BY <3>1, <3>2
  <2>2. app' \in BOOLEAN /\ shownEvent' \in BOOLEAN
    BY <1>2, Zenon DEF AppBoots
  <2> QED BY <1>2, <2>1, <2>2 DEF AppBoots, HidersOK
<1>3. CASE SettingsChange
  <2>1. RequestsOK' /\ sure' \in BOOLEAN
    BY <1>3, AskTyped, WantedIsAct DEF SettingsChange
  <2> QED BY <1>3, <2>1 DEF SettingsChange, svcVars, barVars, HidersOK
<1>4. CASE HookShown
  <2>1. RequestsOK' /\ sure' \in BOOLEAN
    <3>1. CASE weg
      BY <1>4, <3>1, AskTyped DEF HookShown, Acts
    <3>2. CASE ~weg
      BY <1>4, <3>2 DEF HookShown, RequestsOK, Asking
    <3> QED BY <3>1, <3>2
  <2>2. shownEvent' \in BOOLEAN
    BY <1>4, Zenon DEF HookShown
  <2> QED BY <1>4, <2>1, <2>2 DEF HookShown, svcVars, HidersOK
<1>5. CASE AppEnds
  <2>1. app' \in BOOLEAN /\ shownEvent' \in BOOLEAN /\ sure' \in BOOLEAN
    BY <1>5, Zenon DEF AppEnds
  <2> QED BY <1>5, <2>1, AllIdle DEF AppEnds, svcVars, HidersOK
<1>6. ASSUME NEW r \in Request, Deliver(r)
      PROVE  RequestsOK' /\ InboxOK' /\ HidersOK' /\ ScalarsOK'
  <2>1. RequestsOK' /\ InboxOK'
    BY <1>6, DeliverTyped
  <2> QED BY <1>6, <2>1 DEF Deliver, barVars, HidersOK
<1>7. ASSUME NEW r \in Request, AttemptFails(r)
      PROVE  RequestsOK' /\ InboxOK' /\ HidersOK' /\ ScalarsOK'
  <2>1. RequestsOK'
    BY <1>7, AttemptTyped
  <2>2. sure' \in BOOLEAN
    BY <1>7, Zenon DEF AttemptFails
  <2> QED BY <1>7, <2>1, <2>2 DEF AttemptFails, svcVars, barVars, HidersOK
<1>8. CASE SvcStarts
  BY <1>8 DEF SvcStarts, appVars, barVars, RequestsOK, Asking, HidersOK
<1>9. ASSUME NEW m \in inbox, HandleHide(m)
      PROVE  RequestsOK' /\ InboxOK' /\ HidersOK' /\ ScalarsOK'
  <2>1. RequestsOK'
    BY <1>9, AnsweredTyped DEF HandleHide
  <2>2. PICK h \in Hider :
          hider' = [hider EXCEPT ![h] = [pc |-> "check", left |-> Attempts]]
    BY <1>9 DEF HandleHide
  <2>3. [pc |-> "check", left |-> Attempts] \in HiderType
    BY TaskbarAssumption DEF HiderType
  <2>4. HidersOK'
    BY <2>2, <2>3 DEF HidersOK
  <2> QED BY <1>9, <2>1, <2>4 DEF HandleHide, barVars
<1>10. ASSUME NEW m \in inbox, HandleRestore(m)
       PROVE  RequestsOK' /\ InboxOK' /\ HidersOK' /\ ScalarsOK'
  <2>1. RequestsOK'
    BY <1>10, AnsweredTyped DEF HandleRestore
  <2>2. flag' \in BOOLEAN
    BY <1>10, Zenon DEF HandleRestore, ClearFlag
  <2> QED BY <1>10, <2>1, <2>2, TaskbarAssumption DEF HandleRestore, barVars, HidersOK
<1>11. ASSUME NEW h \in Hider, HiderChecks(h)
       PROVE  RequestsOK' /\ InboxOK' /\ HidersOK' /\ ScalarsOK'
  <2>1. hider[h] \in HiderType
    BY DEF HidersOK
  <2>2. hider[h].left > 0 => [pc |-> "hide", left |-> hider[h].left - 1] \in HiderType
    BY <2>1, TaskbarAssumption DEF HiderType
  <2>3. HidersOK'
    BY <1>11, <2>1, <2>2, RestingIsTyped DEF HiderChecks, HidersOK
  <2> QED BY <1>11, <2>3 DEF HiderChecks, appVars, barVars, RequestsOK, Asking
<1>12. ASSUME NEW h \in Hider, HiderHides(h)
       PROVE  RequestsOK' /\ InboxOK' /\ HidersOK' /\ ScalarsOK'
  <2>1. hider[h] \in HiderType
    BY DEF HidersOK
  <2>2. [hider[h] EXCEPT !.pc = "check"] \in HiderType
    BY <2>1 DEF HiderType
  <2>3. HidersOK'
    BY <1>12, <2>1, <2>2 DEF HiderHides, HidersOK
  <2>4. stranded' \in BOOLEAN
    BY <1>12, Zenon DEF HiderHides
  <2> QED BY <1>12, <2>3, <2>4 DEF HiderHides, appVars, RequestsOK, Asking
<1>13. Show => hidden' \in BOOLEAN /\ shownEvent' \in BOOLEAN /\ stranded' \in BOOLEAN
  <2> HAVE Show
  <2>1. shownEvent' \in BOOLEAN
    BY DEF Show, BarShown
  <2>2. hidden' \in BOOLEAN /\ stranded' \in BOOLEAN
    BY Zenon DEF Show, BarShown
  <2> QED BY <2>1, <2>2
<1>14. CASE ShowRestored
  BY <1>13, <1>14, TaskbarAssumption DEF ShowRestored, appVars, RequestsOK, Asking, HidersOK
<1>15. CASE MainWakes
  BY <1>15 DEF MainWakes, appVars, barVars, RequestsOK, Asking, HidersOK
<1>16. CASE MainRestores
  <2>1. flag' \in BOOLEAN
    BY <1>16, Zenon DEF MainRestores, ClearFlag
  <2> QED BY <1>16, <2>1 DEF MainRestores, appVars, barVars, RequestsOK, Asking, HidersOK
<1>17. CASE MainShows
  BY <1>13, <1>17 DEF MainShows, appVars, RequestsOK, Asking, HidersOK
<1>18. CASE MainLeaves \/ SvcKilled
  <2>1. SvcGone
    BY <1>18 DEF MainLeaves, SvcKilled
  <2>2. flag' \in BOOLEAN /\ sure' \in BOOLEAN
    BY <2>1, Zenon DEF SvcGone
  <2>3. stranded' \in BOOLEAN
    BY <1>18, Zenon DEF MainLeaves, SvcKilled
  <2>4. HidersOK'
    BY <2>1, AllIdle DEF SvcGone
  <2> QED BY <2>1, <2>2, <2>3, <2>4, TaskbarAssumption
          DEF SvcGone, appVars, barVars, RequestsOK, Asking
<1>19. CASE ExplorerRestarts
  <2>1. hidden' \in BOOLEAN /\ stranded' \in BOOLEAN
    BY <1>19, Zenon DEF ExplorerRestarts
  <2>2. HidersOK'
    BY <1>19, AllIdle DEF ExplorerRestarts
  <2> QED BY <1>19, <2>1, <2>2 DEF ExplorerRestarts, appVars, RequestsOK, Asking
<1> QED
  BY <1>1, <1>2, <1>3, <1>4, <1>5, <1>6, <1>7, <1>8, <1>9, <1>10, <1>11, <1>12, <1>14,
     <1>15, <1>16, <1>17, <1>18, <1>19 DEF Next, App, Send, Service

LEMMA TypeInvHolds == Spec => []TypeInv
  BY TypesInitially, TypesPreserved, PTL DEF Spec
-----------------------------------------------------------------------------
(* A hidden bar is known *)

LEMMA HiddenPreserved == TypeInv /\ HiddenIsOurs /\ [Next]_vars => HiddenIsOurs'
<1> SUFFICES ASSUME TypeInv, HiddenIsOurs, [Next]_vars PROVE HiddenIsOurs'
  OBVIOUS
<1> USE DEF HiddenIsOurs, svcVars, barVars
<1>1. CASE UNCHANGED vars
  BY <1>1 DEF vars
<1>2. CASE AppBoots
  BY <1>2 DEF AppBoots
<1>3. CASE SettingsChange
  BY <1>3 DEF SettingsChange
<1>4. CASE HookShown
  BY <1>4 DEF HookShown
<1>5. CASE AppEnds
  BY <1>5 DEF AppEnds
<1>6. ASSUME NEW r \in Request, Deliver(r) \/ AttemptFails(r) PROVE HiddenIsOurs'
  BY <1>6 DEF Deliver, AttemptFails
<1>7. CASE SvcStarts
  BY <1>7 DEF SvcStarts
<1>8. ASSUME NEW m \in inbox, HandleHide(m) PROVE HiddenIsOurs'
  BY <1>8 DEF HandleHide
<1>9. ASSUME NEW m \in inbox, HandleRestore(m) PROVE HiddenIsOurs'
  BY <1>9 DEF HandleRestore, TypeInv, ScalarsOK
<1>10. ASSUME NEW h \in Hider, HiderChecks(h) PROVE HiddenIsOurs'
  BY <1>10 DEF HiderChecks
<1>11. ASSUME NEW h \in Hider, HiderHides(h) PROVE HiddenIsOurs'
  BY <1>11 DEF HiderHides
<1>12. CASE ShowRestored \/ MainShows
  BY <1>12 DEF ShowRestored, MainShows, Show, BarShown
<1>13. CASE MainWakes
  BY <1>13 DEF MainWakes
<1>14. CASE MainRestores
  BY <1>14 DEF MainRestores
<1>15. CASE MainLeaves
  BY <1>15 DEF MainLeaves, SvcGone
<1>16. CASE SvcKilled
  BY <1>16 DEF SvcKilled, SvcGone
<1>17. CASE ExplorerRestarts
  BY <1>17 DEF ExplorerRestarts
<1> QED
  BY <1>1, <1>2, <1>3, <1>4, <1>5, <1>6, <1>7, <1>8, <1>9, <1>10, <1>11, <1>12, <1>13,
     <1>14, <1>15, <1>16, <1>17 DEF Next, App, Send, Service

\* Whatever order the messages come in and whoever dies, a hidden bar is in the
\* service's memory or about to be shown, unless it was hidden behind its back.
THEOREM HiddenStaysOurs == Spec => []HiddenIsOurs
<1>1. Init => HiddenIsOurs
  BY DEF Init, HiddenIsOurs
<1> QED BY <1>1, HiddenPreserved, TypeInvHolds, PTL DEF Spec
-----------------------------------------------------------------------------
(* The newest request wins *)

\* While `sure`, what is under way is what the setting says, and nothing else is.
Agreed ==
  sure =>
    /\ \A r \in Request : request[r].pc # "idle" => request[r].act = Wanted(weg)
    /\ \A m \in inbox : m.act = Wanted(weg)
    /\ \A r \in Request : request[r].pc = "waiting" => Message(r) \in inbox
    /\ weg => showing = 0
    /\ ~weg => hider = IdleHiders

UnderWay == (\E r \in Request : request[r].pc # "idle") \/ inbox # {}

\* A thread that hides the bar at least once more
Hiding == flag /\ \E h \in Hider : \/ hider[h].pc = "hide"
                                   \/ hider[h].pc = "check" /\ hider[h].left > 0

\* The request is under way, or has had its effect, or is asked for again.
Outcome ==
  sure /\ svc \in {"off", "running"} =>
    \/ UnderWay
    \/ ~weg /\ (hidden => showing > 0 \/ stranded)
    \/ weg /\ (~app \/ shownEvent \/ hidden \/ Hiding)

WinInv == TypeInv /\ HiddenIsOurs /\ Agreed /\ Outcome

\* What Quiet says, in terms of the messages too
LEMMA QuietMeans ==
  ASSUME TypeInv, Quiet
  PROVE  /\ \A r \in Request : request[r].pc = "idle"
         /\ inbox = {} /\ hider = IdleHiders /\ showing = 0
         /\ ~UnderWay /\ ~Hiding
<1>1. \A r \in Request : request[r].pc = "idle"
  BY IdleIsTyped DEF Quiet, Spare
<1>2. inbox = {}
  BY DEF Quiet, Spare, TypeInv, InboxOK, MessageType
<1>3. ~Hiding
  BY DEF Quiet, IdleHiders, Resting, Hiding
<1> QED BY <1>1, <1>2, <1>3 DEF Quiet, UnderWay

\* A request made while everything was quiet is the only one under way.
LEMMA Asked ==
  ASSUME TypeInv, Ask(Wanted(weg')), UNCHANGED <<inbox, hider, showing>>
  PROVE  Agreed' /\ Outcome'
<1>1. PICK r \in Request :
        request' = [request EXCEPT ![r] = [pc |-> "sending", act |-> Wanted(weg'), try |-> 1]]
  BY DEF Ask
<1>2. request \in [Request -> RequestType]
  BY DEF TypeInv, RequestsOK
<1>3. request'[r].pc = "sending" /\ request'[r].act = Wanted(weg')
  BY <1>1, <1>2
<1>4. UnderWay'
  BY <1>3 DEF UnderWay
<1>5. CASE ~sure'
  BY <1>5 DEF Agreed, Outcome
<1>6. CASE sure'
  <2>1. Quiet
    BY <1>6 DEF Ask
  <2>2. \A q \in Request : q # r => request'[q].pc = "idle"
    BY <1>1, <1>2, <2>1, QuietMeans
  <2> QED BY <1>3, <1>4, <2>1, <2>2, QuietMeans DEF Agreed, Outcome
<1> QED BY <1>5, <1>6

\* Steps that change nothing of this but what their own part says
LEMMA AgreedKept ==
  ASSUME Agreed, UNCHANGED <<weg, request, inbox>>, sure' => sure,
         sure /\ weg => showing' = 0, sure /\ ~weg => hider' = IdleHiders
  PROVE  Agreed'
  BY DEF Agreed, Message

\* An answer takes nothing away that is still waited for.
LEMMA AnsweredAgreed ==
  ASSUME TypeInv, Agreed, NEW m \in inbox, Answered(m), inbox' = inbox \ {m},
         UNCHANGED <<weg, sure>>, sure /\ weg => showing' = 0,
         sure /\ ~weg => hider' = IdleHiders
  PROVE  Agreed'
<1> SUFFICES ASSUME sure PROVE Agreed'
  BY DEF Agreed
<1>1. m \in MessageType /\ m.req \in Request
  BY DEF TypeInv, InboxOK, MessageType
<1>2. request \in [Request -> RequestType]
  BY DEF TypeInv, RequestsOK
<1>3. \A r \in Request : request'[r] = request[r] \/ request'[r] = Idle
  BY <1>1, <1>2 DEF Answered
<1>4. \A r \in Request : request'[r].pc # "idle" => request'[r].act = Wanted(weg)
  BY <1>3, IdleIsTyped DEF Agreed
<1>5. ASSUME NEW r \in Request, request'[r].pc = "waiting" PROVE Message(r)' \in inbox'
  <2>1. request'[r] = request[r]
    BY <1>3, <1>5, IdleIsTyped
  <2>2. Message(r)' = Message(r) /\ Message(r) \in inbox
    BY <1>5, <2>1 DEF Message, Agreed
  <2>3. Message(r) # m
    <3> SUFFICES ASSUME Message(r) = m PROVE FALSE
      OBVIOUS
    <3>1. m.req = r
      BY DEF Message
    <3>2. request' = [request EXCEPT ![r] = Idle]
      BY <1>5, <2>1, <3>1 DEF Answered
    <3> QED BY <1>2, <1>5, <3>2, IdleIsTyped
  <2> QED BY <2>2, <2>3
<1> QED BY <1>4, <1>5 DEF Agreed

LEMMA WinPreservedByApp ==
  ASSUME WinInv, App
  PROVE  Agreed' /\ Outcome'
<1> USE DEF WinInv
<1>1. CASE SettingsChange
  BY <1>1, Asked DEF SettingsChange, svcVars
<1>2. ASSUME weg, AppBoots \/ HookShown PROVE Agreed' /\ Outcome'
  <2>1. Ask(Wanted(weg')) /\ UNCHANGED <<inbox, hider, showing>>
    BY <1>2 DEF AppBoots, HookShown, svcVars, Wanted
  <2> QED BY <2>1, Asked
<1>3. ASSUME ~weg, AppBoots \/ HookShown PROVE Agreed' /\ Outcome'
  <2>1. UNCHANGED <<weg, request, inbox, hider, showing, sure, hidden, stranded>>
    BY <1>3 DEF AppBoots, HookShown, appVars, svcVars
  <2>2. Agreed'
    BY <2>1, AgreedKept DEF Agreed
  <2>3. svc' \in {"off", "running"} => svc \in {"off", "running"}
    BY <1>3 DEF AppBoots, HookShown, svcVars
  <2> QED BY <1>3, <2>1, <2>2, <2>3 DEF Outcome, UnderWay
<1>4. CASE AppEnds
  <2>1. \A r \in Request : request'[r].pc = "idle"
    BY <1>4, IdleIsTyped DEF AppEnds, IdleRequests
  <2>2. Agreed'
    BY <1>4, <2>1 DEF AppEnds, svcVars, Agreed
  <2>3. sure' => sure /\ \A r \in Request : request[r].pc # "sending"
    BY <1>4 DEF AppEnds
  <2>4. sure' /\ UnderWay => inbox # {}
    <3> SUFFICES ASSUME sure', NEW r \in Request, request[r].pc # "idle"
                 PROVE  inbox # {}
      BY DEF UnderWay
    <3>1. request[r].pc = "waiting"
      BY <2>3 DEF TypeInv, RequestsOK, RequestType
    <3> QED BY <2>3, <3>1 DEF Agreed
  <2> QED BY <1>4, <2>2, <2>3, <2>4 DEF AppEnds, svcVars, Outcome, UnderWay
<1> QED BY <1>1, <1>2, <1>3, <1>4 DEF App

LEMMA WinPreservedBySending ==
  ASSUME WinInv, NEW r \in Request, Send(r)
  PROVE  Agreed' /\ Outcome'
<1> USE DEF WinInv
<1>1. request \in [Request -> RequestType]
  BY DEF TypeInv, RequestsOK
<1>2. CASE Deliver(r)
  <2>1. /\ request[r].pc = "sending"
        /\ request' = [request EXCEPT ![r] = [request[r] EXCEPT !.pc = "waiting"]]
        /\ inbox' = inbox \cup {Message(r)}
        /\ UNCHANGED <<weg, hider, showing, sure>>
    BY <1>2 DEF Deliver
  <2>2. /\ request'[r].pc = "waiting" /\ request'[r].act = request[r].act
        /\ request'[r].try = request[r].try
        /\ \A q \in Request : q # r => request'[q] = request[q]
    BY <1>1, <2>1 DEF RequestType
  <2>3. \A q \in Request : Message(q)' = Message(q)
    BY <2>2 DEF Message
  <2>4. Message(r).act = request[r].act
    BY DEF Message
  <2>5. UnderWay'
    BY <2>2 DEF UnderWay
  <2> QED BY <2>1, <2>2, <2>3, <2>4, <2>5 DEF Agreed, Outcome
<1>3. CASE AttemptFails(r) /\ sure'
  <2>1. /\ request[r].pc # "idle" /\ sure
        /\ request' = [request EXCEPT ![r] =
                         [request[r] EXCEPT !.pc = "sending", !.try = request[r].try + 1]]
        /\ UNCHANGED <<weg, inbox, hider, showing>>
    BY <1>3 DEF AttemptFails, svcVars
  <2>2. /\ request'[r].pc = "sending" /\ request'[r].act = request[r].act
        /\ \A q \in Request : q # r => request'[q] = request[q]
    BY <1>1, <2>1 DEF RequestType
  <2>3. \A q \in Request : q # r => Message(q)' = Message(q)
    BY <2>2 DEF Message
  <2>4. UnderWay'
    BY <2>2 DEF UnderWay
  <2> QED BY <2>1, <2>2, <2>3, <2>4 DEF Agreed, Outcome
<1>4. CASE ~sure'
  BY <1>4 DEF Agreed, Outcome
<1> QED BY <1>2, <1>3, <1>4 DEF Send

LEMMA WinPreservedByHandling ==
  ASSUME WinInv, NEW m \in inbox, HandleHide(m) \/ HandleRestore(m)
  PROVE  Agreed' /\ Outcome'
<1> USE DEF WinInv
<1>1. CASE ~sure
  BY <1>1 DEF HandleHide, HandleRestore, Agreed, Outcome
<1>2. CASE sure /\ HandleHide(m)
  <2>1. weg
    BY <1>2 DEF HandleHide, Agreed, Wanted
  <2>2. Agreed'
    BY <1>2, <2>1, AnsweredAgreed DEF HandleHide, Agreed
  <2>3. PICK h \in Hider :
          hider' = [hider EXCEPT ![h] = [pc |-> "check", left |-> Attempts]]
    BY <1>2 DEF HandleHide
  <2>4. hider'[h].pc = "check" /\ hider'[h].left > 0
    BY <2>3, TaskbarAssumption DEF TypeInv, HidersOK
  <2>5. Hiding'
    BY <1>2, <2>4 DEF HandleHide, Hiding
  <2> QED BY <1>2, <2>1, <2>2, <2>5 DEF HandleHide, Outcome
<1>3. CASE sure /\ HandleRestore(m)
  <2>1. ~weg
    BY <1>3 DEF HandleRestore, Agreed, Wanted
  <2>2. Agreed'
    BY <1>3, <2>1, AnsweredAgreed DEF HandleRestore, Agreed
  <2>3. svc' \in {"off", "running"} => (hidden' => showing' > 0 \/ stranded')
    BY <1>3 DEF HandleRestore, HiddenIsOurs, barVars, TypeInv, ScalarsOK
  <2> QED BY <1>3, <2>1, <2>2, <2>3 DEF HandleRestore, Outcome
<1> QED BY <1>1, <1>2, <1>3

LEMMA WinPreservedByHiding ==
  ASSUME WinInv, NEW h \in Hider, HiderChecks(h) \/ HiderHides(h)
  PROVE  Agreed' /\ Outcome'
<1> USE DEF WinInv
<1>1. UNCHANGED <<app, weg, request, inbox, svc, flag, showing, sure, shownEvent>>
  BY DEF HiderChecks, HiderHides, appVars, barVars
<1>2. hider[h].pc # "idle" /\ hider # IdleHiders
  BY DEF HiderChecks, HiderHides, IdleHiders, Resting
<1>3. CASE ~sure
  BY <1>1, <1>3 DEF Agreed, Outcome
<1>4. CASE sure
  <2>1. weg
    BY <1>2, <1>4 DEF Agreed
  <2>2. Agreed'
    BY <1>1, <2>1, AgreedKept DEF Agreed
  <2>3. CASE HiderHides(h)
    BY <1>1, <2>1, <2>2, <2>3 DEF HiderHides, Outcome
  <2>4. CASE HiderChecks(h)
    <3>1. Hiding => Hiding'
      <4> SUFFICES ASSUME Hiding PROVE Hiding'
        OBVIOUS
      <4>1. PICK k \in Hider : \/ hider[k].pc = "hide"
                               \/ hider[k].pc = "check" /\ hider[k].left > 0
        BY DEF Hiding
      <4>2. hider \in [Hider -> HiderType]
        BY DEF TypeInv, HidersOK
      <4>3. CASE k # h
        BY <1>1, <2>4, <4>1, <4>2, <4>3 DEF HiderChecks, Hiding
      <4>4. CASE k = h
        <5>1. hider'[h].pc = "hide"
          BY <2>4, <4>1, <4>2, <4>4 DEF HiderChecks, Hiding
        <5> QED BY <1>1, <5>1 DEF Hiding
      <4> QED BY <4>3, <4>4
    <3>2. hidden' = hidden
      BY <2>4 DEF HiderChecks, barVars
    <3> QED BY <1>1, <2>1, <2>2, <3>1, <3>2 DEF Outcome, UnderWay
  <2> QED BY <2>3, <2>4
<1> QED BY <1>3, <1>4

LEMMA WinPreservedByMain ==
  ASSUME WinInv,
         \/ SvcStarts \/ MainWakes \/ MainRestores \/ MainShows \/ MainLeaves \/ SvcKilled
         \/ ShowRestored \/ ExplorerRestarts
  PROVE  Agreed' /\ Outcome'
<1> USE DEF WinInv
<1>1. CASE SvcStarts
  <2>1. UNCHANGED <<appVars, inbox, flag, hider, showing, barVars, sure, stranded>>
    BY <1>1 DEF SvcStarts
  <2>2. Agreed'
    BY <2>1, AgreedKept DEF appVars, Agreed
  <2> QED BY <1>1, <2>1, <2>2 DEF SvcStarts, appVars, barVars, Outcome, UnderWay, Hiding
<1>2. CASE MainWakes \/ MainRestores \/ MainShows
  <2>1. UNCHANGED <<weg, request, inbox, hider, showing, sure>>
    BY <1>2 DEF MainWakes, MainRestores, MainShows, appVars
  <2>2. Agreed'
    BY <2>1, AgreedKept DEF Agreed
  <2>3. svc' \notin {"off", "running"}
    BY <1>2 DEF MainWakes, MainRestores, MainShows
  <2> QED BY <2>2, <2>3 DEF Outcome
<1>3. CASE MainLeaves \/ SvcKilled
  <2>1. ~sure'
    BY <1>3 DEF MainLeaves, SvcKilled, SvcGone
  <2> QED BY <2>1 DEF Agreed, Outcome
<1>4. CASE ShowRestored /\ sure
  <2>1. ~weg /\ ~hidden' /\ UNCHANGED <<weg, request, inbox, hider, sure>>
    BY <1>4 DEF ShowRestored, Show, BarShown, appVars, Agreed
  <2>2. Agreed'
    BY <2>1, AgreedKept DEF Agreed
  <2> QED BY <2>1, <2>2 DEF Outcome
<1>5. CASE ExplorerRestarts /\ sure
  <2>1. /\ UNCHANGED <<app, weg, request, inbox, showing, sure>>
        /\ ~hidden' /\ shownEvent' = app /\ hider' = IdleHiders
    BY <1>5 DEF ExplorerRestarts, appVars
  <2>2. Agreed'
    BY <2>1, AgreedKept DEF Agreed
  <2> QED BY <2>1, <2>2 DEF Outcome
<1>6. CASE (ShowRestored \/ ExplorerRestarts) /\ ~sure
  BY <1>6 DEF ShowRestored, ExplorerRestarts, Agreed, Outcome
<1> QED BY <1>1, <1>2, <1>3, <1>4, <1>5, <1>6

LEMMA WinPreserved == WinInv /\ [Next]_vars => WinInv'
<1> SUFFICES ASSUME WinInv, [Next]_vars PROVE Agreed' /\ Outcome'
  BY TypesPreserved, HiddenPreserved DEF WinInv
<1>1. CASE UNCHANGED vars
  <2>1. Agreed'
    BY <1>1, AgreedKept DEF WinInv, Agreed, vars, appVars, svcVars
  <2> QED BY <1>1, <2>1
          DEF WinInv, vars, appVars, svcVars, barVars, Outcome, UnderWay, Hiding
<1> QED
  BY <1>1, WinPreservedByApp, WinPreservedBySending, WinPreservedByHandling,
     WinPreservedByHiding, WinPreservedByMain DEF Next, Service

\* The bar ends as the newest message says, if that was sent while nothing was
\* under way: sent again or not, handled once or more, with Explorer and the app
\* ending and starting in between.
THEOREM NewestRequestWins == Spec => []LastRequestWins
<1>1. Init => WinInv
  <2> SUFFICES ASSUME Init PROVE WinInv
    OBVIOUS
  <2>1. ~sure /\ ~hidden
    BY DEF Init
  <2> QED BY <2>1, TypesInitially DEF WinInv, HiddenIsOurs, Agreed, Outcome
<1>2. WinInv => LastRequestWins
  <2> SUFFICES ASSUME WinInv, app, svc = "running", Quiet, ~shownEvent, sure, ~stranded
               PROVE  hidden <=> weg
    BY DEF LastRequestWins
  <2>1. ~UnderWay /\ ~Hiding /\ showing = 0
    BY QuietMeans DEF WinInv
  <2> QED BY <2>1 DEF WinInv, Outcome, TypeInv, ScalarsOK
<1> QED BY <1>1, <1>2, WinPreserved, PTL DEF Spec
=============================================================================
