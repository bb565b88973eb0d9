------------------------- MODULE SupervisionProofs -------------------------
(***************************************************************************)
(* What holds of the service for every MAX_CRASHES and however many        *)
(* launches wait: its types, which bound the failures it repairs, and the  *)
(* safety properties of Supervision.                                       *)
(***************************************************************************)
EXTENDS Supervision, TLAPS

\* A service that is not set up has not counted anything yet.
Fresh == svc \in {"off", "setup"} => mon = "off" /\ crashCount = 0

\* Whoever may count another failure has not reached the limit.
Limited == mon \notin {"off", "gaveUp"} => crashCount <= MaxCrashes

TypeInv == TypeOK /\ Fresh /\ Limited

LEMMA TypesInitially == Init => TypeInv
<1>1. Init => /\ exiting \in BOOLEAN /\ exitSignal \in BOOLEAN /\ connected \in BOOLEAN
              /\ grace \in BOOLEAN /\ wasSuspended \in BOOLEAN /\ suspended \in BOOLEAN
              /\ answered \in BOOLEAN /\ final \in BOOLEAN
  BY Zenon DEF Init
<1> QED BY <1>1, SupervisionAssumption DEF Init, TypeInv, TypeOK, Fresh, Limited

LEMMA TypesPreservedByApp ==
  ASSUME TypeInv, App \/ ServiceStarts
  PROVE  TypeInv'
<1> USE SupervisionAssumption
    DEF TypeInv, TypeOK, Fresh, Limited, svcVars, monVars, AppDies, SvcStarts
<1>1. CASE UserStarts BY <1>1 DEF UserStarts
<1>2. CASE ExplorerStarts BY <1>2 DEF ExplorerStarts
<1>3. CASE ExplorerFails BY <1>3 DEF ExplorerFails
<1>4. CASE AppListens BY <1>4 DEF AppListens
<1>5. CASE AppFindsService BY <1>5 DEF AppFindsService
<1>6. CASE AppStartsService
  <2>1. final' \in BOOLEAN
    BY <1>6, Zenon DEF AppStartsService, SvcStarts
  <2> QED BY <1>6, <2>1 DEF AppStartsService
<1>7. CASE AppCrashes BY <1>7 DEF AppCrashes
<1>8. CASE AppHangs BY <1>8 DEF AppHangs
<1>9. CASE AppRecovers BY <1>9 DEF AppRecovers
<1>10. CASE UserQuits BY <1>10 DEF UserQuits
<1>11. CASE StopSent BY <1>11 DEF StopSent
<1>12. CASE StopGivenUp BY <1>12 DEF StopGivenUp
<1>13. CASE AppExits BY <1>13 DEF AppExits
<1>14. CASE ServiceStarts
  <2>1. final' \in BOOLEAN
    BY <1>14, Zenon DEF ServiceStarts, SvcStarts
  <2> QED BY <1>14, <2>1 DEF ServiceStarts, appVars
<1> QED
  BY <1>1, <1>2, <1>3, <1>4, <1>5, <1>6, <1>7, <1>8, <1>9, <1>10, <1>11, <1>12, <1>13,
     <1>14 DEF App

LEMMA TypesPreservedByService ==
  ASSUME TypeInv,
         \/ Setup \/ Main \/ StopHandled \/ SessionEnds \/ ForceQuit \/ ForceQuitGoesOn
         \/ SvcKilled \/ Suspend \/ Resume
  PROVE  TypeInv'
<1> USE SupervisionAssumption
    DEF TypeInv, TypeOK, Fresh, Limited, appVars, svcVars, monVars, NothingUnderWay
<1>1. CASE SetupLaunches BY <1>1 DEF SetupLaunches, Launch, SetupDone
<1>2. CASE SetupFindsApp
  <2>1. grace' \in BOOLEAN
    BY <1>2, Zenon DEF SetupFindsApp, SetupDone
  <2> QED BY <1>2, <2>1 DEF SetupFindsApp, SetupDone
<1>3. CASE MainWakes BY <1>3 DEF MainWakes
<1>4. CASE SvcGone
  <2>1. /\ exiting' \in BOOLEAN /\ exitSignal' \in BOOLEAN /\ grace' \in BOOLEAN
        /\ wasSuspended' \in BOOLEAN /\ answered' \in BOOLEAN /\ suspended' \in BOOLEAN
    BY <1>4, Zenon DEF SvcGone
  <2> QED BY <1>4, <2>1 DEF SvcGone
<1>5. CASE StopHandled BY <1>5 DEF StopHandled, Exit
<1>6. CASE SessionEnds BY <1>6 DEF SessionEnds, Exit
<1>7. CASE ForceQuit BY <1>7 DEF ForceQuit
<1>8. CASE ForceQuitKills BY <1>8 DEF ForceQuitKills, AppDies
<1>9. CASE ForceQuitExits BY <1>9 DEF ForceQuitExits, Exit
<1>10. CASE Suspend BY <1>10 DEF Suspend
<1>11. CASE Resume
  <2>1. suspended' \in BOOLEAN
    BY <1>11, Zenon DEF Resume
  <2> QED BY <1>11, <2>1 DEF Resume
<1> QED
  BY <1>1, <1>2, <1>3, <1>4, <1>5, <1>6, <1>7, <1>8, <1>9, <1>10, <1>11
  DEF Setup, Main, MainLeaves, ForceQuitGoesOn, SvcKilled

LEMMA TypesPreservedByMonitor ==
  ASSUME TypeInv, Monitor \/ GraceExpires
  PROVE  TypeInv'
<1> USE SupervisionAssumption DEF TypeInv, TypeOK, Fresh, Limited, appVars, svcVars
<1>1. CASE WakeToExit BY <1>1 DEF WakeToExit
<1>2. CASE WakeSuspended BY <1>2 DEF WakeSuspended
<1>3. CASE WakeResumed
  <2>1. wasSuspended' \in BOOLEAN
    BY <1>3, Zenon DEF WakeResumed
  <2> QED BY <1>3, <2>1 DEF WakeResumed
<1>4. CASE WakeToCheck BY <1>4 DEF WakeToCheck
<1>5. CASE ProbeOk BY <1>5 DEF ProbeOk
<1>6. CASE ProbeFails BY <1>6 DEF ProbeFails
<1>7. CASE CountFailure
  <2>1. connected' \in BOOLEAN /\ answered' \in BOOLEAN
    BY <1>7, Zenon DEF CountFailure
  <2> QED BY <1>7, <2>1 DEF CountFailure
<1>8. CASE Kill BY <1>8 DEF Kill, AppDies
<1>9. CASE Relaunch BY <1>9 DEF Relaunch, Launch
<1>10. CASE GiveUp BY <1>10 DEF GiveUp, Exit, NothingUnderWay
<1>11. CASE GraceExpires
  <2>1. grace' \in BOOLEAN
    BY <1>11, Zenon DEF GraceExpires
  <2> QED BY <1>11, <2>1 DEF GraceExpires
<1> QED
  BY <1>1, <1>2, <1>3, <1>4, <1>5, <1>6, <1>7, <1>8, <1>9, <1>10, <1>11 DEF Monitor

LEMMA TypesPreserved == TypeInv /\ [Next]_vars => TypeInv'
<1> SUFFICES ASSUME TypeInv, [Next]_vars PROVE TypeInv'
  OBVIOUS
<1>1. CASE UNCHANGED vars
  BY <1>1 DEF TypeInv, TypeOK, Fresh, Limited, vars, appVars, svcVars, monVars
<1> QED
  BY <1>1, TypesPreservedByApp, TypesPreservedByService, TypesPreservedByMonitor DEF Next

LEMMA TypeInvHolds == Spec => []TypeInv
  BY TypesInitially, TypesPreserved, PTL DEF Spec

\* crash_count never passes MAX_CRASHES by more than the failure at which the
\* monitor gives up, whatever resumes, restarts and late launches come between.
THEOREM FailuresAreLimited == Spec => [](TypeOK /\ Limited)
<1>1. TypeInv => TypeOK /\ Limited
  BY DEF TypeInv
<1> QED BY <1>1, TypeInvHolds, PTL
-----------------------------------------------------------------------------
(* Failures in a row *)

\* app_was_connected tells that nothing is counted, answered that it was set.
CountInv == /\ connected => crashCount = 0
            /\ answered => connected

LEMMA CountPreserved == CountInv /\ [Next]_vars => CountInv'
<1> SUFFICES ASSUME CountInv, [Next]_vars PROVE CountInv'
  OBVIOUS
<1> USE DEF CountInv
<1>1. CASE UNCHANGED <<crashCount, connected, answered>>
  BY <1>1
<1>2. CASE SvcGone BY <1>2 DEF SvcGone
<1>3. CASE WakeResumed BY <1>3 DEF WakeResumed
<1>4. CASE ProbeOk BY <1>4 DEF ProbeOk
<1>5. CASE CountFailure BY <1>5 DEF CountFailure
<1>6. App \/ ServiceStarts => UNCHANGED <<crashCount, connected, answered>>
  BY DEF App, UserStarts, ExplorerStarts, ExplorerFails, AppListens, AppFindsService,
         AppStartsService, AppCrashes, AppHangs, AppRecovers, UserQuits, StopSent,
         StopGivenUp, AppExits, ServiceStarts, SvcStarts, monVars
<1>7. \/ Setup \/ MainWakes \/ StopHandled \/ SessionEnds \/ ForceQuit \/ ForceQuitGoesOn
      \/ Suspend \/ Resume \/ GraceExpires \/ UNCHANGED vars
      => UNCHANGED <<crashCount, connected, answered>>
  BY DEF Setup, SetupLaunches, SetupFindsApp, SetupDone, MainWakes, StopHandled,
         SessionEnds, ForceQuit, ForceQuitGoesOn, ForceQuitKills, ForceQuitExits,
         Suspend, Resume, GraceExpires, vars, monVars
<1>8. \/ WakeToExit \/ WakeSuspended \/ WakeToCheck \/ ProbeFails \/ Kill \/ Relaunch
      \/ GiveUp
      => UNCHANGED <<crashCount, connected, answered>>
  BY DEF WakeToExit, WakeSuspended, WakeToCheck, ProbeFails, Kill, Relaunch, GiveUp
<1> QED
  BY <1>1, <1>2, <1>3, <1>4, <1>5, <1>6, <1>7, <1>8
  DEF Next, Main, MainLeaves, SvcKilled, Monitor

\* The failures that crash_count holds are in a row: none is from before the app
\* last answered.
THEOREM FailuresStayInARow == Spec => []FailuresInARow
<1>1. Init => CountInv
  BY DEF Init, CountInv
<1>2. CountInv => FailuresInARow
  BY DEF CountInv, FailuresInARow
<1> QED BY <1>1, <1>2, CountPreserved, PTL DEF Spec
-----------------------------------------------------------------------------
(* An order to exit is final *)

\* Once the order was given with nothing under way, neither setup nor the monitor
\* can get to the point where they launch the app.
Barred ==
  final =>
    /\ launches = 0
    /\ \/ svc = "off"
       \/ exiting /\ svc # "setup" /\ mon \in {"off", "sleep", "gaveUp"}

LEMMA BarredByApp ==
  ASSUME TypeInv, Barred, App \/ ServiceStarts
  PROVE  Barred'
<1> USE DEF TypeInv, TypeOK, Barred, svcVars, monVars, SvcStarts
<1>1. CASE UserStarts BY <1>1 DEF UserStarts
<1>2. CASE ExplorerStarts BY <1>2 DEF ExplorerStarts
<1>3. CASE ExplorerFails BY <1>3 DEF ExplorerFails
<1>4. CASE AppListens \/ AppFindsService BY <1>4 DEF AppListens, AppFindsService
<1>5. CASE AppStartsService BY <1>5 DEF AppStartsService
<1>6. CASE AppCrashes \/ AppExits BY <1>6 DEF AppCrashes, AppExits
<1>7. CASE AppHangs \/ AppRecovers BY <1>7 DEF AppHangs, AppRecovers
<1>8. CASE UserQuits \/ StopSent \/ StopGivenUp
  BY <1>8 DEF UserQuits, StopSent, StopGivenUp
<1>9. CASE ServiceStarts BY <1>9 DEF ServiceStarts, appVars
<1> QED BY <1>1, <1>2, <1>3, <1>4, <1>5, <1>6, <1>7, <1>8, <1>9 DEF App

LEMMA BarredByService ==
  ASSUME TypeInv, Barred,
         \/ Setup \/ Main \/ StopHandled \/ SessionEnds \/ ForceQuit \/ ForceQuitGoesOn
         \/ SvcKilled \/ Suspend \/ Resume
  PROVE  Barred'
<1> USE DEF TypeInv, TypeOK, Barred, appVars, svcVars, monVars, NothingUnderWay
<1>1. CASE SetupLaunches BY <1>1 DEF SetupLaunches, SetupDone
<1>2. CASE SetupFindsApp BY <1>2 DEF SetupFindsApp, SetupDone
<1>3. CASE MainWakes BY <1>3 DEF MainWakes
<1>4. CASE SvcGone BY <1>4 DEF SvcGone
<1>5. CASE StopHandled BY <1>5 DEF StopHandled, Exit
<1>6. CASE SessionEnds BY <1>6 DEF SessionEnds, Exit
<1>7. CASE ForceQuit BY <1>7 DEF ForceQuit
<1>8. CASE ForceQuitKills BY <1>8 DEF ForceQuitKills
<1>9. CASE ForceQuitExits BY <1>9 DEF ForceQuitExits, Exit
<1>10. CASE Suspend BY <1>10 DEF Suspend
<1>11. CASE Resume BY <1>11 DEF Resume
<1> QED
  BY <1>1, <1>2, <1>3, <1>4, <1>5, <1>6, <1>7, <1>8, <1>9, <1>10, <1>11
  DEF Setup, Main, MainLeaves, ForceQuitGoesOn, SvcKilled

LEMMA BarredByMonitor ==
  ASSUME TypeInv, Barred, Monitor \/ GraceExpires
  PROVE  Barred'
<1> USE DEF TypeInv, TypeOK, Fresh, Barred, appVars, svcVars
<1>1. CASE WakeToExit BY <1>1 DEF WakeToExit
<1>2. CASE WakeSuspended \/ WakeResumed BY <1>2 DEF WakeSuspended, WakeResumed
<1>3. CASE WakeToCheck BY <1>3 DEF WakeToCheck
<1>4. CASE ProbeOk BY <1>4 DEF ProbeOk
<1>5. CASE ProbeFails BY <1>5 DEF ProbeFails
<1>6. CASE CountFailure BY <1>6 DEF CountFailure
<1>7. CASE Kill BY <1>7 DEF Kill
<1>8. CASE Relaunch BY <1>8 DEF Relaunch
<1>9. CASE GiveUp BY <1>9 DEF GiveUp, Exit, NothingUnderWay
<1>10. CASE GraceExpires BY <1>10 DEF GraceExpires
<1> QED
  BY <1>1, <1>2, <1>3, <1>4, <1>5, <1>6, <1>7, <1>8, <1>9, <1>10 DEF Monitor

\* A service that was told to exit while nothing was being launched does not launch
\* the app any more, from whichever thread it was told and whatever the monitor does.
THEOREM QuitStaysFinal == Spec => []QuitIsFinal
<1>1. Init => Barred
  BY DEF Init, Barred
<1>2. TypeInv /\ Barred /\ [Next]_vars => Barred'
  <2> SUFFICES ASSUME TypeInv, Barred, [Next]_vars PROVE Barred'
    OBVIOUS
  <2>1. CASE UNCHANGED vars
    BY <2>1 DEF Barred, vars, appVars, svcVars, monVars
  <2> QED BY <2>1, BarredByApp, BarredByService, BarredByMonitor DEF Next
<1>3. Barred => QuitIsFinal
  BY DEF Barred, QuitIsFinal
<1> QED BY <1>1, <1>2, <1>3, TypeInvHolds, PTL DEF Spec
=============================================================================
