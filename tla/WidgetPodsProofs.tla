-------------------------- MODULE WidgetPodsProofs --------------------------
(***************************************************************************)
(* What holds of the widgets' windows for any number of widgets, labels,   *)
(* threads and destroyed windows under way.                                *)
(***************************************************************************)
EXTENDS WidgetPods, TLAPS

PodStatus == {"none", "Pending", "Mounting", "Ready", "Restarting", "CrashedOnCreation"}

\* A place before its handlers are known to be within the bound
Place == [pod : PodStatus, holds : BOOLEAN, window : {"none", "open", "dying"},
          page : {"none", "loading", "loaded"}, handlers : Nat, late : BOOLEAN]

\* An open window belongs to a pod,
Owned(p) == p.window = "open" => p.holds

\* and a pod that holds one has it or has a handler coming.
Sound(p) == /\ p \in Place /\ Owned(p)
            /\ p.holds => p.window = "open" \/ p.handlers > 0
            /\ p.pod = "none" => ~p.holds

Homed(ps, ws) == \A l \in Label : ps[l].pod # "none" => WidgetOf[l] \in ws

PlacesOK ==
  /\ place \in [Label -> Place] /\ Bounded(place)
  /\ \A l \in Label : Sound(place[l])
  /\ Homed(place, deployed)
-----------------------------------------------------------------------------
(* Operations on one place *)

LEMMA EmptyIsSound == Sound(Empty) /\ Empty.pod = "none" /\ Empty.handlers = 0
  BY DEF Sound, Owned, Empty, Place, PodStatus

\* Whatever is left of the window is dying, and the pod is gone.
LEMMA DropIsSound ==
  ASSUME NEW p \in Place, Owned(p)
  PROVE  /\ Sound(Drop(p)) /\ Drop(p).pod = "none" /\ Drop(p).window # "open"
         /\ Drop(p).handlers = p.handlers
<1> DEFINE q == Drop(p)
           left == IF p.holds /\ p.window = "open" THEN "dying" ELSE p.window
<1>1. /\ q.pod = "none" /\ q.holds = FALSE /\ q.late = FALSE
      /\ q.window = left /\ q.page = p.page /\ q.handlers = p.handlers
  BY DEF Drop, Place
<1>2. left \in {"none", "dying"}
  BY DEF Owned, Place
<1>3. q \in Place
  BY <1>1, <1>2 DEF Drop, Place, PodStatus
<1> QED BY <1>1, <1>2, <1>3 DEF Sound, Owned

LEMMA DestroyedIsSound ==
  ASSUME NEW p, Sound(p)
  PROVE  /\ Sound(Destroyed(p)) /\ Destroyed(p).pod = p.pod
         /\ Destroyed(p).holds = p.holds
         /\ Destroyed(p).window # "open" /\ Destroyed(p).handlers = p.handlers + 1
<1> DEFINE q == Destroyed(p)
<1>1. /\ q.window = "none" /\ q.page = "none" /\ q.handlers = p.handlers + 1
      /\ q.pod = p.pod /\ q.holds = p.holds /\ q.late = p.late
  BY DEF Destroyed, Place, Sound
<1>2. q \in Place
  <2>1. p \in Place
    BY DEF Sound
  <2>2. p.handlers + 1 \in Nat
    BY <2>1 DEF Place
  <2>3. "none" \in {"none", "open", "dying"} /\ "none" \in {"none", "loading", "loaded"}
    OBVIOUS
  <2> QED BY <2>1, <2>2, <2>3 DEF Destroyed, Place
<1>3. p.handlers \in Nat /\ (p.pod = "none" => ~p.holds)
  BY DEF Place, Sound
<1>4. q.handlers > 0
  BY <1>1, <1>3
<1> HIDE DEF q
<1>5. /\ Sound(q) /\ q.pod = p.pod /\ q.holds = p.holds
      /\ q.window # "open" /\ q.handlers = p.handlers + 1
  BY <1>1, <1>2, <1>3, <1>4 DEF Sound, Owned
<1> QED BY <1>5 DEF q

\* Only a place that has a pod is given a window, and no page is ready yet.
LEMMA RunIsSound ==
  ASSUME NEW p, Sound(p), NEW quick \in BOOLEAN
  PROVE  /\ Sound(Run(p, quick)) /\ (Run(p, quick).pod = "none" <=> p.pod = "none")
         /\ Ready(Run(p, quick)) => Ready(p)
<1>1. CASE p.pod # "Pending"
  BY <1>1 DEF Run
<1>2. CASE p.pod = "Pending" /\ (p.window = "none" \/ (p.window = "dying" /\ quick))
  <2> DEFINE free == IF p.window = "none" THEN p ELSE Destroyed(p)
             q == [free EXCEPT !.pod = "Mounting", !.holds = TRUE, !.window = "open",
                               !.page = "loading"]
  <2>1. free \in Place
    BY DestroyedIsSound DEF Sound
  <2>2. q \in Place /\ q.pod = "Mounting" /\ q.holds = TRUE /\ q.window = "open"
    BY <2>1 DEF Place, PodStatus
  <2>3. Run(p, quick) = q
    BY <1>2 DEF Run
  <2> HIDE DEF q
  <2> QED BY <1>2, <2>2, <2>3 DEF Sound, Owned, Ready
<1>3. CASE p.pod = "Pending" /\ ~(p.window = "none" \/ (p.window = "dying" /\ quick))
  <2> DEFINE q == [p EXCEPT !.pod = "CrashedOnCreation"]
  <2>1. /\ q \in Place /\ q.pod = "CrashedOnCreation"
        /\ q.holds = p.holds /\ q.window = p.window /\ q.handlers = p.handlers
    BY DEF Place, PodStatus, Sound
  <2>2. Run(p, quick) = q
    BY <1>3 DEF Run
  <2> QED BY <1>3, <2>1, <2>2 DEF Sound, Owned, Ready
<1> QED BY <1>1, <1>2, <1>3

\* Reconciling opens no window.
LEMMA ReconciledIsSound ==
  ASSUME NEW l \in Label, NEW p, Sound(p)
  PROVE  /\ Sound(Reconciled(l, p))
         /\ Reconciled(l, p).window = "open" => p.window = "open"
         /\ Ready(Reconciled(l, p)) => Ready(p)
<1>1. CASE l \notin wanted
  BY <1>1, DropIsSound DEF Reconciled, Sound, Ready
<1>2. CASE l \in wanted /\ p.pod = "none"
  <2> DEFINE q == [p EXCEPT !.pod = "Pending"]
  <2>1. /\ q \in Place /\ q.pod = "Pending"
        /\ q.holds = p.holds /\ q.window = p.window /\ q.handlers = p.handlers
    BY DEF Place, PodStatus, Sound
  <2>2. Reconciled(l, p) = q
    BY <1>2 DEF Reconciled
  <2> QED BY <2>1, <2>2 DEF Sound, Owned, Ready
<1>3. CASE l \in wanted /\ p.pod # "none"
  BY <1>3 DEF Reconciled
<1> QED BY <1>1, <1>2, <1>3

\* Reconciling and starting the deployments of ws: what is not deployed stays without
\* pods, and during a game no window is opened.
LEMMA RefreshedIsSound ==
  ASSUME NEW ws, NEW ps, \A l \in Label : Sound(ps[l]), Homed(ps, deployed),
         NEW quick \in BOOLEAN
  PROVE  LET qs == Refreshed(ws, ps, quick)
         IN  /\ qs \in [Label -> Place]
             /\ \A l \in Label : Sound(qs[l])
             /\ Homed(qs, deployed)
             /\ gameMode => \A l \in Label : qs[l].window = "open" => ps[l].window = "open"
             /\ \A l \in Label : Ready(qs[l]) => Ready(ps[l])
<1> DEFINE qs == Refreshed(ws, ps, quick)
<1>1. ASSUME NEW l \in Label
      PROVE  /\ Sound(qs[l])
             /\ qs[l].pod # "none" => WidgetOf[l] \in deployed
             /\ gameMode => (qs[l].window = "open" => ps[l].window = "open")
             /\ Ready(qs[l]) => Ready(ps[l])
  <2> DEFINE r == Reconciled(l, ps[l])
  <2>1. qs[l] = IF WidgetOf[l] \notin ws \cap deployed THEN ps[l]
                ELSE IF Starts(WidgetOf[l]) THEN Run(r, quick) ELSE r
    BY DEF Refreshed
  <2>2. /\ Sound(r) /\ (r.window = "open" => ps[l].window = "open")
        /\ Ready(r) => Ready(ps[l])
    BY ReconciledIsSound
  <2>3. Sound(Run(r, quick)) /\ (Ready(Run(r, quick)) => Ready(r))
    BY <2>2, RunIsSound
  <2>4. gameMode => ~Starts(WidgetOf[l])
    BY DEF Starts
  <2> HIDE DEF r, qs
  <2> QED BY <2>1, <2>2, <2>3, <2>4 DEF Homed
<1>2. qs \in [Label -> Place]
  BY <1>1 DEF Refreshed, Sound
<1> QED BY <1>1, <1>2 DEF Homed

LEMMA RefreshKeepsPlaces ==
  ASSUME NEW ws, NEW ps, \A l \in Label : Sound(ps[l]), Homed(ps, deployed),
         Refresh(ws, ps), deployed' = deployed
  PROVE  /\ PlacesOK'
         /\ gameMode => \A l \in Label : place'[l].window = "open" => ps[l].window = "open"
         /\ \A l \in Label : Ready(place'[l]) => Ready(ps[l])
<1>1. PICK quick \in BOOLEAN :
        Bounded(Refreshed(ws, ps, quick)) /\ place' = Refreshed(ws, ps, quick)
  BY DEF Refresh
<1> DEFINE qs == Refreshed(ws, ps, quick)
<1>2. /\ qs \in [Label -> Place]
      /\ \A l \in Label : Sound(qs[l])
      /\ Homed(qs, deployed)
      /\ gameMode => \A l \in Label : qs[l].window = "open" => ps[l].window = "open"
      /\ \A l \in Label : Ready(qs[l]) => Ready(ps[l])
  BY RefreshedIsSound
<1> HIDE DEF qs
<1>3. place' = qs /\ Bounded(qs)
  BY <1>1 DEF qs
<1> QED BY <1>2, <1>3 DEF PlacesOK, Homed, Bounded

\* The deployment of w goes, with its pods.
LEMMA WithoutKeepsPlaces ==
  ASSUME PlacesOK, NEW w, place' = Without(w), deployed \subseteq deployed' \cup {w}
  PROVE  /\ PlacesOK'
         /\ \A l \in Label : place'[l].window = "open" => place[l].window = "open"
         /\ \A l \in Label : Ready(place'[l]) => Ready(place[l])
<1>1. ASSUME NEW l \in Label
      PROVE  /\ Sound(place'[l]) /\ place'[l].handlers <= MaxHandlers
             /\ place'[l].pod # "none" => WidgetOf[l] \in deployed'
             /\ place'[l].window = "open" => place[l].window = "open"
             /\ Ready(place'[l]) => Ready(place[l])
  <2>1. Sound(place[l]) /\ place[l].handlers <= MaxHandlers
    BY DEF PlacesOK, Bounded
  <2>2. CASE WidgetOf[l] = w
    <3>1. place'[l] = Drop(place[l])
      BY <2>2 DEF Without
    <3> QED BY <2>1, <3>1, DropIsSound DEF Sound, Ready
  <2>3. CASE WidgetOf[l] # w
    <3>1. place'[l] = place[l]
      BY <2>3 DEF Without
    <3> QED BY <2>1, <2>3, <3>1 DEF PlacesOK, Homed
  <2> QED BY <2>2, <2>3
<1>2. place' \in [Label -> Place]
  BY <1>1 DEF Without, Sound
<1> QED BY <1>1, <1>2 DEF PlacesOK, Bounded, Homed

\* One place changes.
LEMMA OneKeepsPlaces ==
  ASSUME PlacesOK, NEW l \in Label, NEW q, Sound(q), q.handlers <= MaxHandlers,
         q.pod # "none" => WidgetOf[l] \in deployed,
         place' = [place EXCEPT ![l] = q], deployed' = deployed
  PROVE  PlacesOK'
  BY DEF PlacesOK, Bounded, Homed, Sound
-----------------------------------------------------------------------------
(* Every action keeps the places sound, opens no window during a game unless it *)
(* is asked to, and makes a page ready only while its report is on the way.     *)

AsksOK ==
  /\ report \in [Label -> {"no", "status", "take"}]
  /\ \/ trigger = NoTrigger
     \/ trigger \in [pc : {"keep", "start"}, label : Label]

OpensIfAsked ==
  gameMode => \A l \in Label :
                place'[l].window = "open" => place[l].window = "open" \/ l \in asked'

ReadyIfReported ==
  \A l \in Label : Ready(place'[l]) => Ready(place[l]) \/ report'[l] # "no"

PlacesStep == PlacesOK' /\ OpensIfAsked /\ ReadyIfReported

LEMMA SameKeepsPlaces ==
  ASSUME PlacesOK, UNCHANGED <<place, deployed>>
  PROVE  PlacesStep
  BY DEF PlacesStep, PlacesOK, Bounded, Homed, OpensIfAsked, ReadyIfReported

LEMMA OneKeepsStep ==
  ASSUME PlacesOK, NEW l \in Label, NEW q, Sound(q), q.handlers <= MaxHandlers,
         q.pod # "none" => WidgetOf[l] \in deployed,
         place' = [place EXCEPT ![l] = q], deployed' = deployed,
         gameMode => (q.window = "open" => place[l].window = "open" \/ l \in asked'),
         Ready(q) => Ready(place[l]) \/ report'[l] # "no"
  PROVE  PlacesStep
<1>1. PlacesOK'
  BY OneKeepsPlaces
<1>2. ASSUME NEW k \in Label
      PROVE  place'[k] = IF k = l THEN q ELSE place[k]
  BY DEF PlacesOK
<1> QED BY <1>1, <1>2 DEF PlacesStep, OpensIfAsked, ReadyIfReported

LEMMA RefreshKeepsStep ==
  ASSUME PlacesOK, NEW ws, Refresh(ws, place), deployed' = deployed
  PROVE  PlacesStep
  BY RefreshKeepsPlaces DEF PlacesStep, PlacesOK, OpensIfAsked, ReadyIfReported

LEMMA WithoutKeepsStep ==
  ASSUME PlacesOK, NEW w, place' = Without(w), deployed \subseteq deployed' \cup {w}
  PROVE  PlacesStep
  BY WithoutKeepsPlaces DEF PlacesStep, OpensIfAsked, ReadyIfReported

LEMMA WindowsKeepPlaces ==
  ASSUME PlacesOK, NEW l \in Label, Windows(l)
  PROVE  PlacesStep
<1>0. Sound(place[l]) /\ place[l].handlers \in Nat /\ place[l].handlers <= MaxHandlers
      /\ MaxHandlers \in Nat
      /\ (place[l].pod # "none" => WidgetOf[l] \in deployed)
  BY PodsAssumption DEF PlacesOK, Bounded, Homed, Sound, Place
<1>1. CASE UiDestroys(l) \/ WindowCloses(l)
  <2>1. /\ place' = [place EXCEPT ![l] = Destroyed(place[l])] /\ deployed' = deployed
        /\ place[l].handlers < MaxHandlers
    BY <1>1 DEF UiDestroys, WindowCloses
  <2> DEFINE q == Destroyed(place[l])
  <2>2. /\ Sound(q) /\ q.pod = place[l].pod /\ q.holds = place[l].holds
        /\ q.window # "open" /\ q.handlers = place[l].handlers + 1
    BY <1>0, DestroyedIsSound
  <2>3. q.handlers <= MaxHandlers
    BY <1>0, <2>1, <2>2
  <2> HIDE DEF q
  <2>4. place' = [place EXCEPT ![l] = q]
    BY <2>1 DEF q
  <2>5. Ready(q) => Ready(place[l])
    BY <2>2 DEF Ready
  <2> QED BY <1>0, <2>1, <2>2, <2>3, <2>4, <2>5, OneKeepsStep
<1>2. CASE HandleDestroyed(l)
  <2> DEFINE p    == [place[l] EXCEPT !.handlers = place[l].handlers - 1]
             here == IF WidgetOf[l] \in deployed THEN Drop(p) ELSE p
             ps   == [place EXCEPT ![l] = here]
  <2>1. place[l].handlers > 0 /\ Refresh({WidgetOf[l]}, ps) /\ deployed' = deployed
    BY <1>2 DEF HandleDestroyed
  <2>2. place[l].handlers - 1 \in Nat
    BY <1>0, <2>1
  <2>3. /\ p \in Place /\ p.pod = place[l].pod /\ p.holds = place[l].holds
        /\ p.window = place[l].window
    BY <1>0, <2>2 DEF Sound, Place
  <2>4. Owned(p)
    BY <1>0, <2>3 DEF Sound, Owned
  <2> HIDE DEF p
  <2>5. /\ Sound(here) /\ (here.pod # "none" => WidgetOf[l] \in deployed)
        /\ here.window = "open" => place[l].window = "open"
        /\ Ready(here) => Ready(place[l])
    <3>1. CASE WidgetOf[l] \in deployed
      BY <2>3, <2>4, <3>1, DropIsSound DEF Ready
    <3>2. CASE WidgetOf[l] \notin deployed
      <4>1. p.pod = "none" /\ ~p.holds
        BY <1>0, <2>3, <3>2 DEF Sound
      <4> QED BY <2>3, <2>4, <3>2, <4>1 DEF Sound, Ready
    <3> QED BY <3>1, <3>2
  <2> HIDE DEF here
  <2>6. ASSUME NEW k \in Label
        PROVE  ps[k] = IF k = l THEN here ELSE place[k]
    BY DEF PlacesOK
  <2> HIDE DEF ps
  <2>7. (\A k \in Label : Sound(ps[k])) /\ Homed(ps, deployed)
    BY <2>5, <2>6 DEF PlacesOK, Homed
  <2>8. /\ PlacesOK'
        /\ gameMode => \A k \in Label : place'[k].window = "open" => ps[k].window = "open"
        /\ \A k \in Label : Ready(place'[k]) => Ready(ps[k])
    BY <2>1, <2>7, RefreshKeepsPlaces
  <2>9. ASSUME NEW k \in Label
        PROVE  /\ ps[k].window = "open" => place[k].window = "open"
               /\ Ready(ps[k]) => Ready(place[k])
    BY <2>5, <2>6
  <2> QED BY <2>8, <2>9 DEF PlacesStep, OpensIfAsked, ReadyIfReported
<1>3. CASE SoftRestart(l)
  <2> DEFINE seen == IF place[l].window = "open" THEN "loading" ELSE place[l].page
             q == [place[l] EXCEPT !.pod = "Restarting", !.page = seen]
  <2>1. /\ place[l].holds /\ WidgetOf[l] \in deployed /\ deployed' = deployed
        /\ place' = [place EXCEPT ![l] = q]
    BY <1>3 DEF SoftRestart, PlacesOK
  <2>2. seen \in {"none", "loading", "loaded"}
    BY <1>0 DEF Sound, Place
  <2> HIDE DEF seen
  <2>3. /\ q \in Place /\ q.pod = "Restarting" /\ q.holds = place[l].holds
        /\ q.window = place[l].window /\ q.handlers = place[l].handlers
    BY <1>0, <2>2 DEF Sound, Place, PodStatus
  <2> HIDE DEF q
  <2>4. Sound(q) /\ ~Ready(q)
    BY <1>0, <2>3 DEF Sound, Owned, Ready
  <2> QED BY <1>0, <2>1, <2>3, <2>4, OneKeepsStep
<1> QED BY <1>1, <1>2, <1>3 DEF Windows

LEMMA PagesKeepPlaces ==
  ASSUME PlacesOK, AsksOK, NEW l \in Label, Pages(l)
  PROVE  PlacesStep
<1>0. Sound(place[l]) /\ place[l].handlers <= MaxHandlers
      /\ (place[l].pod # "none" => WidgetOf[l] \in deployed)
  BY DEF PlacesOK, Bounded, Homed
<1>1. CASE PageLoads(l)
  <2> DEFINE q == [place[l] EXCEPT !.page = "loaded"]
  <2>1. place' = [place EXCEPT ![l] = q] /\ deployed' = deployed
    BY <1>1 DEF PageLoads
  <2>2. /\ q \in Place /\ q.pod = place[l].pod /\ q.holds = place[l].holds
        /\ q.window = place[l].window /\ q.handlers = place[l].handlers
    BY <1>0 DEF Sound, Place
  <2> HIDE DEF q
  <2>3. Sound(q) /\ (Ready(q) => Ready(place[l]))
    BY <1>0, <2>2 DEF Sound, Owned, Ready
  <2> QED BY <1>0, <2>1, <2>2, <2>3, OneKeepsStep
<1>2. CASE ReportStatus(l)
  <2>1. report' = [report EXCEPT ![l] = "take"] /\ deployed' = deployed
    BY <1>2 DEF ReportStatus
  <2>2. report'[l] = "take"
    BY <2>1 DEF AsksOK
  <2>3. CASE WidgetOf[l] \in deployed /\ place[l].pod # "none"
    <3> DEFINE q == [place[l] EXCEPT !.pod = "Ready", !.late = ~place[l].holds]
    <3>1. place' = [place EXCEPT ![l] = q]
      BY <1>2, <2>3 DEF ReportStatus, PlacesOK
    <3>2. /\ q \in Place /\ q.pod = "Ready" /\ q.holds = place[l].holds
          /\ q.window = place[l].window /\ q.handlers = place[l].handlers
      BY <1>0 DEF Sound, Place, PodStatus
    <3> HIDE DEF q
    <3>3. Sound(q)
      BY <1>0, <3>2 DEF Sound, Owned
    <3> QED BY <1>0, <2>1, <2>2, <2>3, <3>1, <3>2, <3>3, OneKeepsStep
  <2>4. CASE ~(WidgetOf[l] \in deployed /\ place[l].pod # "none")
    BY <1>2, <2>4, SameKeepsPlaces DEF ReportStatus
  <2> QED BY <2>3, <2>4
<1>3. CASE ReportTake(l)
  BY <1>3, SameKeepsPlaces DEF ReportTake
<1> QED BY <1>1, <1>2, <1>3 DEF Pages

LEMMA ClearKeepsPlaces ==
  ASSUME PlacesOK, ClearPods
  PROVE  PlacesStep /\ \A l \in Label : place'[l].window # "open"
<1>1. deployed' = deployed /\ place' \in [Label -> Place]
      /\ \A l \in Label : /\ Sound(place'[l]) /\ place'[l].handlers <= MaxHandlers
                          /\ place'[l].pod = "none" /\ place'[l].window # "open"
                          /\ ~Ready(place'[l])
  <2>1. place' = [l \in Label |-> IF WidgetOf[l] \in deployed THEN Drop(place[l]) ELSE place[l]]
        /\ deployed' = deployed
    BY DEF ClearPods
  <2>2. ASSUME NEW l \in Label
        PROVE  /\ Sound(place'[l]) /\ place'[l].handlers <= MaxHandlers
               /\ place'[l].pod = "none" /\ place'[l].window # "open"
               /\ ~Ready(place'[l])
    <3>1. Sound(place[l]) /\ place[l].handlers <= MaxHandlers
          /\ (place[l].pod # "none" => WidgetOf[l] \in deployed)
      BY DEF PlacesOK, Bounded, Homed
    <3>2. CASE WidgetOf[l] \in deployed
      <4>1. place'[l] = Drop(place[l])
        BY <2>1, <3>2
      <4> QED BY <3>1, <4>1, DropIsSound DEF Sound, Ready
    <3>3. CASE WidgetOf[l] \notin deployed
      <4>1. place'[l] = place[l]
        BY <2>1, <3>3
      <4> QED BY <3>1, <3>3, <4>1 DEF Sound, Owned, Ready
    <3> QED BY <3>2, <3>3
  <2> QED BY <2>1, <2>2 DEF Sound
<1> QED BY <1>1 DEF PlacesStep, PlacesOK, Bounded, Homed, OpensIfAsked, ReadyIfReported

LEMMA TriggerKeepsPlaces ==
  ASSUME PlacesOK, AsksOK, TriggerStarts
  PROVE  PlacesStep
<1> DEFINE l == trigger.label
<1>1. l \in Label /\ deployed' = deployed /\ asked' = asked \cup {l}
  BY DEF AsksOK, TriggerStarts, NoTrigger
<1>2. PICK quick \in BOOLEAN :
        /\ Run(place[l], quick).handlers <= MaxHandlers
        /\ place' = IF WidgetOf[l] \in deployed
                    THEN [place EXCEPT ![l] = Run(place[l], quick)] ELSE place
  BY DEF TriggerStarts
<1> DEFINE q == Run(place[l], quick)
<1>3. CASE WidgetOf[l] \in deployed
  <2>1. Sound(q) /\ (Ready(q) => Ready(place[l]))
    BY <1>1, RunIsSound DEF PlacesOK
  <2>2. place' = [place EXCEPT ![l] = q] /\ q.handlers <= MaxHandlers
    BY <1>2, <1>3
  <2>3. l \in asked'
    BY <1>1
  <2> HIDE DEF q, l
  <2> QED BY <1>1, <1>3, <2>1, <2>2, <2>3, OneKeepsStep
<1>4. CASE WidgetOf[l] \notin deployed
  BY <1>1, <1>2, <1>4, SameKeepsPlaces
<1> QED BY <1>3, <1>4

LEMMA ReconcileKeepsPlaces ==
  ASSUME PlacesOK, NEW t \in Thread, Reconcile(t)
  PROVE  PlacesStep
<1>1. CASE Load(t) \/ SpawnJob(t)
  BY <1>1, SameKeepsPlaces DEF Load, SpawnJob
<1>2. CASE Upsert(t)
  <2>1. place' = Without(call[t].widget) /\ deployed' = deployed \cup {call[t].widget}
    BY <1>2 DEF Upsert
  <2> QED BY <2>1, WithoutKeepsStep
<1>3. CASE JobRest(t)
  BY <1>3, RefreshKeepsStep DEF JobRest
<1>4. ASSUME NEW w \in Widget, RemoveDisabled(t, w)
      PROVE  PlacesStep
  <2>1. place' = Without(w) /\ deployed' = deployed \ {w}
    BY <1>4 DEF RemoveDisabled
  <2> QED BY <2>1, WithoutKeepsStep
<1>5. ASSUME NEW w \in Widget, FindDeployed(t, w)
      PROVE  PlacesStep
  BY <1>5, SameKeepsPlaces DEF FindDeployed
<1>6. ASSUME NEW w \in Widget, JobFirst(t, w)
      PROVE  PlacesStep
  BY <1>6, RefreshKeepsStep DEF JobFirst
<1> QED BY <1>1, <1>2, <1>3, <1>4, <1>5, <1>6 DEF Reconcile

LEMMA NextKeepsPlaces ==
  ASSUME PlacesOK, AsksOK, Next
  PROVE  PlacesStep
<1>1. ASSUME NEW t \in Caller, NEW w \in Widget, ChangeSettings(t, w)
      PROVE  PlacesStep
  BY <1>1, SameKeepsPlaces DEF ChangeSettings
<1>2. ASSUME NEW t \in Caller, NEW l \in Label, ChangeMonitors(t, l)
      PROVE  PlacesStep
  BY <1>2, SameKeepsPlaces DEF ChangeMonitors
<1>3. ASSUME NEW l \in Label, Trigger(l)
      PROVE  PlacesStep
  BY <1>3, SameKeepsPlaces DEF Trigger
<1>4. CASE TriggerKept
  BY <1>4, SameKeepsPlaces DEF TriggerKept
<1>5. CASE Game
  BY <1>5, SameKeepsPlaces, ClearKeepsPlaces DEF Game, Suspend, Resume
<1> QED BY <1>1, <1>2, <1>3, <1>4, <1>5, ReconcileKeepsPlaces, WindowsKeepPlaces,
           PagesKeepPlaces, TriggerKeepsPlaces DEF Next
-----------------------------------------------------------------------------
(* Windows and pods *)

LEMMA AsksAlways ==
  /\ Init => AsksOK
  /\ AsksOK /\ [Next]_vars => AsksOK'
<1>1. Init => AsksOK
  BY DEF Init, AsksOK, NoTrigger
<1>2. ASSUME AsksOK, [Next]_vars
      PROVE  AsksOK'
  <2> USE DEF AsksOK
  <2>1. ASSUME NEW l \in Label, Pages(l)
        PROVE  AsksOK'
    BY <1>2, <2>1 DEF Pages, PageLoads, ReportStatus, ReportTake
  <2>2. ASSUME NEW l \in Label, Trigger(l)
        PROVE  AsksOK'
    BY <1>2, <2>2 DEF Trigger
  <2>3. CASE TriggerKept
    <3>1. trigger \in [pc : {"keep", "start"}, label : Label]
      BY <1>2, <2>3 DEF TriggerKept, NoTrigger
    <3> QED BY <1>2, <2>3, <3>1 DEF TriggerKept
  <2>10. CASE TriggerStarts
    BY <1>2, <2>10 DEF TriggerStarts
  <2>4. CASE UNCHANGED <<report, trigger>>
    BY <1>2, <2>4
  <2>5. ASSUME NEW l \in Label, Windows(l)
        PROVE  UNCHANGED <<report, trigger>>
    BY <2>5 DEF Windows, UiDestroys, WindowCloses, HandleDestroyed, SoftRestart, askVars
  <2>6. ASSUME NEW t \in Thread, Reconcile(t)
        PROVE  UNCHANGED <<report, trigger>>
    BY <2>6 DEF Reconcile, Load, Upsert, SpawnJob, JobRest, RemoveDisabled, FindDeployed,
                JobFirst, askVars
  <2>7. ASSUME Game
        PROVE  UNCHANGED <<report, trigger>>
    BY <2>7 DEF Game, Suspend, ClearPods, Resume, askVars
  <2>8. ASSUME NEW t \in Caller,
               \/ \E w \in Widget : ChangeSettings(t, w)
               \/ \E l \in Label : ChangeMonitors(t, l)
        PROVE  UNCHANGED <<report, trigger>>
    BY <2>8 DEF ChangeSettings, ChangeMonitors, askVars
  <2>9. UNCHANGED vars => UNCHANGED <<report, trigger>>
    BY DEF vars, askVars
  <2> QED BY <1>2, <2>1, <2>2, <2>3, <2>4, <2>5, <2>6, <2>7, <2>8, <2>9,
             <2>10 DEF Next
<1> QED BY <1>1, <1>2

LEMMA PlacesAlways ==
  /\ Init => PlacesOK
  /\ PlacesOK /\ AsksOK /\ [Next]_vars => PlacesOK'
<1>1. Init => PlacesOK
  BY EmptyIsSound, PodsAssumption DEF Init, PlacesOK, Bounded, Homed, Sound
<1>2. ASSUME PlacesOK, AsksOK, Next
      PROVE  PlacesOK'
  BY <1>2, NextKeepsPlaces DEF PlacesStep
<1>3. ASSUME PlacesOK, UNCHANGED vars
      PROVE  PlacesOK'
  BY <1>3 DEF vars, PlacesOK, Bounded, Homed
<1> QED BY <1>1, <1>2, <1>3

\* However pods are replaced, removed, suspended and killed, and whenever the UI thread
\* destroys a window: an open window belongs to a pod, and a pod that holds a window
\* has it open or a handler of the destroyed window to come.
THEOREM WindowsHavePods == Spec => []PodsMatchWindows
<1>1. Init => PlacesOK /\ AsksOK
  BY PlacesAlways, AsksAlways
<1>2. PlacesOK /\ AsksOK /\ [Next]_vars => (PlacesOK /\ AsksOK)'
  BY PlacesAlways, AsksAlways
<1>3. PlacesOK => PodsMatchWindows
  BY DEF PlacesOK, PodsMatchWindows, Sound, Owned
<1> QED BY <1>1, <1>2, <1>3, PTL DEF Spec
-----------------------------------------------------------------------------
(* Game mode *)

GameOK ==
  /\ cleared => gameMode
  /\ power = "clear" => gameMode
  /\ NoWidgetOverGame

\* What an action leaves alone
LEMMA GameUnchanged ==
  ASSUME PlacesStep, GameOK, UNCHANGED <<cleared, gameMode, power>>, asked \subseteq asked'
  PROVE  GameOK'
  BY DEF PlacesStep, OpensIfAsked, GameOK, NoWidgetOverGame

LEMMA GameAlways ==
  /\ Init => GameOK
  /\ PlacesOK /\ AsksOK /\ GameOK /\ [Next]_vars => GameOK'
<1>1. Init => GameOK
  BY DEF Init, GameOK, NoWidgetOverGame
<1>2. ASSUME PlacesOK, AsksOK, GameOK, [Next]_vars
      PROVE  GameOK'
  <2>0. Next => PlacesStep
    BY <1>2, NextKeepsPlaces
  <2>1. CASE Suspend
    BY <1>2, <2>1 DEF Suspend, GameOK, NoWidgetOverGame
  <2>2. CASE ClearPods
    BY <1>2, <2>2, ClearKeepsPlaces DEF ClearPods, GameOK, NoWidgetOverGame
  <2>3. CASE Resume
    BY <2>3 DEF Resume, GameOK, NoWidgetOverGame
  <2>4. CASE UNCHANGED vars
    BY <1>2, <2>4 DEF vars, threadVars, GameOK, NoWidgetOverGame
  <2> DEFINE same == UNCHANGED <<cleared, gameMode, power>> /\ asked \subseteq asked'
  <2>5. ASSUME NEW l \in Label, Windows(l) \/ Pages(l) \/ Trigger(l)
        PROVE  same
    BY <2>5 DEF Windows, UiDestroys, WindowCloses, HandleDestroyed, SoftRestart, Pages,
                PageLoads, ReportStatus, ReportTake, Trigger, threadVars
  <2>6. ASSUME NEW t \in Thread, Reconcile(t)
        PROVE  same
    BY <2>6 DEF Reconcile, Load, Upsert, SpawnJob, JobRest, RemoveDisabled, FindDeployed,
                JobFirst
  <2>7. ASSUME NEW t \in Caller,
               \/ \E w \in Widget : ChangeSettings(t, w)
               \/ \E l \in Label : ChangeMonitors(t, l)
        PROVE  same
    BY <2>7 DEF ChangeSettings, ChangeMonitors
  <2>8. TriggerKept \/ TriggerStarts => same
    BY DEF TriggerKept, TriggerStarts, threadVars
  <2>9. Next => \/ Suspend \/ ClearPods \/ Resume \/ same
    BY <2>5, <2>6, <2>7, <2>8 DEF Next, Game
  <2> QED BY <1>2, <2>0, <2>1, <2>2, <2>3, <2>4, <2>9, GameUnchanged
<1> QED BY <1>1, <1>2

\* From the moment suspend_all has taken all pods away until the game is over, no
\* handler, job, change of settings or of monitors opens a window: only a trigger does.
THEOREM GamesStayClear == Spec => []NoWidgetOverGame
<1>1. Init => PlacesOK /\ AsksOK /\ GameOK
  BY PlacesAlways, AsksAlways, GameAlways
<1>2. PlacesOK /\ AsksOK /\ GameOK /\ [Next]_vars => (PlacesOK /\ AsksOK /\ GameOK)'
  BY PlacesAlways, AsksAlways, GameAlways
<1>3. GameOK => NoWidgetOverGame
  BY DEF GameOK
<1> QED BY <1>1, <1>2, <1>3, PTL DEF Spec
-----------------------------------------------------------------------------
(* Triggers *)

\* A page that is ready while its trigger is kept has a report to come that takes it.
Served == \A l \in pending : Ready(place[l]) => l \in missed \/ report[l] # "no"

LEMMA ServedUnchanged ==
  ASSUME PlacesStep, Served, pending \subseteq Label, UNCHANGED <<pending, missed>>,
         \A l \in Label : report'[l] # "no" \/ report'[l] = report[l]
  PROVE  Served' /\ pending' \subseteq Label
  BY DEF PlacesStep, ReadyIfReported, Served

LEMMA ServedAlways ==
  /\ Init => Served /\ pending \subseteq Label
  /\ PlacesOK /\ AsksOK /\ Served /\ pending \subseteq Label /\ [Next]_vars
     => Served' /\ pending' \subseteq Label
<1>1. Init => Served /\ pending \subseteq Label
  BY DEF Init, Served
<1>2. ASSUME PlacesOK, AsksOK, Served, pending \subseteq Label, [Next]_vars
      PROVE  Served' /\ pending' \subseteq Label
  <2>0. Next => PlacesStep
    BY <1>2, NextKeepsPlaces
  <2> DEFINE same == /\ UNCHANGED <<pending, missed>>
                     /\ \A l \in Label : report'[l] # "no" \/ report'[l] = report[l]
  <2>1. CASE TriggerKept
    <3>1. /\ trigger.label \in Label /\ place' = place /\ report' = report
          /\ pending' = pending \cup {trigger.label}
          /\ missed' = IF Ready(place[trigger.label]) /\ report[trigger.label] = "no"
                       THEN missed \cup {trigger.label} ELSE missed
      BY <1>2, <2>1 DEF TriggerKept, AsksOK, NoTrigger
    <3> QED BY <1>2, <3>1 DEF Served
  <2>2. ASSUME NEW l \in Label, ReportTake(l)
        PROVE  Served' /\ pending' \subseteq Label
    <3>1. /\ place' = place /\ report' = [report EXCEPT ![l] = "no"]
          /\ pending' = pending \ {l} /\ missed' = missed \ {l}
      BY <2>2 DEF ReportTake
    <3>2. ASSUME NEW k \in Label, k # l
          PROVE  report'[k] = report[k]
      BY <1>2, <3>1, <3>2 DEF AsksOK
    <3> QED BY <1>2, <3>1, <3>2 DEF Served
  <2>3. CASE UNCHANGED vars
    BY <1>2, <2>3 DEF vars, askVars, Served
  <2>4. ASSUME NEW l \in Label, Windows(l) \/ Trigger(l)
        PROVE  same
    BY <2>4 DEF Windows, UiDestroys, WindowCloses, HandleDestroyed, SoftRestart, Trigger,
                askVars
  <2>5. ASSUME NEW l \in Label, PageLoads(l) \/ ReportStatus(l)
        PROVE  same
    BY <1>2, <2>5 DEF PageLoads, ReportStatus, AsksOK
  <2>6. ASSUME NEW t \in Thread, Reconcile(t)
        PROVE  same
    BY <2>6 DEF Reconcile, Load, Upsert, SpawnJob, JobRest, RemoveDisabled, FindDeployed,
                JobFirst, askVars
  <2>7. ASSUME NEW t \in Caller,
               \/ \E w \in Widget : ChangeSettings(t, w)
               \/ \E l \in Label : ChangeMonitors(t, l)
        PROVE  same
    BY <2>7 DEF ChangeSettings, ChangeMonitors, askVars
  <2>8. Game \/ TriggerStarts => same
    BY DEF Game, Suspend, ClearPods, Resume, TriggerStarts, askVars
  <2>9. Next => same \/ TriggerKept \/ \E l \in Label : ReportTake(l)
    BY <2>4, <2>5, <2>6, <2>7, <2>8 DEF Next, Pages
  <2> HIDE DEF same
  <2>10. ASSUME same, Next
         PROVE  Served' /\ pending' \subseteq Label
    BY <1>2, <2>0, <2>10, ServedUnchanged DEF same
  <2> QED BY <1>2, <2>1, <2>2, <2>3, <2>9, <2>10
<1> QED BY <1>1, <1>2

\* A trigger kept for a widget whose page is ready is not forgotten once everything has
\* run, unless it was kept after the page had looked for it.
THEOREM TriggersReachPages == Spec => []TriggersServed
<1> DEFINE I == PlacesOK /\ AsksOK /\ Served /\ pending \subseteq Label
<1>1. Init => I
  BY PlacesAlways, AsksAlways, ServedAlways
<1>2. I /\ [Next]_vars => I'
  BY PlacesAlways, AsksAlways, ServedAlways
<1>3. I => TriggersServed
  BY DEF TriggersServed, Settled, Served
<1> HIDE DEF I
<1> QED BY <1>1, <1>2, <1>3, PTL DEF Spec
-----------------------------------------------------------------------------
(* What the settings ask for *)

CallRecord == [pc : {"idle", "load", "apply", "upsert"}, seen : SUBSET Widget,
               todo : SUBSET Widget, widget : Widget \cup {"none"}]

CallsOK ==
  /\ enabled \subseteq Widget
  /\ call \in [Thread -> CallRecord]
  /\ \A t \in Thread : call[t].pc = "upsert" => call[t].widget \in call[t].seen
  /\ job \in [Thread -> (SUBSET Widget) \cup {NoJob}]

\* A thread that is still to judge w by settings it has loaded or will load
Ahead(t, w) ==
  call[t].pc = "load" \/ w \in call[t].todo \/ (call[t].pc = "upsert" /\ call[t].widget = w)

Configured ==
  \A w \in Widget \ outdated :
    (w \in deployed <=> w \in enabled) \/ \E t \in Thread : Ahead(t, w)

\* A job that refreshes all deployments is running, or a call that will leave one.
Busy == \E t \in Thread : ~Free(t)

\* A pod that has been started has its window, or a page that reported late, or there
\* is a handler to come that starts it again.
Resolved(p) ==
  /\ p.pod \in {"Mounting", "Restarting"} => p.holds
  /\ p.pod = "Ready" => p.holds \/ p.late
  /\ p.pod = "CrashedOnCreation" => p.holds \/ p.window = "dying" \/ p.handlers > 0

\* There is a pod only in a wanted place, and it is started where it should be.
Filled(l, p) ==
  /\ l \notin wanted => p.pod = "none"
  /\ l \in wanted /\ WidgetOf[l] \in deployed /\ Starts(WidgetOf[l])
     => p.pod \notin {"none", "Pending"}

FilledAll == \A l \in Label : Filled(l, place[l])

ResolvedAll == \A l \in Label : Resolved(place[l])

\* How a thread gets on with its call
CallMoves(t) ==
  \/ call'[t].pc = "load" /\ UNCHANGED <<deployed, outdated>>
  \/ Load(t) /\ call'[t].pc = "apply" /\ call'[t].todo = Widget
  \/ \E w \in Widget :
       RemoveDisabled(t, w) /\ call'[t] = [call[t] EXCEPT !.todo = @ \ {w}]
  \/ \E w \in Widget :
       /\ FindDeployed(t, w)
       /\ call'[t] = [call[t] EXCEPT
                        !.todo = @ \ {w},
                        !.pc = IF w \in deployed THEN "apply" ELSE "upsert",
                        !.widget = IF w \in deployed THEN "none" ELSE w]
  \/ Upsert(t) /\ call'[t] = [call[t] EXCEPT !.pc = "apply", !.widget = "none"]
  \/ SpawnJob(t) /\ call'[t] = Resting

\* One thread gets on with its call, or no thread does.
LEMMA CallSteps ==
  ASSUME CallsOK, Next
  PROVE  \/ UNCHANGED <<call, enabled, deployed, outdated>>
         \/ \E t \in Thread :
              CallMoves(t) /\ \A u \in Thread : u # t => call'[u] = call[u]
<1> USE DEF CallsOK, CallRecord
<1>1. \A t \in Caller : t \in Thread
  BY DEF Thread
<1>2. "power" \in Thread
  BY DEF Thread
<1>3. ASSUME NEW t \in Thread, Begin(t)
      PROVE  call'[t].pc = "load" /\ \A u \in Thread : u # t => call'[u] = call[u]
  BY <1>3 DEF Begin, Resting
<1>4. ASSUME NEW t \in Caller, NEW w \in Widget, ChangeSettings(t, w)
      PROVE  Begin(t) /\ UNCHANGED <<deployed, outdated>>
  BY <1>4 DEF ChangeSettings
<1>5. ASSUME NEW t \in Caller, NEW l \in Label, ChangeMonitors(t, l)
      PROVE  Begin(t) /\ UNCHANGED <<deployed, outdated>>
  BY <1>5 DEF ChangeMonitors
<1>6. ASSUME Resume
      PROVE  Begin("power") /\ UNCHANGED <<deployed, outdated>>
  BY <1>6 DEF Resume
<1>7. ASSUME NEW t \in Thread, Load(t)
      PROVE  /\ \A u \in Thread : u # t => call'[u] = call[u]
             /\ call'[t].pc = "apply" /\ call'[t].todo = Widget
  BY <1>7 DEF Load
<1>8. ASSUME NEW t \in Thread, NEW w \in Widget, RemoveDisabled(t, w)
      PROVE  /\ \A u \in Thread : u # t => call'[u] = call[u]
             /\ call'[t] = [call[t] EXCEPT !.todo = @ \ {w}]
  BY <1>8 DEF RemoveDisabled
<1>9. ASSUME NEW t \in Thread, NEW w \in Widget, FindDeployed(t, w)
      PROVE  /\ \A u \in Thread : u # t => call'[u] = call[u]
             /\ call'[t] = [call[t] EXCEPT
                  !.todo = @ \ {w},
                  !.pc = IF w \in deployed THEN "apply" ELSE "upsert",
                  !.widget = IF w \in deployed THEN "none" ELSE w]
  BY <1>9 DEF FindDeployed
<1>10. ASSUME NEW t \in Thread, Upsert(t)
       PROVE  /\ \A u \in Thread : u # t => call'[u] = call[u]
              /\ call'[t] = [call[t] EXCEPT !.pc = "apply", !.widget = "none"]
  BY <1>10 DEF Upsert
<1>11. ASSUME NEW t \in Thread, SpawnJob(t)
       PROVE  /\ \A u \in Thread : u # t => call'[u] = call[u]
              /\ call'[t] = Resting
  BY <1>11 DEF SpawnJob
<1> DEFINE still == UNCHANGED <<call, enabled, deployed, outdated>>
<1>12. ASSUME NEW t \in Thread, JobRest(t) \/ \E w \in Widget : JobFirst(t, w)
       PROVE  still
  BY <1>12 DEF JobRest, JobFirst, settingVars
<1>13. ASSUME NEW l \in Label, Windows(l) \/ Pages(l) \/ Trigger(l)
       PROVE  still
  BY <1>13 DEF Windows, UiDestroys, WindowCloses, HandleDestroyed, SoftRestart, Pages,
               PageLoads, ReportStatus, ReportTake, Trigger, threadVars, settingVars
<1>14. Suspend \/ ClearPods \/ TriggerKept \/ TriggerStarts => still
  BY DEF Suspend, ClearPods, TriggerKept, TriggerStarts, threadVars, settingVars
<1> HIDE DEF still
<1>15. ASSUME NEW t \in Thread, Reconcile(t)
       PROVE  still \/ (CallMoves(t) /\ \A u \in Thread : u # t => call'[u] = call[u])
  <2>1. CASE Load(t) \/ Upsert(t) \/ SpawnJob(t)
    BY <1>7, <1>10, <1>11, <2>1 DEF CallMoves
  <2>2. CASE \E w \in Widget : RemoveDisabled(t, w) \/ FindDeployed(t, w)
    BY <1>8, <1>9, <2>2 DEF CallMoves
  <2> QED BY <1>12, <1>15, <2>1, <2>2 DEF Reconcile
<1>16. ASSUME NEW t \in Thread, Begin(t), UNCHANGED <<deployed, outdated>>
       PROVE  CallMoves(t) /\ \A u \in Thread : u # t => call'[u] = call[u]
  BY <1>3, <1>16 DEF CallMoves
<1>17. still \/ \E t \in Thread : /\ CallMoves(t)
                                  /\ \A u \in Thread : u # t => call'[u] = call[u]
  BY <1>1, <1>2, <1>4, <1>5, <1>6, <1>13, <1>14, <1>15, <1>16 DEF Next, Game
<1> QED BY <1>17 DEF still

LEMMA CallsAlways ==
  /\ Init => CallsOK
  /\ CallsOK /\ [Next]_vars => CallsOK'
<1>0. \A r \in {Resting, [Resting EXCEPT !.pc = "load"]} :
        r \in CallRecord /\ r.pc # "upsert"
  BY DEF Resting, CallRecord
<1>1. ASSUME Init PROVE CallsOK
  <2>1. call \in [Thread -> {Resting, [Resting EXCEPT !.pc = "load"]}]
    <3>1. PICK start \in Caller :
            call = [t \in Thread |->
                      IF t = start THEN [Resting EXCEPT !.pc = "load"] ELSE Resting]
      BY <1>1 DEF Init
    <3> QED BY <3>1
  <2>2. job \in [Thread -> (SUBSET Widget) \cup {NoJob}] /\ enabled \subseteq Widget
    BY <1>1 DEF Init
  <2> QED BY <1>0, <2>1, <2>2 DEF CallsOK
<1>2. ASSUME CallsOK, Next
      PROVE  CallsOK'
  <2>0. \A t \in Caller : t \in Thread
    BY DEF Thread
  <2>1. ASSUME NEW t \in Thread,
               NEW c \in CallRecord, c.pc = "upsert" => c.widget \in c.seen,
               call' = [call EXCEPT ![t] = c], enabled' \subseteq Widget,
               job' = job \/ job' = [job EXCEPT ![t] = Priority]
        PROVE  CallsOK'
    BY <1>2, <2>1, PodsAssumption DEF CallsOK
  <2>2. ASSUME NEW t \in Thread, Begin(t), job' = job, enabled' \subseteq Widget
        PROVE  CallsOK'
    BY <1>0, <2>1, <2>2 DEF Begin
  <2>3. ASSUME NEW t \in Thread, Load(t) PROVE CallsOK'
    <3> DEFINE c == [pc |-> "apply", seen |-> enabled, todo |-> Widget, widget |-> "none"]
    <3>1. c \in CallRecord
      BY <1>2 DEF CallsOK, CallRecord
    <3> QED BY <1>2, <2>1, <2>3, <3>1 DEF Load, settingVars, CallsOK
  <2>4. ASSUME NEW t \in Thread, NEW w \in Widget, RemoveDisabled(t, w) PROVE CallsOK'
    <3> DEFINE c == [call[t] EXCEPT !.todo = @ \ {w}]
    <3>1. c \in CallRecord /\ c.pc = "apply"
      BY <1>2, <2>4 DEF RemoveDisabled, CallsOK, CallRecord
    <3>2. call' = [call EXCEPT ![t] = c] /\ job' = job /\ enabled' \subseteq Widget
      BY <1>2, <2>4 DEF RemoveDisabled, CallsOK, CallRecord, settingVars
    <3> QED BY <2>1, <3>1, <3>2
  <2>5. ASSUME NEW t \in Thread, NEW w \in Widget, FindDeployed(t, w) PROVE CallsOK'
    <3> DEFINE c == [call[t] EXCEPT !.todo = @ \ {w},
                                    !.pc = IF w \in deployed THEN "apply" ELSE "upsert",
                                    !.widget = IF w \in deployed THEN "none" ELSE w]
    <3>1. c \in CallRecord /\ (c.pc = "upsert" => c.widget \in c.seen)
      BY <1>2, <2>5 DEF FindDeployed, CallsOK, CallRecord
    <3>2. call' = [call EXCEPT ![t] = c] /\ job' = job /\ enabled' \subseteq Widget
      BY <1>2, <2>5 DEF FindDeployed, CallsOK, CallRecord, settingVars
    <3> QED BY <2>1, <3>1, <3>2
  <2>6. ASSUME NEW t \in Thread, Upsert(t) PROVE CallsOK'
    <3> DEFINE c == [call[t] EXCEPT !.pc = "apply", !.widget = "none"]
    <3>1. c \in CallRecord /\ c.pc = "apply"
      BY <1>2, <2>6 DEF Upsert, CallsOK, CallRecord
    <3>2. call' = [call EXCEPT ![t] = c] /\ job' = job /\ enabled' \subseteq Widget
      BY <1>2, <2>6 DEF Upsert, CallsOK, CallRecord, settingVars
    <3> QED BY <2>1, <3>1, <3>2
  <2>7. ASSUME NEW t \in Thread, SpawnJob(t) PROVE CallsOK'
    BY <1>0, <1>2, <2>1, <2>7 DEF SpawnJob, settingVars, CallsOK
  <2>8. ASSUME NEW t \in Thread, NEW j \in (SUBSET Widget) \cup {NoJob},
               job' = [job EXCEPT ![t] = j], UNCHANGED <<call, enabled>>
        PROVE  CallsOK'
    BY <1>2, <2>8 DEF CallsOK
  <2>9. ASSUME NEW t \in Thread, NEW w \in Widget, JobFirst(t, w) PROVE CallsOK'
    <3>1. job[t] \ {w} \in (SUBSET Widget) \cup {NoJob}
      BY <1>2, <2>9, PodsAssumption DEF JobFirst, CallsOK, NoJob
    <3> QED BY <1>2, <2>8, <2>9, <3>1 DEF JobFirst, settingVars
  <2>10. ASSUME NEW t \in Thread, JobRest(t) PROVE CallsOK'
    <3>1. job' = [job EXCEPT ![t] = NoJob] /\ UNCHANGED <<call, enabled>>
      BY <2>10 DEF JobRest, settingVars
    <3>2. NoJob \in (SUBSET Widget) \cup {NoJob}
      OBVIOUS
    <3> QED BY <2>8, <3>1, <3>2
  <2> DEFINE same == UNCHANGED <<call, job, enabled>>
  <2>11. same => CallsOK'
    BY <1>2 DEF CallsOK
  <2>12. ASSUME NEW l \in Label, Windows(l) \/ Pages(l) \/ Trigger(l)
         PROVE  same
    BY <2>12 DEF Windows, UiDestroys, WindowCloses, HandleDestroyed, SoftRestart, Pages,
                 PageLoads, ReportStatus, ReportTake, Trigger, threadVars, settingVars
  <2>13. Suspend \/ ClearPods \/ TriggerKept \/ TriggerStarts => same
    BY DEF Suspend, ClearPods, TriggerKept, TriggerStarts, threadVars, settingVars
  <2>14. ASSUME NEW t \in Caller,
                \/ \E w \in Widget : ChangeSettings(t, w)
                \/ \E l \in Label : ChangeMonitors(t, l)
         PROVE  Begin(t) /\ job' = job /\ enabled' \subseteq Widget
    BY <1>2, <2>14 DEF ChangeSettings, ChangeMonitors, CallsOK
  <2>15. Resume => Begin("power") /\ job' = job /\ enabled' \subseteq Widget
    BY <1>2 DEF Resume, settingVars, CallsOK
  <2>16. "power" \in Thread
    BY DEF Thread
  <2> HIDE DEF same
  <2>17. ASSUME NEW t \in Thread, Reconcile(t) PROVE CallsOK'
    BY <2>3, <2>4, <2>5, <2>6, <2>7, <2>9, <2>10, <2>17 DEF Reconcile
  <2> QED BY <1>2, <2>0, <2>2, <2>11, <2>12, <2>13, <2>14, <2>15, <2>16, <2>17
          DEF Next, Game
<1>3. ASSUME CallsOK, UNCHANGED vars
      PROVE  CallsOK'
  BY <1>3 DEF CallsOK, vars, threadVars, settingVars
<1> QED BY <1>1, <1>2, <1>3

\* A call judges every widget by the settings it has loaded: what it leaves different
\* from the settings there are is outdated.
LEMMA ConfiguredKept ==
  ASSUME CallsOK, Configured, Next
  PROVE  Configured'
<1> SUFFICES ASSUME NEW w \in Widget, w \notin outdated'
             PROVE  \/ (w \in deployed' <=> w \in enabled')
                    \/ \E t \in Thread : Ahead(t, w)'
  BY DEF Configured
<1>1. \A t \in Caller : t \in Thread
  BY DEF Thread
<1>2. CASE UNCHANGED <<call, enabled, deployed, outdated>>
  BY <1>2 DEF Configured, Ahead
<1>3. ASSUME NEW t \in Thread, CallMoves(t),
             \A u \in Thread : u # t => call'[u] = call[u]
      PROVE  \/ (w \in deployed' <=> w \in enabled')
             \/ \E u \in Thread : Ahead(u, w)'
  <2>0. \A u \in Thread : u # t => (Ahead(u, w)' <=> Ahead(u, w))
    BY <1>3 DEF Ahead
  <2>t. call[t] \in [pc : {"idle", "load", "apply", "upsert"}, seen : SUBSET Widget,
                     todo : SUBSET Widget, widget : Widget \cup {"none"}]
    BY DEF CallsOK, CallRecord
  <2>1. CASE call'[t].pc = "load"
    BY <2>1 DEF Ahead
  <2>2. CASE call'[t].todo = Widget
    BY <2>2 DEF Ahead
  <2>3. ASSUME NEW v \in Widget, RemoveDisabled(t, v),
               call'[t] = [call[t] EXCEPT !.todo = @ \ {v}]
        PROVE  \/ (w \in deployed' <=> w \in enabled')
               \/ \E u \in Thread : Ahead(u, w)'
    <3>1. /\ deployed' = deployed \ {v} /\ enabled' = enabled
          /\ v \notin call[t].seen /\ call[t].pc = "apply"
          /\ outdated' = IF (v \in call[t].seen) = (v \in enabled) THEN outdated \ {v}
                         ELSE outdated \cup {v}
      BY <2>3 DEF RemoveDisabled, Judged, settingVars
    <3>2. CASE w = v
      BY <3>1, <3>2
    <3>3. CASE w # v
      <4>1. Ahead(t, w) => Ahead(t, w)'
        BY <2>t, <2>3, <3>1, <3>3 DEF Ahead
      <4> QED BY <2>0, <3>1, <3>3, <4>1 DEF Configured
    <3> QED BY <3>2, <3>3
  <2>4. ASSUME NEW v \in Widget, FindDeployed(t, v),
               call'[t] = [call[t] EXCEPT
                             !.todo = @ \ {v},
                             !.pc = IF v \in deployed THEN "apply" ELSE "upsert",
                             !.widget = IF v \in deployed THEN "none" ELSE v]
        PROVE  \/ (w \in deployed' <=> w \in enabled')
               \/ \E u \in Thread : Ahead(u, w)'
    <3>1. /\ deployed' = deployed /\ enabled' = enabled
          /\ v \in call[t].seen /\ call[t].pc = "apply"
          /\ outdated' = IF (v \in call[t].seen) = (v \in enabled) THEN outdated \ {v}
                         ELSE outdated \cup {v}
      BY <2>4 DEF FindDeployed, Judged, settingVars
    <3>2. CASE w = v /\ w \in deployed
      BY <3>1, <3>2
    <3>3. CASE w = v /\ w \notin deployed
      <4>1. call'[t].pc = "upsert" /\ call'[t].widget = w
        BY <2>t, <2>4, <3>3
      <4> QED BY <4>1 DEF Ahead
    <3>4. CASE w # v
      <4>1. Ahead(t, w) => Ahead(t, w)'
        BY <2>t, <2>4, <3>1, <3>4 DEF Ahead
      <4> QED BY <2>0, <3>1, <3>4, <4>1 DEF Configured
    <3> QED BY <3>2, <3>3, <3>4
  <2>5. ASSUME Upsert(t), call'[t] = [call[t] EXCEPT !.pc = "apply", !.widget = "none"]
        PROVE  \/ (w \in deployed' <=> w \in enabled')
               \/ \E u \in Thread : Ahead(u, w)'
    <3> DEFINE v == call[t].widget
    <3>1. /\ deployed' = deployed \cup {v} /\ enabled' = enabled
          /\ v \in call[t].seen /\ call[t].pc = "upsert"
          /\ outdated' = IF (v \in call[t].seen) = (v \in enabled) THEN outdated \ {v}
                         ELSE outdated \cup {v}
      BY <2>5 DEF Upsert, Judged, settingVars, CallsOK
    <3>2. CASE w = v
      BY <3>1, <3>2
    <3>3. CASE w # v
      <4>1. Ahead(t, w) => Ahead(t, w)'
        BY <2>t, <2>5, <3>1, <3>3 DEF Ahead
      <4> QED BY <2>0, <3>1, <3>3, <4>1 DEF Configured
    <3> QED BY <3>2, <3>3
  <2>6. ASSUME SpawnJob(t)
        PROVE  \/ (w \in deployed' <=> w \in enabled')
               \/ \E u \in Thread : Ahead(u, w)'
    <3>1. ~Ahead(t, w) /\ UNCHANGED <<enabled, deployed, outdated>>
      BY <2>6 DEF SpawnJob, Ahead, settingVars
    <3> QED BY <2>0, <3>1 DEF Configured
  <2> QED BY <1>3, <2>1, <2>2, <2>3, <2>4, <2>5, <2>6 DEF CallMoves
<1> QED BY <1>2, <1>3, CallSteps

\* Running a pod leaves none that waits, and one that was refused has a window to come.
LEMMA RunResolves ==
  ASSUME NEW p, Sound(p), Resolved(p), NEW quick \in BOOLEAN
  PROVE  /\ Resolved(Run(p, quick)) /\ Run(p, quick).pod # "Pending"
         /\ Run(p, quick).pod = "none" <=> p.pod = "none"
<1> DEFINE q == Run(p, quick)
<1>1. CASE p.pod # "Pending"
  BY <1>1 DEF Run
<1>2. CASE p.pod = "Pending" /\ (p.window = "none" \/ (p.window = "dying" /\ quick))
  <2> DEFINE free == IF p.window = "none" THEN p ELSE Destroyed(p)
             o == [free EXCEPT !.pod = "Mounting", !.holds = TRUE, !.window = "open",
                               !.page = "loading"]
  <2>1. free \in Place
    BY DestroyedIsSound DEF Sound
  <2>2. o.pod = "Mounting" /\ o.holds = TRUE
    BY <2>1 DEF Place
  <2>3. q = o
    BY <1>2 DEF Run
  <2> HIDE DEF o
  <2> QED BY <1>2, <2>2, <2>3 DEF Resolved
<1>3. CASE p.pod = "Pending" /\ ~(p.window = "none" \/ (p.window = "dying" /\ quick))
  <2> DEFINE o == [p EXCEPT !.pod = "CrashedOnCreation"]
  <2>1. o.pod = "CrashedOnCreation" /\ o.holds = p.holds /\ o.window = p.window
    BY DEF Place, Sound
  <2>2. p.window = "dying" \/ p.holds
    BY <1>3 DEF Place, Sound, Owned
  <2>3. q = o
    BY <1>3 DEF Run
  <2> HIDE DEF o
  <2> QED BY <1>3, <2>1, <2>2, <2>3 DEF Resolved
<1> QED BY <1>1, <1>2, <1>3

LEMMA ReconciledResolves ==
  ASSUME NEW l \in Label, NEW p, Sound(p), Resolved(p)
  PROVE  /\ Sound(Reconciled(l, p)) /\ Resolved(Reconciled(l, p))
         /\ l \notin wanted => Reconciled(l, p).pod = "none"
         /\ l \in wanted => Reconciled(l, p).pod # "none"
<1>0. Sound(Reconciled(l, p))
  BY ReconciledIsSound
<1>1. CASE l \notin wanted
  BY <1>0, <1>1, DropIsSound DEF Reconciled, Sound, Resolved
<1>2. CASE l \in wanted /\ p.pod = "none"
  <2> DEFINE q == [p EXCEPT !.pod = "Pending"]
  <2>1. q.pod = "Pending"
    BY DEF Place, Sound
  <2>2. Reconciled(l, p) = q
    BY <1>2 DEF Reconciled
  <2> HIDE DEF q
  <2> QED BY <1>0, <1>2, <2>1, <2>2 DEF Resolved
<1>3. CASE l \in wanted /\ p.pod # "none"
  BY <1>0, <1>3 DEF Reconciled
<1> QED BY <1>1, <1>2, <1>3

\* What is refreshed is filled, what was filled stays so.
LEMMA RefreshFills ==
  ASSUME NEW ws, NEW ps, \A l \in Label : Sound(ps[l]) /\ Resolved(ps[l]),
         Homed(ps, deployed), Refresh(ws, ps),
         UNCHANGED <<settingVars, deployed, gameMode>>,
         NEW l \in Label
  PROVE  /\ Resolved(place[l])'
         /\ WidgetOf[l] \in ws \/ Filled(l, ps[l]) => Filled(l, place[l])'
<1>1. PICK quick \in BOOLEAN : place' = Refreshed(ws, ps, quick)
  BY DEF Refresh
<1> DEFINE q == place'[l]
           r == Reconciled(l, ps[l])
           w == WidgetOf[l]
<1>2. q = IF w \notin ws \cap deployed THEN ps[l]
          ELSE IF Starts(w) THEN Run(r, quick) ELSE r
  BY <1>1 DEF Refreshed
<1>3. /\ Sound(r) /\ Resolved(r)
      /\ l \notin wanted => r.pod = "none"
      /\ l \in wanted => r.pod # "none"
  BY ReconciledResolves
<1>4. /\ Resolved(Run(r, quick)) /\ Run(r, quick).pod # "Pending"
      /\ Run(r, quick).pod = "none" <=> r.pod = "none"
  BY <1>3, RunResolves
<1>5. w \notin deployed => ps[l].pod = "none"
  BY DEF Homed
<1>6. Starts(w)' <=> Starts(w)
  BY DEF Starts, settingVars
<1>7. Filled(l, place[l])' <=>
        /\ l \notin wanted => q.pod = "none"
        /\ l \in wanted /\ w \in deployed /\ Starts(w) => q.pod \notin {"none", "Pending"}
  BY <1>6 DEF Filled, settingVars
<1>8. Resolved(q)
  <2> HIDE DEF q, r
  <2> QED BY <1>2, <1>3, <1>4
<1>9. w \in ws \/ Filled(l, ps[l]) =>
        /\ l \notin wanted => q.pod = "none"
        /\ l \in wanted /\ w \in deployed /\ Starts(w) => q.pod \notin {"none", "Pending"}
  <2> HIDE DEF q, r
  <2> QED BY <1>2, <1>3, <1>4, <1>5 DEF Filled
<1> QED BY <1>7, <1>8, <1>9

\* A place that keeps its pod keeps what Filled says of it.
LEMMA PodKept ==
  ASSUME NEW l \in Label, Filled(l, place[l]), place'[l].pod = place[l].pod,
         UNCHANGED <<settingVars, deployed, gameMode>>
  PROVE  Filled(l, place[l])'
  BY DEF Filled, Starts, settingVars

LEMMA WindowsFill ==
  ASSUME PlacesOK, ResolvedAll, NEW l \in Label, Windows(l)
  PROVE  ResolvedAll' /\ (FilledAll => FilledAll')
<1>0. /\ place \in [Label -> Place]
      /\ Sound(place[l]) /\ Resolved(place[l]) /\ place[l].handlers \in Nat
      /\ (place[l].pod # "none" => WidgetOf[l] \in deployed)
  BY DEF PlacesOK, ResolvedAll, Homed, Sound, Place
<1>1. UNCHANGED <<settingVars, deployed, gameMode>>
  BY DEF Windows, UiDestroys, WindowCloses, HandleDestroyed, SoftRestart
<1>2. CASE UiDestroys(l) \/ WindowCloses(l)
  <2> DEFINE q == Destroyed(place[l])
  <2>1. place' = [place EXCEPT ![l] = q]
    BY <1>2 DEF UiDestroys, WindowCloses
  <2>2. q.pod = place[l].pod /\ q.holds = place[l].holds /\ q.late = place[l].late
        /\ q.handlers > 0
    BY <1>0 DEF Destroyed, Sound, Place
  <2> HIDE DEF q
  <2>3. \A k \in Label : place'[k] = IF k = l THEN q ELSE place[k]
    BY <1>0, <2>1
  <2>4. ResolvedAll'
    BY <1>0, <2>2, <2>3 DEF ResolvedAll, Resolved
  <2>5. \A k \in Label : place'[k].pod = place[k].pod
    BY <2>2, <2>3
  <2> QED BY <1>1, <2>4, <2>5, PodKept DEF FilledAll
<1>3. CASE HandleDestroyed(l)
  <2> DEFINE p    == [place[l] EXCEPT !.handlers = @ - 1]
             here == IF WidgetOf[l] \in deployed THEN Drop(p) ELSE p
             ps   == [place EXCEPT ![l] = here]
  <2>1. place[l].handlers > 0 /\ Refresh({WidgetOf[l]}, ps)
    BY <1>3 DEF HandleDestroyed
  <2>2. /\ p \in Place /\ p.pod = place[l].pod /\ p.holds = place[l].holds
        /\ p.window = place[l].window
    BY <1>0, <2>1 DEF Sound, Place
  <2>3. Owned(p)
    BY <1>0, <2>2 DEF Sound, Owned
  <2> HIDE DEF p
  <2>4. Sound(here) /\ here.pod = "none"
    BY <1>0, <2>2, <2>3, DropIsSound DEF Sound
  <2> HIDE DEF here
  <2>5. \A k \in Label : ps[k] = IF k = l THEN here ELSE place[k]
    BY <1>0
  <2> HIDE DEF ps
  <2>6. (\A k \in Label : Sound(ps[k]) /\ Resolved(ps[k])) /\ Homed(ps, deployed)
    BY <2>4, <2>5 DEF PlacesOK, ResolvedAll, Homed, Resolved
  <2>7. ASSUME NEW k \in Label
        PROVE  /\ Resolved(place[k])'
               /\ WidgetOf[k] \in {WidgetOf[l]} \/ Filled(k, ps[k]) => Filled(k, place[k])'
    BY <1>1, <2>1, <2>6, RefreshFills
  <2>8. ASSUME NEW k \in Label, FilledAll
        PROVE  Filled(k, place[k])'
    BY <2>5, <2>7, <2>8 DEF FilledAll
  <2> QED BY <2>7, <2>8 DEF ResolvedAll, FilledAll
<1>4. CASE SoftRestart(l)
  <2>1. /\ place[l].holds /\ place[l].pod # "none"
        /\ place'[l].pod = "Restarting" /\ place'[l].holds
        /\ \A k \in Label : k # l => place'[k] = place[k]
    BY <1>0, <1>4 DEF SoftRestart, Sound, Place
  <2>2. ResolvedAll'
    BY <2>1 DEF ResolvedAll, Resolved
  <2>3. FilledAll => FilledAll'
    BY <1>1, <2>1 DEF FilledAll, Filled, Starts, settingVars
  <2> QED BY <2>2, <2>3
<1> QED BY <1>2, <1>3, <1>4 DEF Windows

LEMMA PagesFill ==
  ASSUME PlacesOK, ResolvedAll, NEW l \in Label, Pages(l)
  PROVE  ResolvedAll' /\ (FilledAll => FilledAll')
<1>0. place \in [Label -> Place] /\ Resolved(place[l])
  BY DEF PlacesOK, ResolvedAll
<1>1. UNCHANGED <<settingVars, deployed, gameMode>>
  BY DEF Pages, PageLoads, ReportStatus, ReportTake
<1>2. CASE PageLoads(l)
  <2>1. ASSUME NEW k \in Label
        PROVE  /\ place'[k].pod = place[k].pod /\ place'[k].holds = place[k].holds
               /\ place'[k].window = place[k].window /\ place'[k].late = place[k].late
               /\ place'[k].handlers = place[k].handlers
    BY <1>0, <1>2 DEF PageLoads, Place
  <2> QED BY <1>1, <2>1, PodKept DEF ResolvedAll, FilledAll, Resolved
<1>3. CASE UNCHANGED place
  BY <1>1, <1>3, PodKept DEF ResolvedAll, FilledAll
<1>4. CASE ReportStatus(l) /\ ~UNCHANGED place
  <2>1. /\ place[l].pod # "none" /\ place'[l].pod = "Ready"
        /\ place'[l].holds \/ place'[l].late
        /\ \A k \in Label : k # l => place'[k] = place[k]
    BY <1>0, <1>4 DEF ReportStatus, Place
  <2>2. ResolvedAll'
    BY <2>1 DEF ResolvedAll, Resolved
  <2>3. FilledAll => FilledAll'
    BY <1>1, <2>1 DEF FilledAll, Filled, Starts, settingVars
  <2> QED BY <2>2, <2>3
<1> QED BY <1>2, <1>3, <1>4 DEF Pages, ReportTake

LEMMA GameAndTriggersFill ==
  ASSUME PlacesOK, ResolvedAll, AsksOK, GameOK, Suspend \/ ClearPods \/ TriggerStarts
  PROVE  ResolvedAll' /\ (FilledAll => FilledAll')
<1>1. CASE Suspend
  <2>1. gameMode' /\ UNCHANGED <<place, wanted, deployed>>
    BY <1>1 DEF Suspend, settingVars
  <2> QED BY <2>1 DEF ResolvedAll, Resolved, FilledAll, Filled, Starts
<1>2. CASE ClearPods
  <2>1. gameMode' /\ UNCHANGED <<settingVars, deployed>>
    BY <1>2 DEF ClearPods, GameOK
  <2>2. ASSUME NEW l \in Label
        PROVE  place'[l].pod = "none"
    <3>1. place'[l] = IF WidgetOf[l] \in deployed THEN Drop(place[l]) ELSE place[l]
      BY <1>2 DEF ClearPods
    <3>2. place[l] \in Place /\ Owned(place[l])
          /\ (place[l].pod # "none" => WidgetOf[l] \in deployed)
      BY DEF PlacesOK, Sound, Homed
    <3> QED BY <3>1, <3>2, DropIsSound
  <2> QED BY <2>1, <2>2 DEF ResolvedAll, Resolved, FilledAll, Filled, Starts
<1>3. CASE TriggerStarts
  <2> DEFINE l == trigger.label
  <2>1. l \in Label /\ UNCHANGED <<settingVars, deployed, gameMode>>
    BY <1>3 DEF AsksOK, TriggerStarts, NoTrigger
  <2>2. PICK quick \in BOOLEAN :
          place' = IF WidgetOf[l] \in deployed
                   THEN [place EXCEPT ![l] = Run(place[l], quick)] ELSE place
    BY <1>3 DEF TriggerStarts
  <2> DEFINE q == Run(place[l], quick)
  <2>3. /\ Resolved(q) /\ q.pod # "Pending"
        /\ q.pod = "none" <=> place[l].pod = "none"
    BY <2>1, RunResolves DEF PlacesOK, ResolvedAll
  <2> HIDE DEF q, l
  <2>4. CASE UNCHANGED place
    BY <2>1, <2>4, PodKept DEF ResolvedAll, FilledAll
  <2>5. CASE place' = [place EXCEPT ![l] = q]
    <3>1. \A k \in Label : place'[k] = IF k = l THEN q ELSE place[k]
      BY <2>5 DEF PlacesOK
    <3>2. ResolvedAll'
      BY <2>3, <3>1 DEF ResolvedAll
    <3>3. FilledAll => FilledAll'
      BY <2>1, <2>3, <3>1 DEF FilledAll, Filled, Starts, settingVars
    <3> QED BY <3>2, <3>3
  <2> QED BY <2>2, <2>4, <2>5 DEF q
<1> QED BY <1>1, <1>2, <1>3

\* While a call goes on, or a job other than the last part of one, the thread is busy.
\* That part fills all places.
LEMMA ReconcileFills ==
  ASSUME PlacesOK, ResolvedAll, CallsOK, NEW t \in Thread, Reconcile(t)
  PROVE  ResolvedAll' /\ (Busy' \/ FilledAll')
<1>1. ASSUME call'[t].pc # "idle" \/ job'[t] # NoJob PROVE Busy'
  BY <1>1 DEF Busy, Free, Resting
<1>2. CASE Load(t) \/ SpawnJob(t) \/ \E w \in Widget : FindDeployed(t, w)
  <2>1. ResolvedAll'
    BY <1>2 DEF Load, SpawnJob, FindDeployed, ResolvedAll
  <2>2. call'[t].pc # "idle" \/ job'[t] # NoJob
    <3>1. Priority # NoJob
      BY PodsAssumption DEF NoJob
    <3>2. SpawnJob(t) => job'[t] = Priority
      BY DEF SpawnJob, CallsOK
    <3>3. Load(t) => call'[t].pc = "apply"
      BY DEF Load, CallsOK
    <3>4. ASSUME NEW w \in Widget, FindDeployed(t, w)
          PROVE  call'[t].pc \in {"apply", "upsert"}
      BY <3>4 DEF FindDeployed, CallsOK, CallRecord
    <3> QED BY <1>2, <3>1, <3>2, <3>3, <3>4
  <2> QED BY <1>1, <2>1, <2>2
<1>3. CASE Upsert(t) \/ \E w \in Widget : RemoveDisabled(t, w)
  <2>1. PICK w : place' = Without(w)
    BY <1>3 DEF Upsert, RemoveDisabled
  <2>2. ASSUME NEW l \in Label PROVE Resolved(place'[l])
    <3>1. place'[l] = IF WidgetOf[l] = w THEN Drop(place[l]) ELSE place[l]
      BY <2>1 DEF Without
    <3>2. Drop(place[l]).pod = "none"
      BY DropIsSound DEF PlacesOK, Sound
    <3> QED BY <3>1, <3>2 DEF ResolvedAll, Resolved
  <2>3. call'[t].pc # "idle"
    BY <1>3 DEF Upsert, RemoveDisabled, CallsOK, CallRecord
  <2> QED BY <1>1, <2>2, <2>3 DEF ResolvedAll
<1>4. ASSUME NEW ws, Refresh(ws, place), UNCHANGED <<settingVars, deployed, gameMode>>
      PROVE  /\ ResolvedAll'
             /\ \A l \in Label : WidgetOf[l] \in ws => Filled(l, place[l])'
  BY <1>4, RefreshFills DEF PlacesOK, ResolvedAll
<1>5. CASE \E w \in Widget : JobFirst(t, w)
  <2>1. job'[t] # NoJob
    BY <1>5, PodsAssumption DEF JobFirst, CallsOK, NoJob
  <2> QED BY <1>1, <1>4, <1>5, <2>1 DEF JobFirst
<1>6. CASE JobRest(t)
  <2>1. ResolvedAll' /\ \A l \in Label : Filled(l, place[l])'
    BY <1>4, <1>6, PodsAssumption DEF JobRest
  <2> QED BY <2>1 DEF FilledAll
<1> QED BY <1>2, <1>3, <1>5, <1>6 DEF Reconcile

LEMMA FillsKept ==
  ASSUME PlacesOK, ResolvedAll, AsksOK, GameOK, CallsOK, Busy \/ FilledAll, Next
  PROVE  ResolvedAll' /\ (Busy' \/ FilledAll')
<1> DEFINE kept == ResolvedAll' /\ (FilledAll => FilledAll')
           same == UNCHANGED <<call, job>>
<1>1. ASSUME NEW t \in Thread, Begin(t), UNCHANGED place
      PROVE  ResolvedAll' /\ Busy'
  <2>1. call'[t].pc = "load"
    BY <1>1 DEF Begin, CallsOK, Resting
  <2> QED BY <1>1, <2>1 DEF ResolvedAll, Busy, Free, Resting
<1>2. ASSUME NEW t \in Caller,
             \/ \E w \in Widget : ChangeSettings(t, w)
             \/ \E l \in Label : ChangeMonitors(t, l)
      PROVE  Begin(t) /\ UNCHANGED place /\ t \in Thread
  BY <1>2 DEF ChangeSettings, ChangeMonitors, Thread
<1>3. Resume => Begin("power") /\ UNCHANGED place /\ "power" \in Thread
  BY DEF Resume, Thread
<1>4. ASSUME NEW l \in Label, Windows(l) PROVE kept /\ same
  <2>1. same
    BY <1>4 DEF Windows, UiDestroys, WindowCloses, HandleDestroyed, SoftRestart, threadVars
  <2> QED BY <1>4, <2>1, WindowsFill
<1>5. ASSUME NEW l \in Label, Pages(l) PROVE kept /\ same
  <2>1. same
    BY <1>5 DEF Pages, PageLoads, ReportStatus, ReportTake, threadVars
  <2> QED BY <1>5, <2>1, PagesFill
<1>6. Suspend \/ ClearPods \/ TriggerStarts => kept /\ same
  <2>1. Suspend \/ ClearPods \/ TriggerStarts => same
    BY DEF Suspend, ClearPods, TriggerStarts, threadVars
  <2> QED BY <2>1, GameAndTriggersFill
<1>7. TriggerKept \/ (\E l \in Label : Trigger(l)) => kept /\ same
  BY PodKept DEF TriggerKept, Trigger, ResolvedAll, FilledAll, threadVars
<1> HIDE DEF kept
<1>8. same => (Busy' <=> Busy)
  BY DEF Busy, Free
<1> HIDE DEF same
<1>9. kept /\ same => ResolvedAll' /\ (Busy' \/ FilledAll')
  BY <1>8 DEF kept
<1> QED BY <1>1, <1>2, <1>3, <1>4, <1>5, <1>6, <1>7, <1>9, ReconcileFills DEF Next, Game

\* Whatever calls, jobs, handlers, triggers and games came in between: once all is
\* quiet a widget is deployed as the settings say, its windows are open where they
\* should be, and nowhere else. The widgets last judged by older settings are excused,
\* and the windows whose pod was told by the page of an earlier one that it is ready.
THEOREM WidgetsFollowSettings == Spec => []WidgetsAsConfigured
<1> DEFINE I == /\ PlacesOK /\ AsksOK /\ GameOK /\ CallsOK /\ Configured
                /\ ResolvedAll /\ (Busy \/ FilledAll)
<1>1. Init => I
  <2> SUFFICES ASSUME Init PROVE I
    OBVIOUS
  <2>1. Configured
    BY DEF Init, Configured, Ahead, Resting, Thread
  <2>2. ResolvedAll
    BY EmptyIsSound DEF Init, ResolvedAll, Resolved
  <2>3. Busy
    BY DEF Init, Busy, Free, Resting, Thread
  <2> QED BY <2>1, <2>2, <2>3, PlacesAlways, AsksAlways, GameAlways, CallsAlways
<1>2. I /\ [Next]_vars => I'
  <2>1. ASSUME I, UNCHANGED vars PROVE (Configured /\ ResolvedAll /\ (Busy \/ FilledAll))'
    BY <2>1 DEF Configured, Ahead, ResolvedAll, Resolved, Busy, Free, FilledAll, Filled,
                Starts, vars, settingVars, threadVars
  <2> QED BY <2>1, PlacesAlways, AsksAlways, GameAlways, CallsAlways, ConfiguredKept,
             FillsKept
<1>3. I => WidgetsAsConfigured
  <2> SUFFICES ASSUME I, Settled PROVE WidgetsAsConfigured
    BY DEF WidgetsAsConfigured
  <2>1. ~Busy /\ \A t \in Thread : call[t] = Resting
    BY DEF Settled, Busy, Free
  <2>2. \A t \in Thread, w \in Widget : ~Ahead(t, w)
    BY <2>1 DEF Ahead, Resting
  <2>3. ASSUME NEW l \in Label, WidgetOf[l] \in deployed
        PROVE  /\ l \notin wanted => place[l].pod = "none"
               /\ l \in wanted /\ Starts(WidgetOf[l]) => place[l].holds \/ place[l].late
    <3>1. /\ Filled(l, place[l]) /\ Resolved(place[l])
          /\ place[l].window # "dying" /\ place[l].handlers = 0
          /\ place[l].pod \in PodStatus
      BY <2>1 DEF FilledAll, ResolvedAll, Settled, PlacesOK, Place
    <3> QED BY <2>3, <3>1 DEF Filled, Resolved, PodStatus
  <2> QED BY <2>2, <2>3 DEF Configured, WidgetsAsConfigured
<1> HIDE DEF I
<1> QED BY <1>1, <1>2, <1>3, PTL DEF Spec
=============================================================================
