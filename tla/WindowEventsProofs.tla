------------------------- MODULE WindowEventsProofs -------------------------
(***************************************************************************)
(* What holds of the events of windows for any number of windows that come *)
(* and go and any number of events and messages that wait.                 *)
(***************************************************************************)
EXTENDS WindowEvents, SequenceTheorems, FiniteSetTheorems, TLAPS

\* The parts of TypeOK, and that what Posted makes a sequence of is finite.
ChannelsOK == channel \in Seq(Event) /\ moves \in Seq(Window \cup {"all"})

SetsOK ==
  /\ alive \subseteq Window /\ held \subseteq Window /\ interactive \in BOOLEAN
  /\ pending \subseteq Window /\ moved \subseteq Window
  /\ known \subseteq Window /\ dead \subseteq Window /\ reaping \subseteq Window
  /\ unwatched \subseteq Window /\ again \subseteq Window

ReaperOK ==
  /\ reaper \in {"scan", "insert", "sleep", "reap", "send"}
  /\ Cardinality(reaping) = IF reaper = "send" THEN 1 ELSE 0

FiniteOK == IsFiniteSet(pending) /\ IsFiniteSet(reaping)

TypeInv == ChannelsOK /\ SetsOK /\ ReaperOK /\ FiniteOK

LEMMA TypeParts == TypeInv => TypeOK
  BY DEF TypeInv, TypeOK, ChannelsOK, SetsOK, ReaperOK
-----------------------------------------------------------------------------
(* Channels *)

LEMMA AppendContains ==
  ASSUME NEW S, NEW c \in Seq(S), NEW e \in S
  PROVE  /\ Append(c, e) \in Seq(S)
         /\ \A x : Contains(Append(c, e), x) <=> Contains(c, x) \/ x = e
  BY AppendProperties DEF Contains

LEMMA TailContains ==
  ASSUME NEW S, NEW c \in Seq(S), c # <<>>
  PROVE  /\ Head(c) \in S /\ Tail(c) \in Seq(S)
         /\ \A x : Contains(c, x) <=> x = Head(c) \/ Contains(Tail(c), x)
<1>1. /\ Head(c) \in S /\ Tail(c) \in Seq(S) /\ Len(c) \in Nat \ {0}
      /\ Len(Tail(c)) = Len(c) - 1 /\ Head(c) = c[1]
      /\ \A i \in 1..Len(Tail(c)) : Tail(c)[i] = c[i + 1]
  BY HeadTailProperties, LenProperties, EmptySeq
<1>2. ASSUME NEW x, Contains(c, x) PROVE x = Head(c) \/ Contains(Tail(c), x)
  <2>1. PICK i \in 1..Len(c) : c[i] = x
    BY <1>2 DEF Contains
  <2>2. CASE i # 1
    <3>1. i - 1 \in 1..Len(Tail(c)) /\ Tail(c)[i - 1] = x
      BY <1>1, <2>1, <2>2
    <3> QED BY <3>1 DEF Contains
  <2> QED BY <1>1, <2>1, <2>2
<1>3. ASSUME NEW x, x = Head(c) \/ Contains(Tail(c), x) PROVE Contains(c, x)
  <2>1. CASE x = Head(c)
    BY <1>1, <2>1 DEF Contains
  <2>2. CASE Contains(Tail(c), x)
    <3>1. PICK i \in 1..Len(Tail(c)) : Tail(c)[i] = x
      BY <2>2 DEF Contains
    <3>2. i + 1 \in 1..Len(c) /\ c[i + 1] = x
      BY <1>1, <3>1
    <3> QED BY <3>2 DEF Contains
  <2> QED BY <1>3, <2>1, <2>2
<1> QED BY <1>1, <1>2, <1>3

\* SetToSeq gives each element of a finite set once.
LEMMA SetToSeqContains ==
  ASSUME NEW T, NEW S \in SUBSET T, IsFiniteSet(S)
  PROVE  /\ SetToSeq(S) \in Seq(T)
         /\ \A x : Contains(SetToSeq(S), x) <=> x \in S
<1> DEFINE n == Cardinality(S)
           f == SetToSeq(S)
<1>1. n \in Nat /\ \E g : g \in Bijection(1..n, S)
  BY FS_CardinalityType DEF ExistsBijection
<1>2. f \in [1..n -> S] /\ IsInjective(f)
  <2>1. \E g \in [1..n -> S] : IsInjective(g)
    BY <1>1 DEF Bijection, Injection
  <2> QED BY <2>1 DEF SetToSeq
<1>3. f \in Injection(1..n, S)
  BY <1>2 DEF Injection
<1>4. Cardinality(1..n) = n
  BY <1>1, FS_Interval
<1>5. f \in Surjection(1..n, S)
  <2> HIDE DEF f
  <2> QED BY <1>3, <1>4, FS_Injection
<1>6. f \in Seq(T) /\ Len(f) = n
  <2> HIDE DEF f
  <2>1. f \in [1..n -> T]
    BY <1>2
  <2> QED BY <1>1, <2>1, IsASeq, LenProperties
<1>7. \A x : Contains(f, x) <=> x \in S
  <2> HIDE DEF f, n
  <2> QED BY <1>2, <1>5, <1>6 DEF Contains, Surjection
<1> QED BY <1>6, <1>7

LEMMA ConcatContains ==
  ASSUME NEW S, NEW c \in Seq(S), NEW d \in Seq(S)
  PROVE  /\ c \o d \in Seq(S)
         /\ \A x : Contains(c \o d, x) <=> Contains(c, x) \/ Contains(d, x)
<1>1. /\ c \o d \in Seq(S) /\ Len(c \o d) = Len(c) + Len(d)
      /\ Len(c) \in Nat /\ Len(d) \in Nat
      /\ \A i \in 1..Len(c) + Len(d) : (c \o d)[i] = IF i <= Len(c) THEN c[i] ELSE d[i - Len(c)]
  BY ConcatProperties, LenProperties
<1>2. ASSUME NEW x, Contains(c, x) \/ Contains(d, x) PROVE Contains(c \o d, x)
  <2>1. CASE Contains(c, x)
    BY <1>1, <2>1 DEF Contains
  <2>2. CASE Contains(d, x)
    <3>1. PICK i \in 1..Len(d) : d[i] = x
      BY <2>2 DEF Contains
    <3>2. i + Len(c) \in 1..Len(c) + Len(d) /\ (c \o d)[i + Len(c)] = x
      BY <1>1, <3>1
    <3> QED BY <1>1, <3>2 DEF Contains
  <2> QED BY <1>2, <2>1, <2>2
<1>3. ASSUME NEW x, Contains(c \o d, x) PROVE Contains(c, x) \/ Contains(d, x)
  <2>1. PICK i \in 1..Len(c) + Len(d) : (c \o d)[i] = x
    BY <1>1, <1>3 DEF Contains
  <2>2. CASE i <= Len(c)
    BY <1>1, <2>1, <2>2 DEF Contains
  <2>3. CASE ~(i <= Len(c))
    <3>1. i - Len(c) \in 1..Len(d) /\ d[i - Len(c)] = x
      BY <1>1, <2>1, <2>3
    <3> QED BY <3>1 DEF Contains
  <2> QED BY <2>2, <2>3
<1> QED BY <1>1, <1>2, <1>3

\* What Posted adds to a channel
LEMMA PostedContains ==
  ASSUME NEW c \in Seq(Event), NEW e \in {"create", "notice", "destroy", "rect"},
         NEW ws \in SUBSET Window, IsFiniteSet(ws)
  PROVE  /\ Posted(c, e, ws) \in Seq(Event)
         /\ \A x : Contains(Posted(c, e, ws), x) <=>
                     Contains(c, x) \/ \E w \in ws : x = <<e, w>>
<1> DEFINE S == {<<e, w>> : w \in ws}
<1>1. S \in SUBSET Event
  BY DEF Event
<1>2. IsFiniteSet(S)
  <2>1. S = {e} \X ws
    OBVIOUS
  <2>2. IsFiniteSet({e})
    BY FS_Singleton
  <2>3. IsFiniteSet({e} \X ws)
    BY <2>2, FS_Product
  <2> HIDE DEF S
  <2> QED BY <2>1, <2>3
<1>3. /\ SetToSeq(S) \in Seq(Event)
      /\ \A x : Contains(SetToSeq(S), x) <=> x \in S
  <2> HIDE DEF S
  <2> QED BY <1>1, <1>2, SetToSeqContains
<1>4. /\ c \o SetToSeq(S) \in Seq(Event)
      /\ \A x : Contains(c \o SetToSeq(S), x) <=> Contains(c, x) \/ Contains(SetToSeq(S), x)
  <2> HIDE DEF S
  <2> QED BY <1>3, ConcatContains
<1> QED BY <1>3, <1>4 DEF Posted
-----------------------------------------------------------------------------
(* The types *)

\* What is appended to the channel of the events, and what Fire puts into it
LEMMA HookedContains ==
  ASSUME NEW e \in {"create", "notice", "destroy", "rect"}, NEW w \in Window,
         TypeInv, Hooked(e, w)
  PROVE  /\ channel' \in Seq(Event)
         /\ \A x : Contains(channel', x) <=>
                     Contains(channel, x) \/ (interactive /\ x = <<e, w>>)
<1>1. channel \in Seq(Event) /\ <<e, w>> \in Event
  BY DEF TypeInv, ChannelsOK, Event
<1>2. CASE interactive
  <2>1. channel' = Append(channel, <<e, w>>)
    BY <1>2 DEF Hooked
  <2>2. /\ Append(channel, <<e, w>>) \in Seq(Event)
        /\ \A x : Contains(Append(channel, <<e, w>>), x) <=>
                    Contains(channel, x) \/ x = <<e, w>>
    BY <1>1, AppendContains
  <2> QED BY <1>2, <2>1, <2>2
<1>3. CASE ~interactive
  BY <1>1, <1>3 DEF Hooked
<1> QED BY <1>2, <1>3

LEMMA FireContains ==
  ASSUME NEW ws \in SUBSET pending, TypeInv, Fire(ws)
  PROVE  /\ channel' \in Seq(Event)
         /\ pending' \subseteq pending /\ IsFiniteSet(pending')
         /\ pending' = pending \ ws
         /\ \A e \in {"create", "notice", "destroy"}, w \in Window :
              Waiting(e, w)' <=> Waiting(e, w)
         /\ \A w \in Window : Waiting("rect", w)' <=> Waiting("rect", w) \/ w \in ws
<1> DEFINE due == {w \in ws : ~Waiting("rect", w)}
<1>1. IsFiniteSet(due) /\ due \in SUBSET Window
  <2>1. IsFiniteSet(pending) /\ due \in SUBSET pending /\ pending \in SUBSET Window
    BY DEF TypeInv, FiniteOK, SetsOK
  <2> QED BY <2>1, FS_Subset
<1>2. channel \in Seq(Event)
  BY DEF TypeInv, ChannelsOK
<1>3. channel' = Posted(channel, "rect", due)
  BY DEF Fire
<1>4. /\ channel' \in Seq(Event)
      /\ \A x : Contains(channel', x) <=>
                  Contains(channel, x) \/ \E w \in due : x = <<"rect", w>>
  <2> HIDE DEF due
  <2> QED BY <1>1, <1>2, <1>3, PostedContains
<1>5. pending' \subseteq pending /\ IsFiniteSet(pending') /\ pending' = pending \ ws
  BY FS_Subset DEF TypeInv, FiniteOK, Fire
<1>6. \A e \in {"create", "notice", "destroy"}, w \in Window :
        Waiting(e, w)' <=> Waiting(e, w)
  <2> SUFFICES ASSUME NEW e \in {"create", "notice", "destroy"}, NEW w \in Window
               PROVE  Contains(channel', <<e, w>>) <=> Contains(channel, <<e, w>>)
    BY DEF Waiting
  <2>1. \A v : <<e, w>> # <<"rect", v>>
    OBVIOUS
  <2> QED BY <1>4, <2>1
<1>7. \A w \in Window : Waiting("rect", w)' <=> Waiting("rect", w) \/ w \in ws
  BY <1>4 DEF Waiting
<1> QED BY <1>4, <1>5, <1>6, <1>7

LEMMA ReportContains ==
  ASSUME TypeInv, ReportReaped
  PROVE  /\ channel' \in Seq(Event)
         /\ \A x : Contains(channel', x) <=>
                     Contains(channel, x) \/ \E w \in reaping : x = <<"destroy", w>>
<1>1. channel \in Seq(Event) /\ reaping \in SUBSET Window /\ IsFiniteSet(reaping)
  BY DEF TypeInv, ChannelsOK, SetsOK, FiniteOK
<1>2. channel' = Posted(channel, "destroy", reaping)
  BY DEF ReportReaped
<1>3. /\ Posted(channel, "destroy", reaping) \in Seq(Event)
      /\ \A x : Contains(Posted(channel, "destroy", reaping), x) <=>
                  Contains(channel, x) \/ \E w \in reaping : x = <<"destroy", w>>
  BY <1>1, PostedContains
<1> QED BY <1>2, <1>3, Zenon

LEMMA TypeInit == Init => TypeInv
<1> SUFFICES ASSUME Init PROVE TypeInv
  OBVIOUS
<1>1. ChannelsOK
  BY EmptySeq DEF Init, ChannelsOK
<1>2. SetsOK
  BY WindowEventsAssumption DEF Init, SetsOK
<1>3. ReaperOK /\ FiniteOK
  BY FS_EmptySet DEF Init, ReaperOK, FiniteOK
<1> QED BY <1>1, <1>2, <1>3 DEF TypeInv

LEMMA TypeWindows == TypeInv /\ Windows => TypeInv'
<1> SUFFICES ASSUME TypeInv, Windows PROVE TypeInv'
  OBVIOUS
<1> USE DEF TypeInv, ChannelsOK, SetsOK, ReaperOK, FiniteOK, reaperVars, moveVars
<1>1. ASSUME NEW w \in Passing, WindowCreated(w) PROVE TypeInv'
  <2>1. w \in Window
    BY WindowEventsAssumption
  <2>2. channel' \in Seq(Event)
    BY <1>1, <2>1, HookedContains DEF WindowCreated
  <2> QED BY <1>1, <2>1, <2>2 DEF WindowCreated
<1>2. ASSUME NEW w \in Passing, WindowNoticed(w) PROVE TypeInv'
  <2>1. channel' \in Seq(Event)
    BY <1>2, WindowEventsAssumption, HookedContains DEF WindowNoticed
  <2> QED BY <1>2, <2>1 DEF WindowNoticed
<1>3. ASSUME NEW w \in Passing, WindowDestroyed(w) PROVE TypeInv'
  <2>1. channel' \in Seq(Event)
    BY <1>3, WindowEventsAssumption, HookedContains DEF WindowDestroyed
  <2> QED BY <1>3, <2>1 DEF WindowDestroyed
<1>4. ASSUME NEW w \in Passing, WindowVanishes(w) PROVE TypeInv'
  BY <1>4 DEF WindowVanishes
<1>5. ASSUME NEW w \in Window, WindowMoves(w) PROVE TypeInv'
  <2>1. moves' \in Seq(Window \cup {"all"})
    BY <1>5, AppendContains DEF WindowMoves
  <2> QED BY <1>5, <2>1 DEF WindowMoves
<1>6. ASSUME MoveEnds PROVE TypeInv'
  <2>1. moves' \in Seq(Window \cup {"all"})
    BY <1>6, AppendContains DEF MoveEnds
  <2> QED BY <1>6, <2>1 DEF MoveEnds
<1>7. ASSUME SessionChanges PROVE TypeInv'
  BY <1>7 DEF SessionChanges
<1> QED BY <1>1, <1>2, <1>3, <1>4, <1>5, <1>6, <1>7 DEF Windows

LEMMA TypeDebounce == TypeInv /\ Debounce => TypeInv'
<1> SUFFICES ASSUME TypeInv, Debounce PROVE TypeInv'
  OBVIOUS
<1>0. moves # <<>> => /\ Head(moves) \in Window \cup {"all"}
                      /\ Tail(moves) \in Seq(Window \cup {"all"})
  BY TailContains DEF TypeInv, ChannelsOK
<1>1. CASE ReceiveUpdate
  <2>1. pending' \subseteq Window /\ IsFiniteSet(pending')
    BY <1>0, <1>1, FS_AddElement DEF ReceiveUpdate, TypeInv, SetsOK, FiniteOK
  <2> QED BY <1>0, <1>1, <2>1
          DEF ReceiveUpdate, TypeInv, ChannelsOK, SetsOK, ReaperOK, FiniteOK, reaperVars
<1>2. CASE ReceiveTerminate
  <2>1. channel' \in Seq(Event) /\ pending' \subseteq pending /\ IsFiniteSet(pending')
    BY <1>2, FireContains DEF ReceiveTerminate
  <2> QED BY <1>0, <1>2, <2>1
          DEF ReceiveTerminate, TypeInv, ChannelsOK, SetsOK, ReaperOK, FiniteOK, reaperVars
<1>3. CASE TimeOut
  <2>1. channel' \in Seq(Event) /\ pending' \subseteq pending /\ IsFiniteSet(pending')
    BY <1>3, FireContains DEF TimeOut
  <2> QED BY <1>3, <2>1
          DEF TimeOut, TypeInv, ChannelsOK, SetsOK, ReaperOK, FiniteOK, reaperVars
<1> QED BY <1>1, <1>2, <1>3 DEF Debounce

LEMMA TypeDispatch == TypeInv /\ Dispatch => TypeInv'
<1> SUFFICES ASSUME TypeInv, Dispatch PROVE TypeInv'
  OBVIOUS
<1> USE DEF TypeInv, ChannelsOK, SetsOK, ReaperOK, FiniteOK, reaperVars, moveVars
<1>0. channel # <<>> => Tail(channel) \in Seq(Event)
  BY TailContains
<1>1. CASE DispatchFound
  BY <1>0, <1>1 DEF DispatchFound
<1>2. CASE DispatchDestroy
  BY <1>0, <1>2 DEF DispatchDestroy, Unwatch
<1>3. CASE DispatchRect
  BY <1>0, <1>3 DEF DispatchRect
<1> QED BY <1>1, <1>2, <1>3 DEF Dispatch

LEMMA TypeExterminate == TypeInv /\ Exterminate => TypeInv'
<1> SUFFICES ASSUME TypeInv, Exterminate PROVE TypeInv'
  OBVIOUS
<1> USE DEF TypeInv, ChannelsOK, SetsOK, ReaperOK, FiniteOK, moveVars
<1>1. CASE Scan
  BY <1>1 DEF Scan
<1>2. CASE ScanInserts
  BY <1>2 DEF ScanInserts
<1>3. CASE ListDead
  BY <1>3 DEF ListDead
<1>4. CASE ReportReaped
  <2>1. channel' \in Seq(Event)
    BY <1>4, ReportContains
  <2>2. IsFiniteSet({}) /\ Cardinality({}) = 0
    BY FS_EmptySet
  <2> QED BY <1>4, <2>1, <2>2 DEF ReportReaped
<1>5. ASSUME NEW w \in Window, Reap(w) PROVE TypeInv'
  <2>1. IsFiniteSet({w}) /\ Cardinality({w}) = 1
    BY FS_Singleton
  <2> QED BY <1>5, <2>1 DEF Reap, Unwatch
<1> QED BY <1>1, <1>2, <1>3, <1>4, <1>5 DEF Exterminate

LEMMA TypeStep == TypeInv /\ [Next]_vars => TypeInv'
<1>1. TypeInv /\ UNCHANGED vars => TypeInv'
  BY DEF TypeInv, ChannelsOK, SetsOK, ReaperOK, FiniteOK, vars, moveVars, reaperVars
<1> QED BY <1>1, TypeWindows, TypeDebounce, TypeDispatch, TypeExterminate DEF Next

\* The channels, the lists of the exterminator and what is pending keep their types,
\* and it has removed one window, and only then, while it is about to report.
THEOREM WindowEventsTyped == Spec => []TypeOK
  BY TypeInit, TypeStep, TypeParts, PTL DEF Spec
-----------------------------------------------------------------------------
(* Moves *)

\* An event that is taken from the channel was for one window: the others wait on.
LEMMA DispatchedContains ==
  ASSUME TypeInv, channel # <<>>, channel' = Tail(channel),
         NEW d, NEW v, Head(channel) = <<d, v>>
  PROVE  /\ \A e, w : Waiting(e, w)' => Waiting(e, w)
         /\ \A e, w : Waiting(e, w) /\ (e # d \/ w # v) => Waiting(e, w)'
<1>1. \A x : Contains(channel, x) <=> x = Head(channel) \/ Contains(Tail(channel), x)
  BY TailContains DEF TypeInv, ChannelsOK
<1> QED BY <1>1 DEF Waiting

\* Events are only added: by the hook, by Fire and by ReportReaped.
LEMMA HookedKeeps ==
  ASSUME TypeInv, NEW e \in {"create", "notice", "destroy", "rect"}, NEW w \in Window,
         Hooked(e, w)
  PROVE  /\ \A d, v : Waiting(d, v) => Waiting(d, v)'
         /\ \A d, v : Waiting(d, v)' /\ (d # e \/ v # w) => Waiting(d, v)
         /\ interactive => Waiting(e, w)'
<1>1. \A x : Contains(channel', x) <=> Contains(channel, x) \/ (interactive /\ x = <<e, w>>)
  BY HookedContains
<1> QED BY <1>1 DEF Waiting

LEMMA MovesKeptWindows == TypeInv /\ MovesKept /\ Windows => MovesKept'
<1> SUFFICES ASSUME TypeInv, MovesKept, Windows, NEW v \in moved'
             PROVE  Contains(moves', v) \/ v \in pending' \/ Waiting("rect", v)'
  BY DEF MovesKept
<1>1. ASSUME NEW w \in Passing, NEW e \in {"create", "notice", "destroy", "rect"},
             Hooked(e, w), moved' \subseteq moved, moves' = moves, pending' = pending
      PROVE  Contains(moves', v) \/ v \in pending' \/ Waiting("rect", v)'
  <2>1. w \in Window
    BY WindowEventsAssumption
  <2>2. Waiting("rect", v) => Waiting("rect", v)'
    BY <1>1, <2>1, HookedKeeps
  <2> QED BY <1>1, <2>2 DEF MovesKept
<1>2. ASSUME NEW w \in Passing,
             WindowCreated(w) \/ WindowNoticed(w) \/ WindowDestroyed(w)
      PROVE  Contains(moves', v) \/ v \in pending' \/ Waiting("rect", v)'
  BY <1>1, <1>2 DEF WindowCreated, WindowNoticed, WindowDestroyed, moveVars
<1>3. ASSUME NEW w \in Passing, WindowVanishes(w)
      PROVE  Contains(moves', v) \/ v \in pending' \/ Waiting("rect", v)'
  BY <1>3 DEF MovesKept, WindowVanishes, Waiting, moveVars
<1>4. ASSUME NEW w \in Window, WindowMoves(w)
      PROVE  Contains(moves', v) \/ v \in pending' \/ Waiting("rect", v)'
  <2>1. \A x : Contains(Append(moves, w), x) <=> Contains(moves, x) \/ x = w
    BY AppendContains DEF TypeInv, ChannelsOK
  <2> QED BY <1>4, <2>1 DEF MovesKept, WindowMoves, Waiting
<1>5. ASSUME MoveEnds PROVE Contains(moves', v) \/ v \in pending' \/ Waiting("rect", v)'
  <2>1. \A x : Contains(Append(moves, "all"), x) <=> Contains(moves, x) \/ x = "all"
    BY AppendContains DEF TypeInv, ChannelsOK
  <2> QED BY <1>5, <2>1 DEF MovesKept, MoveEnds, Waiting
<1>6. ASSUME SessionChanges
      PROVE  Contains(moves', v) \/ v \in pending' \/ Waiting("rect", v)'
  BY <1>6 DEF MovesKept, SessionChanges, Waiting, moveVars
<1> QED BY <1>2, <1>3, <1>4, <1>5, <1>6 DEF Windows

LEMMA MovesKeptDebounce == TypeInv /\ MovesKept /\ Debounce => MovesKept'
<1> SUFFICES ASSUME TypeInv, MovesKept, Debounce, NEW v \in moved'
             PROVE  Contains(moves', v) \/ v \in pending' \/ Waiting("rect", v)'
  BY DEF MovesKept
<1>0. moves # <<>> =>
        \A x : Contains(moves, x) <=> x = Head(moves) \/ Contains(Tail(moves), x)
  BY TailContains DEF TypeInv, ChannelsOK
<1>1. v \in moved /\ v \in Window /\ v # "all"
  BY WindowEventsAssumption
     DEF Debounce, ReceiveUpdate, ReceiveTerminate, TimeOut, TypeInv, SetsOK
<1>2. CASE ReceiveUpdate
  BY <1>0, <1>1, <1>2 DEF MovesKept, ReceiveUpdate, Waiting
<1>3. ASSUME NEW ws \in SUBSET pending, Fire(ws),
             v \in pending \/ Waiting("rect", v)
      PROVE  v \in pending' \/ Waiting("rect", v)'
  BY <1>1, <1>3, FireContains
<1>4. CASE ReceiveTerminate
  BY <1>0, <1>1, <1>3, <1>4 DEF MovesKept, ReceiveTerminate
<1>5. CASE TimeOut
  BY <1>1, <1>3, <1>5 DEF MovesKept, TimeOut
<1> QED BY <1>2, <1>4, <1>5 DEF Debounce

LEMMA MovesKeptDispatch == TypeInv /\ MovesKept /\ Dispatch => MovesKept'
<1> SUFFICES ASSUME TypeInv, MovesKept, Dispatch, NEW v \in moved'
             PROVE  Contains(moves', v) \/ v \in pending' \/ Waiting("rect", v)'
  BY DEF MovesKept
<1>1. ASSUME NEW d, NEW w, channel # <<>>, Head(channel) = <<d, w>>,
             channel' = Tail(channel), d # "rect" \/ v # w, Waiting("rect", v)
      PROVE  Waiting("rect", v)'
  BY <1>1, DispatchedContains
<1>2. CASE DispatchFound
  BY <1>1, <1>2 DEF MovesKept, DispatchFound, moveVars
<1>3. CASE DispatchDestroy
  BY <1>1, <1>3 DEF MovesKept, DispatchDestroy, moveVars
<1>4. CASE DispatchRect
  BY <1>1, <1>4 DEF MovesKept, DispatchRect
<1> QED BY <1>2, <1>3, <1>4 DEF Dispatch

LEMMA MovesKeptExterminate == TypeInv /\ MovesKept /\ Exterminate => MovesKept'
<1> SUFFICES ASSUME TypeInv, MovesKept, Exterminate, NEW v \in moved'
             PROVE  Contains(moves', v) \/ v \in pending' \/ Waiting("rect", v)'
  BY DEF MovesKept
<1>1. moved' = moved /\ moves' = moves /\ pending' = pending
  BY DEF Exterminate, Scan, ScanInserts, ListDead, ReportReaped, Reap, moveVars
<1>2. Waiting("rect", v) => Waiting("rect", v)'
  <2>1. CASE ReportReaped
    BY <2>1, ReportContains DEF Waiting
  <2>2. CASE ~ReportReaped
    <3>1. channel' = channel
      BY <2>2 DEF Exterminate, Scan, ScanInserts, ListDead, Reap
    <3> QED BY <3>1 DEF Waiting
  <2> QED BY <2>1, <2>2
<1> QED BY <1>1, <1>2 DEF MovesKept

\* Until the managers look at the place of a window that moved, its move waits in the
\* channel of the debouncing thread, is pending there, or its event is queued: however
\* many windows move, messages wait, and moves end in between.
THEOREM NoMoveIsLost == Spec => []MovesKept
<1>1. Init => MovesKept
  BY DEF Init, MovesKept
<1>2. TypeInv /\ MovesKept /\ [Next]_vars => MovesKept'
  <2>1. MovesKept /\ UNCHANGED vars => MovesKept'
    BY DEF MovesKept, Waiting, vars, moveVars
  <2> QED BY <2>1, MovesKeptWindows, MovesKeptDebounce, MovesKeptDispatch,
             MovesKeptExterminate DEF Next
<1> QED BY <1>1, <1>2, TypeInit, TypeStep, PTL DEF Spec
-----------------------------------------------------------------------------
(* The exterminator *)

\* What the managers hold, and whatever is alive, is known to the exterminator, was
\* told gone to it, or has an event on the way to it.
Watched ==
  \A w \in alive \cup held :
    w \in known \cup unwatched \cup reaping \/ Waiting("create", w) \/ Waiting("destroy", w)

\* A handle that is used while the death of the window before is still to be reported
Marked == \A w \in alive : DeathPending(w) => w \in again

LEMMA NothingRemoved == ASSUME TypeInv, reaper # "send" PROVE reaping = {}
  BY FS_EmptySet DEF TypeInv, ReaperOK, FiniteOK

LEMMA WatchedWindows == TypeInv /\ Watched /\ Windows => Watched'
<1> SUFFICES ASSUME TypeInv, Watched, Windows, NEW v \in alive' \cup held'
             PROVE  \/ v \in known' \cup unwatched' \cup reaping'
                    \/ Waiting("create", v)' \/ Waiting("destroy", v)'
  BY DEF Watched
<1>1. Passing \subseteq Window
  BY WindowEventsAssumption
<1>2. known' = known /\ reaping' = reaping /\ unwatched \subseteq unwatched' /\ held' = held
  BY DEF Windows, WindowCreated, WindowNoticed, WindowDestroyed, WindowVanishes,
         WindowMoves, MoveEnds, SessionChanges, reaperVars
<1>3. ASSUME NEW e \in {"create", "destroy"}, Waiting(e, v) PROVE Waiting(e, v)'
  <2>1. ASSUME NEW w \in Passing, NEW d \in {"create", "notice", "destroy", "rect"},
               Hooked(d, w)
        PROVE  Waiting(e, v)'
    BY <1>1, <1>3, <2>1, HookedKeeps
  <2>2. ASSUME channel' = channel PROVE Waiting(e, v)'
    BY <1>3, <2>2 DEF Waiting
  <2> QED BY <2>1, <2>2 DEF Windows, WindowCreated, WindowNoticed, WindowDestroyed,
          WindowVanishes, WindowMoves, MoveEnds, SessionChanges
<1>4. CASE v \in alive \cup held
  BY <1>2, <1>3, <1>4 DEF Watched
<1>5. CASE v \notin alive \cup held
  <2>1. v \in Passing /\ WindowCreated(v)
    BY <1>2, <1>5 DEF Windows, WindowCreated, WindowNoticed, WindowDestroyed,
       WindowVanishes, WindowMoves, MoveEnds, SessionChanges
  <2>2. CASE interactive
    BY <1>1, <2>1, <2>2, HookedKeeps DEF WindowCreated
  <2>3. CASE ~interactive
    BY <2>1, <2>3 DEF WindowCreated
  <2> QED BY <2>2, <2>3
<1> QED BY <1>4, <1>5

LEMMA WatchedDispatch == TypeInv /\ Watched /\ Dispatch => Watched'
<1> SUFFICES ASSUME TypeInv, Watched, Dispatch, NEW v \in alive' \cup held'
             PROVE  \/ v \in known' \cup unwatched' \cup reaping'
                    \/ Waiting("create", v)' \/ Waiting("destroy", v)'
  BY DEF Watched
<1>1. ASSUME NEW d, NEW w, channel # <<>>, Head(channel) = <<d, w>>,
             channel' = Tail(channel),
             NEW e \in {"create", "destroy"}, e # d \/ v # w, Waiting(e, v)
      PROVE  Waiting(e, v)'
  BY <1>1, DispatchedContains
<1>2. CASE DispatchFound
  <2>1. v \in alive \cup held
    BY <1>2 DEF DispatchFound
  <2> QED BY <1>1, <1>2, <2>1 DEF Watched, DispatchFound
<1>3. CASE DispatchDestroy
  <2>1. PICK w \in Window : /\ channel # <<>> /\ Head(channel) = <<"destroy", w>>
                            /\ channel' = Tail(channel)
                            /\ known' = known \ {w} /\ held' = held \ {w}
                            /\ Unwatch(w, channel') /\ alive' = alive /\ reaping' = reaping
    BY <1>3 DEF DispatchDestroy
  <2>2. CASE v = w
    BY <2>1, <2>2 DEF Unwatch, Waiting
  <2>3. CASE v # w
    BY <1>1, <2>1, <2>3 DEF Watched, Unwatch
  <2> QED BY <2>2, <2>3
<1>4. CASE DispatchRect
  BY <1>1, <1>4 DEF Watched, DispatchRect, reaperVars
<1> QED BY <1>2, <1>3, <1>4 DEF Dispatch

LEMMA WatchedExterminate == TypeInv /\ Watched /\ Exterminate => Watched'
<1> SUFFICES ASSUME TypeInv, Watched, Exterminate, NEW v \in alive' \cup held'
             PROVE  \/ v \in known' \cup unwatched' \cup reaping'
                    \/ Waiting("create", v)' \/ Waiting("destroy", v)'
  BY DEF Watched
<1>1. alive' = alive /\ held' = held
  BY DEF Exterminate, Scan, ScanInserts, ListDead, ReportReaped, Reap
<1>2. CASE Scan \/ ScanInserts \/ ListDead
  BY <1>1, <1>2 DEF Watched, Waiting, Scan, ScanInserts, ListDead
<1>3. CASE ReportReaped
  BY <1>1, <1>3, ReportContains DEF Watched, Waiting, ReportReaped
<1>4. ASSUME NEW w \in Window, Reap(w)
      PROVE  \/ v \in known' \cup unwatched' \cup reaping'
             \/ Waiting("create", v)' \/ Waiting("destroy", v)'
  <2>1. reaping = {}
    BY <1>4, NothingRemoved DEF Reap
  <2> QED BY <1>1, <1>4, <2>1 DEF Watched, Waiting, Reap, Unwatch
<1> QED BY <1>2, <1>3, <1>4 DEF Exterminate

\* What the managers hold stays watched, or its end is on the way to them, however
\* the hook, the dispatcher and the exterminator interleave and whatever handles
\* Windows uses again. The excused windows are those in unwatched.
THEOREM NothingHeldForgotten == Spec => []HeldAreWatched
<1>1. Init => Watched
  BY DEF Init, Watched
<1>2. TypeInv /\ Watched /\ [Next]_vars => Watched'
  <2>1. Watched /\ UNCHANGED vars => Watched'
    BY DEF Watched, Waiting, vars, reaperVars
  <2>2. TypeInv /\ Watched /\ Debounce => Watched'
    <3> SUFFICES ASSUME TypeInv, Watched, Debounce PROVE Watched'
      OBVIOUS
    <3>1. \A e \in {"create", "destroy"}, w \in Window : Waiting(e, w)' <=> Waiting(e, w)
      BY FireContains
         DEF Debounce, ReceiveUpdate, ReceiveTerminate, TimeOut, Waiting
    <3> QED BY <3>1 DEF TypeInv, SetsOK, Watched, Debounce, ReceiveUpdate, ReceiveTerminate,
               TimeOut, reaperVars
  <2> QED BY <2>1, <2>2, WatchedWindows, WatchedDispatch, WatchedExterminate DEF Next
<1>3. Watched => HeldAreWatched
  BY DEF Watched, HeldAreWatched
<1> QED BY <1>1, <1>2, <1>3, TypeInit, TypeStep, PTL DEF Spec

LEMMA MarkedWindows == TypeInv /\ Marked /\ Windows => Marked'
<1> SUFFICES ASSUME TypeInv, Marked, Windows, NEW v \in alive', DeathPending(v)'
             PROVE  v \in again'
  BY DEF Marked
<1>1. Passing \subseteq Window
  BY WindowEventsAssumption
<1>2. reaping' = reaping /\ dead' = dead /\ reaper' = reaper
  BY DEF Windows, WindowCreated, WindowNoticed, WindowDestroyed, WindowVanishes,
         WindowMoves, MoveEnds, SessionChanges, reaperVars
<1>3. ASSUME NEW w \in Passing, NEW e \in {"create", "notice", "destroy", "rect"},
             Hooked(e, w), e # "destroy" \/ v # w
      PROVE  DeathPending(v)
  <2>1. Waiting("destroy", v)' => Waiting("destroy", v)
    BY <1>1, <1>3, HookedKeeps
  <2> QED BY <1>2, <2>1 DEF DeathPending
<1>4. ASSUME channel' = channel PROVE DeathPending(v)
  BY <1>2, <1>4 DEF DeathPending, Waiting
<1>5. ASSUME NEW w \in Passing, WindowCreated(w) PROVE v \in again'
  BY <1>3, <1>5 DEF Marked, WindowCreated
<1>6. ASSUME NEW w \in Passing, WindowNoticed(w) PROVE v \in again'
  BY <1>3, <1>6 DEF Marked, WindowNoticed
<1>7. ASSUME NEW w \in Passing, WindowDestroyed(w) PROVE v \in again'
  BY <1>3, <1>7 DEF Marked, WindowDestroyed
<1>8. ASSUME NEW w \in Passing, WindowVanishes(w) PROVE v \in again'
  BY <1>4, <1>8 DEF Marked, WindowVanishes
<1>9. ASSUME \/ \E w \in Window : WindowMoves(w)
             \/ MoveEnds \/ SessionChanges
      PROVE  v \in again'
  BY <1>4, <1>9 DEF Marked, WindowMoves, MoveEnds, SessionChanges
<1> QED BY <1>5, <1>6, <1>7, <1>8, <1>9 DEF Windows

LEMMA MarkedDispatch == TypeInv /\ Marked /\ Dispatch => Marked'
<1> SUFFICES ASSUME TypeInv, Marked, Dispatch, NEW v \in alive', DeathPending(v)'
             PROVE  v \in again'
  BY DEF Marked
<1>1. alive' = alive /\ reaping' = reaping /\ dead' = dead /\ reaper' = reaper
  BY DEF Dispatch, DispatchFound, DispatchDestroy, DispatchRect, reaperVars
<1>2. Waiting("destroy", v)' => Waiting("destroy", v)
  BY DispatchedContains DEF Dispatch, DispatchFound, DispatchDestroy, DispatchRect
<1>3. DeathPending(v)
  BY <1>1, <1>2 DEF DeathPending
<1>4. v \in again
  BY <1>1, <1>3 DEF Marked
<1> QED BY <1>4 DEF Dispatch, DispatchFound, DispatchDestroy, DispatchRect

LEMMA MarkedExterminate == TypeInv /\ Marked /\ Exterminate => Marked'
<1> SUFFICES ASSUME TypeInv, Marked, Exterminate, NEW v \in alive', DeathPending(v)'
             PROVE  v \in again'
  BY DEF Marked
<1>1. alive' = alive /\ again' = again
  BY DEF Exterminate, Scan, ScanInserts, ListDead, ReportReaped, Reap
<1>2. DeathPending(v)
  <2>1. CASE Scan \/ ScanInserts \/ ListDead
    BY <1>1, <2>1 DEF DeathPending, Waiting, Scan, ScanInserts, ListDead
  <2>2. CASE ReportReaped
    BY <2>2, ReportContains DEF DeathPending, Waiting, ReportReaped
  <2>3. ASSUME NEW w \in Window, Reap(w) PROVE DeathPending(v)
    BY <2>3 DEF DeathPending, Waiting, Reap
  <2> QED BY <2>1, <2>2, <2>3 DEF Exterminate
<1> QED BY <1>1, <1>2 DEF Marked

\* The managers let go of a window that lives only on an event that was meant for an
\* earlier window of its handle, from Windows or from the exterminator.
THEOREM OnlyTheDeadLetGo == Spec => LiveWindowsKept
<1>1. Init => Marked
  BY DEF Init, Marked, DeathPending, Waiting, Contains
<1>2. TypeInv /\ Marked /\ [Next]_vars => Marked'
  <2>1. Marked /\ UNCHANGED vars => Marked'
    BY DEF Marked, DeathPending, Waiting, vars, reaperVars
  <2>2. TypeInv /\ Marked /\ Debounce => Marked'
    <3> SUFFICES ASSUME TypeInv, Marked, Debounce PROVE Marked'
      OBVIOUS
    <3>1. \A w \in Window : Waiting("destroy", w)' <=> Waiting("destroy", w)
      BY FireContains
         DEF Debounce, ReceiveUpdate, ReceiveTerminate, TimeOut, Waiting
    <3> QED BY <3>1 DEF TypeInv, SetsOK, Marked, DeathPending, Debounce, ReceiveUpdate,
               ReceiveTerminate, TimeOut, reaperVars
  <2> QED BY <2>1, <2>2, MarkedWindows, MarkedDispatch, MarkedExterminate DEF Next
<1>3. TypeInv /\ Marked /\ [Next]_vars =>
        [\A w \in Window : w \in held \cap alive /\ w \notin held' => w \in again]_vars
  <2> SUFFICES ASSUME TypeInv, Marked, Next, NEW w \in held \cap alive, w \notin held'
               PROVE  w \in again
    OBVIOUS
  <2>1. DispatchDestroy /\ channel # <<>> /\ Head(channel) = <<"destroy", w>>
    BY DEF Next, Windows, WindowCreated, WindowNoticed, WindowDestroyed, WindowVanishes,
           WindowMoves, MoveEnds, SessionChanges, Debounce, ReceiveUpdate, ReceiveTerminate,
           TimeOut, Dispatch, DispatchFound, DispatchDestroy, DispatchRect, Exterminate,
           Scan, ScanInserts, ListDead, ReportReaped, Reap
  <2>2. DeathPending(w)
    BY <2>1, TailContains DEF DeathPending, Waiting, TypeInv, ChannelsOK
  <2> QED BY <2>2 DEF Marked
<1> QED BY <1>1, <1>2, <1>3, TypeInit, TypeStep, PTL DEF Spec, LiveWindowsKept
=============================================================================
