------------------------------ MODULE PanelsProofs ------------------------------
(* Components fetch in sight only, and at once when they come into sight, for any    *)
(* tabs, any number of components and any number of fetches under way.               *)
EXTENDS Panels, SequenceTheorems, TLAPS

\* init sets the interval and the listeners, destroy takes them away.
LifeInv == \A p \in Pollers : /\ timer[p] <=> phase[p] = "live"
                              /\ wake[p] <=> phase[p] = "live"

\* discover finds the tabs of the page.
IdsInv == ids \subseteq ToSet(PageTabs)

IInv == TypeOK /\ LifeInv /\ IdsInv
-----------------------------------------------------------------------------
(* What refreshes and answers do to the fetches under way.                           *)

FlightOK(f) == f \in [Pollers -> Seq(BOOLEAN)] /\ \A p \in Pollers : Len(f[p]) <= MaxFlight

LEMMA Fetches ==
  ASSUME FlightOK(flight), NEW P, NEW A, Refresh(P, A)
  PROVE  /\ FlightOK(flight')
         /\ \A p \in Pollers : Len(flight'[p]) = IF p \in P \cap A THEN Len(flight[p]) + 1 ELSE Len(flight[p])
<1>1. ASSUME NEW p \in Pollers
      PROVE  /\ flight'[p] \in Seq(BOOLEAN)
             /\ Len(flight'[p]) = IF p \in P \cap A THEN Len(flight[p]) + 1 ELSE Len(flight[p])
             /\ Len(flight'[p]) <= MaxFlight
  <2>1. flight[p] \in Seq(BOOLEAN) /\ Len(flight[p]) \in Nat /\ Len(flight[p]) <= MaxFlight
    BY LenProperties DEF FlightOK
  <2>2. CASE p \in P \cap A
    <3>1. flight'[p] = Append(flight[p], FALSE) /\ Len(flight[p]) < MaxFlight
      BY <2>2 DEF Refresh
    <3> QED
      BY <2>1, <2>2, <3>1, PanelsOK, AppendProperties
  <2>3. CASE p \notin P \cap A
    BY <2>1, <2>3 DEF Refresh
  <2> QED
    BY <2>2, <2>3
<1>2. flight' = [p \in Pollers |-> flight'[p]]
  BY DEF Refresh
<1> QED
  BY <1>1, <1>2 DEF FlightOK

LEMMA Answered ==
  ASSUME FlightOK(flight), NEW p \in Pollers, Reply(p) \/ Fail(p)
  PROVE  /\ FlightOK(flight')
         /\ \A q \in Pollers : Len(flight'[q]) <= Len(flight[q])
<1>1. flight[p] \in Seq(BOOLEAN) /\ Len(flight[p]) \in Nat /\ Len(flight[p]) <= MaxFlight
  BY LenProperties DEF FlightOK
<1> DEFINE s == flight'[p]
<1>2. PICK i \in 1 .. Len(flight[p]) :
        /\ flight' = [flight EXCEPT ![p] = s]
        /\ \/ s = [j \in 1 .. Len(flight[p]) - 1 |-> IF j < i THEN TRUE ELSE flight[p][j + 1]]
           \/ s = RemoveAt(flight[p], i)
  BY DEF Reply, Fail, Settled, FlightOK
<1> HIDE DEF s
<1>3. s \in Seq(BOOLEAN) /\ Len(s) = Len(flight[p]) - 1
  <2>1. CASE s = [j \in 1 .. Len(flight[p]) - 1 |-> IF j < i THEN TRUE ELSE flight[p][j + 1]]
    <3>1. \A j \in 1 .. Len(flight[p]) - 1 : s[j] \in BOOLEAN
      <4> SUFFICES ASSUME NEW j \in 1 .. Len(flight[p]) - 1 PROVE s[j] \in BOOLEAN
        OBVIOUS
      <4>1. flight[p][j + 1] \in BOOLEAN
        BY <1>1, ElementOfSeq
      <4> QED
        BY <2>1, <4>1
    <3>2. Len(flight[p]) - 1 \in Nat
      BY <1>1
    <3>3. s \in [1 .. Len(flight[p]) - 1 -> BOOLEAN]
      BY <2>1, <3>1
    <3>4. s \in Seq(BOOLEAN)
      BY <3>2, <3>3, SeqDef
    <3> QED
      BY <3>2, <3>3, <3>4, LenProperties
  <2>2. CASE s = RemoveAt(flight[p], i)
    <3> DEFINE a == SubSeq(flight[p], 1, i - 1)
               b == SubSeq(flight[p], i + 1, Len(flight[p]))
    <3>1. \A k \in 1 .. Len(flight[p]) : flight[p][k] \in BOOLEAN
      BY <1>1, ElementOfSeq
    <3>2. a \in Seq(BOOLEAN) /\ Len(a) = i - 1
      BY <1>1, <3>1, SubSeqProperties
    <3>3. b \in Seq(BOOLEAN) /\ Len(b) = Len(flight[p]) - i
      BY <1>1, <3>1, SubSeqProperties
    <3>4. s = a \o b
      BY <2>2 DEF RemoveAt
    <3> HIDE DEF a, b
    <3> QED
      BY <1>1, <3>2, <3>3, <3>4, ConcatProperties
  <2> QED
    BY <1>2, <2>1, <2>2
<1>4. ASSUME NEW q \in Pollers
      PROVE  /\ flight'[q] \in Seq(BOOLEAN)
             /\ Len(flight'[q]) <= Len(flight[q]) /\ Len(flight'[q]) <= MaxFlight
  <2>1. flight[q] \in Seq(BOOLEAN) /\ Len(flight[q]) \in Nat /\ Len(flight[q]) <= MaxFlight
    BY LenProperties DEF FlightOK
  <2>2. flight'[q] = IF q = p THEN s ELSE flight[q]
    BY <1>2 DEF FlightOK
  <2> HIDE DEF FlightOK
  <2> QED
    BY <1>1, <1>3, <2>1, <2>2, PanelsOK
<1>5. flight' = [q \in Pollers |-> flight'[q]]
  BY <1>2 DEF FlightOK
<1> QED
  BY <1>4, <1>5 DEF FlightOK
-----------------------------------------------------------------------------
(* The inductive invariant.                                                          *)

LEMMA InitialIsOnPage ==
  Initial \in ToSet(PageTabs) /\ ToSet(PageTabs) \subseteq Tabs
<1>1. PageTabs \in Seq(Tabs) /\ Len(PageTabs) \in Nat \ {0}
  BY PanelsOK, EmptySeq
<1>2. \A i \in 1 .. Len(PageTabs) : PageTabs[i] \in Tabs
  BY <1>1, ElementOfSeq
<1> QED
  BY <1>1, <1>2 DEF Initial, ToSet

\* Between two steps every component has its interval and its listeners exactly while
\* it is mounted.
LEMMA Inductive == IInv /\ [Next]_vars => IInv'
<1> SUFFICES ASSUME IInv, [Next]_vars PROVE IInv'
  OBVIOUS
<1> USE DEF IInv
<1>1. FlightOK(flight)
  BY DEF TypeOK, FlightOK
<1>2. ASSUME FlightOK(flight'), UNCHANGED <<life, view, error>>,
             ids' \subseteq ToSet(PageTabs), active' \in ToSet(PageTabs) \cup {None},
             hash' \in Tabs \cup {None}, hidden' \in BOOLEAN
      PROVE  IInv'
  BY <1>2, InitialIsOnPage DEF TypeOK, LifeInv, IdsInv, FlightOK, life
<1>3. CASE Discover
  <2>1. FlightOK(flight')
    BY <1>1, <1>3, Fetches DEF Discover, Show
  <2> QED
    BY <1>2, <1>3, <2>1, InitialIsOnPage DEF Discover, Show, TypeOK
<1>4. ASSUME NEW id \in Tabs, Activate(id) PROVE IInv'
  <2>1. FlightOK(flight')
    BY <1>1, <1>4, Fetches DEF Activate, Show
  <2> QED
    BY <1>2, <1>4, <2>1 DEF Activate, Show, TypeOK, IdsInv
<1>5. CASE Visibility
  <2>1. FlightOK(flight')
    BY <1>1, <1>5, Fetches DEF Visibility
  <2> QED
    BY <1>2, <1>5, <2>1 DEF Visibility, TypeOK, IdsInv
<1>6. ASSUME NEW p \in Pollers, Mount(p) PROVE IInv'
  <2>1. FlightOK(flight')
    BY <1>1, <1>6, Fetches DEF Mount
  <2> QED
    BY <1>6, <2>1 DEF Mount, TypeOK, LifeInv, IdsInv, FlightOK, page
<1>7. ASSUME NEW p \in Pollers, Tick(p) PROVE IInv'
  <2>1. FlightOK(flight')
    BY <1>1, <1>7, Fetches DEF Tick
  <2> QED
    BY <1>2, <1>7, <2>1 DEF Tick, TypeOK, IdsInv, page
<1>8. ASSUME NEW p \in Pollers, Reply(p) \/ Fail(p) PROVE IInv'
  <2>1. FlightOK(flight')
    BY <1>1, <1>8, Answered
  <2>2. view' \in [Pollers -> {"none", "fresh", "stale"}] /\ error' \in [Pollers -> BOOLEAN]
    BY <1>8 DEF Reply, Fail, TypeOK
  <2>3. UNCHANGED <<page, life>>
    BY <1>8 DEF Reply, Fail
  <2> QED
    BY <2>1, <2>2, <2>3 DEF TypeOK, LifeInv, IdsInv, FlightOK, page, life
<1>9. ASSUME NEW p \in Pollers, Clear(p) \/ Destroy(p) PROVE IInv'
  <2>1. CASE Clear(p)
    BY <2>1 DEF Clear, TypeOK, LifeInv, IdsInv, page, life
  <2>2. CASE Destroy(p)
    BY <2>2 DEF Destroy, TypeOK, LifeInv, IdsInv, page
  <2> QED
    BY <1>9, <2>1, <2>2
<1>10. CASE UNCHANGED vars
  BY <1>10 DEF vars, TypeOK, LifeInv, IdsInv, page, life
<1> QED
  BY <1>3, <1>4, <1>5, <1>6, <1>7, <1>8, <1>9, <1>10 DEF Next

LEMMA Always == Spec => []IInv
<1>1. Init => IInv
  BY PanelsOK, EmptySeq DEF Init, IInv, TypeOK, LifeInv, IdsInv
<1> QED
  BY <1>1, Inductive, PTL DEF Spec
-----------------------------------------------------------------------------
\* Tabs, pollers and viewers keep their state in its types; the tab in front is one of
\* the page, whatever the location's hash says.
THEOREM TypeCorrect == Spec => []TypeOK
<1>1. IInv => TypeOK
  BY DEF IInv
<1> QED
  BY Always, <1>1, PTL

\* webui.js's _can_poll and destroy: no interval and no listener starts a fetch for a
\* component that is out of sight or gone.
THEOREM OnlyInSight == Spec => FetchesInSight
<1> DEFINE Ask == \A p \in Pollers :
                    Len(flight'[p]) > Len(flight[p]) => phase'[p] = "live" /\ CanPoll(p)'
<1>1. IInv /\ [Next]_vars => [Ask]_vars
  <2> SUFFICES ASSUME IInv, Next, NEW p \in Pollers, Len(flight'[p]) > Len(flight[p])
               PROVE  phase'[p] = "live" /\ CanPoll(p)'
    BY DEF vars
  <2> USE DEF IInv
  <2>1. FlightOK(flight) /\ Len(flight[p]) \in Nat
    BY LenProperties DEF TypeOK, FlightOK
  <2>2. flight' # flight
    OBVIOUS
  <2>3. ~(\E q \in Pollers : Reply(q) \/ Fail(q))
    <3> SUFFICES ASSUME NEW q \in Pollers, Reply(q) \/ Fail(q) PROVE FALSE
      OBVIOUS
    <3>1. Len(flight'[p]) <= Len(flight[p]) /\ Len(flight'[p]) \in Nat
      BY <2>1, Answered, LenProperties DEF FlightOK
    <3> QED
      BY <2>1, <3>1
  <2>4. CASE Discover \/ \E id \in Tabs : Activate(id)
    <3>1. Refresh(Listening, Able') /\ phase' = phase
      BY <2>4 DEF Discover, Activate, Show, life
    <3>2. p \in Listening \cap Able'
      BY <2>1, <3>1, Fetches
    <3> QED
      BY <3>1, <3>2 DEF Listening, Able, LifeInv
  <2>5. CASE Visibility
    <3>1. Refresh({q \in Pollers : wake[q]}, Able') /\ phase' = phase
      BY <2>5 DEF Visibility, life
    <3>2. wake[p] /\ p \in Able'
      BY <2>1, <3>1, Fetches
    <3> QED
      BY <3>1, <3>2 DEF Able, LifeInv
  <2>6. ASSUME NEW q \in Pollers, Mount(q) \/ Tick(q)
        PROVE  phase'[p] = "live" /\ CanPoll(p)'
    <3>1. Refresh({q}, Able) /\ UNCHANGED page /\ phase'[q] = "live"
      BY <2>6 DEF Mount, Tick, life, LifeInv, TypeOK
    <3>2. p = q /\ p \in Able
      BY <2>1, <3>1, Fetches
    <3> QED
      BY <3>1, <3>2 DEF Able, CanPoll, page
  <2> QED
    BY <2>2, <2>3, <2>4, <2>5, <2>6 DEF Next, Clear, Destroy
<1> QED
  BY Always, <1>1, PTL DEF Spec, FetchesInSight

\* The webui:tab and visibilitychange listeners of poll and logViewer: coming into sight
\* starts a fetch at once and does not wait for the interval.
THEOREM AtOnce == Spec => CatchesUp
<1> DEFINE Ask == \A p \in Pollers :
                    phase[p] = "live" /\ ~CanPoll(p) /\ CanPoll(p)' => Len(flight'[p]) > Len(flight[p])
<1>1. IInv /\ [Next]_vars => [Ask]_vars
  <2> SUFFICES ASSUME IInv, Next, NEW p \in Pollers, phase[p] = "live", ~CanPoll(p), CanPoll(p)'
               PROVE  Len(flight'[p]) > Len(flight[p])
    BY DEF vars
  <2> USE DEF IInv
  <2>1. FlightOK(flight) /\ Len(flight[p]) \in Nat /\ wake[p] /\ p \in Able'
    BY LenProperties DEF TypeOK, FlightOK, LifeInv, Able
  <2>2. CASE Discover \/ \E id \in Tabs : Activate(id)
    <3>1. Refresh(Listening, Able') /\ hidden' = hidden
      BY <2>2 DEF Discover, Activate, Show
    <3>2. p \in Listening
      BY <2>1, <3>1 DEF Listening, CanPoll
    <3> QED
      BY <2>1, <3>1, <3>2, Fetches
  <2>3. CASE Visibility
    <3>1. Refresh({q \in Pollers : wake[q]}, Able')
      BY <2>3 DEF Visibility
    <3> QED
      BY <2>1, <3>1, Fetches
  <2>4. active' # active \/ hidden' # hidden
    BY DEF CanPoll
  <2> QED
    BY <2>2, <2>3, <2>4 DEF Next, Mount, Tick, Reply, Fail, Clear, Destroy, page
<1> QED
  BY Always, <1>1, PTL DEF Spec, CatchesUp
===============================================================================
