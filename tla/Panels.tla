--------------------------------- MODULE Panels ---------------------------------
(***************************************************************************)
(* The browser's side of the panels, assets/webui.js: the tab manager      *)
(* (tabs), and the components that poll an endpoint (poll and logViewer,   *)
(* which share their refresh, init and destroy).  An action is one task of *)
(* the browser's event loop; a fetch under way is what an await leaves     *)
(* behind, and its reply may come after those of later ones.               *)
(***************************************************************************)
EXTENDS Integers, Sequences, SequencesExt

CONSTANTS
  Tabs,       \* the tabs a location hash may name
  PageTabs,   \* the [data-tab] ids of the page, in document order
  None,       \* no tab
  Pollers,    \* the components
  Viewers,    \* those made by logViewer
  TabOf,      \* the tab option of each component, or None
  MaxFlight   \* bound: the fetches a component may have under way

ASSUME PanelsOK ==
  /\ PageTabs \in Seq(Tabs) /\ PageTabs # <<>>
  /\ None \notin Tabs
  /\ Viewers \subseteq Pollers
  /\ TabOf \in [Pollers -> Tabs \cup {None}]
  /\ MaxFlight \in Nat \ {0}

VARIABLES
  ids,      \* tabs._ids
  active,   \* the tab whose button and panel have the class "active"
  hash,     \* location.hash
  hidden,   \* document.hidden
  phase,    \* of each component: "new", "live" or "gone"
  timer,    \* has it its interval?
  wake,     \* does it listen to visibilitychange and, if it has a tab, to webui:tab?
  flight,   \* its fetches under way, oldest first: has a later one been answered?
  view,     \* what it shows: "none", the "fresh"est answer so far or a "stale" one
  error     \* does it show an error?

page == <<ids, active, hash, hidden>>
life == <<phase, timer, wake>>
vars == <<page, life, flight, view, error>>

Init ==
  /\ ids = {} /\ active = None /\ hash \in Tabs \cup {None}
  /\ hidden \in BOOLEAN
  /\ phase = [p \in Pollers |-> "new"]
  /\ timer = [p \in Pollers |-> FALSE]
  /\ wake = [p \in Pollers |-> FALSE]
  /\ flight = [p \in Pollers |-> <<>>]
  /\ view = [p \in Pollers |-> "none"]
  /\ error = [p \in Pollers |-> FALSE]

\* _can_poll
CanPoll(p) == ~hidden /\ TabOf[p] \in {None, active}

\* refresh of every component of P: those that can poll, as the page is after the
\* step (or as it was, for a mutant), start a fetch.
Refresh(P, able) ==
  /\ \A p \in P \cap able : Len(flight[p]) < MaxFlight
  /\ flight' = [p \in Pollers |-> IF p \in P \cap able THEN Append(flight[p], FALSE)
                                                      ELSE flight[p]]

Able == {p \in Pollers : CanPoll(p)}
-----------------------------------------------------------------------------
(* tabs                                                                    *)

Listening == {p \in Pollers : wake[p] /\ TabOf[p] # None}

\* Mutant: webui:tab is dispatched before the classes are toggled.
Show_EventFirst(id) ==
  /\ active' = id /\ hash' = id
  /\ Refresh(Listening, Able)

\* activate: classes, hash, then the webui:tab event.
Show(id) ==
  /\ active' = id /\ hash' = id
  /\ Refresh(Listening, Able')

\* Mutant: the hash is taken as it is.
Initial_Hash == IF hash # None THEN hash ELSE PageTabs[1]

Initial == IF hash \in ToSet(PageTabs) THEN hash ELSE PageTabs[1]

Discover ==
  /\ ids = {}
  /\ ids' = ToSet(PageTabs)
  /\ UNCHANGED <<hidden, life, view, error>>
  /\ Show(Initial)

Activate(id) ==
  /\ id \in ids
  /\ UNCHANGED <<ids, hidden, life, view, error>>
  /\ Show(id)

\* The page is hidden, or shown again.
Visibility ==
  /\ hidden' = ~hidden
  /\ UNCHANGED <<ids, active, hash, life, view, error>>
  /\ Refresh({p \in Pollers : wake[p]}, Able')
-----------------------------------------------------------------------------
(* poll and logViewer                                                      *)

\* Mutant: only the first refresh, no interval.
Mount_NoTimer(p) ==
  /\ phase[p] = "new"
  /\ phase' = [phase EXCEPT ![p] = "live"]
  /\ wake' = [wake EXCEPT ![p] = TRUE]
  /\ Refresh({p}, Able)
  /\ UNCHANGED <<page, timer, view, error>>

\* init
Mount(p) ==
  /\ phase[p] = "new"
  /\ phase' = [phase EXCEPT ![p] = "live"]
  /\ timer' = [timer EXCEPT ![p] = TRUE]
  /\ wake' = [wake EXCEPT ![p] = TRUE]
  /\ Refresh({p}, Able)
  /\ UNCHANGED <<page, view, error>>

Tick(p) ==
  /\ timer[p]
  /\ Refresh({p}, Able)
  /\ UNCHANGED <<page, life, view, error>>

\* The i-th fetch of p is answered; the older ones are overtaken by it.
Settled(p, i) ==
  flight' = [flight EXCEPT ![p] =
    [j \in 1 .. Len(@) - 1 |-> IF j < i THEN TRUE ELSE @[j + 1]]]

Reply(p) ==
  \E i \in 1 .. Len(flight[p]) :
    /\ Settled(p, i)
    /\ view' = [view EXCEPT ![p] = IF flight[p][i] THEN "stale" ELSE "fresh"]
    /\ error' = [error EXCEPT ![p] = FALSE]
    /\ UNCHANGED <<page, life>>

\* A failed fetch leaves what is shown.
Fail(p) ==
  \E i \in 1 .. Len(flight[p]) :
    /\ flight' = [flight EXCEPT ![p] = RemoveAt(@, i)]
    /\ error' = [error EXCEPT ![p] = TRUE]
    /\ UNCHANGED <<page, life, view>>

\* logViewer's clear
Clear(p) ==
  /\ p \in Viewers /\ phase[p] = "live"
  /\ view' = [view EXCEPT ![p] = "none"]
  /\ error' = [error EXCEPT ![p] = FALSE]
  /\ UNCHANGED <<page, life, flight>>

\* Mutant: the listeners stay.
Destroy_KeepsWake(p) ==
  /\ phase[p] = "live"
  /\ phase' = [phase EXCEPT ![p] = "gone"]
  /\ timer' = [timer EXCEPT ![p] = FALSE]
  /\ UNCHANGED <<page, wake, flight, view, error>>

\* destroy; fetches under way are not aborted.
Destroy(p) ==
  /\ phase[p] = "live"
  /\ phase' = [phase EXCEPT ![p] = "gone"]
  /\ timer' = [timer EXCEPT ![p] = FALSE]
  /\ wake' = [wake EXCEPT ![p] = FALSE]
  /\ UNCHANGED <<page, flight, view, error>>
-----------------------------------------------------------------------------
Next ==
  \/ Discover \/ Visibility
  \/ \E id \in Tabs : Activate(id)
  \/ \E p \in Pollers :
       Mount(p) \/ Tick(p) \/ Reply(p) \/ Fail(p) \/ Clear(p) \/ Destroy(p)

Spec == Init /\ [][Next]_vars

\* Intervals go on firing, and the browser settles every fetch.
FairSpec ==
  Spec /\ \A p \in Pollers : WF_vars(Tick(p)) /\ WF_vars(Reply(p) \/ Fail(p))
-----------------------------------------------------------------------------
(* Properties.                                                             *)

TypeOK ==
  /\ ids \subseteq Tabs
  /\ active \in ToSet(PageTabs) \cup {None} /\ hash \in Tabs \cup {None}
  /\ hidden \in BOOLEAN
  /\ phase \in [Pollers -> {"new", "live", "gone"}]
  /\ timer \in [Pollers -> BOOLEAN] /\ wake \in [Pollers -> BOOLEAN]
  /\ flight \in [Pollers -> Seq(BOOLEAN)]
  /\ \A p \in Pollers : Len(flight[p]) <= MaxFlight
  /\ view \in [Pollers -> {"none", "fresh", "stale"}]
  /\ error \in [Pollers -> BOOLEAN]

\* A fetch starts only for a component that is mounted, on a page that is visible
\* with the component's tab in front: no source of refreshes outlives destroy.
FetchesInSight ==
  [][\A p \in Pollers :
       Len(flight'[p]) > Len(flight[p]) => phase'[p] = "live" /\ CanPoll(p)']_vars

\* A component that comes into sight starts a fetch in that very step.
CatchesUp ==
  [][\A p \in Pollers :
       phase[p] = "live" /\ ~CanPoll(p) /\ CanPoll(p)'
         => Len(flight'[p]) > Len(flight[p])]_vars

\* A component that stays in sight and shows nothing comes to show something, be it
\* an error.
ShowsSomething ==
  \A p \in Pollers :
    (phase[p] = "live" /\ view[p] = "none" /\ ~error[p])
      ~> (view[p] # "none" \/ error[p] \/ ~CanPoll(p) \/ phase[p] = "gone")
===============================================================================
