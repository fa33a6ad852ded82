---------------------------------- MODULE Shell ----------------------------------
(***************************************************************************)
(* The page of assets/shell.html and shell.js against a device: its files, *)
(* the project's panels, and the status card that asks every 5 s.  The     *)
(* device wires its routes and serves as Glue says, and restarts whenever  *)
(* it likes; the network loses what it likes.                              *)
(*                                                                         *)
(* The user is logged in, and reloads a page only when its loading is      *)
(* over.  A page that lacks one of its files does nothing more.            *)
(***************************************************************************)
EXTENDS Integers

CONSTANTS
  KeyParses, MaxRefused,
  MaxPolls   \* bound: status requests under way

ASSUME ShellOK == KeyParses \in BOOLEAN /\ MaxRefused \in Nat /\ MaxPolls \in Nat \ {0}

VARIABLES
  up, listed, step, provider, refused, worker,   \* the device (Glue)
  fetched,   \* how far the page is with each file
  panels,    \* "none", "shown" or "skipped"
  polls,     \* the status card's requests that the device has not taken up
  served,    \* is the request in handle_status one of this page?
  card,      \* the status dot, and does raw come from the device's present boot?
  calm       \* history: opened on a wired device, and nothing was lost since

device == <<up, listed, step, provider, refused, worker>>
page   == <<fetched, panels, polls, served, card, calm>>
vars   == <<device, page>>

Device == INSTANCE Glue

Html    == "/panels.html"
Script  == "/panels.js"
Scripts == {"/webui.js", "/shell.js", "/vendor/alpine.min.js"}
Files   == Scripts \cup {"/", Html, Script}

Init ==
  /\ Device!Init
  /\ fetched = [f \in Files |-> "none"]
  /\ panels = "none" /\ polls = 0 /\ served = FALSE
  /\ card = [on |-> FALSE, current |-> FALSE]
  /\ calm = FALSE

Asked(fs) == [f \in Files |-> IF f \in fs THEN "asked" ELSE fetched[f]]

\* Alpine is up: the page has all its scripts.
Bootstrapped == \A f \in Scripts : fetched[f] = "ok"

\* No file of the page is under way, and none is about to be asked for.
Quiet ==
  /\ \A f \in Files : fetched[f] # "asked"
  /\ fetched["/"] = "ok" => fetched["/shell.js"] # "none"
  /\ Bootstrapped => panels # "none"
-----------------------------------------------------------------------------
(* The page.                                                               *)

\* A tab is opened or reloaded; the old page's requests are given up.
Open ==
  /\ Quiet
  /\ fetched' = [f \in Files |-> IF f = "/" THEN "asked" ELSE "none"]
  /\ panels' = "none" /\ polls' = 0 /\ served' = FALSE
  /\ card' = [on |-> FALSE, current |-> FALSE]
  /\ calm' = (up /\ step = Device!Finished /\ refused = {})
  /\ UNCHANGED device

\* The browser parses the page and asks for its scripts; Alpine is cacheable.
Parse ==
  /\ fetched["/"] = "ok" /\ fetched["/shell.js"] = "none"
  /\ \/ fetched' = Asked(Scripts)
     \/ fetched' = [Asked(Scripts) EXCEPT !["/vendor/alpine.min.js"] = "ok"]
  /\ UNCHANGED <<device, panels, polls, served, card, calm>>

\* Mutant: the script element is never appended.
Initialized_NoScript ==
  /\ Bootstrapped /\ fetched[Html] = "none"
  /\ fetched' = Asked({Html})
  /\ polls' = polls + 1
  /\ UNCHANGED <<device, panels, served, card, calm>>

\* Alpine is up: the status card loads, load_project_panels asks for both files.
Initialized ==
  /\ Bootstrapped /\ fetched[Html] = "none"
  /\ fetched' = Asked({Html, Script})
  /\ polls' = polls + 1
  /\ UNCHANGED <<device, panels, served, card, calm>>

\* Mutant: the markup does not wait for the script.
Inject_AtOnce ==
  /\ panels = "none"
  /\ fetched[Html] \notin {"none", "asked"}
  /\ panels' = IF fetched[Html] = "ok" THEN "shown" ELSE "skipped"
  /\ UNCHANGED <<device, fetched, polls, served, card, calm>>

\* load_project_panels after its awaits: first the script, loaded or not, then the
\* markup, if it came.
Inject ==
  /\ panels = "none"
  /\ fetched[Script] \notin {"none", "asked"}
  /\ fetched[Html] \notin {"none", "asked"}
  /\ panels' = IF fetched[Html] = "ok" THEN "shown" ELSE "skipped"
  /\ UNCHANGED <<device, fetched, polls, served, card, calm>>

\* Mutant: the interval ends with the first error.
Tick_WhileOn ==
  /\ fetched[Html] # "none" /\ polls < MaxPolls /\ card.on
  /\ polls' = polls + 1
  /\ UNCHANGED <<device, fetched, panels, served, card, calm>>

\* The 5 s interval of the status card.
Tick ==
  /\ fetched[Html] # "none" /\ polls < MaxPolls
  /\ polls' = polls + 1
  /\ UNCHANGED <<device, fetched, panels, served, card, calm>>
-----------------------------------------------------------------------------
(* Requests and answers.                                                   *)

Settled(f, result) == fetched[f] = "asked" /\ fetched' = [fetched EXCEPT ![f] = result]

\* The worker sends an embedded file, or a 404.
Serve(f) ==
  /\ worker.pc = "idle"
  /\ \/ Device!Reaches(f) /\ Settled(f, "ok")
     \/ Device!Misses(f) /\ Settled(f, "404")
  /\ UNCHANGED <<device, panels, polls, served, card, calm>>

\* The network loses a request for a file.
Lose(f) ==
  /\ Settled(f, "lost")
  /\ calm' = FALSE
  /\ UNCHANGED <<device, panels, polls, served, card>>

TakeStatus ==
  /\ polls > 0
  /\ Device!Take
  /\ polls' = polls - 1 /\ served' = TRUE
  /\ UNCHANGED <<fetched, panels, card, calm>>

\* load after its await, unless the page that asked is gone: the values arrive, or its
\* catch puts the dot out and keeps the old ones.
Shows(ok) == card' = IF ok THEN [on |-> TRUE, current |-> TRUE] ELSE [card EXCEPT !.on = FALSE]

\* The status is sent, and arrives; or it is a 500, or lost.
StatusSent(ok) ==
  /\ Device!PrintStatus
  /\ IF served THEN Shows(ok) ELSE UNCHANGED card
  /\ served' = FALSE
  /\ UNCHANGED <<fetched, panels, polls, calm>>

\* A status request is lost, or answered 404 or 500 at once.
StatusMissed ==
  /\ polls > 0 /\ polls' = polls - 1
  /\ Shows(FALSE)
  /\ UNCHANGED <<device, fetched, panels, served, calm>>

\* The device restarts: whatever was under way fails.
Restart ==
  /\ Device!Restart
  /\ fetched' = [f \in Files |-> IF fetched[f] = "asked" THEN "lost" ELSE fetched[f]]
  /\ polls' = 0 /\ served' = FALSE
  /\ card' = [on |-> card.on /\ polls = 0 /\ ~served, current |-> FALSE]
  /\ calm' = FALSE
  /\ UNCHANGED panels

DeviceStep ==
  /\ Device!StartWebUi \/ Device!Test \/ Device!CallProvider
  /\ UNCHANGED page
-----------------------------------------------------------------------------
Next ==
  \/ Open \/ Parse \/ Initialized \/ Inject \/ Tick
  \/ \E f \in Files : Serve(f) \/ Lose(f)
  \/ TakeStatus \/ StatusMissed
  \/ \E ok \in BOOLEAN : StatusSent(ok)
  \/ Restart \/ DeviceStep

Spec == Init /\ [][Next]_vars

\* start_web_ui runs on, the browser's tasks run, the worker answers what arrives, and
\* neither the network nor the heap fails every status request.
FairSpec ==
  /\ Spec
  /\ WF_vars(DeviceStep) /\ WF_vars(Parse) /\ WF_vars(Initialized) /\ WF_vars(Inject)
  /\ WF_vars(Tick) /\ WF_vars(\E ok \in BOOLEAN : StatusSent(ok))
  /\ SF_vars(\E f \in Files : Serve(f))
  /\ SF_vars(TakeStatus) /\ SF_vars(StatusSent(TRUE) /\ served)
-----------------------------------------------------------------------------
(* Properties.                                                             *)

Outcome == {"none", "asked", "ok", "404", "lost"}

TypeOK ==
  /\ Device!TypeOK
  /\ fetched \in [Files -> Outcome]
  /\ panels \in {"none", "shown", "skipped"}
  /\ polls \in 0 .. MaxPolls /\ served \in BOOLEAN
  /\ card \in [on : BOOLEAN, current : BOOLEAN]
  /\ calm \in BOOLEAN

OnlyMemoryCosts == Device!OnlyMemoryCosts
StatusComplete  == Device!StatusComplete

\* "panels.js MUST finish executing before we inject panels.html into the DOM"
\* (shell.js): panels never show without their script on a page that was opened on a
\* wired device and lost nothing.
PanelsComplete == calm /\ panels = "shown" => fetched[Script] = "ok"

\* Such a page shows the project's panels in the end.
PanelsAppear == (calm /\ fetched["/"] = "asked") ~> (panels = "shown" \/ ~calm)

\* While a page stays open and the device stays up with its status route, the card
\* shows that device's status again and again, whatever the page went through before.
Reconnects ==
  <>[](fetched[Html] # "none" /\ Device!Reaches("/api/status"))
    => []<>(card.on /\ card.current)
===============================================================================
