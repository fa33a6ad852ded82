---------------------------------- MODULE Glue ----------------------------------
(***************************************************************************)
(* start_web_ui of examples/minimal, register_shell_assets of assets.cpp   *)
(* and GET /api/status of status_core.cpp: the main task registers the     *)
(* routes and sets the status provider while the httpd worker already      *)
(* serves.  The route table is RouteTable's, which WebServer implements.   *)
(***************************************************************************)
EXTENDS Integers, Sequences, FiniteSets, SequencesExt

CONSTANTS
  KeyParses,   \* does parse_pubkey_hex accept OTA_PUBKEY?
  MaxRefused   \* bound: registrations that fail for lack of memory, per boot

VARIABLES
  up, listed,  \* the server and its routes (RouteTable)
  step,        \* where start_web_ui is: 0, a place in Wiring, or Finished
  provider,    \* g_provider: "none", "torn" (in its assignment) or "set"
  refused,     \* the URIs whose registration lacked memory, since the boot
  worker       \* the httpd worker in handle_status

vars == <<up, listed, step, provider, refused, worker>>

ShellAssets == <<"/", "/shell.css", "/shell.js", "/webui.css", "/webui.js",
                 "/themes/dark.css", "/themes/light.css",
                 "/vendor/pico.min.css", "/vendor/alpine.min.js">>

\* What start_web_ui does after start, in its order.
Wiring ==
  ShellAssets \o <<"/api/status", "set_provider", "/api/reboot">>
  \o (IF KeyParses THEN <<"/api/ota/upload">> ELSE <<>>)
  \o <<"/panels.html", "/panels.js", "/api/hello", "/api/events">>

Finished == Len(Wiring) + 1
Uris     == ToSet(Wiring) \ {"set_provider"}

\* Mutant: Config does not reach httpd_config_t, whose default is 8.
MaxUriHandlers_Default == 8

MaxUriHandlers == 24

Table == INSTANCE RouteTable
         WITH Keys <- Uris, Wild <- {}, Handlers <- Uris, MaxHandlers <- MaxUriHandlers

\* fields: did the provider add its fields?  short: did an allocation fail unnoticed?
\* calm is history: had start_web_ui finished when the request came?
Idle == [pc |-> "idle", fields |-> FALSE, short |-> FALSE, calm |-> FALSE]

Init ==
  /\ up = FALSE /\ listed = <<>> /\ step = 0
  /\ provider = "none" /\ refused = {} /\ worker = Idle

\* A panic, a loss of power or a reboot at any time.
Restart ==
  /\ up' = FALSE /\ listed' = <<>> /\ step' = 0
  /\ provider' = "none" /\ refused' = {} /\ worker' = Idle
-----------------------------------------------------------------------------
(* start_web_ui, on the main task.                                         *)

StartServer ==
  /\ step = 0
  /\ \/ Table!Start /\ step' = 1
     \/ UNCHANGED <<up, listed>> /\ step' = Finished
  /\ UNCHANGED <<provider, refused, worker>>

Uri == Wiring[step]

Accepted ==
  /\ Table!Accept([key |-> Uri, public |-> FALSE, handler |-> Uri])
  /\ step' = step + 1
  /\ UNCHANGED refused

\* Mutant: the route after a refused one is skipped.
AfterRefusal_SkipsNext == step + 2

\* register_shell_assets gives up at its first failure; start_web_ui ignores that.
AfterRefusal == IF step <= Len(ShellAssets) THEN Len(ShellAssets) + 1 ELSE step + 1

Refused ==
  /\ \/ /\ Cardinality(refused) < MaxRefused
        /\ refused' = refused \cup {Uri}
     \/ /\ Table!Matched(Uri) \/ Len(listed) = MaxUriHandlers
        /\ UNCHANGED refused
  /\ step' = AfterRefusal
  /\ UNCHANGED <<up, listed>>

Register ==
  /\ step \in 1 .. Len(Wiring) /\ Uri # "set_provider"
  /\ Accepted \/ Refused
  /\ UNCHANGED <<provider, worker>>

\* The assignment of a std::function is several writes.
SetProvider ==
  /\ step \in 1 .. Len(Wiring) /\ Uri = "set_provider"
  /\ \/ provider = "none" /\ provider' = "torn" /\ UNCHANGED step
     \/ provider = "torn" /\ provider' = "set" /\ step' = step + 1
  /\ UNCHANGED <<up, listed, refused, worker>>

StartWebUi == StartServer \/ Register \/ SetProvider
-----------------------------------------------------------------------------
(* Requests, on the worker.                                                *)

Registering == step < Finished

\* A request reaches its handler if the route is listed; while another one is being
\* registered it may miss it all the same (WebServer's finding).
Reaches(uri) == up /\ Table!Found(uri)
Misses(uri)  == up /\ (~Table!Found(uri) \/ Registering)

\* handle_status allocates its object (or sends a 500, which changes nothing here).
Take ==
  /\ worker.pc = "idle" /\ Reaches("/api/status")
  /\ worker' = [Idle EXCEPT !.pc = "test", !.calm = ~Registering]
  /\ UNCHANGED <<up, listed, step, provider, refused>>

Serving(from, w) ==
  /\ worker.pc = from /\ worker' = w
  /\ UNCHANGED <<up, listed, step, provider, refused>>

\* Mutant: the test is the wrong way round.
Test_Negated ==
  \/ provider # "set" /\ Serving("test", [worker EXCEPT !.pc = "call"])
  \/ provider # "none" /\ Serving("test", [worker EXCEPT !.pc = "print"])

\* if (g_provider); one that is being assigned reads as either.
Test ==
  \/ provider # "none" /\ Serving("test", [worker EXCEPT !.pc = "call"])
  \/ provider # "set" /\ Serving("test", [worker EXCEPT !.pc = "print"])

\* g_provider(root) adds its fields; what cJSON cannot allocate it leaves out.
\* A call of the half-assigned one may do nothing, or bring the device down (Restart).
CallProvider ==
  \/ Serving("call", [worker EXCEPT !.pc = "print", !.fields = TRUE])
  \/ Serving("call", [worker EXCEPT !.pc = "print", !.short = TRUE])
  \/ provider = "torn" /\ Serving("call", [worker EXCEPT !.pc = "print"])

\* cJSON_PrintUnformatted and the answer, the text or a 500; the object is deleted.
PrintStatus == Serving("print", Idle)

Next == StartWebUi \/ Take \/ Test \/ CallProvider \/ PrintStatus \/ Restart

Spec == Init /\ [][Next]_vars
-----------------------------------------------------------------------------
(* Properties.                                                             *)

TypeOK ==
  /\ up \in BOOLEAN /\ listed \in Seq(Table!Route)
  /\ step \in 0 .. Finished
  /\ provider \in {"none", "torn", "set"}
  /\ refused \subseteq Uris
  /\ worker \in [pc : {"idle", "test", "call", "print"},
                 fields : BOOLEAN, short : BOOLEAN, calm : BOOLEAN]

\* The shell assets that come after a refused one.
Behind == {ShellAssets[j] : j \in {j \in 1 .. Len(ShellAssets) :
                                     \E i \in 1 .. j - 1 : ShellAssets[i] \in refused}}

\* Once start_web_ui is through, a route is missing only because its registration
\* lacked memory or it is a shell asset behind such a one: none of the example's routes
\* matches another, and they fit into max_uri_handlers.
OnlyMemoryCosts ==
  up /\ ~Registering => {u \in Uris : ~Table!Found(u)} = refused \cup Behind

\* A status about to be sent that was asked for once start_web_ui was through, and met
\* no lack of memory, carries the provider's fields ("Invoked for every /api/status request",
\* status_core.h).
StatusComplete ==
  worker.pc = "print" /\ worker.calm /\ ~worker.short => worker.fields
===============================================================================
