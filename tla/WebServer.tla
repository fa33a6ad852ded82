------------------------------- MODULE WebServer -------------------------------
(***************************************************************************)
(* The route table and the auth middleware of src/web/server.cpp: start,   *)
(* stop and register_route on the glue's task, auth_dispatcher on the      *)
(* httpd worker.  The two share g_routes, a vector without a lock.         *)
(*                                                                         *)
(* check_basic is two steps here, Seed and Look of Credentials, which Auth *)
(* implements.  httpd itself (its handler table, how httpd_stop waits for  *)
(* the worker) is external.                                                *)
(***************************************************************************)
EXTENDS Integers, Sequences, FiniteSets

CONSTANTS
  Keys,      \* a method and a URI
  Wild,      \* the keys whose URI is a pattern for every other one
  Handlers,  \* the functions that may be registered
  Creds,     \* credentials
  Nobody,    \* no credentials: open
  MaxHandlers   \* Config.max_uri_handlers

ASSUME ServerOK ==
  /\ Keys # {} /\ Wild \subseteq Keys
  /\ Nobody \notin Creds
  /\ MaxHandlers \in Nat \ {0}

VARIABLES
  server,    \* g_server: "down" or "up"
  config,    \* g_config's credentials
  routes,    \* g_routes
  cap,       \* the capacity of g_routes
  table,     \* the keys that httpd sends to auth_dispatcher
  glue,      \* "idle", "pushed" (in register_route_impl) or "stopping" (in stop)
  active,    \* s_active's credentials
  job        \* the worker's request and the locals of auth_dispatcher

table_side == <<server, config, routes, cap, table, glue>>
vars == <<table_side, active, job>>

Route   == [key : Keys, public : BOOLEAN, handler : Handlers]
Unasked == "unasked"
AnyKey  == CHOOSE k \in Keys : TRUE

(***************************************************************************)
(* pc is idle, scan, gate and ask (in check_basic), call, run or done;     *)
(* known tells whether the key was in the table when the request came; the *)
(* range-for is at one place of at .. end and over the current storage of  *)
(* g_routes or a former one; asked is what check_basic compared with;      *)
(* clash and stale are history: was a route being registered at some       *)
(* moment of the request, and was a destroyed Route read for it?           *)
(***************************************************************************)
NoJob == [pc |-> "idle", key |-> AnyKey, creds |-> Nobody, known |-> FALSE,
          at |-> 1, end |-> 0, current |-> TRUE, clash |-> FALSE, stale |-> FALSE,
          asked |-> Unasked, answer |-> "ok",
          found |-> [key |-> AnyKey, public |-> FALSE, handler |-> "none"]]

Init ==
  /\ server = "down" /\ config = Nobody
  /\ routes = <<>> /\ cap = 0 /\ table = {}
  /\ glue = "idle" /\ active = Nobody
  /\ job = NoJob
-----------------------------------------------------------------------------
(* The glue's task.                                                        *)

\* start, when no server runs (otherwise it returns the handle and nothing else).
Start(c) ==
  /\ glue = "idle" /\ server = "down"
  /\ config' = c
  /\ routes' = <<>>
  /\ server' \in {"up", "down"}
  /\ UNCHANGED <<cap, table, glue, active, job>>

\* Mutant: a new route goes to the front.
Listed_First(r) == <<r>> \o routes

Listed(r) == Append(routes, r)

\* push_back; a full vector moves to storage twice as large.
Push(r) ==
  /\ glue = "idle" /\ server = "up"
  /\ routes' = Listed(r)
  /\ job' = [job EXCEPT !.current = @ /\ (Len(routes) < cap \/ job.pc = "idle"),
                        !.clash = (job.pc # "idle")]
  /\ cap' = IF Len(routes) < cap THEN cap ELSE IF cap = 0 THEN 1 ELSE 2 * cap
  /\ glue' = "pushed"
  /\ UNCHANGED <<server, config, table, active>>

Pushed == routes[Len(routes)].key

\* httpd sends the request k to the dispatcher when a key of its table matches.
Matched(k) == k \in table \/ table \cap Wild # {}

\* Mutant: a refused route stays in g_routes.
Refuse_Keeps == UNCHANGED <<table, routes>>

\* httpd_register_uri_handler refuses a key that is matched already, any when it is
\* full, and whatever it cannot allocate; the route is popped again.
Refuse ==
  /\ routes' = SubSeq(routes, 1, Len(routes) - 1)
  /\ UNCHANGED table

Admit ==
  /\ ~Matched(Pushed) /\ Cardinality(table) < MaxHandlers
  /\ table' = table \cup {Pushed}
  /\ UNCHANGED routes

Register ==
  /\ glue = "pushed" /\ glue' = "idle"
  /\ Refuse \/ Admit
  /\ UNCHANGED <<server, config, cap, active, job>>

\* Mutant: g_routes is cleared before httpd_stop.
Stop_ClearsFirst ==
  /\ glue = "idle" /\ server = "up"
  /\ glue' = "stopping" /\ routes' = <<>>
  /\ UNCHANGED <<server, config, cap, table, active, job>>

\* stop: httpd_stop waits for the worker, then g_routes is cleared.
Stop ==
  /\ glue = "idle" /\ server = "up"
  /\ glue' = "stopping"
  /\ UNCHANGED <<server, config, routes, cap, table, active, job>>

\* Mutant: the routes are left to the next start.
Stopped_KeepsRoutes ==
  /\ glue = "stopping" /\ glue' = "idle" /\ job.pc = "idle"
  /\ server' = "down" /\ table' = {}
  /\ UNCHANGED <<routes, config, cap, active, job>>

Stopped ==
  /\ glue = "stopping" /\ glue' = "idle" /\ job.pc = "idle"
  /\ server' = "down" /\ table' = {} /\ routes' = <<>>
  /\ UNCHANGED <<config, cap, active, job>>

\* set_active_credentials, from whatever task.
SetCreds(c) ==
  /\ active' = c
  /\ UNCHANGED <<table_side, job>>
-----------------------------------------------------------------------------
(* auth_dispatcher, on the worker.                                         *)

Arrive(k, c) ==
  /\ server = "up" /\ job.pc = "idle"
  /\ Matched(k)
  /\ job' = [NoJob EXCEPT !.pc = "scan", !.key = k, !.creds = c, !.end = Len(routes),
                          !.known = (k \in table), !.clash = (glue = "pushed")]
  /\ UNCHANGED <<table_side, active>>

\* The worker goes on; only the seeding (Gate) touches more than its locals, which
\* are gone when the dispatcher returns.
At(pc)  == job.pc = pc
Local   == UNCHANGED <<table_side, active>>
Done(a) == job' = [NoJob EXCEPT !.pc = "done", !.known = job.known, !.clash = job.clash,
                                !.answer = a]

\* The Route the loop looks at is destroyed once g_routes moved or shrank: its memory may
\* hold anything by now.  So every read of it below says what follows if it is Live, and
\* nothing otherwise.
Live  == job.current /\ job.at <= Len(routes)
Stale == job.stale \/ ~Live

\* Mutant: the loop stops one short of the end.
More_OneLess == job.at < job.end

More == job.at <= job.end

\* Method and URI against the request's.
Compare ==
  /\ At("scan") /\ More /\ Local
  /\ \/ /\ Live => routes[job.at].key = job.key
        /\ job' = [job EXCEPT !.pc = "gate", !.stale = Stale]
     \/ /\ Live => routes[job.at].key # job.key
        /\ job' = [job EXCEPT !.at = @ + 1, !.stale = Stale]

NotFound == At("scan") /\ ~More /\ Done("404") /\ Local

InForce == IF active = Nobody THEN config ELSE active

\* A route that is not public goes through check_basic, which seeds the active
\* credentials first.
Gate ==
  /\ At("gate")
  /\ \/ /\ Live => routes[job.at].public
        /\ job' = [job EXCEPT !.pc = "call", !.stale = Stale]
        /\ UNCHANGED active
     \/ /\ Live => ~routes[job.at].public
        /\ job' = [job EXCEPT !.pc = "ask", !.stale = Stale]
        /\ active' = InForce
  /\ UNCHANGED table_side

\* Then check_basic looks at them: they may have been set, or cleared, in between.
Ask ==
  /\ At("ask")
  /\ \/ /\ active \in {Nobody, job.creds}
        /\ job' = [job EXCEPT !.pc = "call", !.asked = active]
     \/ active \notin {Nobody, job.creds} /\ Done("401")
  /\ Local

\* The handler and its ctx are read from the Route again, after check_basic.
CallHandler ==
  /\ At("call") /\ Local
  /\ \E r \in Route :
       /\ Live => r = routes[job.at]
       /\ job' = [job EXCEPT !.found = r, !.pc = "run", !.stale = Stale]

HandlerReturns == At("run") /\ Done("ok") /\ Local

Finish == At("done") /\ job' = NoJob /\ Local

Reads == (At("scan") /\ More) \/ At("gate") \/ At("call")

\* Reading or calling through a destroyed Route may also bring the device down;
\* it boots again.
Panic ==
  /\ Reads /\ ~Live
  /\ server' = "down" /\ config' = Nobody
  /\ routes' = <<>> /\ cap' = 0 /\ table' = {}
  /\ glue' = "idle" /\ active' = Nobody
  /\ job' = NoJob

Dispatch == Compare \/ NotFound \/ Gate \/ Ask \/ CallHandler \/ HandlerReturns \/ Finish
-----------------------------------------------------------------------------
Next ==
  \/ \E c \in Creds \cup {Nobody} : Start(c) \/ SetCreds(c)
  \/ \E r \in Route : Push(r)
  \/ Register \/ Stop \/ Stopped
  \/ \E k \in Keys, c \in Creds \cup {Nobody} : Arrive(k, c)
  \/ Dispatch \/ Panic

Spec == Init /\ [][Next]_vars
-----------------------------------------------------------------------------
(* Properties.                                                             *)

TypeOK ==
  /\ server \in {"down", "up"}
  /\ config \in Creds \cup {Nobody}
  /\ routes \in Seq(Route) /\ Len(routes) <= cap /\ Len(routes) <= MaxHandlers + 1
  /\ cap \in Nat
  /\ table \subseteq Keys /\ Cardinality(table) <= MaxHandlers
  /\ glue \in {"idle", "pushed", "stopping"}
  /\ active \in Creds \cup {Nobody}
  /\ job \in [pc : {"idle", "scan", "gate", "ask", "call", "run", "done"},
              key : Keys, creds : Creds \cup {Nobody}, known : BOOLEAN,
              at : Nat, end : 0 .. MaxHandlers + 1,
              current : BOOLEAN, clash : BOOLEAN, stale : BOOLEAN,
              asked : Creds \cup {Nobody, Unasked}, answer : {"ok", "401", "404"},
              found : Route \cup {NoJob.found}]

\* The routes the glue has been told of: all but one that is being registered.
Settled == IF glue = "pushed" THEN SubSeq(routes, 1, Len(routes) - 1) ELSE routes

Table == INSTANCE RouteTable WITH up <- (server = "up"), listed <- Settled

\* What server.h lets its user rely on: a registration takes a free place or leaves no
\* trace, and a server starts and stops with none, whatever was refused before.
KeepsTable == Table!Spec

\* Between two calls of the glue, g_routes and httpd's table name the same routes,
\* each once.
Agree ==
  /\ table = {Settled[i].key : i \in 1 .. Len(Settled)}
  /\ Cardinality(table) = Len(Settled)

\* r is the first route of its key, the one that its registration put in force.
First(r) ==
  \E i \in 1 .. Len(routes) :
    /\ routes[i] = r
    /\ \A j \in 1 .. i - 1 : routes[j].key # r.key

\* A request for a registered route runs that route's handler and no other's, and if the
\* route is protected, not without credentials that were asked for; also when routes are
\* registered or refused meanwhile, as long as no destroyed Route was read for it.
Protected ==
  At("run") /\ job.known /\ ~job.stale =>
    /\ job.found.key = job.key /\ First(job.found)
    /\ job.found.public \/ job.asked \in {Nobody, job.creds}

\* Unless a route is registered during a request, its dispatcher never looks at a Route
\* that is no longer there: not even when stop tears the routes down meanwhile.
NoDeadRead == Reads /\ ~job.clash => Live

Lost == At("done") /\ job.answer = "404" /\ job.known

\* Unless a route is registered during a request, a registered route is not answered
\* 404, however often the vector was refilled before.
RegisteredFound == Lost => job.clash

\* server.h says of register_route "The handler runs only after auth::check_basic()
\* succeeds; otherwise the middleware emits 401": a registered route is never
\* answered 404.
NeverLost == ~Lost
===============================================================================
