------------------------------- MODULE RouteTable -------------------------------
(***************************************************************************)
(* What include/web/server.h lets its user rely on: a route is registered  *)
(* whole or not at all, a server starts without routes and stops with all  *)
(* of them.  WebServer implements it; Glue is built on it.                 *)
(***************************************************************************)
EXTENDS Integers, Sequences

CONSTANTS
  Keys,         \* a method and a URI
  Wild,         \* the keys whose URI is a pattern for every other one
  Handlers,     \* the functions that may be registered
  MaxHandlers   \* Config.max_uri_handlers

VARIABLES
  up,       \* does a server run?
  listed    \* its routes, in the order of their registration

Route == [key : Keys, public : BOOLEAN, handler : Handlers]

Found(k)   == \E i \in 1 .. Len(listed) : listed[i].key = k
Matched(k) == \E i \in 1 .. Len(listed) : listed[i].key \in {k} \cup Wild

Init == up = FALSE /\ listed = <<>>

\* start
Start == ~up /\ up' = TRUE /\ listed' = <<>>

\* register_route and register_public_route; one that returns an error changes nothing.
Accept(r) ==
  /\ up /\ ~Matched(r.key) /\ Len(listed) < MaxHandlers
  /\ listed' = Append(listed, r)
  /\ UNCHANGED up

\* stop, or a restart of the device
Stop == up /\ up' = FALSE /\ listed' = <<>>

Next == Start \/ Stop \/ \E r \in Route : Accept(r)

Spec == Init /\ [][Next]_<<up, listed>>
-----------------------------------------------------------------------------
\* Every listed route is the first that httpd matches with its own URI: none is shadowed
\* by an earlier one, pattern or not.
Unshadowed ==
  /\ Len(listed) <= MaxHandlers
  /\ \A i \in 1 .. Len(listed) : \A l \in 1 .. i - 1 :
       listed[l].key \notin {listed[i].key} \cup Wild
===============================================================================
