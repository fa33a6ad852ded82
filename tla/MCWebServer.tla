------------------------------ MODULE MCWebServer ------------------------------
(* Small instances of WebServer for TLC. *)
EXTENDS WebServer, TLC

CONSTANTS index, status, any, h1, h2, old, new

\* Handlers are told apart and nothing else, and so are credentials.
AnySymmetry == Permutations(Handlers) \cup Permutations(Creds)
===============================================================================
