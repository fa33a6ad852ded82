------------------------------ MODULE MCAtConsole ------------------------------
(* A small instance of AtConsole for TLC. *)
EXTENDS AtConsole

CONSTANTS at, reset
===============================================================================
