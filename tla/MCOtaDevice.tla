------------------------------ MODULE MCOtaDevice ------------------------------
(* Small instances of OtaDevice for TLC. *)
EXTENDS OtaDevice

CONSTANTS good, crash, offline, unsigned, unsigned_crash
===============================================================================
