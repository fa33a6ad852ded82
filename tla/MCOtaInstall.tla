----------------------------- MODULE MCOtaInstall -----------------------------
(* Small instances of OtaInstall for TLC. *)
EXTENDS OtaInstall

CONSTANT MaxLen    \* the longest body announced

\* Every length, and for each every place a signed image can end.
MCUploads ==
  UNION {[len : {l}, image : {NoImage} \cup 0 .. l - SigLen] : l \in 0 .. MaxLen}
===============================================================================
