----------------------------- MODULE SignedUpload -----------------------------
(***************************************************************************)
(* What POST /api/ota/upload promises (include/web/ota.h), without saying  *)
(* how a body arrives, is buffered or is split: the update slot is         *)
(* touched only for a body of acceptable size, it is erased first, it only *)
(* ever holds a leading part of the body that leaves room for a signature, *)
(* and otadata is flipped exactly when the part held is the signed one.    *)
(***************************************************************************)
EXTENDS Integers

CONSTANTS SigLen, MinImage, MaxSize, Uploads, NoUpload, Errors, HttpStatus(_)

VARIABLES
  phase,    \* "idle", "checked", "storing" or "done"
  req,      \* the request
  flash,    \* how many leading bytes of the body the slot holds
  result,   \* the outcome
  http,     \* the status answered last
  boot      \* what otadata selects

vars == <<phase, req, flash, result, http, boot>>

Init ==
  /\ phase = "idle"
  /\ req = NoUpload
  /\ flash = 0
  /\ result = "Ok"
  /\ http = 0
  /\ boot = "running"

\* ota.h: TooLarge is a body beyond max_size, TooSmall one below the signature alone.
SizeOK(u) == u.len \in SigLen .. MaxSize

Fail(r) == phase' = "done" /\ result' = r /\ UNCHANGED boot

Ask(u) ==
  /\ phase = "idle"
  /\ req' = u
  /\ \/ SizeOK(u) /\ phase' = "checked" /\ UNCHANGED <<result, boot>>
     \/ u.len > MaxSize /\ Fail("TooLarge")
     \/ u.len < SigLen /\ Fail("TooSmall")
  /\ UNCHANGED <<flash, http>>

\* What ota.h does not say, and install_signed does: a body that holds a signature but
\* less than MinImage bytes of image is answered TooSmall too.
AskTiny(u) ==
  /\ phase = "idle"
  /\ req' = u
  /\ u.len \in SigLen .. SigLen + MinImage - 1
  /\ Fail("TooSmall")
  /\ UNCHANGED <<flash, http>>

Erase ==
  /\ phase = "checked"
  /\ flash' = 0
  /\ phase' = "storing"
  /\ UNCHANGED <<req, result, http, boot>>

Store ==
  /\ phase = "storing"
  /\ flash' \in flash + 1 .. req.len - SigLen
  /\ UNCHANGED <<phase, req, result, http, boot>>

Install ==
  /\ phase = "storing"
  /\ flash = req.image
  /\ phase' = "done"
  /\ result' = "Ok"
  /\ boot' = "slot"
  /\ UNCHANGED <<req, flash, http>>

\* TooSmall at this point is a body that ended within the signature's length.
GiveUp ==
  /\ phase \in {"checked", "storing"}
  /\ \E r \in Errors \ {"TooLarge"} :
       /\ r = "TooSmall" => phase = "storing" /\ flash = 0
       /\ Fail(r)
  /\ flash' \in {flash, 0}
  /\ UNCHANGED <<req, http>>

Reply ==
  /\ phase = "done"
  /\ phase' = "idle"
  /\ http' = HttpStatus(result)
  /\ UNCHANGED <<req, flash, result, boot>>

Next ==
  \/ \E u \in Uploads : Ask(u) \/ AskTiny(u)
  \/ Erase \/ Store \/ Install \/ GiveUp \/ Reply

Spec == Init /\ [][Next]_vars
===============================================================================
