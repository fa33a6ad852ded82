------------------------------ MODULE SafeUpdate ------------------------------
(***************************************************************************)
(* What include/web/ota.h and the probe of examples/minimal promise of     *)
(* updates: the last confirmed image is kept, a new one gets one boot to   *)
(* prove itself, and runs on only if it does.  OtaDevice implements it     *)
(* while no upload is overrun.                                             *)
(***************************************************************************)
CONSTANTS
  Images, Signed,
  Crashing,   \* those that do not live through their probation
  Shipped     \* the image the device comes with

\* Sets of at most one image, but for kept.
VARIABLES
  runs,    \* the image that runs
  kept,    \* the last confirmed image
  next,    \* the image that the next boot tries
  trial    \* the image tried by the last boot, not confirmed since

Init == runs = {} /\ kept = Shipped /\ next = {} /\ trial = {}

\* An upload is accepted: one at a time, and only from a confirmed image.
Accept(i) ==
  /\ runs = {kept} /\ next = {} /\ trial = {}
  /\ next' = {i}
  /\ UNCHANGED <<runs, kept, trial>>

\* A boot tries the new image, once, or goes back to the last confirmed one.
Try ==
  /\ runs = {} /\ next # {}
  /\ runs' = next /\ trial' = next /\ next' = {}
  /\ UNCHANGED kept

Return ==
  /\ runs = {} /\ next = {}
  /\ runs' = {kept} /\ trial' = {}
  /\ UNCHANGED <<kept, next>>

\* A reboot, a crash or a loss of power.
Stop == runs # {} /\ runs' = {} /\ UNCHANGED <<kept, next, trial>>

Confirm ==
  /\ runs = trial
  /\ \E i \in trial \ Crashing : kept' = i
  /\ trial' = {}
  /\ UNCHANGED <<runs, next>>

Next == (\E i \in Signed : Accept(i)) \/ Try \/ Return \/ Stop \/ Confirm

Spec == Init /\ [][Next]_<<runs, kept, next, trial>>
===============================================================================
