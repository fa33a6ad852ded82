------------------------------ MODULE Credentials ------------------------------
(***************************************************************************)
(* What include/web/auth.h lets its users rely on: one pair of credentials *)
(* that each call sees or replaces as a whole, at one moment between its   *)
(* beginning and its return.  Auth implements it.                          *)
(***************************************************************************)
CONSTANTS
  Tasks,    \* the callers
  Pairs,    \* credentials
  Nobody,   \* the empty pair
  Config    \* Config.user and Config.pass

VARIABLES
  held,     \* the active credentials
  calls     \* what each task has called, how far the call is, and the pair it got

Functions == {"set", "check", "secured"}

\* What a task outside these functions has called.
Nothing == [phase |-> "idle", op |-> "check", arg |-> Nobody, got |-> Nobody]

Init == held = Nobody /\ calls = [t \in Tasks |-> Nothing]

Goes(t, from, c) == calls[t].phase = from /\ calls' = [calls EXCEPT ![t] = c]

Begin(t) ==
  /\ \E o \in Functions, c \in Pairs :
       Goes(t, "idle", [phase |-> "begun", op |-> o, arg |-> c, got |-> Nobody])
  /\ UNCHANGED held

\* set_active_credentials takes effect.
Set(t) ==
  /\ calls[t].op = "set"
  /\ Goes(t, "begun", [calls[t] EXCEPT !.phase = "done"])
  /\ held' = calls[t].arg

\* check_basic and is_secured fill an empty pair from the Config, and then look.
Seed(t) ==
  /\ calls[t].op # "set"
  /\ Goes(t, "begun", [calls[t] EXCEPT !.phase = "seeded"])
  /\ held' = IF held = Nobody THEN Config ELSE held

Look(t) ==
  /\ Goes(t, "seeded", [phase |-> "done", op |-> calls[t].op, arg |-> calls[t].arg,
                         got |-> held])
  /\ UNCHANGED held

Return(t) == Goes(t, "done", Nothing) /\ UNCHANGED held

Next == \E t \in Tasks : Begin(t) \/ Set(t) \/ Seed(t) \/ Look(t) \/ Return(t)

Spec == Init /\ [][Next]_<<held, calls>>
===============================================================================
