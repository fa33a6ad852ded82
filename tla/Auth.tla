---------------------------------- MODULE Auth ----------------------------------
(***************************************************************************)
(* The active credentials of src/web/auth.cpp: set_active_credentials,     *)
(* check_basic and is_secured, called by any number of tasks.  The pair of *)
(* strings is guarded by a mutex that the first caller creates; a pair     *)
(* that is empty is filled from the server's Config.                       *)
(*                                                                         *)
(* A step is one access to shared memory or one semaphore call.            *)
(***************************************************************************)
EXTENDS Integers, FiniteSets

CONSTANTS
  Tasks,       \* the callers: the httpd task, a console, app_main
  Pairs,       \* credentials: [user, pass], each part possibly Empty
  Empty,       \* the empty string
  Config,      \* Config.user and Config.pass
  First        \* the tasks that may call before the mutex exists

Nobody == [user |-> Empty, pass |-> Empty]

\* A mutex is named after the task that creates it.
NoLock == "none"
Free   == "free"

ASSUME CredentialsOK ==
  /\ Nobody \in Pairs /\ Config \in Pairs
  /\ \A c \in Pairs : c = [user |-> c.user, pass |-> c.pass]
  /\ First \subseteq Tasks
  /\ NoLock \notin Tasks /\ Free \notin Tasks

VARIABLES
  user, pass,  \* s_active.user, s_active.pass
  lock,        \* s_active.lock
  holder,      \* who holds each mutex
  panic,       \* has FreeRTOS aborted on a semaphore misuse?
  pc, op,      \* where each task is, and in which function
  arg,         \* the pair it sets, or the one its request carries
  want,        \* the mutex it waits for
  snap,        \* check_basic's user and pass
  force,       \* history: the pair last set (Config before that)
  seen         \* history: every value of force since the task's call began

store == <<user, pass, lock, holder, panic>>
local == <<op, arg, want, snap>>
past  == <<force, seen>>
vars  == <<store, pc, local, past>>

Open(c) == c.user = Empty \/ c.pass = Empty

Op == {"set", "check", "secured"}
PC == {"idle", "ensure", "create", "take", "wait", "set_user", "set_pass",
       "seed_test", "seed_user", "seed_pass", "give_seed", "retake", "rewait",
       "copy_user", "copy_pass", "give", "decide"}

Init ==
  /\ user = Empty /\ pass = Empty
  /\ lock = NoLock
  /\ holder = [m \in Tasks |-> Free]
  /\ panic = FALSE
  /\ pc = [t \in Tasks |-> "idle"]
  /\ op = [t \in Tasks |-> "check"]
  /\ arg = [t \in Tasks |-> Nobody]
  /\ want = [t \in Tasks |-> NoLock]
  /\ snap = [t \in Tasks |-> Nobody]
  /\ force = Config
  /\ seen = [t \in Tasks |-> {}]

Goto(t, label) == pc' = [pc EXCEPT ![t] = label]

Step(t, from, to) == ~panic /\ pc[t] = from /\ Goto(t, to)

\* A call of one of the three functions; a request's header may carry any pair, and
\* none counts as Nobody.  Nothing in the code orders the first calls: First says
\* which tasks can make them.
Call(t) ==
  /\ lock # NoLock \/ t \in First
  /\ Step(t, "idle", "ensure")
  /\ \E o \in Op, c \in Pairs :
       /\ op' = [op EXCEPT ![t] = o]
       /\ arg' = [arg EXCEPT ![t] = IF o = "secured" THEN Nobody ELSE c]
  /\ seen' = [seen EXCEPT ![t] = {force}]
  /\ UNCHANGED <<store, want, snap, force>>
-----------------------------------------------------------------------------
(* ensure_lock: the test and the assignment are two accesses.              *)

\* Mutant: every caller creates a mutex.
Ensure_Always(t) == Step(t, "ensure", "create") /\ UNCHANGED <<store, local, past>>

Ensure(t) ==
  /\ \/ lock = NoLock /\ Step(t, "ensure", "create")
     \/ lock # NoLock /\ Step(t, "ensure", "take")
  /\ UNCHANGED <<store, local, past>>

\* xSemaphoreCreateMutex returns NULL when memory runs out.
Create(t) ==
  /\ Step(t, "create", "take")
  /\ lock' \in {t, NoLock}
  /\ UNCHANGED <<user, pass, holder, panic, local, past>>

\* xSemaphoreTake reads the handle and then blocks on that mutex.
Reach(t, from, to) ==
  /\ Step(t, from, to)
  /\ lock # NoLock
  /\ want' = [want EXCEPT ![t] = lock]
  /\ UNCHANGED <<store, op, arg, snap, past>>

Acquire(t, from, to) ==
  /\ Step(t, from, to)
  /\ holder[want[t]] = Free
  /\ holder' = [holder EXCEPT ![want[t]] = t]
  /\ UNCHANGED <<user, pass, lock, panic, local, past>>

\* xSemaphoreGive reads the handle again; giving a free mutex fails silently,
\* giving another task's trips an assertion.
Release(t, from, to) ==
  /\ Step(t, from, to)
  /\ lock # NoLock
  /\ holder' = [holder EXCEPT ![lock] = IF @ = t THEN Free ELSE @]
  /\ panic' = (holder[lock] \notin {t, Free})
  /\ UNCHANGED <<user, pass, lock>>

\* Either of them asserts that the handle is not NULL.
NullHandle(t) ==
  /\ ~panic /\ lock = NoLock
  /\ pc[t] \in {"take", "give_seed", "retake", "give"}
  /\ panic' = TRUE
  /\ UNCHANGED <<user, pass, lock, holder, pc, local, past>>

Take(t) ==
  \/ Reach(t, "take", "wait")
  \/ Acquire(t, "wait", IF op[t] = "set" THEN "set_user" ELSE "seed_test")
-----------------------------------------------------------------------------
(* set_active_credentials                                                  *)

SetUser(t) ==
  /\ Step(t, "set_user", "set_pass")
  /\ user' = arg[t].user
  /\ UNCHANGED <<pass, lock, holder, panic, local, past>>

SetPass(t) ==
  /\ Step(t, "set_pass", "give")
  /\ pass' = arg[t].pass
  /\ force' = arg[t]
  /\ seen' = [q \in Tasks |-> IF pc[q] = "idle" THEN {} ELSE seen[q] \cup {arg[t]}]
  /\ UNCHANGED <<user, lock, holder, panic, local>>

(* seed_from_config_if_unset                                               *)

\* Mutant: a half-empty pair counts as unset.
SeedTest_Either(t) ==
  /\ \/ (user = Empty \/ pass = Empty) /\ Step(t, "seed_test", "seed_user")
     \/ user # Empty /\ pass # Empty /\ Step(t, "seed_test", "give_seed")
  /\ UNCHANGED <<store, local, past>>

\* Mutant: every request starts from the Config again.
SeedTest_Always(t) ==
  Step(t, "seed_test", "seed_user") /\ UNCHANGED <<store, local, past>>

SeedTest(t) ==
  /\ \/ user = Empty /\ pass = Empty /\ Step(t, "seed_test", "seed_user")
     \/ (user # Empty \/ pass # Empty) /\ Step(t, "seed_test", "give_seed")
  /\ UNCHANGED <<store, local, past>>

SeedUser(t) ==
  /\ Step(t, "seed_user", "seed_pass")
  /\ user' = Config.user
  /\ UNCHANGED <<pass, lock, holder, panic, local, past>>

SeedPass(t) ==
  /\ Step(t, "seed_pass", "give_seed")
  /\ pass' = Config.pass
  /\ UNCHANGED <<user, lock, holder, panic, local, past>>

GiveSeed(t) == Release(t, "give_seed", "retake") /\ UNCHANGED <<local, past>>

(* The second critical section: check_basic copies the pair, is_secured     *)
(* looks at its two halves.                                                *)

Retake(t) == Reach(t, "retake", "rewait") \/ Acquire(t, "rewait", "copy_user")

\* Mutant: the two fields are mixed up.
CopyUser_Swapped(t) ==
  /\ Step(t, "copy_user", "copy_pass")
  /\ snap' = [snap EXCEPT ![t].user = pass]
  /\ UNCHANGED <<store, op, arg, want, past>>

CopyUser(t) ==
  /\ Step(t, "copy_user", "copy_pass")
  /\ snap' = [snap EXCEPT ![t].user = user]
  /\ UNCHANGED <<store, op, arg, want, past>>

CopyPass(t) ==
  /\ Step(t, "copy_pass", "give")
  /\ snap' = [snap EXCEPT ![t].pass = pass]
  /\ UNCHANGED <<store, op, arg, want, past>>

\* The call returns; its locals are gone.
Return(t) ==
  /\ op' = [op EXCEPT ![t] = "check"]
  /\ arg' = [arg EXCEPT ![t] = Nobody]
  /\ snap' = [snap EXCEPT ![t] = Nobody]
  /\ want' = [want EXCEPT ![t] = NoLock]
  /\ seen' = [seen EXCEPT ![t] = {}]
  /\ UNCHANGED force

Give(t) ==
  \/ op[t] = "set" /\ Release(t, "give", "idle") /\ Return(t)
  \/ op[t] # "set" /\ Release(t, "give", "decide") /\ UNCHANGED <<local, past>>

\* check_basic lets every request in when unsecured, else the matching ones.
Verdict(o, c, given) ==
  CASE o = "secured" -> IF Open(c) THEN "no" ELSE "yes"
    [] OTHER -> IF Open(c) \/ given = c THEN "ESP_OK" ELSE "401"

Decide(t) == Step(t, "decide", "idle") /\ Return(t) /\ UNCHANGED store
-----------------------------------------------------------------------------
Run(t) ==
  \/ Call(t) \/ Ensure(t) \/ Create(t) \/ NullHandle(t) \/ Take(t)
  \/ SetUser(t) \/ SetPass(t)
  \/ SeedTest(t) \/ SeedUser(t) \/ SeedPass(t) \/ GiveSeed(t)
  \/ Retake(t) \/ CopyUser(t) \/ CopyPass(t) \/ Give(t) \/ Decide(t)

\* An abort ends the boot; the next one starts from Init.
Aborted == panic /\ UNCHANGED vars

Next == (\E t \in Tasks : Run(t)) \/ Aborted

Spec == Init /\ [][Next]_vars
-----------------------------------------------------------------------------
(* Properties.                                                             *)

TypeOK ==
  /\ user \in {c.user : c \in Pairs}
  /\ pass \in {c.pass : c \in Pairs}
  /\ lock \in Tasks \cup {NoLock}
  /\ holder \in [Tasks -> Tasks \cup {Free}]
  /\ panic \in BOOLEAN
  /\ pc \in [Tasks -> PC]
  /\ op \in [Tasks -> Op]
  /\ arg \in [Tasks -> Pairs]
  /\ want \in [Tasks -> Tasks \cup {NoLock}]
  /\ snap \in [Tasks -> [user : {c.user : c \in Pairs}, pass : {c.pass : c \in Pairs}]]
  /\ force \in Pairs
  /\ seen \in [Tasks -> SUBSET Pairs]

Critical == {"set_user", "set_pass", "seed_test", "seed_user", "seed_pass",
             "give_seed", "copy_user", "copy_pass", "give"}

\* No two tasks are between a take and its give, and a task in between holds the
\* mutex it will give, so the give can neither fail nor panic.
MutualExclusion ==
  /\ \A t, q \in Tasks : pc[t] \in Critical /\ pc[q] \in Critical => t = q
  /\ \A t \in Tasks : pc[t] \in Critical => holder[lock] = t

\* What may be in s_active when f was the last pair set: an empty pair is filled
\* from the Config by the next check.
Meaning(f) == IF f = Nobody THEN {Nobody, Config} ELSE {f}

\* A call answers as the credentials in force at some moment of the call command:
\* never by one half of a pair and another half of the next.
Linearizable ==
  \A t \in Tasks :
    pc[t] = "decide" =>
      \E f \in seen[t] : \E c \in Meaning(f) :
        Verdict(op[t], snap[t], arg[t]) = Verdict(op[t], c, arg[t])

\* Credentials that were set are not undone by the seeding of another task: when
\* no one is writing, s_active holds the last pair set (or what it stands for, or
\* nothing yet).
NothingLost ==
  (\A t \in Tasks : pc[t] \notin Critical) =>
    [user |-> user, pass |-> pass] \in Meaning(force) \cup
       (IF force = Config THEN {Nobody} ELSE {})

\* The inductive invariant when one task makes the first call.  LockInv: until that
\* task has created the mutex nobody is past ensure_lock, but for that task when it got
\* none, which is the only abort; then there is one mutex, the one that waiting tasks
\* wait for, held exactly in the critical sections.
LockInv ==
  /\ panic => lock = NoLock
  /\ lock = NoLock =>
       /\ \A m \in Tasks : holder[m] = Free
       /\ \A t \in Tasks :
            /\ pc[t] \in {"idle", "ensure", "create", "take"}
            /\ t \notin First => pc[t] = "idle"
  /\ lock # NoLock =>
       \A t \in Tasks :
         /\ pc[t] # "create"
         /\ pc[t] \in {"wait", "rewait"} => want[t] = lock
         /\ pc[t] \in Critical <=> holder[lock] = t

\* StoreInv: what is stored, mid-write included, is accounted for by the last pair
\* set.  CallInv: what a call has copied was in force during it.
Stored == [user |-> user, pass |-> pass]

Seeding == {"seed_user", "seed_pass"}
Seeded  == {"give_seed", "retake", "rewait", "copy_user", "copy_pass"}
Writing == \E t \in Tasks : pc[t] \in {"set_pass", "seed_pass"}

StoreInv ==
  /\ ~Writing => Stored \in Meaning(force) \cup (IF force = Config THEN {Nobody} ELSE {})
  /\ \A t \in Tasks :
       /\ pc[t] = "set_pass" => user = arg[t].user
       /\ pc[t] \in Seeding => pass = Empty /\ force \in {Nobody, Config}
       /\ pc[t] = "seed_user" => user = Empty
       /\ pc[t] = "seed_pass" => user = Config.user
       /\ pc[t] \in Seeded => Writing \/ Stored \in Meaning(force)

CallInv ==
  \A t \in Tasks :
    /\ pc[t] \in {"set_user", "set_pass"} => op[t] = "set"
    /\ pc[t] \in Seeding \cup Seeded \cup {"seed_test", "decide"} => op[t] # "set"
    /\ pc[t] # "idle" => force \in seen[t]
    /\ pc[t] = "copy_pass" => snap[t].user = user
    /\ pc[t] = "decide" \/ (pc[t] = "give" /\ op[t] # "set") =>
         \E f \in seen[t] : snap[t] \in Meaning(f)

AuthInv == LockInv /\ StoreInv /\ CallInv

\* The pair that is active while one is half written: the new one, from its first half
\* on.
Held ==
  LET setting == {t \in Tasks : pc[t] = "set_pass"}
  IN  IF setting # {} THEN arg[CHOOSE t \in setting : TRUE]
      ELSE IF \E t \in Tasks : pc[t] = "seed_pass" THEN Config ELSE Stored

\* How far a call is, and the pair it got.
Phase(t) ==
  CASE pc[t] = "idle" -> "idle"
    [] pc[t] \in Seeded \cup {"seed_pass"} -> "seeded"
    [] pc[t] \in {"set_pass", "give", "decide"} -> "done"
    [] OTHER -> "begun"

Got(t) == IF pc[t] \in {"give", "decide"} /\ op[t] # "set" THEN snap[t] ELSE Nobody

Called(t) ==
  IF pc[t] = "idle"
    THEN [phase |-> "idle", op |-> "check", arg |-> Nobody, got |-> Nobody]
    ELSE [phase |-> Phase(t), op |-> op[t], arg |-> arg[t], got |-> Got(t)]

Promise == INSTANCE Credentials WITH held <- Held, calls <- [t \in Tasks |-> Called(t)]

\* The tasks see the credentials that auth.h promises: each call sets, seeds or reads
\* both halves at one moment, in one order that all the calls agree on.
KeepsCredentials == Promise!Spec

\* auth.h says "Empty strings transition back to unsecured mode (anyone can POST
\* /api/setup-password)".
EmptyMeansOpen ==
  \A t \in Tasks :
    pc[t] = "decide" /\ seen[t] = {Nobody} => Open(snap[t])
===============================================================================
