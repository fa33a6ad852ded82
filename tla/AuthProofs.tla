------------------------------- MODULE AuthProofs -------------------------------
(***************************************************************************)
(* Proofs about Auth, for every set of tasks and of credentials.           *)
(***************************************************************************)
EXTENDS Auth, TLAPS

USE CredentialsOK

Users     == {c.user : c \in Pairs}
Passwords == {c.pass : c \in Pairs}

\* The halves of a pair are halves of pairs, and a pair is its two halves.
LEMMA Halves ==
  /\ \A c \in Pairs : c.user \in Users /\ c.pass \in Passwords
  /\ Empty \in Users /\ Empty \in Passwords
  /\ Nobody \in [user : Users, pass : Passwords]
  BY DEF Users, Passwords, Nobody

-----------------------------------------------------------------------------
(* Type correctness.                                                       *)

LEMMA TypeInit == Init => TypeOK
  <1> SUFFICES ASSUME Init PROVE TypeOK
    OBVIOUS
  <1>1. /\ user \in Users /\ pass \in Passwords
        /\ snap \in [Tasks -> [user : Users, pass : Passwords]]
    BY Halves DEF Init
  <1>2. lock \in Tasks \cup {NoLock} /\ want \in [Tasks -> Tasks \cup {NoLock}]
    BY DEF Init
  <1> QED
    BY <1>1, <1>2 DEF Init, TypeOK, PC, Op, Users, Passwords

\* The moves that several functions share keep the types.
LEMMA ReachType ==
  ASSUME TypeOK, NEW t \in Tasks, NEW from, NEW to \in PC, Reach(t, from, to)
  PROVE  TypeOK'
  <1>1. pc' \in [Tasks -> PC] /\ want' \in [Tasks -> Tasks \cup {NoLock}]
    BY DEF TypeOK, Reach, Step, Goto
  <1> QED
    BY <1>1 DEF TypeOK, Reach, store, past

LEMMA AcquireType ==
  ASSUME TypeOK, NEW t \in Tasks, NEW from, NEW to \in PC, Acquire(t, from, to)
  PROVE  TypeOK'
  <1>1. pc' \in [Tasks -> PC] /\ holder' \in [Tasks -> Tasks \cup {Free}]
    BY DEF TypeOK, Acquire, Step, Goto
  <1> QED
    BY <1>1 DEF TypeOK, Acquire, local, past

LEMMA ReleaseType ==
  ASSUME TypeOK, NEW t \in Tasks, NEW from, NEW to \in PC, Release(t, from, to)
  PROVE  /\ pc' \in [Tasks -> PC] /\ holder' \in [Tasks -> Tasks \cup {Free}]
         /\ panic' \in BOOLEAN
  <1>1. pc' \in [Tasks -> PC] /\ panic' \in BOOLEAN
    BY DEF TypeOK, Release, Step, Goto
  <1>2. holder' \in [Tasks -> Tasks \cup {Free}]
    BY DEF TypeOK, Release
  <1> QED
    BY <1>1, <1>2

LEMMA ReturnType ==
  ASSUME TypeOK, NEW t \in Tasks, Return(t)
  PROVE  /\ op' \in [Tasks -> Op] /\ arg' \in [Tasks -> Pairs]
         /\ snap' \in [Tasks -> [user : Users, pass : Passwords]]
         /\ want' \in [Tasks -> Tasks \cup {NoLock}]
         /\ seen' \in [Tasks -> SUBSET Pairs]
         /\ force' = force
  <1>1. op' \in [Tasks -> Op] /\ arg' \in [Tasks -> Pairs] /\ force' = force
    BY DEF TypeOK, Return, Op
  <1>2. snap' \in [Tasks -> [user : Users, pass : Passwords]]
    BY Halves DEF TypeOK, Return, Users, Passwords
  <1>3. want' \in [Tasks -> Tasks \cup {NoLock}]
    BY DEF TypeOK, Return
  <1>4. seen' \in [Tasks -> SUBSET Pairs]
    BY DEF TypeOK, Return
  <1> QED
    BY <1>1, <1>2, <1>3, <1>4

LEMMA CallType ==
  ASSUME TypeOK, NEW t \in Tasks, Call(t)
  PROVE  TypeOK'
  <1>1. PICK o \in Op, c \in Pairs :
          /\ op' = [op EXCEPT ![t] = o]
          /\ arg' = [arg EXCEPT ![t] = IF o = "secured" THEN Nobody ELSE c]
    BY DEF Call
  <1>2. op' \in [Tasks -> Op] /\ arg' \in [Tasks -> Pairs]
    BY <1>1 DEF TypeOK
  <1>3. pc' \in [Tasks -> PC] /\ seen' \in [Tasks -> SUBSET Pairs]
    BY DEF TypeOK, Call, Step, Goto, PC
  <1> QED
    BY <1>2, <1>3 DEF TypeOK, Call, store

LEMMA SetPassType ==
  ASSUME TypeOK, NEW t \in Tasks, SetPass(t)
  PROVE  TypeOK'
  <1>1. arg[t] \in Pairs /\ pass' = arg[t].pass /\ force' = arg[t]
    BY DEF TypeOK, SetPass
  <1>2. pc' \in [Tasks -> PC]
    BY DEF TypeOK, SetPass, Step, Goto, PC
  <1>3. seen' \in [Tasks -> SUBSET Pairs]
    <2>1. \A q \in Tasks : (IF pc[q] = "idle" THEN {} ELSE seen[q] \cup {arg[t]}) \in SUBSET Pairs
      BY <1>1 DEF TypeOK
    <2> QED
      BY <2>1 DEF SetPass
  <1>4. pass' \in Passwords
    BY <1>1, Halves
  <1> QED
    BY <1>1, <1>2, <1>3, <1>4 DEF TypeOK, SetPass, local, Passwords

\* Every step of a task keeps the types.
LEMMA TypeStep ==
  ASSUME TypeOK, NEW t \in Tasks, Run(t)
  PROVE  TypeOK'
  <1>1. CASE Call(t)
    BY <1>1, CallType
  <1>2. CASE Ensure(t)
    BY <1>2 DEF Ensure, TypeOK, store, local, past, Step, Goto, PC
  <1>3. CASE Create(t)
    BY <1>3 DEF Create, TypeOK, store, local, past, Step, Goto, PC
  <1>4. CASE Take(t)
    <2>1. {"wait", "set_user", "seed_test"} \subseteq PC
      BY DEF PC
    <2> QED
      BY <2>1, <1>4, ReachType, AcquireType DEF Take
  <1>5. CASE SetUser(t)
    BY <1>5, Halves
    DEF SetUser, TypeOK, store, local, past, Step, Goto, PC, Users
  <1>6. CASE SetPass(t)
    BY <1>6, SetPassType
  <1>7. CASE SeedTest(t)
    BY <1>7 DEF SeedTest, TypeOK, store, local, past, Step, Goto, PC
  <1>8. CASE SeedUser(t)
    BY <1>8, Halves
    DEF SeedUser, TypeOK, store, local, past, Step, Goto, PC, Users
  <1>9. CASE SeedPass(t)
    BY <1>9, Halves
    DEF SeedPass, TypeOK, store, local, past, Step, Goto, PC, Passwords
  <1>10. CASE GiveSeed(t)
    <2>1. "retake" \in PC
      BY DEF PC
    <2> QED
      BY <2>1, <1>10, ReleaseType DEF GiveSeed, Release, local, past, TypeOK
  <1>11. CASE Retake(t)
    <2>1. {"rewait", "copy_user"} \subseteq PC
      BY DEF PC
    <2> QED
      BY <2>1, <1>11, ReachType, AcquireType DEF Retake
  <1>12. CASE CopyUser(t)
    BY <1>12 DEF CopyUser, TypeOK, store, local, past, Step, Goto, PC
  <1>13. CASE CopyPass(t)
    BY <1>13 DEF CopyPass, TypeOK, store, local, past, Step, Goto, PC
  <1>14. CASE Give(t)
    <2>1. "idle" \in PC /\ "decide" \in PC
      BY DEF PC
    <2>2. CASE op[t] = "set" /\ Release(t, "give", "idle") /\ Return(t)
      BY <2>1, <2>2, ReleaseType, ReturnType
      DEF Release, TypeOK, Users, Passwords
    <2>3. CASE Release(t, "give", "decide") /\ UNCHANGED <<local, past>>
      BY <2>1, <2>3, ReleaseType DEF Release, local, past, TypeOK
    <2> QED
      BY <1>14, <2>2, <2>3 DEF Give
  <1>15. CASE Decide(t)
    <2>1. pc' \in [Tasks -> PC]
      BY <1>15 DEF Decide, TypeOK, Step, Goto, PC
    <2> QED
      BY <2>1, <1>15, ReturnType DEF Decide, store, TypeOK, Users, Passwords
  <1>16. CASE NullHandle(t)
    BY <1>16 DEF NullHandle, TypeOK, local, past
  <1> QED
    BY <1>1, <1>2, <1>3, <1>4, <1>5, <1>6, <1>7, <1>8, <1>9, <1>10, <1>11, <1>12,
       <1>13, <1>14, <1>15, <1>16 DEF Run

LEMMA TypeStutter == TypeOK /\ UNCHANGED vars => TypeOK'
  BY DEF TypeOK, vars, store, local, past

\* The variables of the credential store keep their types, whoever calls what and
\* also when the first callers race to create the mutex.
THEOREM TypeCorrect == Spec => []TypeOK
  <1>1. TypeOK /\ [Next]_vars => TypeOK'
    BY TypeStep, TypeStutter DEF Next, Aborted
  <1> QED
    BY <1>1, TypeInit, PTL DEF Spec

-----------------------------------------------------------------------------
(* The mutex, when one task makes the first call.                          *)

OneFirst == \A f, g \in First : f = g

\* Where a task goes, the others stay.
LEMMA Moves ==
  ASSUME TypeOK, NEW t \in Tasks, NEW from, NEW to, Step(t, from, to)
  PROVE  /\ ~panic /\ pc[t] = from /\ pc'[t] = to
         /\ \A q \in Tasks : q # t => pc'[q] = pc[q]
  BY DEF TypeOK, Step, Goto

\* Two tasks cannot both be in a critical section: both would hold the one mutex.
LEMMA Exclusive ==
  ASSUME LockInv, NEW t \in Tasks, NEW q \in Tasks,
         pc[t] \in Critical, pc[q] \in Critical
  PROVE  t = q
  BY DEF LockInv, Critical

\* A step that neither takes nor gives keeps the mutex where it is.
LEMMA LockMove ==
  ASSUME TypeOK, LockInv, NEW t \in Tasks, NEW from, NEW to, Step(t, from, to),
         from \notin {"idle", "ensure", "create", "take"} \/ lock # NoLock,
         from \in Critical <=> to \in Critical, to \notin {"create", "wait", "rewait"},
         UNCHANGED <<lock, holder, panic>>,
         \A q \in Tasks : q # t => want'[q] = want[q]
  PROVE  LockInv'
  <1>1. /\ pc[t] = from /\ pc'[t] = to
        /\ \A q \in Tasks : q # t => pc'[q] = pc[q]
    BY Moves
  <1>2. lock # NoLock
    BY <1>1 DEF LockInv
  <1> QED
    BY <1>1, <1>2 DEF LockInv

LEMMA LockReach ==
  ASSUME TypeOK, LockInv, NEW t \in Tasks, NEW from, NEW to, Reach(t, from, to),
         from \in {"take", "retake"}, to \in {"wait", "rewait"}
  PROVE  LockInv'
  <1>1. /\ ~panic /\ pc[t] = from /\ pc'[t] = to
        /\ \A q \in Tasks : q # t => pc'[q] = pc[q]
    BY Moves DEF Reach
  <1>2. lock # NoLock
    BY DEF Reach
  <1>3. want'[t] = lock /\ \A q \in Tasks : q # t => want'[q] = want[q]
    BY DEF Reach, TypeOK
  <1> QED
    BY <1>1, <1>2, <1>3 DEF LockInv, Reach, store, Critical

LEMMA LockAcquire ==
  ASSUME TypeOK, LockInv, NEW t \in Tasks, NEW from, NEW to, Acquire(t, from, to),
         from \in {"wait", "rewait"}, to \in Critical
  PROVE  LockInv'
  <1>1. /\ pc[t] = from /\ pc'[t] = to
        /\ \A q \in Tasks : q # t => pc'[q] = pc[q]
    BY Moves DEF Acquire
  <1>2. lock # NoLock /\ want[t] = lock
    BY <1>1 DEF LockInv
  <1>3. holder[lock] = Free /\ holder'[lock] = t
    BY <1>2 DEF Acquire, TypeOK
  <1>4. \A q \in Tasks : pc[q] \notin Critical
    BY <1>2, <1>3 DEF LockInv
  <1>5. UNCHANGED <<lock, panic, want>> /\ to \notin {"create", "wait", "rewait"}
    BY DEF Acquire, local, Critical
  <1> QED
    BY <1>1, <1>2, <1>3, <1>4, <1>5 DEF LockInv

LEMMA LockRelease ==
  ASSUME TypeOK, LockInv, NEW t \in Tasks, NEW from, NEW to, Release(t, from, to),
         from \in Critical, to \in {"retake", "idle", "decide"},
         \A q \in Tasks : q # t => want'[q] = want[q]
  PROVE  LockInv'
  <1>1. /\ pc[t] = from /\ pc'[t] = to
        /\ \A q \in Tasks : q # t => pc'[q] = pc[q]
    BY Moves DEF Release
  <1>2. lock # NoLock /\ holder[lock] = t
    BY <1>1 DEF LockInv, Critical
  <1>3. holder'[lock] = Free /\ ~panic' /\ lock' = lock
    BY <1>2 DEF Release, TypeOK
  <1>4. \A q \in Tasks : q # t => pc[q] \notin Critical
    BY <1>2 DEF LockInv
  <1>5. to \notin Critical
    BY DEF Critical
  <1> QED
    BY <1>1, <1>2, <1>3, <1>4, <1>5 DEF LockInv

\* A first call, and a test that finds no mutex, are steps of the first caller.
LEMMA LockBefore ==
  ASSUME TypeOK, LockInv, NEW t \in Tasks, lock = NoLock, Call(t) \/ Ensure(t)
  PROVE  LockInv'
  <1>1. /\ pc'[t] \in {"ensure", "create"} /\ t \in First
        /\ \A q \in Tasks : q # t => pc'[q] = pc[q]
        /\ UNCHANGED <<lock, holder, panic>>
    BY Moves DEF Call, Ensure, store, LockInv
  <1> QED
    BY <1>1 DEF LockInv

\* The mutex is created by the only task inside a call, so it is the only one; without
\* memory for it, that task goes on without.
LEMMA LockCreate ==
  ASSUME OneFirst, TypeOK, LockInv, NEW t \in Tasks, Create(t)
  PROVE  LockInv'
  <1>1. /\ ~panic' /\ lock' \in {t, NoLock}
        /\ pc[t] = "create" /\ pc'[t] = "take"
        /\ \A q \in Tasks : q # t => pc'[q] = pc[q]
        /\ UNCHANGED holder
    BY Moves DEF Create
  <1>2. lock = NoLock /\ t \in First
    BY <1>1 DEF LockInv
  <1>3. \A q \in Tasks : q # t => pc'[q] = "idle"
    BY <1>1, <1>2 DEF LockInv, OneFirst
  <1>4. \A m \in Tasks : holder'[m] = Free
    BY <1>1, <1>2 DEF LockInv
  <1>5. \A q \in Tasks : pc'[q] \in {"idle", "take"}
    BY <1>1, <1>3
  <1>6. CASE lock' = NoLock
    BY <1>1, <1>2, <1>3, <1>4, <1>5, <1>6 DEF LockInv
  <1>7. CASE lock' = t
    BY <1>1, <1>4, <1>5, <1>7 DEF LockInv, Critical
  <1> QED
    BY <1>1, <1>6, <1>7

\* Every step keeps the mutex held exactly by the task in its critical section.
LEMMA LockStep ==
  ASSUME OneFirst, TypeOK, LockInv, NEW t \in Tasks, Run(t)
  PROVE  LockInv'
  <1> USE DEF Critical
  <1>1. CASE Call(t)
    BY <1>1, LockMove, LockBefore DEF Call, store
  <1>2. CASE Ensure(t)
    <2>1. CASE lock = NoLock
      BY <2>1, <1>2, LockBefore
    <2>2. CASE lock # NoLock
      BY <2>2, <1>2, LockMove DEF Ensure, store, local
    <2> QED
      BY <2>1, <2>2
  <1>3. CASE Create(t)
    BY <1>3, LockCreate
  <1>4. CASE Take(t)
    BY <1>4, LockReach, LockAcquire DEF Take
  <1>5. CASE SetUser(t)
    BY <1>5, LockMove DEF SetUser, local
  <1>6. CASE SetPass(t)
    BY <1>6, LockMove DEF SetPass, local
  <1>7. CASE SeedTest(t)
    BY <1>7, LockMove DEF SeedTest, store, local
  <1>8. CASE SeedUser(t)
    BY <1>8, LockMove DEF SeedUser, local
  <1>9. CASE SeedPass(t)
    BY <1>9, LockMove DEF SeedPass, local
  <1>10. CASE GiveSeed(t)
    BY <1>10, LockRelease DEF GiveSeed, local
  <1>11. CASE Retake(t)
    BY <1>11, LockReach, LockAcquire DEF Retake
  <1>12. CASE CopyUser(t)
    BY <1>12, LockMove DEF CopyUser, store
  <1>13. CASE CopyPass(t)
    BY <1>13, LockMove DEF CopyPass, store
  <1>14. CASE Give(t)
    <2>1. \A q \in Tasks : q # t => want'[q] = want[q]
      BY <1>14 DEF Give, Return, local, TypeOK
    <2> QED
      BY <2>1, <1>14, LockRelease DEF Give
  <1>15. CASE Decide(t)
    <2>1. \A q \in Tasks : q # t => want'[q] = want[q]
      BY <1>15 DEF Decide, Return, TypeOK
    <2> QED
      BY <2>1, <1>15, LockMove DEF Decide, store
  <1>16. CASE NullHandle(t)
    BY <1>16 DEF NullHandle, local, LockInv
  <1> QED
    BY <1>1, <1>2, <1>3, <1>4, <1>5, <1>6, <1>7, <1>8, <1>9, <1>10, <1>11, <1>12,
       <1>13, <1>14, <1>15, <1>16 DEF Run

-----------------------------------------------------------------------------
(* The credentials behind the mutex.                                       *)

\* The pair in the store has the shape of a pair, as every pair has.
LEMMA Shapes ==
  ASSUME TypeOK
  PROVE  /\ \A c \in Pairs : c = [user |-> c.user, pass |-> c.pass]
         /\ \A t \in Tasks : arg[t] \in Pairs
         /\ \A t \in Tasks : snap[t] = [user |-> snap[t].user, pass |-> snap[t].pass]
         /\ force \in Pairs
  BY DEF TypeOK

\* Inside a critical section nobody else is writing, so unless the task itself is,
\* the store holds a whole pair.
LEMMA NobodyWrites ==
  ASSUME LockInv, NEW t \in Tasks, pc[t] \in Critical \ {"set_pass", "seed_pass"}
  PROVE  ~Writing
  BY Exclusive DEF Writing, Critical

\* A step that writes nothing and ends in no critical section's first half.
LEMMA StoreQuiet ==
  ASSUME TypeOK, LockInv, StoreInv, NEW t \in Tasks, NEW from, NEW to,
         Step(t, from, to), UNCHANGED <<user, pass, force>>,
         from \notin {"set_pass", "seed_pass"},
         to \notin {"set_pass", "seed_pass", "seed_user"},
         to \in Seeded => from \in Seeded \/ (~Writing /\ Stored \in Meaning(force)),
         \A q \in Tasks : q # t => arg'[q] = arg[q]
  PROVE  StoreInv'
  <1>1. /\ pc[t] = from /\ pc'[t] = to
        /\ \A q \in Tasks : q # t => pc'[q] = pc[q]
    BY Moves
  <1>2. Writing' <=> Writing
    BY <1>1 DEF Writing
  <1>3. Stored' = Stored /\ Meaning(force)' = Meaning(force)
    BY DEF Stored, Meaning
  <1>4. ASSUME NEW q \in Tasks, q # t
        PROVE  /\ pc'[q] = "set_pass" => user' = arg'[q].user
               /\ pc'[q] \in Seeding => pass' = Empty /\ force' \in {Nobody, Config}
               /\ pc'[q] = "seed_user" => user' = Empty
               /\ pc'[q] = "seed_pass" => user' = Config.user
               /\ pc'[q] \in Seeded => Writing' \/ Stored' \in Meaning(force)'
    BY <1>1, <1>2, <1>3, <1>4 DEF StoreInv
  <1>5. pc'[t] \in Seeded => Writing' \/ Stored' \in Meaning(force)'
    BY <1>1, <1>2, <1>3 DEF StoreInv
  <1>6. ~Writing' => Stored' \in Meaning(force)'
                       \cup (IF force' = Config THEN {Nobody} ELSE {})
    BY <1>2, <1>3 DEF StoreInv
  <1> QED
    BY <1>1, <1>4, <1>5, <1>6 DEF StoreInv, Seeding

\* The first write of a pair: the others wait outside, and know that it goes on.
LEMMA StoreFirst ==
  ASSUME TypeOK, LockInv, StoreInv, NEW t \in Tasks,
         SetUser(t) \/ SeedUser(t)
  PROVE  StoreInv'
  <1>1. /\ \A q \in Tasks : q # t => pc'[q] = pc[q]
        /\ UNCHANGED <<pass, force, arg>>
        /\ pc[t] \in Critical
        /\ \/ pc'[t] = "set_pass" /\ user' = arg[t].user
           \/ pc[t] = "seed_user" /\ pc'[t] = "seed_pass" /\ user' = Config.user
    BY Moves DEF SetUser, SeedUser, local, past, Critical
  <1>2. Writing'
    BY <1>1 DEF Writing
  <1>3. \A q \in Tasks : q # t => pc'[q] \notin {"set_pass", "seed_user", "seed_pass"}
    BY <1>1, Exclusive DEF Critical
  <1>4. pc'[t] = "seed_pass" => pass = Empty /\ force \in {Nobody, Config}
    BY <1>1 DEF StoreInv, Seeding
  <1> QED
    BY <1>1, <1>2, <1>3, <1>4 DEF StoreInv, Seeding, Seeded

\* The second write leaves a whole pair: the one set, or the Config's for none.
LEMMA StoreSecond ==
  ASSUME TypeOK, LockInv, StoreInv, NEW t \in Tasks,
         SetPass(t) \/ SeedPass(t)
  PROVE  StoreInv'
  <1>1. /\ \A q \in Tasks : q # t => pc'[q] = pc[q]
        /\ UNCHANGED <<user, arg>>
        /\ pc[t] \in Critical /\ pc'[t] \in {"give", "give_seed"}
        /\ \/ pc[t] = "set_pass" /\ pass' = arg[t].pass /\ force' = arg[t]
           \/ pc[t] = "seed_pass" /\ pass' = Config.pass /\ force' = force
    BY Moves DEF SetPass, SeedPass, local, past, Critical
  <1>2. Stored' \in Meaning(force')
    <2>1. CASE pc[t] = "set_pass" /\ pass' = arg[t].pass /\ force' = arg[t]
      <3>1. user' = arg[t].user /\ arg[t] = [user |-> arg[t].user, pass |-> arg[t].pass]
        BY <1>1, <2>1, Shapes DEF StoreInv
      <3> QED
        BY <2>1, <3>1 DEF Stored, Meaning
    <2>2. CASE pc[t] = "seed_pass" /\ pass' = Config.pass /\ force' = force
      <3>1. user' = Config.user /\ force \in {Nobody, Config}
        BY <1>1, <2>2 DEF StoreInv, Seeding
      <3>2. Config = [user |-> Config.user, pass |-> Config.pass]
        BY Shapes
      <3> QED
        BY <2>2, <3>1, <3>2 DEF Stored, Meaning
    <2> QED
      BY <1>1, <2>1, <2>2
  <1>3. \A q \in Tasks : pc'[q] \notin {"set_pass", "seed_user", "seed_pass"}
    BY <1>1, Exclusive DEF Critical
  <1> QED
    BY <1>1, <1>2, <1>3 DEF StoreInv, Seeding, Meaning

LEMMA StoreTest ==
  ASSUME TypeOK, LockInv, StoreInv, NEW t \in Tasks, SeedTest(t)
  PROVE  StoreInv'
  <1>1. /\ pc[t] = "seed_test" /\ ~Writing
        /\ UNCHANGED <<user, pass, force, arg>>
    BY NobodyWrites DEF SeedTest, Step, Critical, store, local, past
  <1>2. Stored \in Meaning(force) \cup (IF force = Config THEN {Nobody} ELSE {})
    BY <1>1 DEF StoreInv
  <1>3. CASE user = Empty /\ pass = Empty /\ Step(t, "seed_test", "seed_user")
    <2>1. force \in {Nobody, Config}
      BY <1>2, <1>3 DEF Stored, Meaning, Nobody
    <2>2. /\ pc'[t] = "seed_user"
          /\ \A q \in Tasks : q # t => pc'[q] = pc[q]
      BY <1>3, Moves
    <2>3. ~Writing'
      BY <1>1, <2>2 DEF Writing
    <2>4. Stored' = Stored /\ force' = force
      BY <1>1 DEF Stored
    <2> QED
      BY <1>1, <1>2, <1>3, <2>1, <2>2, <2>3, <2>4
      DEF StoreInv, Seeding, Seeded, Meaning
  <1>4. CASE (user # Empty \/ pass # Empty) /\ Step(t, "seed_test", "give_seed")
    <2>1. Stored # Nobody
      BY <1>4 DEF Stored, Nobody
    <2>2. Stored \in Meaning(force)
      BY <1>2, <2>1
    <2> QED
      BY <1>1, <1>4, <2>2, StoreQuiet DEF Seeded
  <1> QED
    BY <1>3, <1>4 DEF SeedTest

\* Every step keeps the store explained by the last pair set.
LEMMA StoreStep ==
  ASSUME TypeOK, LockInv, StoreInv, NEW t \in Tasks, Run(t)
  PROVE  StoreInv'
  <1> USE DEF Seeded
  <1>1. CASE Call(t)
    <2>1. \A q \in Tasks : q # t => arg'[q] = arg[q]
      BY <1>1 DEF Call, TypeOK
    <2> QED
      BY <2>1, <1>1, StoreQuiet DEF Call, store
  <1>2. CASE Ensure(t)
    BY <1>2, StoreQuiet DEF Ensure, store, local, past
  <1>3. CASE Create(t)
    BY <1>3, StoreQuiet DEF Create, local, past
  <1>4. CASE Take(t)
    BY <1>4, StoreQuiet DEF Take, Reach, Acquire, store, local, past
  <1>5. CASE SetUser(t)
    BY <1>5, StoreFirst
  <1>6. CASE SetPass(t)
    BY <1>6, StoreSecond
  <1>7. CASE SeedTest(t)
    BY <1>7, StoreTest
  <1>8. CASE SeedUser(t)
    BY <1>8, StoreFirst
  <1>9. CASE SeedPass(t)
    BY <1>9, StoreSecond
  <1>10. CASE GiveSeed(t)
    BY <1>10, StoreQuiet DEF GiveSeed, Release, local, past
  <1>11. CASE Retake(t)
    BY <1>11, StoreQuiet DEF Retake, Reach, Acquire, store, local, past
  <1>12. CASE CopyUser(t)
    BY <1>12, StoreQuiet DEF CopyUser, store, past
  <1>13. CASE CopyPass(t)
    BY <1>13, StoreQuiet DEF CopyPass, store, past
  <1>14. CASE Give(t)
    <2>1. \A q \in Tasks : q # t => arg'[q] = arg[q]
      BY <1>14 DEF Give, Return, local, TypeOK
    <2> QED
      BY <2>1, <1>14, StoreQuiet DEF Give, Release, Return, local, past
  <1>15. CASE Decide(t)
    <2>1. \A q \in Tasks : q # t => arg'[q] = arg[q]
      BY <1>15 DEF Decide, Return, TypeOK
    <2> QED
      BY <2>1, <1>15, StoreQuiet DEF Decide, Return, store
  <1>16. CASE NullHandle(t)
    BY <1>16 DEF NullHandle, local, past, StoreInv, Stored, Writing, Meaning
  <1> QED
    BY <1>1, <1>2, <1>3, <1>4, <1>5, <1>6, <1>7, <1>8, <1>9, <1>10, <1>11, <1>12,
       <1>13, <1>14, <1>15, <1>16 DEF Run

-----------------------------------------------------------------------------
(* What a call has read.                                                   *)

\* A step of a task changes nothing that another task's call has noted, except
\* that a set adds its pair to what they may have seen.
LEMMA CallOthers ==
  ASSUME TypeOK, LockInv, CallInv, NEW t \in Tasks, NEW q \in Tasks, q # t,
         pc'[q] = pc[q], op'[q] = op[q], snap'[q] = snap[q],
         \/ seen'[q] = seen[q] /\ force' = force
         \/ seen'[q] = seen[q] \cup {arg[t]} /\ force' = arg[t] /\ pc[q] # "idle"
         \/ pc[q] = "idle" /\ seen'[q] = {},
         user' = user \/ pc[t] \in Critical
  PROVE  /\ pc'[q] \in {"set_user", "set_pass"} => op'[q] = "set"
         /\ pc'[q] \in Seeding \cup Seeded \cup {"seed_test", "decide"} => op'[q] # "set"
         /\ pc'[q] # "idle" => force' \in seen'[q]
         /\ pc'[q] = "copy_pass" => snap'[q].user = user'
         /\ pc'[q] = "decide" \/ (pc'[q] = "give" /\ op'[q] # "set") =>
              \E f \in seen'[q] : snap'[q] \in Meaning(f)
  <1>1. pc'[q] = "copy_pass" => snap'[q].user = user'
    BY Exclusive DEF CallInv, Critical
  <1>2. seen[q] \subseteq seen'[q] \/ pc[q] = "idle"
    OBVIOUS
  <1> QED
    BY <1>1, <1>2 DEF CallInv, Seeding, Seeded

\* Steps that only move a task on.
LEMMA CallMove ==
  ASSUME TypeOK, LockInv, CallInv, NEW t \in Tasks, NEW from, NEW to,
         Step(t, from, to), UNCHANGED <<op, snap, seen, force>>,
         from # "idle",
         user' = user \/ (from \in Critical /\ from # "copy_pass"),
         to # "copy_pass",
         to \in {"set_user", "set_pass"} => op[t] = "set",
         to \in Seeding \cup Seeded \cup {"seed_test", "decide"} => op[t] # "set",
         to = "decide" \/ (to = "give" /\ op[t] # "set") =>
           \E f \in seen[t] : snap[t] \in Meaning(f)
  PROVE  CallInv'
  <1>1. /\ pc[t] = from /\ pc'[t] = to
        /\ \A q \in Tasks : q # t => pc'[q] = pc[q]
    BY Moves
  <1>2. ASSUME NEW q \in Tasks, q # t
        PROVE  /\ pc'[q] \in {"set_user", "set_pass"} => op'[q] = "set"
               /\ pc'[q] \in Seeding \cup Seeded \cup {"seed_test", "decide"}
                    => op'[q] # "set"
               /\ pc'[q] # "idle" => force' \in seen'[q]
               /\ pc'[q] = "copy_pass" => snap'[q].user = user'
               /\ pc'[q] = "decide" \/ (pc'[q] = "give" /\ op'[q] # "set") =>
                    \E f \in seen'[q] : snap'[q] \in Meaning(f)
    BY <1>1, <1>2, CallOthers
  <1>3. /\ to # "idle" => force \in seen[t]
        /\ op'[t] = op[t] /\ seen'[t] = seen[t] /\ snap'[t] = snap[t] /\ force' = force
    BY <1>1 DEF CallInv
  <1> QED
    BY <1>1, <1>2, <1>3 DEF CallInv, Meaning

\* A call starts, or returns.
LEMMA CallEnds ==
  ASSUME TypeOK, LockInv, CallInv, NEW t \in Tasks, NEW from,
         \/ Call(t) /\ from = "idle"
         \/ Return(t) /\ Step(t, from, "idle") /\ user' = user
  PROVE  CallInv'
  <1>1. /\ pc'[t] \in {"idle", "ensure"}
        /\ pc'[t] = "ensure" => seen'[t] = {force}
        /\ UNCHANGED <<user, force>>
        /\ \A q \in Tasks : q # t => pc'[q] = pc[q]
    BY Moves DEF Call, Return, TypeOK, store
  <1>2. \A q \in Tasks : q # t =>
          /\ op'[q] = op[q] /\ snap'[q] = snap[q] /\ seen'[q] = seen[q]
    BY DEF Call, Return, TypeOK
  <1>3. ASSUME NEW q \in Tasks, q # t
        PROVE  /\ pc'[q] \in {"set_user", "set_pass"} => op'[q] = "set"
               /\ pc'[q] \in Seeding \cup Seeded \cup {"seed_test", "decide"}
                    => op'[q] # "set"
               /\ pc'[q] # "idle" => force' \in seen'[q]
               /\ pc'[q] = "copy_pass" => snap'[q].user = user'
               /\ pc'[q] = "decide" \/ (pc'[q] = "give" /\ op'[q] # "set") =>
                    \E f \in seen'[q] : snap'[q] \in Meaning(f)
    BY <1>1, <1>2, <1>3, CallOthers
  <1>4. /\ pc'[t] \notin {"set_user", "set_pass", "copy_pass", "decide", "give"}
        /\ pc'[t] \notin Seeding \cup Seeded \cup {"seed_test"}
        /\ pc'[t] # "idle" => force' \in seen'[t]
    BY <1>1 DEF Seeding, Seeded
  <1>5. ASSUME NEW q \in Tasks
        PROVE  /\ pc'[q] \in {"set_user", "set_pass"} => op'[q] = "set"
               /\ pc'[q] \in Seeding \cup Seeded \cup {"seed_test", "decide"}
                    => op'[q] # "set"
               /\ pc'[q] # "idle" => force' \in seen'[q]
               /\ pc'[q] = "copy_pass" => snap'[q].user = user'
               /\ pc'[q] = "decide" \/ (pc'[q] = "give" /\ op'[q] # "set") =>
                    \E f \in seen'[q] : snap'[q] \in Meaning(f)
    <2>1. CASE q = t
      BY <1>4, <2>1
    <2> QED
      BY <1>3, <2>1
  <1> QED
    BY <1>5 DEF CallInv, Seeding, Seeded, Meaning

\* A set makes its pair the one in force, for every call under way.
LEMMA CallSet ==
  ASSUME TypeOK, LockInv, CallInv, NEW t \in Tasks, SetPass(t)
  PROVE  CallInv'
  <1>1. /\ pc[t] = "set_pass" /\ pc'[t] = "give" /\ force' = arg[t]
        /\ UNCHANGED <<user, op, snap>>
        /\ \A q \in Tasks : q # t => pc'[q] = pc[q]
    BY Moves DEF SetPass, local
  <1>2. \A q \in Tasks :
          seen'[q] = IF pc[q] = "idle" THEN {} ELSE seen[q] \cup {arg[t]}
    BY DEF SetPass
  <1>3. ASSUME NEW q \in Tasks, q # t
        PROVE  /\ pc'[q] \in {"set_user", "set_pass"} => op'[q] = "set"
               /\ pc'[q] \in Seeding \cup Seeded \cup {"seed_test", "decide"}
                    => op'[q] # "set"
               /\ pc'[q] # "idle" => force' \in seen'[q]
               /\ pc'[q] = "copy_pass" => snap'[q].user = user'
               /\ pc'[q] = "decide" \/ (pc'[q] = "give" /\ op'[q] # "set") =>
                    \E f \in seen'[q] : snap'[q] \in Meaning(f)
    BY <1>1, <1>2, <1>3, CallOthers
  <1>4. op'[t] = "set" /\ force' \in seen'[t]
    BY <1>1, <1>2 DEF CallInv
  <1> QED
    BY <1>1, <1>3, <1>4 DEF CallInv, Seeding, Seeded, Meaning

\* The copies are made while nobody writes, so they make a pair in force.
LEMMA CallCopy ==
  ASSUME TypeOK, LockInv, StoreInv, CallInv, NEW t \in Tasks,
         CopyUser(t) \/ CopyPass(t)
  PROVE  CallInv'
  <1>1. /\ \A q \in Tasks : q # t => pc'[q] = pc[q] /\ snap'[q] = snap[q]
        /\ UNCHANGED <<user, pass, op, arg, seen, force>>
        /\ pc[t] \in {"copy_user", "copy_pass"}
        /\ \/ pc'[t] = "copy_pass" /\ snap'[t].user = user
           \/ /\ pc[t] = "copy_pass" /\ pc'[t] = "give"
              /\ snap'[t] = [snap[t] EXCEPT !.pass = pass]
    BY Moves DEF CopyUser, CopyPass, store, past, TypeOK
  <1>2. ASSUME NEW q \in Tasks, q # t
        PROVE  /\ pc'[q] \in {"set_user", "set_pass"} => op'[q] = "set"
               /\ pc'[q] \in Seeding \cup Seeded \cup {"seed_test", "decide"}
                    => op'[q] # "set"
               /\ pc'[q] # "idle" => force' \in seen'[q]
               /\ pc'[q] = "copy_pass" => snap'[q].user = user'
               /\ pc'[q] = "decide" \/ (pc'[q] = "give" /\ op'[q] # "set") =>
                    \E f \in seen'[q] : snap'[q] \in Meaning(f)
    BY <1>1, <1>2, CallOthers
  <1>3. Stored \in Meaning(force) /\ force \in seen[t] /\ op[t] # "set"
    <2>1. ~Writing
      BY <1>1, NobodyWrites DEF Critical
    <2> QED
      BY <2>1, <1>1 DEF StoreInv, CallInv, Seeded
  <1>4. CASE pc'[t] = "copy_pass" /\ snap'[t].user = user
    BY <1>1, <1>2, <1>3, <1>4 DEF CallInv, Seeding, Seeded, Meaning
  <1>5. CASE pc[t] = "copy_pass" /\ pc'[t] = "give"
             /\ snap'[t] = [snap[t] EXCEPT !.pass = pass]
    <2>1. snap[t] = [user |-> snap[t].user, pass |-> snap[t].pass] /\ snap[t].user = user
      BY <1>5, Shapes DEF CallInv
    <2>2. snap'[t] = Stored
      BY <1>5, <2>1 DEF Stored
    <2> QED
      BY <1>1, <1>2, <1>3, <1>5, <2>2 DEF CallInv, Seeding, Seeded, Meaning
  <1> QED
    BY <1>1, <1>4, <1>5

\* Every step keeps what the calls have read accounted for.
LEMMA CallStep ==
  ASSUME TypeOK, LockInv, StoreInv, CallInv, NEW t \in Tasks, Run(t)
  PROVE  CallInv'
  <1> USE DEF Seeding, Seeded, Critical
  <1>1. CASE Call(t)
    BY <1>1, CallEnds
  <1>2. CASE Ensure(t)
    BY <1>2, CallMove DEF Ensure, store, local, past
  <1>3. CASE Create(t)
    BY <1>3, CallMove DEF Create, local, past
  <1>4. CASE Take(t)
    BY <1>4, CallMove DEF Take, Reach, Acquire, store, local, past
  <1>5. CASE SetUser(t)
    <2>1. op[t] = "set"
      BY <1>5 DEF SetUser, Step, CallInv
    <2> QED
      BY <2>1, <1>5, CallMove DEF SetUser, local, past
  <1>6. CASE SetPass(t)
    BY <1>6, CallSet
  <1>7. CASE SeedTest(t)
    <2>1. op[t] # "set"
      BY <1>7 DEF SeedTest, Step, CallInv
    <2> QED
      BY <2>1, <1>7, CallMove DEF SeedTest, store, local, past
  <1>8. CASE SeedUser(t)
    <2>1. op[t] # "set"
      BY <1>8 DEF SeedUser, Step, CallInv
    <2> QED
      BY <2>1, <1>8, CallMove DEF SeedUser, local, past
  <1>9. CASE SeedPass(t)
    <2>1. op[t] # "set"
      BY <1>9 DEF SeedPass, Step, CallInv
    <2> QED
      BY <2>1, <1>9, CallMove DEF SeedPass, local, past
  <1>10. CASE GiveSeed(t)
    <2>1. op[t] # "set"
      BY <1>10 DEF GiveSeed, Release, Step, CallInv
    <2> QED
      BY <2>1, <1>10, CallMove DEF GiveSeed, Release, local, past
  <1>11. CASE Retake(t)
    <2>1. op[t] # "set"
      BY <1>11 DEF Retake, Reach, Acquire, Step, CallInv
    <2> QED
      BY <2>1, <1>11, CallMove DEF Retake, Reach, Acquire, store, local, past
  <1>12. CASE CopyUser(t)
    BY <1>12, CallCopy
  <1>13. CASE CopyPass(t)
    BY <1>13, CallCopy
  <1>14. CASE Give(t)
    <2>1. CASE op[t] = "set" /\ Release(t, "give", "idle") /\ Return(t)
      BY <2>1, CallEnds DEF Release
    <2>2. CASE op[t] # "set" /\ Release(t, "give", "decide") /\ UNCHANGED <<local, past>>
      <3>1. \E f \in seen[t] : snap[t] \in Meaning(f)
        BY <2>2 DEF Release, Step, CallInv
      <3> QED
        BY <3>1, <2>2, CallMove DEF Release, local, past
    <2> QED
      BY <1>14, <2>1, <2>2 DEF Give
  <1>15. CASE Decide(t)
    BY <1>15, CallEnds DEF Decide, store
  <1>16. CASE NullHandle(t)
    BY <1>16 DEF NullHandle, local, past, CallInv, Meaning
  <1> QED
    BY <1>1, <1>2, <1>3, <1>4, <1>5, <1>6, <1>7, <1>8, <1>9, <1>10, <1>11, <1>12,
       <1>13, <1>14, <1>15, <1>16 DEF Run

-----------------------------------------------------------------------------
(* The theorems.                                                           *)

LEMMA AuthInit ==
  ASSUME Init
  PROVE  AuthInv
  <1>1. LockInv
    BY DEF Init, LockInv
  <1>2. StoreInv
    BY DEF Init, StoreInv, Stored, Nobody, Writing, Seeding, Seeded
  <1>3. CallInv
    BY DEF Init, CallInv, Seeding, Seeded
  <1> QED
    BY <1>1, <1>2, <1>3 DEF AuthInv

LEMMA AuthStutter ==
  ASSUME AuthInv, UNCHANGED vars
  PROVE  AuthInv'
  <1>1. UNCHANGED <<user, pass, lock, holder, panic, pc, op, arg, want, snap, force, seen>>
    BY DEF vars, store, local, past
  <1>2. LockInv'
    BY <1>1 DEF AuthInv, LockInv
  <1>3. StoreInv'
    BY <1>1 DEF AuthInv, StoreInv, Stored, Writing, Meaning
  <1>4. CallInv'
    BY <1>1 DEF AuthInv, CallInv, Meaning
  <1> QED
    BY <1>2, <1>3, <1>4 DEF AuthInv

\* When one task makes the first call, and so creates the mutex, the inductive
\* invariant of the credential store holds whatever the tasks do.
THEOREM AuthInvariant ==
  ASSUME OneFirst
  PROVE  Spec => []AuthInv
  <1>1. Init => TypeOK /\ AuthInv
    BY TypeInit, AuthInit
  <1>2. TypeOK /\ AuthInv /\ [Next]_vars => (TypeOK /\ AuthInv)'
    <2> SUFFICES ASSUME TypeOK, AuthInv, [Next]_vars PROVE TypeOK' /\ AuthInv'
      OBVIOUS
    <2>1. ASSUME NEW t \in Tasks, Run(t) PROVE TypeOK' /\ AuthInv'
      BY <2>1, TypeStep, LockStep, StoreStep, CallStep DEF AuthInv
    <2>2. CASE UNCHANGED vars
      BY <2>2, TypeStutter, AuthStutter
    <2> QED
      BY <2>1, <2>2 DEF Next, Aborted
  <1> QED
    BY <1>1, <1>2, PTL DEF Spec

\* Then the credentials are never read or written by two tasks at once, and every
\* give returns the mutex its task took.
THEOREM OneAtATime ==
  ASSUME OneFirst
  PROVE  Spec => []MutualExclusion
  <1>1. AuthInv => MutualExclusion
    BY Exclusive DEF AuthInv, LockInv, MutualExclusion, Critical
  <1> QED
    BY <1>1, AuthInvariant, PTL

\* Then check_basic and is_secured answer as the credentials in force at some
\* moment of the call do: no request is judged by halves of two pairs.
THEOREM AnswersLinearizable ==
  ASSUME OneFirst
  PROVE  Spec => []Linearizable
  <1>1. AuthInv => Linearizable
    BY DEF AuthInv, CallInv, Linearizable
  <1> QED
    BY <1>1, AuthInvariant, PTL

\* Then no seeding undoes a set.
THEOREM SetsSurvive ==
  ASSUME OneFirst
  PROVE  Spec => []NothingLost
  <1>1. AuthInv => NothingLost
    BY DEF AuthInv, StoreInv, NothingLost, Stored, Writing, Critical
  <1> QED
    BY <1>1, AuthInvariant, PTL

-----------------------------------------------------------------------------
(* The calls take effect at one moment each.                               *)

Calls == [t \in Tasks |-> Called(t)]

Inv == TypeOK /\ AuthInv

LEMMA Invariance ==
  ASSUME OneFirst
  PROVE  Spec => []Inv
  BY TypeCorrect, AuthInvariant, PTL DEF Inv

\* The credentials in force: those of the task that is writing, else the stored ones.
LEMMA HeldSet == LockInv => \A t \in Tasks : pc[t] = "set_pass" => Held = arg[t]
  <1> SUFFICES ASSUME LockInv, NEW t \in Tasks, pc[t] = "set_pass" PROVE Held = arg[t]
    OBVIOUS
  <1>1. \A q \in Tasks : pc[q] = "set_pass" => q = t
    BY Exclusive DEF Critical
  <1>2. {q \in Tasks : pc[q] = "set_pass"} = {t}
    BY <1>1
  <1> QED
    BY <1>2 DEF Held

LEMMA HeldSeed == LockInv => \A t \in Tasks : pc[t] = "seed_pass" => Held = Config
  <1> SUFFICES ASSUME LockInv, NEW t \in Tasks, pc[t] = "seed_pass" PROVE Held = Config
    OBVIOUS
  <1>1. \A q \in Tasks : pc[q] \in {"set_pass", "seed_pass"} => q = t
    BY Exclusive DEF Critical
  <1>2. {q \in Tasks : pc[q] = "set_pass"} = {}
    BY <1>1
  <1> QED
    BY <1>2 DEF Held

LEMMA HeldStored == ~Writing => Held = Stored
  BY DEF Held, Writing

\* The same of the next state.
LEMMA HeldNext ==
  /\ LockInv' => \A t \in Tasks : /\ pc'[t] = "set_pass" => Held' = arg'[t]
                                  /\ pc'[t] = "seed_pass" => Held' = Config
  /\ ~Writing' => Held' = Stored'
  <1>1. LockInv' => (\A t \in Tasks : pc[t] = "set_pass" => Held = arg[t])'
    BY HeldSet, PTL
  <1>2. LockInv' => (\A t \in Tasks : pc[t] = "seed_pass" => Held = Config)'
    BY HeldSeed, PTL
  <1>3. ~Writing' => (Held = Stored)'
    BY HeldStored, PTL
  <1> QED
    BY <1>1, <1>2, <1>3

\* A step that writes neither half keeps the credentials in force.
LEMMA HeldSame ==
  ASSUME LockInv, LockInv', NEW t \in Tasks,
         pc[t] \notin {"set_pass", "seed_pass"}, pc'[t] \notin {"set_pass", "seed_pass"},
         \A q \in Tasks : q # t => pc'[q] = pc[q] /\ arg'[q] = arg[q],
         UNCHANGED <<user, pass>>
  PROVE  Held' = Held
  <1>1. ASSUME NEW q \in Tasks, pc[q] = "set_pass" PROVE Held' = Held
    <2>1. pc'[q] = "set_pass" /\ arg'[q] = arg[q]
      BY <1>1
    <2>2. Held = arg[q]
      BY <1>1, HeldSet
    <2>3. Held' = arg'[q]
      BY <2>1, HeldNext
    <2> QED
      BY <2>1, <2>2, <2>3
  <1>2. ASSUME NEW q \in Tasks, pc[q] = "seed_pass" PROVE Held' = Held
    <2>1. pc'[q] = "seed_pass"
      BY <1>2
    <2>2. Held = Config
      BY <1>2, HeldSeed
    <2>3. Held' = Config
      BY <2>1, HeldNext
    <2> QED
      BY <2>2, <2>3
  <1>3. CASE ~Writing
    <2>1. ~Writing'
      BY <1>3 DEF Writing
    <2>2. Stored' = Stored
      BY DEF Stored
    <2> QED
      BY <1>3, <2>1, <2>2, HeldStored, HeldNext
  <1> QED
    BY <1>1, <1>2, <1>3 DEF Writing

\* A step of a task moves the call of that task alone.
LEMMA CalledAlone ==
  ASSUME NEW t \in Tasks,
         \A q \in Tasks : q # t =>
           pc'[q] = pc[q] /\ op'[q] = op[q] /\ arg'[q] = arg[q] /\ snap'[q] = snap[q]
  PROVE  Calls' = [Calls EXCEPT ![t] = Called(t)']
  <1>1. ASSUME NEW q \in Tasks, q # t PROVE Called(q)' = Called(q)
    BY <1>1 DEF Called, Phase, Got
  <1>2. Calls' = [q \in Tasks |-> Called(q)']
    BY DEF Calls
  <1> QED
    BY <1>1, <1>2 DEF Calls

LEMMA CallsAre == \A t \in Tasks : Calls[t] = Called(t)
  BY DEF Calls

\* A step that shows in no call and leaves the credentials in force shows nothing.
Shows == Promise!Next \/ UNCHANGED <<Held, Calls>>

LEMMA ShowsNothing ==
  ASSUME NEW t \in Tasks, Called(t)' = Called(t), Held' = Held,
         Calls' = [Calls EXCEPT ![t] = Called(t)']
  PROVE  Shows
  <1>1. Calls' = Calls
    BY DEF Calls
  <1> QED
    BY <1>1 DEF Shows

\* What the steps of Credentials say in terms of Auth.
LEMMA Going ==
  ASSUME NEW t \in Tasks, Calls' = [Calls EXCEPT ![t] = Called(t)'],
         NEW c, Called(t)' = c
  PROVE  /\ Promise!Goes(t, Called(t).phase, c)
         /\ [q \in Tasks |-> Called(q)][t] = Called(t)
  BY DEF Promise!Goes, Calls

LEMMA ShowsSet ==
  ASSUME NEW t \in Tasks, Calls' = [Calls EXCEPT ![t] = Called(t)'],
         Called(t).op = "set", Called(t).phase = "begun",
         Called(t)' = [Called(t) EXCEPT !.phase = "done"], Held' = Called(t).arg
  PROVE  Shows
  <1>1. Promise!Set(t)
    BY Going, Zenon DEF Promise!Set
  <1> QED
    BY <1>1 DEF Shows, Promise!Next

LEMMA ShowsSeed ==
  ASSUME NEW t \in Tasks, Calls' = [Calls EXCEPT ![t] = Called(t)'],
         Called(t).op # "set", Called(t).phase = "begun",
         Called(t)' = [Called(t) EXCEPT !.phase = "seeded"],
         Held' = IF Held = Nobody THEN Config ELSE Held
  PROVE  Shows
  <1> DEFINE c == [Called(t) EXCEPT !.phase = "seeded"]
  <1>1. Promise!Goes(t, "begun", c) /\ [q \in Tasks |-> Called(q)][t] = Called(t)
    <2>1. Called(t)' = c
      OBVIOUS
    <2> HIDE DEF c
    <2> QED
      BY <2>1, Going, Zenon
  <1>2. Promise!Seed(t)
    BY <1>1 DEF Promise!Seed
  <1> QED
    BY <1>2 DEF Shows, Promise!Next

LEMMA ShowsLook ==
  ASSUME NEW t \in Tasks, Calls' = [Calls EXCEPT ![t] = Called(t)'],
         Called(t).phase = "seeded",
         Called(t)' = [phase |-> "done", op |-> Called(t).op, arg |-> Called(t).arg, got |-> Held],
         Held' = Held
  PROVE  Shows
  <1> DEFINE c == [phase |-> "done", op |-> Called(t).op, arg |-> Called(t).arg, got |-> Held]
  <1>1. Promise!Goes(t, "seeded", c) /\ [q \in Tasks |-> Called(q)][t] = Called(t)
    <2>1. Called(t)' = c
      OBVIOUS
    <2> HIDE DEF c
    <2> QED
      BY <2>1, Going, Zenon
  <1>2. Promise!Look(t)
    BY <1>1 DEF Promise!Look
  <1> QED
    BY <1>2 DEF Shows, Promise!Next

LEMMA ShowsReturn ==
  ASSUME NEW t \in Tasks, Calls' = [Calls EXCEPT ![t] = Called(t)'],
         Called(t).phase = "done", pc'[t] = "idle", Held' = Held
  PROVE  Shows
  <1>1. Called(t)' = Promise!Nothing
    BY DEF Called, Promise!Nothing
  <1>2. Promise!Return(t)
    BY <1>1, Going, Zenon DEF Promise!Return
  <1> QED
    BY <1>2 DEF Shows, Promise!Next

LEMMA ShowsBegin ==
  ASSUME NEW t \in Tasks, Calls' = [Calls EXCEPT ![t] = Called(t)'],
         Called(t).phase = "idle", NEW o \in Op, NEW c \in Pairs,
         Called(t)' = [phase |-> "begun", op |-> o, arg |-> c, got |-> Nobody], Held' = Held
  PROVE  Shows
  <1>1. Promise!Goes(t, "idle", [phase |-> "begun", op |-> o, arg |-> c, got |-> Nobody])
    BY Going, Zenon
  <1>2. o \in Promise!Functions
    BY DEF Op, Promise!Functions
  <1>3. Promise!Begin(t)
    BY <1>1, <1>2 DEF Promise!Begin
  <1> QED
    BY <1>3 DEF Shows, Promise!Next

\* Where a task is tells how far its call is.
LEMMA CalledIs ==
  ASSUME NEW t \in Tasks
  PROVE  /\ pc[t] = "idle" => Called(t).phase = "idle"
         /\ pc[t] # "idle" =>
              Called(t) = [phase |-> Phase(t), op |-> op[t], arg |-> arg[t], got |-> Got(t)]
  BY DEF Called

LEMMA CalledNext ==
  ASSUME NEW t \in Tasks, pc'[t] # "idle"
  PROVE  Called(t)' = [phase |-> Phase(t)', op |-> op'[t], arg |-> arg'[t], got |-> Got(t)']
  BY DEF Called

-----------------------------------------------------------------------------
(* The steps.                                                              *)

\* Calls that change neither their phase nor what they hold.
LEMMA CalledSame ==
  ASSUME NEW t \in Tasks, pc[t] # "idle", pc'[t] # "idle", Phase(t)' = Phase(t),
         op'[t] = op[t], arg'[t] = arg[t], Got(t)' = Got(t)
  PROVE  Called(t)' = Called(t)
  BY DEF Called

\* Steps inside a call that neither write, nor look, nor take effect.
LEMMA MovesOn ==
  ASSUME Inv, Inv', NEW t \in Tasks, NEW from, NEW to, Step(t, from, to),
         UNCHANGED <<op, arg, user, pass>>,
         \A q \in Tasks : q # t => snap'[q] = snap[q],
         \/ {from, to} \subseteq {"ensure", "create", "take", "wait", "set_user", "seed_test", "seed_user"}
         \/ {from, to} \subseteq {"give_seed", "retake", "rewait", "copy_user", "copy_pass"}
         \/ from = "give" /\ to = "decide" /\ op[t] # "set" /\ snap'[t] = snap[t]
  PROVE  Shows
  <1>1. /\ pc[t] = from /\ pc'[t] = to
        /\ \A q \in Tasks : q # t => pc'[q] = pc[q]
    BY Moves DEF Inv
  <1>2. Phase(t)' = Phase(t) /\ Got(t)' = Got(t) /\ pc[t] # "idle" /\ pc'[t] # "idle"
    BY <1>1 DEF Phase, Got, Seeded
  <1>3. Called(t)' = Called(t)
    BY <1>2, CalledSame
  <1>4. Held' = Held
    BY <1>1, HeldSame DEF Inv, AuthInv
  <1>5. Calls' = [Calls EXCEPT ![t] = Called(t)']
    BY <1>1, CalledAlone
  <1> QED
    BY <1>3, <1>4, <1>5, ShowsNothing

LEMMA CallShows ==
  ASSUME Inv, Inv', NEW t \in Tasks, Call(t)
  PROVE  Shows
  <1>1. PICK o \in Op, c \in Pairs :
          /\ op' = [op EXCEPT ![t] = o]
          /\ arg' = [arg EXCEPT ![t] = IF o = "secured" THEN Nobody ELSE c]
    BY DEF Call
  <1>2. /\ pc[t] = "idle" /\ pc'[t] = "ensure"
        /\ \A q \in Tasks : q # t => pc'[q] = pc[q]
    BY Moves DEF Inv, Call
  <1>3. UNCHANGED <<user, pass, snap>>
    BY DEF Call, store
  <1>4. /\ op'[t] = o /\ arg'[t] \in Pairs
        /\ \A q \in Tasks : q # t => op'[q] = op[q] /\ arg'[q] = arg[q]
    BY <1>1 DEF Inv, TypeOK
  <1>5. Called(t)' = [phase |-> "begun", op |-> o, arg |-> arg'[t], got |-> Nobody]
    BY <1>2, <1>4, CalledNext DEF Phase, Got, Seeded
  <1>6. Called(t).phase = "idle"
    BY <1>2, CalledIs
  <1>7. Held' = Held
    BY <1>2, <1>3, <1>4, HeldSame DEF Inv, AuthInv
  <1>8. Calls' = [Calls EXCEPT ![t] = Called(t)']
    BY <1>2, <1>3, <1>4, CalledAlone
  <1> QED
    BY <1>4, <1>5, <1>6, <1>7, <1>8, ShowsBegin

\* A set takes effect when it writes the first half.
LEMMA SetUserShows ==
  ASSUME Inv, Inv', NEW t \in Tasks, SetUser(t)
  PROVE  Shows
  <1>1. /\ pc[t] = "set_user" /\ pc'[t] = "set_pass"
        /\ \A q \in Tasks : q # t => pc'[q] = pc[q]
    BY Moves DEF Inv, SetUser
  <1>2. UNCHANGED <<op, arg, snap>>
    BY DEF SetUser, local
  <1>3. op[t] = "set"
    BY <1>1 DEF Inv, AuthInv, CallInv
  <1>4. Called(t) = [phase |-> "begun", op |-> "set", arg |-> arg[t], got |-> Nobody]
    BY <1>1, <1>3, CalledIs DEF Phase, Got, Seeded
  <1>5. Called(t)' = [phase |-> "done", op |-> "set", arg |-> arg[t], got |-> Nobody]
    BY <1>1, <1>2, <1>3, CalledNext DEF Phase, Got, Seeded
  <1>6. Held' = arg[t]
    BY <1>1, <1>2, HeldNext DEF Inv, AuthInv
  <1>7. Calls' = [Calls EXCEPT ![t] = Called(t)']
    BY <1>1, <1>2, CalledAlone
  <1>8. /\ Called(t).op = "set" /\ Called(t).phase = "begun" /\ Called(t).arg = arg[t]
        /\ Called(t)' = [Called(t) EXCEPT !.phase = "done"]
    BY <1>4, <1>5
  <1> QED
    BY <1>6, <1>7, <1>8, ShowsSet

\* Its second half shows nothing more.
LEMMA SetPassShows ==
  ASSUME Inv, Inv', NEW t \in Tasks, SetPass(t)
  PROVE  Shows
  <1>1. /\ pc[t] = "set_pass" /\ pc'[t] = "give"
        /\ \A q \in Tasks : q # t => pc'[q] = pc[q]
    BY Moves DEF Inv, SetPass
  <1>2. UNCHANGED <<op, arg, snap, user>> /\ pass' = arg[t].pass
    BY DEF SetPass, local
  <1>3. op[t] = "set" /\ user = arg[t].user
    BY <1>1 DEF Inv, AuthInv, CallInv, StoreInv
  <1>4. Called(t)' = Called(t)
    BY <1>1, <1>2, <1>3, CalledSame DEF Phase, Got, Seeded
  <1>5. Held = arg[t]
    BY <1>1, HeldSet DEF Inv, AuthInv
  <1>6. ~Writing'
    BY <1>1, Exclusive DEF Writing, Inv, AuthInv, Critical
  <1>7. Stored' = arg[t]
    BY <1>2, <1>3, Shapes DEF Stored, Inv
  <1>8. Calls' = [Calls EXCEPT ![t] = Called(t)']
    BY <1>1, <1>2, CalledAlone
  <1> QED
    BY <1>4, <1>5, <1>6, <1>7, <1>8, HeldNext, ShowsNothing

\* A test that finds credentials is the seeding of a call that has none to do.
LEMMA SeedTestShows ==
  ASSUME Inv, Inv', NEW t \in Tasks, SeedTest(t)
  PROVE  Shows
  <1>1. UNCHANGED <<user, pass, op, arg, snap>>
    BY DEF SeedTest, store, local
  <1>2. CASE Step(t, "seed_test", "seed_user")
    BY <1>1, <1>2, MovesOn
  <1>3. CASE (user # Empty \/ pass # Empty) /\ Step(t, "seed_test", "give_seed")
    <2>1. /\ pc[t] = "seed_test" /\ pc'[t] = "give_seed"
          /\ \A q \in Tasks : q # t => pc'[q] = pc[q]
      BY <1>3, Moves DEF Inv
    <2>2. op[t] # "set"
      BY <2>1 DEF Inv, AuthInv, CallInv
    <2>3. Called(t) = [phase |-> "begun", op |-> op[t], arg |-> arg[t], got |-> Nobody]
      BY <2>1, CalledIs DEF Phase, Got, Seeded
    <2>4. Called(t)' = [phase |-> "seeded", op |-> op[t], arg |-> arg[t], got |-> Nobody]
      BY <1>1, <2>1, CalledNext DEF Phase, Got, Seeded
    <2>5. Held # Nobody
      <3>1. ~Writing
        BY <2>1, NobodyWrites DEF Critical, Inv, AuthInv
      <3>2. Stored # Nobody
        BY <1>3 DEF Stored, Nobody
      <3> QED
        BY <3>1, <3>2, HeldStored
    <2>6. Held' = Held
      BY <1>1, <2>1, HeldSame DEF Inv, AuthInv
    <2>7. Calls' = [Calls EXCEPT ![t] = Called(t)']
      BY <1>1, <2>1, CalledAlone
    <2>8. /\ Called(t).op # "set" /\ Called(t).phase = "begun"
          /\ Called(t)' = [Called(t) EXCEPT !.phase = "seeded"]
      BY <2>2, <2>3, <2>4
    <2> QED
      BY <2>5, <2>6, <2>7, <2>8, ShowsSeed
  <1> QED
    BY <1>2, <1>3 DEF SeedTest

\* Else the seeding takes effect when it writes the first half.
LEMMA SeedUserShows ==
  ASSUME Inv, Inv', NEW t \in Tasks, SeedUser(t)
  PROVE  Shows
  <1>1. /\ pc[t] = "seed_user" /\ pc'[t] = "seed_pass"
        /\ \A q \in Tasks : q # t => pc'[q] = pc[q]
    BY Moves DEF Inv, SeedUser
  <1>2. UNCHANGED <<op, arg, snap>>
    BY DEF SeedUser, local
  <1>3. op[t] # "set" /\ user = Empty /\ pass = Empty
    BY <1>1 DEF Inv, AuthInv, CallInv, StoreInv, Seeding
  <1>4. Called(t) = [phase |-> "begun", op |-> op[t], arg |-> arg[t], got |-> Nobody]
    BY <1>1, CalledIs DEF Phase, Got, Seeded
  <1>5. Called(t)' = [phase |-> "seeded", op |-> op[t], arg |-> arg[t], got |-> Nobody]
    BY <1>1, <1>2, CalledNext DEF Phase, Got, Seeded
  <1>6. Held = Nobody
    <2>1. ~Writing
      BY <1>1, NobodyWrites DEF Critical, Inv, AuthInv
    <2>2. Stored = Nobody
      BY <1>3 DEF Stored, Nobody
    <2> QED
      BY <2>1, <2>2, HeldStored
  <1>7. Held' = Config
    BY <1>1, HeldNext DEF Inv, AuthInv
  <1>8. Calls' = [Calls EXCEPT ![t] = Called(t)']
    BY <1>1, <1>2, CalledAlone
  <1>9. /\ Called(t).op # "set" /\ Called(t).phase = "begun"
        /\ Called(t)' = [Called(t) EXCEPT !.phase = "seeded"]
    BY <1>3, <1>4, <1>5
  <1> QED
    BY <1>6, <1>7, <1>8, <1>9, ShowsSeed

LEMMA SeedPassShows ==
  ASSUME Inv, Inv', NEW t \in Tasks, SeedPass(t)
  PROVE  Shows
  <1>1. /\ pc[t] = "seed_pass" /\ pc'[t] = "give_seed"
        /\ \A q \in Tasks : q # t => pc'[q] = pc[q]
    BY Moves DEF Inv, SeedPass
  <1>2. UNCHANGED <<op, arg, snap, user>> /\ pass' = Config.pass
    BY DEF SeedPass, local
  <1>3. user = Config.user
    BY <1>1 DEF Inv, AuthInv, StoreInv
  <1>4. Called(t)' = Called(t)
    BY <1>1, <1>2, CalledSame DEF Phase, Got, Seeded
  <1>5. Held = Config
    BY <1>1, HeldSeed DEF Inv, AuthInv
  <1>6. ~Writing'
    BY <1>1, Exclusive DEF Writing, Inv, AuthInv, Critical
  <1>7. Stored' = Config
    BY <1>2, <1>3, Shapes DEF Stored, Inv
  <1>8. Calls' = [Calls EXCEPT ![t] = Called(t)']
    BY <1>1, <1>2, CalledAlone
  <1> QED
    BY <1>4, <1>5, <1>6, <1>7, <1>8, HeldNext, ShowsNothing

\* A call has looked when it has copied both halves.
LEMMA CopyPassShows ==
  ASSUME Inv, Inv', NEW t \in Tasks, CopyPass(t)
  PROVE  Shows
  <1>1. /\ pc[t] = "copy_pass" /\ pc'[t] = "give"
        /\ \A q \in Tasks : q # t => pc'[q] = pc[q]
    BY Moves DEF Inv, CopyPass
  <1>2. /\ UNCHANGED <<op, arg, user, pass>>
        /\ snap'[t] = [snap[t] EXCEPT !.pass = pass]
        /\ \A q \in Tasks : q # t => snap'[q] = snap[q]
    BY DEF CopyPass, store, Inv, TypeOK
  <1>3. op[t] # "set" /\ snap[t].user = user
    BY <1>1 DEF Inv, AuthInv, CallInv, Seeded
  <1>4. Held = Stored
    BY <1>1, NobodyWrites, HeldStored DEF Critical, Inv, AuthInv
  <1>5. snap'[t] = Stored
    <2>1. snap[t] = [user |-> snap[t].user, pass |-> snap[t].pass]
      BY Shapes DEF Inv
    <2> QED
      BY <1>2, <1>3, <2>1 DEF Stored
  <1>6. Called(t) = [phase |-> "seeded", op |-> op[t], arg |-> arg[t], got |-> Nobody]
    BY <1>1, CalledIs DEF Phase, Got, Seeded
  <1>7. Called(t)' = [phase |-> "done", op |-> op[t], arg |-> arg[t], got |-> Held]
    BY <1>1, <1>2, <1>3, <1>4, <1>5, CalledNext DEF Phase, Got, Seeded
  <1>8. Held' = Held
    BY <1>1, <1>2, HeldSame DEF Inv, AuthInv
  <1>9. Calls' = [Calls EXCEPT ![t] = Called(t)']
    BY <1>1, <1>2, CalledAlone
  <1>10. /\ Called(t).phase = "seeded"
         /\ Called(t)' = [phase |-> "done", op |-> Called(t).op, arg |-> Called(t).arg,
                         got |-> Held]
    BY <1>6, <1>7
  <1> QED
    BY <1>8, <1>9, <1>10, ShowsLook

LEMMA ReturnShows ==
  ASSUME Inv, Inv', NEW t \in Tasks, NEW from \in {"give", "decide"},
         Step(t, from, "idle"), Return(t), UNCHANGED <<user, pass>>
  PROVE  Shows
  <1>1. /\ pc[t] = from /\ pc'[t] = "idle"
        /\ \A q \in Tasks : q # t => pc'[q] = pc[q]
    BY Moves DEF Inv
  <1>2. \A q \in Tasks : q # t => op'[q] = op[q] /\ arg'[q] = arg[q] /\ snap'[q] = snap[q]
    BY DEF Return, Inv, TypeOK
  <1>3. Called(t).phase = "done"
    BY <1>1, CalledIs DEF Phase, Seeded
  <1>4. Held' = Held
    BY <1>1, <1>2, HeldSame DEF Inv, AuthInv
  <1>5. Calls' = [Calls EXCEPT ![t] = Called(t)']
    BY <1>1, <1>2, CalledAlone
  <1> QED
    BY <1>1, <1>3, <1>4, <1>5, ShowsReturn

LEMMA StutterShows ==
  ASSUME UNCHANGED <<user, pass, pc, op, arg, snap>>
  PROVE  UNCHANGED <<Held, Calls>>
  <1>1. Held' = Held
    BY DEF Held, Stored
  <1>2. Calls' = Calls
    BY DEF Calls, Called, Phase, Got
  <1> QED
    BY <1>1, <1>2

LEMMA RunShows ==
  ASSUME Inv, Inv', NEW t \in Tasks, Run(t)
  PROVE  Shows
  <1>1. CASE Call(t)
    BY <1>1, CallShows
  <1>2. CASE Ensure(t)
    BY <1>2, MovesOn DEF Ensure, store, local
  <1>3. CASE Create(t)
    BY <1>3, MovesOn DEF Create, local
  <1>4. CASE Take(t)
    BY <1>4, MovesOn DEF Take, Reach, Acquire, store, local
  <1>5. CASE SetUser(t)
    BY <1>5, SetUserShows
  <1>6. CASE SetPass(t)
    BY <1>6, SetPassShows
  <1>7. CASE SeedTest(t)
    BY <1>7, SeedTestShows
  <1>8. CASE SeedUser(t)
    BY <1>8, SeedUserShows
  <1>9. CASE SeedPass(t)
    BY <1>9, SeedPassShows
  <1>10. CASE GiveSeed(t)
    BY <1>10, MovesOn DEF GiveSeed, Release, local
  <1>11. CASE Retake(t)
    BY <1>11, MovesOn DEF Retake, Reach, Acquire, store, local
  <1>12. CASE CopyUser(t)
    <2>1. \A q \in Tasks : q # t => snap'[q] = snap[q]
      BY <1>12 DEF CopyUser, Inv, TypeOK
    <2> QED
      BY <1>12, <2>1, MovesOn DEF CopyUser, store
  <1>13. CASE CopyPass(t)
    BY <1>13, CopyPassShows
  <1>14. CASE Give(t)
    <2>1. CASE op[t] = "set" /\ Release(t, "give", "idle") /\ Return(t)
      BY <2>1, ReturnShows DEF Release
    <2>2. CASE op[t] # "set" /\ Release(t, "give", "decide") /\ UNCHANGED <<local, past>>
      BY <2>2, MovesOn DEF Release, local
    <2> QED
      BY <1>14, <2>1, <2>2 DEF Give
  <1>15. CASE Decide(t)
    BY <1>15, ReturnShows DEF Decide, store
  <1>16. CASE NullHandle(t)
    BY <1>16, StutterShows DEF NullHandle, local, Shows
  <1> QED
    BY <1>1, <1>2, <1>3, <1>4, <1>5, <1>6, <1>7, <1>8, <1>9, <1>10, <1>11, <1>12,
       <1>13, <1>14, <1>15, <1>16 DEF Run

\* set_active_credentials, check_basic and is_secured keep the promise of auth.h when one
\* task makes the first call: a call sets, seeds or reads both halves of the credentials
\* at one moment, in one order for all tasks.
THEOREM CredentialsKept ==
  ASSUME OneFirst
  PROVE  Spec => KeepsCredentials
  <1>1. Init => Promise!Init
    <2> SUFFICES ASSUME Init PROVE Promise!Init
      OBVIOUS
    <2>1. Held = Nobody
      BY HeldStored DEF Init, Stored, Writing, Nobody
    <2>2. \A t \in Tasks : Called(t) = Promise!Nothing
      BY DEF Init, Called, Promise!Nothing
    <2> QED
      BY <2>1, <2>2 DEF Promise!Init
  <1>2. Inv /\ Inv' /\ [Next]_vars => [Promise!Next]_<<Held, Calls>>
    <2> SUFFICES ASSUME Inv, Inv', [Next]_vars PROVE Promise!Next \/ UNCHANGED <<Held, Calls>>
      OBVIOUS
    <2>1. CASE \E t \in Tasks : Run(t)
      BY <2>1, RunShows DEF Shows
    <2>2. CASE UNCHANGED vars
      BY <2>2, StutterShows DEF vars, store, local
    <2> QED
      BY <2>1, <2>2 DEF Next, Aborted
  <1> QED
    BY <1>1, <1>2, Invariance, PTL DEF Spec, KeepsCredentials, Promise!Spec, Calls
===============================================================================
