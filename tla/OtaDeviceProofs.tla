----------------------------- MODULE OtaDeviceProofs -----------------------------
(* What is confirmed deserves it, and what boots is signed while no upload is        *)
(* overrun, for any images, in runs with any failures, reboots and losses of power.  *)
EXTENDS OtaDevice, TLAPS

e == otadata.entry

\* The parts of an upload and of a probe that a restart ends.
RamInv ==
  /\ device # "up" => worker = "idle" /\ timers = {} /\ ~probe /\ ~accepted
  /\ flash["factory"] \in Images
  /\ device # "off" => flash[running] \in Images
  /\ worker \in {"stream", "verify", "setboot"} => StateOf(running) # "pending"
  /\ worker \in {"verify", "setboot"} => flash[NextUpdate] = upload
  /\ worker = "setboot" => upload \in Signed

\* otadata and what runs: a valid entry runs, a new one is yet to boot, and a pending
\* one runs on probation.
EntryInv ==
  /\ \A i \in 0 .. 1 : e[i].slot = NoSlot <=> e[i].state = "none"
  /\ \A i \in 0 .. 1 : Usable(e[i]) /\ Usable(e[1 - i]) /\ e[i].slot = e[1 - i].slot => otadata.newest = 0
  /\ ~(e[0].state = "pending" /\ e[1].state = "pending")
  /\ device = "boot" => \A i \in 0 .. 1 : e[i].state = "pending" => i \in Active(otadata)
  /\ \A i \in Active(otadata) : device # "off" =>
       /\ e[i].state = "valid" => running = e[i].slot
       /\ e[i].state = "new" => e[i].slot = NextUpdate /\ accepted
  /\ probe => \E i \in Active(otadata) :
       e[i].state = "pending" /\ e[i].slot = running /\ StateOf(running) = "pending"

\* The entry to fall back on, while the active one has not been confirmed.
FallbackInv ==
  \A i \in Active(otadata) :
    e[i].state \in {"new", "pending"} /\ e[1 - i].state = "valid" =>
      /\ flash[e[1 - i].slot] \in Images \ Crashing
      /\ e[1 - i].slot # e[i].slot
      /\ device # "off" /\ e[1 - i].slot = NextUpdate =>
           e[i].state = "pending" /\ e[i].slot = running

\* Without an overrun upload, what otadata falls back on is signed as well.
SignedInv ==
  ~overrun =>
    /\ accepted => worker \in {"idle", "respond"}
    /\ flash["factory"] \in Signed
    /\ device # "off" => flash[running] \in Signed
    /\ \A i \in Active(otadata) :
         /\ e[i].state \in {"new", "valid"} => flash[e[i].slot] \in Signed
         /\ e[i].state \in {"new", "pending"} =>
              /\ e[1 - i].state # "new"
              /\ e[1 - i].state = "valid" => flash[e[1 - i].slot] \in Signed
         /\ device # "off" /\ e[i].state = "pending" => e[i].slot = running

IInv == TypeOK /\ RamInv /\ EntryInv /\ FallbackInv /\ ConfirmedGood /\ SignedInv
-----------------------------------------------------------------------------
(* otadata has one active entry at most, and NextUpdate is another OTA slot.         *)

LEMMA SlotsApart == TypeOK => NextUpdate \in OtaSlot /\ NextUpdate # running
BY DEF TypeOK, NextUpdate, OtaSlot, Slot

LEMMA ActiveIsOne ==
  ASSUME NEW d \in [entry : [0 .. 1 -> Entry], newest : 0 .. 1]
  PROVE  /\ Active(d) \subseteq 0 .. 1
         /\ \A i \in Active(d) : 1 - i \in 0 .. 1 /\ 1 - i \notin Active(d)
         /\ \A i \in Active(d) : Selected(d) = d.entry[i].slot
         /\ Active(d) = {} => Selected(d) = "factory" /\ \A i \in 0 .. 1 : ~Usable(d.entry[i])
<1>1. Active(d) \subseteq 0 .. 1 /\ \A i \in Active(d) : 1 - i \in 0 .. 1 /\ 1 - i \notin Active(d)
  BY DEF Active
<1>2. \A i, j \in Active(d) : i = j
  BY <1>1
<1>3. \A i \in Active(d) : Selected(d) = d.entry[i].slot
  BY <1>1, <1>2 DEF Selected
<1>4. Active(d) = {} => Selected(d) = "factory" /\ \A i \in 0 .. 1 : ~Usable(d.entry[i])
  BY DEF Active, Selected
<1> QED
  BY <1>1, <1>3, <1>4
-----------------------------------------------------------------------------
\* A fresh device: nothing selected, the factory app shipped and signed.
THEOREM Initially == Init => IInv
<1> USE DEF Init, e
<1>1. Init => TypeOK
  <2>1. [slot |-> NoSlot, state |-> "none"] \in Entry
    BY DEF Entry
  <2>2. Init => otadata \in [entry : [0 .. 1 -> Entry], newest : 0 .. 1]
    BY <2>1
  <2>3. Init => flash \in [Slot -> Content] /\ upload \in Images
    BY ImagesOK DEF Content
  <2> QED
    BY <2>2, <2>3 DEF TypeOK, Slot
<1>2. Init => Active(otadata) = {}
  BY DEF Active, Usable
<1>3. Init => RamInv /\ EntryInv
  BY <1>2, ImagesOK DEF RamInv, EntryInv, Usable, NoSlot, Slot
<1>4. Init => FallbackInv /\ ConfirmedGood /\ SignedInv
  BY <1>2, ImagesOK DEF FallbackInv, ConfirmedGood, SignedInv, Slot
<1> QED
  BY <1>1, <1>3, <1>4 DEF IInv

\* Nothing changes.
LEMMA StutterKeeps == IInv /\ UNCHANGED vars => IInv'
<1> SUFFICES ASSUME IInv, UNCHANGED vars PROVE IInv'
  OBVIOUS
<1> USE DEF IInv, e, vars, ram
<1>1. Active(otadata)' = Active(otadata) /\ NextUpdate' = NextUpdate /\ StateOf(running)' = StateOf(running)
  BY DEF Active, Usable, NextUpdate, StateOf
<1>2. TypeOK' /\ RamInv'
  BY <1>1 DEF TypeOK, RamInv
<1>3. EntryInv' /\ FallbackInv' /\ ConfirmedGood' /\ SignedInv'
  BY <1>1 DEF EntryInv, FallbackInv, ConfirmedGood, SignedInv, Usable
<1> QED
  BY <1>2, <1>3

\* A restart leaves only the flash, and what is said of a device that is off.
LEMMA RestartKeeps == IInv /\ Restart => IInv'
<1> SUFFICES ASSUME IInv, Restart PROVE IInv'
  OBVIOUS
<1> USE DEF IInv, Restart, e
<1>1. TypeOK'
  BY ImagesOK DEF TypeOK
<1>2. RamInv' /\ EntryInv'
  BY DEF RamInv, EntryInv, StateOf, Usable, Active, NextUpdate
<1>3. FallbackInv' /\ ConfirmedGood' /\ SignedInv'
  BY DEF FallbackInv, ConfirmedGood, SignedInv, Usable, Active, NextUpdate
<1> QED
  BY <1>1, <1>2, <1>3

\* The worker goes idle, with or without an error answer, and nothing else happens.
LEMMA IdleKeeps ==
  ASSUME IInv, worker' = "idle",
         UNCHANGED <<flash, otadata, device, running, upload, accepted, timers, probe, starved, overrun>>
  PROVE  IInv'
<1> USE DEF IInv, e
<1>1. Active(otadata)' = Active(otadata) /\ NextUpdate' = NextUpdate /\ StateOf(running)' = StateOf(running)
  BY DEF Active, Usable, NextUpdate, StateOf
<1>2. TypeOK' /\ RamInv'
  BY <1>1 DEF TypeOK, RamInv
<1>3. EntryInv' /\ FallbackInv' /\ ConfirmedGood' /\ SignedInv'
  BY <1>1 DEF EntryInv, FallbackInv, ConfirmedGood, SignedInv, Usable
<1> QED
  BY <1>2, <1>3

\* A write to the update slot, while the worker is in an upload, leaves what runs and
\* what otadata falls back on alone.
LEMMA WriteKeeps ==
  ASSUME IInv, worker \in {"begin", "stream"}, StateOf(running) # "pending",
         NEW c \in Content, flash' = [flash EXCEPT ![NextUpdate] = c],
         UNCHANGED <<otadata, device, running, upload, accepted, timers, probe, starved, overrun>>,
         worker' \in {"idle", "stream", "verify"},
         worker' = "verify" => c = upload
  PROVE  IInv'
<1> USE DEF IInv, e
<1>1. NextUpdate \in OtaSlot /\ NextUpdate # running /\ device = "up"
  BY SlotsApart DEF RamInv
<1>2. NextUpdate' = NextUpdate /\ Active(otadata)' = Active(otadata) /\ StateOf(running)' = StateOf(running)
  BY DEF NextUpdate, Active, Usable, StateOf
<1>3. /\ flash'[NextUpdate] = c
      /\ \A s \in Slot : s # NextUpdate => flash'[s] = flash[s]
      /\ running \in Slot /\ "factory" \in Slot /\ "factory" # NextUpdate
  BY <1>1 DEF TypeOK, Slot, OtaSlot
<1>4. TypeOK'
  BY DEF TypeOK
<1>5. RamInv'
  BY <1>1, <1>2, <1>3 DEF RamInv
<1>6. EntryInv'
  BY <1>2 DEF EntryInv, Usable
<1>7. ASSUME NEW i \in Active(otadata)
      PROVE  /\ e[i] \in Entry /\ e[1 - i] \in Entry
             /\ e[i].state # "none" /\ e[i].slot \in Slot
             /\ e[1 - i].state = "valid" => e[1 - i].slot \in Slot
             /\ i \in 0 .. 1 /\ 1 - i \in 0 .. 1
  <2>1. /\ i \in 0 .. 1 /\ 1 - i \in 0 .. 1 /\ Usable(e[i])
    BY DEF Active
  <2>2. e[i] \in Entry /\ e[1 - i] \in Entry
    BY <2>1 DEF TypeOK
  <2> QED
    BY <2>1, <2>2 DEF EntryInv, Usable, Entry, NoSlot, Slot, OtaSlot
<1>8. FallbackInv'
  \* An entry to fall back on in the update slot would need a pending one that runs.
  <2>1. SUFFICES ASSUME NEW i \in Active(otadata), e[i].state \in {"new", "pending"},
                        e[1 - i].state = "valid"
                 PROVE  /\ flash'[e[1 - i].slot] \in Images \ Crashing
                        /\ e[1 - i].slot # e[i].slot
                        /\ e[1 - i].slot # NextUpdate
    BY <1>2 DEF FallbackInv
  <2>2. e[1 - i].slot # e[i].slot /\ flash[e[1 - i].slot] \in Images \ Crashing
    BY <2>1 DEF FallbackInv
  <2>3. e[1 - i].slot = NextUpdate => e[i].state = "pending" /\ e[i].slot = running
    BY <1>1, <2>1 DEF FallbackInv
  <2>4. e[1 - i].slot = NextUpdate => StateOf(running) = "pending"
    BY <1>7, <2>1, <2>2, <2>3 DEF StateOf
  <2> QED
    BY <1>3, <1>7, <2>1, <2>2, <2>4
<1>9. ConfirmedGood'
  BY <1>1, <1>2, <1>3, <1>7 DEF ConfirmedGood, EntryInv
<1>10. SignedInv'
  <2>1. SUFFICES ASSUME ~overrun PROVE SignedInv'
    BY DEF SignedInv
  <2>2. ~accepted
    BY <2>1 DEF SignedInv
  <2>3. ASSUME NEW i \in Active(otadata), e[i].state \in {"new", "valid"}
        PROVE  flash'[e[i].slot] \in Signed
    BY <1>1, <1>3, <1>7, <2>1, <2>2, <2>3 DEF EntryInv, SignedInv
  <2>4. ASSUME NEW i \in Active(otadata), e[i].state \in {"new", "pending"},
               e[1 - i].state = "valid"
        PROVE  flash'[e[1 - i].slot] \in Signed
    <3>1. flash'[e[1 - i].slot] = flash[e[1 - i].slot]
      BY <1>1, <1>2, <1>3, <1>7, <1>8, <2>4 DEF FallbackInv, StateOf
    <3> QED
      BY <2>1, <2>4, <3>1 DEF SignedInv
  <2> QED
    BY <1>1, <1>2, <1>3, <2>1, <2>2, <2>3, <2>4 DEF SignedInv
<1> QED
  BY <1>4, <1>5, <1>6, <1>8, <1>9, <1>10

LEMMA BeginKeeps == IInv /\ Begin => IInv'
<1> SUFFICES ASSUME IInv, Begin PROVE IInv'
  OBVIOUS
<1>1. CASE Fail /\ UNCHANGED flash
  BY <1>1, IdleKeeps DEF Begin, Fail
<1>2. CASE StateOf(running) # "pending" /\ worker' = "stream" /\ flash' = [flash EXCEPT ![NextUpdate] = Erased]
  BY <1>2, WriteKeeps DEF Begin, Content
<1> QED
  BY <1>1, <1>2 DEF Begin

LEMMA StreamKeeps == IInv /\ Stream => IInv'
<1> SUFFICES ASSUME IInv, Stream PROVE IInv'
  OBVIOUS
<1>1. StateOf(running) # "pending" /\ upload \in Content
  BY DEF Stream, IInv, RamInv, TypeOK, Content
<1>2. CASE UNCHANGED worker /\ flash' = [flash EXCEPT ![NextUpdate] = Partial]
  BY <1>1, <1>2, WriteKeeps DEF Stream, Content
<1>3. CASE Fail /\ UNCHANGED flash
  BY <1>3, IdleKeeps DEF Stream, Fail
<1>4. CASE worker' = "verify" /\ flash' = [flash EXCEPT ![NextUpdate] = upload]
  BY <1>1, <1>4, WriteKeeps DEF Stream
<1> QED
  BY <1>2, <1>3, <1>4 DEF Stream

LEMMA VerifyKeeps == IInv /\ Verify => IInv'
<1> SUFFICES ASSUME IInv, Verify PROVE IInv'
  OBVIOUS
<1>1. CASE Fail
  BY <1>1, IdleKeeps DEF Verify, Fail
<1>2. CASE upload \in Signed /\ worker' = "setboot"
  <2> USE <1>2 DEF Verify, IInv, e
  <2>1. Active(otadata)' = Active(otadata) /\ NextUpdate' = NextUpdate /\ StateOf(running)' = StateOf(running)
    BY DEF Active, Usable, NextUpdate, StateOf
  <2>2. TypeOK' /\ RamInv'
    BY <2>1 DEF TypeOK, RamInv
  <2>3. EntryInv' /\ FallbackInv' /\ ConfirmedGood' /\ SignedInv'
    BY <2>1 DEF EntryInv, FallbackInv, ConfirmedGood, SignedInv, Usable
  <2> QED
    BY <2>2, <2>3
<1> QED
  BY <1>1, <1>2 DEF Verify

\* What otadata says after a slot has been selected: the new entry is the active one,
\* unless the one in use is for its slot too.
LEMMA Selects ==
  ASSUME NEW d \in [entry : [0 .. 1 -> Entry], newest : 0 .. 1], NEW s \in OtaSlot,
         NEW i, i = IF 0 \in Active(d) THEN 1 ELSE 0
  PROVE  /\ i \in 0 .. 1 /\ 1 - i \in 0 .. 1
         /\ Select(d, s) \in [entry : [0 .. 1 -> Entry], newest : 0 .. 1]
         /\ Select(d, s).entry[i] = [slot |-> s, state |-> "new"]
         /\ Select(d, s).entry[1 - i] = d.entry[1 - i]
         /\ \/ Active(d) = {} /\ ~Usable(d.entry[1 - i])
            \/ Active(d) = {1 - i} /\ Usable(d.entry[1 - i])
         /\ IF Active(d) # {} /\ d.entry[1 - i].slot = s
              THEN Active(Select(d, s)) = {0} /\ Select(d, s).newest = 0
              ELSE Active(Select(d, s)) = {i}
<1> DEFINE new == [slot |-> s, state |-> "new"]
           n   == Select(d, s)
<1>1. i \in 0 .. 1 /\ 1 - i \in 0 .. 1 /\ 1 - i # i /\ 0 .. 1 = {i, 1 - i}
  OBVIOUS
<1>2. new \in Entry /\ Usable(new)
  BY DEF Entry, Usable, NoSlot, OtaSlot
<1>3. /\ n.entry = [d.entry EXCEPT ![i] = new]
      /\ n.newest = IF Active(d) # {} /\ d.entry[1 - i].slot = s THEN 0 ELSE i
      /\ n = [entry |-> n.entry, newest |-> n.newest]
  BY DEF Select
<1>4. d.entry \in [0 .. 1 -> Entry] /\ d = [entry |-> d.entry, newest |-> d.newest]
  OBVIOUS
<1>5. n.entry \in [0 .. 1 -> Entry] /\ n.entry[i] = new /\ n.entry[1 - i] = d.entry[1 - i]
  BY <1>1, <1>2, <1>3, <1>4
<1>6. n \in [entry : [0 .. 1 -> Entry], newest : 0 .. 1]
  BY <1>1, <1>3, <1>5
<1>7. \/ Active(d) = {} /\ ~Usable(d.entry[1 - i])
      \/ Active(d) = {1 - i} /\ Usable(d.entry[1 - i])
  BY <1>1 DEF Active
<1>8. IF Active(d) # {} /\ d.entry[1 - i].slot = s THEN Active(n) = {0} ELSE Active(n) = {i}
  <2> HIDE DEF n, new
  <2>1. Active(n) = {k \in {i, 1 - i} : Usable(n.entry[k]) /\ (k = n.newest \/ ~Usable(n.entry[1 - k]))}
    BY <1>1 DEF Active
  <2>2. i \in {0, 1} /\ 1 - (1 - i) = i
    BY <1>1
  <2>3. CASE Active(d) # {} /\ d.entry[1 - i].slot = s
    BY <1>1, <1>2, <1>3, <1>5, <1>7, <2>1, <2>2, <2>3
  <2>4. CASE ~(Active(d) # {} /\ d.entry[1 - i].slot = s)
    BY <1>1, <1>2, <1>3, <1>5, <1>7, <2>1, <2>2, <2>4
  <2> QED
    BY <2>3, <2>4
<1> QED
  BY <1>1, <1>3, <1>5, <1>6, <1>7, <1>8

LEMMA SetBootKeeps == IInv /\ SetBoot => IInv'
<1> SUFFICES ASSUME IInv, SetBoot PROVE IInv'
  OBVIOUS
<1>1. CASE Fail /\ UNCHANGED <<otadata, accepted>>
  BY <1>1, IdleKeeps DEF SetBoot, Fail
<1>2. CASE worker' = "respond" /\ otadata' = Select(otadata, NextUpdate) /\ accepted' = TRUE
  <2> USE <1>2 DEF SetBoot, IInv, e
  <2> DEFINE i == IF 0 \in Active(otadata) THEN 1 ELSE 0
             j == 1 - i
             twice == Active(otadata) # {} /\ e[j].slot = NextUpdate
  <2>1. /\ NextUpdate \in OtaSlot /\ NextUpdate # running /\ NextUpdate' = NextUpdate
        /\ device = "up" /\ flash[NextUpdate] = upload /\ upload \in Signed
        /\ StateOf(running) # "pending" /\ ~probe
    BY SlotsApart DEF RamInv, EntryInv, NextUpdate
  <2>2. /\ i \in 0 .. 1 /\ j \in 0 .. 1 /\ 1 - j = i
        /\ otadata' \in [entry : [0 .. 1 -> Entry], newest : 0 .. 1]
        /\ e'[i].slot = NextUpdate /\ e'[i].state = "new" /\ e'[j] = e[j]
        /\ \/ Active(otadata) = {} /\ ~Usable(e[j])
           \/ Active(otadata) = {j} /\ Usable(e[j])
        /\ IF twice THEN Active(otadata)' = {0} /\ otadata'.newest = 0
                    ELSE Active(otadata)' = {i}
    <3>1. otadata \in [entry : [0 .. 1 -> Entry], newest : 0 .. 1]
      BY DEF TypeOK
    <3>2. Active(otadata)' = Active(otadata')
      BY DEF Active
    <3>3. i \in 0 .. 1 /\ j \in 0 .. 1 /\ 1 - j = i
      OBVIOUS
    <3> DEFINE n == Select(otadata, NextUpdate)
    <3>4. /\ n \in [entry : [0 .. 1 -> Entry], newest : 0 .. 1]
          /\ n.entry[i] = [slot |-> NextUpdate, state |-> "new"] /\ n.entry[j] = e[j]
          /\ \/ Active(otadata) = {} /\ ~Usable(e[j])
             \/ Active(otadata) = {j} /\ Usable(e[j])
          /\ IF twice THEN Active(n) = {0} /\ n.newest = 0 ELSE Active(n) = {i}
      <4> HIDE DEF n
      <4>1. \A k : k = (IF 0 \in Active(otadata) THEN 1 ELSE 0) =>
              /\ n \in [entry : [0 .. 1 -> Entry], newest : 0 .. 1]
              /\ n.entry[k] = [slot |-> NextUpdate, state |-> "new"] /\ n.entry[1 - k] = e[1 - k]
              /\ \/ Active(otadata) = {} /\ ~Usable(e[1 - k])
                 \/ Active(otadata) = {1 - k} /\ Usable(e[1 - k])
              /\ IF Active(otadata) # {} /\ e[1 - k].slot = NextUpdate
                   THEN Active(n) = {0} /\ n.newest = 0 ELSE Active(n) = {k}
        BY <2>1, <3>1, Selects DEF n
      <4> QED
        BY <4>1
    <3> QED
      BY <3>2, <3>3, <3>4
  <2>3. \A k \in 0 .. 1 : k = i \/ k = j
    BY <2>2
  <2> HIDE DEF i, j
  <2>4. e[j] \in Entry /\ (e[j].state = "none" <=> e[j].slot = NoSlot)
    BY <2>2 DEF TypeOK, EntryInv
  \* The entry in use before is for what runs, or for the same slot and not confirmed.
  <2>5. e[j].state = "valid" => e[j].slot = running /\ flash[running] \in Images \ Crashing
    BY <2>1, <2>2, <2>4 DEF EntryInv, ConfirmedGood, Usable, NoSlot
  <2>6. TypeOK'
    BY <2>2 DEF TypeOK
  <2>7. RamInv'
    BY <2>1 DEF RamInv
  <2>8. EntryInv'
    <3>1. \A k \in 0 .. 1 : e'[k].slot = NoSlot <=> e'[k].state = "none"
      BY <2>1, <2>2, <2>3, <2>4 DEF OtaSlot, NoSlot
    <3>2. \A k \in 0 .. 1 : Usable(e'[k]) /\ Usable(e'[1 - k]) /\ e'[k].slot = e'[1 - k].slot => otadata'.newest = 0
      <4>1. Usable(e[j]) /\ e[j].slot = NextUpdate => otadata'.newest = 0
        BY <2>2
      <4> QED
        BY <2>2, <2>3, <4>1
    <3>3. ~(e'[0].state = "pending" /\ e'[1].state = "pending")
      BY <2>2, <2>3
    <3>4. \A k \in Active(otadata)' :
            /\ e'[k].state = "valid" => running = e'[k].slot
            /\ e'[k].state = "new" => e'[k].slot = NextUpdate
      BY <2>1, <2>2, <2>3, <2>5 DEF EntryInv
    <3> QED
      BY <2>1, <3>1, <3>2, <3>3, <3>4 DEF EntryInv, Usable
  <2>9. FallbackInv' /\ ConfirmedGood'
    <3>1. ASSUME NEW k \in Active(otadata)', e'[1 - k].state = "valid"
          PROVE  k = i
      BY <2>1, <2>2, <2>3, <2>5, <3>1
    <3> QED
      BY <2>1, <2>2, <2>3, <2>5, <3>1 DEF FallbackInv, ConfirmedGood
  <2>10. SignedInv'
    <3>1. SUFFICES ASSUME ~overrun PROVE SignedInv'
      BY DEF SignedInv
    <3>2. ~accepted /\ flash[running] \in Signed /\ flash["factory"] \in Signed
      BY <2>1, <3>1 DEF SignedInv
    <3>3. ~twice /\ e[j].state # "new"
      BY <2>1, <2>2, <2>4, <2>5, <3>1, <3>2 DEF EntryInv, SignedInv, Usable, Entry, NoSlot
    <3> QED
      BY <2>1, <2>2, <2>3, <2>5, <3>1, <3>2, <3>3 DEF SignedInv
  <2> QED
    BY <2>6, <2>7, <2>8, <2>9, <2>10
<1> QED
  BY <1>1, <1>2 DEF SetBoot
-----------------------------------------------------------------------------
(* The bootloader takes the selected slot if it can, and never one to be kept. *)

LEMMA BootsFirst ==
  ASSUME TypeOK, flash["factory"] \in Images, NEW s \in Slot,
         NEW r, r = FirstBootable(BootOrder(s))
  PROVE  /\ r \in Slot /\ flash[r] \in Images
         /\ flash[s] \in Images => r = s
         /\ s = "ota_0" => r \in {"ota_0", "factory"}
         /\ s = "ota_1" /\ flash["ota_0"] \in Images => r \in {"ota_1", "ota_0"}
<1> DEFINE order == BootOrder(s)
           P(k)  == Bootable(order[k]) /\ \A l \in 1 .. k - 1 : ~Bootable(order[l])
           k     == CHOOSE n \in 1 .. 3 : P(n)
<1>1. /\ \E n \in 1 .. 3 : order[n] = "factory"
      /\ order[1] = s /\ \A n \in 1 .. 3 : order[n] \in Slot
      /\ s = "ota_0" => order[2] = "factory"
      /\ s = "ota_1" => order[2] = "ota_0"
  BY DEF BootOrder, Slot, OtaSlot
<1> HIDE DEF order
<1>2. \E n \in 1 .. 3 : Bootable(order[n])
  BY <1>1 DEF Bootable
<1>3. \E n \in 1 .. 3 : P(n)
  <2>1. CASE Bootable(order[1])
    BY <2>1
  <2>2. CASE ~Bootable(order[1]) /\ Bootable(order[2])
    <3>1. P(2)
      BY <2>2
    <3> QED
      BY <3>1
  <2>3. CASE ~Bootable(order[1]) /\ ~Bootable(order[2])
    <3>1. P(3)
      BY <1>2, <2>3
    <3> QED
      BY <3>1
  <2> QED
    BY <2>1, <2>2, <2>3
<1>4. k \in 1 .. 3 /\ P(k)
  BY <1>3
<1>5. r = order[k]
  BY DEF FirstBootable, order
<1> HIDE DEF k
<1>6. k > 1 => ~Bootable(order[1])
  BY <1>4
<1>7. k > 2 => ~Bootable(order[2])
  BY <1>4
<1> QED
  BY <1>1, <1>4, <1>5, <1>6, <1>7 DEF Bootable

\* What the bootloader makes of otadata: nothing is new or pending any more but the
\* entry it tries.
LEMMA Booted ==
  ASSUME NEW d \in [entry : [0 .. 1 -> Entry], newest : 0 .. 1]
  PROVE  LET g == GivenUp(d)
             t == Tried(g)
         IN /\ g \in [entry : [0 .. 1 -> Entry], newest : 0 .. 1]
            /\ t \in [entry : [0 .. 1 -> Entry], newest : 0 .. 1]
            /\ g.newest = d.newest /\ t.newest = d.newest
            /\ Active(t) = Active(g)
            /\ \A i \in 0 .. 1 :
                 /\ t.entry[i].slot = d.entry[i].slot /\ g.entry[i].slot = d.entry[i].slot
                 /\ g.entry[i].state = IF d.entry[i].state = "pending" THEN "aborted" ELSE d.entry[i].state
                 /\ t.entry[i].state = IF i \in Active(g) /\ g.entry[i].state = "new" THEN "pending" ELSE g.entry[i].state
<1> DEFINE g == GivenUp(d)
           t == Tried(g)
<1>1. \A i \in 0 .. 1 : d.entry[i] \in Entry
  OBVIOUS
<1>2. /\ g \in [entry : [0 .. 1 -> Entry], newest : 0 .. 1] /\ g.newest = d.newest
      /\ \A i \in 0 .. 1 :
           /\ g.entry[i].slot = d.entry[i].slot
           /\ g.entry[i].state = IF d.entry[i].state = "pending" THEN "aborted" ELSE d.entry[i].state
  BY <1>1 DEF GivenUp, Entry
<1> HIDE DEF g
<1>3. \A i \in 0 .. 1 : g.entry[i] \in Entry
  BY <1>2
<1>4. /\ t \in [entry : [0 .. 1 -> Entry], newest : 0 .. 1] /\ t.newest = g.newest
      /\ \A i \in 0 .. 1 :
           /\ t.entry[i].slot = g.entry[i].slot
           /\ t.entry[i].state = IF i \in Active(g) /\ g.entry[i].state = "new" THEN "pending" ELSE g.entry[i].state
  BY <1>2, <1>3 DEF Tried, Entry
<1> HIDE DEF t
<1>5. \A i \in 0 .. 1 : Usable(t.entry[i]) <=> Usable(g.entry[i])
  BY <1>4 DEF Usable
<1>6. \A i \in 0 .. 1 : 1 - i \in 0 .. 1
  OBVIOUS
<1>7. Active(t) = Active(g)
  BY <1>4, <1>5, <1>6 DEF Active
<1> QED
  BY <1>2, <1>4, <1>7 DEF g, t
\* What the bootloader tries was in use, or the one in use is given up for it.
LEMMA InUse ==
  ASSUME TypeOK, EntryInv, NEW i \in Active(GivenUp(otadata))
  PROVE  /\ Usable(e[i]) /\ e[i].state \in {"new", "valid"}
         /\ \/ i \in Active(otadata)
            \/ 1 - i \in Active(otadata) /\ e[1 - i].state = "pending"
<1> USE DEF e
<1> DEFINE g == GivenUp(otadata)
<1>1. i \in 0 .. 1 /\ 1 - i \in 0 .. 1 /\ 1 - (1 - i) = i /\ 1 - i # i
  BY DEF Active
<1>2. /\ g.newest = otadata.newest
      /\ \A k \in 0 .. 1 :
           /\ g.entry[k].slot = e[k].slot
           /\ g.entry[k].state = IF e[k].state = "pending" THEN "aborted" ELSE e[k].state
  BY Booted DEF TypeOK
<1> HIDE DEF g
<1>3. Usable(g.entry[i]) /\ (i = otadata.newest \/ ~Usable(g.entry[1 - i]))
  BY <1>2 DEF Active, g
<1>4. e[i] \in Entry /\ (e[i].slot = NoSlot <=> e[i].state = "none")
  BY <1>1 DEF TypeOK, EntryInv
<1>5. Usable(e[i]) /\ e[i].state \in {"new", "valid"}
  BY <1>1, <1>2, <1>3, <1>4 DEF Usable, Entry
<1>6. CASE i = otadata.newest \/ ~Usable(e[1 - i])
  <2>1. i \in Active(otadata)
    BY <1>1, <1>5, <1>6 DEF Active
  <2> QED
    BY <1>5, <2>1
<1>7. CASE i # otadata.newest /\ Usable(e[1 - i])
  <2>1. e[1 - i].state = "pending"
    BY <1>1, <1>2, <1>3, <1>7 DEF Usable
  <2>2. 1 - i = otadata.newest
    BY <1>1, <1>7 DEF TypeOK
  <2> QED
    BY <1>1, <1>5, <1>7, <2>1, <2>2 DEF Active
<1> QED
  BY <1>5, <1>6, <1>7

LEMMA BootKeeps == IInv /\ Boot => IInv'
<1> SUFFICES ASSUME IInv, Boot PROVE IInv'
  OBVIOUS
<1> USE DEF IInv, e
<1> DEFINE g == GivenUp(otadata)
<1>1. /\ device = "off" /\ device' = "boot" /\ otadata' = Tried(g)
      /\ running' = FirstBootable(BootOrder(Selected(g)))
      /\ UNCHANGED <<flash, ram, overrun>>
  BY DEF Boot
<1>2. /\ g \in [entry : [0 .. 1 -> Entry], newest : 0 .. 1]
      /\ otadata' \in [entry : [0 .. 1 -> Entry], newest : 0 .. 1]
      /\ g.newest = otadata.newest /\ otadata'.newest = otadata.newest
      /\ Active(otadata)' = Active(g)
      /\ \A i \in 0 .. 1 :
           /\ e'[i].slot = e[i].slot /\ g.entry[i].slot = e[i].slot
           /\ g.entry[i].state = IF e[i].state = "pending" THEN "aborted" ELSE e[i].state
           /\ e'[i].state = IF i \in Active(g) /\ g.entry[i].state = "new" THEN "pending" ELSE g.entry[i].state
  <2>1. otadata \in [entry : [0 .. 1 -> Entry], newest : 0 .. 1]
    BY DEF TypeOK
  <2>2. Active(otadata)' = Active(otadata')
    BY DEF Active
  <2> QED
    BY <1>1, <2>1, <2>2, Booted
<1>3. /\ Active(g) \subseteq 0 .. 1
      /\ \A i \in Active(g) : 1 - i \in 0 .. 1 /\ 1 - i \notin Active(g) /\ Selected(g) = e[i].slot
      /\ Active(g) = {} => Selected(g) = "factory"
  BY <1>2, ActiveIsOne
<1> HIDE DEF g
<1>4. ASSUME NEW i \in Active(g)
      PROVE  /\ Usable(e[i]) /\ e[i].state \in {"new", "valid"}
             /\ \/ i \in Active(otadata)
                \/ 1 - i \in Active(otadata) /\ e[1 - i].state = "pending"
  BY InUse DEF g
<1>5. Selected(g) \in Slot
  BY <1>2, <1>3, <1>4 DEF Usable, Entry, NoSlot, Slot
<1>6. /\ running' \in Slot /\ flash[running'] \in Images
      /\ flash[Selected(g)] \in Images => running' = Selected(g)
      /\ Selected(g) = "ota_0" => running' \in {"ota_0", "factory"}
      /\ Selected(g) = "ota_1" /\ flash["ota_0"] \in Images => running' \in {"ota_1", "ota_0"}
  BY <1>1, <1>5, BootsFirst DEF RamInv
<1>7. TypeOK'
  BY <1>1, <1>2, <1>6 DEF TypeOK, ram
<1>8. RamInv'
  BY <1>1, <1>6 DEF RamInv, ram
<1>9. FallbackInv' /\ ConfirmedGood'
  <2>1. ASSUME NEW i \in Active(g), e'[i].state = "valid"
        PROVE  flash[e[i].slot] \in Images \ Crashing
    BY <1>2, <1>3, <1>4, <2>1 DEF ConfirmedGood, FallbackInv
  <2>2. ASSUME NEW i \in Active(g), e'[1 - i].state = "valid", e'[i].state \in {"new", "pending"}
        PROVE  /\ flash[e[1 - i].slot] \in Images \ Crashing
               /\ e[1 - i].slot # e[i].slot
    BY <1>2, <1>3, <1>4, <2>2 DEF FallbackInv
  <2>3. ASSUME NEW i \in Active(g), e'[1 - i].state = "valid", e'[i].state \in {"new", "pending"},
               e[1 - i].slot = NextUpdate'
        PROVE  e'[i].state = "pending" /\ e[i].slot = running'
    <3>1. e[i].slot \in OtaSlot /\ e'[i].state = "pending"
      BY <1>2, <1>3, <1>4, <2>3 DEF Usable, Entry, NoSlot
    <3> QED
      BY <1>3, <1>6, <2>2, <2>3, <3>1 DEF NextUpdate, OtaSlot
  <2> QED
    BY <1>1, <1>2, <1>3, <2>1, <2>2, <2>3 DEF FallbackInv, ConfirmedGood, ram
<1>10. EntryInv'
  <2>1. \A i \in 0 .. 1 : e'[i].slot = NoSlot <=> e'[i].state = "none"
    BY <1>2, <1>4 DEF EntryInv, Usable
  <2>2. \A i \in 0 .. 1 : Usable(e'[i]) /\ Usable(e'[1 - i]) /\ e'[i].slot = e'[1 - i].slot => otadata'.newest = 0
    BY <1>2 DEF EntryInv, Usable
  <2>3. \A i \in 0 .. 1 : e'[i].state = "pending" => i \in Active(g)
    BY <1>2
  <2>4. ~(e'[0].state = "pending" /\ e'[1].state = "pending")
    BY <1>3, <2>3
  <2>5. \A i \in Active(g) : e'[i].state # "new" /\ (e'[i].state = "valid" => running' = e'[i].slot)
    <3>1. \A i \in Active(g) : e'[i].state = "valid" => flash[e[i].slot] \in Images
      BY <1>1, <1>2, <1>3, <1>9 DEF ConfirmedGood
    <3> QED
      BY <1>2, <1>3, <1>6, <3>1
  <2> QED
    BY <1>1, <1>2, <2>1, <2>2, <2>3, <2>4, <2>5 DEF EntryInv, RamInv, ram
<1>11. SignedInv'
  <2>1. SUFFICES ASSUME ~overrun PROVE SignedInv'
    BY <1>1 DEF SignedInv
  <2>2. ASSUME NEW i \in Active(g)
        PROVE  flash[e[i].slot] \in Signed
    BY <1>2, <1>3, <1>4, <2>1 DEF SignedInv
  <2>3. flash[Selected(g)] \in Signed /\ running' = Selected(g)
    BY <1>3, <1>6, <2>1, <2>2, ImagesOK DEF SignedInv
  <2>4. ASSUME NEW i \in Active(g), e'[i].state = "pending"
        PROVE  /\ e'[1 - i].state # "new"
               /\ e'[1 - i].state = "valid" => flash[e[1 - i].slot] \in Signed
    BY <1>2, <1>3, <1>4, <2>1, <2>4 DEF SignedInv
  <2> QED
    BY <1>1, <1>2, <1>3, <1>4, <2>1, <2>2, <2>3, <2>4 DEF SignedInv, ram
<1> QED
  BY <1>7, <1>8, <1>9, <1>10, <1>11
-----------------------------------------------------------------------------
(* The other steps.                                                                  *)

LEMMA ConfirmKeeps == IInv /\ Confirm => IInv'
<1> SUFFICES ASSUME IInv, Confirm PROVE IInv'
  OBVIOUS
<1> USE DEF IInv, e
<1>1. PICK i \in Active(otadata) :
        e[i].state = "pending" /\ e[i].slot = running /\ StateOf(running) = "pending"
  BY DEF Confirm, EntryInv
<1>2. /\ i \in 0 .. 1 /\ 1 - i \in 0 .. 1 /\ Active(otadata) = {i} /\ 1 - (1 - i) = i
      /\ \A k \in 0 .. 1 : k = i \/ k = 1 - i
  <2>1. otadata \in [entry : [0 .. 1 -> Entry], newest : 0 .. 1]
    BY DEF TypeOK
  <2> QED
    BY <1>1, <2>1, ActiveIsOne
<1>3. e[i] \in Entry /\ e[1 - i] \in Entry
  BY <1>2 DEF TypeOK
<1>4. /\ otadata' \in [entry : [0 .. 1 -> Entry], newest : 0 .. 1] /\ otadata'.newest = otadata.newest
      /\ e'[i].slot = e[i].slot /\ e'[i].state = "valid" /\ e'[1 - i] = e[1 - i]
  BY <1>2, <1>3 DEF Confirm, MarkValid, TypeOK, Entry
<1>5. Active(otadata)' = {i}
  BY <1>1, <1>2, <1>3, <1>4 DEF Active, Usable
<1>6. /\ device = "up" /\ flash[running] \in Images \ Crashing /\ probe' = FALSE
      /\ worker \notin {"stream", "verify", "setboot"} /\ NextUpdate' = NextUpdate
      /\ UNCHANGED <<flash, device, running, worker, upload, accepted, timers, starved, overrun>>
  BY <1>1 DEF Confirm, RamInv, TypeOK, NextUpdate
<1>7. TypeOK' /\ RamInv'
  <2>1. TypeOK'
    BY <1>4, <1>6 DEF TypeOK
  <2>2. RamInv'
    BY <1>6 DEF RamInv
  <2> QED
    BY <2>1, <2>2
<1>8. EntryInv'
  BY <1>1, <1>2, <1>3, <1>4, <1>5, <1>6 DEF EntryInv, Usable
<1>9. FallbackInv' /\ ConfirmedGood' /\ SignedInv'
  BY <1>1, <1>2, <1>4, <1>5, <1>6 DEF FallbackInv, ConfirmedGood, SignedInv
<1> QED
  BY <1>7, <1>8, <1>9

\* Steps that leave the flash, otadata and what runs alone.
LEMMA QuietKeeps ==
  ASSUME IInv, device = "up" \/ StartWebUi, device' = "up",
         UNCHANGED <<flash, otadata, running, accepted>>,
         probe' = probe \/ (StartWebUi /\ probe' = (StateOf(running) = "pending")),
         timers' \subseteq {"reboot", "ota_reboot"}, starved' \in BOOLEAN,
         upload' \in Images,
         \/ worker' = worker /\ upload' = upload /\ overrun' = overrun
         \/ worker' = "begin" /\ overrun' = (overrun \/ accepted)
         \/ worker' = "idle" /\ overrun' = overrun
  PROVE  IInv'
<1> USE DEF IInv, e
<1>1. Active(otadata)' = Active(otadata) /\ NextUpdate' = NextUpdate /\ StateOf(running)' = StateOf(running)
  BY DEF Active, Usable, NextUpdate, StateOf
<1>2. device # "off"
  BY DEF StartWebUi
<1>3. TypeOK'
  BY DEF TypeOK, StartWebUi
<1>4. RamInv'
  BY <1>1, <1>2 DEF RamInv
<1>5. StateOf(running) = "pending" /\ device = "boot" =>
        \E i \in Active(otadata) : e[i].state = "pending" /\ e[i].slot = running
  BY DEF StateOf, EntryInv
<1>6. EntryInv'
  <2>1. /\ \A i \in 0 .. 1 : e'[i].slot = NoSlot <=> e'[i].state = "none"
        /\ \A i \in 0 .. 1 : Usable(e'[i]) /\ Usable(e'[1 - i]) /\ e'[i].slot = e'[1 - i].slot => otadata'.newest = 0
        /\ ~(e'[0].state = "pending" /\ e'[1].state = "pending")
    BY DEF EntryInv
  <2>2. \A i \in Active(otadata) :
          /\ e'[i].state = "valid" => running' = e'[i].slot
          /\ e'[i].state = "new" => e'[i].slot = NextUpdate' /\ accepted'
    BY <1>1, <1>2 DEF EntryInv
  <2>3. probe' => \E i \in Active(otadata) :
          e[i].state = "pending" /\ e[i].slot = running /\ StateOf(running) = "pending"
    BY <1>5 DEF EntryInv, StartWebUi
  <2> QED
    BY <1>1, <2>1, <2>2, <2>3 DEF EntryInv, Usable
<1>7. FallbackInv' /\ ConfirmedGood' /\ SignedInv'
  BY <1>1, <1>2 DEF FallbackInv, ConfirmedGood, SignedInv
<1> QED
  BY <1>3, <1>4, <1>6, <1>7

\* Every step of the device keeps the invariant.
THEOREM Inductive == IInv /\ [Next]_vars => IInv'
<1> SUFFICES ASSUME IInv, [Next]_vars PROVE IInv'
  OBVIOUS
<1>1. CASE Boot
  BY <1>1, BootKeeps
<1>2. CASE StartWebUi
  BY <1>2, QuietKeeps DEF StartWebUi, IInv, TypeOK
<1>3. CASE Confirm
  BY <1>3, ConfirmKeeps
<1>4. CASE PowerLoss \/ Crash \/ Abort \/ \E t \in timers : Fire(t)
  BY <1>4, RestartKeeps DEF PowerLoss, Crash, Abort, Fire
<1>5. CASE HandleReboot
  BY <1>5, QuietKeeps DEF HandleReboot, Spawned, IInv, TypeOK
<1>6. ASSUME NEW i \in Images, Upload(i) PROVE IInv'
  BY <1>6, QuietKeeps DEF Upload, Worker, IInv, TypeOK
<1>7. CASE HandleUpload
  <2>1. CASE Respond
    <3>1. device = "up"
      BY <2>1 DEF Respond, Worker, IInv, RamInv
    <3> QED
      BY <2>1, <3>1, QuietKeeps DEF Respond, Worker, Spawned, IInv, TypeOK
  <2> QED
    BY <1>7, <2>1, BeginKeeps, StreamKeeps, VerifyKeeps, SetBootKeeps DEF HandleUpload
<1>8. CASE UNCHANGED vars
  BY <1>8, StutterKeeps
<1> QED
  BY <1>1, <1>2, <1>3, <1>4, <1>5, <1>6, <1>7, <1>8 DEF Next

LEMMA Always == Spec => []IInv
BY Initially, Inductive, PTL DEF Spec
-----------------------------------------------------------------------------
\* Uploads, probes, reboots and the bootloader keep every variable in its type; in
\* particular an upload goes to an OTA slot and some partition always boots.
THEOREM TypeCorrect == Spec => []TypeOK
<1>1. IInv => TypeOK
  BY DEF IInv
<1> QED
  BY Always, <1>1, PTL

\* ota_probe_task confirms only what outlived its delay, and no later upload, failure or
\* loss of power touches a slot that otadata selects as valid.
THEOREM ConfirmedStaysGood == Spec => []ConfirmedGood
<1>1. IInv => ConfirmedGood
  BY DEF IInv
<1> QED
  BY Always, <1>1, PTL

\* esp_ota_mark_app_valid_cancel_rollback, called by ota_probe_task, marks the entry of
\* the slot that runs: while the probe task waits, no upload has selected another.
THEOREM ConfirmsOnlyRunning == Spec => ConfirmsRunning
<1> DEFINE Ask == \A i \in 0 .. 1 :
                    otadata.entry[i].state # "valid" /\ otadata'.entry[i].state = "valid"
                      => otadata.entry[i].slot = running
<1>1. IInv /\ [Next]_vars => [Ask]_vars
  <2> SUFFICES ASSUME IInv, Next, NEW i \in 0 .. 1,
                      otadata.entry[i].state # "valid", otadata'.entry[i].state = "valid"
               PROVE  otadata.entry[i].slot = running
    BY DEF vars
  <2>1. otadata \in [entry : [0 .. 1 -> Entry], newest : 0 .. 1]
    BY DEF IInv, TypeOK
  <2>2. otadata' # otadata
    OBVIOUS
  <2>3. ~Boot
    <3>1. Boot => otadata' = Tried(GivenUp(otadata))
      BY DEF Boot
    <3> QED
      BY <2>1, <3>1, Booted
  <2>4. ~SetBoot
    <3> SUFFICES ASSUME SetBoot PROVE FALSE
      OBVIOUS
    <3>1. otadata' = Select(otadata, NextUpdate) /\ NextUpdate \in OtaSlot
      BY <2>2, SlotsApart DEF SetBoot, IInv
    <3>2. otadata'.entry[i] \in {otadata.entry[i], [slot |-> NextUpdate, state |-> "new"]}
      BY <2>1, <3>1 DEF Select
    <3> QED
      BY <3>2
  <2>5. CASE Confirm
    <3>1. PICK k \in Active(otadata) : otadata.entry[k].slot = running
      BY <2>5 DEF Confirm, IInv, EntryInv, e
    <3>2. i \in Active(otadata)
      BY <2>1, <2>5 DEF Confirm, MarkValid
    <3>3. i = k
      BY <2>1, <3>1, <3>2, ActiveIsOne
    <3> QED
      BY <3>1, <3>3
  <2> QED
    BY <2>2, <2>3, <2>4, <2>5
       DEF Next, StartWebUi, PowerLoss, Crash, Abort, Fire, Restart, HandleReboot, Upload,
           HandleUpload, Begin, Stream, Verify, Respond
<1> QED
  BY Always, <1>1, PTL DEF Spec, ConfirmsRunning

\* As long as no upload is overrun, the selected image is one that handle_upload verified
\* or the one shipped, and so is the one to fall back on.
THEOREM OnlySignedBoots == Spec => []SignedBoots
<1>1. IInv => SignedBoots
  <2> SUFFICES ASSUME IInv, ~overrun
               PROVE  (device # "off" => flash[running] \in Signed) /\ flash[Selected(GivenUp(otadata))] \in Signed
    BY DEF SignedBoots
  <2> DEFINE g == GivenUp(otadata)
  <2>1. otadata \in [entry : [0 .. 1 -> Entry], newest : 0 .. 1]
    BY DEF IInv, TypeOK
  <2>2. /\ g \in [entry : [0 .. 1 -> Entry], newest : 0 .. 1] /\ g.newest = otadata.newest
        /\ \A i \in 0 .. 1 :
             /\ g.entry[i].slot = e[i].slot
             /\ g.entry[i].state = IF e[i].state = "pending" THEN "aborted" ELSE e[i].state
    BY <2>1, Booted DEF e
  <2>3. /\ \A i \in Active(g) : i \in 0 .. 1 /\ 1 - i \in 0 .. 1 /\ Selected(g) = e[i].slot
        /\ Active(g) = {} => Selected(g) = "factory"
    BY <2>2, ActiveIsOne
  <2> HIDE DEF g
  <2>4. ASSUME NEW i \in Active(g) PROVE flash[e[i].slot] \in Signed
    <3>1. /\ e[i].state \in {"new", "valid"}
          /\ \/ i \in Active(otadata)
             \/ 1 - i \in Active(otadata) /\ e[1 - i].state = "pending"
      BY InUse DEF IInv, g
    <3>2. 1 - (1 - i) = i
      BY <2>3
    <3> QED
      BY <3>1, <3>2 DEF IInv, SignedInv
  <2> QED
    BY <2>3, <2>4 DEF IInv, SignedInv, g
<1> QED
  BY Always, <1>1, PTL
-----------------------------------------------------------------------------
(* The update life cycle implements SafeUpdate.  IInv says what may boot, but not    *)
(* which image was confirmed last; that takes where otadata's entries stand.         *)

\* The entries are for different slots, the first one is filled first, and with none in
\* use the factory app runs.
KeptInv ==
  ~overrun =>
    /\ flash["factory"] = Shipped
    /\ \A i \in 0 .. 1 : e[i].slot # NoSlot => e[i].slot # e[1 - i].slot
    /\ (\A i \in 0 .. 1 : e[i].state # "valid") => e[1].state = "none"
    /\ device # "off" /\ Active(otadata) = {} => running = "factory"

View == <<Running, flash[KeptSlot(otadata)], Selecting("new"), Selecting("pending")>>

LEMMA KeptIs ==
  ASSUME NEW d \in [entry : [0 .. 1 -> Entry], newest : 0 .. 1]
  PROVE  /\ (\A i \in 0 .. 1 : d.entry[i].state # "valid") => KeptSlot(d) = "factory"
         /\ \A i \in 0 .. 1 :
              d.entry[i].state = "valid" /\ (i = d.newest \/ d.entry[1 - i].state # "valid")
                => KeptSlot(d) = d.entry[i].slot
<1> DEFINE valid == {i \in 0 .. 1 : d.entry[i].state = "valid"}
           c == CHOOSE i \in valid : i = d.newest \/ valid = {i}
<1>1. KeptSlot(d) = IF valid = {} THEN "factory" ELSE d.entry[c].slot
  BY DEF KeptSlot
<1>2. ASSUME NEW i \in 0 .. 1, d.entry[i].state = "valid", i = d.newest \/ d.entry[1 - i].state # "valid"
      PROVE  c = i
  <2>1. i \in valid /\ \A k \in valid : k \in 0 .. 1 /\ (k = i \/ k = 1 - i)
    BY <1>2
  <2>2. i = d.newest \/ valid = {i}
    BY <1>2, <2>1
  <2> HIDE DEF valid
  <2>3. c \in valid /\ (c = d.newest \/ valid = {c})
    BY <2>1, <2>2
  <2> HIDE DEF c
  <2>4. CASE i = d.newest
    BY <2>1, <2>3, <2>4
  <2>5. CASE valid = {i}
    BY <2>3, <2>5
  <2> QED
    BY <2>2, <2>4, <2>5
<1> HIDE DEF c
<1> QED
  BY <1>1, <1>2

\* What SafeUpdate's variables are, by the state of the active entry.
LEMMA Views ==
  IInv => /\ Active(otadata) = {} =>
               KeptSlot(otadata) = "factory" /\ \A st \in {"new", "pending"} : Selecting(st) = {}
          /\ \A i \in Active(otadata) :
               /\ i \in 0 .. 1 /\ 1 - i \in 0 .. 1 /\ Active(otadata) = {i}
               /\ e[i].slot \in OtaSlot /\ e[i].state \in {"new", "pending", "valid"}
               /\ KeptSlot(otadata) = IF e[i].state = "valid" THEN e[i].slot
                                      ELSE IF e[1 - i].state = "valid" THEN e[1 - i].slot ELSE "factory"
               /\ \A st \in {"new", "pending"} :
                    Selecting(st) = IF e[i].state = st THEN {flash[e[i].slot]} ELSE {}
<1> SUFFICES ASSUME IInv
             PROVE  /\ Active(otadata) = {} =>
                         KeptSlot(otadata) = "factory" /\ \A st \in {"new", "pending"} : Selecting(st) = {}
                    /\ \A i \in Active(otadata) :
                         /\ i \in 0 .. 1 /\ 1 - i \in 0 .. 1 /\ Active(otadata) = {i}
                         /\ e[i].slot \in OtaSlot /\ e[i].state \in {"new", "pending", "valid"}
                         /\ KeptSlot(otadata) = IF e[i].state = "valid" THEN e[i].slot
                                                ELSE IF e[1 - i].state = "valid" THEN e[1 - i].slot ELSE "factory"
                         /\ \A st \in {"new", "pending"} :
                              Selecting(st) = IF e[i].state = st THEN {flash[e[i].slot]} ELSE {}
  OBVIOUS
<1> USE DEF e
<1>1. otadata \in [entry : [0 .. 1 -> Entry], newest : 0 .. 1]
  BY DEF IInv, TypeOK
<1>2. /\ \A k \in 0 .. 1 : e[k] \in Entry /\ (e[k].slot = NoSlot <=> e[k].state = "none")
      /\ \A k \in 0 .. 1 : e[k].state = "valid" => Usable(e[k])
  BY <1>1 DEF IInv, EntryInv, Usable
<1>3. /\ (\A k \in 0 .. 1 : e[k].state # "valid") => KeptSlot(otadata) = "factory"
      /\ \A k \in 0 .. 1 : e[k].state = "valid" /\ (k = otadata.newest \/ e[1 - k].state # "valid")
                             => KeptSlot(otadata) = e[k].slot
  BY <1>1, KeptIs
<1>4. ASSUME Active(otadata) = {}
      PROVE  KeptSlot(otadata) = "factory" /\ \A st \in {"new", "pending"} : Selecting(st) = {}
  <2>1. \A k \in 0 .. 1 : e[k].state # "valid"
    BY <1>1, <1>2, <1>4, ActiveIsOne
  <2> QED
    BY <1>3, <1>4, <2>1 DEF Selecting
<1>5. ASSUME NEW i \in Active(otadata)
      PROVE  /\ i \in 0 .. 1 /\ 1 - i \in 0 .. 1 /\ Active(otadata) = {i}
             /\ e[i].slot \in OtaSlot /\ e[i].state \in {"new", "pending", "valid"}
             /\ KeptSlot(otadata) = IF e[i].state = "valid" THEN e[i].slot
                                    ELSE IF e[1 - i].state = "valid" THEN e[1 - i].slot ELSE "factory"
             /\ \A st \in {"new", "pending"} :
                  Selecting(st) = IF e[i].state = st THEN {flash[e[i].slot]} ELSE {}
  <2>1. i \in 0 .. 1 /\ 1 - i \in 0 .. 1 /\ Active(otadata) = {i} /\ 1 - (1 - i) = i
        /\ \A k \in 0 .. 1 : k = i \/ k = 1 - i
    BY <1>1, ActiveIsOne
  <2>2. Usable(e[i]) /\ (i = otadata.newest \/ ~Usable(e[1 - i]))
    BY DEF Active
  <2>3. e[i].slot \in OtaSlot /\ e[i].state \in {"new", "pending", "valid"}
    BY <1>2, <2>1, <2>2 DEF Usable, Entry
  <2>4. e[i].state = "valid" => KeptSlot(otadata) = e[i].slot
    BY <1>2, <1>3, <2>1, <2>2
  <2>5. e[i].state # "valid" =>
          KeptSlot(otadata) = IF e[1 - i].state = "valid" THEN e[1 - i].slot ELSE "factory"
    BY <1>3, <2>1
  <2>6. \A st : {k \in Active(otadata) : e[k].state = st} = IF e[i].state = st THEN {i} ELSE {}
    BY <2>1
  <2>7. \A st : Selecting(st) = IF e[i].state = st THEN {flash[e[i].slot]} ELSE {}
    BY <2>6 DEF Selecting
  <2> QED
    BY <2>1, <2>3, <2>4, <2>5, <2>7
<1> QED
  BY <1>4, <1>5
\* A step that the abstract specification sees as one of its own, or not at all.
Maps == KeptInv' /\ (Update!Next \/ UNCHANGED View)

\* The worker's writes and its selection of a slot come from a confirmed image: what
\* runs is what is kept, nothing is selected beside it, and NextUpdate is another slot.
LEMMA FromConfirmed ==
  ASSUME IInv, KeptInv, ~overrun, device = "up", ~accepted, StateOf(running) # "pending"
  PROVE  /\ KeptSlot(otadata) = running /\ NextUpdate # running
         /\ \A i \in Active(otadata) : e[i].state = "valid"
         /\ Selecting("new") = {} /\ Selecting("pending") = {}
<1> USE DEF e
<1>1. ASSUME NEW i \in Active(otadata) PROVE e[i].state = "valid"
  <2>1. /\ i \in 0 .. 1 /\ 1 - i \in 0 .. 1 /\ e[i].slot \in OtaSlot
        /\ e[i].state \in {"new", "pending", "valid"}
    BY Views
  <2>2. e[i].state # "new"
    BY DEF IInv, EntryInv
  <2>3. e[i].state # "pending"
    <3> SUFFICES ASSUME e[i].state = "pending" PROVE FALSE
      OBVIOUS
    <3>1. e[i].slot = running /\ e[1 - i].slot # running
      BY <2>1 DEF IInv, SignedInv, KeptInv, OtaSlot, NoSlot
    <3> QED
      BY <2>1, <3>1 DEF StateOf
  <2> QED
    BY <2>1, <2>2, <2>3
<1>2. CASE Active(otadata) = {}
  BY <1>2, Views, SlotsApart DEF KeptInv, IInv
<1>3. ASSUME NEW i \in Active(otadata)
      PROVE  KeptSlot(otadata) = running /\ Selecting("new") = {} /\ Selecting("pending") = {}
  BY <1>1, Views DEF IInv, EntryInv
<1> QED
  BY <1>1, <1>2, <1>3, SlotsApart DEF IInv

\* A write is seen by nobody.
LEMMA WriteMaps ==
  ASSUME IInv, KeptInv, ~overrun, worker \in {"begin", "stream"}, StateOf(running) # "pending",
         NEW c \in Content, flash' = [flash EXCEPT ![NextUpdate] = c],
         UNCHANGED <<otadata, device, running, overrun>>
  PROVE  Maps
<1>1. device = "up" /\ ~accepted
  BY DEF IInv, RamInv, SignedInv
<1>2. /\ KeptSlot(otadata) = running /\ NextUpdate # running
      /\ \A i \in Active(otadata) : e[i].state = "valid"
      /\ Selecting("new") = {} /\ Selecting("pending") = {}
  BY <1>1, FromConfirmed
<1>3. /\ running \in Slot /\ "factory" \in Slot /\ NextUpdate \in OtaSlot
      /\ flash'[running] = flash[running] /\ flash'["factory"] = flash["factory"]
  BY <1>2, SlotsApart DEF IInv, TypeOK, Slot, OtaSlot
<1>4. Active(otadata)' = Active(otadata) /\ KeptSlot(otadata)' = KeptSlot(otadata)
  BY DEF Active, KeptSlot, Usable
<1>5. Running' = Running /\ flash'[KeptSlot(otadata)'] = flash[KeptSlot(otadata)]
  BY <1>2, <1>3, <1>4 DEF Running
<1>6. \A st \in {"new", "pending"} : Selecting(st)' = {}
  BY <1>2, <1>4 DEF Selecting, e
<1>7. KeptInv'
  BY <1>3, <1>4 DEF KeptInv, e
<1> QED
  BY <1>2, <1>5, <1>6, <1>7 DEF Maps, View

\* Steps that leave the flash, otadata and what runs alone.
LEMMA QuietMaps ==
  ASSUME KeptInv, ~overrun,
         UNCHANGED <<flash, otadata, running>>, device' = "off" <=> device = "off"
  PROVE  Maps
<1>1. Active(otadata)' = Active(otadata) /\ KeptSlot(otadata)' = KeptSlot(otadata)
  BY DEF Active, KeptSlot, Usable
<1>2. Running' = Running
  BY DEF Running
<1>3. Selecting("new")' = Selecting("new") /\ Selecting("pending")' = Selecting("pending")
  BY <1>1 DEF Selecting
<1>4. KeptInv'
  BY <1>1 DEF KeptInv, e
<1> QED
  BY <1>1, <1>2, <1>3, <1>4 DEF Maps, View

\* A restart, for whatever reason.
LEMMA RestartMaps ==
  ASSUME KeptInv, ~overrun, device # "off", Restart
  PROVE  Maps
<1>1. Active(otadata)' = Active(otadata) /\ KeptSlot(otadata)' = KeptSlot(otadata)
  BY DEF Active, KeptSlot, Usable, Restart
<1>2. Running # {} /\ Running' = {}
  BY DEF Running, Restart
<1>3. Selecting("new")' = Selecting("new") /\ Selecting("pending")' = Selecting("pending")
  BY <1>1 DEF Selecting, Restart
<1>4. flash'[KeptSlot(otadata)'] = flash[KeptSlot(otadata)]
  BY <1>1 DEF Restart
<1>5. KeptInv'
  BY <1>1 DEF KeptInv, e, Restart
<1> QED
  BY <1>2, <1>3, <1>4, <1>5 DEF Maps, Update!Next, Update!Stop
\* The selection of the update slot is the acceptance of its image.
LEMMA SetBootMaps ==
  ASSUME IInv, IInv', KeptInv, ~overrun, SetBoot
  PROVE  Maps
<1> USE DEF e
<1>1. CASE UNCHANGED otadata
  BY <1>1, QuietMaps DEF SetBoot
<1>2. CASE otadata' = Select(otadata, NextUpdate)
  <2> DEFINE i == IF 0 \in Active(otadata) THEN 1 ELSE 0
             j == 1 - i
  <2>1. /\ UNCHANGED <<flash, device, running, overrun>>
        /\ device = "up" /\ ~accepted /\ StateOf(running) # "pending"
        /\ flash[NextUpdate] = upload /\ upload \in Signed
    BY DEF SetBoot, IInv, RamInv, SignedInv
  <2>2. /\ KeptSlot(otadata) = running /\ NextUpdate # running
        /\ \A k \in Active(otadata) : e[k].state = "valid"
        /\ Selecting("new") = {} /\ Selecting("pending") = {}
    BY <2>1, FromConfirmed
  <2>3. otadata \in [entry : [0 .. 1 -> Entry], newest : 0 .. 1] /\ NextUpdate \in OtaSlot
    BY SlotsApart DEF IInv, TypeOK
  <2>4. /\ i \in 0 .. 1 /\ j \in 0 .. 1 /\ 1 - j = i
        /\ \A k \in 0 .. 1 : k = i \/ k = j
        /\ Active(otadata) = {} => i = 0 /\ j = 1
    OBVIOUS
  <2>5. /\ e'[i].slot = NextUpdate /\ e'[i].state = "new" /\ e'[j] = e[j]
        /\ \/ Active(otadata) = {} /\ ~Usable(e[j])
           \/ Active(otadata) = {j} /\ Usable(e[j])
        /\ ~(Active(otadata) # {} /\ e[j].slot = NextUpdate) => Active(otadata') = {i}
    <3> DEFINE n == Select(otadata, NextUpdate)
    <3> HIDE DEF n
    <3>1. \A k : k = (IF 0 \in Active(otadata) THEN 1 ELSE 0) =>
            /\ n.entry[k] = [slot |-> NextUpdate, state |-> "new"] /\ n.entry[1 - k] = e[1 - k]
            /\ \/ Active(otadata) = {} /\ ~Usable(e[1 - k])
               \/ Active(otadata) = {1 - k} /\ Usable(e[1 - k])
            /\ IF Active(otadata) # {} /\ e[1 - k].slot = NextUpdate
                 THEN Active(n) = {0} /\ n.newest = 0 ELSE Active(n) = {k}
      BY <2>3, Selects DEF n
    <3>2. n = otadata'
      BY <1>2 DEF n
    <3> QED
      BY <3>1, <3>2
  <2> HIDE DEF i, j
  <2>6. e[j] \in Entry /\ (e[j].slot = NoSlot <=> e[j].state = "none")
    BY <2>3, <2>4 DEF IInv, EntryInv
  <2>7. otadata' \in [entry : [0 .. 1 -> Entry], newest : 0 .. 1]
    BY DEF IInv, TypeOK
  \* The entry in use, if there is one, is for what runs; without one the other is empty.
  <2>8. \/ e[j].state = "valid" /\ e[j].slot = running
        \/ Active(otadata) = {} /\ e[j].state = "none" /\ i = 0
    <3>1. CASE Active(otadata) = {j}
      BY <2>1, <2>2, <3>1 DEF IInv, EntryInv
    <3>2. CASE Active(otadata) = {}
      <4>1. \A k \in 0 .. 1 : e[k].state # "valid"
        BY <2>3, <3>2, ActiveIsOne DEF IInv, EntryInv, Usable
      <4> QED
        BY <2>4, <3>2, <4>1 DEF KeptInv
    <3> QED
      BY <2>5, <3>1, <3>2
  <2>9. Active(otadata)' = {i}
    BY <2>2, <2>5, <2>8 DEF Active
  <2>10. KeptSlot(otadata') = KeptSlot(otadata)
    <3>1. CASE e[j].state = "valid" /\ e[j].slot = running
      BY <2>2, <2>4, <2>5, <2>7, <3>1, KeptIs
    <3>2. CASE Active(otadata) = {} /\ e[j].state = "none"
      <4>1. \A k \in 0 .. 1 : e'[k].state # "valid"
        BY <2>4, <2>5, <3>2
      <4>2. KeptSlot(otadata') = "factory" /\ KeptSlot(otadata) = "factory"
        BY <2>7, <3>2, <4>1, KeptIs, Views
      <4> QED
        BY <4>2
    <3> QED
      BY <2>8, <3>1, <3>2
  <2>11. KeptInv'
    <3>1. \A k \in 0 .. 1 : e'[k].slot # NoSlot => e'[k].slot # e'[1 - k].slot
      <4>1. e[j].slot # NextUpdate
        BY <2>2, <2>3, <2>6, <2>8 DEF OtaSlot, NoSlot
      <4>2. e'[i].slot # e'[j].slot
        BY <2>5, <4>1
      <4>3. 1 - i = j /\ 1 - j = i
        BY <2>4
      <4> QED
        BY <2>4, <4>2, <4>3
    <3>2. (\A k \in 0 .. 1 : e'[k].state # "valid") => e'[1].state = "none"
      BY <2>4, <2>5, <2>8
    <3> QED
      BY <2>1, <2>9, <3>1, <3>2 DEF KeptInv
  <2>12. Running = {flash[KeptSlot(otadata)]} /\ Running' = Running
    BY <2>1, <2>2 DEF Running
  <2>13. Selecting("new")' = {upload} /\ Selecting("pending")' = {}
    BY <2>1, <2>5, <2>9, SMTT(30) DEF Selecting
  <2>14. flash'[KeptSlot(otadata)'] = flash[KeptSlot(otadata)]
    BY <2>1, <2>10, Zenon DEF KeptSlot
  <2>15. Update!Accept(upload)
    BY <2>2, <2>12, <2>13, <2>14 DEF Update!Accept
  <2> QED
    BY <2>1, <2>11, <2>15 DEF Maps, Update!Next
<1> QED
  BY <1>1, <1>2 DEF SetBoot
\* A boot tries a new image; otherwise what it runs is what is kept.
LEMMA BootMaps ==
  ASSUME IInv, IInv', KeptInv, ~overrun, Boot
  PROVE  Maps
<1> USE DEF e
<1> DEFINE g == GivenUp(otadata)
<1>1. /\ device = "off" /\ device' = "boot" /\ otadata' = Tried(g)
      /\ running' = FirstBootable(BootOrder(Selected(g)))
      /\ UNCHANGED <<flash, overrun>>
  BY DEF Boot
<1>2. otadata \in [entry : [0 .. 1 -> Entry], newest : 0 .. 1]
  BY DEF IInv, TypeOK
<1>3. /\ g \in [entry : [0 .. 1 -> Entry], newest : 0 .. 1]
      /\ g.newest = otadata.newest /\ otadata'.newest = otadata.newest
      /\ Active(otadata') = Active(g)
      /\ \A i \in 0 .. 1 :
           /\ e'[i].slot = e[i].slot /\ g.entry[i].slot = e[i].slot
           /\ g.entry[i].state = IF e[i].state = "pending" THEN "aborted" ELSE e[i].state
           /\ e'[i].state = IF i \in Active(g) /\ g.entry[i].state = "new" THEN "pending" ELSE g.entry[i].state
  BY <1>1, <1>2, Booted
<1>4. /\ Active(g) \subseteq 0 .. 1
      /\ \A i \in Active(g) : 1 - i \in 0 .. 1 /\ 1 - i \notin Active(g) /\ Selected(g) = e[i].slot
      /\ Active(g) = {} => Selected(g) = "factory"
  BY <1>3, ActiveIsOne
<1>5. \A i \in Active(g) : Usable(e[i]) /\ e[i].state \in {"new", "valid"}
  BY InUse DEF IInv
\* An entry in use stays so, unless its boot was its last chance.
<1>6. ASSUME NEW i \in Active(otadata)
      PROVE  /\ e[i].state # "pending" => Active(g) = {i}
             /\ e[i].state = "pending" => Active(g) = IF e[1 - i].state = "valid" THEN {1 - i} ELSE {}
  <2>1. /\ i \in 0 .. 1 /\ 1 - i \in 0 .. 1 /\ 1 - (1 - i) = i
        /\ \A k \in 0 .. 1 : k = i \/ k = 1 - i
        /\ Usable(e[i]) /\ (i = otadata.newest \/ ~Usable(e[1 - i]))
    BY DEF Active
  <2> HIDE DEF g
  <2>2. \A k \in 0 .. 1 :
          k \in Active(g) <=> Usable(g.entry[k]) /\ (k = g.newest \/ ~Usable(g.entry[1 - k]))
    BY DEF Active
  <2>3. CASE e[i].state # "pending"
    <3>1. Usable(g.entry[i]) /\ (Usable(g.entry[1 - i]) => Usable(e[1 - i]))
      BY <1>3, <2>1, <2>3 DEF Usable
    <3>2. i \in Active(g)
      BY <1>3, <2>1, <2>2, <3>1
    <3> QED
      BY <1>4, <2>1, <2>3, <3>2
  <2>4. CASE e[i].state = "pending"
    <3>1. i \notin Active(g) /\ ~Usable(g.entry[i])
      BY <1>3, <2>1, <2>2, <2>4 DEF Usable
    <3>2. e[1 - i].state # "new"
      BY <2>4 DEF IInv, SignedInv
    <3>3. CASE e[1 - i].state = "valid"
      <4>1. Usable(g.entry[1 - i])
        BY <1>3, <2>1, <3>3 DEF IInv, EntryInv, Usable
      <4>2. 1 - i \in Active(g)
        BY <2>1, <2>2, <3>1, <4>1
      <4> QED
        BY <1>4, <2>1, <2>4, <3>1, <3>3, <4>2
    <3>4. CASE e[1 - i].state # "valid"
      <4>1. 1 - i \notin Active(g)
        BY <1>5, <3>2, <3>4
      <4> QED
        BY <1>4, <2>1, <2>4, <3>1, <3>4, <4>1
    <3> QED
      BY <3>3, <3>4
  <2> QED
    BY <2>3, <2>4
<1>7. Active(otadata) = {} => Active(g) = {}
  BY InUse DEF IInv
<1> HIDE DEF g
\* What is selected is signed, hence bootable, and so it runs.
<1>8. running' = Selected(g)
  <2>1. Selected(g) \in Slot /\ flash[Selected(g)] \in Images
    <3>1. CASE Active(g) = {}
      BY <1>4, <3>1 DEF IInv, RamInv, Slot
    <3>2. ASSUME NEW i \in Active(g) PROVE flash[e[i].slot] \in Signed /\ e[i].slot \in Slot
      <4>1. flash[e[i].slot] \in Signed
        <5>1. /\ e[i].state \in {"new", "valid"}
              /\ \/ i \in Active(otadata)
                 \/ 1 - i \in Active(otadata) /\ e[1 - i].state = "pending"
          BY InUse DEF IInv, g
        <5>2. 1 - (1 - i) = i
          BY <1>4
        <5> QED
          BY <5>1, <5>2 DEF IInv, SignedInv
      <4>2. e[i].slot \in Slot
        <5>1. e[i] \in Entry /\ e[i].slot # NoSlot
          BY <1>2, <1>4, <1>5, SMTT(30) DEF Usable
        <5> QED
          BY <5>1 DEF Entry, Slot
      <4> QED
        BY <4>1, <4>2
    <3> QED
      BY <1>4, <3>1, <3>2, ImagesOK
  <2> QED
    BY <1>1, <2>1, BootsFirst DEF IInv, RamInv
<1>9. KeptSlot(otadata') = KeptSlot(otadata) /\ flash'[KeptSlot(otadata)'] = flash[KeptSlot(otadata)]
  <2>1. \A i \in 0 .. 1 : e'[i].state = "valid" <=> e[i].state = "valid"
    BY <1>3
  <2>2. otadata' \in [entry : [0 .. 1 -> Entry], newest : 0 .. 1]
    BY DEF IInv, TypeOK
  <2>3. ASSUME \A i \in 0 .. 1 : e[i].state # "valid"
        PROVE  KeptSlot(otadata') = KeptSlot(otadata)
    <3>1. KeptSlot(otadata) = "factory"
      BY <1>2, <2>3, KeptIs
    <3>2. \A i \in 0 .. 1 : e'[i].state # "valid"
      BY <2>1, <2>3
    <3>3. KeptSlot(otadata') = "factory"
      BY <2>2, <3>2, KeptIs
    <3> QED
      BY <3>1, <3>3
  <2>4. ASSUME NEW i \in 0 .. 1, e[i].state = "valid", i = otadata.newest \/ e[1 - i].state # "valid"
        PROVE  KeptSlot(otadata') = KeptSlot(otadata)
    <3>1. KeptSlot(otadata) = e[i].slot
      BY <1>2, <2>4, KeptIs
    <3>2. e'[i].state = "valid" /\ (i = otadata'.newest \/ e'[1 - i].state # "valid")
      <4>1. 1 - i \in 0 .. 1
        OBVIOUS
      <4> QED
        BY <1>3, <2>1, <2>4, <4>1
    <3>3. KeptSlot(otadata') = e'[i].slot
      BY <2>2, <3>2, KeptIs
    <3> QED
      BY <1>3, <3>1, <3>3
  <2>5. otadata.newest \in 0 .. 1 /\ \A i \in 0 .. 1 : i = otadata.newest \/ 1 - i = otadata.newest
    BY <1>2
  <2>6. KeptSlot(otadata') = KeptSlot(otadata)
    BY <2>3, <2>4, <2>5
  <2> QED
    BY <1>1, <2>6, Zenon DEF KeptSlot
<1>10. KeptInv'
  <2>1. \A i \in 0 .. 1 : e'[i].slot # NoSlot => e'[i].slot # e'[1 - i].slot
    BY <1>3 DEF KeptInv
  <2>2. (\A i \in 0 .. 1 : e'[i].state # "valid") => e'[1].state = "none"
    BY <1>3 DEF KeptInv
  <2>3. Active(otadata)' = {} => running' = "factory"
    BY <1>3, <1>4, <1>8 DEF Active
  <2> QED
    BY <1>1, <2>1, <2>2, <2>3 DEF KeptInv
<1>11. Running = {} /\ Running' = {flash[Selected(g)]}
  BY <1>1, <1>8 DEF Running
<1>12. Selecting("new")' = {}
  <2>1. \A i \in Active(otadata)' : e'[i].state # "new"
    BY <1>3, <1>4, <1>5, SMTT(30) DEF Active
  <2> QED
    BY <2>1 DEF Selecting
<1>13. ASSUME NEW i \in Active(otadata), e[i].state = "new"
       PROVE  Update!Try
  <2>1. Active(otadata)' = {i} /\ e'[i].state = "pending" /\ e'[i].slot = e[i].slot
    BY <1>3, <1>4, <1>6, <1>13 DEF Active
  <2>2. Selecting("pending")' = {flash[e[i].slot]}
    BY <1>1, <2>1 DEF Selecting
  <2>3. Selecting("new") = {flash[e[i].slot]} /\ Selected(g) = e[i].slot
    BY <1>4, <1>6, <1>13, Views
  <2> QED
    BY <1>9, <1>11, <1>12, <2>2, <2>3 DEF Update!Try
<1>14. ASSUME \A i \in Active(otadata) : e[i].state # "new"
       PROVE  Update!Return
  <2>1. Selecting("new") = {}
    BY <1>14 DEF Selecting
  <2>2. Selected(g) = KeptSlot(otadata)
    <3>1. CASE Active(otadata) = {}
      BY <1>4, <1>7, <3>1, Views
    <3>2. ASSUME NEW i \in Active(otadata) PROVE Selected(g) = KeptSlot(otadata)
      BY <1>4, <1>6, <1>14, Views
    <3> QED
      BY <3>1, <3>2
  <2>3. \A i \in Active(otadata)' : e'[i].state # "pending"
    <3>1. \A i \in Active(g) : e[i].state # "new"
      BY <1>6, <1>7, <1>14
    <3> QED
      BY <1>3, <1>4, <1>5, <3>1 DEF Active
  <2>4. Selecting("pending")' = {}
    BY <2>3 DEF Selecting
  <2> QED
    BY <1>9, <1>11, <1>12, <2>1, <2>2, <2>4 DEF Update!Return
<1> QED
  BY <1>10, <1>13, <1>14 DEF Maps, Update!Next

\* The probe confirms what the last boot tried.
LEMMA ConfirmMaps ==
  ASSUME IInv, IInv', KeptInv, ~overrun, Confirm
  PROVE  Maps
<1> USE DEF e
<1>1. PICK i \in Active(otadata) :
        e[i].state = "pending" /\ e[i].slot = running /\ StateOf(running) = "pending"
  BY DEF Confirm, IInv, EntryInv
<1>2. otadata \in [entry : [0 .. 1 -> Entry], newest : 0 .. 1]
  BY DEF IInv, TypeOK
<1>3. /\ i \in 0 .. 1 /\ 1 - i \in 0 .. 1 /\ Active(otadata) = {i} /\ 1 - (1 - i) = i
      /\ \A k \in 0 .. 1 : k = i \/ k = 1 - i
  BY <1>1, <1>2, ActiveIsOne
<1>4. e[i] \in Entry /\ e[1 - i] \in Entry /\ Usable(e[i]) /\ (i = otadata.newest \/ ~Usable(e[1 - i]))
  BY <1>2, <1>3 DEF Active
<1>5. /\ otadata' \in [entry : [0 .. 1 -> Entry], newest : 0 .. 1] /\ otadata'.newest = otadata.newest
      /\ e'[i].slot = e[i].slot /\ e'[i].state = "valid" /\ e'[1 - i] = e[1 - i]
  BY <1>2, <1>3, <1>4 DEF Confirm, MarkValid, Entry
<1>6. Active(otadata)' = {i}
  BY <1>1, <1>3, <1>4, <1>5 DEF Active, Usable
<1>7. KeptSlot(otadata)' = running
  <2>1. e[1 - i].state = "valid" => Usable(e[1 - i])
    BY <1>3 DEF IInv, EntryInv, Usable
  <2>2. KeptSlot(otadata') = e'[i].slot
    BY <1>3, <1>4, <1>5, <2>1, KeptIs
  <2> QED
    BY <1>1, <1>5, <2>2 DEF KeptSlot
<1>8. /\ UNCHANGED <<flash, device, running, overrun>> /\ device # "off"
      /\ flash[running] \notin Crashing
  BY DEF Confirm, IInv, RamInv
<1>9. KeptInv'
  <2>1. \A k \in 0 .. 1 : e'[k].slot # NoSlot => e'[k].slot # e'[1 - k].slot
    BY <1>3, <1>5 DEF KeptInv
  <2> QED
    BY <1>3, <1>5, <1>6, <1>8, <2>1 DEF KeptInv
<1>10. Running = {flash[running]} /\ Running' = Running
  BY <1>8 DEF Running
<1>11. Selecting("pending") = {flash[running]} /\ Selecting("new") = {}
  BY <1>1, Views
<1>12. Selecting("pending")' = {} /\ Selecting("new")' = {}
  BY <1>5, <1>6 DEF Selecting
<1>13. Update!Confirm
  BY <1>7, <1>8, <1>10, <1>11, <1>12 DEF Update!Confirm
<1> QED
  BY <1>9, <1>13 DEF Maps, Update!Next

LEMMA StepMaps == IInv /\ IInv' /\ KeptInv /\ ~overrun' /\ [Next]_vars => Maps
<1> SUFFICES ASSUME IInv, IInv', KeptInv, ~overrun', [Next]_vars PROVE Maps
  OBVIOUS
<1>1. ~overrun
  BY DEF IInv, TypeOK, Next, vars, Boot, StartWebUi, Confirm, PowerLoss, Crash, Abort, Fire, Restart,
         HandleReboot, Upload, HandleUpload, Begin, Stream, Verify, SetBoot, Respond
<1>2. CASE Boot
  BY <1>1, <1>2, BootMaps
<1>3. CASE Confirm
  BY <1>1, <1>3, ConfirmMaps
<1>4. CASE PowerLoss \/ Crash \/ Abort \/ \E t \in timers : Fire(t)
  <2>1. device # "off" /\ Restart
    BY <1>4 DEF PowerLoss, Crash, Abort, Fire, IInv, RamInv
  <2> QED
    BY <1>1, <2>1, RestartMaps
<1>5. CASE StartWebUi \/ HandleReboot \/ (\E i \in Images : Upload(i)) \/ Verify \/ Respond \/ UNCHANGED vars
  <2>1. UNCHANGED <<flash, otadata, running>> /\ (device' = "off" <=> device = "off")
    BY <1>5 DEF StartWebUi, HandleReboot, Upload, Verify, Respond, vars
  <2> QED
    BY <1>1, <2>1, QuietMaps
<1>6. CASE Begin
  <2>1. CASE UNCHANGED flash
    BY <1>1, <1>6, <2>1, QuietMaps DEF Begin
  <2>2. CASE StateOf(running) # "pending" /\ flash' = [flash EXCEPT ![NextUpdate] = Erased]
    BY <1>1, <1>6, <2>2, WriteMaps DEF Begin, Content
  <2> QED
    BY <1>6, <2>1, <2>2 DEF Begin
<1>7. CASE Stream
  <2>1. StateOf(running) # "pending" /\ upload \in Content
    BY <1>7 DEF Stream, IInv, RamInv, TypeOK, Content
  <2>2. CASE UNCHANGED flash
    BY <1>1, <1>7, <2>2, QuietMaps DEF Stream
  <2>3. ASSUME NEW c \in {upload, Partial}, flash' = [flash EXCEPT ![NextUpdate] = c]
        PROVE  Maps
    BY <1>1, <1>7, <2>1, <2>3, WriteMaps DEF Stream, Content
  <2> QED
    BY <1>7, <2>2, <2>3 DEF Stream
<1>8. CASE SetBoot
  BY <1>1, <1>8, SetBootMaps
<1> QED
  BY <1>2, <1>3, <1>4, <1>5, <1>6, <1>7, <1>8 DEF Next, HandleUpload

\* handle_upload, ota_probe_task and the bootloader keep the last confirmed image and
\* give a new one one boot: as long as no upload is overrun, a device takes the steps of
\* SafeUpdate and no others, through every failure, reboot and loss of power.
THEOREM LastGoodKept == Spec => KeepsLastGood
<1>1. Init => KeptInv /\ Update!Init
  <2> SUFFICES ASSUME Init PROVE KeptInv /\ Update!Init
    OBVIOUS
  <2>1. IInv /\ Active(otadata) = {}
    BY Initially DEF Init, Active, Usable
  <2>2. KeptInv
    BY DEF KeptInv, Init, e, Slot
  <2>3. Update!Init
    BY <2>1, Views DEF Update!Init, Init, Running, Slot
  <2> QED
    BY <2>2, <2>3
<1>2. IInv /\ IInv' /\ KeptInv /\ [Next]_vars => KeptInv' /\ [overrun' \/ Update!Next]_View
  <2>1. overrun' => KeptInv'
    BY DEF KeptInv
  <2> QED
    BY <2>1, StepMaps DEF Maps
<1> QED
  BY Always, <1>1, <1>2, PTL DEF Spec, KeepsLastGood, View
===============================================================================
