------------------------------- MODULE OtaDevice -------------------------------
(***************************************************************************)
(* The update life cycle of a device: uploads on the one httpd worker      *)
(* (handle_upload of src/web/ota.cpp, whose byte stream is OtaInstall's    *)
(* subject), the deferred reboots of ota.cpp and system_routes.cpp, the    *)
(* probe task of examples/minimal, and around them power loss, crashing    *)
(* images and the ESP-IDF bootloader with rollback enabled.                *)
(*                                                                         *)
(* The partition table is that of examples/minimal: a factory app and two  *)
(* OTA slots.  The bootloader, otadata and the esp_ota_* calls are not in  *)
(* the repository; they are modelled here as the code relies on them.      *)
(***************************************************************************)
EXTENDS Integers

CONSTANTS
  Images,      \* complete app images
  Signed,      \* those whose upload carries a matching signature
  Crashing,    \* those that crash before the probe phase is over
  Offline,     \* those that never get an IP address
  Shipped,     \* the image in the factory partition
  Erased, Partial   \* what a slot holds without an image

ASSUME ImagesOK ==
  /\ Signed \subseteq Images /\ Crashing \subseteq Images /\ Offline \subseteq Images
  /\ Shipped \in Signed \ (Crashing \cup Offline)
  /\ Erased \notin Images /\ Partial \notin Images

VARIABLES
  flash,     \* what each app partition holds
  otadata,   \* the two otadata entries, and the one with the higher sequence number
  device,    \* "off", "boot" (app_main waits for Wi-Fi) or "up" (web UI registered)
  running,   \* the partition running
  worker,    \* where the httpd worker is in handle_upload
  upload,    \* the image of the upload it serves
  accepted,  \* has an upload been accepted since the boot?
  timers,    \* the deferred reboot tasks that sleep
  probe,     \* is ota_probe_task in its 30 s delay?
  \* History:
  starved,   \* has xTaskCreate failed since the boot?
  overrun    \* has an upload ever begun after an accepted one, before the restart?

ram  == <<worker, upload, accepted, timers, probe, starved>>
vars == <<flash, otadata, device, running, ram, overrun>>

OtaSlot == {"ota_0", "ota_1"}
Slot    == {"factory"} \cup OtaSlot
Content == Images \cup {Erased, Partial}

-----------------------------------------------------------------------------
(* otadata.                                                                *)

NoSlot == "none"
Entry  == [slot : OtaSlot \cup {NoSlot},
           state : {"none", "new", "pending", "valid", "aborted"}]

Usable(e) == e.slot # NoSlot /\ e.state # "aborted"

\* The entries that otadata's readers choose from, and their choice.
Active(d) == {i \in 0 .. 1 : Usable(d.entry[i]) /\ (i = d.newest \/ ~Usable(d.entry[1 - i]))}

\* esp_ota_get_state_partition: the state of the first entry for the slot.
StateOf(s) ==
  LET e == otadata.entry IN
  CASE e[0].slot = s -> e[0].state
    [] e[0].slot # s /\ e[1].slot = s -> e[1].state
    [] OTHER -> "none"

\* esp_ota_set_boot_partition: a new entry for s replaces the one not in use.
\* Two entries for one slot have the same sequence number; the first one counts.
Select(d, s) ==
  LET i == IF 0 \in Active(d) THEN 1 ELSE 0 IN
  [entry  |-> [d.entry EXCEPT ![i] = [slot |-> s, state |-> "new"]],
   newest |-> IF Active(d) # {} /\ d.entry[1 - i].slot = s THEN 0 ELSE i]

\* Mutant: the slot after the running one, without the wrap-around.
NextUpdate_NoWrap == CASE running = "factory" -> "ota_0" [] running = "ota_0" -> "ota_1"
                       [] OTHER -> "ota_2"

\* esp_ota_get_next_update_partition(NULL)
NextUpdate == IF running = "ota_0" THEN "ota_1" ELSE "ota_0"

\* Mutant: a pending image is simply booted again, as without rollback.
GivenUp_Never(d) == d

(***************************************************************************)
(* The bootloader: an image still pending is given up, the selected one    *)
(* becomes pending if it is new, and if it is no image at all the others   *)
(* are tried, first downwards to the factory app, then upwards.            *)
(***************************************************************************)
GivenUp(d) ==
  [d EXCEPT !.entry = [i \in 0 .. 1 |->
     IF d.entry[i].state = "pending" THEN [d.entry[i] EXCEPT !.state = "aborted"]
                                     ELSE d.entry[i]]]

Tried(d) ==
  [d EXCEPT !.entry = [i \in 0 .. 1 |->
     IF i \in Active(d) /\ d.entry[i].state = "new"
       THEN [d.entry[i] EXCEPT !.state = "pending"] ELSE d.entry[i]]]

BootOrder(s) ==
  CASE s = "ota_0" -> <<"ota_0", "factory", "ota_1">>
    [] s = "ota_1" -> <<"ota_1", "ota_0", "factory">>
    [] OTHER -> <<"factory", "ota_0", "ota_1">>

Selected(d) == IF Active(d) = {} THEN "factory"
               ELSE d.entry[CHOOSE i \in Active(d) : TRUE].slot

Bootable(s) == flash[s] \in Images

FirstBootable(order) ==
  order[CHOOSE k \in 1 .. 3 : Bootable(order[k]) /\ \A l \in 1 .. k - 1 : ~Bootable(order[l])]

Boot ==
  /\ device = "off"
  /\ device' = "boot"
  /\ otadata' = Tried(GivenUp(otadata))
  /\ running' = FirstBootable(BootOrder(Selected(GivenUp(otadata))))
  /\ UNCHANGED <<flash, ram, overrun>>
-----------------------------------------------------------------------------
Init ==
  /\ flash = [s \in Slot |-> IF s = "factory" THEN Shipped ELSE Erased]
  /\ otadata = [entry |-> [i \in 0 .. 1 |-> [slot |-> NoSlot, state |-> "none"]],
                newest |-> 0]
  /\ device = "off"
  /\ running = "factory"
  /\ worker = "idle"
  /\ upload = Shipped
  /\ accepted = FALSE
  /\ timers = {}
  /\ probe = FALSE
  /\ starved = FALSE /\ overrun = FALSE

\* A restart forgets everything but the flash.
Restart ==
  /\ device' = "off"
  /\ worker' = "idle"
  /\ upload' = Shipped
  /\ accepted' = FALSE
  /\ timers' = {}
  /\ probe' = FALSE /\ starved' = FALSE
  /\ UNCHANGED <<flash, otadata, running, overrun>>

PowerLoss == device # "off" /\ Restart

Crash == device # "off" /\ flash[running] \in Crashing /\ Restart

\* ESP_ERROR_CHECK of app_main and wifi_init_sta aborts.
Abort == device = "boot" /\ Restart

\* Mutant: the probe task is forgotten.
StartWebUi_NoProbe ==
  /\ device = "boot"
  /\ flash[running] \notin Offline
  /\ device' = "up"
  /\ UNCHANGED <<flash, otadata, running, ram, overrun>>

\* app_main: Wi-Fi connects, start_web_ui, then the probe task; it looks at the
\* state of the running slot once and ends unless that is PENDING_VERIFY.
StartWebUi ==
  /\ device = "boot"
  /\ flash[running] \notin Offline
  /\ device' = "up"
  /\ \/ probe' = (StateOf(running) = "pending") /\ UNCHANGED starved
     \/ starved' = TRUE /\ UNCHANGED probe
  /\ UNCHANGED <<flash, otadata, running, worker, upload, accepted, timers, overrun>>

\* ota_probe_task after its delay: esp_ota_mark_app_valid_cancel_rollback marks
\* the entry in use.
MarkValid ==
  [otadata EXCEPT !.entry = [i \in 0 .. 1 |->
     IF i \in Active(otadata) THEN [otadata.entry[i] EXCEPT !.state = "valid"]
                              ELSE otadata.entry[i]]]

\* Mutant: the slot is marked valid without the delay.
Confirm_AtOnce ==
  /\ probe
  /\ otadata' = MarkValid
  /\ probe' = FALSE
  /\ UNCHANGED <<flash, device, running, worker, upload, accepted, timers, starved, overrun>>

Confirm ==
  /\ probe
  /\ flash[running] \notin Crashing
  /\ otadata' = MarkValid
  /\ probe' = FALSE
  /\ UNCHANGED <<flash, device, running, worker, upload, accepted, timers, starved, overrun>>

\* A reboot task that was created, if there was memory for it.
Spawned(t) == \/ timers' = timers \cup {t} /\ UNCHANGED starved
              \/ starved' = TRUE /\ UNCHANGED timers

\* POST /api/reboot
HandleReboot ==
  /\ device = "up"
  /\ worker = "idle"
  /\ Spawned("reboot")
  /\ UNCHANGED <<flash, otadata, device, running, worker, upload, accepted, probe, overrun>>

Fire(t) == t \in timers /\ Restart
-----------------------------------------------------------------------------
(* handle_upload, on the httpd worker.                                     *)

Worker(from, to) == worker = from /\ worker' = to

Fail == worker' = "idle"       \* the error answer

Upload(i) ==
  /\ device = "up"
  /\ Worker("idle", "begin")
  /\ upload' = i
  /\ overrun' = (overrun \/ accepted)
  /\ UNCHANGED <<flash, otadata, device, running, accepted, timers, probe, starved>>

\* Mutant: an upload is taken while the running app is pending.
Begin_WhilePending ==
  /\ worker = "begin"
  /\ \/ Fail /\ UNCHANGED flash
     \/ /\ worker' = "stream"
        /\ flash' = [flash EXCEPT ![NextUpdate] = Erased]
  /\ UNCHANGED <<otadata, device, running, upload, accepted, timers, probe, starved, overrun>>

\* esp_ota_begin erases the slot; it refuses while the running app is pending.
\* The size checks may also fail here.
Begin ==
  /\ worker = "begin"
  /\ \/ Fail /\ UNCHANGED flash
     \/ /\ StateOf(running) # "pending"
        /\ worker' = "stream"
        /\ flash' = [flash EXCEPT ![NextUpdate] = Erased]
  /\ UNCHANGED <<otadata, device, running, upload, accepted, timers, probe, starved, overrun>>

\* Part of the body is in flash; the rest follows, or the upload fails.
Stream ==
  /\ worker = "stream"
  /\ \/ UNCHANGED worker /\ flash' = [flash EXCEPT ![NextUpdate] = Partial]
     \/ Fail /\ UNCHANGED flash
     \/ worker' = "verify" /\ flash' = [flash EXCEPT ![NextUpdate] = upload]
  /\ UNCHANGED <<otadata, device, running, upload, accepted, timers, probe, starved, overrun>>

\* Mutant: a failed verification is logged and not acted upon.
Verify_Logged ==
  /\ worker = "verify"
  /\ Fail \/ worker' = "setboot"
  /\ UNCHANGED <<flash, otadata, device, running, upload, accepted, timers, probe, starved, overrun>>

\* esp_ota_end accepted the image; it verifies only if it is signed.
Verify ==
  /\ worker = "verify"
  /\ Fail \/ (upload \in Signed /\ worker' = "setboot")
  /\ UNCHANGED <<flash, otadata, device, running, upload, accepted, timers, probe, starved, overrun>>

SetBoot ==
  /\ worker = "setboot"
  /\ \/ Fail /\ UNCHANGED <<otadata, accepted>>
     \/ /\ worker' = "respond"
        /\ otadata' = Select(otadata, NextUpdate)
        /\ accepted' = TRUE
  /\ UNCHANGED <<flash, device, running, upload, timers, probe, starved, overrun>>

\* Mutant: no reboot is scheduled.
Respond_NoReboot ==
  /\ Worker("respond", "idle")
  /\ UNCHANGED <<flash, otadata, device, running, upload, accepted, timers, probe, starved, overrun>>

\* The ok answer, then the reboot task.
Respond ==
  /\ Worker("respond", "idle")
  /\ Spawned("ota_reboot")
  /\ UNCHANGED <<flash, otadata, device, running, upload, accepted, probe, overrun>>

HandleUpload == Begin \/ Stream \/ Verify \/ SetBoot \/ Respond
-----------------------------------------------------------------------------
Next ==
  \/ Boot \/ StartWebUi \/ Confirm
  \/ PowerLoss \/ Crash \/ Abort
  \/ HandleReboot
  \/ \E t \in timers : Fire(t)
  \/ \E i \in Images : Upload(i)
  \/ HandleUpload

Spec == Init /\ [][Next]_vars

\* The device is powered again and its Wi-Fi is there; a sleeping task wakes up,
\* the httpd worker runs and its receives time out; a crashing image does crash.
FairSpec ==
  /\ Spec
  /\ WF_vars(Boot) /\ WF_vars(StartWebUi) /\ WF_vars(Confirm) /\ WF_vars(Crash)
  /\ WF_vars(\E t \in timers : Fire(t)) /\ WF_vars(HandleUpload)
-----------------------------------------------------------------------------
(* Properties.                                                             *)

TypeOK ==
  /\ flash \in [Slot -> Content]
  /\ otadata \in [entry : [0 .. 1 -> Entry], newest : 0 .. 1]
  /\ device \in {"off", "boot", "up"}
  /\ running \in Slot
  /\ worker \in {"idle", "begin", "stream", "verify", "setboot", "respond"}
  /\ upload \in Images
  /\ accepted \in BOOLEAN
  /\ timers \subseteq {"reboot", "ota_reboot"}
  /\ probe \in BOOLEAN
  /\ starved \in BOOLEAN /\ overrun \in BOOLEAN

\* Once confirmed, a slot that otadata selects holds a whole image that outlived
\* its probe phase, through every upload, failure, reboot and loss of power.
ConfirmedGood ==
  \A i \in Active(otadata) :
    otadata.entry[i].state = "valid" =>
      flash[otadata.entry[i].slot] \in Images \ Crashing

\* The probe task confirms the slot that runs, never one that was only selected.
ConfirmsRunning ==
  [][\A i \in 0 .. 1 :
       otadata.entry[i].state # "valid" /\ otadata'.entry[i].state = "valid"
         => otadata.entry[i].slot = running]_vars

\* As long as clients wait for the restart after an accepted upload, what runs and
\* what the bootloader would run next is a signed image, through every failure,
\* reboot and loss of power.
SignedBoots ==
  ~overrun =>
    /\ device # "off" => flash[running] \in Signed
    /\ flash[Selected(GivenUp(otadata))] \in Signed

\* A crashing image gives way to one that does not crash.
RollsBack ==
  (device # "off" /\ flash[running] \in Crashing)
    ~> (device # "off" /\ flash[running] \notin Crashing)

\* A slot on probation that comes online is confirmed or given up in the end, unless
\* its probe task could not be created or an upload was overrun.
Settles ==
  (StateOf(running) = "pending" /\ flash[running] \notin Offline)
    ~> (StateOf(running) # "pending" \/ starved \/ overrun)

\* An accepted image is booted, through restarts by anyone at any moment, unless its
\* reboot task could not be created or it was overrun.
AcceptedBoots ==
  \A i \in Signed :
    (accepted /\ upload = i)
      ~> ((device = "boot" /\ flash[running] = i) \/ starved \/ overrun)

\* The slot of the last confirmed image: that of the newer valid entry, if there is one.
KeptSlot(d) ==
  LET valid == {i \in 0 .. 1 : d.entry[i].state = "valid"} IN
  IF valid = {} THEN "factory"
  ELSE d.entry[CHOOSE i \in valid : i = d.newest \/ valid = {i}].slot

\* The image that otadata selects, if that is in the state st.
Selecting(st) ==
  {flash[otadata.entry[i].slot] : i \in {i \in Active(otadata) : otadata.entry[i].state = st}}

Running == IF device = "off" THEN {} ELSE {flash[running]}

Update == INSTANCE SafeUpdate
          WITH runs <- Running, kept <- flash[KeptSlot(otadata)],
               next <- Selecting("new"), trial <- Selecting("pending")

\* As long as clients wait for the restart after an accepted upload: the last confirmed
\* image is never lost, a new one is tried by one boot, and unless that confirms it the
\* next one goes back, through every failure, reboot and loss of power.
KeepsLastGood ==
  /\ Update!Init
  /\ [][overrun' \/ Update!Next]_<<Running, flash[KeptSlot(otadata)],
                                   Selecting("new"), Selecting("pending")>>

\* ota.cpp logs "signature verify failed - staged image will not boot".
RejectedNeverBoots == device # "off" => flash[running] \in Signed
===============================================================================
