# esp32-lib-webui in TLA+

Models, model-checking runs and machine-checked proofs for the library's C++
(`src/web/`), its browser code (`assets/webui.js`) and the example's boot
sequence (`examples/minimal/main/main.cpp`). Paths below are relative to the
repository. Every definition that models code is tied to its lines in
`PROJECT.json` (`map`).

## 1. The system

| Component | State it keeps | Operations |
|---|---|---|
| OTA install, `ota.cpp` | per upload: OTA handle, receive buffer, 64-byte tail, counters; the update slot; otadata | `POST /api/ota/upload`: `handle_upload`, `install_signed`, `verify_image` |
| Public key, `ota.cpp` | none | `parse_pubkey_hex` |
| Device life cycle, `ota.cpp`, `system_routes.cpp`, `main.cpp` | app partitions, otadata, deferred reboot tasks, probe task | upload, reboot, boot, confirm, roll back |
| Credentials, `auth.cpp` | `s_active` (user, pass, mutex) | `set_active_credentials`, `is_secured`, `check_basic` |
| Web server, `server.cpp` | `g_server`, `g_config`, `g_routes` | `start`, `stop`, `register_route`, `register_public_route`, `auth_dispatcher` |
| Status, `status_core.cpp` | `g_provider` | `GET /api/status`, `set_provider` |
| Assets, `assets.cpp` | none | nine `GET` handlers, `register_shell_assets` |
| Glue, `main.cpp` | how far `start_web_ui` is | `start`, every registration, `set_provider` |
| Tabs and pollers, `webui.js` | tab ids, active tab, per component timer, listeners, data, error | `discover`, `activate`, `init`, `refresh`, `destroy`, `clear` |
| Command console, `webui.js` | input, `sending`, history | `send`, `repeat`, `clear` |
| Shell page, `shell.html`, `shell.js` | files loaded, injected panels, status card | `load` every 5 s, `load_project_panels` |
| Signing tool, `ota_sign.py` | none | image + key to signed image |

How they meet. One httpd worker task runs all handlers, through
`auth_dispatcher`, which reads `g_routes` and calls `check_basic`. The glue
(`app_main`) starts the server and registers routes on its own task while the
worker already serves. Credentials may be set from any task (a console, a
setup endpoint). `/api/ota/upload` and `/api/reboot` answer first and leave the
restart to a task that sleeps; after the restart the bootloader and the probe
task decide what stays. In the browser everything is one event loop; a `fetch`
splits a function at its `await`.

What is hard here: byte arithmetic over receives of any size; every call of
`install_signed` may fail with something open; a power loss, a reboot timer or
a second upload between any two steps; a mutex created lazily by whoever comes
first; a vector shared by two tasks without a lock; state read before an
`await` and used after it; replies out of order. `PROJECT.json` lists each such
hazard at its line (`hazards`) with the properties aimed at it.

What makes each component correct:

* OTA install: only an image whose signature verifies is ever selected; a
  genuine image is accepted however it is cut; 200 means installed; nothing
  stays open; every upload is answered.
* Device: what runs is signed; a crashing image gives way; only an image that
  lived through its probation is confirmed; an accepted image is booted.
* Credentials: a check answers by credentials that were in force while it
  ran; credentials once set are not undone by seeding.
* Web server: a registration counts whole or not at all; a protected route
  never runs unasked; a registered route is found; no route is read after it
  is gone.
* Glue, status, assets: nothing but lack of memory costs a route; a status
  carries what the project's provider adds.
* Shell page: the panels' markup never enters without its script, and enters in
  the end; the status card comes back after whatever happened to the device.
* Logins and keys: exactly the right strings are accepted.
* Tabs and pollers: fetches only in sight, and at once when coming into sight.
* Console: one command at a time, a faithful history, never blocked for good.

## 2. The modules

| Module | Models | Notes |
|---|---|---|
| `OtaInstall` | `install_signed`, `verify_image`, `handle_upload` | one action per step of the function |
| `SignedUpload` | what `ota.h` promises of an upload | abstract; `OtaInstall` refines it (`KeepsPromise`) |
| `OtaDevice` | the life cycle around uploads | the install as five steps of the worker |
| `SafeUpdate` | what `ota.h` and the probe promise of updates | abstract; `OtaDevice` refines it (`KeepsLastGood`) |
| `Auth` | `auth.cpp`, one shared-memory access per step | |
| `Credentials` | what `auth.h` promises of its functions | abstract; `Auth` refines it (`KeepsCredentials`) |
| `WebServer` | `server.cpp` | `check_basic` as two steps, which `Auth` justifies |
| `RouteTable` | what `server.h` promises of registrations | abstract; `WebServer` refines it (`KeepsTable`) |
| `Glue` | `start_web_ui`, `register_shell_assets`, `handle_status`, `set_provider` | refines `RouteTable` |
| `Shell` | `shell.html`, `shell.js` | a page against a device, which is `Glue` |
| `Formats` | the header in `check_basic`, `parse_pubkey_hex` | pure functions |
| `Panels` | `tabs`, `poll`, `logViewer` | |
| `AtConsole` | `atConsole` | |
| `...Proofs` | | theorems about `OtaInstall`, `OtaDevice`, `Auth`, `WebServer`, `Shell` (with its `Glue`), `Panels`, `AtConsole`, `Formats` |
| `MC...` | constants of the small instances | |

An operator commented `Mutant:` is a wrong version of the definition after it
and no part of the specification; each property is known to fail when one of
them takes the definition's place (`PROJECT.json`, `mutants`).

### OtaInstall

A byte is named by its position in the request body, so `slot = Prefix(n)`
reads "the flash holds the first n bytes of the body". A request has a length
and the place where its signed image ends (`image`), or no such place
(`NoImage`). `SignatureOK` takes Ed25519 as ideal: the verifier accepts exactly
the signed prefix with the signature that follows it. `Accept` is the two size
checks, `Begin` the partition lookup and `esp_ota_begin`, `Alloc` the `malloc`,
`Recv` one pass of the loop with `n > 0` (`Hold`: fewer than 64 bytes so far;
`Flush`: write and slide; `FlushFails`), `RecvError` and `RecvEnd` the other
two results of `httpd_req_recv`, then `End`, `Verify`, `SetBoot`, and `Answer`
for the status. Each ESP-IDF call that can fail has a failing alternative, and
`esp_ota_write` always fails beyond the slot. `esp_ota_begin` may fail before
or after it erased.

`SignedUpload` knows nothing of buffers: the slot is touched only for a body
of acceptable size, is erased first, holds a growing leading part of the body
that leaves room for a signature, and otadata flips exactly when the part held
is the signed one. Its sizes are those of `ota.h:43-44`: `TooLarge` is a body
beyond `max_size`, `TooSmall` one below the signature alone. `install_signed`
goes further (`ota.cpp:130`) and answers `TooSmall` also to a body that holds a
signature and less than 1024 bytes of image. That disagreement is a step of its
own, `AskTiny`; without it `KeepsPromise` would be false.

### OtaDevice

Partitions as in `examples/minimal/partitions.csv` (factory, ota_0, ota_1).
The bootloader, otadata and the `esp_ota_*` calls are ESP-IDF's; they are
modelled as the code relies on them, with rollback enabled: two otadata
entries, the newer usable one counts, a new entry becomes pending on boot, a
pending one is given up on the next boot. Each partition's content is one of a
few images (signed or not, crashing during probation or not, coming online or
not), `Erased` or `Partial`. `PowerLoss` is possible at every step, `Abort` (an
`ESP_ERROR_CHECK`) while `app_main` sets up. `xTaskCreate` may fail anywhere and
clients may upload at any time; two history variables record it: `starved`, a
task could not be created since the boot, and `overrun`, an upload began after
an accepted one and before the restart. The properties that need patient
clients or enough memory say so by naming them.

`SafeUpdate` knows no slots and no otadata, but four images: the one that runs,
the last one confirmed, the one the next boot tries and the one on trial. The
mapping reads them from otadata: `KeptSlot` is the slot of the newer valid
entry, or else the factory app's; `Selecting("new")` and `Selecting("pending")`
are what the entry in use selects, by its state. It holds while no upload is
overrun; afterwards it claims nothing.

### Auth

A step is one access to `s_active` or one semaphore call. `Ensure` and `Create`
are the two accesses of `ensure_lock`; `xSemaphoreTake` reads the handle
(`Reach`) and then waits for that mutex (`Acquire`); a give reads the handle
again. The strings are values; a torn pair is a state between `SetUser` and
`SetPass`. A mutex that could not be created for lack of memory leaves the
handle NULL, and the next take aborts (`NullHandle`); an abort ends the boot.
`force` and `seen` are history variables: the pair last set, and all
pairs in force since a call began. `First` is the set of tasks that may call
before the mutex exists. In the example it has one element, the httpd worker
with its first request; nothing in the code ensures that.

In `Credentials` a call begins, sets, seeds or looks at one moment, and
returns. `Held` is the pair it would find: what is stored, a set or a seeding
under way counted as done from its first half on. `Called` is how far a task's
call is, what it was given and the pair it got.

A pair set as `("", "")` means "the Config's" (`Meaning`), because the next
check seeds it; `MCAuthCleared.cfg` holds that against the documentation.

### WebServer and RouteTable

`routes` and `cap` are the vector `g_routes` and its capacity; `current` tells
whether the worker's range-for still runs over the vector's present storage.
A registration is two steps, `Push` and `Register` (httpd accepts, or refuses
and the route is popped); `check_basic` is two, `Gate` and `Ask`, the seeding
and the look of `Credentials`, so that credentials may be set between them; `stop` is two, the request and the end of the wait.
A destroyed route may be read as anything, since its memory may be in use again:
each of the three reads (`Compare`, `Gate`, `CallHandler`) says what follows from
a `Live` route and nothing of a destroyed one, so the request may go on to the
next route, skip `check_basic`, or run another handler; or the device goes down
(`Panic`, which boots again). One glue task calls `start`, `stop` and the
registrations, as in the example. Two fields of `job` are history: `clash`, was
a route being registered at some moment of the request, and `stale`, was a
destroyed route read for it. Without a clash `NoDeadRead` and `RegisteredFound`
hold; with one they do not, which is finding 4. `Protected` holds through
clashes (refusals, registrations that fit, a stop under way) up to the first
stale read; of a request with a stale read nothing can be claimed, not even that
a protected handler was not run unasked.

`RouteTable` knows a server that is up or down and a list of routes, to which
a registration adds one or nothing. `Settled` maps `g_routes` to it: all routes
but the one that is being registered. A pattern key stands for one whose URI
httpd matches with every other.

### Glue and Shell

`Wiring` is what `start_web_ui` does after `start`, in its order; `step` is how
far it is. A registration is accepted or refused as in `RouteTable`, and may
be refused for lack of memory (`MaxRefused` times); `AfterRefusal` says where
each caller goes on. `set_provider` is two steps with a half-assigned function
between, while `handle_status` may test and call it.

`Shell` adds one page. A file of the page is asked for, then served, missed
(404) or lost. `calm` is a history variable: the page was opened when the
device was wired completely, and neither the network nor a restart has cost it
anything since. A page reloads only when it has settled, and at most
`MaxPolls` status requests wait; requests of a page that is gone are given up,
except for the one the worker is in (`served` tells whose it is).

### Formats

A character is its code, a string a sequence of them. `Accepts` is what
`check_basic` does from the header to the verdict, with the sizes of its two
buffers as constants; base64 stands by its length and its being well formed.
`Parses` and `Key` are `parse_pubkey_hex`; `Hex` is what `ota_sign.py` prints.
Both are compared with reference definitions that know nothing of the code:
the typed text is `user:pass`, and the key is the one whose digits were given.

### Panels and AtConsole

One action per event-loop task. `flight` holds the fetches under way; a reply
may overtake an older one, which is then marked. `Show` sets the classes before
the `webui:tab` event, and the listeners refresh within the same task.
`AtConsole` keeps `sent`, the commands posted so far, as a history variable.

## 3. The runs

| Run | Config | Checks | Shows |
|---|---|---|---|
| `ota_install` | `MCOtaInstall.cfg` | type, `UploadInv`, `GenuineVerifies`, `OkMeansInstalled`, `NothingLeaks`, `FlipsOnlySigned`, `EveryUploadAnswered`, `KeepsPromise` | the install is right for every body and every cut |
| `ota_device` | `MCOtaDevice.cfg` | type, `ConfirmedGood`, `ConfirmsRunning`, `SignedBoots`, `KeepsLastGood`, `RollsBack`, `Settles`, `AcceptedBoots` | with every kind of trouble, what is confirmed deserves it and a crashing image gives way; without overrun uploads only signed images run, the last confirmed one is kept, probation ends, accepted images boot |
| `ota_device_rejected` | `MCOtaDeviceRejected.cfg` | `RejectedNeverBoots`, violated | finding 1 |
| `auth` | `MCAuth.cfg` | type, `Linearizable`, `NothingLost`, `KeepsCredentials` | two tasks, one of which makes the first call |
| `auth_first_call` | `MCAuthFirstCall.cfg` | `Linearizable`, violated | finding 2 |
| `auth_cleared` | `MCAuthCleared.cfg` | `EmptyMeansOpen`, violated | finding 3 |
| `server` | `MCWebServer.cfg` | type, `Protected`, `NoDeadRead`, `RegisteredFound`, `KeepsTable` | registrations, refusals, stops and starts around requests |
| `server_lost_route` | `MCWebServerLost.cfg` | `NeverLost`, violated | finding 4 |
| `shell` | `MCShell.cfg` | type, `OnlyMemoryCosts`, `StatusComplete`, `PanelsComplete`, `PanelsAppear`, `Reconnects` | a page against a device that wires its routes, lacks memory and restarts |
| `panels` | `MCPanels.cfg` | type, `FetchesInSight`, `CatchesUp`, `ShowsSomething` | tabs and pollers |
| `at_console` | `MCAtConsole.cfg` | type, `HistoryInOrder`, `Unblocks` | the console |
| `formats` | `MCFormats.cfg` | `LoginExact`, `KeyExact` | logins and keys |

Bounds and why they are enough:

* `ota_install`: `SigLen` 2, `Chunk` 3, `MinImage` 2, `MaxSize` 8, `SlotSize` 5,
  bodies up to 9. A receive can be shorter than, equal to or longer than a
  signature; a chunk can hold less than two signatures, so held-back bytes come
  from two receives; bodies fall below, at and above both size limits and the
  slot's capacity; an image can end at every place. The theorems hold for all
  values.
* `ota_device`: two OTA slots as in the partition table, one image of each
  kind; runs of any length, since the state space is finite. The theorems hold
  for any images.
* `auth`: two tasks, four pairs (the Config's, another, a half-empty one,
  none). One set and one check, two sets, two seedings meet in all orders; the
  theorems hold for any number of tasks.
* `server`: three keys (one a pattern), two handlers, two credentials, a
  handler table of two. The vector grows, is refused for each of the two
  reasons, shrinks and is cleared. Handlers are interchangeable, and so are
  credentials (symmetry). The theorems hold for all values.
* `shell`: a key that parses, so that all routes are wired; one refusal for
  lack of memory per boot, at any registration; one status request that waits
  besides the one in the worker. One page: pages share nothing but the worker,
  and a reload leaves it an answer for a page that is gone. The theorems hold for
  any bounds, and without the upload route too.
* `panels`: two components, two fetches each under way (`MaxFlight`), a hash
  that names either tab, none, or no tab of the page.
* `at_console`: a history of two, five commands (`MaxSent`): full, cut and
  cleared with a command under way.
* `formats`: users and passwords of up to three letters and colons against a
  decoded buffer of four, so that a pair just fits and just does not; keys of
  one byte and strings of up to three characters on either side of each range
  of digits. The theorems hold for all strings and sizes.

`auth_first_call` alone disables the deadlock check: a mutex nobody gives back
really does stop its tasks there.

### Findings

1. An upload between an accepted upload and its restart is written into the
   slot that otadata already selects; rejected, it boots all the same
   (`ota.cpp:132`, against the log line `ota.cpp:208` and `ota.h:19-21`).
2. `ensure_lock` may create two mutexes when two tasks make the first call at
   once (`auth.cpp:30`, against `auth.h:33`).
3. Clearing the credentials does not open the server: the Config's come back
   with the next request (`auth.cpp:38`, against `auth.h:31-32`).
4. A request under dispatch while a route is registered may be answered 404,
   or read freed memory (`server.cpp:69`, against `server.h:64-66`). What it then
   reads as `is_public` and `handler` is undefined, so the route's protection is
   lost with it.

Smaller divergences are plain from the code and in the models' actions,
but have no run: a body of 64 to 1087 bytes is answered `TooSmall`
(`ota.cpp:130`), which `ota.h:44` reserves for one below the signature alone
(`AskTiny`); `Result::Mmap` is never returned, so a failed mmap of a genuine
image is answered 401 (`ota.cpp:52`, against `ota.h:50-51`); after `stop` and
`start` with another Config the credentials seeded from the first stay in force
(`auth.cpp:38`, against `auth.h:10`); ESP-IDF's bootloader gives up a pending
image at the next boot, of which `docs/integration.md:146` allows three; a `repeat` while a command is under way
sends nothing, then or later (`webui.js:376`, against `webui.js:334`); panels
whose script failed to load are injected all the same (`shell.js:130`, against
`shell.js:109`), which `PanelsComplete` therefore claims only of a page that
lost nothing; a user name with a colon, or a pair too long for the buffers, is
taken by `set_active_credentials` and can never log in (`auth.cpp:136`), which
`LoginExact` states as it is; a 2xx answer that is no JSON becomes `null`
(`webui.js:46`), so a log viewer whose endpoint sends a plain string, which
`webui.js:255` allows, shows no lines, and with the default parser no error.
`ShowsSomething` says that an answer or an error is stored, not what is seen of
it.

## 4. Fairness

* `OtaInstall`: `WF(Handler)`. The httpd task is scheduled, and
  `recv_wait_timeout` (`server.cpp:114`) ends every receive. Nothing makes a
  client send.
* `OtaDevice`: a device without power gets it back (`Boot`), Wi-Fi comes up for
  an image that can connect (`StartWebUi`), sleeping tasks wake up (`Fire`,
  `Confirm`), the worker runs (`HandleUpload`), a crashing image crashes
  (`Crash`). No client, and no loss of power, is ever obliged to happen.
  `RollsBack` holds with all trouble allowed. `Settles` and `AcceptedBoots`
  except `starved` boots, because a task that was not created confirms and
  reboots nothing; `overrun` ones, because after two uploads in one window
  both otadata entries name one slot and the probe reads the wrong one; and
  `Settles` images that never come online, because `app_main` waits for an
  address for ever.
* `Shell`: the device runs `start_web_ui` on and its worker finishes what it
  took, the page's event loop runs (`WF`). A request for a file or a status
  that is sent again and again is not lost every time, and a status taken up
  again and again is at some time sent whole (`SF` of `Serve`, `TakeStatus` and
  `StatusSent(TRUE)`): requests compete for one worker that is free again and
  again, and neither the network nor the heap fails for ever. Without the last
  assumption no card could come back.
* `Panels`: intervals fire and the browser settles every fetch. `AtConsole`:
  the browser settles every fetch.
* `Auth`, `WebServer` and `Formats` claim safety only.

## 5. What is proved

TLAPS checks, for every value of the constants that satisfies the modules'
assumptions:

`OtaInstallProofs` (assumption `ConstantsOK`: a positive signature length and
chunk, the requests have lengths).

* `TypeCorrect`, `UploadSplit`, `GenuineAccepted`, `OkInstalled`, `NoLeak`:
  `Spec => []P` for `TypeOK`, `UploadInv`, `GenuineVerifies`,
  `OkMeansInstalled`, `NothingLeaks`; `OnlySignedBoots`: `Spec =>
  FlipsOnlySigned`.
* `PromiseKept`: `Spec => KeepsPromise`, the refinement of `SignedUpload`: each
  step of the function is the promise's step or a stutter under the mapping
  (`AskTiny` included, where `ota.h` and the code disagree).
  It uses the invariant where the promise speaks of the body: a flush leaves a
  leading part (`HeldPrefix`, `HeldWritten`), and a verified slot is the signed
  one.
* The inductive invariant is `TypeOK /\ UploadInv`. `GenuineVerifies` alone is
  not inductive: that the verifier gets the right bytes follows only from what
  the loop keeps (`StreamOK`: flash and buffer together are the body received,
  in order, and nothing is flashed before a whole signature is held back),
  carried over the end of the loop (`SplitOK`). `ResourcesOK` ties handle and
  buffer to the program counter, `VerifiedOK` carries the verification to the
  answer. Three lemmas say what the byte moves (`Received`, `Flashed`, `Slid`)
  do to a body in order; then there is one lemma per action.

`OtaDeviceProofs` (assumption `ImagesOK`: the shipped image is signed, comes
online and does not crash).

* `TypeCorrect`, `ConfirmedStaysGood` (`ConfirmedGood`), `ConfirmsOnlyRunning`
  (`ConfirmsRunning`), `OnlySignedBoots` (`SignedBoots`), for any images.
* `LastGoodKept`: `Spec => KeepsLastGood`, the refinement of `SafeUpdate`.
* `ConfirmedGood` and `SignedBoots` speak of the entry in use; both need to know
  the other one. `EntryInv` says what the states of otadata's entries mean while
  a device runs: the valid one runs, a new one is for the update slot, at most
  one is pending and no second upload selects anything during a probation.
  `FallbackInv`: while the entry in use is not confirmed, the valid one behind
  it holds a good image, in a slot that no upload can reach. `SignedInv` is the
  same for signatures and needs `~overrun`. The lemmas `Selects`, `BootsFirst`,
  `Booted` and `InUse` say what `esp_ota_set_boot_partition` and the bootloader
  make of otadata; then there is one lemma per kind of step.
* That says what may boot, but not which image was confirmed last. `KeptInv`
  adds where the entries stand: they are for different slots, the first one is
  filled first, and with none in use the factory app runs. So an upload and its
  selection start from a confirmed image and go elsewhere (`FromConfirmed`), and
  a boot that tries nothing new runs `KeptSlot` (`BootMaps`). All of it needs
  `~overrun`: two uploads in one window may leave both entries for one slot.
  `Views` gives `SafeUpdate`'s variables by the state of the entry in use; then
  there is one lemma `...Maps` per kind of step.

`WebServerProofs` (assumption `ServerOK`).

* `TypeCorrect`, `Agreement` (`g_routes` and httpd's table name the same
  routes), `ProtectedStays`, `ReadsLive` (`NoDeadRead`), `FindsRegistered`
  (`RegisteredFound`), `TableKept` (`Spec => KeepsTable`).
* `NeverShadowed` uses nothing but `RouteTable`'s promise: every route registered
  with success is the first that httpd matches with its own URI (`Unshadowed`).
* `TableInv`: httpd's table is the settled part of `g_routes`, each key once.
  `KnownOK` says which route a dispatch found or will find while it has read no
  destroyed one, `CalmOK` that without a clash the loop runs over the vector as
  it was when the request came. `Protected` needs the first two: the place the
  loop stopped at is settled, so the gate and the call read the same route there
  although others are pushed and popped behind it, and it is the first of its
  key.

`AuthProofs`.

* `TypeCorrect` for every `First`.
* Assuming that `First` has at most one element: `AuthInvariant` (`AuthInv`),
  `OneAtATime` (`MutualExclusion`), `AnswersLinearizable` (`Linearizable`),
  `SetsSurvive` (`NothingLost`), `CredentialsKept` (`KeepsCredentials`), for any
  number of tasks and any credentials. Without the assumption they are false,
  which is finding 2.
* The inductive invariant has three parts. `LockInv`: until the
  first caller has created the mutex nobody is past `ensure_lock` (but for that
  caller when it got none, which is the only abort), and then there is one mutex, held exactly in the critical sections. `StoreInv`: what is stored is
  accounted for by the last pair set, mid-write included. `CallInv`: what a
  call copied was in force during the call. The second needs the first (nobody
  else writes), the third both.
* `CredentialsKept` places each call's moment: a set's and a seeding's at the first
  write (or at the test, when there is nothing to seed), a look's at the second
  copy. That the rest of the critical section agrees with it is mutual exclusion (`NobodyWrites`); the lemmas `Held...` say
  what each access does to the pair that the abstract calls would find.

`ShellProofs` (assumption `ShellOK`), for either outcome of the key and any bounds.

* `TypeCorrect`, `OnlyMemory` (`OnlyMemoryCosts`), `StatusWhole`
  (`StatusComplete`), `PanelsWhole` (`PanelsComplete`).
* `DeviceIsGlue`: the device of `Shell` is `Glue`, with its page left out;
  `WiringIsRouteTable`: `Glue` is a client of `RouteTable`, so what
  `WebServer`'s refinement gives it is all it uses. Together with `TableKept`
  they connect the page to `server.cpp`.
* `Wiring` is a fixed list, so what is needed of it comes first: its length,
  that nothing stands in it twice, and the provider's place (`WiringIs`,
  `WiredOnce`, `UrisAre`). `Routes` says what is listed at each `step`: the
  routes before it, without the refused ones and the assets behind a refused
  one; that is why a registration never meets its own URI or a full table
  (`Refusing`). `Status` carries a set provider from the test to the answer.
  `Page` needs `Costs`: a page that lost nothing cannot meet a 404, since its
  device has all routes.

`PanelsProofs` (assumption `PanelsOK`): `TypeCorrect`, `OnlyInSight`
(`FetchesInSight`), `AtOnce` (`CatchesUp`), from the invariant that a component
has its interval and its listeners exactly while it is mounted.

`AtConsoleProofs` (assumption `ConsoleOK`): `TypeCorrect`, `HistoryFaithful`
(`HistoryInOrder`). `FlightInv` ties the one command under way to the last one
sent, so an answer belongs in front of the history.

`FormatsProofs` (assumption `FormatsOK`: what fits the decoded buffer fits the
header's): `LoginIsExact`, `KeyIsExact`, from what the first colon splits, and
from the digits being the inverse of the nibbles in both cases.

Only model-checked: liveness (`EveryUploadAnswered`, `RollsBack`, `Settles`,
`AcceptedBoots`, `PanelsAppear`, `Reconnects`, `ShowsSomething`, `Unblocks`),
which is beyond the prover.

## 6. What is abstracted, and what is not modelled

* Ed25519 and base64 are ideal; a request's Authorization header is the pair it
  carries or none (so a header that is too long counts as none).
* A data race on `std::string` (finding 2) appears as a torn pair, not as a
  corrupted string. The range-for of `auth_dispatcher` takes both ends of
  `g_routes` at once (`Arrive`); ends torn by a registration would run over
  destroyed routes, as the model's loop does after one. `WebServer` takes the
  credentials' mutex as created.
* `OtaDevice` has one image per upload; that what is flashed is that image is
  `OtaInstall`'s subject. Sequence numbers of otadata are reduced to which
  entry is newer; CRCs of otadata and flash wear are not modelled.
* `Formats` takes base64 as exact; `Auth` takes the header as the pair it
  carries. `Formats` shows when that is so.
* `Glue` leaves out the values of the status fields, `Shell` their formatting.
* Not modelled: `theme`, `toast` and the fetch helpers of `webui.js` (they only
  touch the page, or are the fetches of the models), the lines of a log and
  their cap (a `maxLines` of 0 keeps them all, `webui.js:293`; no document
  allows a 0), `stop` called from a handler (`server.cpp:129`; it would wait for
  itself, and nothing calls it so), the signing tool beyond its output, the
  tests, the example's Wi-Fi set-up beyond its aborts, what its demo endpoints
  send, style sheets, vendored files. The reasons are in `PROJECT.json`
  (`components`).

## 7. Plan

Done: all components that keep state, proofs of all their safety properties,
and of the refinements of all four abstract specifications. Left:

1. `WebServer`'s view of the credentials (`Gate`, `Ask`, `SetCreds`) as a
   refinement of `Credentials`, with a call of another task as one step.
2. The line cap of `logViewer` as a function beside `Formats`.
