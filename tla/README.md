# A TLA+ verification project for Home Accessory Architect

This directory holds TLA+ models of the firmware in this repository (HAA, Home
Accessory Architect, on the HomeKit server homekit-rsf), the TLC configurations
that check them on small instances, and TLAPS proofs of what matters most. The
code is the reference: every definition that models code is listed in
`PROJECT.json` under `map` with the lines it translates.

## 1. Inventory

### 1.1 The system and its tasks

HAA runs on ESP8266 and ESP32 under FreeRTOS. The tasks that matter:

| task | priority | what it does |
|---|---|---|
| HomeKit server (`homekit_run_server`) | idle + 2 | one `select` loop: accepts, reads, answers, closes, sends notifications |
| timer service | idle + 5 | every software timer callback: buttons, auto-off, doors, covers, periodic monitors |
| HAA workers (actions, network, sensors, wifi) | mostly idle + 1, UART receiver idle + 4, reboot idle + 3 | set characteristics, notify, ask for memory by evicting a HomeKit client |
| logger | highest | sends the log buffer over UDP |
| interrupts | - | button edges, pulse counters |

They share memory without locks: the server structure, the client contexts, the
list of changed characteristics, the characteristics themselves. On the ESP8266
a task of higher priority can run between any two instructions of a lower one,
and runs until it blocks; on the ESP32 tasks also run on two cores.

### 1.2 Components

| component (source) | state | operations | interacts with |
|---|---|---|---|
| pairing storage (`storage.c`) | one flash sector: magic, accessory id and key, 40 pairing slots | init, reset, save id/key, can_add, add, update, remove, remove_extra, find, iterate | server (pair setup, pairings, init), setup page |
| HomeKit server (`server.c`) | list of clients, counters, `paired`, the single pair setup context, the session of each client | accept, read, pair setup M1-M6, pair verify M1-M4, pairings, characteristics, evict, close, reset | storage, accessories, notification queue, every task through `homekit_remove_oldest_client` |
| flags byte (`server.c:174`) | `client_count`, `pending_close` as bit fields | read-modify-write by the server and by any caller | server, HAA tasks |
| notification queue (`server.c:152, 3451-3546`) | singly linked list of characteristics | notify from any task; take, send, free in the server | all tasks |
| accessory database (`accessories.c`) | accessories, services, characteristics, subscriptions | find, subscribe, unsubscribe, clear | server, HAA |
| secure channel (`server.c:700-830`) | keys and frame counters of a session | encrypt, decrypt | server |
| mDNS responder (`mdnsresponder.c`) | record dictionary, reply buffer, announce timer | add, announce, answer, stop | server, wifi |
| JSON/TLV streams | fixed buffers | write, flush, parse | server |
| HAA accessories (`HAA_Main/main/main.c`) | groups of characteristics, timers, last states | setters, `do_actions`, timers, sensors | everything |
| wifi setup (`HAA_Main/main/setup.c`) | station/AP state, setup page | connect, smart connect, watchdog | sysparam, storage |
| installer (`HAA_Installer`) | two application slots, version and setup mode in sysparam | download, verify, finalize, reboot | flash, network, boot loader, HAAMAIN |
| buttons (`adv_button.c`) | debounce counters, press counts, two timers per button | evaluate, interrupt, press callbacks | timer service, HAA |
| timers helper, led codes, loggers, NTP, PWM, sensor drivers | small | wrappers, sequential drivers | HAA |

`sdk/` and `external_libs/` are vendored; the repository has no tests.

### 1.3 What is hard here

- **Power loss.** The pairing sector is rewritten in place; an erase, a magic
  and a write-back follow one another with nothing to fall back on.
- **Failing flash accesses**, and callers that go on after them.
- **Unlocked shared memory.** The flags byte and the notification list are
  changed by tasks of different priorities, and the list by the server task's own
  setters while timer callbacks interrupt them.
- **A list that is walked while others mark its members** (`close_clients`).
- **One pair setup context for all clients**, used by M3 and M5 without a look
  at whose it is, or whether there is one.
- **Sessions that remember a slot number and a permission**, while the table
  behind them is compacted and updated.
- **Two programs that replace each other**, with a network that fails in every
  exchange and a boot loader that looks at the head of a slot only.
- **State that stands in for the physical world**: doors, covers and links are
  followed by timers, counters and commands, and a worker that is not started,
  or started twice, leaves the state wrong for good.
- **Narrow fields**: 5-bit counters, 4-bit press counts, 11-bit lengths, 32-bit
  microseconds.
- **Commands that go through the timer queue** and take effect later, or fail.

`PROJECT.json` lists these as hazards, each at its line with the properties that
would catch it, or with a note where none does yet.

### 1.4 What makes the components correct

- *storage*: ids are unique; a pairing disappears only by the call that names
  it (or a power loss inside a rewrite); no pairing outlives the accessory
  id it was made with; room is found whenever there is
  any; trimming keeps the oldest; calls end.
- *server*: the count is the length of the list; nothing refers to a freed
  client; every mark leads to a closing; there is room for the next client; no
  setup is taken over by another client (it can be disturbed, but then no pairing
  comes of it); an open session belongs to a paired controller; `paired` agrees
  with the storage.
- *queue*: no change is lost and none is queued twice, but where a callback meets
  the last step of a setter's call; nothing is used after it was freed; every
  round ends; what is removed was sent.
- *installer*: what the boot loader accepts is one whole image; there is always
  a program to start that can repair the other slot; HAAMAIN comes back.
- *buttons*: each press is reported once; no level is overlooked.
- *doors and covers*: what moves is timed and ends; a door that does not arrive
  is shown as obstructed; a cover follows its last command.
- *wifi*: somebody always watches the connection, and it comes back.
- *to come*: frames are decrypted once and in order; a PUT of several items.

## 2. Modules

| module | models | lines of state |
|---|---|---|
| `PairingFlash` | the pairing table as a value; the functions of `storage.c` on it (find, add, remove, update, pack) | none |
| `PairingMap` | abstract specification: a partial map from device ids to pairings, one call at a time, and which pairings may get lost when | `map`, `call` |
| `PairingStorage` | `storage.c` as a machine, one action per flash access; power loss and faults at each | sector, stage, call, RAM copy |
| `PairingFlash_proofs`, `PairingStorage_proofs`, `PairingMap_proofs` | TLAPS proofs: the table functions; the machine's invariants; the refinement of `PairingMap` | |
| `HapServer` | the server task: select, accept, serve one client, close one client; setup, verify, pairings, subscriptions; evictions by other tasks; restarts | list, sessions, subscriptions, setup context, table, counters, place in the loop |
| `HapServer_proofs` | TLAPS proofs of all its invariants | |
| `MCHapServer` | symmetry sets for TLC | |
| `ServerFlags` | the flags byte with a load and a store per change | list, marks, byte, registers |
| `ServerFlags_proofs` | TLAPS proofs of its invariants | |
| `EventQueue` | the notification list pointer by pointer | nodes, head, server's locals, walking tasks |
| `EventQueue_proofs` | TLAPS proofs of its invariants, on chains of nodes | |
| `MCEventQueue` | the subscriptions of the instances | |
| `BootSlots` | abstract specification: two slots, each replaced only by the installer that runs from the other | `holds`, `runs` |
| `Installer` | HAABOOT and OTAMAIN step by step, both boot loaders, HAAMAIN as far as it takes part; network and flash failures, hangs, power losses | slots, boot choice, sysparam, `job`, `repo` |
| `Installer_proofs` | TLAPS proofs of its invariants and of the refinement of `BootSlots` | |
| `AdvButton` | `adv_button.c` for one button: interrupt, evaluation, press and hold timers, a full timer queue | `button` |
| `GarageDoor` | the garage door of `main.c`: setter, worker, auto-close, sensors, saved state | `door` |
| `WindowCover` | the window covering of `main.c`: setter, worker, buttons, virtual stop | `cover` |
| `Wifi` | watchdog, reconnection tasks, gateway pings, roaming scans, the user's commands | `wifi` |
| `MCAccessories` | the last four side by side, with the constants of all of them; they share no state, so each behaviour runs one, which `Init` chooses | `which`, `machine` |
| `Accessories_proofs` | TLAPS proofs of the invariants of the four machines | |

`PairingStorage` and `HapServer` both extend `PairingFlash`: the first runs a
table function one flash access at a time, the second uses its end result, since
the server calls the storage synchronously and nothing but a power loss gets in
between. `ServerFlags` refines one atomic step of `HapServer`, the change of the
flags byte, into load and store, and keeps only what the byte is about.

### 2.1 PairingStorage

`pc` names the access that comes next: `"off"` and `"idle"` between calls;
`"erase"`, `"magic"` inside `homekit_storage_reset`; `"load"`, `"newid"`,
`"newkey"` in `homekit_server_init`; `"old"` where `update_pairing` zeroes;
`"find"` for the search of a blank slot with the read of `compact_data`;
`"back"` for its write-back; `"write"`, `"zero"`, `"trim"` for the record
writes. Reads change nothing and belong to the action that uses them. A slot is
blank, a record, or `Erased` (zeroed, or without magic). `spiflash_write`
programs at most 64 bytes at a time, so a write cut by a power loss may leave a
prefix of the record: the id or the key `Torn` (`PartOf`, `CutBack`).
`Fault` leaves the flash unchanged and takes the code's path for a `false`.

### 2.2 HapServer

A client is a connection; one action serves one request of one client, because
the server task handles it to the end before it looks at another socket. What
the crypto library answers is a choice, within what it can answer. A controller's
place in the exchange is `talk`, the last answer it got; pair verify goes on only
from there, because each client context has a verify context of its own.

Pair setup has one context for all clients. M1 looks whose it is; M3 and M5 do
not, so in the model they may come from any client, at any time, whatever it was
answered before. `setup` holds what of the context decides the outcome: the client
of its M1, the public key that waits for M3 (`offer`), and whether client and
server are agreed on a session key. What the SRP library guarantees stands in the
guards: a proof is right only from the client that M2 told the salt and the key, as
long as they are the ones in use, and an M5 only decrypts with the key that both
are agreed on. So the M3 of another client either fails in the computation, and the
context is freed, or in the proof, and the public key is used up
(`server.c:1245-1264`); `"lost"` marks the controller whose setup that was. When its
own M3 or M5 then comes it fails, or finds no context: `SetupWithoutContext`, a
NULL pointer and a restart. An M1 that its own client repeats does not set the SRP
state up again as a whole (`crypto_srp_init` stops at the password, since the
first call has made it the server's side), so its offer is `"repeated"` and no
proof is right until the client's connection is closed.

`close_clients` is one action per client (`CloseClient`, `PassClient`), with `kept` for its place and `headGone` for the moment in which
the head of the list has been freed and other tasks would walk from there.
`OtherTaskEvicts` can come between any two actions.

Three more things the code does are in the model although they are not what one
would wish, and `stray` remembers that they happened, so that the properties
about everything else can be stated exactly:
`"slots"`: the slot numbers that open sessions remember are out of date (a
compaction or an update moved a record, or `pairing->id` was read after
`pairing_free` and the heap had changed it); `"demoted"`: AddPairing took the
permission of the last admin; `"late"`: M5 failed after it had stored the
pairing.

### 2.3 ServerFlags, EventQueue

`preempt` (`atOnce`), fixed at the start, says which tasks call: those that
outrank the server and run to their end between two of its accesses, as timer
callbacks do, or those that the server, each other or the other core interrupt
anywhere. In `EventQueue` the server task is a caller too, in both cases: HAA's
setters run in it and notify (`main.c:1392-1404`, 1592, 4477, 4690, ...) while
it serves a request, before it looks at the list (`Begin(Server, k)`, then one
`Walk` per node and `Link`, with the others in between). When a callback comes
after the last test of such a call and before its link, the link overwrites what
the callback has put there. `lost` and `leaked` record that, as `owed` records
what each client has yet to hear; all three are kept for `atOnce`, where the
properties speak of them. In `EventQueue` freed nodes keep their content until they are
allocated again, the kindest thing a heap can do: a property that fails even
then fails on the device. `In(p)`, the nodes that a walk from `p` meets, is the
least set that holds `p` and is closed under `next`, not a recursion, so that
facts about it can be proved.

### 2.4 Installer, BootSlots

A slot is its first byte (`head`) and its sectors; `ota_get_file_ex` keeps the
first byte of the file back and `ota_finalize_file` writes it last, so a slot
without head does not start. `Rboot` takes slot 1 for one start, from memory
that survives a restart but not a power loss, and has no fallback for it;
`IdfLoader` keeps its choice and tries the other slot. `Select` is the request
for the next start on both. `StartMain`, `DisarmSetup`, `UserCommand` and
`LeaveMain` are what HAAMAIN contributes: the setup mode parameter that its own
start raises and a timer lowers, and the order to start the installer.

What the download does on the way (redirects, TLS, the parser of the answer)
ends in one of the outcomes `ota_task` distinguishes; a signature is the image
it was made for. The boot loader checks a checksum as well; it is left out, so
that the first byte alone has to carry the property. Not in the model: a device
whose WiFi is not configured, the configuration number, the setup values above
1, and `rboot_set_temp_rom` on the ESP32's page, which does nothing there.

`misled` remembers that an empty answer was taken for a version. When only
the second connection of `ota_get_version` cannot be made it returns an
empty string. OTAMAIN takes that for a new version, may overwrite a part of
slot 0, and later finds that there is no new version. Then nothing is left to be
downloaded, slot 0 does not start, and the boot loader starts OTAMAIN again:
the device stays whole and repairs itself only when a newer version appears.

### 2.5 AdvButton

The unit of time is one evaluation. An evaluation has two steps, the countdown
to sleep with the stop of the timer (`CountDown`) and the reading of the pin
(`Read`), and `Edge` comes between any two steps. Commands to the timer queue
are refused as often as `MaxRefused` says, each at any place. Histories:
`missed` (the edge met a full queue, or came after the evaluation had decided
to sleep), `cut` (a command to a one-shot timer was refused: a press may then be
lost or reported twice). Not in the model: pulse mode, pins behind a port
expander or ADC, inverted pins, very long against long presses, the first 40 ms,
several buttons on one evaluation timer.

### 2.6 GarageDoor

The handlers are functions from the door before to the door after, since they
call each other. The setter of a controller's command runs in the server task,
and its actions may take long: `CommandBegins` and `CommandEnds` are its two
halves, with everything else in between. Buttons, sensors and timers run in
the timer task, each as one step. Closing takes as long as opening (the factor
is 1) and the kill switch is off.

`stray` names the cases in which the door is underway with nobody watching: a
stopped door told to do what it was doing, a restart with a moving state in the
flash, an obstruction cleared by hand. Two more things are visible in the model
and in no property. A restart with the saved state STOPPED (4) gives the target
state 2 (`main.c:12214`), where `characteristics.h:1113-1117` declares a maximum
of 1; the setter of a door stopped like that takes 2 for what the door was
doing. An opening sensor whose input arrives between the halves of a command to
open makes the setter dispatch as if the door was to be closed.

### 2.7 WindowCover

The setter has three steps: until the actions, `_start_wc_timer`, and the
assignment of the new state. The worker may stop between them. `cut` says
where: before the timer is started again, the command is dropped
(`"target"`); after it, the cover is shown as moving with no timer
(`"timer"`). Positions are scaled from 0..100 to `Full`, and the correction
with them. A start of the worker that the queue refuses is left out; a stop that
it refuses is `StopRefused`. Not in the model: the system action that writes the
positions and, at rest, the target directly (`main.c:7628-7640`, values from 200
on), which sets the estimate right without moving the cover.

### 2.8 Wifi

A reconnection task is created by the watchdog, begins by stopping it and ends
by starting it. Between its creation and its start the watchdog may create
another one. `calm` says that the network and the memory make no more trouble,
and brings assumptions about time: a connection that can be set up is set up
before the task tries it again (`Answering`), a task that was created runs
before a delay of another one ends (`Prompt`), the best access point stays the
best. `Reconnects` holds but for a `Duel`: two reconnection tasks that keep
taking the connection from each other, which the code does not exclude. A
disconnection by system action is undone by a reconnection task under way
(`released` is then only the history of the wish); a scan that does not start
on the ESP32 is forgotten. The station and the access point are external.

## 3. Runs

| run | instance | checks | shows |
|---|---|---|---|
| `pairing_storage` | 2 ids, 2 keys, 3 slots, no faults | `TypeOK`, `UniqueIds`, `PairingsHaveIdentity`, `RefusedOnlyWhenFull`, `TrimKeepsOldest`, `CallsEnd`, `ImplementsMap` | power losses at any access leave a table with unique ids under the old identity, and the machine implements `PairingMap` |
| `pairing_faults` | 2 ids, 1 key, 2 slots, faults | `ImplementsMap` | the same refinement when erases and writes fail |
| `hap_pairings` | 2 connections, 2 controllers, 1 key, 2 slots | `TypeOK`, `SetupContextKept`, `OpenSessionIsPaired`, `PairedMeansAdmin` | nobody takes a setup over, whoever sends M3 and M5; removal closes sessions; `paired` and the storage agree |
| `hap_clients` | 3 connections, `max_clients` 3, `HOMEKIT_MIN_CLIENTS` 1 | `CountIsExact`, `NoDanglingClients`, `MarkedIsPending`, `RoomForNext`, `MarkedIsClosed` | list, count, subscriptions and marks survive evictions in the middle of closing |
| `flags` | 4 connections, both kinds of callers | `TypeOK`, `CountIsExact`, `LostMarkIsFound` | the timer task cannot spoil the count; whoever calls, a lost mark is found when the next client leaves |
| `events` | 2 characteristics, 2 clients, 2 tasks, 4 nodes (2 for interruptible tasks) | `TypeOK`, `OwedIsQueued`, `NoDuplicates`, `NodesLive`, `ChangesArrive`, `RoundsEnd` | between the server's setters and timer callbacks nothing is lost but what a setter's link overwrites; under any interleaving no node is used after it was freed and the server's round ends |
| `installer` | both chips, sound and failing flash, 2 versions, 2 losses | `TypeOK`, `BootableIsWhole`, `NeverBricked`, `RecoversToMain`, `ImplementsSlots` | no half-written program starts, one program can always repair the other, HAAMAIN comes back, and the slots keep the promise of `BootSlots` |
| `accessories` | a button with 1 refused timer command, a door and a cover with 3 inputs each, a connection with 2 tasks and 1 user command | `TypeOK`, `PressesAccounted`, `EdgesSeen`, `DoorWatched`, `DoorSettles`, `CoverTimed`, `CoverStops`, `Watched`, `Reconnects` | each machine of HAAMAIN keeps its state in step with its timers, whatever order edges, sensors, commands and refused timer commands come in |
| `hap_max_wide` | 3 connections, counters of 2 bits | `EvictedOnlyWhenFull` *violated* | the accepted maximum does not fit its field |
| `hap_demotion` | 1 connection, 1 controller | `PairedHasAdmin` *violated* | an accessory without admin that takes no pairing |
| `flags_lost` | 3 connections, timer task | `MarkedIsClosed` *violated* | an eviction between load and store is lost |
| `events_tasks` | 1 client, 1 task | `RemovedWereSent` *violated* | a change appended to the list being sent is dropped |

### 3.1 Why the bounds are enough

- *Slots.* Three slots hold two records with a zeroed or blank slot before,
  between and after them; a compaction moves records only past such slots. Two
  ids are enough for two records that collide, and for one that an operation on
  the other must not touch. Two keys tell a replaced key from a kept one.
- *Server.* Two controllers on two connections give every order of two
  exchanges, a removal of each by each, and of oneself. A table of two slots is
  full with both, so refusal and compaction occur. One key is enough here,
  because no property and only one guard looks at it: an update with another
  key than the stored one ends as a request without effect or as an update,
  and both are there with one key (with two keys the run also passes, with 4.3
  million states). Three connections with `MinClients` scaled
  to 1 give an eviction while the newcomer, the oldest and
  one in between are listed, and another task's eviction after `close_clients`
  has freed the head. `CountBits` is 3, or 2 in `hap_max_wide`, for the code's 5.
- *Flags.* Four connections reach the limit with `MinClients` 2.
- *Queue.* Two characteristics and two clients with different subscriptions
  distinguish "sent to one" from "sent to all"; four nodes fill a taken list
  and a new one at once, or leave two when two have leaked. `TaskNodes` bounds the
  nodes that are allocated where they can get lost (by interruptible callers, and by
  callbacks before a setter's link), so that leaks never use the pool up; for
  interruptible callers it is the whole pool, because their interleavings dominate the
  state space. A task and the server are two callers in the middle of a call, two
  tasks and the server three.
- *Installer.* Two sectors: the one with the header and the rest. Two versions:
  a newer one of each image may appear once, at any moment. Two partial
  tries (five in the code) and two rounds (as in the code) reach their limits; two losses allow one
  in the repair of another.
- *Accessories.* A level is confirmed by two evaluations, and the times of a
  double, long and hold press and of sleep are 2 < 3 < 5 < 7 evaluations,
  ordered as in the code. A door travels two periods with margin 0 and 1, a
  cover four; margins and corrections are present and absent. Three commands or
  inputs give one that starts a movement, one that turns it and one that meets
  the second halfway. Two reconnection tasks are the least that meet; a third
  would do what the second does.

No counter of the models is unbounded: the list is bounded by `Conns`, the
nodes by `Nodes`, and every other counter saturates or has a constant marked
as its bound. `CHECK_DEADLOCK FALSE` stands in the queue configurations, where
the system is idle when nothing is notified, or the pool is used up; in
`Installer.cfg`, where a device whose flash lost the first byte may be dead; and
in `Accessories.cfg`, where a door or cover is at rest when its inputs are
used up.

### 3.2 Fairness

- `PairingStorage`: weak fairness of `Step`. A call is sequential code that
  nothing blocks; only the power ends it early, and the property says so.
- `HapServer`, `ServerFlags`: weak fairness of the server's own steps. The
  server task is runnable once `select` has returned, and the tasks above it
  block. Nothing is assumed of the network: `Select` is not fair, and
  `MarkedIsClosed` has the premise that passes of the loop recur. `CallStores`
  is fair as the second half of a call under way.
- `EventQueue`: weak fairness of the server's steps, its own calls included, each
  send returning (the sockets have send timeouts), and strong fairness of `Look`:
  requests whose setters notify may come for ever, but every pass of the loop that
  serves them ends with a look at the list (`server.c:3633`).
- `Installer`: weak fairness of `Device`, what the device does of itself as one
  sequential program. Nothing is assumed of the user, of publications, or of the
  network, whose settling is the premise of `RecoversToMain`.
- `AdvButton`: weak fairness of the timer task, which outranks the others.
  `GarageDoor`, `WindowCover`: of each worker period (a periodic timer) and of
  each second half of a command under way in the server task.
- `Wifi`: weak fairness of the watchdog timer, of the scan's and the ping's
  answer (both have timeouts), of the station's attempt to associate and of each
  reconnection task.

`MCAccessories` states the same fairness for the machine that was chosen.

### 3.3 Mutants

Each property of a passing run has a mutant in the modules: the definition as a
plausible bug would have it (records packed from the second one on, the old
record not zeroed, a setup context without owner check, a mark without
`pending_close`, a count that is not decremented, a walk that does not start
again for the next client, a first byte written with its sector, an interrupt
left off when the evaluation goes to sleep, ...). TLC finds the property violated with it.

## 4. Proofs

Every invariant that a passing run checks, the action properties of the storage and both
refinements are theorems of the specifications, for all values of the constants
that satisfy the named assumptions. No theorem assumes fairness. Each proof
module states one inductive invariant, shows it for `Init` and for each action
in a lemma of its own, and then reads the properties off it.

| module | theorem | states |
|---|---|---|
| `PairingFlash_proofs` | `PackedLosesNothing`, `AddedHolds`, `RemovedHolds`, `UpdatedHolds` | what the functions of `storage.c` do to the set of records |
| `PairingStorage_proofs` | `TypeCorrect`, `IdsAreUnique`, `IdentityKept` | `TypeOK`, `UniqueIds`, `PairingsHaveIdentity` |
| `PairingMap_proofs` | `RefusedForRoom`, `TrimKeeps`, `KeepsTheMap` | `RefusedOnlyWhenFull`, `TrimKeepsOldest`, `ImplementsMap` |
| `HapServer_proofs` | `TypeCorrect`, `CounterIsExact`, `NothingDangles`, `SetupHolds`, `MarksAreNotLost`, `PassMakesRoom`, `OpenSessionsArePaired`, `PairedFlagFits` | its eight invariants |
| `ServerFlags_proofs` | `TypeCorrect`, `CountSurvives` | `TypeOK`, `CountIsExact` |
| `EventQueue_proofs` | `TypeCorrect`, `NothingElseIsLost`, `QueuedOnce`, `NoUseAfterFree` | `TypeOK`, `OwedIsQueued`, `NoDuplicates`, `NodesLive` |
| `Installer_proofs` | `TypeCorrect`, `BootableAlwaysWhole`, `AlwaysRepairable`, `KeepsThePromise` | `TypeOK`, `BootableIsWhole`, `NeverBricked`, `ImplementsSlots` |
| `Accessories_proofs` | `TypeCorrect`, `PressesReportedOnce`, `DoorIsWatched`, `CoverIsDriven`, `WifiIsWatched` | `TypeOK`, `PressesAccounted`, `DoorWatched`, `CoverTimed`, `Watched` |

### 4.1 Assumptions

All are `ASSUME`s of the modules that declare the constants, and TLC evaluates
them in the runs.

- `TableAssumption`: at least one slot. `MarkerAssumption`: blank, zeroed and
  absent are no records, a torn field is no id or key. `StorageAssumption`:
  `FlashFaults` is a Boolean; a call is not the absence of one, a copy in RAM
  not the absence of one.
- `ServerAssumption`: `MinClients + 1` fits into the counter (4 + 1 in 5 bits;
  nothing is asked of the configured maximum, which may wrap), `None` is no
  connection and no id, the options are Booleans. `ContextAssumption`: `None` is no
  setup context. `FlagsAssumption`: the same
  for the byte, and a configured maximum of 31 at most, which its five bits hold.
- `QueueAssumption`: there is a characteristic; `Nil` is no node; `TaskNodes`
  are nodes; the server task is none of `Tasks`.
- `InstallerAssumption`: the chips and kinds of flash there are; at least one
  version, try and round.
- `AccessoriesAssumption`: those of the four machines: times, margins and bounds
  are numbers, the times of a button are ordered as in `adv_button.c`, and a
  reconnection waits less long than `LongTime`.

The sets of connections, controllers, characteristics, nodes and clients need
not be finite, except where a sequence or an interval makes them so.

### 4.2 The table and the storage

`PairingFlash_proofs` first says what the table functions do: the first match
exists (`FirstIsMember`, by well-founded inclusion of initial segments), packing
keeps records, uniqueness and order (`PackedHolds`, on the rank of a slot) and
makes room (`PackedMakesRoom`).

None of the three invariants is inductive. Uniqueness after a write-back depends
on what `compact_data` has in RAM, and uniqueness after the write of a new
record on nobody else having its id, through every access since the search.
`Inv` adds:

- `StageCall`: which call each stage serves;
- `Unique(slots)`, and `CopyKept`: the copy in RAM is unique too and does not
  hold the id being added;
- `RoomForId`: while a record is being added the table does not hold its id
  (`add` is called only after `find` found nothing, `update` zeroes first);
- `IdentityFirst`: magic before identity, identity before pairings, and the
  copy holds the identity while the sector does not.

The refinement maps a sector that is being rewritten to the map of the copy in
RAM, so `MapInv` adds `Served` (the remaining stages and the calls that have no
copy), `Rewritten` (between erase and write-back the copy holds what the sector
held, and the sector is blank) and `Roomy` (a compaction makes room, so the
second look for a blank slot finds one). A power loss takes from the map what
`PairingMap` lets it take: `LostIsMangled`, on `CutBackRemnant` for a
write-back cut short and `CutWriteMap` for a record cut short.

### 4.3 The server and its flags

`HapServer_proofs!Inv` has two halves. `ListInv` is about the client list:
`MarkedIsPending` and `CountIsExact` need `WalkFits` (where the walk of
`close_clients` stands), `UnlistedIsNew` (a context that is not listed is as
`calloc` left it, so that a newcomer brings no mark, session or talk with it)
and `Crowded`: one client above the limit is listed only between the accept
that let it in and the walk, and then a marked client lies ahead of the walk.
That is why there is room after each pass, and why the counter never wraps.
`PairingInv` is about sessions and the table: `VerifiedHasSlot`, `AdminsFit`
(no open session has administrator rights while the accessory takes pairings)
and unique ids. An action's table change is one of the functions of
`PairingFlash`, so the theorems about those are all it takes.

`CountIsExact` of `ServerFlags` holds only for callers that run to their end
between two accesses. `Counted` says by how much the count may lag the list at
each step, and that the byte in the register is the byte in memory as far as the
count goes; `Crowded` is the same argument as above, step by step.

### 4.4 The queue

Two invariants, for two kinds of claims. `Live` holds whoever notifies and is
interrupted wherever: what is linked is allocated, every node is linked from one
place at most (a new one from where it was put), and nothing allocated points to
what the server is about to free. A task that holds on to a freed node links a new
node behind it, which nobody then reaches. `NodesLive`, that nothing is used
after it was freed, follows from it for any interleaving.

`Calm` is about timer callbacks and the server's own setters. The list, the taken
list and the leaked nodes make up the heap, share no node and have no ring
(`Chained`, `Owned`); what the server has passed on its way to the next
characteristic of a client, the client does not watch (`Passed`); what a setter's
call has passed does not name its characteristic, but for nodes that came behind
the end it found (`OwnCall`); who is owed a change watches it (`OwesWatched`);
and `Queued`, `Distinct`, the properties themselves. The link of a setter cuts off
what came behind that end: `ReachCut` says what is left of a chain then, from
`ReachLinear`, that of two nodes of a chain one comes after the other. Under other
interleavings changes do get lost, as `events_tasks` shows.

### 4.5 The installer

`BootableIsWhole` depends on where the download is: a slot has no first byte
while any of its sectors is not the new image's, and when the first byte is
written all sectors are (`JobFits`). `NeverBricked` depends on who runs:
`ProgramFits` says that an installer runs from a slot that starts and wants an
image for the other slot, `Placed` that no slot ever gets a sector of an image
for the other, `ChoiceFits` that slot 1 is selected only when it starts, unless
the flash lost its first byte. `KeepsThePromise` maps the slots to what the boot
loader would start, so that every step in between is a stutter.

### 4.6 The accessories

`AccInv` says which machine runs and has one invariant for each:

- *Button* (`ButtonInv`): the count of evaluations is short of the other level;
  what is owed fits the press count and the timers; and `InTime`: the press
  timer comes to its end before the press is a long one, the hold timer after
  that.
- *Door* (`Timed`, `Watch`): while the worker runs the time is strictly on its
  way to the limit that stops it; only a stopped door has no target; a door
  underway without worker is obstructed, strays, or is in the middle of a
  command that will start one.
- *Cover* (`CoverInv`): the estimates leave the scale by no more than the
  margin and the refused stops (`Scaled`), the worker runs exactly while the
  cover moves, in each part of a command (`Powered`), and goes where it was told
  last (`Obeys`).
- *WiFi* (`WellWatched`): the property itself is inductive: a task stops the
  watchdog only in its own name, and starts it as the last thing it does.

### 4.7 Only model-checked

The liveness properties (`CallsEnd`, `MarkedIsClosed`, `LostMarkIsFound`,
`ChangesArrive`, `RoundsEnd`, `RecoversToMain`, `EdgesSeen`, `DoorSettles`,
`CoverStops`, `Reconnects`), because fairness and ENABLED are out of the prover's
reach, and the four runs that show a violation. Of `ImplementsMap` and
`ImplementsSlots` everything is proved: the abstract specifications are safety
specifications.

## 5. Findings

See `findings` in `PROJECT.json`: `max_clients` 32 wraps to 0; the last admin
can be demoted and leaves an accessory that takes no pairing; an eviction can be
lost in the flags byte; a notification appended while the server sends is freed
unsent.

More behaviours are visible in the models and excluded by name from the
properties, which then hold for everything else: a setup that another client's M3
disturbs, and the restart when its M5 finds no context, or when any client sends M3
or M5 without one (`"lost"`, `SetupWithoutContext`, 2.2); a setup whose M1 was
repeated (`offer`, 2.2); a change lost, and its node leaked, when a timer
callback notifies between the last test and the link of a setter's call (`lost`,
`leaked`, 2.3); sessions found by a stale or
freed slot number, and a pairing kept by an M5 that reports an error (`stray`,
2.2); an empty answer taken for a version (`misled`, 2.4); edges and presses
lost at a full timer queue (`missed`, `cut`, 2.5); doors underway unwatched
(`stray`, 2.6); a cover whose worker stops inside a command (`cut`, 2.7); two
reconnection tasks at a time (`Duel`, 2.8). A further disagreement has no run:
the undeclared target state of a door that was saved as stopped (2.6).

## 6. Not modelled, and why

Timing of electrical drivers (DHT, 1-wire, DS18B20, I2C, NRZ leds), colour
arithmetic, cryptographic primitives and parsers of vendored code: no
interaction that a model checker would add to. What corrupts the heap (a double
free after AddPairing with another key, a NULL node) is left to the restart it
ends in. What each module leaves out of its component is said in section 2.
Everything else not in the table of modules is in the plan; the vendored code,
most of the repository by lines, is modelled only as what the core asks of it.

## 7. Plan

1. `flags` under callers that may be interrupted: which part of the byte survives
   any interleaving, as invariants with proofs.
2. `SecureChannel`: frames, counters and keys of a session against a network
   that splits and coalesces; abstract specification: a sequence of requests
   delivered once and in order. Theorem: counters never repeat under one key.
3. `CharacteristicUpdate`: PUT with several items, setters that notify,
   subscriptions, composed with `EventQueue` by its abstract queue.
4. `MdnsResponder`, `AdvLogger`, `RavenNtp`, `LedCodes`, `TimersHelper`: small
   machines checked together; `json.c` and `tlv.c` as functions against
   reference definitions; valves and auto-off of `main.c`.
