# A TLA+ verification of the ESP32 clock's firmware

The repository is the firmware of a touch-screen clock (ESP32, ESP-IDF, FreeRTOS): a product of many
small components under `src/components`, each with a task, a queue or a lock of its own. This
directory holds TLA+ models of the components whose tasks have to agree with each other, TLC
configurations that check them on small instances, and TLAPS proofs of what matters most for every
value of the constants.

Contents: [the system](#the-system), [the modules](#the-modules), [what is checked](#what-is-checked),
[what is proved](#what-is-proved), [what is only model-checked](#what-is-only-model-checked),
[what is not modelled](#what-is-not-modelled-and-why), [observations](#observations), [the plan](#the-plan).

## The system

### Tasks

| task | priority | runs |
|---|---|---|
| ESP-IDF event loop | 20 | the station's event handlers (`esp32_wifi_sta.c:322-376`) |
| `wifi_connection` | 8 | the Wi-Fi manager (`wifi_connection_manager.c`) |
| `radio_manager` | 7 | the lease arbiter (`radio_manager.c`) |
| `app_shell`, `time_sync` | 5 | the screens and apps; one time sync at a time |
| `app_scheduler`, `time_tick` | 4 | the schedules, once a second; the clock that drives them |
| `cyd_input`, display, speaker, LED | - | one task each, fed by queues |
| `sd_card_writer`, `sd_card_status` | - | the writer of the card's streams; the monitor of the card |

Boot order is `wifi_connection_start`, `radio_manager_init`, `time_sync_start`, then the apps
(`cyd_clock_composition.c`).

### Components

| component | state | operations | interacts with | what is hard | what makes it correct |
|---|---|---|---|---|---|
| `wifi_connection` | published state, failure, users, two flags, a queue, a deferred request, the procedure on the task's stack | acquire, release, retry, begin/scan/connect/complete setup; station events; attempts, rescans, delays, polls | driver, profile store, every Wi-Fi user, the LED callback | requests that interrupt procedures, dropped events, callers blocked on their own stack frame, failed stops | a user is never without Wi-Fi, a state is never stranded, a call always returns, once |
| `esp32_wifi_sta` | started, requested, has-ip, state | init, start, scan mode, stop, two handlers | ESP-IDF, `wifi_connection` | the owner and the event task share the flags; a driver call may fail half way | a stale event never looks like a connection |
| `wifi_profile_store` | one NVS blob of profiles | record success, prefer, remove, load | `wifi_connection` (manager task), the settings screen (app task) | read, change and write without a lock | the last success is the newest; the blob is always one that a single operation made |
| `cyd_wifi_setup` | page, keyboard, scan, `active` | enter, scan, test, complete, leave | `wifi_connection` | the app's flag against the manager's state; touches that queue up while a scan blocks | setup is begun before it is used, and ended; a touch acts on what was shown |
| `radio_manager` | request and control queue, reply slots, Wi-Fi hold, owner | acquire, release, internal expiry | `wifi_connection`, its clients | late replies, stale cancellations, full queues, deadlines that race grants | a holder owns the lease, a lease ends, Wi-Fi is given back |
| `time_sync` | request flag and generation, settings, notification, attempt record | request, request soon, set interval, the task | `radio_manager`, SNTP, error log | requests made during an attempt, notifications that outlive them, 5 s dedup window | an accepted request is served, once; the radio is given back |
| `app_scheduler` | entries, a blob in NVS for each of two scopes, event queue | upsert, remove, enable, stop, the look at every tick | alarm and settings apps, `time_tick` | two tasks that save the same blob, events handed over after the lock, a clock that jumps, a restart between two writes | a one-shot goes off once, a blob agrees with its schedules |
| `sd_card_writer` | stream buffers, rotation points, files, commands | open, write, rotate, flush, close; the task's rounds | `error_log_store`, the card | producers, rotations and the writer between any two steps; a card that fails at any call | records whole and in order, files turn where they should, a flush means it |
| `sd_card_status`, `sd_card_storage` | mounted, logging, shown state | the monitor's rounds: mount, test, start, check, stop, release | `error_log_store`, `sd_card_writer` | a card pulled between two steps | what is shown is what is mounted and logged to |
| `error_log_store` | hold, counted repeats and their timer, open/ready/releasing flags, stream | log, repeat timer, clock's answer, start, stop | every component | the log opens, releases the hold and is closed by different tasks; repeats are counted under the lock and timed outside it | no line overtakes a held one; nobody writes to a closed stream; what is counted is told |
| `app_shell` | active app, pending switch, return app, errors | request switch, enter, step, leave, recover, idle return | all apps, the guard | a switch asked for inside enter or step, a failing enter, a guard that redirects | an app that cannot run leaves the screen |
| `settings_pin` | lock, session, guesses, record in NVS | guard, enter, change, recover | `app_shell` | counters that must survive a restart, many ways in | no entry without the PIN; no guess for nothing |
| `cyd_input` | debounced touch and button, event queue, guard, calibration | sample, push, discard, pause, resume, calibrate | `app_shell`, the touch controller | two tasks on one bus, a full queue, a stuck line | one driver at a time; each press of the button told once, PRESS and RELEASE of the finger in turn |
| `cyd_speaker`, `status_indicator`, `cyd_status_led` | command queue, sound, tone; base and overlay | play, stop, volume; set base, overlay | alarms, `wifi_connection` | a sound or pattern that ends under another one, full queues | what is heard and seen is what was asked for last |
| `cyd_display`, `cyd_ui` | screen and log queues, previous screen, changed places | submit, log, apply, draw, invalidate | all screens | two queues and one panel, a full list of places, calibration beside the task | the panel shows the newest screen |
| `cyd_text_input` | text, prefix, page of keys | enter, key, scheme, touch | settings, Wi-Fi setup | separators count towards the length | a prefix stays, a value stays within its limit |
| `system_boot` | the held touch, the wait for its release | boot gesture, choice of the first app | `cyd_input`, `app_shell` | the input task is some polls behind the finger | the hold that opens the settings is no tap, also when the wait for its release runs out |
| system settings | pages, views, steppers, stored settings | touch, step, save on leaving | stores of the services | a setting loaded by one task while another saves it; a list that is stale when it is touched | what is set is saved; what is shown is deleted |
| clock apps | screens, alarm pages | step, touch, alarm, retry | `app_scheduler`, `time_sync`, Wi-Fi | ticks, alarms, touches and Wi-Fi states in any order | what is shown is what is |
| `app_registry`, `wifi_rssi_history`, `xpt2046_softspi`, simulator, host tests | - | tables, samples, I/O, tools | - | - | not modelled |

`PROJECT.json` lists every component with its sources and status, and every hazard at its line.

## The modules

| module | models | how |
|---|---|---|
| `WifiService` | the contract of `wifi_connection.h` | abstract specification: the published `state` and the `users`, and nothing of how they come about |
| `WifiSta` | `esp32_wifi_sta.c` | the driver's flags and the events that ESP-IDF has under way; ESP-IDF itself (`external`) may fail a call, refuse, drop a link |
| `SavedProfiles` | what `wifi_profile_store.c` promises | abstract specification: each network's place, 1 for the newest |
| `WifiConnection` | `wifi_connection_manager.c`, `wifi_connection.c`, with `cyd_wifi_setup.c` and the settings screen as callers | extends `WifiSta` and `SavedProfiles`; implements `WifiService` |
| `RadioManager` | `radio_manager.c` | extends `WifiService`: the arbiter is checked on top of what the manager promises, not on top of the manager |
| `TimeSync` | `time_sync.c` | on top of what `radio_manager_acquire()` may return |
| `WifiProfileStore` | `wifi_profile_store.c` | reads and writes that overlap; implements `SavedProfiles` for every operation on a current copy |
| `AppScheduler` | `app_scheduler.c`, `time_tick.c`, `cyd_clock_alarm.c` | the scheduler task against one app task, with both saves interleaved |
| `AppShell` | `app_shell.c` | the shell's state and its own moves |
| `SettingsPin` | `settings_pin_app.c`, `settings_pin_logic.c`, `settings_pin_store.c` | extends `AppShell`: the guard, the session, the flows |
| `SystemApps` | the settings app, the screens it opens, clock, info, boot's choice | extends `SettingsPin`: the whole, with restarts and failing writes |
| `ErrorLogStore` | `error_log_store.c` | the hold and the door, one action per critical section |
| `SdCardStatus` | `sd_card_status.c`, mount and release of `sd_card_storage.c` | extends `ErrorLogStore`: the task that starts and stops the log |
| `RecordLog` | what a stream of `sd_card_writer` promises | abstract specification: records, files, failed |
| `SdCardWriter` | `sd_card_writer.c`, one stream | producers, writer and owner over bytes; implements `RecordLog` |
| `CydInput` | `cyd_input.c` | the input task, the shell's task that calibrates, finger and button |
| `CydSpeaker`, `CydStatusLed`, `CydDisplay`, `CydTextInput` | the components of these names | one small specification each |
| `SystemBoot` | `system_boot.c`: the touch held through the boot | the boot against an input task that is up to `Lag` polls behind |
| `StoredSettings`, `SettingsScreens` | one setting from flash to its stepper and back; pages, views and touches of `system_settings_app.c` | |
| `WifiSetupScreens`, `ClockScreens` | the screens of `cyd_wifi_setup.c`; of the clock and its settings | |
| `WifiConnection_proofs`, `RadioManager_proofs`, `SystemApps_proofs`, `SdCardStatus_proofs`, `SdCardWriter_proofs`, `CydInput_proofs` | | the theorems about the module of that name |
| `Services_proofs` | | the theorems about `TimeSync`, `WifiProfileStore`, `AppScheduler` |
| `Parts_proofs` | | the theorems about the nine parts of `MCParts`, and about all of them running |
| `MC*` | | the instances that TLC checks, one `.cfg` per question; `MCParts` runs nine parts that share no state, each for itself |

### How state and actions correspond to the code

A critical section (a spin lock, a queue operation, the code between two blocking calls of one
task) is a step. A call that blocks ends a step, and what another task may do meanwhile is whatever
actions are enabled then. A variable carries the name of the code's variable where there is one.

- **WifiConnection.** `queue` is the manager's FreeRTOS queue. `pc` is where the manager is: its
  loop, collecting candidates, starting an attempt, waiting for it, one of its delays. `proc` is the
  stack frame it has there (the automatic connect with its candidates and attempts, or the test of
  setup), `deferred` the request that interrupted it, `call` each caller's completion on its own
  stack. `Handle*` are the `wifi_connection_handle_*` functions, `Interrupted` the receive inside a
  wait, `CheckLink` and `StopIfUnused` the two things a poll does. The caller's side (`UserAcquire`,
  `UiEnter` ... `UiLeave`) is `wifi_connection_call`, which blocks without a limit.
- **RadioManager.** `requests` and `controls` are the two queues, `reply` the slot of length one that
  each client has, `manager` the place of the manager task with the request it serves and the owner
  of the lease, `held` the manager's own hold on Wi-Fi. Each client's acquire is the sequence of
  `BeginAcquire`, `Send`, `ReceiveReply` or `GiveUp`, with its deadline passing at any moment.
- **TimeSync.** `requested`, `generation`, `reschedule` and `interval` are the flags under the spin
  lock, `notified` the task notification, `task` the place of the task. The 5 s in which a second
  request is dropped are one flag, `recent`, that may close at any time.
- **WifiProfileStore.** `flash` is the blob, `writer` each task's copy between its read and its write.
- **AppScheduler.** `entries` are `s_entries` by owner and tag, `flash` the two blobs, `tick` the
  queue of one tick, `sched` and `app` the places of the two tasks, `save` each task's call of
  `app_scheduler_persist()` with the snapshot that it holds under the mutex. `Boot` is
  `app_scheduler_init()` and may come at any moment, so that a restart falls between any two steps.
- **SystemApps.** `shell` is where the shell's task is (boot, enter, step, apply a switch, check the
  idle time), `active`, `pending` and `returnTo` its own variables, `pin` the PIN app's session and
  task, `settings` what the settings app keeps, and the record in flash with the guesses. An app's
  enter or step is one action: other tasks reach the apps only through `pending`.
- **SdCardStatus.** `log` are the flags of the error log under `s_lock`, `lines` the lines that are
  held or on their way to the stream, in order, `doing` each task's place in a call of the log, `mon`
  the monitor's place, `card` what is in the slot. Each critical section and each call of the card
  writer is an action. `repeats` are the slots of `error_log_dedupe`, `repeatTimer` the `esp_timer` that
  tells what they counted: `Flush` and `Collect` are the critical sections of
  `error_log_store_flush_repeats()`, which take at most `Batch` counts each, with the lines of each batch
  logged between them; `Arm` looks under the lock whether anything is counted, `SetTimer` sets the timer
  outside of it. The clock is read once, before the first section, so a later one may take a count whose
  window began since (the unsigned difference wraps round) and leave one whose window ended since.
- **SdCardWriter.** `buffer` is the stream buffer, byte by byte, `stream` what producers and writer
  share, `prod` and `writer` their places, `owner` who flushes and closes, `files` the card. A byte
  knows its record and how many of that record follow.
- **CydInput.** `task` is the place of the input task, `touch` and `boot` its filters, `pause` and
  `calibrator` the take-over of the controller, `queue` the events. One round of the task after its
  frame is one step.
- **SystemBoot.** `boot` is the place of `system_boot_start()`. The wait for the release ends by its
  count of stable polls (`WaitPoll`) or by its clock (`WaitOverdue`), whatever the finger does; all that
  is assumed of the 10 s is that they are more polls than the input task can be behind. `touch` numbers
  the touches, and each queued event knows its own.
- **The parts.** Each has its queue and its task; `speaker.at` and `led` are the tasks' places and
  their stack, `panel` what the display shows strip by strip, `boot` the place of the start-up.

Variables marked "history" in a module (`stale`, `rung`, `accepted`, `told`, `lifts`, `forgotten`,
`removed`, ...) are read by properties and never by actions, except where they bound an instance.

### What is abstracted

- Time: a timeout may expire whenever what it waits for has not come; only the scheduler has a
  clock, of days and seconds, and the boot a count of polls.
- Flash: a read succeeds, a write may fail (it then leaves the old blob) and NVS writes a blob at once.
- `WifiConnection` treats a profile operation as one step, as `SavedProfiles` has it;
  `WifiProfileStore` shows when that is so (`ImplementsSavedProfiles`) and when it is not.
- The driver's first-time initialisation is part of the first operation that needs it. The radio's
  "not supported" reply, which the product's configuration never gives, is left out.
- `TimeSync` takes the radio's answer as a nondeterministic one of granted, paused for setup, failed.
- `AppScheduler` has one app task (app_shell makes every call in this product), looks at the entries
  of a tick in any order where the code goes by slot, and names an entry by its key, not its slot.
- A PIN, a coordinate, a colour, a frequency, a text or a network's password is what its comparisons
  tell apart: right or wrong, which zone, which pattern, with or without a tone, which separator.
- LEDC, SPI and drawing calls do not fail; a screen is submitted (the queue has memory for it).
- The timer of the error log's repeats is created at the first need; the module takes that to succeed.
- In `SystemApps` each enter of the clock may fail, although the code keeps its subscription once it has
  one, and a shown screen may fail at any step: the code's behaviours are among the model's.
- Getters, progress texts, counts for display, and logging are left out, except where a property
  reads them.

## What is checked

| run | distinct states | instance | shows |
|---|---|---|---|
| `wifi_safety` | 2,630,769 | 2 networks, 1 user and the UI, queue of 2, 2 attempts, 2 scans, 2 saved | a published state is backed by what runs behind it, every waiting caller has exactly one request, and the manager implements `WifiService` |
| `wifi_liveness` | 127,659 | 1 network, queue of 1, 1 attempt | calls return, a lost link is noticed, unused Wi-Fi goes off |
| `radio` | 1,032,844 | 2 clients, one without a hold limit, 3 requests | a granted lease is real and backed by Wi-Fi, every lease has an end, the manager comes back to rest |
| `time_sync` | 90,468 | 2 intervals, 2 retries, 3 requests | nothing is slept over, every request is answered, the error log hears |
| `profile_store` | 56,942 | 3 networks, 2 entries, 5 successes | the blob stays consistent; an operation on a current copy implements `SavedProfiles` |
| `scheduler` | 794,601 | 2 schedules for 1 entry, 2 days of 2 seconds | blobs agree with schedules, one-shots go off once |
| `system_apps` | 1,770,850 | the product's apps, 2 errors, chains of 4, 1 guess | no way round the PIN, no guess for nothing, an app that cannot run leaves |
| `sd_card` | 775,728 | 1 app that logs, the monitor, 1 slot for events, 1 count at a time, 1 held line | lines keep their order, nobody writes to a closed stream, nothing is left behind, what is counted is told, the shown state is true, a good card comes back |
| `sd_card_writer` | 331,849 | 2 producers, records of 2 bytes, buffer and files of 4 | files turn, records are whole and in order (`RecordLog`), a flush means it, every write returns |
| `input` | 313,274 | queue of 1, 2 samples, 1 second of pressing, 1 calibration | one driver of the bus at a time; the button's presses and the finger's edges add up, but for a touch that a calibration forgets; a touch is seen |
| `parts` | 979,679 | nine parts, each for itself (see the cfg) | what is heard, seen, typed, set, shown is what was asked for; the boot's hold is no tap, whichever way the wait for its release ends |

One run checks a statement of the documents that the code does not keep; it is the finding of
`PROJECT.json`:

| run | statement | what happens |
|---|---|---|
| `scheduler_move` | a move writes the destination first and loses nothing (`docs/app_scheduler.md:50`) | the other task's save of the source scope comes before it; a restart then loses the schedule |

### The bounds, and why they are enough

- *wifi_safety*: the manager tells networks apart only as the candidate at hand and the ones left, so
  two make every case of "the next one" and "no more"; two attempts and two scans make "again" and
  "the last". A queue of two fills, which drops station events, and holds a request behind an event.
  `Backlog = 0` leaves no driver event of an earlier attempt waiting in the event task at a new start.
  One user is enough because a user is only ever a member of a set. Networks are symmetric.
- *radio*: three requests of two clients give a request that is over, one that is served and one that
  waits. The control queue has as many places as there are requests, so that no cancellation is lost;
  what a lost one does is in [Observations](#observations).
- *time_sync*: three requests allow one during the attempt of another and one during the wait after
  it. `MaxRequests` bounds the generation; the requests beyond it are dropped, as the window drops them.
- *profile_store*: three networks for two entries, so that the store is full and one must go. The
  success counter stops at 5; in the code it has 32 bits.
- *scheduler*: one entry for two schedules makes the pool full and lets a load overflow; one alarm
  in the FEATURE scope of an earlier firmware makes the move. Two days make the same second come
  again with another stamp, two seconds make an instant pass and a window open and close. The clock
  may be set to any moment, so that more moments would only repeat these.
- *system_apps*: `MaxErrors = 2` has a first error and the last; `MaxChain = 4` is the code's
  (`APP_SHELL_MAX_SWITCH_CHAIN`) limit for a chain of switches; no free attempt and one guess make the
  wait and the exhausted PIN come at once. Kconfig allows `MaxErrors` from 1: the same instance with 1,
  and `ErrorBudget` as an invariant, has 1,019,466 states and no error.
- *sd_card*: one logger against the monitor (which logs too) gives two tasks in the log; one held
  line makes the hold full, one event slot makes a repeat and a new line compete, and one count at a
  time makes every flush take more than one critical section. With two slots the safety properties
  hold as well (2,410,716 states). The code has eight slots and takes four counts at a time; the proofs
  hold for every number of either.
- *sd_card_writer*: records of two bytes, sectors of two and a file that begins at an odd place make
  pieces end inside a record; a buffer of two records fills; one rotation slot is taken or free. Three
  records make a next file and a waiting producer.
- *input*: a queue of one is always full or empty; one second of a long press and one stage are the
  first and the last. Its proofs need no bound. What a longer queue could do to the order of edges is
  theirs; that a queue which refuses the newest event breaks `EdgesAddUp` was seen as well.
- *parts*: each part has queues of one or two, so that they fill, and two of whatever it tells apart;
  `StablePolls = 5` is the code's number, `Lag = 2` the most for which the boot's promise holds, and two
  touches are the one that is held and a later one. With the product's numbers the list of changed places
  (`MAX_DIRTY_RECTS`, two for each widget) is never full; the run's is, so that the way out is tried. The
  sessions of the keyboard are a password, a URL with a prefix, and two with groups of different
  lengths, one of them behind a prefix that ends with the separator; each has room for two to six
  characters, so that the last one that fits and a separator that does not are reached.

### Fairness

Liveness is claimed only under what the tasks' priorities and timeouts give.

- `WifiConnection`: the manager (8) preempts its callers, so its steps are weakly fair; a timeout of
  an attempt or a delay is strongly fair, because each wait is entered anew after an event and its
  deadline is kept; the event task (20) handles what it has. `[]<>Blocks` says that the callers,
  which all have lower priority, do not fill the queue as fast as the manager empties it: they
  only run when it blocks.
- `RadioManager`: the manager (7) runs when it can; a client's deadline passes; Wi-Fi resolves every
  attempt, which `wifi_liveness` shows. `ManagerRests` assumes that Wi-Fi does not change for ever
  (`WifiSettles`) and that a lease without a limit is given back (`LeasesEnd`).
- `TimeSync`: both tasks run, acquire and SNTP are bounded by their timeouts. Nothing relies on
  `IdleElapsed`, the hours between two syncs.
- `SdCardStatus`: every task gets on with what it does and the monitor keeps looking. Nothing is asked
  of the repeats' timer. `GoodCardComesBack` assumes that lines are not logged for ever faster than they
  are written (`ReleasesEnd`), nor repeats counted for ever faster than `stop()` tells them
  (`FlushesEnd`): both would keep the monitor in one call.
- `SdCardWriter`: producers and writer run; the sync is strongly fair, since after enough ticks the
  flush interval has passed. No wait need time out for `EveryWriteReturns`.
- `CydInput`: the input task and the wait for a double click; a calibration goes on after its last point.
- `AppScheduler`, `SystemApps`, `WifiProfileStore` and the parts: safety only.

Deadlock is checked where the system never stops. `CHECK_DEADLOCK FALSE` stands in the configurations
of the radio and the time sync, whose bounded requests are used up, of the card writer, whose stream
is closed, and of the parts, where the speaker has played its commands and the boot is done.

## What is proved

TLAPS checks, for every value of the constants that the named assumptions allow, the theorems below.
Those marked `=` state a property that a run checks; the run shows it on its instance.
Every safety property of the runs that pass, step properties and refinements included, is one of them.

| module | theorems |
|---|---|
| `WifiConnection_proofs` | `StateStaysBacked` = `StateIsBacked`, `EveryRequestIsAnsweredOnce` = `OneAnswerPerRequest`, `ManagerImplementsService` = `ImplementsService`; also `TypeCorrect`, `UsersAreServed`, `NoStrandedState`, `TestsBelongToSetup`, `OffIsSilent`, `ResultAgrees`, `AcquireIsFresh` |
| `RadioManager_proofs` | `LeasesAreReal` = `LeaseIsReal`, `EveryGrantEnds` = `GrantHasAnEnd`; also `TypeCorrect`, `HolderIsOwner`, `WifiStaysBehindLease` |
| `SystemApps_proofs` | `TheLockHolds` = `LockHolds`, `GuessesAreNeverGivenBack` = `GuessesOutliveRestart`, `SteplessAlwaysLeaves` = `SteplessNeverRests`; also `TypeCorrect`, `ReturnsOutside`, `BudgetIsKept` |
| `SdCardStatus_proofs` | `LinesKeepTheirOrder` = `NeverOvertakes`, `NobodyWritesToTheClosed` = `WritesToLiveStream`, `TheHoldIsLookedAt` = `NothingLeftBehind`, `CountsAlwaysTold` = `CountsAreTold`, `WhatIsShownIsTrue` = `StateIsTrue`; also `TypeCorrect` |
| `SdCardWriter_proofs` | `RecordsAreLogged` = `ImplementsRecordLog`, `FilesAlwaysTurn` = `FilesTurn`, `FlushesMeanOnCard` = `FlushMeansOnCard`; also `TypeCorrect`, `RotationsTakeEffect` |
| `CydInput_proofs` | `BusIsExclusive` = `TouchBusIsExclusive`, `EdgesAlwaysAddUp` = `EdgesAddUp`; also `TypeCorrect` and its conjuncts `PressesAreReportedOnce`, `TouchesAreToldInTurn`, `NewestEdgeSurvives` |
| `Services_proofs` | `NothingIsSleptOver` = `SleepsOverNothing`, `BlobStaysConsistent` = `BlobConsistent`, `CurrentWritesAreAtomic` = `ImplementsSavedProfiles`, `BlobsAgree` = `BlobAgrees`, `OneShotsGoOffOnce` = `OneShotGoesOffOnce`; also `SyncTypeCorrect`, `StoreTypeCorrect`, `TypeCorrect` |
| `Parts_proofs` | `TheHoldIsNoTap` = `HoldIsNoTap`, `WhatTheClockShowsIsTrue` = `ShownIsTrue`, `SetupChoosesTheShown` = `SetupActsOnTheShown`, `ThePanelShowsTheNewest` = `PanelShowsNewest`, `TheOutputsFollow` = `OutputsFollow`, `TheSettingsKeepTheirWord` = `SettingsKeepTheirWord`, `TheTextIsKept` = `TextIsKept`, `TheirTypesAreCorrect` = `PartsTypeOK`; also their conjuncts `TheNewestIsServed`, `TheLedShowsTheResult`, `SettingsAreSaved`, `TheShownIsDeleted` |

None of the invariants is inductive as a run checks it. What each proof adds, and why:

**The Wi-Fi manager.** Whether CONNECTING has an attempt behind it depends on where the manager is,
what it was about to do, and what the driver still holds. `IInv` adds, beside the types: `BootShape`
(before the first step nothing is running), `ProcShape` (which procedure each place has, with which
network and how many attempts left), `LimitShape` (the counts stay below the limits), `DriverShape` (a
driver that is stopped has no link and no request), `StateShape`. The refinement maps the manager to
its published `state` and `users` (the same variables), and every step to the step of the service that
has its effect, or to none: most of the work is the end of an attempt, which resolves it, goes on to
the next candidate, or is interrupted without changing what is published. `OneAnswerPerRequest` counts
the requests of each caller in four places (the queue, the hand, the deferred one, the test);
`Account` says that a waiting caller has one, and `DeferShape` what may be deferred at all. It turns on
who can interrupt what: a request that would interrupt the test of setup cannot arrive, because only
the app's task sends such requests and it waits for the test.

**The radio.** A request id is in one place only: a queue, the manager, a reply slot, an owner or a late
message (`ServiceShape`, `ManagerShape`, `WifiShape`, `GivenOut`, `ClientShape`, `LeaseShape`). That the
lease always has an end (`EndInv`: every request that is in the manager's hands is waited for, or the
message that it is not is on its way) holds for behaviours in which no cancellation finds the control
queue full: the theorem's hypothesis is `[][NoCancelIsLost]_vars`, the same that the run's queue of
three gives, and without it the property fails (see [Observations](#observations)).

**The scheduler.** `EntriesSound`: each entry has its type, its state agrees with its setting, and a
one-shot instant that is stopped is disabled. `TasksAgree`: one task holds the mutex, and a task that
owes a save is not in another one. `SavesAgree`: of every scope a snapshot is still to be taken, or one
is taken and equals the entries, or none is under way and the blob equals them or is stale. A step that
changes an entry makes its scope owed in the same step; `NothingForgotten` says once that this keeps
`SavesAgree`. `RungOver`: a one-shot that went off is disabled, or on the way to being disabled.

**The shell and the PIN.** The lock is not inductive alone: who is in the settings without the PIN must
be on the way out, and what is asked for next, by whom and as if from where, decides whether the guard
will stop it. `ShellShape` and `SwitchShape` say what may be asked for at each place, `ClockShape` which
screens are on which side, `LockShape` who may be behind the lock, `CorruptShape` what a PIN that cannot
be read leaves open (erasing everything, nothing else), `NewPinShape` that a screen asking for a new PIN
which was not earned has been left, `GuessShape` that flash is ahead of RAM in counting. `ErrorBudget`
holds for every limit from 1 on because a failure that reaches the limit asks for home and starts
counting anew. The exception is the first app of a boot: `app_shell_task()` counts its failed enter and
gives nothing up, so the PIN screen in front of home gets its first step whatever the limit
(`ShellShape`, the first round).

**The error log and its monitor.** `TaskShape`, `OneReleaser` and `OpenShape` are the log's: one task
releases the hold, an open log holds nothing. `StreamShape`, `Silent` and `MonitorShape` are the
monitor's: what is mounted and logging at each of its places, and that a log which is not started has
nobody in it. Neither side holds without the other, since `stop()` closes the log under the tasks.
`CountsAreTold` has an invariant of its own (`CountInv`): a section that takes counts, and an event that
is only counted, leave their task on its way to the timer (`TakesKeepsCounts`, `LogsKeepCounts`), a task
keeps that way through the lines it logs meanwhile (`WayKeepsCounts`), and the timer is ended only by its
own callback, which flushes next (`FlushKeepsCounts`). Slots and counts taken at a time are any numbers
from 1 on.

**The card writer.** `Balance` is the centre: the bytes that producers have counted are those the writer
has drained, those buffered, and the record in the hand of the one that holds the mutex. `WriterShape`
keeps a piece short of the next rotation point, `TurnShape` puts every byte that is too late for the
open file behind a point. `SizeInv` adds, for the limit of size, that the points are sorted and that
what stands together in one file, written or not, is within the limit or was allowed past it.
That the stream implements `RecordLog` takes `RecordInv`: the records on the card are the first ones
(`CountShape`, and every accepted one is there, in the buffer, or in a producer's hand, once), the
buffer's are numbered on from there (`NumberShape`), the buffer ends with a record (`EndShape`), and
every rotation point is between two (`BetweenRecords`), so a file that is let go of ends with a record
too. A record is whole in a file with its last byte; the i-th record of a file is the last byte with i
of them up to it, which is one place because distinct places have distinct counts (`PlaceHasEnd`, from
the library's theorem on injections), and what is whole in two parts in a row is what is whole in each
(`WholeInBoth`). Accounting for a record is the log's `Accept`, opening a file its `NewFile`, a piece
its `Write` of as many records as end in the piece, a failure its `Fail`; the other steps are stutters.

**Input.** `ParkedForTheCalibrator`: an answered request finds the task away from the bus as long as it
stands, whatever notifications are left over. `BootShape`: no click waits during a long press. The
counting of events in the queue (`Among`) has its own lemmas about appending, giving up the oldest, and
discarding. `EdgesAddUp` is three facts: `ClicksAddUp` of the button; `TouchesAddUp`, that the PRESSes
told less the RELEASEs told are the touch in hand and the touches forgotten by `ResetTouch`, which a
calibration calls (`FingerAddsUp`); and `NewestEdgeIsKept` of the queue.

**The time service.** Every fact that the task has checked on its way to sleep still holds, or somebody
is about to notify it (`Disturbed`): `NoRequest`, `NoFlag`, `NewPlan`, `StateIsSet`, one per check.

**The profile store.** Every copy that a task holds was once the blob (`CopiesShape`), so writing an old
one back loses an update but breaks nothing. That an operation on a current copy implements
`SavedProfiles` needs the meaning of a place as a count: a network's place is the number of entries no
older than its own (`PlaceOfEntry`), the newer of two has the smaller one (`PlacesAreOrdered`), and to
number or to empty an entry changes each count by one or not at all (`NumberedIsNewest`,
`EmptiedIsWithout`), with the library's facts about cardinality. `First` and `Oldest` choose a smallest
number; that one exists in every nonempty set is `Smallest`, from the library's theorem that finite sets
are well founded by inclusion.

**The start-up.** While the boot waits for the release, the polls it has counted as released are bounded
by what the input task is behind (`HeldThrough`); when they were enough, the queue and what is on its way
hold later touches only (`Released`). This needs `2 * Lag < StablePolls`, which `BootAssumption` states:
with the code's five polls of 10 ms the input task may be two polls behind. When the 10 s are over first,
the finger may be down, or lifted so shortly before that its RELEASE is still to come; but the wait is
older than the input task can be behind, so the PRESS was queued long ago and a poll dropped it
(`PressSoon`). `HoldIsNoTap` promises then that no PRESS of the hold comes (`PressIsPast`), without which
no app takes a RELEASE for a tap. A calibration that breaks off under the finger is the exception, in the
code and in the property: it resets the touch state, and the input task begins again with a PRESS.

**The clock's screens** (`ClockInv`): what is on the glass is the face as it is, or a redraw is owed.
**Wi-Fi setup** (`SetupInv`): the screen is the page of the records that `scan` holds (`ListIsShown`; the
arithmetic of pages is in `PageBegins`, `PageShows`, `PageIsWithin`), and only in a wait are touches
ignored. **The speaker** (`SpeakerInv`): commands wait in order, the sound put back keeps its place in
it, and whenever two or more wait, or one waits behind the sound in the task's hand, the last is the
newest (`NewestBehind`); `SpeakerAssumption` asks for a queue of two or more because with one place the
sound put back would keep out a stop (the code's queue has eight). **The LED** (`LedInv`): the newest
base in the queue, or else the one the task has, is the result that was reported last, and the pins
agree with the colour that the task believes to have written.

**The panel** (`DisplayInv`): the handles of the queue set announce at least as many entries as each
queue holds, so a queue is empty when the display task finds nothing to do; the last entry of the
overlay's queue is what was asked for last, and an empty queue means that the task has it. Outside the
strips marked dirty the panel already shows the screen that the task has, so drawing the dirty ones is
enough (`DirtyIsEnough`), which rests on which strips a widget's picture depends on.

**The keyboard** (`TextInv`): the value fits together with its separators (`Fits`), and so does the one
that the schemes of a URL come back to. The code counts separators twice, once to know whether another
character fits and once to write them: `LengthsAgree` says that the second writes as many as the first
counts. The capacity is the largest count that fits (`Largest`), which leaves room for one more as long
as it is not reached (`RoomForOne`), and a shorter value has no more separators (`SeparatorsGrow`).
Characters keep their order because each stands one place or more behind the one before it
(`PlacesInOrder`), and what is between two places is a separator (`GroupedForm`).

**One setting** (`StoredInv`): whatever flash holds reads back as a usable value, since what is not one
is replaced by the default, and a value that can be saved is one that a stepper can hold (`StepperSteps`).
A setting is loaded by whoever asks first; a second loader that read flash before the first one was done
settles only the value that it read then, and nobody can have changed the setting in between.
**The settings' screens** (`ScreensInv`): the list that a touch is looked up in is the one the visible
page was built from, so what is deleted, after any turn of pages and any confirmation, is what stands on
the screen.

The theorems about one part are stated over its own initial states and steps
(`BootInit /\ [][BootNext]_bootVars => []HoldIsNoTap`). The run `parts` runs all nine side by side; that
a behaviour of `MCParts` is one of each part is `EachPartRuns`, and `TheOutputsFollow` and
`TheSettingsKeepTheirWord`, which speak of two parts each, are stated over that `Spec`, and so is
`TheirTypesAreCorrect`. Its types are part of the invariants above, except for what no other property
needs: the lengths of two queues and of a page (`QueueFits`, `LedTypes`, `SetupTypes`) and the clock's
times (`ClockTypes`), each with an induction of its own.

Assumptions on constants are named in the modules that declare them (`NetworkAssumption`,
`StoreAssumption`, `WriterAssumption`, `BootAssumption`, `DisplayAssumption`, `ScreensAssumption`,
`StoredAssumption`, ...), and TLC evaluates each in some run. One is about callers that the code does not
check: `TextAssumption` asks that the text a grouped session begins with leaves room for its separators,
and that no URL is grouped (`begin_session` cuts the text to `max_len` without them, and the schemes know
of no groups).

## What is only model-checked

- Liveness, under fairness: `EveryCallReturns`, `LostLinkIsNoticed`, `UnusedGoesOff`, `ManagerRests`,
  `RequestIsAnswered`, `TimeIsDecided`, `GoodCardComesBack`, `EveryWriteReturns`, `TouchIsSeen`.
- What a recursive definition computes for every input: how many groups a number of characters fills
  (`Boundary`) enters the proofs of the keyboard only through the set of boundaries.

- What no property catches, although a hazard of `PROJECT.json` names it: a cancellation lost in a small
  control queue of the radio and a profile update lost between two tasks (each shown by a configuration
  or a statement of [Observations](#observations)), and a schedule's STARTED that comes after its stop.
  `TimeIsDecided` asks for one outcome of the first attempt; a single "paused" is one, for good.

## What is not modelled, and why

- The components marked `not_modelled` in `PROJECT.json`: `app_registry` (a table filled before any task
  reads it), `wifi_rssi_history` (one task's ring of samples; a torn frame is accepted by its header),
  `xpt2046_softspi` (bit-banged I/O), the simulator and the host tests. The generated fonts are data.
- Of modelled components: passwords, texts, formats, the layout of blobs, file names and the rotation by
  date, drop reports and statistics of the card writer, the boot counter, the launcher (which this
  product does not use as its home), the repeats of the alarm's sound, `cyd_ui`, which builds a screen
  from its arguments.

## Observations

Met while modelling; they are behaviour of the code that no proved property covers. Three have a
configuration that shows them; three more need one line of a configuration changed.

| statement | where it comes from | to see it | what happens |
|---|---|---|---|
| `CompletedOnlyWhileUp` | `wifi_connection.h:126-127` | `MCWifiConnectionCompleteSetup.cfg` | `complete_setup` publishes CONNECTED on the caller's word (`wifi_connection_manager.c:581`); the tested link may be gone until the next poll |
| `GrantHasAnEnd`, small control queue | `radio_manager.c:92-98` | `MCRadioManagerLostCancel.cfg` | the control queue is read during a lease only, fills with stale cancellations, and a cancellation sent without waiting (`:579`) is lost; the lease then lasts until its hold limit, where it has one |
| `ClickIsDecided` | `docs/cyd_input.md:143` | as a property in `MCCydInput.cfg` | while the guard samples the panel the wait of a BOOT click does not end (`cyd_input.c:1180`) |
| `RemovedStaysRemoved` | `docs/cyd_system_apps.md:156` | as an invariant in `MCWifiProfileStore.cfg` | another task's write, from an older copy, stores a removed profile again (`wifi_profile_store.c:260`) |
| `NoStartAfterStop` | `docs/app_scheduler.md:324,351` | in `MCAppSchedulerMove.cfg` for `MovedIsNeverLost` | a STARTED made under the lock is handed over after the stop (`app_scheduler.c:596`) |
| `PrefixIsSaved` | `docs/cyd_text_input.md:60` | `MCPartsPrefix.cfg` | of the documented prefix `A-` the separator at its end is dropped when nothing was typed behind it: `A` is saved (`cyd_text_input.c:352-354`) |
| `InvalidateHolds` | `docs/cyd_display.md:419` | stated in `CydDisplay` | an invalidation that races the applying of a screen is lost (`cyd_display.cpp:1006-1011`, `481-500`) |

Without a property of their own:

- *Shell and PIN.* The first app of a boot that fails to enter keeps its place for one step even when
  `CONFIG_APP_SHELL_MAX_CONSECUTIVE_ERRORS` is 1 (`app_shell.c:394-403`). A touch calibration that
  outlasts the idle time returns to the settings through the PIN, with the calibration as its origin;
  Cancel then goes to the calibration, which has no flow and returns to the PIN, and the two alternate
  until another switch is asked for in that step (`settings_pin_app.c:461-512`,
  `system_touch_calibration_app.c:20-30`). With chains of four no round finds the step-less app active.
  A cancelled new PIN with the idle time over makes the PIN screen its own origin. An idle return from
  the recovery with the settings as home makes the recovery the app to return to. Saving before a
  restart stops at the first failure.
- *Start-up.* After the 10 s wait the first app may get the RELEASE of the hold, and the REPEATs of a
  finger that stays, which act on a stepper without a PRESS (`system_settings_app.c:251-252`). A boot
  calibration that is broken off under the finger is followed by a PRESS of the same touch.
- *Error log.* Lines dropped while the hold is released are reported only at the next release. A flood of
  lines during `start()` keeps the monitor in it. `start()` returns OK when another task's release fails
  to open afterwards. After `stop()` a task about to publish may still hold a stream that nobody knows
  of; it closes it itself. A card that was full when it was mounted stays so until it is taken out.
- *Card writer.* A picked file may exceed the limit by what was queued before it was opened. `rotate()`
  that is refused for lack of a slot has its effect all the same. The bytes of the piece that failed are
  counted neither as written nor as dropped.
- *Input.* A resume right before the next pause can make that one wait its full second. A calibration
  begun while the panel is pressed leaves a PRESS without RELEASE; when the finger outlasts it, the next
  event is a second PRESS (`TouchesAddUp` counts those touches apart). The stages of a very long hold are cut
  to 8 and 16 bits.
- *Wi-Fi.* A failed end of setup leaves the app's flag and the manager apart (`cyd_wifi_setup.c:490`). A
  profile removed while its connection is under way is saved again by its success. A touch made just
  before a page turn is drawn acts on the new page.
- *Radio and time.* Wi-Fi kept for the radio may have failed. A rejected request may name the wrong
  reason. An interval change ends a retry's wait.
- *Scheduler.* A stopped one-shot whose second is over is disabled in RAM without a write
  (`app_scheduler.c:554-561`). A full pool on load keeps what fits. A second that the tick queue skips is
  not looked at. An edit that was read before its alarm went off enables it again.
- *Clock.* `ESP_RETURN_ON_ERROR` in a function that returns a flag turns an error into "redraw". An idle
  timeout on the failed screen flips back to it. The failed and retry screens do not see a sync that
  succeeded meanwhile. An alarm page stays as it was after a save that failed, although RAM has changed.
- *Speaker and LED.* A note without a tone does not last (`docs/cyd_speaker.md` says it is silent for its
  duration), and queued sounds cut each other. A volume change that races the end of a tone leaves it
  until the next sound. `set_rgb` leaves the current colour stale; a base that times out is missing until
  the result changes.
- *Text and settings.* A "-" that was typed at the end of a grouped text is dropped on saving like a
  separator (`cyd_text_input.c:352-354`). A URL scheme replaces the whole value, a fixed prefix
  included. Steps off the grid of an interval (118, 148, 88) are not undone by the opposite step. The
  first setting that cannot be saved keeps the later ones from being saved. A lost RELEASE with a press
  on a stepper can confirm an older button.
- *Display.* Queues read outside the queue set leave stale handles in it; a log line can be drawn after a
  later screen; the calibration draws beside the display task.

## The plan

1. `TimeSync` over `RadioManager`: that the radio's answers are those the module assumes.

The runs near their limits (`wifi_safety`, `sd_card`, `input`, `scheduler`) keep their bounds.
