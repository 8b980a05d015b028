# Verification of the Meizu PRO 5 (m86) device tree

The repository is an Android device tree. Most of it is configuration; its own
program logic is a set of small hardware abstraction layers (HALs) and helpers,
each a process or a library with threads, kernel nodes and files. This
directory holds TLA+ models of those parts, TLC runs on small instances, and
TLAPS proofs for every instance.

## 1. Inventory

| Part | State it keeps | Operations | Interacts with | What is hard |
|---|---|---|---|---|
| **Fingerprint HAL** `fingerprint/FingerprintHAL.c` | per device: worker handle and flags, cancel flag, challenge, hardware token, active group and directory, gallery of templates, authenticator id, user id; on disk: `.db` templates and one metadata file per group | `enroll`, `authenticate`, `cancel`, `enumerate`, `remove`, `set_active_group`, `pre_enroll`, `post_enroll`, `open`, `close`; worker threads for the first two | framework (calls, callback), libfprint (external), disk, `/dev/urandom` | threads that hand over their own handle, unlocked reads, cancel racing a result, deadline of an enrolment, crash between template, gallery and id |
| **Fingerprint adapter** `fingerprint/FingerprintCompat.c` | wrapped vendor device, callback, cancel-notified flag | the same interface, forwarded | vendor HAL (binary, external), framework | a synthesized CANCELED against the vendor's own |
| **Power HAL** `power/Power.cpp` | modes, boost deadlines, held PM QoS descriptors, remembered node values, readiness of the floor; kernel nodes | `setMode`, `setBoost`, worker, constructor, destructor | system server, kernel nodes, init | timed waits, failing writes, partial floors, restart |
| **Legacy power HAL** `power/PowerHAL.c` (not built by the current product) | low-power flag | `init`, `setInteractive`, `powerHint` | kernel nodes | flag read under the lock, used after it |
| **gpsd sensor client** `gps/vendor/GpsVendor.cpp` | manager proxy, sensor list, event queue, eventfd | `getSensorList`, `getDefaultSensor`, `createEventQueue`, `enableSensor`, `disableSensor`, `read`, `onEvent` | sensor service over binder (external), gpsd (binary, external) | binder thread against gpsd's thread, overflow, eventfd as condition, destruction under a callback |
| **Sensors HAL** `sensors/hal/Sensors.cpp`, `TimestampNormalizer.h` | wrapped device; samples of two clocks before and after a poll | `poll`, forwarded calls | vendor HAL, two clocks | filter of time stamps around a step of the clock |
| **mBack keys** `parts/M86Parts/.../mback` | settings, whether the mechanical key is down, time of its last release | gesture to action, debounce, migration of the settings | two input devices, settings provider, settings screen | a tap that belongs to a press; migrations of two processes at once |
| **Lights** `lights/lights.c` | last battery, notification, attention states | one setter per light | kernel LED nodes | notification over attention over battery |
| **USB serial** `usb/m86_usb_serial.cpp` | serial, whether the gadget was enabled | find the serial, disable, write, enable, announce | android_usb nodes, init switching compositions | one step of several failing; init in between |
| **Incremental installer** `tools/make-system-lib-incremental-v5.sh` | files on the system partition | verify, stage, move | recovery | interruption |
| **NFC discovery filter** `independent/patches/0001-…patch` | – | rewrites a discovery command in place | NFC HAL (another repository) | lengths that must agree |
| **Radio 1.4 bridge** `independent/patches/0002-…patch` | callbacks per client version, roaming flag | new requests onto old ones, answers back | libril (another repository), modem library | equal serials on two slots, stale roaming flag |
| Settings screens, gpsd linker shim, audio, gatekeeper and camera services, path redirection, build tools, configuration | – | forwarding, data | – | – |

The components and the reasons for those left out are listed in
`PROJECT.json` under `components`; the places where the code is hard to test
are listed there under `hazards`, with the properties that cover them.

What makes each of the modelled parts correct:

* *Fingerprint HAL*: at most one thread uses the sensor and every thread is
  joined exactly once; a request ends with an answer, and the answer belongs to
  the request; the unlocked reads of the workers are stable; the authenticator
  id describes the enrolled set, also after a restart or a change of group;
  calls return.
* *Metadata file*: a save is atomic, whatever fails or crashes.
* *Power HAL*: floors are all or nothing; no boost in a mode that forbids it;
  the worker oversleeps nothing; the remembered node values are right; nodes
  follow the modes; boosts end.
* *gpsd sensor client*: the eventfd tells the truth; the queue holds the newest
  samples in order; no thread touches a destroyed queue; pointers handed out
  stay valid; samples leave.
* *Fingerprint adapter*: one CANCELED per cancel, from whichever side; complete
  enumerations; callbacks in the slots the framework calls.
* *Sensors HAL*: delivered events bear the time of their capture as far as two
  clock samples can tell; only events that cannot be placed are dropped; `poll`
  comes back.
* *mBack*: a press is not taken for a tap; a migration loses no setting.
* *Lights, legacy power, USB serial, installer*: see the comment on the one
  property of each.

## 2. Modules

| Module | Models | Extends / instantiates |
|---|---|---|
| `FingerprintHAL` | FingerprintHAL.c, the device and its threads | standard modules |
| `FingerprintMetadata` | `save_metadata_locked` / `load_metadata_locked` call by call | `AtomicMetadata` (refinement mapping) |
| `AtomicMetadata` | abstract: a register that changes in one step and may lose unsynced history at power loss | – |
| `PowerHal` | Power.cpp, the AIDL power service | – |
| `GpsVendor` | GpsVendor.cpp | – |
| `FingerprintCompat` | FingerprintCompat.c | – |
| `SensorsHAL` | `poll` of Sensors.cpp, TimestampNormalizer.h | – |
| `Lights`, `LegacyPower`, `UsbSerial`, `IncrementalInstaller` | lights.c; PowerHAL.c; m86_usb_serial.cpp with init.m86.usb.rc; the installer generated by make-system-lib-incremental-v5.sh | – |
| `MbackKeys`, `MbackMigration` | KeyHandler and MbackKeyPolicy; MbackContract and the settings screen's writes | – |
| `MCFingerprintHAL`, `MCPowerHal`, `MCGpsVendor`, `MCSensorsHAL` | instances for TLC | the modules above |
| `MCSmallHals`, `MCMback` | instances of several independent modules in one run: the variable `unit` picks the one that moves | the modules above |
| `FingerprintHALProofs`, `FingerprintMetadataProofs`, `PowerProofs`, `GpsVendorProofs`, `SensorsProofs`, `FingerprintCompatProofs` | theorems | the module in their name, `TLAPS` |
| `FingerprintResultProofs` | theorems about results, slots and storage of the fingerprint HAL | `FingerprintHALProofs` |
| `SmallComponentProofs` | theorems about `Lights`, `LegacyPower`, `UsbSerial`, `IncrementalInstaller`, `MbackKeys`, `MbackMigration`, one section each; the sections share nothing | those modules, `TLAPS` |

`PROJECT.json` maps every definition to its lines of source.

### FingerprintHAL

Variables carry the names of the fields of `m86_fingerprint_device_t`. A step is
a section between `pthread_mutex_lock` and `unlock`, the return of a
`pthread_join`, a call to libfprint, or the delivery of a callback; a client
thread has a program counter for what it does between those. What is abstracted:

* a directory is named by its group id; a template is its finger id, 1 to
  `MaxTemplates`. Ids above that, which another program could put into the
  directory, are left out;
* a random id is a fresh one: `/dev/urandom` repeating a 64-bit id is ignored.
  The ghost `drawn_for` remembers which templates an id was drawn for, and the
  ghost `told` of a worker whether a notice that ends its request went out. The
  ghost `setback` marks an enrolment whose wall clock was set back between the
  two places where it is asked;
* `save_metadata` is one step here. `FingerprintMetadata` justifies that;
* libfprint (`lib_path`, the results of a scan, its save and load) is external:
  any result the code distinguishes may come;
* framework: it registers its callback first and calls nothing after `close`.

`Faults` names what may fail in an instance: `random`, `disk`, `load`, `create`
(`pthread_create`), `sensor`, `path` (an overlong path), `crash`, `clock` (the
wall clock is set back while an enrolment runs).

Facts about the code that the model shows and that no statement in the
repository forbids, so they are not findings:

* after a `set_active_group` that failed with `-ENAMETOOLONG` the old group's
  gallery stays active with an empty directory; a later `remove` cannot save the
  rotated id;
* a crash between the template file and the rotation of the id, or a failing
  `/dev/urandom`, leaves the previous id, or 0, next to a changed set;
* the deadline of an enrolment is compared with `time(NULL)` at line 334, to leave
  the loop, and again at line 410, to report `TIMEOUT`. When the wall clock is set
  back in between, the enrolment ends with no message at all. `NoSilentEnd` grants
  exactly this case (`setback`);
* `close` stops a running operation and reports nothing (line 577), unlike
  `cancel`;
* an `HW_UNAVAILABLE` may be followed by a `TIMEOUT` of the same enrolment;
* a second concurrent `cancel` finds no handle to join and returns at once;
  a `CANCELED` may arrive after another client started its own operation.

### FingerprintMetadata

`Open`, `Write`, `Fsync`, `Close`, `Rename` are the system calls, each of which
may fail; the process may die and the power may go between any two. A file that
was written and not synced becomes `Torn` at power loss. The containing
directory is not synced after the rename, so power loss may bring back an
earlier complete value: the register of `AtomicMetadata` has a `durable` value for
exactly that. The property `Atomic` is the refinement.

### PowerHal

Every call holds `mLock` from start to end, so a call, and a round of the worker,
is one action. Time is a count of ticks left to each deadline (0: passed or
unset); `Tick` takes one from each and from the worker's timed wait, and the
worker may come late. `broken` is the set of nodes whose writes fail; the environment breaks
nodes at most `MaxBreaks` times and heals them at will. The CPU floor follows the
code's loop: `AcquireFloor` is one round of it, for one cluster, with its
`continue`, the `open` and the `write` that may each be refused, and the `break`;
`RollBack` is what follows the loop. `cpu_floor_fds` is what the HAL holds and
`qos` counts the requests the kernel has, so that a descriptor that was opened and
forgotten would show. The service may be killed (descriptors are closed by the
kernel, so floors are released; the top-app boost remains in its node until init's
`onrestart` writes 0, which a broken node refuses too). Configuration files are
absent, valid or refused by the code's check. Points of the code kept as
they are: a LAUNCH mode request applies twice; a failed write of GPU limits or
profile is not retried by the worker; an unsupported boost does nothing.

### GpsVendor

Calls of `SensorManager` are one action each. The queue's critical sections are
split at the eventfd operation. Deliveries of `onEvent` are serialised (binder
delivers oneway calls of one proxy in order; external). gpsd keeps one queue at a
time. The service may still send after `disableSensor`. Samples are numbered so
that order and loss are visible. `read` with a null buffer or count 0 changes
nothing and is left out. When the service dies `mManager` keeps the dead proxy,
as in the code: no later call connects again.

### FingerprintCompat

The service makes one call at a time; the vendor's worker is the second thread
and enters through `fingerprint_compat_notify`. A step is a locked section, a
call into the vendor or a delivery. That `flyme_cancel` returns after its worker
ended, and only if it succeeds, is the assumption the code states at line 143
(external). The ghost `canceled` counts CANCELED since the call began.

### SensorsHAL

An event carries two ghosts, the time it was really captured and the number of
the wall clock's setting it was stamped under; the code sees the stamp alone.
`SetClock` may come between any two steps. `Sample` is `sampleClocks` with an
error of half a bracket; one unit of time is that half. The events of a batch are
a set; the pass over a batch touches nothing shared and is one step with the
second sample. A second `poll` ends the process (`PollReentered`).

`DeliveredTimesRight` says what the filter can promise. What it cannot is the
finding of this project (run `sensors_step`): an event that was queued in the
library *before* the wall clock was set, and fetched by a `poll` that took its
first sample *afterwards*, meets two samples that agree, and is delivered with
a time that is off by the whole step. `sensors/hal/README.md` line 19 says that
the filter "deliberately loses ambiguous samples rather than reporting a
fabricated capture time".

### Small components

* `Lights`: every setter runs under `g_lock` and is one step; a write may fail,
  and then the old value stays until the next call.
* `LegacyPower`: an interaction hint reads `low_power` under the lock and pulses
  after it; the property bounds what may be late: two pulses for each hint that
  was under way.
* `UsbSerial`: each node access is one step, and so are the `enable 0` and
  `enable 1` of init. Observed: when init enables the gadget between the
  helper's look at `enable` and its write of `iSerial`, or `enable` cannot be
  read, the host keeps seeing the old serial although readiness is announced
  (`overtaken` in `IdentityPublished`); a helper that dies between disable and
  enable leaves the gadget off until the next composition.
* `IncrementalInstaller`: validation is one step (nobody else writes), each
  staging and each move one. Observed: a temporary whose copy or label failed is
  not in `staged_list` and stays on the system; without `sha256sum` in the
  recovery neither base nor payload is checked.

### mBack

`MbackKeys` has the queues of the two input devices, drained in any order by the
input thread, and the posts to the main looper. Repeats are treated like
cancelled events: both do nothing. `handleKeyEvent` asks for the event's device
twice, to recognise the gesture and to judge it; the device may be gone at either
(`looks` in `HandleGesture`). Observed, and allowed by the code: a tap handled
before the press that it belongs to, or with a time before the last release, or
whose device went between the two questions, is carried out. `PressIsNotATap`
therefore speaks of taps that were judged, and in the order of time. It speaks of
the taps of the uinput device only: raw gestures of `fpc1020` are other events,
which the code never suppresses.

`MbackMigration` splits `migrateAction` at its look and its write. Observed: a
choice the user makes between the two is overwritten (`hit`), and a write that
was refused is not repeated once the version is set.

## 3. Runs

| Run | Configuration and why it is enough | Shows |
|---|---|---|
| `fp_threads` | two clients and two workers, one template slot, two samples, two operation ids, failing thread creation, overlong path, wall clock set back. Two clients are what a cancel needs to race with a request; two workers what an old and a new thread need to overlap | `OneSensorUser`, `JoinOwnership`, `NoSilentEnd`, `ResultMatchesRequest`, `EnrollSlotSound`, `GalleryStableWhileScanning` |
| `fp_storage` | one client, two groups, two template slots, close and reopen; thread creation and the sensor may fail, the storage may not | `IdDescribesGallery`, `TokenNamesUser`, `MemoryIsDisk` |
| `fp_faults` | one client, one group, one slot, every fault | `NoTemplatesNoId`, `GalleryOnDisk`, `CanceledMeansIdle` |
| `fp_liveness` | two clients, fair scheduling; every call that waits for a worker or sends reports (`enroll`, `authenticate`, `cancel`, `enumerate`, `remove`, `set_active_group`, `close`), no faults | `CallReturns`, `EnrollEnds` |
| `fp_metadata` | three values; each system call may fail; crash and power loss anywhere | `Atomic` |
| `power_modes` | fair; deadlines of up to 2 ticks, 2 breakdowns, all modes and boosts, request durations negative, zero, short and over the limit, configurations absent, valid, misordered and too long | `TypeOK`, `FloorAllOrNothing`, `NoBoostWhenForbidden`, `NeverOversleeps`, `CacheIsTrue`, `NodesFollowModes`, `BaselineRestored`, `DestructorReturns` |
| `gps_queue` | capacity 3, 8 samples so that the queue overflows after being refilled, reads of fewer, and of more, than it holds | `ReadableIffWaiting`, `RecentInOrder`, `QueueOutlivesUse`, `ListStable`, `SamplesLeave` |
| `fp_compat` | two templates and ids 0 to 2, so that answers are empty, full, too long, with a zero and with a duplicate | `CanceledExactlyOnce`, `EnumerationComplete`, `StandardSlots` |
| `sensors_poll` | fair; a light and an MCU sensor, two events at a time, two steps of the wall clock (one within the tolerance and down to the clock's origin, one far beyond), one fault, an advance past the oldest age | `DeliveredTimesRight`, `DropsJustified`, `PollComesBack` |
| `sensors_step` | the same with one step; expected to be violated | `CaptureTimeKept` |
| `small_hals` | five light states from dark to a blink without an end; two hinting threads; serials at and just outside both limits, two switches of composition; two payload rows and one verified row, three runs | `IndicatorTellsMostUrgent`, `LowPowerSaves`, `SerialInstalled`, `InstallRepeatable` |
| `mback` | two presses in four units of time with a cooldown of one, one waiting event per device; three migrating threads in two processes, two keys, one refused write | `PressIsNotATap`, `MigrationFaithful` |

All runs but `sensors_step` pass. Deadlock is checked except where a component
may stop: a poll nobody feeds, and the bounded histories of `small_hals` and
`mback`. Each property has a mutant in
`PROJECT.json`: a plausible slip in one mapped definition with which TLC finds
the property violated. The thread ids are symmetric in `fp_threads` (no
definition chooses among them); symmetry is not used with liveness.

Bounds: `MaxTemplates`, `Stages`, `MaxChallenge`, the pool `AuthIds` of random
ids, `MaxBreaks`, `MaxTicks`, `Capacity`, `MaxSamples`, `MaxSteps`, `MaxFaults`,
`MaxQueue`, `MaxBoot`, `MaxSwitches`, `MaxRuns`, `MaxTime`, `MaxPresses` and
`MaxFailures`. Each is a constant and each is arbitrary in the proofs, up to its `ASSUME`.

### Fairness

* *Fingerprint* (`FairSpec`): a thread that can run does (preemptive scheduler,
  mutex always released by the code), the blocking calls of libfprint return
  (external; the code relies on it, since a cancel only sets a flag that is looked
  at between two scans), and an enrolment's deadline passes. Clients are not
  obliged to call, and a worker nobody cancels may scan for ever. The run leaves
  out the fault `clock`: with a wall clock that is set back again and again an
  enrolment rightly goes on.
* *Power*: the worker is scheduled, time passes, init restarts the service, nodes
  that broke heal eventually. Without the last the baseline cannot be written by
  anyone.
* *GPS*: both threads run, and gpsd keeps polling its descriptor and reads when it
  is readable. Nothing obliges the service to send.
* *Sensors*: the thread inside `poll` runs, a library that has events returns
  them (external), and time passes. `PollComesBack` asks for nothing when the
  library finds no more events: then `poll` rightly blocks.

## 4. Proofs

All theorems hold for every value of the constants allowed by the named
assumptions (`ASSUME`) of the component's module. The invariants are
conjunctions of named parts, and each step lemma treats one action.

* **FingerprintHALProofs**. `Inv == TypeOK /\ ThreadInv /\ MatchInBounds`.
  `OneSensorUser` and `JoinOwnership` are not inductive alone: whether a finished
  thread may be joined depends on who holds its handle, and who holds it depends
  on where each client is in its call. `ThreadInv` adds `CallProtocol`, which
  ties the program counters of the clients to the handles. `MatchInBounds` bounds
  the index a scan returned by the gallery, which needs the gallery's stability
  while a worker is active. From `Inv` follow `TypeCorrect`, `SensorExclusion`,
  `HandlesOwned` and the action property `UnlockedReadsSafe`.
* **FingerprintResultProofs** builds on `Inv`, in five sections.
  * `EndInv`, for `NothingEndsInSilence`. That a worker ended without a message
    may be excused by a client that stopped it, in `cancel`, which will report, or
    in `close`, which will not; and by a clock set back between the two looks. A
    client that stopped a worker is recognised only by where it stands:
    `CancelHeard` says that `cancel_requested` always concerns the
    worker that runs and that its setter waits for that very worker;
    `EndsTold` follows a message from the decision to its delivery.
  * `RequestInv`, for `ResultsMatch` and `SlotsSound`. `Serves` carries what a call
    saw under the lock (group, operation, a free slot, the directory) to the
    moments when the worker reads the same fields again, without the lock in
    places. It needs `OneSensorUser`, since two workers could take one slot, and
    the guards of `remove` and `set_active_group` against a running worker.
  * `AnnounceInv`, for the second half of `SlotsSound`: the count of remaining
    samples does not reach zero while an enrolment runs, a worker that commits
    has its template on disk (`FilesKept`: no file goes while a worker runs), and
    so a message says zero exactly when it names a stored finger.
  * `GalleryInv`, for `EmptyHasNoId` and `MatchesWhatIsStored`: under *every*
    fault, lost paths and crashes included. `QuietInv`, for `CanceledIsIdle`: with
    one call at a time. The hypothesis that there is one client is needed: with
    two, a second one may start a worker while the first returns from its join
    (section 2).
  * `StoreInv`, for `IdNamesGallery`, `TokensNameUser` and `MemoryMirrorsDisk`.
    The three lean on each other, and on every directory that is *not* active:
    `DiskSound` says that templates there have an owner and an id that was
    drawn for them, because a later `set_active_group` takes both from the
    file. The one directory between the write of a template and its commit is
    exempt. The hypothesis `Reliable` allows failing threads, a failing sensor
    and a clock set back only. Each of the others really breaks one of the three: a partial load or
    a lost path leaves a gallery that is not the directory's; a failed draw or
    save leaves an old id, or none, beside a new set; a crash before the commit
    leaves a template that no id was drawn for. What survives those is `GalleryInv`.
* **FingerprintMetadataProofs**. `Inv == TypeOK /\ SaveInv`: the temporary file
  holds what the program counter says. `StepRefines` maps every step to a step or
  a stutter of `AtomicMetadata`; `SaveIsAtomic` is the refinement.
* **PowerProofs**. Floors, forbidden boosts, timed waits, remembered values and
  nodes are proved together, because the wait of the worker is right only when
  the readiness of the floor and the remembered values are (`ModesEndBoosts`,
  `NoLostWakeup`, `CacheSound`, `ModesApplied`, `FloorAtomic`, `TypeCorrect`).
  For the floor, `Matching` (the kernel has one request for each descriptor held,
  and no other) holds throughout the loop (`LoopSound`): `AcquireKeeps` shows it
  for one round, whatever the node refuses, and `FloorApplied` adds the rollback
  and concludes that both clusters or none are left.
* **GpsVendorProofs**. `Inv` joins the lock, the life of the queue and its users,
  the eventfd, the numbers of the samples and the sensor list (`LockInv`,
  `LifeInv`, `SignalInv`, `NumberInv`, `ListInv`). `ReadableIffWaiting` needs
  `LockInv`: between queue and eventfd the two differ, and only the holder of the
  lock is there. `NoLostSample`, `RecentSamples`, `NoUseAfterClose`,
  `PointersStayValid`, `TypeCorrect`.

* **SensorsProofs**. What is delivered depends on events that were stamped long
  before. `Inv` ties every event still raw to the clocks (`RawOK`): one captured
  under the present setting bears the present offset, one captured under the
  setting of the first sample bears that sample's offset up to its error. With
  `SampleIsClose` for the two samples, `ConversionRight` and `RefusalJustified`
  settle the arithmetic for every tolerance, age and history of the wall clock:
  `DeliveredTimes`, `DropsForAReason`.
* **FingerprintCompatProofs**. `CanceledExactlyOnce` is not inductive: `Protocol`
  adds that the worker is told to stop only by a cancel that waits for it, so that
  its own CANCELED falls between the two locked sections, and `Counting` what
  `cancel_notified` means at each of them. `OneCanceledPerCancel`,
  `EnumerationReports`, `CallbacksInPlace`.
* **SmallComponentProofs**.
  * `IndicatorCorrect`: a weighted brightness lies in 0..255 and is positive for
    every lit colour, so that mode and brightness can be told apart again in the
    node; stated for all colours and blink times.
  * `LowPowerHolds`: the pulses still owed bound the late ones only together with
    a count of the threads that have one or two to give (`PulsesCounted`).
  * `SerialSafe`: `BindingForeseen` and `DisabledByHelper` say, for each place in
    `main`, what init may have done to the gadget since the helper looked.
  * `InstallerRepeats`: `MovesForeseen` ties the rows already moved to the row
    counter and the verdict of the validation to what was on the system first.
  * `PressesAreNotTaps`: `PressAccounted` says of every press where its two
    events are: waiting in the queue, handled with the key counted as held, or
    both handled with the release remembered; `GesturesClear` follows a tap from
    the verdict of the input thread to the main looper, while presses go on.
  * `MigrationKeepsSettings`: a key never holds a third value (`TwoSources`), a
    migrator leaves no hole behind it as long as no write was refused
    (`NoHoles`), and one about to write knows what it overwrites
    (`WritesForeseen`).

Every invariant and action property that a passing run checks is stated by a
theorem, and each inductive invariant was checked by TLC before it was proved.
Only model-checked are the liveness properties (`CallReturns`, `EnrollEnds`,
`BaselineRestored`, `DestructorReturns`, `SamplesLeave`, `PollComesBack`): fairness
and `ENABLED` are outside the prover's reach. What the proofs take from outside
the models is what the models say is external: libfprint, the vendor's
libraries, binder, the kernel.

## 5. Plan

Done: the three components with the most state (`FingerprintHAL`, `PowerHal`,
`GpsVendor`) and the file protocol under one of them as a refinement; then the
adapter, the sensors HAL, mBack and the small components; then the proofs of
all their safety properties. Left, in this order:

1. Action properties with proofs: what a step may never do to the modes and floors
   of the power HAL, to the enrolled set and to the queue of the gpsd client.
2. An abstract specification of the gpsd queue (a bounded channel that drops its
   oldest element), with the refinement proved step by step, as for the metadata.

## 6. Not modelled

* Formatting, logging, dumps and statistics; constant answers; the conversion of
  sensor events; the bytes of the hardware token (its user, challenge and
  authenticator id are kept); what proprietary binaries do inside.
* Sensors HAL: the calls forwarded as they are, which keep no state, and the list
  of dynamic sensors, which poll() only copies into its answer.
* mBack: the table of scan codes and the carrying out of an action.
* Radio 1.4 bridge: the patch changes libril, whose request list and locks are not
  in this repository; a model of the half that is would have to invent the other.
* NFC discovery filter: one pure function over a command buffer of another
  repository's HAL.
* The hi-fi screen, services that only register and forward, path redirection,
  the linker shim, build tools and configuration have no state of their own that
  outlives a call.

## 7. Running

    tlc -workers 2 -config FpThreads.cfg MCFingerprintHAL
    tlapm FingerprintHALProofs.tla

and likewise for the pairs in section 3 and the proof modules in section 2.
