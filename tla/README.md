# Verification of aoostar-rs

TLA+ models of the concurrent and failure-prone parts of aoostar-rs, the Rust
programs that drive the 960x376 LCD of AOOSTAR machines, with TLC runs on small
instances and TLAPS proofs for every instance. Paths below are relative to
`src/crates/` unless they say otherwise.

    tlc -workers 2 -config Seqlock.cfg Seqlock          # and so on, see "Runs"
    tlapm SeqlockProofs.tla                             # and so on, see "Proofs"

`PROJECT.json` lists components, runs, hazards, findings and theorems, the source
lines of every definition, and for each property a mutated definition (the ones
commented `Fault:` in the modules) that the property catches.

## 1. The system

Three kinds of processes share files, a shared-memory region and handles:

    aster-launcher --spawns, kills--> asterctl, aster-sysinfo, (Windows) hwbridge
    aster-launcher --display.state--> asterctl           on / off; its mtime is a heartbeat
    asterctl       --uart.stuck-----> aster-launcher     the panel does not answer
    aster-sysinfo, hwbridge --one shared-memory slot each--> asterctl
    asterctl       --serial port----> LCD panel

| component | state | operations | what is hard | what makes it correct |
|---|---|---|---|---|
| shared-memory slot (`aster-hwstats/src/slot.rs`, `lib.rs`) | magic, version, sequence, timestamp, length, payload | `write_slot`, `read_slot` | no lock: a write and a read interleave load by load; a producer dies in a write | no torn snapshot is accepted, an accepted one is the newest, reads end |
| producers (`aster-sysinfo/src/main.rs`, `src/hwbridge/HwBridge.cs`) | a counter of the process life | write | killed by the launcher at any point and started again with counter 0 | the sequence names the snapshot |
| provider (`asterctl/src/shm.rs`) | region, last sequence merged, values | `update` | sees equal sequences of two lives, labels that are gone | the newest snapshot is merged |
| child supervision (`aster-launcher/src/process.rs`) | per child: handle, watcher thread; shared: specs, `quit`, `suspended`, `shutting_down` | watcher loop, `kill_all`, `kill_named` | kills that fail or fall between clone, spawn and store of the handle | nothing outlives the launcher, one instance, children come back, a quit ends |
| start, shutdown (`main.rs`) | flags, lock file | start, shutdown sequence, Linux provisioning | joins watchers that wait for it; asterctl must see the off before it is killed | terminates, panel dark |
| tray menu (`tray.rs`) | current choices, what the loop has shown | refresh, theme, display, quit, check marks | callbacks against watchers; steps that fail | what is checked is in force and stored |
| power monitor (`power.rs`) | `pending_event`, event handle, `uart_lock`, `resume_handled` | callback, daemon, stuck-marker watcher | notifications overwrite one another; two threads write `suspended` | a suspend stays in force, a lost notification is harmless, a report is answered |
| USB re-enumeration (`device.rs`) | none | `restart_uart` | takes long, may fail | nobody uses the port meanwhile |
| display control (`display.rs`) | mode, `last_seen`, `suspend_off`, follow flag, `display.state` | apply, heartbeat, follow watcher, suspend, resume, force_off | four writers that decide first and write later; truncation before the write | the file settles on the state meant |
| display poll (`asterctl/src/main.rs`) | `display_on` | poll, panel loop | failing commands and the reconnect; the launcher dies | panel follows the file, goes dark without the launcher |
| LCD protocol (`asterctl-lcd/src/aoo_screen.rs`) | port, frame cache | init, on, off, send_image, reconnect | sends differences only; fails halfway | what is skipped is on the panel |
| launcher configuration (`aster-launcher/src/config.rs`) | `launcher.toml` | load, repair, set one value, atomic replacement | corruption by older releases; death in the replacement | choices are stored one at a time, nothing else is lost |
| panel cycle, themes (`asterctl/src/cfg.rs`) | monitor configuration, current panel | load, theme, custom panel, next panel | entries that name no panel, wrap at the active ones | every active panel is shown in turn |
| sensor files (`asterctl/src/sensors.rs`) | map of values, watcher, its channel | first reading, watch, event | temporary file next to the sensor file, kill in a round, update between reading and watch | values of one round, updates arrive |
| region mapping (`aster-hwstats/src/region.rs`, `region/`) | name, object, mappings | create or open, size, map, drop | races of creation, the creator unlinks, kills | nobody unlinks another's name, all hold one region |
| sensor collection (`aster-sysinfo/src/main.rs`) | map of sensors over all rounds | refresh, update, choice of the network, write | what is gone must be removed; random order of interfaces | a snapshot is of one round, the choice is stable |
| rendering, fonts, value formatting, paths, logging, tray-item | | | pure drawing, text or I/O | not modelled |

The hazards, each with its line and the property that would catch it, are in
`PROJECT.json`.

## 2. Modules

Each module has its abstractions at its head. One action stands for one step of
one thread that others can see: a load, a store, a lock, a system call.

**`SnapshotSlot`** is what the shared memory promises: a register in which a
producer publishes whole snapshots and from which a reader takes the newest.

**`Seqlock`** is the slot, one producer and `SharedMemoryProvider::update`. Every
store of `write_slot` (length, timestamp, payload words, in any order between the
two stores of the sequence, because plain stores may be reordered there) and every
load of `read_slot` is a step. Data are the number of the write they come from, so
a snapshot carries the set of writes its words came from and is torn when this set
has two members. `Kill` may come anywhere, `Respawn` starts with counter 0 over
what is left. Between the two sequence accesses the model is sequentially
consistent; the language's memory model is out of its scope.

**`Supervisor`** is the launcher: for each child a watcher (`WatcherTop`,
`CloneSpec`, `SpawnOk`/`SpawnFails`, `StoreHandle`, `Poll`, `AwaitShutdown`,
`Grace`, `Check*`, `ClearHandle`, `Delay`), the main thread with the shutdown
sequence, a tray callback that replaces specs and kills, and an environment that
suspends and kills at any time. A kill succeeds, fails, or leaves the child running
a little longer; the arguments of a child are a version number; delays end at any
time. Two loads of one flag are merged where the later one is at least as strict;
the two loads of `quit` in the wait loop are not. `Windows` decides whether the
tray callback holds the specs lock during the kill. The grace of the shutdown is
assumed long enough that `display.state` is written in it (`GraceElapsed`).

**`Power`** EXTENDS `Supervisor` and replaces its environment by the Windows power
monitor: the notification callback, the daemon, the stuck-marker watcher,
`uart_lock`, the re-enumeration. Only the suspend and resume notifications are
modelled: display notifications belong to `Display`. Its specification implies the
supervisor's (proved), so the supervisor's guarantees hold in it.

**`Display`** is `display.state`: tray loop, menu, follow watcher and power daemon
as four writers of a file that each write truncates first, and asterctl, which
polls it, reads an empty or missing file as "on", sends on/off over a port that may
fail, reconnects (which lights the panel), and leaves when the file is stale. The
modification time is a flag `stale` that can only come up when nobody writes any
more. Either step of a write may fail: the file keeps what it held, or stays empty
(`StartWrite`, `PutFails`), and only the Linux menu callback asks. `windows` selects the
control: the Linux one has neither follow nor suspend, and stores the mode when the write
has succeeded (`ApplyLinux`, `Put`). The shutdown is `Quit`, `ForceOff`,
`KillAll`, `Exit`: between the off and the kill lies the grace of two seconds, which is
taken to be long enough for one poll and its command (`GraceOver`). The history variable
`orderly` tells whether asterctl ran when the off was written, and nobody else wrote, or
killed it, afterwards.

**`FrameCache`** is `send_image`: start command, the chunks that differ from the
cached frame, end command, flush; the retries of `write`; what the panel loop does
with an error. The panel is external and follows `docs/lcd_protocol.md`: it patches
chunks into the image it assembles and switches when told to. A command arrives
whole or not at all, and fails before or after it arrived. A panel that was reset
holds anything and is not reached through the old handle. 960 x 376 x 2 bytes are
exactly 15360 chunks of 47 bytes, so there is no shorter last chunk.

**`ConfigStore`** is what the configuration promises: one value for each option,
changed one option at a time, in one step. A store without any option may be provisioned
with the packaged ones, or with some of them and one broken when this fails.

**`Config`** is `launcher.toml`: a text is the sequence of its assignments, each a
line of its own, joined to the line before (the corruption that an older release
produced), behind a hash sign, or, at the end of a file whose provisioning broke off,
without its value (`broken`) or cut in the key (`torn`). `Split`, `Deduplicate`, `WithValue` translate the
text operations; `Create` ... `Rename` are the steps of `atomic_write`, any of which
may fail; `Launch`, `Choose`, `Apply` are start and menu callbacks on both
platforms (`windows`); `Dies` comes anywhere. Where there is no file the Linux `Launch`
creates an empty one and `Copy` fills it, with the packaged text or a prefix of it
(`PartialText`). `display_mode` alone knows `Follow`, which the Linux menu does not offer
and a Linux start takes for `On` (`Offered`, `Taken`). The tray's part is `current` (what a
callback has announced), `last` and `marked` (what the loop has shown, `MoveMark`), and
`inForce` (specs and display mode, `SetMode`, `Restart`). Callbacks run on one thread, so the
writer lock is never contended and is left out. Quotes, line ends, indentation and
the lines that assign no menu option are not part of a text: the code leaves them
alone. The fsync of the directory is not modelled (the code has none: a power loss
may undo a rename).

**`SensorPanel`** is asterctl from the configuration to the map it renders from:
`LoadConfiguration` is load_configuration with theme and custom panels;
`SwitchPanel`, `NoActivePanel`, `Tick`, `TurnEnds` are the panel loop (`Slots` are the
entries that are not zero, `Rank` is what `enumerate` counts them by); `ReadPath`,
`Watch`, `WatchFails`, `HandleEvent` the file slurper, `MakeDir`, `CreateTemp`,
`WriteLine`, `Persist` aster-sysinfo, which may be killed in a round. The lock on the map
is held over a file, a snapshot and a rendering, so each is one step. The temporary file
is in the watched directory, the least favourable choice of `--temp-dir`; the watcher
library is external and reports every change after `Watch`, in order. The sensor path is a
directory, as the launcher passes it (a single file that is renamed over would need the
watch of the library on its inode to be modelled). The shared memory is the register of
`SnapshotSlot`. A round may lack keys (`RoundKeys`), which then keep their older value in
the map: `WholeRounds` speaks of the keys that a round has.

**`ShmRegion`** is `Mapping` of both platforms: `CreateExclusive`, `AlreadyExists`,
`OpenExisting`, `OpenGone`, `Truncate`, `Map` on unix, `CreateFileMapping` on Windows; the
destructor (`Drop`), failing calls, the end of a process, its kill. A region is its number;
the name is the number it stands for. On unix the creator's destructor takes the name away
and a kill leaves it; on Windows it goes with the last handle. What the region holds is one
snapshot, the slot of `Seqlock` seen as a register.

**`NetworkChoice`** is `select_network_candidate`, a pure function of a list.

**`Sysinfo`** EXTENDS both: the loop of aster-sysinfo (`UpdateSensors` with the labels that
every round has, temperatures that stay when a component gives none, GPU and network labels
that are removed first), `WriteSnapshot`, and `SharedMemoryProvider::update` with its
insertion into the map. A value is the round it was measured in and the interface it is
about.

`SeqlockProofs`, `SupervisorProofs`, `PowerProofs`, `DisplayProofs`, `FrameCacheProofs`,
`ConfigProofs`, `SensorPanelProofs` and `SysinfoProofs` hold the theorems.

## 3. Runs

| run | bounds | shows |
|---|---|---|
| `seqlock` | 2 payload words, 4 tries, 2 writes, 1 restart | no torn snapshot, although the producer dies anywhere; until the restart the seqlock implements `SnapshotSlot` and the newest is merged at last, so that reads end too |
| `supervisor` | 2 children, 1 menu choice, failing kills | no orphan, one instance, quit ends, children return |
| `supervisor_args` (violation) | 1 child, 1 choice | finding 1 |
| `power` | 1 child, failing kills, re-enumeration on | suspend in force and stops the children, grace undisturbed, reports answered, whatever notifications are lost |
| `display` | both platforms, 3 events, 1 failing command or write | file settles, on and off reach the panel, a survivor goes dark, an orderly quit ends dark |
| `display_lit` (violation) | Windows, 2 events, 1 failure | finding 2 |
| `frame_cache` | 2 chunks of 2 values, 1 retry, any number of failures and resets | cache is shown, no mixture, frames go on |
| `config` | 3 options, `display_mode` with on and follow, the others with 1 menu value, and a bad one; no file or texts of up to 2 assignments, 1 failure, any number of choices and deaths, both platforms | choices stored, one at a time; other settings survive; what is checked is in force and in the file |
| `sensor_panel` | configurations of up to 2 panels and 2 entries, with zeros and entries out of range, 3 theme inputs, 1 custom panel; 2 keys, 2 rounds of the file with one or both, 1 snapshot | active panels take turns, values of the file are of one round, updates arrive |
| `sensor_panel_entries` (violation) | 2 panels, 2 entries | finding 3 |
| `sysinfo` | both platforms, asterctl and aster-sysinfo, 2 failures, ends or kills, 3 rounds, 2 interfaces; for the choice all lists of up to 3 interfaces | names, one region, one round, stable choice, what was measured last is shown |
| `sysinfo_vanished` (violation) | the same with 2 rounds, nothing fails or ends | finding 4 |

*Why the bounds suffice.* Two payload words and two writes are the least with which
a snapshot can be torn or missed. Four tries are the code's own number. Two children are enough because the
watchers touch only their own handles and share flags and specs only; the restarts
of a child are unbounded. In `display` three events (menu, screen, suspend, resume)
suffice for a late writer, the one it overtakes and one that repairs. In
`frame_cache` two chunks are the least of which one is skipped and one is sent, and
an end is left out after a start and one chunk. In `config` three options are one
child argument that is chosen, another that must survive, and `display_mode`, which
has a type of its own; two assignments make joined lines, duplicates and comment
copies, and one menu value and the default are the two places a check mark can be, follow
the one that Linux has no place for (two options with two menu values have been checked as
well; the theorems hold for any number); the packaged text has three lines, so its parts are
nothing, one, two, and each with a piece of the next. In
`sysinfo` three rounds are the least with which a new life begins under a number that
asterctl has passed (two in the first life, one in the second), two troubles the least
with which both processes end, or one ends twice; what is proved of the region holds for any
number. The bounds that are in guards are `MaxWrites`, `MaxRestarts`, `MaxChanges`,
`MaxEvents`, `MaxFailures`, `MaxFaults`, `MaxTroubles`, `MaxRounds`; `MaxRetries` and `MaxAttempts` are the
code's.

*Deadlock* is checked except in `Seqlock` (the writes are bounded), `Sysinfo` (the rounds
are) and `Display` (launcher gone and asterctl dead is the end). `Supervisor` and `Power` may stop only
when the launcher has exited (`Terminated`).

## 4. Fairness

- `Seqlock`: producer and reader are scheduled (WF). A killed producer need not come
  back.
- `Supervisor`: watchers, main thread and callbacks are scheduled (WF). A kill that
  is repeated again and again succeeds at last, and a start as well (SF): without it
  the code retries for ever, as it must.
- `Power`: daemon and watcher are scheduled; the daemon gets `uart_lock` at last (SF),
  since the stuck-marker watcher leaves it free for 30 seconds after each round; the
  cooldown ends.
- `Display`: pending writes are finished, the tray loop, the follow watcher and asterctl
  are scheduled, an abandoned file grows stale (WF). Of the polls, not all hit the
  moment between truncation and write (SF).
- `FrameCache`: asterctl goes on; a write on a dead link times out; a panel that is
  there is opened at last; frames are rendered again and again (SF over the on/off
  commands in between). `FramesGoOn` supposes that commands succeed from some time on.
- `Config` has safety properties only.
- `Sysinfo`: processes that ended are started again and try to open the region, a collected
  round is written, asterctl looks at every refresh (WF). Nobody has to collect, fail or end.
- `SensorPanel`: the slurper and the panel loop are scheduled, an asterctl that ended is
  started again (the launcher's watcher, `Supervised`), the switch time passes, and a
  provider creates its directory (WF). Providers need not write.

## 5. Proofs

All for any values of the constants that satisfy the named assumptions. Every invariant and
every action property of the passing runs is stated by a theorem; each inductive invariant
was checked with TLC before it was proved.

- **`SeqlockProofs`.** `SeqlockInv` = types, `CopyInv` (what is stored of the write in
  progress), `SlotInv` (an even sequence over a complete write), `TryInv` (what the
  words of the current try come from) and `NoTornSnapshot`, which alone is not
  inductive: that an accepted try is clean depends on what the slot held at each of its
  loads. `NeverTorn` and `AcceptsNewest` concern reads whose two sequence
  values are of one producer life. `SequenceNames` and `SeqlockImplementsSlot` (each step is
  a `Publish`, a `Deliver` or a stutter) hold until the first restart, by `FirstLife`: the
  sequence only grows, and bounds the one that was merged.
- **`SupervisorProofs`.** `Inv` = types, `HandleInv` (which steps of a watcher hold a
  handle), `RunInv` (a process runs only while its watcher is between the spawn and the
  end of the wait), `ExitInv` (main has exited only after the watchers). From it
  `NoChildOutlives`, `RunningIsReachable`, `NeverTwoInstances`, which suppose that
  `try_wait` reports no error for a running child (`~TryWaitMayFail`): process.rs:433
  leaves the loop on such an error and would drop a running child.
- **`PowerProofs`.** `PowerImplementsSupervisor`: every step of the power monitor is
  one of the supervisor's environment or a stutter; so `NoChildOutlivesPower`. `FlagInv`
  (who holds `uart_lock`, and what each holder has done to `suspended`) gives
  `AlwaysPausedWhileRestarting`, `SleepStaysInForce`, `GraceStaysUndisturbed`.
- **`DisplayProofs`.** Types, and `BelievedOnIsLit`, which is inductive with them.
  `QuitDarkens` rests on `QuitInv` = types, `KnowsInv` (what asterctl believes of the panel
  while no command failed), `AgeInv` (a file of a living launcher is not stale), `OffInv`
  (in an orderly shutdown without a failure the file is empty or off, and off once main has
  written),
  `DarkInv` (an asterctl that has polled since then has sent the off). `QuitEndsDark` says
  nothing of the steps before the exit, so it is not inductive.
- **`FrameCacheProofs`.** `Inv` = types, `CachedInv` (a frame is cached only while the
  cache is on and the handle is open), `StartInv`, `RestInv` (between calls a cached frame is both assembled
  and shown), `AssemblyInv` (the chunks passed are the image's, the others the cached
  frame's), `EndInv`. `CacheIsShown` alone is not inductive, because it says nothing of
  the image that the panel assembles.
- **`ConfigProofs`.** First the texts, of any length: `RepairKeeps` (the repair, which splits
  joined lines, drops duplicates and comment copies, means what the old text meant),
  `RepairedIsClean`, `WithValueSets` (setting one option in a clean text leaves the meaning of
  the others, and a clean text). "The last assignment counts" needs a last one: sets of
  numbers have a least element because `<` is well-founded, and counted from the end this is
  the last. Then the inductive invariant: `CheckedIsChosen` speaks of the moments between two
  callbacks only, so `CallInv` (which steps a callback goes through), `TextInv` (what is being
  written is clean, and is the repair of the old text or the old text with the choice),
  `LoadInv` (a load returned what the file says, or the defaults) and `MenuInv` (at every
  moment what the menu shows is in force and stored, but for the choice under way) carry it
  over the callback. `CallInv` also says what a provisioning has left before the first read, and that
  no Linux callback chooses follow; `ProvisionedText` that each `PartialText` means what a
  provisioning of `ConfigStore` may store. From it `TypeCorrect`, `ChoiceStored`, `Checked`, `OthersKeep`,
  `StoredOneAtATime`, and the refinement of `ConfigStore`: `ConfigImplementsStore` as long as
  Windows finishes every rename it has begun, `LinuxImplementsStore` through all failures and
  deaths. A provisioning that breaks off is a step of `ConfigStore`, not an exception: the
  code promises no more.
- **`SensorPanelProofs`.** `LoadingKeepsWorking`, about the pure part: no theme, flag or
  custom panel turns a monitor configuration whose entries all name panels into one that
  ends the program. `WorkingGoesOn`: under such a configuration it does not end for want of a
  panel - the safety half of `EveryPanelShown`, and what is true of the claim of finding 3.
  It rests on `EntriesNumbered` (`Rank` grows with the position, so it is an injection into
  1..n of a set with n elements, hence onto). `ActiveInTurn`: each switch goes to the next
  active entry or round to the first. `TypeCorrect` (the panel shown is always a defined one,
  so the index of cfg.rs:194 is in range) and `RoundsStayWhole`, which rests on `OutWhole`:
  the output file always holds one round.
- **`SysinfoProofs`.** `RegionInv` = types, `HoldInv` (who holds what at which step),
  `UnlinksOwn`, `NamedInv` (unless a name was unlinked under a holder, what is held is what
  the name stands for), `SizedInv`. `SysinfoImplementsRegion`: every step of aster-sysinfo
  and asterctl is one of `ShmRegion` or leaves it alone, so what is proved of the region
  holds under them. `SendsThisRound` needs `CountInv` (the sequence of a life is not above
  the rounds of all lives). `SysinfoImplementsRegister`: as long as the region keeps its name
  and asterctl goes on (`Steady`), the composition implements `SnapshotSlot`, each snapshot
  known by its round: what asterctl shows is never older than what it has shown, although
  aster-sysinfo ends and starts again with its sequence at one. It rests on `WrittenInv`: what
  is collected is newer than all that any life has written. Without `Steady` it is false: a
  new region starts empty. On Windows the name stays while asterctl holds its handle, on unix
  until the creator ends in order. `SelectsBest`: for a list of any length in any order,
  `select_network_candidate` returns the one interface that beats the others (a greatest one
  exists by rank, then traffic, then name, each time by the least element of a set of
  numbers); `SelectionStable` is its instance for the run.

Proved, but not run any more because a run shows something that contains it: what is
accepted is the newest (`AcceptsNewest`), a sequence names its snapshot in one life
(`SequenceNames`), every running child is reachable (`RunningIsReachable`), the watchers are
paused during the re-enumeration (`AlwaysPausedWhileRestarting`), Ok means shown
(`OkIsRight`), a mapped region has its size (`MappedHasItsSize`).

Only model-checked: everything under fairness (`NewestIsMerged`, `QuitEnds`, `Supervised`,
`SleepStopsChildren`, `StuckAnswered`, `FileSettles`, `OnReachesLcd`, `OffReachesLcdUnfailing`,
`SurvivorEndsDark`, `FramesGoOn`, `EveryPanelShown`, `UpdateArrives`, `SnapshotArrives`),
because the prover treats neither liveness nor ENABLED. The library's induction theorems take
an operator as a parameter, which the backends cannot instantiate; where an argument over
sequences or finite sets was needed, the least element of a set of numbers or a count of its
elements has taken their place. What `Split` and `Deduplicate` do is stated position by
position for the same reason.

## 6. Findings

1. `supervisor_args`: a menu choice between the clone of the specs (process.rs:363) and
   the store of the handle (369) leaves a child running with the old arguments.
2. `display_lit`: after a failed `on()` the reconnect lights the panel but `display_on`
   stays false; if the file then says off, no off is ever sent.
3. `sensor_panel_entries`: an active entry that names no panel is announced as ignored
   (cfg.rs:189), but it keeps its turn, and when this comes asterctl ends with "No active
   panel".
4. `sysinfo_vanished`: aster-sysinfo removes the GPU utilization from its map when the kernel
   gives none (main.rs:524), and docs/linux/README.md:35 says it is then omitted; asterctl
   only inserts (shm.rs:112) and goes on showing the last one, and likewise the last network.

More disagreements have no run:

- A restarted producer counts from 0, so "readers detect new data by comparing `sequence`"
  (lib.rs:38) holds within one life only: a new snapshot whose number equals the merged one
  is skipped until the next (shm.rs:105). `SnapshotArrives` follows what was measured, over
  any number of lives, and excepts this snapshot.
- main.rs:79 says that "shared-memory values win on key conflicts", but both sources insert
  into one map and the last one wins.
- A watcher past its test of `suspended` (process.rs:356) starts asterctl while the USB
  device is torn down, which power.rs:348 wants to rule out.
- "Atomically replaces a file" (config.rs:259) is not so on Windows: a death between removal
  and rename leaves no configuration. `StoredUnlessReplacing` excepts it.
- Linux provisions `launcher.toml` by a plain `fs::write` (main.rs:235): a full disk or a
  death in it leaves an empty or partial file. No later start provisions it again
  (main.rs:231), and when it ends in the middle of an assignment every load answers with the
  defaults, so that Linux refuses every choice but one of the option that was cut.
  `StoredUnlessReplacing` excepts the provisioning.
- region.rs:62 says that the region lives as long as somebody holds a handle. On unix the
  name does not: when asterctl has created it and ends, a running aster-sysinfo goes on
  writing a region that the next asterctl cannot open. `SharedUnlessUnlinked` and
  `SnapshotArrives` except it.
- On Linux a choice whose reload fails or does not parse is reported as not retained
  (tray.rs:558), but it is in the file, neither in force nor checked: the next start applies it.
  `CheckedIsChosen` excepts it.
- On Windows a menu callback that reloads a file which toml refuses (a `display_mode` that
  does not exist) runs the children with defaults, while the menu goes on checking the
  earlier choices (tray.rs:57-61); a menu item that could not be changed stays wrong, because
  the loop counts it as done (tray.rs:425). `CheckedIsChosen` excepts both.

No disagreement, but to be known for reading `CheckedIsChosen`: on Linux a file that says
`display_mode = "follow"` keeps it, while On is checked and in force, as
docs/linux/README.md:28-29 says; the property compares with what a start makes of the file
(`Taken`).

## 7. Not modelled

Rendering, fonts, value formatting, paths, logging, the vendored tray-item library (drawing,
text and plain I/O); what aster-sysinfo measures, its loop over the disks, HwBridge's hardware
library; the Configuration Manager calls inside the re-enumeration; the single-instance lock
(one call of the operating system); the back-off between restarts (delays end at any time);
the tray's status label and tooltip; the memory models of Rust and .NET; what a panel does
with a command that arrives in part, or twice in part; a second slot (the two do not
influence each other); a reading of a sensor file that fails halfway, of which asterctl keeps
the half (sensors.rs:129-134).

## 8. Plan

Done, in this order: `Seqlock` over `SnapshotSlot`; `Supervisor`; `Power` over it;
`Display`; `FrameCache`; `Config` over `ConfigStore`; `SensorPanel`; `ShmRegion` and
`NetworkChoice` with `Sysinfo` over them; the Linux control and the shutdown in `Display`;
the check marks in `Config`; the proofs of every safety property the runs check, with the
refinements of `SnapshotSlot` (by `Seqlock` and by `Sysinfo`), `ConfigStore`, `Supervisor` (by
`Power`) and `ShmRegion`.

To come, the most important first:

1. `Supervisor`: an abstract specification of one supervised child, shown to be implemented by
   the watcher, so that `Power` and `Display` can be read against it.
2. What holds of `Display` with failing commands: the exceptions of `QuitEndsDark`, each stated.
3. `SensorPanel`: an update between the first reading and the watch, a single file as sensor
   path, which source wins a key (main.rs:79).
4. The back-off: `retry_delay`, `init_backoff_secs`, `backoff_delay` against a reference.
