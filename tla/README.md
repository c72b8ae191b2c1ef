# PurrGO in TLA+

PurrGO is the firmware of a handheld GNSS navigator and track logger (STM32U5,
E-Ink panel, SD card, batteries), with a PC emulator around the same core. These
modules model the parts of it where several things go on at once or may fail in
the middle: the track file, the card and the supply, the service that keeps a
recording alive, the configuration file, the sector cache under every read, the
ring that the receiver's bytes go through, the E-Ink driver, and the screen with
the flags that have it redrawn. Paths below are relative to the repository's root.

1. [The system](#the-system)
2. [Modules](#modules)
3. [Runs](#runs)
4. [Bounds](#bounds)
5. [Fairness](#fairness)
6. [What is proved](#what-is-proved)
7. [Where the code and its comments disagree](#where-the-code-and-its-comments-disagree)
8. [What is not modelled](#what-is-not-modelled)
9. [Plan](#plan)

## The system

One main loop, `purrgo_stm32_process` (`apps/stm32/common/Src/stm32_app.c`), runs
everything in a fixed order: display driver, GNSS bytes, `purrgo_app_tick`
(supply monitor, reader, battery, fix timeout and, once a second,
`purrgo_app_update` with the track service), buttons, rendering, card poll, and the
reaction to a mount. Interrupts only fill the GNSS ring (DMA), restart it after an
error, count PPS pulses, time button edges and advance the clock. The core in
`src/core` calls the hardware through hooks (`fs_hal.h`, `supply.h`, `power.h`).

| Component | State it keeps | Operations | Hard because | Correct when |
|---|---|---|---|---|
| Track logger (`track_logger.c`) | state, file, name, 512-byte buffer, filter, RAM ring | set_mode, start, add_point, stop, suspend, reset | any write, sync, open or create may fail; power may go; the day changes under it | the file is GPX, nothing is lost or doubled inside it, little is lost at its end, the drawn track is the recent one |
| Track service (`app_fsm.c`) | failure count, retry time, previous state, recording since | once a second | sees the logger a second late; others stop it meanwhile | pauses are kept; recording always comes back |
| Supply monitor (`supply.c`) | blocked, pending since, battery latch | tick | two causes, two time constants, and an orderly stop against a falling voltage | debounced; footer before unmount |
| Card manager (`sd_card.c`) | mounted or not, lost, debounce, retry | init, poll, suspend, disk I/O | removal in the middle of a transfer, a dead or noisy card | remounts; never mounted on a low supply |
| Map files (`map.c`) | open files, what is remembered as missing | sync, shutdown, render | handles outlive the volume they were opened on | no handle of an earlier mount in use |
| File layer (`fs_hal_stm32.c`) | 14 slots, 64-sector LRU cache, read-ahead | open, read, write, seek, sync, close, replace | failed reads and closes, cached sectors of reused slots | a read returns the file's bytes |
| Configuration (`config.c`) | `app_config`, dirty flag | load, save | replacing a file is not atomic on FAT | after a crash the old or the new settings are there |
| GNSS input (`gnss_io.c`, `gnss_receiver.c`, `gnss_adapter.c`) | DMA ring, receiver power, solution | read_byte, error interrupt, power on/off, feed | DMA writes while the loop reads | no byte twice; a stale fix expires |
| E-Ink driver (`display_eink.c`) | requests, operation, panel state, retry | request, poll, wait, sleep | operations last seconds and fail; requests merge | every request reaches the panel; no sleep with work pending |
| Screens (`app_fsm.c`, `app_ui.c`) | screen, dirty flags, render gate, throttle | buttons, update, render | flags are set and taken in different places | a change is drawn in the end, and not too often |
| Power-off (`power.c`) | - | power_off | the order of the last writes | everything is saved before the volume goes |
| Book reader (`book_reader.c`, `pgb.c`) | book, page, position to save | enter, buttons, tick, leave | delayed save | the position survives leaving and power-off |
| Buttons (`buttons.c`) | debounce, press times | interrupts, read | edges against polling | one event a press |
| Waypoints, routes (`waypoint.c`, `route.c`, `gpx_parser.c`) | target, lists, parser state | select, load, parse | input cut between blocks | the result does not depend on the cuts |

How they touch each other: the supply monitor stops the logger, closes the map and
suspends the card manager, in that order. The track service starts the logger
unless the monitor blocks. The card manager unmounts under the logger and the map,
which learn of it from failing calls; the main loop closes the map's files after
the next mount. Menu, reader and power-off stop the logger directly.

## Modules

| Module | Models | Notes |
|---|---|---|
| `GpxFile` | the strings the logger writes, as sequences of units | constants and operators only |
| `TrackLogger` | `track_logger.c` with the FatFs file under it | abstract data, whole control flow |
| `TrackLoggerProofs` | theorems about `TrackLogger` | |
| `MCTrackLogger` | instance for TLC | string lengths and sets of faults |
| `Storage` | `supply.c`, `sd_card.c`, the map's file handles and the loop around them; the logger through its interface | run directly |
| `StorageProofs` | theorems about `Storage` | |
| `TrackService` | `track_logger_service` and its surroundings | |
| `TrackServiceProofs` | theorems about `TrackService` | |
| `MCTrackService` | instance for TLC | pauses |
| `SettingsCell` | what the configuration file promises | abstract specification |
| `Config` | `config.c`, the delayed save of `book_reader.c`, replace in `fs_hal_stm32.c` | implements `SettingsCell`; run directly |
| `ConfigProofs` | theorems about `Config` | with the refinement of `SettingsCell` |
| `ByteStream` | what `purrgo_gnss_read_byte` owes to the parser | abstract specification |
| `GnssRing` | `gnss_io.c`, `gnss_ring.h`, the DMA channel and its interrupts | implements `ByteStream`; run directly |
| `GnssRingProofs` | theorems about `GnssRing` | with the refinement of `ByteStream` |
| `FileReads` | what `fs_hal.h` promises to who reads a file | abstract specification |
| `SectorCache` | `fs_hal_stm32.c`: slots, cache, read-ahead, every operation on a file | implements `FileReads` |
| `SectorCacheProofs` | theorems about `SectorCache` | |
| `MCSectorCache` | instance for TLC | a card, its files |
| `Epd4g` | the panel library and the panel, from `docs/architecture.md` and the host tests | external; operators only |
| `Eink` | `display_eink.c`, who draws for it, power-off | run directly |
| `EinkProofs` | theorems about `Eink` | |
| `MapScreen` | screens, dirty flags, the map with its marker and track (`app_fsm.c`, `ui_dirty.c`, `map_controller.c`, `app_ui.c`, `ui_map.c`) | run directly |
| `MapScreenProofs` | theorems about `MapScreen` | |

**GpxFile.** The code writes three kinds of strings: header, point, footer. A string
is `StrLen[kind]` units, and a write may stop after any unit, so a torn tag is a
string without its last unit. `WellFormed` says what a reader needs: header first,
every string whole before the next begins, points consecutive, nothing after the
footer, and possibly a cut at the end.

**TrackLogger.** The C statics and the card are one record `tl`. A handler is a chain
of calls that may each fail, so a call is an operator from a record to the *set* of
records it may leave, and a handler composes its calls in the code's order:
`add_point` is `AddPointTo`, which is `Rollover` (stop, start) when the local day
changed, then `Filter`, then `Record` (write the string, draw, sync when due). The
fields are the code's: `state`, `mode`, `name` (`s_active_filename`), `open`
(`active_file != NULL`), `buf`, `first`, `unsynced`, `outliers`, and the ring. For
the card there are `files` (the directory), `data` (what FatFs has accepted for the
open file) and `disk` (what a power loss leaves). `stream` is a history variable:
all that `write_to_buffer` took for the current file. Position, speed and time only
enter through the results of comparisons: a `Fix` is a jump, a jump that agrees with
the last rejected one, far enough, or near; on a new day or not; with the sync
interval over or not. The numbers the logger gives its points (`ram_track_serial`)
are their identities and, unlike in the code, go on across a boot.

**Storage.** One pass of the loop is five phases (`at`): supply, service, render,
poll, wait; the supply and the card (`env`) change between any two. `dev` holds
`sd_card.c`'s statics, the logger's interface state and the handles of the track
file and of the map (`none`, `live`, or `stale`: opened on an earlier mount, which
FatFs refuses). The four-times-a-second poll and the once-a-second service are
choices of each pass (`NoPoll`, `NoService`), so no phase relation between them is
assumed. Times are ages and countdowns in units of the loop. The build with a Detect
pin (the default) is modelled.

**TrackService.** One step `Second` is one call of `purrgo_app_update`. The logger is
its three states; what `start` and `add_point` may leave is `StartOutcomes` and
`AddOutcomes` (resuming a failed file needs no date, a new file does). Menu, reader,
supply, fix and card act between two seconds. The history `seen` counts the falls
since the last recording that lasted, from outside the service.

**Config.** Power may go between any two calls a save makes on the card, so here every
call is a step, and `pc` names the next one: `open`, `write`, `sync`, `close`, `unlink`,
`rename` for a save, `check` and `load` for a boot, with the recovery of an interrupted save
going through the same `unlink` and `rename`. `task` says for whom: it decides where the
save returns to and who looks at its result (only the reader does). `cfg` and `tmp` are
what a power loss would leave of the two files, `data` what FatFs has accepted for the
open one. A call of FatFs that fails may have done its work before: an open may have emptied the
file, `f_unlink` removes the entry before it frees the clusters, and `f_rename` may have given the
new name. Settings are one value; a text is known by the settings it was made from and by
how much of it there is (`empty`, `torn` inside a line, `cut` after one, `whole`).

**SettingsCell** is the promise: a cell that a save replaces at one instant and a boot
reads. `Config` implements it with `stored` mapped to what a boot would load now
(`PURRGO.CFG`, or else a complete `PURRGO.CFG.TMP`), so the instant of a save is the
unlink of the old file, or the sync of the first text on a card that has none. `held`
marks the limit: a device that booted without reading settings from the card may leave it without
any when its first save fails.

**GnssRing.** A byte is its number in the order of sending. The channel (`dma`) has the
counter the code reads, and runs, is suspended by an error, or has stopped; `ErrorCallback`
is the second interrupt, after which the counter is zero and `gnss_rx_error_flag` is up, and
the channel may be in a state that no start accepts. One call of `purrgo_gnss_read_byte`
is three steps, because interrupts and DMA may come between: `ReadFlag`, `ReadCounter`,
`Take`. `loss` is a history: the reason the driver has for a gap, which is what
**ByteStream** allows. Interrupts are placed everywhere but between the flag and the
counter; `MidRead` adds this place (see the disagreements).

**SectorCache.** `pool` is `file_pool`, `cache` is `lru_cache` with the stamp of an entry as
its rank, `call` the locals of a `purrgo_fs_read` in the middle of its loop: each sector and
each block is a step, and in a block the sectors are stored one at a time, in
`StoreAhead`. Of FatFs (`ff.c`, vendored) there is what this layer sees of it: the table of open
files (`lock`), handles that die with the mount, and the error that sticks to a handle. A slot keeps as a history the bytes of the
file when it was opened to be read; **FileReads** is stated about these, and the refinement
is that a read returns them.

**Eink** on **Epd4g.** A picture is a colour for each row. `drv` holds the statics of
`display_eink.c`: what is requested (`full`, `region`), the operation under way, what the
panel is initialised to, the retry, and `prev`, the picture a gray partial update starts
from. The library is a job with phases: while it sends data it reads the framebuffer, and
the glass changes in the wave. Only the two modes are told apart that the driver treats
differently: the map in gray, the other screens in one bit. The state before the first
picture is `boot`, and power-off comes after it.

**MapScreen.** `app` is the statics of `app_fsm.c` and `ui_dirty.c`: the screen, the flags, a
deferred redraw, the gate after a failed map, and the references that "changed" is measured
against (`ref` is where the marker was drawn, `shown` what was queued on the other screens).
`pic` is the framebuffer as far as it can be wrong: which screen is on it, the status bar,
the marker, and which segments of the track are visible (`lines`) and saved under the marker
(`under`). `Second` is all of `purrgo_app_update` with the track service in it, a button is
one action with `ui_input_done`, `Render` a whole pass. A marker covers every segment: each
may run through its place. A segment is numbered from the newest, so a new point renumbers
the picture (`Appended`).

## Runs

| Run | Result | Shows |
|---|---|---|
| `track_logger` (`MCTrackLogger.cfg`) | holds | the track file and the drawn track under failing writes, syncs, opens, creates and power losses |
| `storage` (`MCStorage.cfg`) | holds | supply, card and loop in every interleaving |
| `low_supply` (`MCStorageLowSupply.cfg`) | violated | the card mounted on a failing supply |
| `track_service` (`MCTrackService.cfg`) | holds | pauses kept, recording comes back |
| `config` (`MCConfig.cfg`) | holds | the configuration file is one atomic cell |
| `failed_rename` (`MCConfigRename.cfg`) | violated | a save after a failed unlink or rename can lose all settings |
| `gnss_ring` (`MCGnssRing.cfg`) | holds | the parser's bytes through laps, errors and restarts |
| `gnss_mid_read` (`MCGnssRingMidRead.cfg`) | violated | an error between flag and counter hands out old bytes |
| `sector_cache` (`MCSectorCache.cfg`) | holds | reads return the file, through reused slots and failures |
| `cache_clobber` (`MCSectorCacheClobber.cfg`) | violated | a read that fails part-way spoils a valid entry |
| `eink` (`MCEink.cfg`) | holds | every picture is shown in the end, and rightly |
| `map_screen` (`MCMapScreen.cfg`) | holds | the screen becomes true and then quiet |

`track_logger` checks `TypeOK` (with: the buffer never overflows, a file is open
exactly while recording, so no path leaks a file slot); `StreamIntact` (file plus
buffer is exactly what was taken); `FilesWellFormed` (any file found after a power
loss is GPX, whole or cut once); `LossWindow` (fewer than `LOGGER_SYNC_POINTS`
accepted points are not on the card while recording); `RamTrackIsRecent` (the ring
and both accessors give the last points in order); `FilesOnlyGrow` (no step takes
back what a file holds) and `RecordingKeepsRamTrack` (as long as there is a file to record
to or to resume, the drawn track is not shortened: not by a change of day, not by a resume
after an error, and not by the new file that takes the place of one that cannot be resumed).

`storage` checks `StopsInOrder` (a supply stop under a working card gives the track
its footer and leaves nothing open), `SupplyDebounced` (the block changes only after
the supply has been seen that way long enough), `MapFilesOfThisMount` (after the loop
has seen a mount, no map handle and no remembered absence is from before it) and
`RecoversForGood` (with good supply and card from some time on, the card is mounted
and the track recorded for good).

`track_service` checks `TypeOK` (the byte counter never wraps), `BackoffKept` (no file
is opened sooner than the pause for the falls since the last lasting recording) and
`RecordsForGood`.

`config` checks `TypeOK` (with: the temporary file is open exactly between its open and
its close), `AtomicSettings` (the refinement of `SettingsCell`), `SavedMeansStored` (the
reader drops its flag only when the position is on the card) and `PositionSaved` (it is
saved in the end, also after failures and after leaving). The card may be pulled anywhere, and
the temporary file may fail in its open, write, sync and close.

`gnss_ring` checks `TypeOK` (with: the flag is up only with a stopped channel, nothing runs
while the receiver is off), `BytesInOrder` (the refinement of `ByteStream`: in order, at most
once, no gap without a reason) and `ReceptionResumes` (whatever state an error leaves the
channel in, it runs again).

`sector_cache` checks `TypeOK`, `CacheCoherent` (an entry that can be found is a sector of the
file its slot has open now), `NoDuplicates`, `LocksMatchSlots` (no failed close leaves a file
locked), `ReadsTheFile` (the refinement of `FileReads`) and `BlockStays` (storing one sector of
a block does not evict another).

`eink` checks `TypeOK`, `RestShowsFrame` (when nothing is under way or asked for, the glass
shows the framebuffer), `StartsFromTheGlass` (a gray partial update starts from what is on
the glass, which fails when one renders into a frame being sent), `NothingRefused` (the
driver starts nothing that the library refuses), `PowerOffShown` (a power-off that has not
given up leaves its picture and an idle panel, without power if the panel answers the sleep) and `ShownInTheEnd`.

`map_screen` checks `TypeOK` (with: in a book there is no fix and no recording), `TrackDrawn`
(with no drawing pending, every segment the logger holds is on the map), `TrackerStill` (the
screen of the tracker mode is never redrawn), `QuietInTheEnd` (when nothing changes the panel
is left alone, also with an unreadable map or a marker off the screen) and `TrueInTheEnd`
(while the clock goes on, fix, recording and marker become true and stay so; the status bar
alone is allowed to wait for the next minute, as in the code).

## Bounds

* Buffer of 5 units, strings of 2, 2 and 1: a buffer holds two strings, or the header
  and a point, and a flush may stop inside a string and between two. The code's 512
  bytes hold about four points; what matters is that strings wait, that one does not
  fit, and that a write tears one, and all three happen.
* `LOGGER_SYNC_POINTS = 4`: more than the points a buffer holds, as in the code (50
  against 4), so points reach FatFs before the sync.
* `LOGGER_OUTLIER_RESET_COUNT = 3` (5): one chain that breaks and one that completes.
* `TRACK_RAM_MAX_POINTS = 3` and `MaxPoints = 5` points in a behaviour: the ring wraps.
* `TrackIds = {0}`, `LOGGER_NAME_MAX_ATTEMPTS = 2`: every new file meets the names of
  the earlier ones, and names run out. The run was also made with `TrackIds = {0, 1}`
  (1.1 million states) with the same result.
* `lossyClose` and `probe` are not among the faults of the passing run: they break
  the promise in the comments they are about (below, and the hazard at
  `track_logger.c:325`).
* `Storage`: `LOW_CONFIRM = 1`, `RECOVER = 2`, `SD_RETRY_PERIOD = 2`, `MaxPass = 1`. They
  keep the order of the code's constants (50 ms, 5 s, and a retry of several
  seconds) as far as it matters: a stop may be confirmed on the second tick, a
  recovery takes longer than a stop, a retry can fall before, in and after it.
* `TrackService`: pauses 2, 3, 5 (5 s, 30 s, 5 min), a recording is stable after 3
  (60 s), the failure count stops at 4 (255). A fall before, at and after the
  stable time, and failures beyond the third, all happen.
* `Config`: three settings (the defaults and two others: old and new), `SAVE_TIMEOUT = 2`
  units (60 s), so a page can be turned before and after half of the time. Power
  losses, card changes and saves are not bounded. Five faults are not in the run `config`, and
  each of them breaks `AtomicSettings`: an unlink that reports an error with the file already
  gone (`unlink`) and a rename that fails after it (`rename`), which the run `failed_rename`
  shows; a write cut exactly at the end of a line (`writeCut`; recovery takes the text for
  whole); and at boot a failing search or a short read (`lookup`, `read`). `TypeOK`,
  `SavedMeansStored` and `PositionSaved` do not depend on this: the run was also made for them with
  all nine faults and two settings, and the first two are proved for every set of faults. A
  rename that works is atomic: both directory entries are in one directory, and FatFs writes that
  sector once. Left out of one that fails is an error between the two entries, after which both
  names lead to the one chain.
* `GnssRing`: a ring of 4 and 8 bytes, two laps, so that the writer overruns the reader and
  meets the place it started from; 2 errors (a restart that is hit again) and one switching
  off. The hardware ring is larger, but the code compares only equality of positions.
* `SectorCache`: two slots, three entries and blocks of two sectors, so a block fills all but
  one entry; a file of two sectors whose last is not full, and a second file that is written
  (one byte) and replaces it. Part-way failing reads (`PartFails`) are in `cache_clobber` only,
  which has one file.
* `Eink`: two rows and two colours: a region that is not the whole, and a merged one that is.
  Nothing is bounded.
* `MapScreen`: a ring of `TrackMax = 3` points (two segments, and one that drops out), two
  places of which one view shows both and the other one, and `EventsMax = 5` events: changes
  of fix, seconds in which the logger acts, mounts, stops, buttons. Seconds without, ripening
  and rendering are not counted. Five are enough to record three points and move the marker
  between them, or to record on one screen and come back from another. `CHECK_DEADLOCK FALSE`:
  in a book with no event left nothing happens. The run was made without this bound and with
  `TrackMax = 2` too (5.9 million states, safety only).
* The clock is 32 bits in the code and compared by differences; the wrap after 49
  days is not modelled.

## Fairness

`Storage`: `WF(Loop)`, the superloop is never left (power-off is not part of this
module); `SF(Service(TRUE))` and `SF(Poll)`, because a pass that skips the service or
the poll does so by a period of one second and of a quarter of a second, and the
period runs out again and again; `Service(TRUE)` also says that fixes keep arriving
and that points make the logger write, which a sync a minute ensures. Nothing is
assumed of the surroundings. `RecoversForGood` has their good behaviour as its
hypothesis.

`Config`: `WF(Step)` and `WF(Tick)`, a save or a boot goes on and the loop comes back to
the reader. `PositionSaved` has a good card, no power loss and no user in the end as its
hypothesis.

`GnssRing`: `WF(Loop)`, the loop calls `read_byte` on every pass; `SF(ErrorCallback)`, an
interrupt that is pending is served, although the model holds it off at one place.

`Eink`: `WF(Poll(TRUE))`, the loop polls and a panel that answers ends its jobs (a bad panel
may not); `WF(RetryTime)`, the pause ends; `WF(Render)`.

`MapScreen`: `WF` of a second in which nothing new happens, of `Ripens`, `GateEnds` and `Render`:
the loop comes round and the intervals end. The events need no fairness, and since they are
bounded every behaviour ends without them, which is the "in the end" of both properties.

`TrackService`: `WF(Second)`, the same loop. `TrackLogger` and
`SectorCache` have no liveness property and their specifications no fairness.

## What is proved

`TrackLoggerProofs` proves, for every value of the constants that satisfies the
named assumptions (`StrLenAssumption`: every string fits the empty buffer;
`TrackLoggerAssumption`: the sizes are positive and names are numbers):

* `TypeCorrect`: `Spec => []TypeOK`, for every set of faults;
* `StreamIsIntact`: `Spec => []StreamIntact`, when the card keeps what a close wrote;
* `FilesAreWellFormed`: `Spec => []FilesWellFormed`, on the same condition;
* `LossIsBounded`: `Spec => []LossWindow`, on the same condition and with
  `GPX_BUFFER_SIZE <= (LOGGER_SYNC_POINTS - 1) * StrLen["point"]` (the code: 512 bytes, 50
  points, and a point is longer than 11 bytes);
* `RamTrackStaysRecent`: `Spec => []RamTrackIsRecent`, for every set of faults;
* `CardFilesGrow`: `Spec => FilesOnlyGrow`, unless a file hides from the probe for a free
  name (`probe`);
* `RecordingKeepsTrack`: `Spec => RecordingKeepsRamTrack`, for every set of faults.

For the first two, neither formula is inductive, because a handler passes through states that are not
between two calls of it (the file closed and the state still RECORDING). The
inductive invariant `IInv` is `Sound(tl)`: in RECORDING a file is open and the file with
the buffer is the stream; in ERROR and IDLE none is, and the same holds of the file on
the card; in IDLE there is no name. Between two calls of a handler only part of it is
true, `Writing(w)` or `Resting(w)`, and there is one lemma for each call saying which
of them it takes to which; a lemma for each action composes them. The key lemma is
about `Written`: cutting the buffer anywhere and appending the first part to the file
does not change file plus buffer.

The others rest on `Full(tl)`, which adds three conjuncts to `Sound`. `Good`: the slots
before the head hold the last numbers given, each file on the card and the stream are
well formed, FatFs never has less of the open file than the card, and all points but the last
`unsynced` ones are on the card. `Track`: the stream of an unfinished file is a header and then the
points from some number up to the last, one after another (so that it is known where
each ends). `Timely`: while recording, the next sync has not come due, or FatFs and the card
agree about the file. The last is what bounds the loss: in the first case the missing
points are among the `unsynced` ones, and in the second, which is that of a recording just
resumed, they are those that end in the buffer, and it is there that the size of the
buffer matters.

`StorageProofs` proves, for every length of the debounce times, of the retry period and
of a pass (`StorageAssumption`):

* `StorageTypes`: `Spec => []TypeOK`;
* `StorageDrawsThisMount`: `Spec => []MapFilesOfThisMount`;
* `StorageDebouncesSupply`: `Spec => SupplyDebounced`;
* `StorageStopsInOrder`: `Spec => StopsInOrder`.

The loop notices a mount by comparing the state with the one it saw last, so it would miss
one if the card were given up and mounted again between two looks. `IInv` says why that does
not happen (`Noticed`): within a pass only a low supply gives the card up, its next
try is then a whole period away, and its Detect line has not moved. For the debouncing, `Counted`
relates the ticks the monitor has counted to the age of the supply's state.

`TrackServiceProofs` proves, for every three pauses that do not shrink, every bound of the
failure counter from 3 up and every stable time (`TrackServiceAssumption`):

* `ServiceTypeCorrect`: `Spec => []TypeOK`;
* `BackoffIsKept`: `Spec => BackoffKept`, the pause before every opening of a file.

`BackoffKept` compares the pause with a count of falls the service does not have, and
the service sees a fall one second late. The inductive invariant `IInv` therefore adds
two conjuncts to the type. `AgeHonest`: the service's `recordingFor` is never ahead of
the history's `steady`, so it forgives its failures no earlier than the history does.
`Paused`: the service counts at least the falls that happened (one fewer
while the last is unseen), and when it is not recording, the pause it has left and the
time already waited together cover the pause for them. One second is a chain of the service's functions
(`Ticked`, `Watched`, then the start, the point or nothing, then the history), and
`Linked` carries the relation of service and history through it, one lemma a link.

`ConfigProofs` proves, for every set of settings, every time-out and every subset of the
faults of the temporary file (`ConfigAssumption`, and `SafeFaults`: none of `lookup`,
`writeCut`, `unlink`, `rename` and `read`, which the run `config` leaves out for the same reason):

* `ConfigIsAtomic`: `Spec => AtomicSettings`, the refinement of `SettingsCell`;
* `ConfigKeepsOldSettings`: `Spec => OldSettingsSurvive`, which the run `failed_rename`
  shows to need the hypothesis for `unlink` and `rename`;

and for every set of faults:

* `ConfigTypes`: `Spec => []TypeOK`;
* `ConfigRemembersUnsaved`: `Spec => SavedMeansStored`.

A save makes six calls on the card and power may go between any two, so the inductive
invariant `IInv` says what each of them may rely on: which texts can be on the card at all
(`Texts`: only an unsynced write that loses its card ends at a line, and nothing but whole
texts ever gets the name PURRGO.CFG), what a save has done before its next call
(`SaveProgress`: no unlink before the temporary file is whole), what a recovery has found
(`BootProgress`), and that a device that holds its settings has them under the right name
(`Held`). After it come two lemmas per action: it keeps `IInv`, and it is a step of the
cell. The instant of a save is the unlink when there is an old file, and the sync or the
close when there is none, because a boot falls back on the temporary file. The two theorems for every fault have an invariant of their
own, `WInv`: with the faults, a boot may find anything, but the file that a save renames is
still the one it wrote and closed without an error.

`GnssRingProofs` proves, for every size of the ring and any number of bytes, errors and
switches (`GnssRingAssumption`):

* `GnssRingTypes`: `Spec => []TypeOK`, with interrupts anywhere;
* `GnssRingGivesStream`: `Spec => BytesInOrder`, the refinement of `ByteStream`, without `MidRead`;
* `GnssRingGivesNewBytes`: `Spec => []OnlyNewBytes`, without `MidRead`.

What a slot holds is known by its age, the distance back from the writer. While the channel
runs (`Live`), the slots written since its start hold the last numbers sent, in the order of
their ages; the reader has had none of those it still counts on, unless it was lapped, and then the
ring is full of bytes it has not had, if not in order. After an error (`Draining`) the slots from
`tail` to the place of the error hold consecutive numbers that come after all that was given out.

`SectorCacheProofs` proves, for every number of slots, entries and sectors, every set of
files and contents, with and without reads that fail part-way (`SectorCacheAssumption`):

* `TypeCorrect`: `Spec => []TypeOK`;
* `Coherent`: `Spec => []CacheCoherent`;
* `OneEntryEach`: `Spec => []NoDuplicates`;
* `LocksMatch`: `Spec => []LocksMatchSlots`;
* `BlockIsKept`: `Spec => BlockStays`;
* `ReadersSeeTheFile`: `Spec => ReadsTheFile`, the refinement of `FileReads`, for
  `PartFails = FALSE`.

A read is several steps, and what it holds in `call` between them must still be true when it
goes on: `IInv` adds to the type and to the two properties of the cache (`CacheParts`) that a
sector still to be stored is one the cache does not have (`WantedIsNew`), which is what
makes storing it without a look keep `NoDuplicates`. The locks are independent of the
cache: `LockInv` adds to `LocksMatchSlots` that whoever has a file open for writing is alone
with it (`WriterHasFile`). For `BlockIsKept`, `BlockSoFar` says that each sector of the block
is still to be stored, is the wanted one, or has an entry that is locked. For the refinement,
`ReadSoFar` says what a read has in the middle: exactly the bytes from the place of its slot
to its own, and that these and what is left make up what was asked for or what the file has, unless
the handle is sick. A turn of the loop keeps it because the entry it copies from is its sector
(`CacheCoherent`) and by arithmetic of places in sectors (`TurnNumbers`, `PieceOfSector`,
`GotMore`). `NextSeen` then maps every step: the start and the turns of a read, `Sync` and
`SetReadAhead` to stutters, `EndRead` to `Read`, a failed read, `Remount`, `Write`, `Replace` and
an open for writing to `Change`, which may not touch a file that a well handle has open
(`ReadersLock`, from `LockInv`). With `PartFails` the refinement does not hold: a read that fails
part-way may leave junk behind a valid key (the run `cache_clobber`), which the next read returns.

`MapScreenProofs` proves, for every ring of two points and more and any number of events
(`MapScreenAssumption`):

* `TypeCorrect`: `Spec => []TypeOK`;
* `TrackIsDrawn`: `Spec => []TrackDrawn`;
* `TrackerStands`: `Spec => TrackerStill`.

`TrackDrawn` speaks of the moments when no drawing is pending. `IInv` says what holds in
between: unless the whole map is to be drawn, all but the newest `undrawn` segments are on it
(`Older`), and as long as there are such the track flag is up; what is saved under a marker is
what is drawn (`Sound`), so taking the marker off takes no segment away; and in the tracker
mode no redraw is deferred. Every step but the renderer's only raises flags, and one lemma
(`Kept`) serves them all; the renderer lowers flags, and its three ways of drawing have a
lemma each.

`EinkProofs` proves, for every number of rows and colours (`EinkAssumption`):

* `EinkTypes`: `Spec => []TypeOK`;
* `EinkRestShowsFrame`: `Spec => []RestShowsFrame`;
* `EinkStartsFromGlass`: `Spec => StartsFromTheGlass`;
* `EinkNothingRefused`: `Spec => NothingRefused`;
* `EinkPowerOffShown`: `Spec => PowerOffShown`.

Each speaks of a moment (rest, a start, the last sleep) and needs to know what holds while
operations last, fail and overlap with requests. `IInv` has three parts. `Sound`, until standby: the
driver's idea of the panel's mode and sleep is right except while an operation is changing
them, its operation is the library's job, and no request is forgotten before what serves it has been
begun. `Shows`, in the loop: every row of the glass shows the framebuffer, or is asked for, or is
being sent, and `s_prev` is on a gray panel or on its way there. `Leaves`, from the power off on: the
last picture is asked for, or being sent, or there. In standby nothing polls any more, and a sleep
that the panel did not answer leaves the driver's idea of it behind; then
`Standing` takes the place of `Sound`: the types, no operation of the driver, an idle library. One lemma for each way an operation
ends, and one for each way the next begins, says that the three are kept, and `PollKeeps` composes
them in the order of `poll_core`. That the loop does not render while the library reads the
framebuffer is used in one place, `RenderKeeps`.

Model-checked only: `QuietInTheEnd` and `TrueInTheEnd` of `MapScreen` and the liveness of
`TrackService`, `Storage`, `Config`, `GnssRing` and `Eink`, which the proof system does not
reach.

## Where the code and its comments disagree

Shown by a run:

* **low_supply.** `include/purrgo/supply.h:53` says the card is unmounted and not touched
  until the voltage has recovered. `mount_card` looks at VDD of that instant, not at
  `purrgo_supply_storage_blocked()`: if the supply is good just at a retry, the card is
  mounted (and directories are made) while writing is blocked. Since the stop runs only
  when the block begins, a supply that then stays low leaves the card mounted.
* **failed_rename.** The comment at `src/core/config.c:637` says a power failure or a card
  error in the middle of writing leaves the old settings untouched. When the rename fails
  after the unlink, or `f_unlink` removes the entry and then reports an error of the clusters or
  of the sync (`ff.c:5152`, given up at `fs_hal_stm32.c:506`), they are only in the temporary file;
  nothing repairs that before the next
  boot, and the next save of the same session empties that file first.
* **gnss_mid_read.** The comments at `gnss_io.c:88` and `:410` say the position is not changed
  under a calculation in progress, and that the counter is not used after an error.
  `purrgo_gnss_read_byte` reads `gnss_rx_error_flag` and then the counter; when the
  interrupts of an error come between the two, the completion of the abort in
  `HAL_DMA_IRQHandler` has cleared the counter by then, zero is taken for the start of the ring, and
  bytes of an earlier lap are handed out again.
* **cache_clobber.** The comment at `fs_hal_stm32.c:189` relies on a valid entry holding the
  file's bytes. `read_cached_sector` reads straight into the victim and, when the read fails
  part-way, leaves it valid under its old key.

Met while reading, without a run of their own:

* The comment at `src/core/track_logger.c:504` says a point is not lost when the periodic sync
  fails. `sync_active_file` empties the buffer into FatFs before `f_sync`; when the sync fails
  and the close loses the data too (the fault `lossyClose` of `TrackLogger`), the points since
  the last sync are neither in the file nor in the buffer.
* The comment at `src/core/track_logger.c:268` says the drawn track must not disappear when
  recording goes over to a new file after a failure. `keep_ram` is set inside one call of
  `logger_start_impl`; if the new file cannot be created in that same call, the next start is an
  ordinary one and clears the ring (there is no name to resume any more, so `RecordingKeepsRamTrack`
  does not speak of it). A card that is away for longer than one retry does that.
* `E-books.md:146` limits the loss in the reader to the last 60 seconds of reading. Every page
  turn restarts the 60 seconds (`position_changed`), so turning a page more often than that
  keeps the position in RAM for as long as one reads.
* `include/purrgo/ui/ui_dirty.h:28` says redraws for data come no more often than
  `PURRGO_UI_MIN_DATA_REDRAW_MS`. The automatic following of the map (`map_controller.c:197`)
  marks the map at once.
* A marker that is off the screen, or has moved by less than the threshold in pixels, is never
  notified as drawn (`ui_map.c:716`, `:791`), so the position stays "changed"
  (`app_fsm.c:606`) and a pass of the renderer runs at every interval. It asks for no update of
  the panel, which is what `QuietInTheEnd` says.
* A fix that is lost and found between two seconds, with a redraw in between, leaves "NO-FIX"
  in the status bar until the minute changes.

## What is not modelled

Contents of strings, coordinates and geometry (`geo.c`, `map_projection.c`, `sun.c`,
`purrgo_time.c`): sequential arithmetic, covered by the host tests. The drawing itself
(`src/core/gfx`, `map_render.c`, most of `ui/`). NMEA parsing and the panel library come from
outside the repository; the configuration sentences sent to the receiver are not modelled.
Buttons are a polled state machine each, menus move a cursor; what they make happen is an
action of the modules above. The parsers of routes and waypoints keep the characters
collected so far, and a model would spell them out. The PC platform is a test double. In
`Storage` the SPI transfer is one step that works, fails, or loses the card, and the map's
files are one file. In `Eink`, power-off before the first picture is left out.

By far the most lines under `apps/stm32` are not the project's code: the vendor's HAL and
CMSIS headers, FatFs with its code page tables, fonts and other generated tables make up more
than nine tenths of the C in the repository, and none of them is modelled beyond what the
project's code sees of it (the calls of FatFs, the DMA channel, the interrupts). Measured on
all lines the covered share is therefore small.

`PROJECT.json` lists every component with its state, and every hazard with the properties that
cover it or the reason why none does.

## Plan

Done: `GpxFile`, `TrackLogger`, `Storage`, `TrackService`, `SettingsCell` and `Config`;
`FileReads` and `SectorCache`; `ByteStream` and `GnssRing`; `Epd4g` and `Eink`; `MapScreen`; the
theorems above. Left:

1. `TrackLogger` as the implementation of the interface that `Storage`, `TrackService` and
   `MapScreen` assume (a refinement mapping onto `state` and `name`).
2. The sequence of power-off across logger, reader, settings, map and panel as one module.
