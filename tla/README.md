# Formal models of the WDGWars payload

This directory holds TLA+ models of the wardriving payload under `src/wdgwars`
(Python, for the WiFi Pineapple Pager), the TLC runs that check them, and proofs
about most of them. `PROJECT.json` lists components, runs, mutants, the source lines
behind every definition, hazards, findings and theorems; this file says how to read
it.

    tlc -workers 2 -config MCSync.cfg MCSync.tla      # a run: MC module + .cfg
    tlapm SyncProofs.tla                              # the proofs of a module

## 1. The system

One process on the Pager. A GPS thread follows `gpsd`; one or two scanner threads
listen to WiFi and BLE; the main thread drains their queues, asks the GPS history
where the car was, passes each observation through a gate, and writes CSV rows.
Later the user syncs the CSV files to a server. A shell loop around the process can
hand the screen over to other payloads.

| Part (source) | State | Operations | Module |
|---|---|---|---|
| CSV writer (`storage/session.py`) | file handle, byte counter, two timers, rows in buffer / page cache / disk | write, timed flush and fsync, flush, rotate, close | `SessionWriter`, `DurableLog` |
| Gate (`session.py` `_gate`, `storage/dedup.py`) | table of the latest row per device | `should_write`, prune, evict | `GeoDedup` |
| GPS (`scanners/gps.py`) | live fix, history of samples | connect, TPV, SKY, `at(t)`, restart | `GpsHistory` |
| Scanner threads (`wifi.py`, `monitor.py`, `ble.py`) | window, batch, bounded queue, child process | collect, flush, overflow, stop | `ScanQueue` |
| Their parsers | kept identities (`_info`), device names, windows | frame, line, sweep to observation | `Observations` of `MonitorCapture`, `BleEvents`, `AuthMode`, `Channels` |
| Scan loop (`wdgwars.py` `_live_scan`) | paused, drained list, dialog, counters | start, drain, write or discard, pause, end, exceptions | `LiveScan` (with the threads), `ScanSession` (with gate and file) |
| Radio (`iface.py`, `_start_wifi`, band plan, hop thread) | interface, rotation, failures per band, bad frequencies | pick, fall back, sweep, hop | `Radio` |
| Uploader (`uploader/wdgwars.py`) | tries, route, polls, staged body | stage, send, poll, retry, escalate | `Uploader` |
| Sync (`wdgwars.py` `_action_sync`, markers in `session.py`) | pending files, `.uploaded`, `.error` | list, upload, mark | `Sync` |
| Dialogs, menus, idle dimming (`ui/`) | asleep, last activity, brightness, dim level, queue of button events | tick, wake, wait for a button, drain | `Screen` |
| Settings (`load_config`, `save_config`, CONFIG) | `config.json`, `cfg`, what is in effect | load, change, save, restart of the GPS reader | `Settings` |
| Handoff (`handoff.py`, `payload.sh`) | `.next_payload`, exit codes, the pager's service | pick, write, exit 42, launch, trap | `Handoff` |
| Drawing (`ui/status.py`, `theme.py`, `framebuf.py`) | none that decides anything | draw | not modelled |
| Bootstrap (`payload.sh` before its loop) | installed packages | install, copy | not modelled |

How they interact: scanner threads and scan loop share a `queue.Queue` and the
objects' `_stop` and `_proc` (no lock between the calls); GPS thread and scan loop
share `GpsState` under a lock; writer and sync share the session directory and its
marker files; scan loop, menus and dialogs share the idle manager and the driver's
queue of events; the uploader and the server share nothing but requests that may be
lost on either way; programs and shells share `.next_payload` and an exit code.

What is hard here: steps of two threads between two queue calls or two halves of a
condition; a process that may be killed, or lose power, at any moment; observations
placed after the fact, by a history trimmed and interrupted meanwhile, under a clock
that is set; answers that get lost after the server has acted; nested retries;
bounded tables and queues at their limit; caches that outlive what they describe;
I/O calls that fail and are swallowed; a button pressed on one screen and read on the
next. `PROJECT.json` `hazards` has each at its line with the properties that would
catch it.

## 2. The modules

**DurableLog** is the abstract specification of a session: a log that grows, whose
durable part is a beginning of it, never shrinks, and is all of it after close.

**SessionWriter** follows a row through three places (Python's file object, page
cache, disk; or `lost`). `WriteRow` is `_write_row` up to the rotation: write,
count, timed flush, and fsync only if a flush was due. When the byte counter says so,
`RotateClose` (flush, fsync, close) and `RotateOpen` (open with "w", header) follow as
steps of their own, so that a crash may come in between. `Flush` is what pausing and
the end dialog call, `Close` what the end of a session calls. `Faults` names the I/O
calls that may fail; failures are swallowed where the code swallows them and raised
where it does not. A flush can fail in two ways. Python's file object is text over a
64 KiB buffer: `TextIOWrapper.flush()` forgets its pending text before it hands it on,
so when the buffer has no room and cannot be written out the text is gone (`room`,
`TextLost`); when the buffer has taken it and is then written out with an error, what
was not written stays (`flush`). `Kill` loses the buffer, `PowerCut` keeps a beginning
of what the kernel held of each file. A row is its length, its time and its file; its
text is abstracted.

**GeoDedup**: `Adds` is the time/move/signal test; `Evictions` all that
`_maybe_prune` may drop (ties leave a choice); times come in up to `Lag` late.

**GpsHistory**: `_record` clamps and trims, `TpvFix`, `TpvNoFix` and `Sky` are the
branches of `_apply`; `Connect`, `Disconnect` and `Restart` the reader thread; `at`
is bisection, interpolation and nearest-sample of the code over one coordinate,
as an exact fraction. `Hear` remembers where the car really was when something was
heard, so that properties may ask `at` later. `StepBack` sets the wall clock back.
**Placement** puts the history and the gate side by side for the run: the gate reads no
more of the GPS than the fix an observation comes with, so a behaviour follows one.

**ScanQueue** is one scanner thread of a chosen backend (`iw`, `monitor`, `ble`),
with the overflow of the queue in its three calls (`Put`, `GetOldest`/`GetEmpty`,
`PutAgain`); `Poll` and `PollRaises` split BLE's loop condition. **LiveScan**
extends it by the scan loop, and takes one batch at a time off the queue, so that
`drain` interleaves too.

**ScanSession** is a whole scan from `_live_scan`'s first line to SAVED or to the
error screen: both scanners, gate, counters and file, each reduced to what the others
see of it, and an exception at every place that may raise (opening the session,
writing a row, rotating after it, anything else in the loop). A queue holds `QueueMax`
observations and gives up the oldest (`HearFull`); what it gives up while it is drained
may be another, since the calls of the two threads are those of `LiveScan`. `Stop` may
give up on a thread (`strays`), which then goes on putting observations that are marked
late. A rotation that fails leaves no file, or one without its header, which the last
drain writes to before the next `_open_file` empties it. `log` and `fate` say what was
heard and what became of each observation.

**Observations** composes what turns air into observations; one part is followed per
behaviour since they share no state. **MonitorCapture** is `_handle_packet`: the cache
of identities, the frequency of a frame against the channel in its elements
(`Channels`), the window, broken checksums. **BleEvents** is one turn of `_run`'s loop
per line of `bluetoothctl`. **AuthMode** has both backends spell the security of the
same AP: `_auth_from_rsn` of a frame that the snaplen may have cut, `_parse_iw` of
iw's text in its two forms (`Sections`: the sweep also finds "WPS:" in the line of the
name), and `build_auth()` over what each has found. **Channels**
has the conversions between channel and frequency, by which a row says one place.

**Selection** has the two things the models do to lists and dictionaries, selecting
(`Only`) and assigning (`Put`), as recursive functions and plain ones: the library's
operators for them take operators as arguments, which the provers do not follow.

**Radio**: `PickWifi` is `pick_wifi_source`, `FallBack` the failed start of monitor
capture with its second pick; `NextBand`, `SweepOk`, `FlushRefused`, `SweepFailed`
and `SweepRaises` are `WifiScanner._run` and `_next_band`; `HopSkip`, `HopTo`,
`HopRejected`, `HopRaises` one turn each of the hop loop, over the list that
`HopPlan`/`Woven` builds with its repeats. The set of supported frequencies is
abstracted to the bands it leaves non-empty.

**Uploader** has one request after the other (`Stage`, `Send`, `Answer`, `Poll`,
`Retry`) against a server that imports at once (v1) or queues a job (v2), whose
answer may be lost or replaced by a gateway error. **Sync** extends it by the
pending files, both markers, crashes and restarts.

**Screen** is the idle manager under the four loops that wait for a button: `Tick`
and one event per turn, `wake_consume()` and the draining that follows it where the
loop has one, the screens a button leads to (`Leads`), the settings that move the
backlight, and screens during which nobody looks (`Busy`). The user presses and
releases one button at a time; the driver queues.

**Settings** keeps `config.json`, the dictionary in memory and what is in effect
apart, and takes the save in its two steps (truncate, write), with kills and full disks
in between and edits over SSH at any time. `beside` says that the file was edited since
the program last read or wrote it; `wanted` is the key that the history of changes,
saves and edits leaves.

**Handoff** has one shell loop and the program under it, with the files of all
programs, so that a jump from a program that was itself jumped to leaves its file
where the shell does not look. **Application** puts handoff and settings side by side
for the run, one of the two to a behaviour.

Each `MC*.tla` gives the constants that a `.cfg` cannot write down.

## 3. The runs

| Run | Shows | Bounds, and why they do |
|---|---|---|
| `session_writer` | loss on kill or power cut is bounded by the flush and fsync intervals; close keeps all; rotation lengths; failed flushes leave no hole unless text was dropped; a step takes back no durable row but a latest one whose file has no header; refines `DurableLog` | 3 rows, 3 ticks, sizes 1 and 3, files of 4 with a header of 1: two rotations, by the exact limit and over it; both timers run out; every I/O call may fail at every place |
| `session_durable` | a finding below | as above, headers fail only |
| `placement` | history sorted, placement near the truth, dropouts not bridged; refused is covered, rows add, table bounded | history of 2, trimmed by 1; six ticks exceed the longest silence bridged (4 times `MaxGap`); 3 reports: a line, and a sample after it; one step back of the clock. 5 devices for 4 entries (the least at which a quarter is an entry), 6 sightings |
| `live_scan` | order, accounting, drop counter, strongest sighting, nothing left behind | queue of 2, three observations of two devices, all three backends: a full queue, raced by a drain |
| `ble_stop` | a finding below | smallest queue |
| `scan_session` | every device heard with a fix has a row, the losses named aside; counters, gate and file agree; all is closed; the scan ends | two devices on two sides, queues of two, three observations: a row, its duplicate, one of another side or without fix, a full queue, one that is late; every kind of fault, a rotation that fails twice |
| `observations` | names kept, no ghosts, one place per row and the right one, BLE names and strengths, where the spellings of an AP's security may differ | one AP, two signals, a frequency in each of 2.4 (two) and 6 GHz (the odd channel 2), four time stamps, one broken frame; two BLE devices, two odd lines; every AP with up to three of 15 suites: all of `_RSN_AKMS` and one (14) that is in neither table, so that each bracket and each pair of them comes up |
| `spelling` | a finding below | as above |
| `radio` | fall-back can scan; the retry keeps its band; retirement only after failures; every working band and frequency comes back | real limit of 3 failures, a plan with a repeat and one with `all`, 4 frequencies of which 2 are anchors (one repeat in the list), 4 listings |
| `sync` | marker implies import, duplicates have a cause, staged bodies removed, every sync ends | 2 files (v1 and v2), 2 syncs, 1 crash, 2 tries, 2 polls: escalation, a retry after each kind of failure, a restart in every state |
| `screen` | panel follows the manager, dark presses only wake, light goes out in time, and for good | timeout of one second, ages to two, two events in the queue (a press and its release, or what follows a wake-up), two brightness levels, one step back of the clock |
| `application` | key, settings and reader agree across changes, restarts, cut-short saves and edits beside the program; only a fresh pick is launched; a jump arrives; the service comes back | two keys, two devices in every order, one edit over SSH, brightness 5..15 instead of 5..100, in the code's own steps of 10 and 5: a dim level may be pushed down and come back; three programs: the shell's own, one jumped to, one it jumps to |

Several properties are conjunctions of named parts, one per promise: `QueueKept`,
`FilesTidy`, `RotationSound`, `PanelInStep`, `LightFollowsUser`, `FatesAgree`,
`PagerGetsOn`, `SettingsAgree`, `IdentityKept`, `PlaceSound`, `DevicesDescribed`,
`SpelledSoundly`. Each part has its comment where it is defined. Those that start
with a module's type invariant are the only place where the run checks it; the types
of the writer, the GPS, the scan and the handoff are proved and not checked again.

Devices are interchangeable in `live_scan` (symmetry, safety only) and at the gate
(named in the order of their first rows). `CHECK_DEADLOCK FALSE` where the system or
its bounds really stop: a session that is closed, a thread that has ended, a bound
that is reached. `application` never stops and is checked for deadlock.
Every property of a passing run has a mutant, an operator next to the definition it
would replace, commented as such, that makes the run fail.

**Fairness.** All of it is weak, and of the program alone.
`Sync`: the program's next step, since every request has a socket timeout and every
poll counts towards the deadline. `Radio`: the thread that runs, since every `iw` is
run with a timeout and what happens then is one of the actions; each sweep may fail.
`Screen`: the loop on show and the passing of seconds; nothing of the user, who may
press for ever. `ScanSession`: the steps of `_live_scan`, since no call in it waits
without a timeout; nothing of the scanners or of the user ending the scan (`ScanEnds`
starts where he has). `Application`: the shell of the handoff, which does nothing but
wait for the program it started; nothing of that program. The other specifications
state no fairness and no liveness.

**Findings**, each the counterexample of a run:

- `ble_stop`, `LastWindowHandedOver`, `ble.py:163`. `stop()` clears `_proc` between the
  halves of the loop condition; the thread dies of the exception before its last flush,
  of which the comment promises that it hands over the last window.
- `session_durable`, `DurableStaysDurable`, `session.py:75`. A header that fails leaves
  the file open, uncounted, with the byte counter of the full file before it. The row
  that the last drain writes there is made durable by the `close()` of its own rotation,
  and the `_open_file()` behind that empties the path; `session.py:7-9` has the fsync
  give durability. `TakesBackOnlyLatest`, checked and proved for all faults, says that
  this is the only way and costs one row.
- `spelling`, `SpelledAlike`, `monitor.py:125`. Suites 11 and 13 are EAP and Suite B for
  the monitor backend and the other way round for the words of iw's names, and 19 and 20
  have no name the sweep backend knows, against `wigle_auth.py:3-6`. `ApartNowhereElse`,
  checked and proved for any suites, says that the spellings of a whole frame differ in
  nothing else, a name that holds "WPS:" aside (`wifi.py:278`).

**Promises the code does not keep.** Each of these is a definition at the end of its
module that no `.cfg` checks; named in the `.cfg` given, it has TLC show the
counterexample.

| Definition | Add it to | What the code does |
|---|---|---|
| `NewestKept` | `MCLiveScan.cfg` | A drain between `Full` and `get_nowait` leaves room, but the newest batch is the one dropped (`wifi.py:490`, `monitor.py:576-588`), against the comment at `wifi.py:488`. |
| `AllRejectedEndsHopping` | `MCRadio.cfg` | A set of bad frequencies is compared with a list that repeats the anchors (`monitor.py:441`): the thread spins and reports nothing. |
| `NoSecondJob` | `MCSync.cfg` | A gateway error on one poll uploads the file again (`uploader/wdgwars.py:261`), as a second job, while the first still runs (comment at 267). |
| `ZeroMoveIsTimeBased` | `MCPlacement.cfg` with `MinMove = 0` | The distance test is then true of everything (`dedup.py:106`) and every sighting a row; `README.md:240` promises time-based behaviour. |
| `CountedReachedFile` | `MCSessionWriter.cfg` | `rows_written` counts rows that a swallowed flush error has lost (`session.py:99-130`), while `ui/status.py:24` says "rows that actually reached the CSV". |
| `WakeDoesNotAbort` | `MCScreen.cfg` | `wait_with` does not look at the kind of event (`dialog.py:137`): the release of the button that woke the screen aborts the wait that the comment at 133 says goes on. |
| `BacklightBounded` | `MCScreen.cfg` | During requests, and starting or stopping a scan, nobody ticks: the light stays on past the timeout of `idle.py:1`. |
| `PickIsNext` | `MCApplication.cfg` | A program reached by a jump runs without its own shell loop: when it exits with 42 the first shell finds its own file gone (`payload.sh:204`) and starts over with itself, against `handoff.py:6-7`. |
| `ChosenDeviceIsRead` | `MCApplication.cfg` | The reader ignores the devices it is given (`gps.py:203`) and reports whichever gpsd reads; `README.md:112` and `wdgwars.py:733` have the choice take effect. |

Also seen: a WPA network whose frame the snaplen cuts in front of its key elements is
spelled WEP (`monitor.py:290`, `wigle_auth.py` with privacy and no keys); `CutAddsOnlyWep`
has it as the one bracket a cut may add.

## 4. The proofs

The `*Proofs` modules prove theorems about the modules they extend, for every value
of the constants that the named `ASSUME`s there allow, the bounds of the runs included:
they are arbitrary numbers. Faults, crashes and interleavings are as in the model. Every
safety invariant and every action property that a run checks is a theorem, and so is the
refinement. The invariants named below were first checked by TLC on the runs' instances.

What is assumed of the constants beyond their types, and why the code justifies it:

- `FilesAreFinite` (Uploader): a directory lists finitely many session files;
- `NamesTellTypes` (Radio): in all listings of `iw dev` an interface keeps its type, and
  one that is named like a monitor is one. `pick_wifi_source` tells them by the name.
- `FreqsAreChannels` (MonitorCapture): outside 6 GHz an access point is on a channel with
  a number of its own. For the 4.9 GHz channels of Japan `_freq_from_channel` is not the
  inverse of `_channel_from_freq`, and a row may then say two places.

`Spec`, `GateSpec`, `HandoffSpec` and `SettingsSpec` in the theorems are the components'
own specifications; the runs of `placement` and `application` follow one of them in each
behaviour and leave the variables of the other alone.

- **SessionWriterProofs**: `WriterTypeOK`, `WriterDurableIsBeginning`,
  `WriterLossIsBounded`, `WriterKillLossIsBounded`, `WriterCloseKeepsAll`: none of the
  last four is inductive. A row's age is bounded only because of where it may be while
  the session runs: what is buffered was written since the last flush; what is not
  durable is in the current file and was written since the last fsync; and what is
  older than the flush timer was younger than `FsyncI` when that timer was set, since a
  flush at that moment found no fsync due. `CrashInv` says this (`Live`, `Ordered`,
  `Lag`, `BufferLag`), and what a kill and a power cut leave of it.
  Between the two steps of a rotation every row is durable.
  `WriterTakesBackOnlyLatest`, with any faults: the danger is `_open_file` emptying a
  path in use, after a header that failed; `OpenInv` says such a session rotates with
  every row, so that under that path no row but the latest is durable.
  `WriterImplementsLog`: the refinement of `DurableLog`, for any `Faults` and up to the
  first call that fails. `WriterFileHasNoHoles`, unless text was dropped for want of room
  or a header failed: `Filing` adds that only the file being written has buffered
  rows, that it has lost none, and that of a file what is durable comes before what the
  kernel holds; a flush that stops half way then leaves nothing to be overtaken.
  `WriterFileLengths`: the counter and the file never meet in the code, so the length of a
  file is defined as a recursion over the rows and followed through the step that adds one
  (`LengthGrows`, `LengthKept`, `LengthEmpty`).
- **PlacementProofs**, the GPS history: `GpsTypeOK` (the history never longer than
  `HistMax`), `GpsHistorySorted`, `GpsFixJudgedByLatest`, by induction on their conjunction
  `HistInv`: no sample is later than the time `_record` gives the next one, and what is
  left after trimming is an end of a sorted history. `GpsTaggedNearTruth` and
  `GpsDropoutNotBridged` need `PlaceInv`: what the car can have driven since bounds how far
  it is from every sample and every observation (`NearCar`), hence those from each other
  (`NearHeard`), and between a position and what was heard in a dropout after it lies the
  sample of the dropout (`DropSeen`). `at()` is then taken apart: the bisection finds the
  bracketing pair (`BisectFacts`), the nearest sample is near (`SampleNear`), and so is a
  point on a line between two near ends, the line being a fraction with a variable
  denominator (`LineNear`).
- **PlacementProofs**, the gate: its three properties. `Table` says that the
  table holds each device's latest row, and that who has a row and is not in the table was
  driven out or is stale; `RowsAdd` follows from the ages, the bound from counting a
  quarter.
- **ObservationsProofs**: `IdentityKeptAlways` and `PlaceSoundAlways` from `CaptureInv`:
  what was told is in the cache (`ToldIsKnown`), and what the cache says of an access point
  is where it is or was read before it moved (`CacheIsFresh`); `ResolveAgrees` is the
  arithmetic of `_resolve_channel` for every frequency and channel number.
  `DevicesDescribedAlways`: besides the property, the device whose lines are read is the
  one the program takes them for (`BleInv`). `SpelledSoundlyAlways`, for any
  suites: each backend has said nothing yet, or what its formatter makes of the access
  point (`AuthInv`); the rest compares the two, where the tables agree and where not.
- **LiveScanProofs**: types with the queue's bound, `LiveNothingLeftBehind`,
  `LiveStrongestWritten`, `LiveQueueKept`, `LiveEveryWindowAccounted`. `Hands` says when
  a batch is in hand and that a thread that has ended fills nothing; `BestKept` that
  every batch on its way, in the three calls of the overflow as well, holds the
  strongest of a window that is closed. For the order, `InLine` says that windows go up
  from the file through the list and the queue to the batch being put, `Closed` that
  none of them is still open, and `Apart` and `Counted` that a closed window is in one
  place only or counted as dropped.
- **ScanSessionProofs**: `ScanAllClosed`, `ScanFatesAgree`, `ScanFixedHasRow`, for any
  size of the queues and with threads that outlive `stop()`. `Placed`
  and `InOrder` say that what waits is in one place and was heard after what is dealt
  with; `Control` what the place in the program says of scanners, file and failures;
  `LastDrain` that what is left in a queue behind the last drain is late; `FateInv` what
  the gate's table has rows for, and that every loss has one of the named causes;
  `Counted` sets the counters against the rows and the rotations that failed.
- **ScreenProofs**: `ScreenPanelInStep`, `ScreenDimsInTime`, `ScreenDarkPressOnlyWakes`
  from `InLoop` (where a loop may be) and `InTime` (unless the clock was set back, the
  manager counts at least the seconds that have passed).
- **SyncProofs**: `SyncFilesTidy`, `SyncMarkedIsImported`, `SyncDuplicatesExplained`.
  The last is an inequality that no step keeps by itself: `Accounted` sets, for every
  file, what was or may still be imported against what was not noted, what is marked,
  and the request in progress; `JobKnown` says what that request's fate can be, and
  `InHand` that the file in hand is not marked. `Bodies` counts what is staged.
  `SyncWorkGoesDown`: `Work`, a natural number, counts the steps that files, tries and
  polls leave to a sync at most; every step of the program lowers it and during a sync
  nothing raises it. What is left to TLC of `SyncEnds` is the step from there to
  liveness: that the program, until it is idle, always can go on.
- **AppProofs**, the handoff: `HandoffTypeOK` and `HandoffTargetIsFresh`, from `PickInv`:
  the pick stays the file's content until the shell has read it.
- **AppProofs**, the settings: `SettingsAgreeAlways`. A file that is whole holds the key
  wanted, and one that a save has left cut short wants none (`Held`); between two changes
  it holds what memory holds, an edit beside the program aside, and what is in effect is
  what memory says, a reader still to be restarted and a dim level pushed down by the
  brightness aside (`InMenu`).
- **AppProofs**, the radio: `RotationSoundAlways`. `Rotation` says which slot of the plan
  the band in hand came from, and that a refused band is the one the next turn finds, with
  whatever retired bands between; `Counted` that the last answers for a band are the
  failures counted for it. `FallBackCanScanAlways`: what monitor capture is tried on is a
  monitor (`TriedOnMonitor`), so the fall-back cannot get it again. `HopPlanCovers`: the
  hop list has the supported frequencies and no others, a recursion over the list.

Only model-checked: all liveness (`SyncEnds`, `ScanEnds`, `EveryBandAgain`,
`GoodFreqAgain`, `LightFollowsUser`, `PagerGetsOn`), since fairness is stated with
`ENABLED`, which is out of the prover's reach; and the runs that show the findings.
Recursive functions are unfolded by explicit induction over sets of numbers
(`NatSetInduction`): the library's induction theorems take operators as arguments.

## 5. What is left out, and why

- Row and screen formatting and the drawing: no property is about them. Of the
  parsers, the byte offsets of radiotap and elements and the splitting of iw's text:
  stateless, unit tested, and a string at a time out of TLC's reach.
- A session's file names have the resolution of a second and are opened with "w"
  (`session.py:67`): a second session within one, or a clock set back, empties the first
  one's files. The model has one session per behaviour; the hazard is listed.
- tcpdump that dies is not restarted; the session goes on without WiFi
  (`monitor.py:491`). The model has the end of the thread; nothing is promised of it.
- The two scanner threads of a full session are looked at one at a time in `LiveScan`,
  since they share nothing but the scan loop; `ScanSession` has both.
- Wrong answers of the server (a 2xx that means failure) are not modelled.
- SESSIONS, UPLOAD LOG and TEST CONNECTION read and show: `Screen` has them as screens.
- Of the other payloads only that they follow the same protocol of handoff.
- `TtlDedup` and `GeoDedup.reset` have no caller; the bootstrap runs package tools before
  the program, with no state of its own.

## 6. Plan

Done: DurableLog and SessionWriter, GpsHistory, ScanQueue/LiveScan, Uploader/Sync,
GeoDedup, Radio, Screen, ScanSession, Handoff, Settings, Observations, and the proofs
of section 4.

Left, the proofs: the step from safety towards the other liveness properties, a measure
like that of `SyncWorkGoesDown` for a scan's end. Left, the model: two sessions in one
directory with the clock that names their files, composed with `Sync`'s view of the
markers.
