# A verification of afrd in TLA+

afrd, the automatic frame rate daemon for Amlogic set-top boxes, watches the
video decoders of the kernel and switches the HDMI mode to the frame rate of
the movie that plays, then back. This directory holds TLA+ models of it, the
TLC configurations that check them on small instances, and proofs that TLAPS
checks for every instance. Line numbers refer to the sources beside this
directory (`src/`).

## The system and its components

| Component | Source | State | Operations | What makes it correct |
|---|---|---|---|---|
| Control loop | `afrd.c` | `g_state` (saved mode, rate, restore flag, statistics), seven timers and stamps, `g_current_mode`, `g_blackened` | handlers of uevents, API requests and timers; switch, blackout, restore; init, run, fini | the user's mode comes back; the screen is never left black; detection ends; what clients see is the state |
| Display modes | `modes.c` | `g_modes`, `g_current_mode`, the sysfs attributes `mode` and `frac_rate_policy` | read the modes of the display, ask for the current one, switch, go to "null" | the cached mode is the one the kernel shows, the fraction included |
| HDCP | `hdcp.c` | `g_hdcp_enabled` | init, restore, periodic check | HDCP that was on is switched on again |
| Millisecond timers | `mstime.h`, `mstime.c`, `afrd.c` 981-1018 | `g_mstime`, the 32-bit words of the timers | arm, disable, expired, running, adjustment after a change of the clock | no timer is lost, early or late at the wrap-around or when the clock is set |
| Frame rate detection | `afrd.c` 101-556 | `g_state.hz_stat`, `hz`, `hz_ost` | sample three files of the driver, accept hints, weigh | a rate is used only when confirmed; a steady source is not starved |
| Mode search | `afrd.c` 221-273, 633-705; `modes.c` 71-140, 176-230 | the list `g_modes` | list the modes, the best mode for a rate | the mode shows every frame an equal number of times, in an allowed variant |
| Daemon life cycle | `main.c` | `g_shutdown`, the PID file `afrd.pid` | the init/run/fini loop, signals, daemonize, kill | one daemon; every way out restores the display |
| Configuration | `cfg.c`, `cfg_parse/`, `Config.java` | `g_cfg`, the file `afrd.ini` | load, reload on change, save by the application | a change is loaded in the end, also one that meets the file half replaced |
| Shared memory status | `shmem.c`, `Status.java` | the file `afrd.ipc`, a page with size and two checksums, mapped by its clients | init, update, read, emergency, remove | a client never takes a torn page for a status, never goes back to an older one, and finds the page of the next daemon |
| API socket | `apisock.c` | the datagram socket | frame_rate_hint, refresh_rate, reconf, status, color_space | as the control loop's |
| Uevent filter | `uevent_filter.c` | compiled patterns | match a netlink message | |
| Color space | `colorspace.c` | `g_cs_default`, `g_cs_supported`, the override, the sysfs attribute `attr` | read list and default, override, write `attr` for a mode | the color space on the screen is the one chosen for the mode, whatever came before |
| Supervision | `AFRService.java`, `FailureDetector.java`, `Control.java` | the count and time of failures, the mapped page | look at the status, restart a dead or outdated daemon | in the end a daemon of the application's version runs, and the service has its page |
| Application UI | `MainActivity.java` ... | | presentation | |
| sysfs, strings, properties | `sysfs.c`, `strfun.c`, `androp.c` | none | I/O | |
| Build, installation | `GNUmakefile`, `install/` | | | |

How they interact: the kernel sends uevents over netlink (decoder added or
removed, FRAME_RATE_HINT from the player, HDMI plugged, HDCP lost); clients
send datagrams to the API socket and read the status page; the application
writes the configuration file and starts and stops the daemon. Everything the
daemon does happens in one thread, `afrd_run`: an iteration refreshes the
clock, sleeps in `poll`, refreshes the clock, drains the uevents, serves one
datagram and tests the timers in a fixed order. There are no locks, and inside
the daemon no interleaving of handlers; what is hard is

* the order of handlers: uevents of decoders that overlap are not counted, any
  of them may cancel or replace a timer another one needs;
* the outside world moving between two handlers: the link goes off, the user
  changes the mode, the file changes, HDCP drops;
* two copies of one fact: `g_current_mode` and the kernel's mode, `g_blackened`
  and the mode "null", `g_afrd_stats` and `g_state`, the file's mtime and what
  was loaded;
* being ended anywhere: SIGTERM, a reload, a fault whose handler restores the
  display from whatever state it finds;
* other processes: the page is written and read without locks, the PID file and
  `afrd.ipc` belong to whichever daemon made them last, and the configuration
  file has no name for a moment whenever it is saved;
* a 32-bit clock that wraps and that may be set;
* detection from sources that disagree, fail or come late.

`PROJECT.json` lists these as hazards, each at its line with the properties
that cover it.

## Modules and how they correspond to the code

### Afrd

The whole of the daemon's decisions: one thread, so `pc` names the part of the
iteration that comes next and each action is one handler run to its end.

| In `Afrd` | In the code |
|---|---|
| `AfrdInit`, `Prologue` | `afrd_init`; the start of `afrd_run` up to its loop |
| `Poll` | `poll` and the clock updates around it: timers become due here and nowhere else |
| `VdecAdd`, `VdecRemove`, `FrhintStart`, `FrhintEnd`, `HdmiUevent`, `HdcpUevent`, `UeventsDone` | `handle_uevents` and the branches of `handle_uevent` |
| `ApiFrameRateHint`, `ApiRefreshRate`, `ApiReconf`, `ApiDone` | the commands of `apisock.c` and what they call |
| `Blackout`, `Switch`, `Hdmi`, `CheckConfig`, `HdcpCheck` | the timers, in the order `afrd_run` tests them |
| `Leave`, `FinalRestore` | the end of the loop, of `afrd_run`, and `afrd_fini` |
| `DelayFramerateSwitch` and its parts | `delay_framerate_switch` |
| `FramerateSwitch`, `Detect`, `SwitchToHz`, `FramerateRestore` | `framerate_switch`, `framerate_restore` |
| `DisplayModeSwitch`, `WriteMode` | `display_mode_switch`, and the kernel it writes to |
| `Signal`, `Crash` | `signal_handler`; `signal_emerg` with `afrd_emerg` |
| `UserMode`, `HdmiPlug`, `HdcpDrop`, `WriteConfig` | the outside world, between any two parts |

Abstractions, and why they lose nothing the properties see:

* *Time.* The code compares timers with `g_mstime`, which only `Poll` moves. A
  timer is `"off"`, `"run"` or `"due"`; a `Poll` makes any of the running ones
  due, whichever the delays in the configuration would allow and all the
  others. A delay of zero makes a timer due at once, so the configuration keeps
  of each delay only whether it is zero. `ost_off` and `ost_hdcp` are stamps
  that only an event looks at, so they fade away (`Faded`).
* *Rates.* What a detection finds is any rate or none (`Detect`); module
  `FpsDetect` is about what it may be.
* *Mode search.* `cfg.best` maps each rate to the mode the search settles on,
  or to none: the search is a function of the configuration and the display's
  modes. `ModeSelect` is about that function; `MCAfrd` fills `best` with
  tables and assumes (`SearchAssumption`, evaluated by every run) that they are
  what `Modes!BestMode` finds in the instance's list. The proofs hold for any
  function.
* *The kernel.* `hw` is what sysfs would answer: the mode, the fractional
  policy last written, the fraction in effect and whether HDCP is on. Writing
  the mode in use changes nothing, the reason for the detour over "null" in
  `display_mode_switch`. A mode's attributes are its name, whether it has a
  fractional variant, and `Format`, equal for the modes that
  `display_mode_equal` takes for one.
* *Statistics.* `sampled` says that `hz_stat` is not empty.
* A *scenario*, fixed by `Init`, names the kinds of outside events (`Inputs`), the
  decoders, rates (`Rates`), modes and configurations of a behaviour. A run
  checks the union of its scenarios instead of their product, so that each
  leaves out what its question does not depend on; the theorems hold for all
  scenarios.
* *Who changes the mode.* `DisplayAgrees`, `DisabledIsInert` and
  `ImplementsDisplayLoan` speak of scenarios in which nobody else does.
  `OriginalModeKept` and `LeavesOriginalMode` ask for `RestoresMode`: no user, no
  HDMI event and no `switch.delay.off=0`, which asks to keep the movie's mode. A
  link that goes off in a movie makes `handle_hdmi_switch` forget the saved mode,
  and when it is back the movie's mode is taken for the user's. Without a
  blackout the mode afrd saves is the cached one, stale once the user has changed
  it; with the user in the scenario `BlackoutRemembersShownMode` remains.
  `StatsFresh` excludes HDMI events, which are not published.

### DisplayLoan

What `Afrd` is for, as the owner of the display sees it: the daemon borrows the
display in the mode it finds (`Take`, or `Darken` for the black screen before the
first mode of its own), changes to other modes while it has it, and gives it back
as it was (`GiveBack`); it borrows nothing with `enable=0`, takes up no other
configuration while it holds anything, and leaves nothing borrowed behind when it
ends, by whatever end (`End`). Two ways out are allowed, both of which the code
takes on purpose: `switch.delay.off=0` asks to keep the mode (`Keep`; not a black
screen), and a link that goes off takes what was borrowed with it (`Lose`).

`Afrd!ImplementsDisplayLoan` is the refinement. A mode is only its look, that is
its format and the fraction in effect (`LookOf`).

| In `DisplayLoan` | In `Afrd` |
|---|---|
| `shown` | the look of the kernel's mode; of `g_current_mode` while the screen is black, the mode afrd believes to be behind it |
| `dark` | the kernel's mode is "null" |
| `users` | the look of `g_state.orig_mode`, none when that is empty |
| `options` | `enable` and whether `switch.delay.off` is zero, of the configuration in force |
| `link` | `hdmi_on` |
| `meddled` | the scenario has a user who changes modes; nothing is promised to that one |
| `alive` | `pc` is none of the ends |

### MsTime

The timers on words modulo 2^32 (`Modulus`): arming, the sign test behind
"expired" and "running", the minimum that `poll` sleeps for, and
`safe_mstime_update`, which moves the timers it knows when the clock jumps. The
module adds `wait`, the real time left, to compare with. The clock may be set
once, by any amount in `Jump`, before the sleep or during it.

### Modes and ModeSelect

`Modes` holds the arithmetic as operators: rates in 24.8 fixed point with the
code's integer divisions, `display_mode_add` and the search of
`framerate_switch`. Loops over a list are folds, so that the first of equally
rated modes wins as in the code; the two counting loops (`ClosestMultiple`,
`Divisor`) are the first number that ends them. `ModeSelect` is the machine
around them: a display is plugged in (`DisplayModesInit`), unplugged, and asked
for a movie's rate (`FramerateSwitch`); a mode's format stands for its width,
height and scan. Whether a mode found is switched to is decided in `Afrd`; here
it may be left at a current mode that is close. Rates are between 10 and 100 Hz
(`RequestedAssumption`, the bounds of `afrd_refresh_rate`, and what `hz_round` lets
through), so that nothing overflows and no division is by zero. A mode may have
the rate 0, which is what `mode_parse` makes of a name that ends early; no mode of
rate 0 is found. A "4.3%" in the comments of `framerate_switch` is 11/256; the
quotient it is compared with is rounded down, so that a mode may be up to 12/256,
that is 4.7%, too fast. A mode of three times the rate is found only where it is
between 0.3% and 4.7% too fast (75 Hz for 24 fps).

### FpsDetect

`accumulate_fps` and `best_fps`: the weights, the freshness of a source, the
last chance after `switch.timeout`; and the part of `delay_framerate_switch` that
decides what a detection starts from.

| In `FpsDetect` | In the code |
|---|---|
| `Start`, `Ignored` | an uevent of a decoder that appears, or a hint with its rate, which may be any; one within `switch.ignore` of a stop |
| `Attempt` | the three files are read: a sample of any rate or none from each, `Errors` of them wrong |
| `LastChance` | `switch.timeout` has expired |
| `Stop`, `Forget` | a decoder or a hint ends: `g_state.restore` changes, and with it the statistics go |
| `Restored` | `framerate_restore` empties `g_state` |

`Close` are the pairs of rates that `hz_close` does not tell apart (23.976 and 24).
The rates are those that `hz_round` yields, `switch.delay.retry` is not 0, and the
rates set by `afrd_refresh_rate` or made by `mode.use.fract` are left out.

A behaviour it has, that no property forbids: a movie that starts while
`g_state.restore` is false, without a stop since the one before, inherits its
statistics and even its rate, if that was found (`afrd.c` 779 clears them only
when the flag changes). It may then be shown at the rate of the earlier movie. So
the properties speak of the time since a decoder last stopped and of any of the
movies and hints that started since.

### StatusBoard and ShmStatus

`afrd.ipc` is a page that the daemon fills with `memcpy` and clients copy out of
a mapping of their own. No lock is taken; a reader trusts a copy whose two
checksums agree with each other and with the words between them.

`StatusBoard` is what that promises: statuses are posted, clients look at one
that was posted, and never at one older than they have seen. Every file that was
`afrd.ipc` is an edition of the board. `ShmStatus` is the protocol word by word:

| In `ShmStatus` | In the code |
|---|---|
| `ShmemInit`, `Extend` | `shmem_init`: open or create, map, and zero the page |
| `ShmemUpdate`, `Store` | `shmem_update`: checksums made, then one word of `memcpy` after another, in any order that `Before` allows |
| `ShmemFini`, `FiniCrc`, `Unlink` | `shmem_fini` |
| `ShmemEmerg`, `EmergSize`, `EmergCrc`, `EmergRestore`, `EmergEnd` | `signal_emerg`: `shmem_emerg`, then `afrd_emerg` with the status it publishes |
| `Kill` | SIGKILL |
| `Tick`, `OpenFails`, `Opens`, `CheckShm` | the timer of a client: `open`, which may fail or not be tried any more, and the `checkShm` of `refresh` |
| `TabFails`, `Restart` | the status tab shares `mFail` and may be the one whose open fails; `Control.restart` makes it forget the failures |
| `CompareStamp`, `CheckSize`, `CheckSizeAgain` | the start of `refresh`: the checksum changed, the size is right, or else the file is opened once more |
| `Load`, `Take` | the copy, and the checks on it; `shmem_read` of `afrd -s` is the same copy made once |
| `AppEnds` | reading a mapping of an empty file throws |

`log`, `ver` and `seen` are history: what was published in each file, and the
number of what a client shows. The refinement maps `board` to `log`. Daemon and
clients hold inodes, `path` is the one that has the name, so that a file that was
removed lives on where it is mapped. A checksum is modelled by the words it was
made from: CRC32 is taken to be injective, and neither 0 nor a checksum that
`crc32++` spoiled to be one of words that occur. `giveUp` is that of `mFail`: any
open that fails may be the last of those that count, as `Supervision` counts
them. That `afrd -s` ends by writing through a
read-only mapping in `shmem_fini` is left out: it has printed the status by then.

### Supervision

The processes around the loop: command lines `afrd -k -D`, which kill the daemon
of the PID file and start another; daemons; the service of the application,
which looks at the status every three seconds; the settings, which replace the
configuration file.

| In `Supervision` | In the code |
|---|---|
| `KillDaemon`, `KillWaited`, `KillTimesOut` | `kill_daemon`: the signal, up to two seconds of waiting, the PID file removed in any case |
| `DaemonizeCheck`, `DaemonizeFork`, `DaemonizeWrite` | `daemonize`: look into the PID file, fork, and the parent writes it while the child runs |
| `AfrdInit`, `AfrdRun`, `Reload`, `Shutdown`, `Exit` | the loop of `main`: `load_config` and `shmem_init`; `afrd_run`'s look at the file's time; the ends |
| `SignalEmerg`, `SigKill` | a fault, and SIGKILL |
| `UpdateAll`, `Restarted` | `AFRService.updateAll` with `Status.refresh` and `FailureDetector`, and `Control.restart` |
| `TabFails` | the status tab, whose `Status` shares the failure detector |
| `SecondPasses`, `TenSecondsPass` | the ages that `FailureDetector` tells apart |
| `SaveDelete`, `SaveRename` | `Config.save` |

A look at the status is one step, which `ShmStatus` justifies. `Settled` says
that seconds pass between two ticks of the service, and a daemon starts in less.
Process numbers are not used again while a file or a command line has them. The
PID file is whole: that `main.c` 284 opens it without truncating it, so that a
shorter number leaves digits of a longer one, is left out. So is `EACCES`, at
which the application gives up at once.

Behaviours this module has, that no property forbids: a daemon killed by SIGKILL
is never restarted, since `afrd.ipc` stays and looks well; a page of zeroes that
a killed daemon left makes the service throw at every tick; a boot script beside
the service leads to two daemons; so does a daemon that outlives the two seconds,
and if one of the two then crashes the service keeps the page of a dead one; a
configuration saved between `load_config` and `afrd_run`'s look at its time, or in
the same second as the one that was loaded, since `mtime` has whole seconds, is not
loaded before a later change, although `README.md` 101-102 promises it. `Missed`
is these two, and nothing else: `ConfigFollowed` holds for every other save.
`ini.sec` is the second a file was written in, `loaded`, `second` and `overtaken`
are history. The API's `reconf`, which would load a missed file, is left out; the
application does not send it.

### Colorspace

The attribute `attr` with `g_cs_default`, `g_cs_supported`, the filters of
`cs.select` and the override of the API: `ColorspaceApply` is what
`display_mode_switch` calls at every switch, `HdmiOn` is `colorspace_refresh` when
the link is up, `OverrideColorspace` the API request, `Leave` and `FiniInit` a
reload. `orig_mode` decides which mode comes back: `FramerateSwitch` remembers the
mode before the first, `MovieEnds` and `Leave` go back to it, `OrigModeForgotten`
leaves the movie's mode on (`switch.delay.off=0`, or HDMI goes off). A text like `444,8bit,full` is the record of its three parts, in the order
in which `colorspace_str` and the kernel write them. An unknown token would end
the parsing; texts have known ones. A newline at the end of `attr` would be kept by
`sysfs_read` and make its last part unknown; the kernel is taken to write none. The
lists are within the arrays.

Two facts of C are modelled by their outcomes. `strtok_r` ends the string it
parses at the first comma, also when that string is the default itself
(`CutOff`). And `colorspace_fini` leaves `g_cs_default` pointing to freed memory,
which the next `colorspace_refresh`, or the next `colorspace_fini` if no list could
be read, frees again: the process is ended by the allocator (`"aborted"`) or goes
on with any contents.

Behaviours it has, that no property forbids: an override in force at a reload
becomes the default; a filter or override that names no color space inherits the
previous mode's; with `attr` unreadable at the start the default is
`444,8bit,full`; a default that is read again while a filter's value is in `attr`
(HDMI back during a movie, a reload if a filter matches the user's mode itself, or a
reload with `switch.delay.off=0`, where the movie's mode is never left) is the
filter's. `SpaceOfMode` has the negations of these as its antecedents
`AllNameOne` and `DefaultIsUsers`; all scenarios of the run satisfy them. Where the
movie's mode stays they leave two cases, both in the run: no reload (`Overrides`),
and no filters (`Stays`).

### MC modules

`MCAfrd`, `MCMsTime`, `MCModeSelect`, `MCFpsDetect`, `MCShmStatus`,
`MCSupervision` and `MCColorspace` extend the models with the values of their
constants, which the `.cfg` files choose from.

## What the runs check

| Run | Question | Properties |
|---|---|---|
| `afrd_playback` | Does afrd keep the mode to go back to, know what the kernel shows, tell its clients, and keep a timer for everything it waits for? Does it borrow the display and give it back? Four scenarios: `Playback` (decoder and hint events in every order, five configurations that turn off one thing each, three modes, two rates), `Endings` (API requests, SIGTERM, faults anywhere, two names for one mode), `Link` (the link goes and comes and the user changes the mode), `Plug` (the link goes and comes, faults anywhere, and nobody else changes the mode). | `TypeOK`, `OriginalModeKept`, `DetectionIsBounded`, `BlackScreenHasPendingSwitch`, `DisplayAgrees`, `LeavesOriginalMode`, `StatsFresh`, `ImplementsDisplayLoan`, `BlackoutRemembersShownMode`, `BlackoutOnlyFromOriginal` |
| `afrd_live` | Two decoders that overlap, a decoder and hints that overlap, and HDCP lost with and without an uevent, during a movie or across a reload: does everything come to its end? | `BlackScreenEnds`, `DetectionEnds`, `RestoredAfterStop`, `HdcpRecovers` |
| `afrd_control` | Configurations that replace each other (`enable=0`, `switch.delay.off=0`, a blacklist) and SIGTERM while movies play. | `ConfigTakesEffect`, `ShutdownHonoured`, `DisabledIsInert` |
| `mstime` | The wrap-around, late wake-ups and one setting of the clock. | `TypeOK`, `OnTime`, `NeverOversleeps`, `AdjustedNotLate` |
| `fps` | Which rate is accepted, and when, over movies and hints with and without a stop between them? | `TypeOK`, `Confirmed`, `OneErrorHarmless`, `SteadySourceSucceeds`, `HintUsableAtOnce` |
| `modes` | Whatever the order in which a display, the system and `mode.extra` name the modes: has the list no duplicates, and is the mode the options ask for found, in the right variant? | `TypeOK`, `NoDuplicates`, `NeverBadMode`, `BestIsFound` |
| `shm` | Does a client ever show a mixture of two statuses or an older one, and does it find the page of the next daemon? Daemons that end, are killed, fault, or run two at a time. | `TypeOK`, `ShownWhole`, `ImplementsStatusBoard`, `CatchesUpAfterEnd` |
| `supervise` | An upgrade, a first start with crashes, a daemon slow to end, the status tab failing too, a boot script, SIGKILL: is there one daemon, does the service come to see it, does it run with what was saved last, but for the saves that whole seconds and the late look at the time hide? | `TypeOK`, `OneDaemon`, `Supervised`, `ConfigFollowed` |
| `colorspace` | Does the color space on the screen depend on what came before? Filters, reloads that turn them on and off, movies whose mode stays, other displays, overrides. | `TypeOK`, `SpaceOfMode` |
| `afrd_v_blacklist`, `modes_v_highest`, `colorspace_v_default` | The disagreements below. | one each |

### Bounds

* `Afrd` has no counters: its instances are finite and TLC visits every state.
  One decoder and one rate suffice where the question is which timer is armed;
  a second decoder, or hints beside it, matter where two overlap (`afrd_live`), a second rate where
  one switch follows another (`Playback`), a second name where modes are
  compared by format (`Endings`), a mode without fraction where the detour
  over "null" must not depend on it (`Playback`, `Link`). With several decoders
  in one handler run their names only enter the blacklists, which `afrd_control`
  and `afrd_v_blacklist` have.
* `mstime`: a clock of 16 ms wraps within a few iterations; delays of 0 and 3
  stay below the half that the sign test needs, as the daemon's delays do (60 s
  against 25 days), and the clock starts anywhere.
* `modes`: every sequence of up to three of four modes (24, 30, 50 and 60 Hz),
  an interlaced mode always added, the mode in use with a fraction or under
  another name; the search compares modes two at a time, so three show every
  way in which an earlier one can stand before a better one. Movies of all
  rates but one that `hz_round` knows, the unrounded ones of the API, and one
  that it rejects; every value of the two options, and the blacklist that the
  sample configurations suggest alone and with both variants of 24 Hz.
  `modes_v_highest` adds a 120 Hz mode.
* `fps`: four attempts after a start, as many as the least reliable source needs
  (the defaults leave time for six, 3000 ms at 500 ms); two starts between two
  stops, so that one inherits what the other collected, and any number of stops;
  hints of every rate; 23.976, 24 and 60 have a close pair and a pair that is not;
  one wrong sample between two stops, because two agreeing wrong samples are by
  the weights as good as two right ones of `CHUNKS`.
* `shm`: one word of data beside the size, since a mixture already shows in two
  words; two statuses; two publications and two files where one daemon follows
  another, so that a client may hold the old file while the new one is filled;
  one publication of each of two daemons on one file where they overlap.
  `ShmStatusProofs` has the safety for all of these.
* `supervise`: two crashes where an upgrade's daemon must come through, three
  where the service gives up and starts over; two saves, so that one may meet
  the reload that the other caused; three daemons, since one may be slow to end
  while its successor is replaced, and four files, so that one is always unused.
  A save is in the second of the one before or in the next.
* `colorspace`: three spaces, and two names of each other part; two filters that
  overlap, two displays that support different ones; configurations with and
  without `switch.delay.off=0`.

### Fairness

`FairSpec` assumes what the loop itself guarantees: the daemon's own steps go on
(`WF_vars(Daemon)`) and an HDMI uevent in the socket is read. Once the outside
world is `quiet` a running timer comes due at some `Poll` (`SF`, because `Poll`
is enabled once per iteration): `poll` sleeps no longer than the least of the
timers, which `mstime` checks as `NeverOversleeps`. Before that the code gives
no such promise - every uevent arms the timers anew - so each liveness property
starts from `quiet`. Only `ShutdownHonoured` does not; it needs no timer. `WF_vars(Daemon)`
includes `UeventsDone` and `ApiDone`: a flood of uevents or datagrams that never
lets the socket run dry is assumed away.

The other modules: in `ShmStatus` a daemon completes a copy it has begun and the
client's timer goes on (`WF` on `DaemonStep` and `ClientStep`): both are
straight code. Nothing makes a daemon start, publish or end, and nothing makes an
open fail or `Control.restart` be called: `CatchesUpAfterEnd` asks for a client
that has not given up again and again (`[]<>~giveUp`). In `Supervision`
the command lines and the daemons go on, the service's timer ticks, `restart`
returns, time passes and `Config.save` gets to its rename. No fairness makes a
fault happen, a boot script start or a setting be saved. `MsTime`, `ModeSelect`,
`FpsDetect` and `Colorspace` have safety properties only.

## What is proved

Eight modules of theorems, for every value of the constants that the named
assumptions allow (`NamesAssumption`, `FormatAssumption`, `ConfigAssumption`,
`ScenarioAssumption`, `NoModeAssumption` and so on: sentinels differ from values, options are records
of their type, modes have names, formats and rates, `Close` is an equivalence, the
adjusted timers are polled, delays and oversleeps are far below half the clock). TLC evaluates the
assumptions in every run.

| Theorem | States |
|---|---|
| `AfrdProofs!TypeCorrect` | `Spec => []TypeOK` |
| `AfrdProofs!DetectionBounded` | `Spec => []DetectionIsBounded` |
| `AfrdProofs!BlackoutOnlyBeforeSwitch` | `Spec => BlackoutOnlyFromOriginal` |
| `AfrdProofs!BlackScreenAwaitsSwitch` | `Spec => []BlackScreenHasPendingSwitch`, when no configuration has a `vdec.blacklist` |
| `AfrdDisplayProofs!StatusIsFresh` | `Spec => []StatsFresh` |
| `AfrdDisplayProofs!CacheAgrees` | `Spec => []DisplayAgrees` |
| `AfrdDisplayProofs!DisabledDoesNothing` | `Spec => DisabledIsInert` |
| `AfrdDisplayProofs!UserModeIsKept` | `Spec => []OriginalModeKept` |
| `AfrdDisplayProofs!UserModeComesBack` | `Spec => []LeavesOriginalMode` |
| `AfrdDisplayProofs!DisplayLoanImplemented` | `Spec => ImplementsDisplayLoan` |
| `AfrdDisplayProofs!BlackoutSavesWhatIsShown` | `Spec => BlackoutRemembersShownMode` |
| `MsTimeProofs!TypeCorrect`, `TimersOnTime`, `LoopWakesInTime`, `AdjustedTimersInTime` | `[]TypeOK`, `[]OnTime`, `[]NeverOversleeps`, `[]AdjustedNotLate` |
| `FpsDetectProofs!TypeCorrect`, `EnoughConfirmations`, `HintIsUsable` | `[]TypeOK`, `[]Confirmed`, `HintUsableAtOnce` |
| `FpsDetectProofs!OneErrorDoesNoHarm`, `SteadySourceIsEnough` | `[]OneErrorHarmless`, `SteadySourceSucceeds` |
| `ModeSelectProofs!TypeCorrect`, `ListHasNoDuplicates`, `NeverFindsBadMode` | `[]TypeOK`, `[]NoDuplicates`, `[]NeverBadMode` |
| `ModeSelectProofs!BestFoundAmongUsualRates` | `Spec => [](UsualRates => BestIsFound)` |
| `ColorspaceProofs!TypeCorrect`, `SpaceIsChosen` | `[]TypeOK`, `[]SpaceOfMode`, whose antecedents are `AllNameOne` and `DefaultIsUsers` |
| `ShmStatusProofs!TypeCorrect`, `WholeStatuses`, `StatusBoardImplemented` | `[]TypeOK`, `[]ShownWhole`, `Spec => ImplementsStatusBoard` |
| `SupervisionProofs!TypeCorrect`, `NeverTwoDaemons` | `[]TypeOK`, `[]OneDaemon` |

*Timers of the switch (`AfrdProofs`).* None of its last three theorems is
inductive. `SwitchInv` is their common strengthening:

* `BlackoutIsArmedSafely`: an armed blackout stands before an armed switch, with
  afrd enabled and no mode saved. Without "no mode saved" a blackout could
  overwrite `orig_mode`; without the switch nothing would end it.
* `DetectionIsBounded` itself: a switch waiting for a rate has its time limit.
* `InitIsIdle`: `afrd_init` starts with both timers stopped, because the final
  restore of the previous run stopped them. A reload would otherwise bring a
  blackout armed under `enable=1` into a run with `enable=0`.

A screen already black needs one fact more, `BlackScreenIsTemporary` (its switch
is armed), which does not survive an uevent of a blacklisted decoder; so it is
proved apart, under `NoVdecBlacklist`, and run `afrd_v_blacklist` shows that the
assumption cannot be dropped. Each proof rests on lemmas that say what the
handlers do to the timers whatever path they take (`FramerateRestoreEffect`,
`FramerateSwitchEffect`: the switch is over, done, or waits with its limit;
`DelayFramerateSwitchEffect`: the event is skipped, ends everything, or arms a
switch), and has one step for each action.

*The display (`AfrdDisplayProofs`).* Every step of the loop does one of nine
things to the display, the saved mode and the published status; `StepEffect` says
which, and the theorems only look at those. `DisplayAgrees` needs that the
screen is black exactly when the kernel's mode is "null" and that the kernel's
fraction is its policy (`KernelInv`). `DisabledIsInert` needs that a run which
begins with `enable=0` holds no saved mode and no black screen from the one
before (`DisabledInv`). The two about the user's mode share `RestoreInv`: a saved
mode is the user's, without one the user's mode is on the screen, and every end
passes through a restore.

The refinement of `DisplayLoan` maps each of the nine effects to one step of the
abstract specification or a stutter: a switch is a `Take`, a restore a `GiveBack`
or, with `switch.delay.off=0`, a `Keep`, the link's uevent a `Lose`. What each
needs is an invariant proved before. A switch saves the cached mode, and what is on the
screen is that mode because of `DisplayAgrees`; a restore brings back what was
saved, and its look is the one the kernel then shows because of `KernelInv`. That
nothing is held when another configuration is taken up is `DisabledInv`, which speaks
of a run's start too; that every end passes through a restore, or holds nothing,
is `Controlled`, the order of `pc`. Without the user a step of the outside world
changes nothing that is mapped but the link (`StepLink`).

`BlackoutRemembersShownMode` is apart since it holds where the user changes modes
too: a blackout saves what it reads, and reads "null" only of a screen already
black (`NullIsBlack`).

*Timers (`MsTimeProofs`).* `TimeInv` relates words to real time: the signed
difference of two words is the time left (`Exact`) as long as that is below half
the range, which the delays ensure, and a polled timer is tested within a sleep of
its end. The lemmas on words modulo `Modulus` are proved for every even modulus.
`AdjustInv` follows the timers that are moved when the clock has been set: their
word is at most one oversleep ahead of the time that remains, and never more than
a sleep and an iteration behind the clock, so that the sign of a difference is
right. It needs that these timers are polled: a sleep is then no longer than what
they have left, and no later wake-up is taken for another change of the clock.

*Detection (`FpsDetectProofs`).* `best_fps` looks at weights, the property at
samples; `AllWeighted` connects them: a source's weight is the number of its
agreeing samples times its own. The thresholds then say how many samples that is.
The samples are those since the statistics were cleared, which the history is
cleared with, so that a start without a stop keeps both.
`TruthInv` does the same against the truth: no source has counted more wrong samples
than were made (`ErrorsCounted`), and one that was right at every attempt since the
last start has them all counted for its rate (`SteadyAgrees`). That needs a closeness that is an
equivalence, as it is among the rates that `hz_round` yields.

*The status page (`ShmStatusProofs`).* The invariant `IInv` says that a first
checksum in the page, or in a client's copy, is that of the status numbered `ver`
in the file's log (`PageLogged`, `CopyLogged`); that no client is ahead of the
page it maps (`Newest`); and `ShownWhole`. A copy whose checksum is that of its
own words is then one logged status, and posting, looking and forgetting are the
steps of the board.

*One daemon (`SupervisionProofs`).* `OneInv` adds `OneAtATime`: whoever is alive is
the one in charge, that is the daemon of the PID file, or the one that the
service's command line waits for or has just made; while it is about to fork,
nobody is.

*The list and the search (`ModeSelectProofs`).* Both are folds. What a fold keeps
is proved along the prefixes of its sequence; the induction is first-order: the
least element of a set of counterexamples (`LeastExists`, from the library's
well-founded ordering of finite sets; `Upward`). `FoldExists` first shows that the
recursive function exists by which a fold is defined. `AddAll` and `SearchFinds`
are then the two facts about sequences of any length: the list built has no two
equal modes, and what is found is the highest rated of the allowed variants of
listed modes that pass every test, or nothing where none does. `DivisorTyped` and
`NearMultiple` turn the test on the rounded quotient into a bound on the rates.

That the highest rated is the one asked for is arithmetic on ratings. It is not
true of all rates: with 99 and 199 Hz modes and a movie of 99.4 fps the second is
rated higher even with `mode.prefer.exact=1`, because the rounded quotient is two
steps off for the first. It is true where a mode that shows a movie is as fast or
up to 1/384 faster (`UsualRates`), which covers films and modes of the same rate or
apart by 1001/1000; run `modes` evaluates that all of its rates are usual
(`UsualAssumption`). There the counting loop stops with a rest of nothing at the number of times a mode
shows each frame, once or twice (`UsualDivisor`), and every mode without a rest shows
it once or twice (`ExactDivisor`), so that the option alone orders them and any rest
costs more than the option gives; the multiple closest to the mode found is that
number of times the movie's rate (`UsualClosest`), and of its allowed variants the one
nearest to that multiple is taken (`NearestVariant`).

*The color space (`ColorspaceProofs`).* `SpaceInv`: when the attribute is read as
the default it names the user's color space, cutting the default at a comma keeps
the one it names, and the attribute names the chosen one. Where there are filters
and reloads that needs the mode to go back to to be the user's, which is what the
hypothesis on `switch.delay.off` in `DefaultIsUsers` is for: without it TLC finds a
reload in a movie's mode.

*Only model-checked:* every liveness property, since TLAPS proves none under
fairness. Every invariant and every action property of a passing run is stated by
a theorem, `BlackScreenHasPendingSwitch` and `BestIsFound` under the two hypotheses
above. What a recursive function computes is proved where it is a fold; no
theorem says when a detection ends or that a table of the instances is right.

## Disagreements between the code and what it says

* `afrd_v_blacklist`: `delay_framerate_switch` stops the switch and blackout
  timers before it looks at `vdec.blacklist`. An uevent of a blacklisted decoder
  during a blackout leaves the screen black.
* `modes_v_highest`: with `mode.prefer.exact=0` the mode with the highest rate
  that is a multiple of the movie's is promised; the divisor loop finds only
  modes of once and twice the rate, so that 120 Hz is never found for a film,
  and no mode at all where the display has only that one.

* `colorspace_v_default`: `colorspace_apply` lets `strtok_r` cut the default at
  its first comma, so that from the second switch on its depth and range are
  those built in.

Smaller things met on the way, which no run is about: without a blackout the mode
saved for later is the cached one, not the one on the screen, when the user has
changed it since; a fault during a blackout in which the link went off leaves the
screen dark, since the mode to restore has been forgotten (which `End` of
`DisplayLoan` allows); after a fault the restoration
publishes a valid page once more on the file that was just removed, so that a
client that maps it stays there when the next daemon has made another (hence the
antecedent of `CatchesUpAfterEnd`); "adjusting all timers" (`afrd.c` 1011)
adjusts four of nine; `mstime_adjust` may move a timer to exactly 0, which
disables it; a stamp (`g_ost_off`, `g_ost_hdcp`) not looked at for 25 days after
it expired is taken for running; after a noticed change of the clock `poll` may
wake up to one sleep early; a small change back passes unnoticed and delays
timers by as much; a detection from `vdec_status` alone that has to start over
may need ten attempts where the default timeout leaves time for six;
`vdec_blocks` weighs up to 102 and `vdec_status` more while a better source is
waited for, so that a hint of weight 100 can be outweighed; `g_afrd_stats` is not
published after an HDMI event.

## What is not modelled

* *Text and I/O*: parsing the driver's files, the configuration and API
  datagrams, the regular expressions of the uevent filter, sysfs access and
  string helpers, the Android property library. They keep no state between
  calls; the models start from what they yield. Failing writes to sysfs and lost
  netlink messages are not modelled either: nothing in the code reacts to them.
* *The frame-rate files in detail*: which rate the lines of one file yield is a
  choice in `FpsDetect`.
* *The application's user interface*, the extraction of its files at the first
  start, an SELinux that denies access; build and installation.
* *The clock in `Afrd`*: timers come due in any order there. `MsTime` has the
  clock, and `NeverOversleeps` is what links the two.

What could come next: how `query_vdec_chunks` and `query_vdec_blocks` make a rate
of the lines of a file, as operators; a composition of `Colorspace`
with `Afrd`, so that a filter is checked against blackouts and faults;
`CatchesUp` after a fault, once the restoration no longer publishes.
The proof modules must stay free of RECURSIVE operators,
and so must the modules they reach.

## Running

    tlc -config afrd_playback.cfg MCAfrd     # any run: its .cfg with its MC module
    tlapm AfrdProofs.tla                     # and the other *Proofs modules

Each run takes between a few seconds and three and a half minutes on two cores.
