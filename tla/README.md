# A verification project for CPU Switch Control

TLA+ models of CPU Switch Control (`src/`), TLC runs that check them on small
instances, and proofs checked by TLAPS. Every definition is translated from the
source; `PROJECT.json` maps it to its lines. Where this text quotes a file, the
path is relative to `src/`.

## 1. The system

One small C program in two processes, and the scripts that install them.

| Component | Code | State | Operations |
|---|---|---|---|
| Frequency daemon | `src/daemon.c` | `running`, `state`, `previous`, `config` | start, sleep, sample, sweep, stop on a signal |
| cpufreq layer | `src/cpu_linux.c` | none of its own; the sysfs files of every policy | detect the common range, write all policies, read the current frequency |
| CPU sampling | `src/cpu_linux.c`, `daemon.c`, `main.c` | the caller's previous sample | read `/proc/stat`, usage of two samples |
| Configuration | `src/config.c`, `numeric_ascii.c` | `/etc/cpu-clock-switch.json` | load, validate, write, defaults |
| Frequency page | `src/main.c` | `config`, `min_khz`/`max_khz`, the form, the status line | detect, defaults, save, save and restart |
| Undervolt backend | `src/undervolt.c` | `/etc/intel-undervolt.conf` | load, rewrite some lines, parse the tool's output |
| Undervolt page | `src/main.c` | present domains, the form, the boot switch | read, refresh, zero, write and apply |
| Command runner | `src/command.c` | none | run a command, `pkexec`, ask systemd |
| AppImage setup | `packaging/appimage/*`, `main.c` | installed binary, unit and preferences; what systemd has loaded, enabled, running | compare, stage, install, reload, enable, restart, repair |
| Unit | `service/*.service` | - | restart always, start at boot |
| Pages, style, polling, Makefile, CI, tests | `src/main.c`, ... | - | not state of the system |

**How they interact.** The daemon reads the configuration once, when it starts;
the GUI changes it by writing a temporary file and having `pkexec install` put it
in place, then `pkexec systemctl restart`. Between daemon and kernel there are two
files per policy, each written by a system call of its own, which the driver may
reject; other programs write them too. Setup runs when the AppImage is opened and
again when a save finds no service. There is no lock and no message anywhere: the
parts meet in files and in systemd.

**What is hard.** A sweep over the policies is not atomic: it can fail at any
file, be killed between any two, run while policies appear and vanish, and start
from limits an earlier configuration left. The daemon's `state` is a cached claim
about those files and the only thing that makes it write again. A save and a setup
are chains of privileged commands, each of which can be refused, with systemd free
to start the daemon between any two. Configuration files are written by hand, by
other versions and on other machines. The full list, line by line, is under
`hazards` in `PROJECT.json`.

**What makes each part correct.**
- cpufreq layer: the order of the two writes never makes a driver see `min > max`;
  a return value of 0 means that the whole machine is at the target.
- daemon: three regions with memory (README.md, "Histerese"); the cached state
  describes the machine; failures are retried; a stop request stops it.
- sampling: counters that go backwards do not hide load.
- configuration: what runs is always safe to run, whatever the file.
- frequency page: its messages are true, and the clocks it shows pass its own check.
- setup: success means running and enabled; preferences survive; a setup that was
  cut short can be repaired.
- undervolt: only the lines of domains the user sees change; a reported success is
  what the hardware, the file and the boot service have, and stays so; a save adds
  nothing above 0 mV to what the file had, and the hardware gets no offset that nobody
  asked for.

## 2. Modules

| Module | What it is |
|---|---|
| `CpuFreq` | `cpu_linux_set_all_policy_frequency` on a set of policies, one action per directory entry and per file write, and (external) the kernel and other writers |
| `Daemon` | extends `CpuFreq` with the process: loop, signals, kills, systemd, reconfiguration |
| `Hysteresis` | the abstract controller: a mode, a sample, two limits per policy, no processes |
| `CpuUsage` | `/proc/stat` counters, samples and usage as an exact fraction |
| `CpuConfig` | pure: what loading, validating, falling back and printing make of a configuration |
| `FrequencyPanel` | extends `CpuConfig` with the GUI's handlers, the file, the running daemon's configuration and the administrator |
| `Setup` | AppRun, the two scripts, systemd and the repair by the GUI |
| `Undervolt` | pure: what loading, the masked copy and the parser make of `intel-undervolt.conf` and of the backend's answer |
| `UndervoltPanel` | extends `Undervolt` with the GUI's handlers, the file, the hardware, the boot service, the backend's package and the administrator |
| `MCDaemon`, `MCFrequencyPanel`, `MCUndervoltPanel` | the constants of the small instances |
| `CpuFreqProofs`, `DaemonProofs`, `CpuUsageProofs`, `FrequencyPanelProofs`, `SetupProofs`, `UndervoltProofs`, `UndervoltPanelProofs` | theorems and proofs |

`Daemon` composes with `CpuFreq` by extension: the daemon's `Sample` starts a call
(`SetAll`), `Sweep` advances it by one file and `Finish` takes its return value.
`Daemon` implements `Hysteresis` through `INSTANCE ... WITH mode <- state,
minimum <- scalingMin, maximum <- scalingMax`.

### Correspondence with the code

*CpuFreq.* `call` is the program counter of the sweep: `scan` in `readdir`,
`first` and `second` before the two `write_u64_file` calls. `goal`, `base`,
`policy` are `target_khz`, `low_frequency_khz` and the entry at hand. The counters
`attempted` and `succeeded` are kept as the sets of policies counted, so that
properties can speak of them; the code compares only their sizes, which agree
exactly when the sets do, because `succeeded` is a part of `attempted`. `Strict`
are the policies whose driver answers EINVAL to `min > max`, the case the comment
in the code is about; the others store what is written. `Frequency` is the clamp
to the policy's own range, `Usable` the test of that range. A vanished policy may
or may not still be returned by an open directory stream.

*Daemon.* `pc` is where the process is, `file` what `load_runtime_config` would
make of the file, `unit` whether systemd is to keep the service up. `Sample` takes
one of three inputs, the side of the band the usage is on. The state changes only
in `Finish`, after the return value. `Crash` may happen in any state and leaves
the limits as they are. `Start` is also where a process re-reads its
configuration and forgets its state.

*CpuUsage.* `window` and `measured` are history: the ticks that really passed.
The six other counters of `/proc/stat` are one, `busy`.

*CpuConfig.* Percentages are hundredths, so that rounding to one decimal shows;
`NaN` is a value of its own whose comparisons are false. A file is a function from
the five fields to a value, `Absent` or `Garbage`, or it is `Missing` or
`Unreadable`.

*FrequencyPanel.* GTK runs one handler at a time and a save blocks it, so a save
is a sequence of steps (`step`) with only systemd and the administrator in
between. `install` is two steps because it removes the old file first. `author`
and `edited` are history: who wrote the file last, whether the user has typed.
Spin buttons clamp, and keep their value when set to NaN.

*Setup.* Each command of the privileged script is an action, and each may be the
one `set -eu` stops at. An interrupted `install` leaves the old file, none or a
part. systemd keeps the unit it last read (`loaded`), and refuses to start one that
is empty or cut short. A file is the version it
comes from. `PreferencesKept` is about one window at a time: the test for the
preferences and the copy are two commands, and a save from a second window between
them would be overwritten.

*Undervolt.* A file is a sequence of lines; a line is the domain it starts with
(`parse_domain_index`; comments, other settings and indices out of range are
`NoDomain`), the number it ends with (`parse_last_double`, or `Garbage`), whether a
newline follows it, and a tag that tells whose line it is. Offsets are thousandths
of a mV, so that the two decimals of `write_domain_line` round. `Copied` and
`Appended` are the two loops of `undervolt_write_config_copy_masked`; `Followed`
puts one after the other as `fputs` and `fprintf` do: a line without its newline is
*fused* with what is written after it.

*UndervoltPanel.* As on the frequency page, a save is the steps `install`, `copy`,
`apply`, `service` of a handler that keeps the one GUI thread, and the world moves
in between. `usable`, `present`, `detected`, `shown` and `boot` are the
sensitivity of the controls, `undervolt_present`, `undervolt_domains_detected`, the
buttons and the check box. `RefreshBackend` is both the start of a window and the
button "Redetectar backend"; a load that fails leaves the buttons as they were.
`Read` takes any non-empty part of the hardware's domains for understood. `install`
removes before it writes, and leaves no file or an empty one when it fails in between;
`apply` may fail on any part of the domains, and so may `systemctl enable --now`; a
domain the hardware lacks stays at 0. `written`, `source`, `filled` and `report` are
history: the domains of the save that wrote the file (none when another hand wrote it
last), what the copy was made from, whether the form was ever filled before it was
saved, and the last message that still counts - a report ends when `install` removes
the file, when the
administrator writes it, and, unless it spoke of the next boot, with a reset.

## 3. Runs

Two policies with different ranges (1..4 and 3..6), a hybrid processor on which
one policy cannot do the low clock and the other cannot do the high one. Two are
enough for a sweep to be half done; two ranges are enough for both clamps, and for
targets that collapse. The environment's events (`Disturbances`) are not counted:
any number of them may happen until `Settle`, after which liveness is judged.

| Run | Checks | Instance |
|---|---|---|
| `daemon_hysteresis` | `DaemonTypeOK`, `NoRejectedWrite`, `ImplementsHysteresis`, `StopTerminates`, `SettlesOnUsage` | strict driver, one configuration; failing files, kills, stop signals |
| `daemon_reconfigured` | `StateMatchesMachine`, `SuccessIsEverywhere`, `CommittedNeverRejected`, `RefusedOneWayOnly`, `Recovers` | strict driver, three configurations (one pair of disjoint bands and one between); kills, saves, signals, stop/start |
| `daemon_contended` | `StateFollowsUsage`, `StopsInTime` | lenient driver; failing files, kills, signals, hotplug, another writer |
| `cpu_usage` | `NeverUnderestimates` | counters and windows of up to 3 ticks: enough for a window that is swallowed partly, exactly and more than wholly |
| `panel` | `PanelTypeOK`, `ReportedMeansRunning`, `SavedMeansRead`, `RunningConfigSafe`, `PresentedIsSaveable` | two processors and none, files for each reason to reject or adjust, two of them with thresholds of more than one decimal; four forms; crashes, edits, no service |
| `undervolt` | `UVTypeOK`, `OthersPreserved`, `ReportedIsInForce`, `NothingInvented`, `NeverOvervolts`, `SavedIsLoaded` | two domains, both on the hardware, so that a read that understands one hides the other; three files and the missing one; one form of the user's; failures, edits, resets, package changes |
| `setup_install` | `DoneMeansRunning`, `PreferencesKept` | two versions, any number of interrupted setups, crashes and reboots |

The files of `undervolt` have, between them, a domain given twice, a positive
offset, one below the limit, one with a third decimal, a domain without a line, a
line without a number, a last line without its newline, and one that cannot be
opened; the missing file is reached by an install that stops half way. Two domains
are enough for one to be hidden while the other is written, in place or appended.

Five more runs find what the code does differently from what its documentation
says (`findings` in `PROJECT.json` quotes both sides):

- `daemon_equal_clocks` - the write order depends on the target, not on the limits
  in force. Under one configuration it is right (`NoRejectedWrite`, proved). After a
  reconfiguration the first write of a fresh process may be turned down by a strict
  driver, but only until its first commit (`CommittedNeverRejected`, proved) and only
  on one of the two sides (`RefusedOneWayOnly`, proved), so that a load that visits
  both sides ends it (`Recovers`). With two equal clocks, which the validation
  allows, both sides are the same sweep, and where it is turned down once it is so
  for ever: `Recovers` fails.
- `daemon_partial_sweep` - a high sweep that fails half way while the state is LOW
  is not undone when the load falls back. `SettlesOnUsage` is the part of the
  promise that does hold: a load that arrives from the other side, or finds a fresh
  process, gets its clock everywhere.
- `panel_nan` - a NaN threshold passes `cpu_config_validate`.
- `setup_repair` - a setup that has copied the daemon and the unit and then fails, at
  the preferences, the reload or the enable, is never completed, neither by the next
  launch (the two files compare equal) nor by a save (systemd finds the unit), although
  the save reports success.
- `undervolt_unended` - a file whose last line is a hidden domain's and has no
  newline: the line of the visible domain is appended to it, so the hidden domain
  gets the other's offset and the visible one has no line. `OthersPreserved`,
  `SavedIsLoaded` and `ReportedIsInForce` hold where no two lines are fused, and say so.

Three more things the code does are exceptions the properties name.
`ReportedMeansRunning`: thresholds are validated at full precision and written with one
decimal, so two of them can become equal in the file; the message says the
configuration was applied and the daemon runs with its defaults.
`NothingInvented`: a window whose first load of `intel-undervolt.conf` failed shows
-150 mV everywhere (GTK's start value for that range) and no error, because
`activate` replaces it at once; a save from that form applies -150 mV.
`NeverOvervolts`: `intel-undervolt apply` takes every domain of the file, and the copy
keeps the lines of the domains the user does not see as they were. A positive offset
that the administrator once gave such a domain is applied by the button of a page that
says it never sends one (`src/main.c:1246`). What the page itself writes never is
positive, and such a line is the only way: of a domain outside the last save, and
unchanged since it was written by hand.

**Fairness.** `FairDaemonSpec` assumes weak fairness of the daemon's own steps (the
kernel schedules a runnable process, and `nanosleep` ends), of the second half of
a `systemctl restart`, and of `Settle`: disturbances end. `Start` is part of the
daemon's steps: `Restart=always`, `RestartSec=1`. systemd's default limit of five
starts in ten seconds is not modelled, so the liveness results are about machines
whose daemon does not die that often. Nothing is assumed of the load: each
liveness property has its premise about it. The policies that vanished need not
come back, and `StateFollowsUsage` asks only that some policy stays.

Deadlock is checked in every run.

## 4. Proofs

All proved for any sets of policies, any hardware ranges (inverted ones included)
and any configurations with `low <= high`, which `RunningConfigSafeHolds`
establishes of what the daemon loads.

- `NoRejectedWriteHolds`, `DaemonNoRejectedWrite` - from `OneConfiguration` (all
  callers ask for the clocks of one pair, nobody else writes). The property is not
  inductive: it says nothing of where a killed call leaves the limits. `WriteInv`
  adds `SafeLimits` (a minimum is never above the high clock, a maximum never below
  the low one: true after every single write, so no matter where a call is cut
  short) and `SafeHalfway` (the file written first is on the safe side of the
  target).
- `SuccessIsEverywhereHolds` - from `MachineIsOurs` (no other writer, no hotplug).
  `SuccessInv`: the stream and the counted policies partition the machine, counted
  successes stay pinned, the policy in work has its first file in place.
- `DaemonImplementsCpuFreq` - every daemon step is a `CpuFreq` step or a stutter,
  so the theorems above carry over.
- `DaemonImplementsHysteresis` - from `MachineIsOurs`; failing files, kills, signals
  and reconfigurations allowed. `RefinementInv` ties the call in progress to the
  sample and the configuration; a file write is an `Adjust` (or a stutter), because
  the clamped target is the nearest frequency the policy can do; a successful
  `Finish` is a `Commit`.
- `StateMatchesMachineHolds` - from `NothingFails` (files do not fail by themselves,
  nobody else writes). `StateInv`: once a process has committed a state its limits
  stay between its two clocks, so no later sweep of that process is ever turned
  down, even on a strict driver and even if its first sweeps were.
- `CommittedNeverRejectedHolds` - from `NobodyElseWrites`; files that fail, policies
  that come and go, kills and reconfigurations allowed, so that the cached state is no
  longer the truth. `BoundsInv` keeps what is left of it: of a process that has
  committed a state, no present policy has its minimum above the high clock or its
  maximum below the low one (`CommittedWithin`), and what a first sweep has written is
  there already (`PassedWithin`). From there each write is accepted, and no write,
  failed or not, and no policy that comes back leaves those bounds.
- `RefusedOneWayOnlyHolds` - no hypothesis about the world. A strict policy always has
  its minimum at most its maximum (`StrictOrdered`: no more than what is assumed of
  such a driver and of the other writers), so a target above the maximum and one below
  the minimum cannot both be refused.
- `StopsInTimeHolds` - any finite set of policies, no hypothesis about the world: the
  safety half of `StopTerminates`. `StepsToExit` counts the policies not yet counted,
  and not the entries still to be read, which hotplug can add to; `MetOnce` (no entry
  is met twice) makes it go down with every read.
- `NeverUnderestimatesHolds` - counters of any size; the window accounts for the
  difference of the two samples (`WindowExact`), then two cases of arithmetic.
- `RunningConfigSafeHolds`, `PresentedIsSaveableHolds` - every file, every form,
  every range.
- `ReportedMeansRunningHolds` - every file, thresholds of any precision. A save that
  is past `install` has the file it wrote, or one written since by another hand; the
  invariant ties the file to the configuration at each step, and the rest is
  arithmetic of the rounding.
- `SavedMeansReadHolds` - every file, form and range. The two readers of the file are
  different code: the daemon validates it and falls back as a whole, a new window
  loads, fits it to the hardware and clamps it to its buttons. `SaveInv` keeps the form
  within what `Save` checked, from which both give it back (`SavedIsLoaded`,
  `SavedIsShown`).
- `DoneMeansRunningHolds`, `PreferencesKeptHolds` - any number of versions, setups cut
  short anywhere. The invariant says, for each command of the installer, what the
  commands before it have already put in place.
- `OthersPreservedHolds`, `NeverOvervoltsHolds`, `ReportedIsInForceHolds` - any number
  of domains, any hardware, any file and form. `UndervoltProofs` has the lemmas about
  the copy: the ascending enumeration of the appended domains exists (`Rank`, the
  inverse of counting), the copy is a text, it is the two loops one after the other
  where no line is fused (`RewrittenApart`), selected domains are written
  (`SelectedWritten`) and the others untouched (`OthersCopied`). The properties are not
  inductive: a report is about the file and hardware at the end of a save, so
  `SaveInv` (theorem `SaveOnItsWay`) carries what the form asks for from the copy to
  the file to the hardware, step by step; `ReportInv` then keeps the report true.
  `NeverOvervolts` is about every later step too, so `WithinInv` speaks of the lines of
  the file and of the copy: those not written by hand, and all those of the domains of
  the save, are within the limits, fused or not.
- `CopyLoads`, `CopyOnce`, `SavedIsLoadedHolds` - what the copy means rather than what
  its lines are: the loader takes from it the form for the visible domains and the old
  file for the others, whichever of several lines of a domain it had, and copying it
  again changes nothing. From where each line of the copy comes from (`Origin`).
- `NothingInventedWhileApart`, `NothingInventedHolds` - `NothingInvented` is false of some
  files: where two lines are fused a domain has another's offset. The first theorem
  says that this is the only way: it holds of every behaviour in which no two lines
  are ever fused (`FileApart`), whatever is written by hand. The second replaces that
  by a condition on what the administrator writes alone (`Appendable`: a domain's line
  that ends the file has its newline, or nothing is left to append), which the files of
  the run satisfy. `AskedInv` bounds what each domain may have in the file, the copy, the form and
  the hardware by what was asked of it (`Asked`), through rounding and failed saves.
- `CpuFreqTypeCorrect`, `DaemonTypeCorrect`, `PanelTypeCorrect`, `UndervoltTypeCorrect` -
  type correctness.

**Only model-checked.** Liveness (`StopTerminates`, `SettlesOnUsage`,
`StateFollowsUsage`, `Recovers`): out of the prover's reach, as is anything about
ENABLED and induction over data. Of `StopTerminates` the bound is proved
(`StopsInTime`), of `Recovers` the reason (`RefusedOneWayOnly`). Every invariant and
every action property that a run checks is proved.

## 5. Not modelled

Time: the length of the
interval, the wait for a signal that falls between the test of `running` and
`nanosleep`, systemd's start limit. Text: JSON scanning, locales, messages. The
display side of the GUI: page construction, style, the polling of metrics and of
the service's state. The command runner, a synchronous wrapper whose outcome the
callers' models choose. Two windows of the GUI over one file: a save of one would be overwritten by the
other, as by any other writer between the copy and the privileged `install`; no
document promises otherwise. Of the undervolt page: the text of its messages, errors
in the middle of reading a file (`getline` then ends as at its end), the resolution
at which the processor keeps an offset, and `systemctl is-enabled` answers other than
`enabled` and `disabled`. `make install`, which has the same guarded copy as the
AppImage's installer. Floating point: usages are exact fractions and a sample is
a side of the band.

## 6. Plan

Done: `CpuFreq`, `Hysteresis`, `Daemon`, `CpuUsage`, `CpuConfig`, `FrequencyPanel`,
`Setup`, `Undervolt`, `UndervoltPanel`, with the theorems above; every safety property
a run checks is proved.

Left, in this order:
1. An abstract specification of a save (what each reader of a file may find, over a
   sequence of saves, failures and edits) that `FrequencyPanel` and `UndervoltPanel`
   implement, if it says more than the properties already do.
2. Two windows of the GUI over one file, if a property worth stating is found.
3. `Recovers` and `SettlesOnUsage` against a model with systemd's start limit.
