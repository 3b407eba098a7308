------------------------------- MODULE Daemon -------------------------------
(***************************************************************************)
(* cpu-clock-switch-daemon (src/daemon.c) under systemd.  The process      *)
(* sleeps, samples the CPU usage and, outside the hysteresis band, has     *)
(* every cpufreq policy written (module CpuFreq, one step per file).  A    *)
(* state is committed only when the whole sweep succeeded.                 *)
(*                                                                         *)
(* A sample is where the usage falls relative to the two thresholds;       *)
(* module CpuUsage is about the numbers.  A configuration is the pair of   *)
(* clocks; module CpuConfig is about the file.                             *)
(***************************************************************************)
EXTENDS CpuFreq, FiniteSets

VARIABLES
  file,     \* what load_runtime_config would make of the file on disk
  config,   \* the configuration of the running (or last) process
  pc,       \* "dead", "sleep" (sleep_ms), "awake" (past the second test of
            \* running), "apply" (inside set_all_policy_frequency)
  running,  \* the flag the signal handler clears (1 or 0)
  state,    \* STATE_UNKNOWN, STATE_LOW or STATE_HIGH
  usage,    \* usage against the thresholds: "below", "band" or "above"
  unit      \* whether systemd is to keep the service "up" or "down"

processVars == <<config, pc, running, state, usage>>
daemonVars == <<cpufreqVars, file, processVars, unit>>

----------------------------------------------------------------------------
\* Process start.

\* cpu_linux_detect_frequency_range: the policies that are unusable, or whose
\* files cannot be read just now, are skipped ...
Detected(read) ==
  /\ read \subseteq {p \in present : Usable(p)}
  /\ {p \in present : Usable(p)} \subseteq read \/ Disturb("io")

\* ... and the ranges of the others have to overlap.
RangeDetected ==
  \E read \in SUBSET present :
    Detected(read) /\ read # {} /\ \A p, q \in read : HwMin[p] <= HwMax[q]

\* Mutant: the state survives the restart.
StartKeepsState ==
  /\ pc = "dead" /\ unit = "up"
  /\ RangeDetected
  /\ pc' = "sleep"
  /\ running' = 1
  /\ config' = file
  /\ UNCHANGED <<cpufreqVars, file, state, usage, unit>>

\* systemd starts the process (RestartSec after its last exit) and main gets
\* as far as the loop.  A start that fails exits with 1 and changes nothing.
Start ==
  /\ pc = "dead" /\ unit = "up"
  /\ RangeDetected
  /\ pc' = "sleep"
  /\ running' = 1
  /\ state' = "UNKNOWN"
  /\ config' = file
  /\ UNCHANGED <<cpufreqVars, file, usage, unit>>

----------------------------------------------------------------------------
\* The loop.

\* Mutant: running is not tested again after the sleep.
WakeRegardless ==
  /\ pc = "sleep"
  /\ pc' = "awake"
  /\ UNCHANGED <<cpufreqVars, file, config, running, state, usage, unit>>

\* sleep_ms is over, or was cut short by a signal.
Wake ==
  /\ pc = "sleep"
  /\ pc' = IF running = 1 THEN "awake" ELSE "dead"
  /\ UNCHANGED <<cpufreqVars, file, config, running, state, usage, unit>>

\* The branches of the loop body for a sample u.
GoesLow(u) == u = "below" /\ state # "LOW"

\* Mutants: the band counts as high load; the first sample does not count.
GoesHighInBand(u) == ~GoesLow(u) /\ u # "below" /\ state # "HIGH"
GoesHighFromLow(u) == ~GoesLow(u) /\ u = "above" /\ state = "LOW"

GoesHigh(u) == ~GoesLow(u) /\ u = "above" /\ state # "HIGH"

\* cpu_linux_read_times fails: the previous sample is kept for next time.
SampleFails ==
  /\ pc = "awake"
  /\ Disturb("io")
  /\ pc' = "sleep"
  /\ UNCHANGED <<cpufreqVars, file, config, running, state, usage, unit>>

\* A usage is measured and the branch taken.  The call inside it may be over
\* at once, when the policy directory cannot be opened.
Sample ==
  /\ pc = "awake"
  /\ usage' \in {"below", "band", "above"}
  /\ UNCHANGED <<file, config, running, state, unit>>
  /\ \/ /\ GoesLow(usage')
        /\ SetAll(config.low, config.low)
        /\ pc' = "apply"
     \/ /\ GoesHigh(usage')
        /\ SetAll(config.high, config.low)
        /\ pc' = "apply"
     \/ /\ GoesLow(usage') \/ GoesHigh(usage') => Disturb("io")
        /\ pc' = "sleep"
        /\ UNCHANGED cpufreqVars

\* The sweep advances by one entry or one file write.
Sweep ==
  /\ pc = "apply"
  /\ SetAllStep
  /\ UNCHANGED <<file, processVars, unit>>

\* Mutant: the state follows whatever the sweep returned.
FinishCommits ==
  /\ pc = "apply"
  /\ Return
  /\ pc' = "sleep"
  /\ state' = IF GoesLow(usage) THEN "LOW" ELSE "HIGH"
  /\ UNCHANGED <<file, config, running, usage, unit>>

\* The sweep returns, and the state follows only if it returned 0.
Finish ==
  /\ pc = "apply"
  /\ Return
  /\ pc' = "sleep"
  /\ state' = IF ~AllApplied THEN state
              ELSE IF GoesLow(usage) THEN "LOW" ELSE "HIGH"
  /\ UNCHANGED <<file, config, running, usage, unit>>

DaemonStep == Start \/ Wake \/ SampleFails \/ Sample \/ Sweep \/ Finish

----------------------------------------------------------------------------
\* EXTERNAL, but for the handler: signals, systemd and whoever saves a
\* configuration.

\* handle_stop_signal: SIGINT or SIGTERM from anyone but systemd.
StopSignal ==
  /\ pc # "dead"
  /\ Disturb("signal")
  /\ running' = 0
  /\ UNCHANGED <<cpufreqVars, file, config, pc, state, usage, unit>>

\* systemctl stop (or the first half of a restart).
StopUnit ==
  /\ unit = "up"
  /\ Disturb("systemctl")
  /\ unit' = "down"
  /\ running' = IF pc = "dead" THEN running ELSE 0
  /\ UNCHANGED <<cpufreqVars, file, config, pc, state, usage>>

\* systemctl start (or the second half of a restart).
StartUnit ==
  /\ unit = "down"
  /\ unit' = "up"
  /\ UNCHANGED <<cpufreqVars, file, processVars>>

\* Mutant: the call of a killed process goes on.
CrashLeavesCall ==
  /\ pc # "dead"
  /\ Disturb("crash")
  /\ pc' = "dead"
  /\ UNCHANGED <<cpufreqVars, file, config, running, state, usage, unit>>

\* The process is killed, between any two steps.
Crash ==
  /\ pc # "dead"
  /\ Disturb("crash")
  /\ pc' = "dead"
  /\ IF call = "none" THEN UNCHANGED cpufreqVars ELSE Abandon
  /\ UNCHANGED <<file, config, running, state, usage, unit>>

\* Another configuration is installed.
SaveConfig ==
  /\ Disturb("save")
  /\ file' \in Configs \ {file}
  /\ UNCHANGED <<cpufreqVars, processVars, unit>>

KernelStep == Kernel /\ UNCHANGED <<file, processVars, unit>>
CalmDown == Settle /\ UNCHANGED <<file, processVars, unit>>

World == \/ StopSignal \/ StopUnit \/ StartUnit \/ Crash
         \/ SaveConfig \/ KernelStep \/ CalmDown

----------------------------------------------------------------------------
DaemonInit ==
  /\ CpuFreqInit
  /\ file \in Configs
  /\ config = file
  /\ pc = "dead"
  /\ running = 1
  /\ state = "UNKNOWN"
  /\ usage = "band"
  /\ unit = "up"

DaemonNext == DaemonStep \/ World

DaemonSpec == DaemonInit /\ [][DaemonNext]_daemonVars

\* The scheduler runs a process that can run, and systemd (Restart=always,
\* RestartSec=1) starts one it wants.  Disturbances end at some point.
DaemonFairness ==
  /\ WF_daemonVars(DaemonStep)
  /\ WF_daemonVars(StartUnit)
  /\ WF_daemonVars(CalmDown)

FairDaemonSpec == DaemonSpec /\ DaemonFairness

----------------------------------------------------------------------------
\* Properties.

DaemonTypeOK ==
  /\ CpuFreqTypeOK
  /\ file \in Configs /\ config \in Configs
  /\ pc \in {"dead", "sleep", "awake", "apply"}
  /\ pc = "apply" <=> call # "none"
  /\ running \in {0, 1}
  /\ unit \in {"up", "down"}
  /\ state \in {"UNKNOWN", "LOW", "HIGH"}
  /\ usage \in {"below", "band", "above"}

\* The clock a committed state stands for.
StateClock == IF state = "LOW" THEN config.low ELSE config.high

(***************************************************************************)
(* The daemon writes only on a change of state, so its cached state has to *)
(* describe the machine it left behind, or nothing will ever correct it.   *)
(* As long as reads and writes do not fail by themselves and nobody else   *)
(* writes the limits, a process that says LOW or HIGH between iterations   *)
(* has every policy at that clock: across sweeps killed half way, restarts *)
(* under another configuration, and sweeps the driver then turned down.    *)
(***************************************************************************)
StateMatchesMachine ==
  pc \in {"sleep", "awake"} /\ state # "UNKNOWN" =>
    \A p \in present : Pinned(p, StateClock)

(***************************************************************************)
(* cpu_linux.c:321 for a daemon that has committed a state: from then on   *)
(* the process has no write rejected for crossing the other limit, however *)
(* its sweeps fail in between and whichever policies come back.  What      *)
(* NoRejectedWrite loses under several configurations it loses before the  *)
(* first sweep that succeeds.                                              *)
(***************************************************************************)
CommittedNeverRejected == state # "UNKNOWN" => NoRejectedWrite

\* The driver of a policy would take the first write of a call with these
\* arguments.
FirstAccepted(p, target, low) ==
  IF target <= low THEN Accepts(p, Frequency(p, target), scalingMax[p])
                   ELSE Accepts(p, scalingMin[p], Frequency(p, target))

(***************************************************************************)
(* Before that, a policy never refuses both sweeps: when the first write   *)
(* towards one clock is rejected, the first write towards the other one    *)
(* would be taken, whoever wrote the limits last.  The two clocks have to  *)
(* differ, or both sweeps begin with the same file.                        *)
(***************************************************************************)
RefusedOneWayOnly ==
  call = "first" /\ config.low < config.high /\ ~Accepts(policy, PendingMin, PendingMax)
    => FirstAccepted(policy, IF goal = config.low THEN config.high ELSE config.low,
                     config.low)

(***************************************************************************)
(* The three regions of README.md (Histerese) as an abstract controller:   *)
(* two-file writes, partial sweeps, kills in the middle of a sweep, stop   *)
(* signals and restarts never move a limit, or the state, in a way that    *)
(* controller could not.                                                   *)
(***************************************************************************)
Abstract == INSTANCE Hysteresis
  WITH mode <- state, minimum <- scalingMin, maximum <- scalingMax

ImplementsHysteresis == Abstract!HysteresisSpec

\* The steps a process may still take before it exits when it is told to now: a
\* read and two writes for each policy its sweep has not met, the return, the test
\* of running after the sleep.
StepsToExit ==
  CASE pc = "dead" -> 0
    [] pc = "sleep" -> 1
    [] pc = "apply" -> 2 + 3 * Cardinality(Policies \ attempted)
                         + (IF call = "first" THEN 2 ELSE IF call = "second" THEN 1 ELSE 0)
    [] pc = "awake" -> 3 + 3 * Cardinality(Policies)

(***************************************************************************)
(* handle_stop_signal only clears a flag, and a sweep does not look at it. *)
(* Nothing that may happen to a process told to stop, be it policies that  *)
(* come and go under the open directory stream or writes that fail, puts   *)
(* its exit off, and each step of its own brings it nearer: it exits       *)
(* within 3 * Cardinality(Policies) + 3 steps.                             *)
(***************************************************************************)
StopsInTime ==
  [][pc # "dead" /\ running = 0 =>
       /\ StepsToExit' <= StepsToExit
       /\ DaemonStep => StepsToExit' < StepsToExit]_daemonVars

\* A process told to stop does stop, even if sweeps keep failing.
StopTerminates == running = 0 ~> pc = "dead"

LowEverywhere == \A p \in Policies : Pinned(p, config.low)
HighEverywhere == \A p \in Policies : Pinned(p, config.high)

(***************************************************************************)
(* README.md:88-89: load that stays below the lower threshold ends up with *)
(* the machine at the low clock, load that stays above the upper one with  *)
(* the machine at the high clock.                                          *)
(***************************************************************************)
FollowsUsage ==
  /\ <>[](usage = "below") => <>[]LowEverywhere
  /\ <>[](usage = "above") => <>[]HighEverywhere

(***************************************************************************)
(* The same for a load that goes to a side while the state is not that     *)
(* side, as when it crosses the whole band or the process has just been    *)
(* restarted: it gets the clock of its side on every policy, through any   *)
(* number of failed sweeps, kills and restarts.                            *)
(***************************************************************************)
SettlesOnUsage ==
  /\ [](state # "LOW" /\ [](usage = "below") => <>[]LowEverywhere)
  /\ [](state # "HIGH" /\ [](usage = "above") => <>[]HighEverywhere)

(***************************************************************************)
(* A failed sweep is retried for as long as the load asks for it: the      *)
(* daemon's own state gets to the side the load stays on, even if policies *)
(* failed to be read or written, came and went in the middle of a sweep,   *)
(* or had another program fight over them.  (Some policy has to stay: with *)
(* none a sweep fails, and a process does not start.)                      *)
(***************************************************************************)
StateFollowsUsage ==
  <>[](present # {}) =>
    /\ <>[](usage = "below") => <>[](state = "LOW")
    /\ <>[](usage = "above") => <>[](state = "HIGH")

(***************************************************************************)
(* After a reconfiguration one of the two sweeps may be turned down on     *)
(* every policy left outside the new pair of clocks, but a load that keeps *)
(* visiting both sides gets the daemon out: each sweep moves the policies  *)
(* the other one is refused on.  (Not when the two clocks are equal, which *)
(* config.c:289 allows: both sweeps then write the minimum first.)         *)
(***************************************************************************)
Recovers ==
  []<>(usage = "below") /\ []<>(usage = "above") =>
    []<>(state = "LOW") /\ []<>(state = "HIGH")
============================================================================
