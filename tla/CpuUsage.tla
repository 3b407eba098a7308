------------------------------ MODULE CpuUsage ------------------------------
(***************************************************************************)
(* Usage as the difference of two samples of /proc/stat: cpu_linux_read_    *)
(* times, cpu_linux_usage_percent (src/cpu_linux.c) and the two loops that  *)
(* keep a previous sample, the daemon's and the GUI's refresh_metrics.      *)
(*                                                                         *)
(* The kernel's counters are external.  Their iowait part may go backwards *)
(* (proc(5) says so), which the code answers by testing both differences.  *)
(* A usage is kept as an exact fraction.                                   *)
(***************************************************************************)
EXTENDS Integers

CONSTANTS
  MaxTicks,   \* bound on each of the kernel's counters and on a window
  Nothing     \* no sample, or no usage, yet

ASSUME CpuUsageAssumption == MaxTicks \in Nat /\ Nothing \notin [idle : Int, total : Int]

VARIABLES
  busy, idle, iowait,  \* the kernel's counters; busy is the sum of six
  previous,            \* the caller's previous sample
  usage,               \* the last usage computed, [part, whole]
  window,              \* what really happened since the previous sample
  measured             \* the window the last usage was computed over

sampleVars == <<previous, usage, measured>>
usageVars == <<busy, idle, iowait, previous, usage, window, measured>>

----------------------------------------------------------------------------
\* cpu_linux_read_times: iowait counts as idle.
CpuTimes == [idle |-> idle + iowait, total |-> busy + idle + iowait]

\* cpu_linux_usage_percent.
\* Mutant: the unsigned difference of counters that went backwards (unsigned
\* numbers have 8 bits here).
IdleDeltaWraps(before, now) == (now.idle - before.idle) % 256

IdleDelta(before, now) ==
  IF now.idle >= before.idle THEN now.idle - before.idle ELSE 0

UsagePercent(before, now) ==
  LET whole == now.total - before.total
      part == whole - IdleDelta(before, now)
  IN  IF now.total <= before.total \/ part < 0
        THEN [part |-> 0, whole |-> 1]
        ELSE [part |-> part, whole |-> whole]

----------------------------------------------------------------------------
\* EXTERNAL.  Time passes: a tick is accounted to one of the counters ...
Tick(was_busy) ==
  /\ window.busy + window.idle < MaxTicks
  /\ IF was_busy
       THEN /\ busy < MaxTicks
            /\ busy' = busy + 1
            /\ UNCHANGED <<idle, iowait>>
            /\ window' = [window EXCEPT !.busy = @ + 1]
       ELSE /\ \/ idle < MaxTicks /\ idle' = idle + 1 /\ UNCHANGED iowait
               \/ iowait < MaxTicks /\ iowait' = iowait + 1 /\ UNCHANGED idle
            /\ UNCHANGED busy
            /\ window' = [window EXCEPT !.idle = @ + 1]
  /\ UNCHANGED sampleVars

\* ... or iowait ticks are taken back.
IowaitRegress ==
  /\ iowait > 0
  /\ iowait' = iowait - 1
  /\ window' = [window EXCEPT !.lost = @ + 1]
  /\ UNCHANGED <<busy, idle, sampleVars>>

\* A sample is taken, and a usage computed if there was one before.  (A read
\* that fails leaves the caller with the sample it has: nothing changes.)
Read ==
  /\ previous' = CpuTimes
  /\ window' = [busy |-> 0, idle |-> 0, lost |-> 0]
  /\ IF previous = Nothing
       THEN UNCHANGED <<usage, measured>>
       ELSE /\ usage' = UsagePercent(previous, CpuTimes)
            /\ measured' = window
  /\ UNCHANGED <<busy, idle, iowait>>

UsageInit ==
  /\ busy \in 0..MaxTicks /\ idle = 0 /\ iowait \in 0..MaxTicks
  /\ previous = Nothing /\ usage = Nothing
  /\ window = [busy |-> 0, idle |-> 0, lost |-> 0]
  /\ measured = window

UsageNext == Tick(TRUE) \/ Tick(FALSE) \/ IowaitRegress \/ Read

UsageSpec == UsageInit /\ [][UsageNext]_usageVars

----------------------------------------------------------------------------
\* Properties.

(***************************************************************************)
(* Counters that go backwards never hide load: as long as the total        *)
(* advanced at all, the usage computed is no lower than the share of the   *)
(* window the processor was really busy, failed reads included, and it is  *)
(* that share exactly when nothing was taken back.  A total that did not   *)
(* advance reads as 0, and load is hidden only then: the daemon goes to    *)
(* the low clock.                                                          *)
(***************************************************************************)
NeverUnderestimates ==
  LET real == measured.busy * usage.whole
      seen == usage.part * (measured.busy + measured.idle)
  IN  usage # Nothing =>
        IF measured.busy + measured.idle > measured.lost
          THEN seen >= real /\ (measured.lost = 0 => seen = real)
          ELSE usage.part = 0
============================================================================
