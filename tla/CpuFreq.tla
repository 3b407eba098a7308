------------------------------ MODULE CpuFreq ------------------------------
(***************************************************************************)
(* The cpufreq policies in sysfs and the one routine that writes them,     *)
(* cpu_linux_set_all_policy_frequency (src/cpu_linux.c), with its helper   *)
(* set_one_policy_frequency.  A call walks the policy directory and, for   *)
(* each policy, reads the hardware range and collapses scaling_min_freq    *)
(* and scaling_max_freq to one value with two separate file writes.  Each  *)
(* read and each write is a step of its own, so that everything else that  *)
(* can happen on the machine happens between them.                         *)
(*                                                                         *)
(* The kernel's side of sysfs is external: it is modelled from what the    *)
(* code and its comments rely on.  In particular a Strict policy belongs   *)
(* to a driver that answers EINVAL to a write that would leave min > max   *)
(* (the case the comment in set_one_policy_frequency is about); any other  *)
(* policy stores whatever is written.                                      *)
(***************************************************************************)
EXTENDS Integers

CONSTANTS
  Policies,        \* the policyN directories of the machine
  NoPolicy,        \* "no policy is being written"
  HwMin, HwMax,    \* cpuinfo_min_freq and cpuinfo_max_freq of each policy
  Strict,          \* the policies whose driver rejects min > max
  Configs,         \* the frequency pairs callers may ask for
  Disturbances     \* the kinds of environment events of this instance

\* The hardware ranges are arbitrary numbers: an inverted range is not
\* excluded, because the code tests for it.
ASSUME HardwareAssumption ==
  /\ NoPolicy \notin Policies
  /\ HwMin \in [Policies -> Nat]
  /\ HwMax \in [Policies -> Nat]
  /\ Strict \subseteq Policies

\* What cpu_config_validate guarantees of a running configuration (module
\* CpuConfig proves it of load_runtime_config).
ASSUME ConfigsAssumption ==
  /\ Configs \subseteq [low : Nat, high : Nat]
  /\ \A c \in Configs : c.low <= c.high

VARIABLES
  scalingMin, scalingMax,  \* the two sysfs limits of every policy
  present,                 \* policies whose directory exists right now
  call,                    \* progress of set_all_policy_frequency
  goal, base,              \* its arguments target_khz and low_frequency_khz
  todo,                    \* directory entries readdir has still to return
  attempted, succeeded,    \* the policies the two counters have counted
  policy,                  \* the entry set_one_policy_frequency works on
  weather                  \* "rough" while environment events happen, then "calm"

limitVars == <<scalingMin, scalingMax>>
argVars == <<goal, base>>
callVars == <<call, goal, base, todo, attempted, succeeded, policy>>
cpufreqVars == <<scalingMin, scalingMax, present, call, goal, base, todo,
                 attempted, succeeded, policy, weather>>

\* An environment event of the given kind can happen.  Disturbances switches
\* kinds on; there is no bound on their number, but once the weather is calm
\* (Settle) they are over, which is what liveness is stated about.
Disturb(kind) == kind \in Disturbances /\ weather = "rough"

----------------------------------------------------------------------------
\* Pure parts of set_one_policy_frequency.

\* The policy's cpuinfo_* range passes the test hardware_min > hardware_max.
Usable(p) == HwMin[p] <= HwMax[p]

\* The target after the two clamps to the policy's own hardware range.
Frequency(p, khz) ==
  LET raised == IF khz < HwMin[p] THEN HwMin[p] ELSE khz
  IN  IF raised > HwMax[p] THEN HwMax[p] ELSE raised

\* Mutants: the order of the two writes swapped; the order not depending on
\* the direction of the change.
WritesMaxFirst(step) == (step = "first") <=> (goal > base)
WritesMinFirst(step) == step = "first"

\* Which of the two files the current write goes to: min first when the
\* target is the low clock, max first otherwise, then the other one.
WritesMin(step) == (step = "first") <=> (goal <= base)

\* EXTERNAL.  Whether the driver takes the pair of limits a write results in.
Accepts(p, lo, hi) == p \in Strict => lo <= hi

\* The limits the pending write asks the kernel for.
PendingMin ==
  IF WritesMin(call) THEN Frequency(policy, goal) ELSE scalingMin[policy]
PendingMax ==
  IF WritesMin(call) THEN scalingMax[policy] ELSE Frequency(policy, goal)

PendingAccepted ==
  policy \in present /\ Accepts(policy, PendingMin, PendingMax)

----------------------------------------------------------------------------
\* The call.

\* Mutant: the policy being written is not given up with the call.
ClearCallKeepsPolicy ==
  /\ call' = "none"
  /\ goal' = 0 /\ base' = 0
  /\ todo' = {} /\ attempted' = {} /\ succeeded' = {}
  /\ UNCHANGED policy

\* The arguments and locals of a call that is over.
ClearCall ==
  /\ call' = "none"
  /\ goal' = 0 /\ base' = 0
  /\ todo' = {} /\ attempted' = {} /\ succeeded' = {}
  /\ policy' = NoPolicy

\* opendir succeeded; the stream will list the directories that exist now.
SetAll(target, low) ==
  /\ call = "none"
  /\ call' = "scan"
  /\ goal' = target /\ base' = low
  /\ todo' = present /\ attempted' = {} /\ succeeded' = {}
  /\ UNCHANGED <<limitVars, present, policy, weather>>

\* Mutant: an entry whose range cannot be read is tried again.
ReadEntryAgain(p) ==
  /\ call = "scan"
  /\ p \in todo
  /\ attempted' = attempted \cup {p}
  /\ UNCHANGED <<limitVars, present, argVars, succeeded, weather>>
  /\ \/ /\ p \in present /\ Usable(p)
        /\ call' = "first" /\ policy' = p /\ todo' = todo \ {p}
     \/ /\ ~(p \in present /\ Usable(p)) \/ Disturb("io")
        /\ UNCHANGED <<call, policy, todo>>

\* readdir returns entry p: ++attempted, and set_one_policy_frequency reads
\* its hardware range.
ReadEntry(p) ==
  /\ call = "scan"
  /\ p \in todo
  /\ todo' = todo \ {p}
  /\ attempted' = attempted \cup {p}
  /\ UNCHANGED <<limitVars, present, argVars, succeeded, weather>>
  /\ \/ /\ p \in present /\ Usable(p)
        /\ call' = "first" /\ policy' = p
     \/ /\ ~(p \in present /\ Usable(p))
        /\ UNCHANGED <<call, policy>>
     \/ /\ Disturb("io")
        /\ UNCHANGED <<call, policy>>

\* One write_u64_file.  When it succeeds the call goes on to the second
\* bound, or ++succeeded; when it fails the policy is given up as it stands.
Write ==
  /\ call \in {"first", "second"}
  /\ UNCHANGED <<present, argVars, todo, attempted, weather>>
  /\ \/ /\ PendingAccepted
        /\ scalingMin' = [scalingMin EXCEPT ![policy] = PendingMin]
        /\ scalingMax' = [scalingMax EXCEPT ![policy] = PendingMax]
        /\ IF call = "first"
             THEN call' = "second" /\ UNCHANGED <<succeeded, policy>>
             ELSE /\ call' = "scan" /\ policy' = NoPolicy
                  /\ succeeded' = succeeded \cup {policy}
     \/ /\ ~PendingAccepted
        /\ call' = "scan" /\ policy' = NoPolicy
        /\ UNCHANGED <<limitVars, succeeded>>
     \/ /\ Disturb("io")
        /\ call' = "scan" /\ policy' = NoPolicy
        /\ UNCHANGED <<limitVars, succeeded>>

\* Mutant: one policy written is taken for success.
SomeApplied == succeeded # {}

\* The value the call returns: 0 only if every policy it met was written.
AllApplied == attempted # {} /\ succeeded = attempted

\* readdir has nothing more: closedir and return.
Return ==
  /\ call = "scan"
  /\ todo = {}
  /\ ClearCall
  /\ UNCHANGED <<limitVars, present, weather>>

SetAllStep == (\E p \in Policies : ReadEntry(p)) \/ Write

\* The calling process dies with the call half done.
Abandon ==
  /\ call # "none"
  /\ ClearCall
  /\ UNCHANGED <<limitVars, present, weather>>

----------------------------------------------------------------------------
\* EXTERNAL.  What the kernel and other programs do to the same files.

\* CPU hotplug takes a policy directory away; an open directory stream may
\* or may not still return it.
Vanish(p) ==
  /\ p \in present
  /\ Disturb("hotplug")
  /\ present' = present \ {p}
  /\ todo' \in {todo, todo \ {p}}
  /\ UNCHANGED <<limitVars, call, argVars, attempted, succeeded, policy, weather>>

\* The policy comes back, with the limits of a newly created policy.
Appear(p) ==
  /\ p \in Policies \ present
  /\ present' = present \cup {p}
  /\ scalingMin' = [scalingMin EXCEPT ![p] = HwMin[p]]
  /\ scalingMax' = [scalingMax EXCEPT ![p] = HwMax[p]]
  /\ todo' \in {todo} \cup
               (IF call # "none" /\ p \notin attempted
                  THEN {todo \cup {p}} ELSE {})
  /\ UNCHANGED <<call, argVars, attempted, succeeded, policy, weather>>

\* Another program (a power manager, an administrator) writes the limits.
OtherWriter(p) ==
  /\ p \in present
  /\ Disturb("external")
  /\ \E lo, hi \in {HwMin[p], HwMax[p]} \cup
                   {Frequency(p, c.low) : c \in Configs} \cup
                   {Frequency(p, c.high) : c \in Configs} :
       /\ lo <= hi
       /\ scalingMin' = [scalingMin EXCEPT ![p] = lo]
       /\ scalingMax' = [scalingMax EXCEPT ![p] = hi]
  /\ UNCHANGED <<present, callVars, weather>>

Kernel == \E p \in Policies : Vanish(p) \/ Appear(p) \/ OtherWriter(p)

\* The environment has done its worst.
Settle ==
  /\ weather = "rough"
  /\ weather' = "calm"
  /\ UNCHANGED <<limitVars, present, callVars>>

----------------------------------------------------------------------------
\* The routine on its own, called again and again with the argument pairs
\* its only caller uses.

CpuFreqInit ==
  /\ scalingMin = HwMin
  /\ scalingMax = HwMax
  /\ present = Policies
  /\ call = "none"
  /\ goal = 0 /\ base = 0
  /\ todo = {} /\ attempted = {} /\ succeeded = {}
  /\ policy = NoPolicy
  /\ weather = "rough"

Caller ==
  \/ \E c \in Configs : SetAll(c.low, c.low) \/ SetAll(c.high, c.low)
  \/ Disturb("crash") /\ Abandon

CpuFreqNext == Caller \/ SetAllStep \/ Return \/ Kernel \/ Settle

CpuFreqSpec == CpuFreqInit /\ [][CpuFreqNext]_cpufreqVars

----------------------------------------------------------------------------
\* Properties.

CpuFreqTypeOK ==
  /\ scalingMin \in [Policies -> Nat]
  /\ scalingMax \in [Policies -> Nat]
  /\ present \subseteq Policies
  /\ call \in {"none", "scan", "first", "second"}
  /\ goal \in Nat /\ base \in Nat
  /\ todo \subseteq Policies
  /\ attempted \subseteq Policies
  /\ succeeded \subseteq attempted
  /\ policy \in attempted \cup {NoPolicy}
  /\ call \in {"first", "second"} <=> policy # NoPolicy
  /\ weather \in {"rough", "calm"}

\* The policy's range is collapsed to the clock khz asks of it.
Pinned(p, khz) ==
  scalingMin[p] = Frequency(p, khz) /\ scalingMax[p] = Frequency(p, khz)

(***************************************************************************)
(* The write order of set_one_policy_frequency exists so that "drivers     *)
(* that briefly see min > max" have nothing to reject (cpu_linux.c:321,    *)
(* cpu_linux.h:44).  No write is ever turned down for crossing the other   *)
(* limit, whatever was written, left half done or abandoned before.        *)
(***************************************************************************)
NoRejectedWrite ==
  call \in {"first", "second"} => Accepts(policy, PendingMin, PendingMax)

(***************************************************************************)
(* When the call is about to return 0, because the two counters agree,     *)
(* every policy of the machine stands at the target, however many writes   *)
(* the driver turned down and however many earlier calls were abandoned:   *)
(* the return value speaks for the hardware.  The daemon takes it as that  *)
(* when it commits its state (daemon.c:140-156).                           *)
(***************************************************************************)
SuccessIsEverywhere ==
  call = "scan" /\ todo = {} /\ AllApplied =>
    \A p \in present : Pinned(p, goal)
============================================================================
