---------------------------- MODULE DaemonProofs ----------------------------
(***************************************************************************)
(* Theorems about the daemon, for every machine, every set of              *)
(* configurations and any number of disturbances.  The daemon's behaviours *)
(* are behaviours of CpuFreq, so that what CpuFreqProofs shows of the      *)
(* cpufreq routine holds of them as it stands.                             *)
(***************************************************************************)
EXTENDS Daemon, CpuFreqProofs, FiniteSetTheorems

USE HardwareAssumption, ConfigsAssumption

----------------------------------------------------------------------------
(***************************************************************************)
(* Every variable keeps its type, and the process is inside                *)
(* set_all_policy_frequency exactly when a call is going on.               *)
(***************************************************************************)
DaemonTypes ==
  /\ file \in Configs /\ config \in Configs
  /\ pc \in {"dead", "sleep", "awake", "apply"}
  /\ pc = "apply" <=> call # "none"
  /\ running \in {0, 1}
  /\ unit \in {"up", "down"}
  /\ state \in {"UNKNOWN", "LOW", "HIGH"}
  /\ usage \in {"below", "band", "above"}

LEMMA DaemonTypesInit == DaemonInit => DaemonTypes
BY DEF DaemonInit, DaemonTypes, CpuFreqInit

LEMMA WriteKeepsCall == Write \/ (\E p \in Policies : ReadEntry(p)) =>
                          call # "none" /\ call' # "none"
BY DEF Write, ReadEntry

LEMMA KernelKeepsCall == Kernel \/ Settle => UNCHANGED <<call, goal, base, policy>>
BY DEF Kernel, Settle, Vanish, Appear, OtherWriter, callVars, argVars

LEMMA DaemonTypesStep == DaemonTypes /\ [DaemonNext]_daemonVars => DaemonTypes'
<1> SUFFICES ASSUME DaemonTypes, [DaemonNext]_daemonVars PROVE DaemonTypes'
  OBVIOUS
<1> USE DEF DaemonTypes, processVars
<1>1. CASE Start
  BY <1>1 DEF Start, cpufreqVars
<1>2. CASE Wake
  BY <1>2 DEF Wake, cpufreqVars
<1>3. CASE SampleFails
  BY <1>3 DEF SampleFails, cpufreqVars
<1>4. CASE Sample
  BY <1>4 DEF Sample, SetAll, cpufreqVars
<1>5. CASE Sweep
  BY <1>5, WriteKeepsCall DEF Sweep, SetAllStep
<1>6. CASE Finish
  BY <1>6 DEF Finish, Return, ClearCall
<1>7. CASE StopSignal \/ StopUnit \/ StartUnit \/ SaveConfig
  BY <1>7 DEF StopSignal, StopUnit, StartUnit, SaveConfig, cpufreqVars
<1>8. CASE Crash
  BY <1>8 DEF Crash, Abandon, ClearCall, cpufreqVars
<1>9. CASE KernelStep \/ CalmDown
  BY <1>9, KernelKeepsCall DEF KernelStep, CalmDown
<1>10. CASE UNCHANGED daemonVars
  BY <1>10 DEF daemonVars, cpufreqVars
<1> QED BY <1>1, <1>2, <1>3, <1>4, <1>5, <1>6, <1>7, <1>8, <1>9, <1>10
        DEF DaemonNext, DaemonStep, World

----------------------------------------------------------------------------
(***************************************************************************)
(* Each step of the daemon and its world is, on the cpufreq variables, one *)
(* of CpuFreq or none: the daemon passes the clocks of one configuration   *)
(* as arguments, and a kill in the middle of a sweep abandons the call.    *)
(***************************************************************************)
LEMMA DaemonStepIsCpuFreqStep ==
  DaemonTypes /\ [DaemonNext]_daemonVars => [CpuFreqNext]_cpufreqVars
<1> SUFFICES ASSUME DaemonTypes, [DaemonNext]_daemonVars
             PROVE  [CpuFreqNext]_cpufreqVars
  OBVIOUS
<1>1. CASE Start \/ Wake \/ SampleFails
  BY <1>1 DEF Start, Wake, SampleFails
<1>2. CASE Sample
  BY <1>2 DEF Sample, DaemonTypes, CpuFreqNext, Caller
<1>3. CASE Sweep
  BY <1>3 DEF Sweep, CpuFreqNext
<1>4. CASE Finish
  BY <1>4 DEF Finish, CpuFreqNext
<1>5. CASE StopSignal \/ StopUnit \/ StartUnit \/ SaveConfig
  BY <1>5 DEF StopSignal, StopUnit, StartUnit, SaveConfig
<1>6. CASE Crash
  BY <1>6 DEF Crash, CpuFreqNext, Caller
<1>7. CASE KernelStep \/ CalmDown
  BY <1>7 DEF KernelStep, CalmDown, CpuFreqNext
<1>8. CASE UNCHANGED daemonVars
  BY <1>8 DEF daemonVars, cpufreqVars
<1> QED BY <1>1, <1>2, <1>3, <1>4, <1>5, <1>6, <1>7, <1>8
        DEF DaemonNext, DaemonStep, World

THEOREM DaemonImplementsCpuFreq == DaemonSpec => CpuFreqSpec
<1>1. DaemonInit => CpuFreqInit /\ DaemonTypes
  BY DaemonTypesInit DEF DaemonInit
<1>2. DaemonTypes /\ [DaemonNext]_daemonVars =>
        DaemonTypes' /\ [CpuFreqNext]_cpufreqVars
  BY DaemonTypesStep, DaemonStepIsCpuFreqStep
<1> QED BY <1>1, <1>2, PTL DEF DaemonSpec, CpuFreqSpec

(***************************************************************************)
(* The type invariant of the composition.                                  *)
(***************************************************************************)
THEOREM DaemonTypeCorrect == DaemonSpec => []DaemonTypeOK
<1>1. DaemonInit => DaemonTypes
  BY DaemonTypesInit
<1>2. DaemonTypes /\ [DaemonNext]_daemonVars => DaemonTypes'
  BY DaemonTypesStep
<1>3. CpuFreqTypeOK /\ DaemonTypes => DaemonTypeOK
  BY DEF DaemonTypes, DaemonTypeOK
<1> QED BY <1>1, <1>2, <1>3, DaemonImplementsCpuFreq, CpuFreqTypeCorrect, PTL
        DEF DaemonSpec

(***************************************************************************)
(* Under one configuration the running daemon never has a write turned     *)
(* down by a driver, whatever kills and restarts it.                       *)
(***************************************************************************)
THEOREM DaemonNoRejectedWrite ==
  ASSUME OneConfiguration
  PROVE  DaemonSpec => []NoRejectedWrite
BY DaemonImplementsCpuFreq, NoRejectedWriteHolds, PTL

----------------------------------------------------------------------------
(***************************************************************************)
(* The abstract controller.  A sweep is always on the way to the side of   *)
(* the last sample, which is not the committed one.                        *)
(***************************************************************************)
SweepFollowsSample ==
  /\ pc = "apply" =>
       /\ base = config.low
       /\ \/ GoesLow(usage) /\ goal = config.low
          \/ GoesHigh(usage) /\ goal = config.high
  /\ call \in {"first", "second"} => policy \in Policies /\ Usable(policy)

RefinementInv == DaemonTypes /\ SuccessInv /\ SweepFollowsSample

LEMMA SweepFollowsSampleStep ==
  DaemonTypes /\ SweepFollowsSample /\ [DaemonNext]_daemonVars => SweepFollowsSample'
<1> SUFFICES ASSUME DaemonTypes, SweepFollowsSample, [DaemonNext]_daemonVars
             PROVE  SweepFollowsSample'
  OBVIOUS
<1> USE DEF DaemonTypes, SweepFollowsSample, GoesLow, GoesHigh,
            processVars
<1>1. CASE Start \/ Wake \/ SampleFails
  BY <1>1 DEF Start, Wake, SampleFails, cpufreqVars
<1>2. CASE Sample
  BY <1>2 DEF Sample, SetAll, cpufreqVars
<1>3. CASE Sweep
  <2>1. ASSUME NEW p \in Policies, ReadEntry(p) PROVE SweepFollowsSample'
    BY <1>3, <2>1 DEF Sweep, ReadEntry, argVars
  <2>2. CASE Write
    BY <1>3, <2>2 DEF Sweep, Write, argVars
  <2> QED BY <1>3, <2>1, <2>2 DEF Sweep, SetAllStep
<1>4. CASE Finish
  BY <1>4 DEF Finish, Return, ClearCall
<1>5. CASE StopSignal \/ StopUnit \/ StartUnit \/ SaveConfig
  BY <1>5 DEF StopSignal, StopUnit, StartUnit, SaveConfig, cpufreqVars
<1>6. CASE Crash
  BY <1>6 DEF Crash, Abandon, ClearCall, cpufreqVars
<1>7. CASE KernelStep \/ CalmDown
  BY <1>7, KernelKeepsCall DEF KernelStep, CalmDown
<1>8. CASE UNCHANGED daemonVars
  BY <1>8 DEF daemonVars, cpufreqVars
<1> QED BY <1>1, <1>2, <1>3, <1>4, <1>5, <1>6, <1>7, <1>8
        DEF DaemonNext, DaemonStep, World

(***************************************************************************)
(* The clamps of the code choose the nearest frequency the policy can do,  *)
(* which is what the abstract controller means by the clock of a side.     *)
(***************************************************************************)
LEMMA FrequencyNearest ==
  ASSUME NEW p \in Policies, Usable(p), NEW side,
         config.low \in Nat, config.high \in Nat
  PROVE  Abstract!IsSideClock(p, side,
           Frequency(p, IF side = "LOW" THEN config.low ELSE config.high))
<1> DEFINE khz == IF side = "LOW" THEN config.low ELSE config.high
<1> DEFINE f == Frequency(p, khz)
<1>1. khz \in Nat /\ HwMin[p] \in Nat /\ HwMax[p] \in Nat /\ HwMin[p] <= HwMax[p]
  BY DEF Usable
<1> HIDE DEF khz
<1>2. f \in HwMin[p]..HwMax[p]
  BY <1>1 DEF Frequency
<1>3. \A g \in HwMin[p]..HwMax[p] :
        Abstract!Distance(f, khz) <= Abstract!Distance(g, khz)
  BY <1>1 DEF Frequency, Abstract!Distance
<1> QED BY <1>2, <1>3 DEF Abstract!IsSideClock, khz

LEMMA GoalIsSideClock ==
  ASSUME RefinementInv, pc = "apply", NEW p \in Policies, Usable(p)
  PROVE  Abstract!IsSideClock(p, Abstract!Side(usage), Frequency(p, goal))
         /\ state # Abstract!Side(usage)
<1>1. config.low \in Nat /\ config.high \in Nat
  BY DEF RefinementInv, DaemonTypes
<1>2. CASE GoesLow(usage) /\ goal = config.low
  <2>1. Abstract!Side(usage) = "LOW" /\ state # "LOW"
    BY <1>2 DEF GoesLow, Abstract!Side
  <2> QED BY <1>1, <1>2, <2>1, FrequencyNearest
<1>3. CASE GoesHigh(usage) /\ goal = config.high
  <2>1. Abstract!Side(usage) = "HIGH" /\ state # "HIGH"
    BY <1>3 DEF GoesHigh, Abstract!Side
  <2> QED BY <1>1, <1>3, <2>1, FrequencyNearest
<1> QED BY <1>2, <1>3 DEF RefinementInv, SweepFollowsSample

(***************************************************************************)
(* A file write moves one limit of one policy, or none.                    *)
(***************************************************************************)
LEMMA WriteRefines ==
  RefinementInv /\ Sweep => [Abstract!HysteresisNext]_(Abstract!hysteresisVars)
<1> SUFFICES ASSUME RefinementInv, Sweep
             PROVE  [Abstract!HysteresisNext]_(Abstract!hysteresisVars)
  OBVIOUS
<1>1. UNCHANGED <<state, usage, config>> /\ pc = "apply"
  BY DEF Sweep, processVars
<1>2. CASE UNCHANGED limitVars
  BY <1>1, <1>2 DEF limitVars, Abstract!hysteresisVars
<1>3. CASE Write /\ ~UNCHANGED limitVars
  <2>1. policy \in Policies /\ Usable(policy)
    BY <1>3 DEF RefinementInv, SweepFollowsSample, Write
  <2>2. /\ scalingMin \in [Policies -> Nat] /\ scalingMax \in [Policies -> Nat]
        /\ scalingMin' = [scalingMin EXCEPT ![policy] = PendingMin]
        /\ scalingMax' = [scalingMax EXCEPT ![policy] = PendingMax]
    BY <1>3 DEF Write, RefinementInv, SuccessInv, CpuFreqTypeOK
  <2> DEFINE f == Frequency(policy, goal)
  <2>3. \/ scalingMin' = [scalingMin EXCEPT ![policy] = f] /\ UNCHANGED scalingMax
        \/ scalingMax' = [scalingMax EXCEPT ![policy] = f] /\ UNCHANGED scalingMin
    BY <2>1, <2>2 DEF PendingMin, PendingMax
  <2>4. Abstract!IsSideClock(policy, Abstract!Side(usage), f)
        /\ state # Abstract!Side(usage)
    BY <1>1, <2>1, GoalIsSideClock
  <2>5. f \in HwMin[policy]..HwMax[policy]
    BY <2>4 DEF Abstract!IsSideClock
  <2>6. Abstract!Adjust(policy)
    BY <1>1, <2>3, <2>4, <2>5 DEF Abstract!Adjust
  <2> QED BY <2>1, <2>6 DEF Abstract!HysteresisNext
<1>4. ASSUME NEW p \in Policies, ReadEntry(p) PROVE UNCHANGED limitVars
  BY <1>4 DEF ReadEntry
<1> QED BY <1>2, <1>3, <1>4 DEF Sweep, SetAllStep

(***************************************************************************)
(* The end of a sweep that returned 0 is the abstract commit.              *)
(***************************************************************************)
LEMMA FinishRefines ==
  RefinementInv /\ Finish => [Abstract!HysteresisNext]_(Abstract!hysteresisVars)
<1> SUFFICES ASSUME RefinementInv, Finish
             PROVE  [Abstract!HysteresisNext]_(Abstract!hysteresisVars)
  OBVIOUS
<1>1. UNCHANGED <<usage, config, scalingMin, scalingMax>> /\ pc = "apply"
      /\ todo = {} /\ call = "scan"
  BY DEF Finish, Return, limitVars
<1>2. CASE ~AllApplied
  BY <1>1, <1>2 DEF Finish, Abstract!hysteresisVars
<1>3. CASE AllApplied
  <2>1. succeeded = Policies /\ Policies # {}
    BY <1>1, <1>3 DEF AllApplied, RefinementInv, SuccessInv, SweepCovers, CpuFreqTypeOK
  <2>2. \A p \in Policies : Usable(p) /\ Pinned(p, goal)
    BY <2>1 DEF RefinementInv, SuccessInv, CountedUsable, SucceededPinned
  <2>3. \A p \in Policies :
          /\ Abstract!IsSideClock(p, Abstract!Side(usage), scalingMin[p])
          /\ Abstract!IsSideClock(p, Abstract!Side(usage), scalingMax[p])
          /\ state # Abstract!Side(usage)
    BY <1>1, <2>2, GoalIsSideClock DEF Pinned
  <2>4. state' = Abstract!Side(usage)
    BY <1>1, <1>3 DEF Finish, RefinementInv, SweepFollowsSample, GoesLow, GoesHigh,
                      Abstract!Side
  <2> QED BY <1>1, <2>1, <2>3, <2>4 DEF Abstract!Commit, Abstract!HysteresisNext
<1> QED BY <1>2, <1>3

LEMMA DaemonStepRefines ==
  MachineIsOurs /\ RefinementInv /\ [DaemonNext]_daemonVars
    => [Abstract!HysteresisNext]_(Abstract!hysteresisVars)
<1> SUFFICES ASSUME MachineIsOurs, RefinementInv, [DaemonNext]_daemonVars
             PROVE  [Abstract!HysteresisNext]_(Abstract!hysteresisVars)
  OBVIOUS
<1> USE DEF Abstract!hysteresisVars, limitVars, cpufreqVars, processVars
<1>1. CASE Start
  BY <1>1 DEF Start, RefinementInv, DaemonTypes, Abstract!Restart,
              Abstract!HysteresisNext
<1>2. CASE Wake \/ SampleFails
  BY <1>2 DEF Wake, SampleFails
<1>3. CASE Sample
  BY <1>3 DEF Sample, SetAll, Abstract!TakeSample, Abstract!HysteresisNext
<1>4. CASE Sweep
  BY <1>4, WriteRefines
<1>5. CASE Finish
  BY <1>5, FinishRefines
<1>6. CASE StopSignal \/ StopUnit \/ StartUnit \/ SaveConfig
  BY <1>6 DEF StopSignal, StopUnit, StartUnit, SaveConfig
<1>7. CASE Crash
  BY <1>7 DEF Crash, Abandon
<1>8. CASE KernelStep
  BY <1>8 DEF KernelStep, Kernel, Vanish, Appear, OtherWriter, Disturb,
              MachineIsOurs, RefinementInv, SuccessInv, SweepCovers
<1>9. CASE CalmDown
  BY <1>9 DEF CalmDown, Settle
<1>10. CASE UNCHANGED daemonVars
  BY <1>10 DEF daemonVars
<1> QED BY <1>1, <1>2, <1>3, <1>4, <1>5, <1>6, <1>7, <1>8, <1>9, <1>10
        DEF DaemonNext, DaemonStep, World

(***************************************************************************)
(* The daemon implements the abstract hysteresis controller on a machine   *)
(* whose policies nobody else touches, with any number of policies, usable *)
(* or not, any strictness of their drivers, any configurations and any     *)
(* failed reads and writes, signals, restarts and kills.                   *)
(***************************************************************************)
THEOREM DaemonImplementsHysteresis ==
  ASSUME MachineIsOurs
  PROVE  DaemonSpec => ImplementsHysteresis
<1>1. DaemonInit => RefinementInv
  BY DaemonTypesInit, SuccessInvInit
  DEF DaemonInit, RefinementInv, SweepFollowsSample, CpuFreqInit
<1>2. RefinementInv /\ [DaemonNext]_daemonVars => RefinementInv'
  BY DaemonTypesStep, SweepFollowsSampleStep, SuccessInvStep,
     DaemonStepIsCpuFreqStep DEF RefinementInv
<1>3. DaemonInit => Abstract!HysteresisInit
  BY DEF DaemonInit, CpuFreqInit, Abstract!HysteresisInit
<1>4. RefinementInv /\ [DaemonNext]_daemonVars
        => [Abstract!HysteresisNext]_(Abstract!hysteresisVars)
  BY DaemonStepRefines
<1> QED BY <1>1, <1>2, <1>3, <1>4, PTL
        DEF DaemonSpec, ImplementsHysteresis, Abstract!HysteresisSpec

----------------------------------------------------------------------------
(***************************************************************************)
(* The cached state.  Where reads and writes do not fail by themselves, a  *)
(* process that has committed a state never sees a sweep fail again: the   *)
(* limits stay between its two clocks, so no driver has a reason to reject *)
(* a write, even if an earlier process left them where the first sweeps    *)
(* were rejected.                                                          *)
(***************************************************************************)
NothingFails == {"io", "external", "hotplug"} \cap Disturbances = {}

Committed == pc # "dead" /\ state # "UNKNOWN"

BetweenClocks ==
  Committed => \A p \in Policies :
    /\ Usable(p)
    /\ scalingMin[p] <= Frequency(p, config.high)
    /\ scalingMax[p] >= Frequency(p, config.low)

SweepSucceeds ==
  Committed /\ pc = "apply" => SafeHalfway /\ succeeded = attempted \ {policy}

StateInv == /\ RefinementInv
            /\ BetweenClocks
            /\ SweepSucceeds
            /\ StateMatchesMachine

LEMMA CommittedWriteAccepted ==
  ASSUME StateInv, Committed, Sweep, Write
  PROVE  PendingAccepted
<1> USE DEF StateInv, RefinementInv, DaemonTypes, SuccessInv, CpuFreqTypeOK
<1>1. policy \in Policies /\ policy \in present /\ pc = "apply"
  BY DEF Write, Sweep, SweepCovers
<1>2. config.low \in Nat /\ config.high \in Nat /\ config.low <= config.high
      /\ base = config.low /\ goal \in {config.low, config.high}
  BY <1>1 DEF SweepFollowsSample
<1>3. /\ Frequency(policy, config.low) <= Frequency(policy, goal)
      /\ Frequency(policy, goal) <= Frequency(policy, config.high)
  BY <1>1, <1>2, FrequencyMonotone
<1>4. /\ scalingMin[policy] <= Frequency(policy, config.high)
      /\ scalingMax[policy] >= Frequency(policy, config.low)
  BY <1>1 DEF BetweenClocks
<1>5. PendingMin <= PendingMax
  <2>1. CASE call = "first"
    BY <1>1, <1>2, <1>3, <1>4, <2>1, FrequencyType
    DEF PendingMin, PendingMax, WritesMin
  <2>2. CASE call = "second"
    BY <1>1, <1>2, <2>2
    DEF PendingMin, PendingMax, WritesMin, SweepSucceeds, SafeHalfway
  <2> QED BY <2>1, <2>2 DEF Write
<1> QED BY <1>1, <1>5 DEF PendingAccepted, Accepts

LEMMA CommittedWrite ==
  ASSUME NothingFails, StateInv, Committed, Sweep, Write
  PROVE  BetweenClocks' /\ SweepSucceeds'
<1>1. /\ scalingMin' = [scalingMin EXCEPT ![policy] = PendingMin]
      /\ scalingMax' = [scalingMax EXCEPT ![policy] = PendingMax]
      /\ IF call = "first"
           THEN call' = "second" /\ UNCHANGED <<succeeded, policy>>
           ELSE /\ call' = "scan" /\ policy' = NoPolicy
                /\ succeeded' = succeeded \cup {policy}
  BY CommittedWriteAccepted DEF Write, NothingFails, Disturb
<1>2. /\ UNCHANGED <<pc, state, config, goal, base, attempted>> /\ pc = "apply"
  BY DEF Sweep, Write, processVars, argVars
<1>3. /\ policy \in Policies /\ policy \in attempted
      /\ goal \in Nat /\ base \in Nat /\ attempted \subseteq Policies
      /\ scalingMin \in [Policies -> Nat] /\ scalingMax \in [Policies -> Nat]
      /\ config.low \in Nat /\ config.high \in Nat /\ config.low <= config.high
  BY DEF Write, StateInv, RefinementInv, DaemonTypes, SuccessInv, CpuFreqTypeOK
<1>4. goal \in {config.low, config.high}
  BY <1>2 DEF StateInv, RefinementInv, SweepFollowsSample
<1>5. /\ Frequency(policy, config.low) <= Frequency(policy, goal)
      /\ Frequency(policy, goal) <= Frequency(policy, config.high)
  BY <1>3, <1>4, FrequencyMonotone
<1>6. PendingMin \in {scalingMin[policy], Frequency(policy, goal)}
      /\ PendingMax \in {scalingMax[policy], Frequency(policy, goal)}
  BY DEF PendingMin, PendingMax
<1>7. BetweenClocks'
  BY <1>1, <1>2, <1>3, <1>5, <1>6 DEF StateInv, BetweenClocks, Committed
<1>8. SafeHalfway'
  BY <1>1, <1>2, <1>3, FrequencyType
  DEF SafeHalfway, PendingMin, PendingMax, WritesMin
<1>9. succeeded' = attempted' \ {policy'}
  <2>1. succeeded = attempted \ {policy}
    BY <1>2 DEF StateInv, SweepSucceeds
  <2>2. NoPolicy \notin attempted
    BY <1>3
  <2> QED BY <1>1, <1>2, <1>3, <2>1, <2>2
<1> QED BY <1>7, <1>8, <1>9 DEF SweepSucceeds

LEMMA FinishMatches ==
  ASSUME StateInv, Finish
  PROVE  BetweenClocks' /\ SweepSucceeds' /\ StateMatchesMachine'
<1> USE DEF StateInv, RefinementInv
<1>1. /\ UNCHANGED <<config, scalingMin, scalingMax, present>>
      /\ pc = "apply" /\ pc' = "sleep" /\ todo = {} /\ call = "scan"
      /\ present = Policies /\ attempted = Policies /\ policy \notin Policies
  BY DEF Finish, Return, limitVars, SuccessInv, SweepCovers, CpuFreqTypeOK
<1>2. SweepSucceeds'
  BY <1>1 DEF SweepSucceeds
<1>3. CASE AllApplied
  <2>1. \A p \in Policies : Usable(p) /\ Pinned(p, goal)
    BY <1>1, <1>3 DEF AllApplied, SuccessInv, CountedUsable, SucceededPinned
  <2>2. goal = StateClock'
    BY <1>1, <1>3
    DEF Finish, StateClock, SweepFollowsSample, GoesLow, GoesHigh
  <2>3. StateMatchesMachine'
    BY <1>1, <2>1, <2>2 DEF StateMatchesMachine, Pinned
  <2>4. /\ config.low \in Nat /\ config.high \in Nat /\ config.low <= config.high
        /\ goal \in {config.low, config.high}
    BY <1>1 DEF DaemonTypes, SweepFollowsSample
  <2>5. BetweenClocks'
    BY <1>1, <2>1, <2>4, FrequencyMonotone, FrequencyType
    DEF BetweenClocks, Pinned
  <2> QED BY <1>2, <2>3, <2>5
<1>4. CASE ~AllApplied
  <2>1. state' = state
    BY <1>4 DEF Finish
  <2>2. Committed => Policies = {}
    BY <1>1, <1>4 DEF SweepSucceeds, AllApplied
  <2>3. Committed' => Policies = {}
    BY <1>1, <2>1, <2>2 DEF Committed
  <2> QED BY <1>1, <1>2, <2>1, <2>3
          DEF BetweenClocks, StateMatchesMachine, Committed
<1> QED BY <1>3, <1>4

LEMMA StateInvStep ==
  NothingFails /\ StateInv /\ RefinementInv' /\ [DaemonNext]_daemonVars
    => StateInv'
<1> SUFFICES ASSUME NothingFails, StateInv, RefinementInv', [DaemonNext]_daemonVars
             PROVE  BetweenClocks' /\ SweepSucceeds' /\ StateMatchesMachine'
  BY DEF StateInv
<1> USE DEF BetweenClocks, SweepSucceeds, StateMatchesMachine, Committed, SafeHalfway,
            Pinned, StateClock, limitVars, cpufreqVars, processVars
<1>1. CASE Start
  BY <1>1 DEF Start
<1>2. CASE Wake \/ SampleFails
  BY <1>2 DEF Wake, SampleFails, StateInv, RefinementInv, DaemonTypes
<1>3. CASE Sample
  <2>1. UNCHANGED <<limitVars, present, config, state>>
        /\ pc = "awake" /\ pc' \in {"sleep", "apply"}
    BY <1>3 DEF Sample, SetAll
  <2>2. pc' = "apply" => call' = "scan" /\ attempted' = {} /\ succeeded' = {}
    BY <1>3 DEF Sample, SetAll
  <2> QED BY <2>1, <2>2 DEF StateInv
<1>4. CASE Sweep /\ Write
  <2>1. pc' = "apply" /\ (Committed' <=> Committed)
    BY <1>4 DEF Sweep
  <2> QED BY <1>4, <2>1, CommittedWrite
<1>5. ASSUME Sweep, NEW p \in Policies, ReadEntry(p)
      PROVE  BetweenClocks' /\ SweepSucceeds' /\ StateMatchesMachine'
  <2>1. UNCHANGED <<limitVars, goal, base, succeeded>> /\ call' # "second"
        /\ UNCHANGED <<pc, state, config>> /\ pc = "apply" /\ policy = NoPolicy
    BY <1>5 DEF Sweep, ReadEntry, argVars, StateInv, RefinementInv, SuccessInv,
                CpuFreqTypeOK
  <2>2. Committed => attempted' = attempted \cup {p} /\ policy' = p
    <3>1. Committed => p \in present /\ Usable(p)
      BY DEF StateInv, RefinementInv, SuccessInv, SweepCovers
    <3>2. ~Disturb("io")
      BY DEF Disturb, NothingFails
    <3> QED BY ONLY <1>5, <3>1, <3>2 DEF ReadEntry
  <2>3. p \notin attempted /\ NoPolicy \notin attempted
    BY <1>5 DEF ReadEntry, StateInv, RefinementInv, SuccessInv, SweepCovers,
                CpuFreqTypeOK
  <2>4. Committed => succeeded' = attempted' \ {policy'}
    BY <2>1, <2>2, <2>3 DEF StateInv
  <2> QED BY <2>1, <2>4 DEF StateInv
<1>6. CASE Finish
  BY <1>6, FinishMatches
<1>7. CASE StopSignal \/ StopUnit \/ StartUnit \/ SaveConfig
  BY <1>7 DEF StopSignal, StopUnit, StartUnit, SaveConfig, StateInv
<1>8. CASE Crash
  BY <1>8 DEF Crash
<1>9. CASE KernelStep
  BY <1>9 DEF KernelStep, Kernel, Vanish, Appear, OtherWriter, Disturb,
              NothingFails, StateInv, RefinementInv, SuccessInv, SweepCovers
<1>10. CASE CalmDown
  BY <1>10 DEF CalmDown, Settle, callVars, StateInv
<1>11. CASE UNCHANGED daemonVars
  BY <1>11 DEF daemonVars, StateInv
<1> QED BY <1>1, <1>2, <1>3, <1>4, <1>5, <1>6, <1>7, <1>8, <1>9, <1>10, <1>11
        DEF DaemonNext, DaemonStep, World, Sweep, SetAllStep

(***************************************************************************)
(* The cached state is the truth about the machine, for any number of      *)
(* policies with any ranges and any strictness, through reconfigurations,  *)
(* signals, restarts and kills in the middle of a sweep.                   *)
(***************************************************************************)
THEOREM StateMatchesMachineHolds ==
  ASSUME NothingFails
  PROVE  DaemonSpec => []StateMatchesMachine
<1>1. DaemonInit => StateInv
  BY DaemonTypesInit, SuccessInvInit
  DEF DaemonInit, StateInv, RefinementInv, SweepFollowsSample, CpuFreqInit,
      BetweenClocks, SweepSucceeds, StateMatchesMachine, Committed
<1>2. RefinementInv /\ [DaemonNext]_daemonVars => RefinementInv'
  BY DaemonTypesStep, SweepFollowsSampleStep, SuccessInvStep,
     DaemonStepIsCpuFreqStep DEF RefinementInv, NothingFails, MachineIsOurs
<1>3. StateInv /\ [DaemonNext]_daemonVars => StateInv'
  BY <1>2, StateInvStep DEF StateInv
<1>4. StateInv => StateMatchesMachine
  BY DEF StateInv
<1> QED BY <1>1, <1>3, <1>4, PTL DEF DaemonSpec

----------------------------------------------------------------------------
(***************************************************************************)
(* Where files do fail and policies come and go, the cached state is not   *)
(* the truth any more, but what a process has committed still bounds the   *)
(* limits: a sweep that fails half way has written clocks of the same      *)
(* configuration, and a policy that comes back comes with its whole range. *)
(* So a driver has no reason to reject a write of that process.            *)
(***************************************************************************)
Within(p) ==
  Usable(p) => /\ scalingMin[p] <= Frequency(p, config.high)
               /\ scalingMax[p] >= Frequency(p, config.low)

CommittedWithin ==
  state # "UNKNOWN" => \A p \in Policies : p \in present \/ p = policy => Within(p)

\* What a commit rests on: a policy that a sweep has passed without counting
\* it as failed has one of the two clocks, or its whole range.
PassedWithin ==
  pc = "apply" => \A p \in present : p \in todo \/ p \in attempted \ succeeded \/ Within(p)

BoundsInv == /\ DaemonTypes /\ HalfwayInv /\ SweepFollowsSample
             /\ CommittedWithin /\ PassedWithin

LEMMA BoundsAccept == BoundsInv => CommittedNeverRejected
<1> SUFFICES ASSUME BoundsInv, state # "UNKNOWN", call \in {"first", "second"}
             PROVE  PendingMin <= PendingMax
  BY DEF CommittedNeverRejected, NoRejectedWrite, Accepts
<1> USE DEF BoundsInv, HalfwayInv, CpuFreqTypeOK, DaemonTypes
<1>1. policy \in Policies /\ Usable(policy) /\ pc = "apply"
  BY DEF CallArguments
<1>2. config.low \in Nat /\ config.high \in Nat /\ config.low <= config.high
      /\ base = config.low /\ goal \in {config.low, config.high}
  BY <1>1 DEF SweepFollowsSample
<1>3. /\ Frequency(policy, config.low) <= Frequency(policy, goal)
      /\ Frequency(policy, goal) <= Frequency(policy, config.high)
  BY <1>1, <1>2, FrequencyMonotone
<1>4. /\ scalingMin[policy] <= Frequency(policy, config.high)
      /\ scalingMax[policy] >= Frequency(policy, config.low)
  BY <1>1 DEF CommittedWithin, Within
<1>5. CASE call = "first"
  BY <1>1, <1>2, <1>3, <1>4, <1>5, FrequencyType
  DEF PendingMin, PendingMax, WritesMin
<1>6. CASE call = "second"
  BY <1>1, <1>2, <1>6 DEF PendingMin, PendingMax, WritesMin, SafeHalfway
<1> QED BY <1>5, <1>6

\* A write of a clock of the configuration keeps a policy within them, and the
\* second one puts it there.
LEMMA BoundsWrite ==
  ASSUME BoundsInv, Sweep, Write
  PROVE  CommittedWithin' /\ PassedWithin'
<1> USE DEF BoundsInv, HalfwayInv, CpuFreqTypeOK, DaemonTypes
<1>1. /\ UNCHANGED <<pc, state, config, present, todo, attempted>> /\ pc = "apply"
      /\ policy' \in {policy, NoPolicy}
  BY DEF Sweep, Write, processVars
<1>2. /\ policy \in Policies /\ policy \in attempted /\ Usable(policy)
      /\ goal \in Nat /\ base \in Nat
      /\ scalingMin \in [Policies -> Nat] /\ scalingMax \in [Policies -> Nat]
      /\ policy \notin succeeded
  BY DEF Write, CallArguments, CountedOnce
<1>3. config.low \in Nat /\ config.high \in Nat /\ config.low <= config.high
      /\ base = config.low /\ goal \in {config.low, config.high}
  BY <1>1 DEF SweepFollowsSample
<1>4. /\ Frequency(policy, config.low) <= Frequency(policy, goal)
      /\ Frequency(policy, goal) <= Frequency(policy, config.high)
      /\ Frequency(policy, goal) \in Nat /\ Frequency(policy, config.low) \in Nat
      /\ Frequency(policy, config.high) \in Nat
  BY <1>2, <1>3, FrequencyMonotone, FrequencyType
<1>5. CASE UNCHANGED <<scalingMin, scalingMax, succeeded>>
  BY <1>1, <1>5 DEF CommittedWithin, PassedWithin, Within
<1>6. CASE /\ PendingAccepted
           /\ scalingMin' = [scalingMin EXCEPT ![policy] = PendingMin]
           /\ scalingMax' = [scalingMax EXCEPT ![policy] = PendingMax]
           /\ succeeded' = IF call = "first" THEN succeeded ELSE succeeded \cup {policy}
  <2>1. \A p \in Policies : p # policy =>
          scalingMin'[p] = scalingMin[p] /\ scalingMax'[p] = scalingMax[p]
    BY <1>2, <1>6
  <2>2. scalingMin'[policy] = PendingMin /\ scalingMax'[policy] = PendingMax
    BY <1>2, <1>6
  <2>3. \A p \in Policies : p # policy => (Within(p)' <=> Within(p))
    BY <1>1, <2>1 DEF Within
  <2>4. Within(policy) => (scalingMin'[policy] <= Frequency(policy, config.high)
                           /\ scalingMax'[policy] >= Frequency(policy, config.low))
    BY <1>2, <1>4, <2>2 DEF PendingMin, PendingMax, Within
  <2>5. call = "second" => (scalingMin'[policy] <= Frequency(policy, config.high)
                            /\ scalingMax'[policy] >= Frequency(policy, config.low))
    BY <1>2, <1>3, <1>4, <2>2
    DEF PendingMin, PendingMax, WritesMin, SafeHalfway
  <2>6. \A p \in Policies : p = policy =>
          /\ Within(p) => Within(p)'
          /\ call = "second" => Within(p)'
    BY <1>1, <2>4, <2>5 DEF Within
  <2>7. CommittedWithin'
    BY <1>1, <1>2, <2>3, <2>6 DEF CommittedWithin
  <2>8. PassedWithin'
    BY <1>1, <1>2, <1>6, <2>3, <2>6 DEF PassedWithin, Write
  <2> QED BY <2>7, <2>8
<1> QED BY <1>5, <1>6 DEF Write, limitVars

LEMMA BoundsKernel ==
  ASSUME NobodyElseWrites, BoundsInv, KernelStep
  PROVE  CommittedWithin' /\ PassedWithin'
<1> USE DEF BoundsInv, HalfwayInv, CpuFreqTypeOK, DaemonTypes
<1>1. UNCHANGED <<pc, state, config, policy, attempted, succeeded>>
  BY DEF KernelStep, processVars, Kernel, Vanish, Appear, OtherWriter, callVars
<1>2. ASSUME NEW q \in Policies, Vanish(q)
      PROVE  CommittedWithin' /\ PassedWithin'
  <2>1. /\ present' \subseteq present /\ UNCHANGED <<scalingMin, scalingMax>>
        /\ q \notin present' /\ todo' \in {todo, todo \ {q}}
    BY <1>2 DEF Vanish, limitVars
  <2> QED BY <1>1, <2>1 DEF CommittedWithin, PassedWithin, Within
<1>3. ASSUME NEW q \in Policies, Appear(q)
      PROVE  CommittedWithin' /\ PassedWithin'
  <2>1. /\ scalingMin' = [scalingMin EXCEPT ![q] = HwMin[q]]
        /\ scalingMax' = [scalingMax EXCEPT ![q] = HwMax[q]]
        /\ present' = present \cup {q} /\ todo \subseteq todo'
    BY <1>3 DEF Appear
  <2>2. \A p \in Policies : p # q => (Within(p)' <=> Within(p))
    BY <1>1, <2>1 DEF Within
  <2>3. \A p \in Policies : p = q => Within(p)'
    <3>1. config.low \in Nat /\ config.high \in Nat
      OBVIOUS
    <3>2. scalingMin'[q] = HwMin[q] /\ scalingMax'[q] = HwMax[q]
      BY <2>1
    <3>3. Usable(q) => HwMin[q] <= Frequency(q, config.high)
                       /\ HwMax[q] >= Frequency(q, config.low)
      BY <3>1, FrequencyInRange, FrequencyType
    <3> QED BY <1>1, <3>2, <3>3 DEF Within
  <2> QED BY <1>1, <2>1, <2>2, <2>3 DEF CommittedWithin, PassedWithin
<1>4. ~\E q \in Policies : OtherWriter(q)
  BY DEF OtherWriter, Disturb, NobodyElseWrites
<1> QED BY <1>2, <1>3, <1>4 DEF KernelStep, Kernel

LEMMA BoundsStep ==
  NobodyElseWrites /\ BoundsInv /\ [DaemonNext]_daemonVars => CommittedWithin' /\ PassedWithin'
<1> SUFFICES ASSUME NobodyElseWrites, BoundsInv, [DaemonNext]_daemonVars
             PROVE  CommittedWithin' /\ PassedWithin'
  OBVIOUS
<1> USE DEF BoundsInv, CommittedWithin, PassedWithin, Within, limitVars, cpufreqVars,
            processVars
<1>1. CASE Start
  BY <1>1 DEF Start, DaemonTypes
<1>2. CASE Wake \/ SampleFails
  BY <1>2 DEF Wake, SampleFails
<1>3. CASE Sample
  <2>1. UNCHANGED <<limitVars, present, config, state, policy>>
        /\ (pc' = "apply" => todo' = present)
    BY <1>3 DEF Sample, SetAll
  <2> QED BY <2>1
<1>4. CASE Sweep /\ Write
  BY <1>4, BoundsWrite
<1>5. ASSUME Sweep, NEW q \in Policies, ReadEntry(q)
      PROVE  CommittedWithin' /\ PassedWithin'
  <2>1. /\ UNCHANGED <<limitVars, present, succeeded, pc, state, config>>
        /\ todo' = todo \ {q} /\ attempted' = attempted \cup {q} /\ q \in todo
        /\ policy' = policy \/ policy' \in present
    BY <1>5 DEF Sweep, ReadEntry
  <2>2. q \notin succeeded
    BY <2>1 DEF HalfwayInv, CountedOnce, CpuFreqTypeOK
  <2> QED BY <2>1, <2>2
<1>6. CASE Finish
  <2>1. UNCHANGED <<limitVars, present, config>> /\ pc = "apply" /\ pc' = "sleep"
        /\ todo = {} /\ policy' = NoPolicy
        /\ (state' # state => attempted = succeeded)
    BY <1>6 DEF Finish, Return, ClearCall, AllApplied
  <2>2. NoPolicy \notin Policies /\ present \subseteq Policies
    BY DEF HalfwayInv, CpuFreqTypeOK
  <2>3. PassedWithin'
    BY <2>1
  <2>4. \A p \in present : Within(p) \/ p \in attempted \ succeeded
    BY <2>1, <2>2
  <2>5. CASE state' = state
    BY <2>1, <2>2, <2>5
  <2>6. CASE state' # state
    BY <2>1, <2>2, <2>4, <2>6
  <2> QED BY <2>3, <2>5, <2>6
<1>7. CASE StopSignal \/ StopUnit \/ StartUnit \/ SaveConfig
  BY <1>7 DEF StopSignal, StopUnit, StartUnit, SaveConfig
<1>8. CASE Crash
  <2>1. UNCHANGED <<limitVars, present, config, state>> /\ pc' = "dead"
        /\ policy' \in {policy, NoPolicy}
    BY <1>8 DEF Crash, Abandon, ClearCall
  <2> QED BY <2>1
<1>9. CASE KernelStep
  BY <1>9, BoundsKernel
<1>10. CASE CalmDown
  BY <1>10 DEF CalmDown, Settle, callVars
<1>11. CASE UNCHANGED daemonVars
  BY <1>11 DEF daemonVars
<1> QED BY <1>1, <1>2, <1>3, <1>4, <1>5, <1>6, <1>7, <1>8, <1>9, <1>10, <1>11
        DEF DaemonNext, DaemonStep, World, Sweep, SetAllStep

(***************************************************************************)
(* A process that has committed a state has no write rejected any more,    *)
(* for any number of configurations and policies, with files that fail,    *)
(* policies that come and go in the middle of a sweep, kills and           *)
(* reconfigurations.                                                       *)
(***************************************************************************)
THEOREM CommittedNeverRejectedHolds ==
  ASSUME NobodyElseWrites
  PROVE  DaemonSpec => []CommittedNeverRejected
<1>1. DaemonInit => BoundsInv
  BY DaemonTypesInit, HalfwayInvInit
  DEF DaemonInit, BoundsInv, SweepFollowsSample, CpuFreqInit, CommittedWithin, PassedWithin
<1>2. BoundsInv /\ [DaemonNext]_daemonVars => BoundsInv'
  BY DaemonTypesStep, SweepFollowsSampleStep, HalfwayInvStep, DaemonStepIsCpuFreqStep,
     BoundsStep DEF BoundsInv
<1> QED BY <1>1, <1>2, BoundsAccept, PTL DEF DaemonSpec

----------------------------------------------------------------------------
(***************************************************************************)
(* What a fresh process has rejected.  The limits of a strict policy are   *)
(* in order, so they cannot be below both clocks' way in: the sweep to one *)
(* side or the other gets hold of it.                                      *)
(***************************************************************************)
LEMMA OrderedOpens ==
  ASSUME DaemonTypes, CpuFreqTypeOK, CallArguments, SweepFollowsSample, StrictOrdered
  PROVE  RefusedOneWayOnly
<1> SUFFICES ASSUME call = "first", config.low < config.high, policy \in Strict,
                    ~(PendingMin <= PendingMax)
             PROVE  FirstAccepted(policy, IF goal = config.low THEN config.high ELSE config.low,
                                  config.low)
  BY DEF RefusedOneWayOnly, Accepts
<1> USE DEF DaemonTypes, CpuFreqTypeOK
<1>1. policy \in Policies /\ Usable(policy) /\ pc = "apply"
  BY DEF CallArguments
<1>2. config.low \in Nat /\ config.high \in Nat
      /\ base = config.low /\ goal \in {config.low, config.high}
  BY <1>1 DEF SweepFollowsSample
<1>3. /\ Frequency(policy, config.low) <= Frequency(policy, config.high)
      /\ Frequency(policy, config.low) \in Nat /\ Frequency(policy, config.high) \in Nat
      /\ scalingMin[policy] \in Nat /\ scalingMax[policy] \in Nat
      /\ scalingMin[policy] <= scalingMax[policy]
  BY <1>1, <1>2, FrequencyMonotone, FrequencyType DEF StrictOrdered
<1>4. CASE goal = config.low
  <2>1. PendingMin = Frequency(policy, config.low) /\ PendingMax = scalingMax[policy]
    BY <1>2, <1>4 DEF PendingMin, PendingMax, WritesMin
  <2> QED BY <1>2, <1>3, <1>4, <2>1 DEF FirstAccepted, Accepts
<1>5. CASE goal # config.low
  <2>1. PendingMin = scalingMin[policy] /\ PendingMax = Frequency(policy, config.high)
    BY <1>2, <1>5 DEF PendingMin, PendingMax, WritesMin
  <2> QED BY <1>2, <1>3, <1>5, <2>1 DEF FirstAccepted, Accepts
<1> QED BY <1>4, <1>5

(***************************************************************************)
(* No policy refuses both sweeps of a process whose two clocks differ: for *)
(* any machine, any configurations and every disturbance, other programs   *)
(* that write the limits among them.                                       *)
(***************************************************************************)
THEOREM RefusedOneWayOnlyHolds == DaemonSpec => []RefusedOneWayOnly
<1>1. DaemonInit => DaemonTypes /\ CallArguments /\ SweepFollowsSample
  BY DaemonTypesInit DEF DaemonInit, SweepFollowsSample, CpuFreqInit, CallArguments
<1>2. CpuFreqTypeOK /\ CallArguments /\ [CpuFreqNext]_cpufreqVars => CallArguments'
  BY CallArgumentsStep
<1>3. /\ CpuFreqTypeOK
      /\ DaemonTypes /\ CallArguments /\ SweepFollowsSample
      /\ [DaemonNext]_daemonVars
      => (DaemonTypes /\ CallArguments /\ SweepFollowsSample)'
  BY <1>2, DaemonTypesStep, SweepFollowsSampleStep, DaemonStepIsCpuFreqStep
<1>4. CpuFreqTypeOK /\ StrictOrdered /\ DaemonTypes /\ CallArguments /\ SweepFollowsSample
        => RefusedOneWayOnly
  BY OrderedOpens
<1> QED BY <1>1, <1>3, <1>4, DaemonImplementsCpuFreq, CpuFreqTypeCorrect, StrictKeepsOrder,
           PTL DEF DaemonSpec

----------------------------------------------------------------------------
(***************************************************************************)
(* The way to the exit.  An entry that has been counted is not met again,  *)
(* whatever happens to the directory, so the policies that are not counted *)
(* bound what is left of a sweep.                                          *)
(***************************************************************************)
MetOnce == todo \cap attempted = {}

LEMMA MetOnceStep ==
  CpuFreqTypeOK /\ MetOnce /\ [CpuFreqNext]_cpufreqVars => MetOnce'
<1> SUFFICES ASSUME CpuFreqTypeOK, MetOnce, [CpuFreqNext]_cpufreqVars
             PROVE  MetOnce'
  OBVIOUS
<1> USE DEF MetOnce
<1>1. ASSUME NEW c \in Configs, SetAll(c.low, c.low) \/ SetAll(c.high, c.low)
      PROVE  MetOnce'
  BY <1>1 DEF SetAll
<1>2. CASE Return \/ Abandon
  BY <1>2 DEF Return, Abandon, ClearCall
<1>3. ASSUME NEW p \in Policies, ReadEntry(p) PROVE MetOnce'
  BY <1>3 DEF ReadEntry
<1>4. CASE Write
  BY <1>4 DEF Write
<1>5. ASSUME NEW p \in Policies, Vanish(p) \/ OtherWriter(p) PROVE MetOnce'
  BY <1>5 DEF Vanish, OtherWriter, callVars
<1>6. ASSUME NEW p \in Policies, Appear(p) PROVE MetOnce'
  BY <1>6 DEF Appear
<1>7. CASE Settle \/ UNCHANGED cpufreqVars
  BY <1>7 DEF Settle, callVars, cpufreqVars
<1> QED BY <1>1, <1>2, <1>3, <1>4, <1>5, <1>6, <1>7
        DEF CpuFreqNext, Caller, SetAllStep, Kernel

\* What a call has left: a read and two writes for each policy not counted yet.
Phase == IF call = "first" THEN 2 ELSE IF call = "second" THEN 1 ELSE 0
SweepSteps == 3 * Cardinality(Policies \ attempted) + Phase

LEMMA Counts ==
  ASSUME IsFiniteSet(Policies), NEW met
  PROVE  /\ IsFiniteSet(Policies \ met)
         /\ Cardinality(Policies) \in Nat
         /\ Cardinality(Policies \ met) \in Nat
         /\ Cardinality(Policies \ met) <= Cardinality(Policies)
         /\ \A p \in Policies \ met :
              Cardinality(Policies \ (met \cup {p})) = Cardinality(Policies \ met) - 1
<1>1. IsFiniteSet(Policies \ met) /\ Cardinality(Policies \ met) <= Cardinality(Policies)
  BY FS_Subset
<1>2. Cardinality(Policies) \in Nat /\ Cardinality(Policies \ met) \in Nat
  BY <1>1, FS_CardinalityType
<1>3. ASSUME NEW p \in Policies \ met
      PROVE  Cardinality(Policies \ (met \cup {p})) = Cardinality(Policies \ met) - 1
  <2>1. Policies \ (met \cup {p}) = (Policies \ met) \ {p}
    OBVIOUS
  <2> QED BY <1>1, <1>3, <2>1, FS_RemoveElement
<1> QED BY <1>1, <1>2, <1>3

\* A call ends by itself: each of its steps leaves less to do.
LEMMA SweepAdvances ==
  ASSUME IsFiniteSet(Policies), MetOnce, SetAllStep
  PROVE  SweepSteps' < SweepSteps
<1> DEFINE n == Cardinality(Policies \ attempted)
<1>1. n \in Nat
  BY Counts
<1>2. ASSUME NEW p \in Policies, ReadEntry(p) PROVE SweepSteps' < SweepSteps
  <2>1. p \in Policies \ attempted /\ attempted' = attempted \cup {p}
    BY <1>2 DEF ReadEntry, MetOnce
  <2>2. n' = n - 1
    BY <2>1, Counts
  <2>3. Phase = 0 /\ (Phase' = 0 \/ Phase' = 2)
    BY <1>2 DEF ReadEntry, Phase
  <2>4. SweepSteps = 3 * n /\ (SweepSteps' = 3 * (n - 1) \/ SweepSteps' = 3 * (n - 1) + 2)
    BY <1>1, <2>2, <2>3 DEF SweepSteps
  <2>5. 3 * (n - 1) < 3 * n /\ 3 * (n - 1) + 2 < 3 * n
    BY <1>1
  <2> QED BY <2>4, <2>5
<1>3. CASE Write
  <2>1. attempted' = attempted
    BY <1>3 DEF Write
  <2>2. \/ Phase = 2 /\ (Phase' = 1 \/ Phase' = 0)
        \/ Phase = 1 /\ Phase' = 0
    BY <1>3 DEF Write, Phase
  <2>3. SweepSteps = 3 * n + Phase /\ SweepSteps' = 3 * n + Phase'
    BY <2>1 DEF SweepSteps
  <2>4. 3 * n \in Nat
    BY <1>1
  <2> QED BY <2>2, <2>3, <2>4
<1> QED BY <1>2, <1>3 DEF SetAllStep

\* The same of this state and of the next one.
LEMMA SweepStepsType ==
  ASSUME IsFiniteSet(Policies)
  PROVE  SweepSteps \in Nat /\ SweepSteps' \in Nat
<1>1. Cardinality(Policies \ attempted) \in Nat /\ Cardinality(Policies \ attempted') \in Nat
  BY Counts
<1>2. Phase \in Nat /\ Phase' \in Nat
  BY DEF Phase
<1> QED BY <1>1, <1>2 DEF SweepSteps

LEMMA ExitAfterSweep ==
  ASSUME IsFiniteSet(Policies)
  PROVE  /\ pc = "apply" => StepsToExit = 2 + SweepSteps
         /\ pc' = "apply" => StepsToExit' = 2 + SweepSteps'
<1>1. Cardinality(Policies \ attempted) \in Nat /\ Cardinality(Policies \ attempted') \in Nat
  BY Counts
<1>2. ASSUME pc = "apply" PROVE StepsToExit = 2 + SweepSteps
  <2>1. StepsToExit = 2 + 3 * Cardinality(Policies \ attempted) + Phase
    BY <1>2 DEF StepsToExit, Phase
  <2>2. Phase \in Nat
    BY DEF Phase
  <2> QED BY <1>1, <2>1, <2>2 DEF SweepSteps
<1>3. ASSUME pc' = "apply" PROVE StepsToExit' = 2 + SweepSteps'
  <2>1. StepsToExit' = 2 + 3 * Cardinality(Policies \ attempted') + Phase'
    BY <1>3 DEF StepsToExit, Phase
  <2>2. Phase' \in Nat
    BY DEF Phase
  <2> QED BY <1>1, <2>1, <2>2 DEF SweepSteps
<1> QED BY <1>2, <1>3

\* No step of the process puts its exit off, once it is told to stop.
LEMMA OwnStepAdvances ==
  ASSUME IsFiniteSet(Policies), DaemonTypes, DaemonTypes', MetOnce, DaemonStep,
         pc # "dead", running = 0
  PROVE  StepsToExit' < StepsToExit
<1> DEFINE n == Cardinality(Policies \ attempted)
           all == Cardinality(Policies)
<1>1. n \in Nat /\ all \in Nat
  BY Counts
<1>2. ~Start
  BY DEF Start
<1>3. CASE Wake
  BY <1>3 DEF Wake, StepsToExit
<1>4. CASE SampleFails \/ Sample
  <2>1. /\ pc = "awake"
        /\ \/ pc' = "sleep"
           \/ pc' = "apply" /\ attempted' = {} /\ call' = "scan"
    BY <1>4 DEF SampleFails, Sample, SetAll
  <2>2. StepsToExit = 3 + 3 * all
    BY <2>1 DEF StepsToExit
  <2>3. CASE pc' = "sleep"
    <3>1. StepsToExit' = 1
      BY <2>3 DEF StepsToExit
    <3> QED BY <1>1, <2>2, <3>1
  <2>4. CASE pc' = "apply" /\ attempted' = {} /\ call' = "scan"
    <3>1. (Policies \ attempted)' = Policies
      BY <2>4
    <3>2. StepsToExit' = 2 + 3 * all
      BY <1>1, <2>4, <3>1 DEF StepsToExit
    <3> QED BY <1>1, <2>2, <3>2
  <2> QED BY <2>1, <2>3, <2>4
<1>5. CASE Sweep
  <2>1. pc = "apply" /\ pc' = "apply" /\ SetAllStep
    BY <1>5 DEF Sweep, processVars
  <2>2. SweepSteps' < SweepSteps
    BY <2>1, SweepAdvances
  <2>3. StepsToExit = 2 + SweepSteps /\ StepsToExit' = 2 + SweepSteps'
    BY <2>1, ExitAfterSweep
  <2>4. SweepSteps \in Nat /\ SweepSteps' \in Nat
    BY SweepStepsType
  <2>5. \A a, b \in Nat : a < b => 2 + a < 2 + b
    OBVIOUS
  <2>6. 2 + SweepSteps' < 2 + SweepSteps
    BY <2>2, <2>4, <2>5, Zenon
  <2> QED BY <2>3, <2>6, Zenon
<1>6. CASE Finish
  <2>1. pc = "apply" /\ pc' = "sleep" /\ call = "scan"
    BY <1>6 DEF Finish, Return
  <2>2. StepsToExit = 2 + 3 * n /\ StepsToExit' = 1
    BY <1>1, <2>1 DEF StepsToExit
  <2> QED BY <1>1, <2>2
<1> QED BY <1>2, <1>3, <1>4, <1>5, <1>6 DEF DaemonStep
LEMMA StepsToExitType ==
  ASSUME IsFiniteSet(Policies), DaemonTypes
  PROVE  StepsToExit \in Nat /\ (DaemonTypes' => StepsToExit' \in Nat)
<1>1. /\ Cardinality(Policies) \in Nat
      /\ Cardinality(Policies \ attempted) \in Nat
      /\ Cardinality(Policies \ attempted') \in Nat
  BY Counts
<1> QED BY <1>1 DEF DaemonTypes, StepsToExit

\* Nor does anything that happens to the process or to the files.
LEMMA WorldKeepsDistance ==
  ASSUME IsFiniteSet(Policies), DaemonTypes, World \/ UNCHANGED daemonVars
  PROVE  StepsToExit' <= StepsToExit
<1>1. StepsToExit \in Nat
  BY StepsToExitType
<1>2. CASE Crash
  <2>1. StepsToExit' = 0
    BY <1>2 DEF Crash, StepsToExit
  <2> QED BY <1>1, <2>1
<1>3. CASE ~Crash
  <2>1. pc' = pc /\ call' = call /\ attempted' = attempted
    BY <1>3 DEF World, StopSignal, StopUnit, StartUnit, SaveConfig, KernelStep, CalmDown,
                Kernel, Vanish, Appear, OtherWriter, Settle, callVars, cpufreqVars,
                processVars, daemonVars
  <2>2. StepsToExit' = StepsToExit
    BY <2>1 DEF StepsToExit
  <2> QED BY <1>1, <2>2
<1> QED BY <1>2, <1>3

LEMMA ExitWithin ==
  ASSUME IsFiniteSet(Policies), DaemonTypes, CpuFreqTypeOK
  PROVE  StepsToExit <= 3 * Cardinality(Policies) + 3
<1> DEFINE n == Cardinality(Policies \ attempted)
           all == Cardinality(Policies)
<1>1. n \in Nat /\ all \in Nat /\ n <= all
  BY Counts
<1>2. CASE pc = "apply" /\ call \in {"first", "second"}
  <2>1. policy \in attempted /\ policy \in Policies
    BY <1>2 DEF CpuFreqTypeOK
  <2>2. n <= Cardinality(Policies \ {policy})
    <3>1. Policies \ attempted \subseteq Policies \ {policy}
      BY <2>1
    <3>2. IsFiniteSet(Policies \ {policy})
      BY Counts
    <3> QED BY <3>1, <3>2, FS_Subset
  <2>3. Cardinality(Policies \ {policy}) = all - 1
    BY <2>1, FS_RemoveElement
  <2>4. StepsToExit = 4 + 3 * n \/ StepsToExit = 3 + 3 * n
    BY <1>1, <1>2 DEF StepsToExit
  <2> QED BY <1>1, <2>2, <2>3, <2>4
<1>3. CASE ~(pc = "apply" /\ call \in {"first", "second"})
  <2>1. StepsToExit \in {0, 1, 2 + 3 * n, 3 + 3 * all}
    BY <1>1, <1>3 DEF DaemonTypes, CpuFreqTypeOK, StepsToExit
  <2> QED BY <1>1, <2>1
<1> QED BY <1>2, <1>3

(***************************************************************************)
(* A process told to stop has at most 3 * Cardinality(Policies) + 3 steps  *)
(* to go and none of them, nor anything else, adds one: for any machine,   *)
(* any configurations and every disturbance.                               *)
(***************************************************************************)
THEOREM StopsInTimeHolds ==
  ASSUME IsFiniteSet(Policies)
  PROVE  DaemonSpec => StopsInTime /\ [](StepsToExit <= 3 * Cardinality(Policies) + 3)
<1> DEFINE Inv == CpuFreqTypeOK /\ DaemonTypes /\ MetOnce
<1>1. DaemonInit => DaemonTypes /\ MetOnce
  BY DaemonTypesInit DEF DaemonInit, CpuFreqInit, MetOnce
<1>2. Inv /\ [DaemonNext]_daemonVars => DaemonTypes' /\ MetOnce'
  BY DaemonTypesStep, DaemonStepIsCpuFreqStep, MetOnceStep
<1>3. Inv /\ DaemonTypes' /\ [DaemonNext]_daemonVars
        => [pc # "dead" /\ running = 0 =>
              /\ StepsToExit' <= StepsToExit
              /\ DaemonStep => StepsToExit' < StepsToExit]_daemonVars
  <2> SUFFICES ASSUME Inv, DaemonTypes', [DaemonNext]_daemonVars,
                      pc # "dead", running = 0
               PROVE  /\ StepsToExit' <= StepsToExit
                      /\ DaemonStep => StepsToExit' < StepsToExit
    OBVIOUS
  <2>1. DaemonStep => StepsToExit' < StepsToExit
    BY OwnStepAdvances
  <2>2. ~DaemonStep => StepsToExit' <= StepsToExit
    BY WorldKeepsDistance DEF DaemonNext
  <2>3. StepsToExit \in Nat /\ StepsToExit' \in Nat
    BY StepsToExitType
  <2>4. StepsToExit' < StepsToExit => StepsToExit' <= StepsToExit
    BY <2>3
  <2> QED BY <2>1, <2>2, <2>4
<1>4. Inv => StepsToExit <= 3 * Cardinality(Policies) + 3
  BY ExitWithin
<1> QED BY <1>1, <1>2, <1>3, <1>4, DaemonImplementsCpuFreq, CpuFreqTypeCorrect, PTL
        DEF DaemonSpec, StopsInTime
============================================================================
