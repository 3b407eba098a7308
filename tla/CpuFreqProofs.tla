--------------------------- MODULE CpuFreqProofs ----------------------------
(***************************************************************************)
(* Theorems about CpuFreq for every machine, every set of configurations   *)
(* and any number of disturbances.                                         *)
(***************************************************************************)
EXTENDS CpuFreq, TLAPS

USE HardwareAssumption, ConfigsAssumption

----------------------------------------------------------------------------
(***************************************************************************)
(* What the two clamps of set_one_policy_frequency return: a frequency;    *)
(* one inside the policy's range when that is not inverted; and an order   *)
(* between two targets is never turned round.                              *)
(***************************************************************************)
LEMMA FrequencyType ==
  \A p \in Policies, khz \in Nat : Frequency(p, khz) \in Nat
BY DEF Frequency

LEMMA FrequencyInRange ==
  \A p \in Policies, khz \in Nat :
    Usable(p) => HwMin[p] <= Frequency(p, khz) /\ Frequency(p, khz) <= HwMax[p]
BY DEF Frequency, Usable

LEMMA FrequencyMonotone ==
  \A p \in Policies, a, b \in Nat :
    a <= b => Frequency(p, a) <= Frequency(p, b)
BY DEF Frequency

----------------------------------------------------------------------------
(***************************************************************************)
(* Every variable keeps its type, and a policy is being written exactly    *)
(* when set_one_policy_frequency is between its two writes or before the   *)
(* first.                                                                  *)
(***************************************************************************)
LEMMA TypeInit == CpuFreqInit => CpuFreqTypeOK
BY DEF CpuFreqInit, CpuFreqTypeOK

LEMMA TypeWrite == CpuFreqTypeOK /\ Write => CpuFreqTypeOK'
<1> SUFFICES ASSUME CpuFreqTypeOK, Write PROVE CpuFreqTypeOK'
  OBVIOUS
<1> USE DEF CpuFreqTypeOK
<1>1. policy \in attempted /\ policy \in Policies
      /\ Frequency(policy, goal) \in Nat
  BY FrequencyType DEF Write
<1>2. PendingMin \in Nat /\ PendingMax \in Nat
  BY <1>1 DEF PendingMin, PendingMax
<1>3. scalingMin' \in [Policies -> Nat] /\ scalingMax' \in [Policies -> Nat]
  BY <1>2 DEF Write, limitVars
<1>4. UNCHANGED <<present, goal, base, todo, attempted, weather>>
  BY DEF Write, argVars
<1>5. /\ call' \in {"scan", "second"}
      /\ call' = "second" <=> policy' # NoPolicy
      /\ policy' \in {policy, NoPolicy}
  BY <1>1 DEF Write
<1>6. succeeded' \in {succeeded, succeeded \cup {policy}}
  BY DEF Write
<1> QED BY <1>1, <1>3, <1>4, <1>5, <1>6

LEMMA TypeAbandon == CpuFreqTypeOK /\ (Return \/ Abandon) => CpuFreqTypeOK'
BY DEF CpuFreqTypeOK, Return, Abandon, ClearCall, limitVars

LEMMA TypeSetAll ==
  ASSUME CpuFreqTypeOK, NEW c \in Configs,
         SetAll(c.low, c.low) \/ SetAll(c.high, c.low)
  PROVE  CpuFreqTypeOK'
BY DEF CpuFreqTypeOK, SetAll, limitVars

LEMMA TypeReadEntry ==
  ASSUME CpuFreqTypeOK, NEW p \in Policies, ReadEntry(p)
  PROVE  CpuFreqTypeOK'
BY DEF CpuFreqTypeOK, ReadEntry, limitVars, argVars

LEMMA TypeKernel == CpuFreqTypeOK /\ (Kernel \/ Settle) => CpuFreqTypeOK'
<1> SUFFICES ASSUME CpuFreqTypeOK, Kernel \/ Settle PROVE CpuFreqTypeOK'
  OBVIOUS
<1> USE DEF CpuFreqTypeOK, limitVars, argVars, callVars
<1>1. ASSUME NEW p \in Policies, Vanish(p) PROVE CpuFreqTypeOK'
  BY <1>1 DEF Vanish
<1>2. ASSUME NEW p \in Policies, Appear(p) PROVE CpuFreqTypeOK'
  <2>1. scalingMin' \in [Policies -> Nat] /\ scalingMax' \in [Policies -> Nat]
    BY <1>2 DEF Appear
  <2>2. present' \subseteq Policies /\ todo' \subseteq Policies
    BY <1>2 DEF Appear
  <2> QED BY <1>2, <2>1, <2>2 DEF Appear
<1>3. ASSUME NEW p \in Policies, OtherWriter(p) PROVE CpuFreqTypeOK'
  <2>1. PICK lo, hi \in {HwMin[p], HwMax[p]} \cup
                        {Frequency(p, c.low) : c \in Configs} \cup
                        {Frequency(p, c.high) : c \in Configs} :
          /\ scalingMin' = [scalingMin EXCEPT ![p] = lo]
          /\ scalingMax' = [scalingMax EXCEPT ![p] = hi]
    BY <1>3 DEF OtherWriter
  <2>2. \A c \in Configs : /\ Frequency(p, c.low) \in Nat
                           /\ Frequency(p, c.high) \in Nat
    BY FrequencyType
  <2>3. lo \in Nat /\ hi \in Nat
    BY <2>2
  <2>4. scalingMin' \in [Policies -> Nat] /\ scalingMax' \in [Policies -> Nat]
    BY <2>1, <2>3
  <2> QED BY <1>3, <2>4 DEF OtherWriter
<1>4. ASSUME Settle PROVE CpuFreqTypeOK'
  BY <1>4 DEF Settle
<1> QED BY <1>1, <1>2, <1>3, <1>4 DEF Kernel

LEMMA TypeStep == CpuFreqTypeOK /\ [CpuFreqNext]_cpufreqVars => CpuFreqTypeOK'
<1> SUFFICES ASSUME CpuFreqTypeOK, [CpuFreqNext]_cpufreqVars
             PROVE  CpuFreqTypeOK'
  OBVIOUS
<1>1. CASE Caller
  BY <1>1, TypeSetAll, TypeAbandon DEF Caller
<1>2. CASE SetAllStep
  BY <1>2, TypeReadEntry, TypeWrite DEF SetAllStep
<1>3. CASE Return
  BY <1>3, TypeAbandon
<1>4. CASE Kernel \/ Settle
  BY <1>4, TypeKernel
<1>5. CASE UNCHANGED cpufreqVars
  BY <1>5 DEF CpuFreqTypeOK, cpufreqVars
<1> QED BY <1>1, <1>2, <1>3, <1>4, <1>5 DEF CpuFreqNext

THEOREM CpuFreqTypeCorrect == CpuFreqSpec => []CpuFreqTypeOK
BY TypeInit, TypeStep, PTL DEF CpuFreqSpec

----------------------------------------------------------------------------
(***************************************************************************)
(* The write order of the comment at cpu_linux.c:321.  As long as callers  *)
(* ask for the clocks of one configuration only and no other program       *)
(* writes the limits, every policy's limits stay on the safe side of the   *)
(* two clocks: the minimum never above the high one, the maximum never     *)
(* below the low one.  In the middle of a policy the file written first    *)
(* already stands on the safe side of the target itself.                   *)
(***************************************************************************)
OneConfiguration ==
  /\ \A c, d \in Configs : c = d
  /\ "external" \notin Disturbances

SafeLimits ==
  \A p \in Policies, c \in Configs : Usable(p) =>
    /\ scalingMin[p] <= Frequency(p, c.high)
    /\ scalingMax[p] >= Frequency(p, c.low)

SafeHalfway ==
  call = "second" =>
    IF goal <= base THEN scalingMin[policy] <= Frequency(policy, goal)
                    ELSE scalingMax[policy] >= Frequency(policy, goal)

CallArguments ==
  /\ call # "none" => \E c \in Configs : base = c.low /\ goal \in {c.low, c.high}
  /\ call \in {"first", "second"} => Usable(policy)

WriteInv == CpuFreqTypeOK /\ SafeLimits /\ SafeHalfway /\ CallArguments

LEMMA WriteInvInit == CpuFreqInit => WriteInv
<1> SUFFICES ASSUME CpuFreqInit PROVE WriteInv
  OBVIOUS
<1>1. SafeLimits
  BY FrequencyInRange DEF CpuFreqInit, SafeLimits
<1>2. SafeHalfway /\ CallArguments
  BY DEF CpuFreqInit, SafeHalfway, CallArguments
<1> QED BY <1>1, <1>2, TypeInit DEF WriteInv

(***************************************************************************)
(* What WriteInv says of the pending write.                                *)
(***************************************************************************)
LEMMA WriteInvAccepts ==
  OneConfiguration /\ WriteInv => NoRejectedWrite
<1> SUFFICES ASSUME OneConfiguration, WriteInv, call \in {"first", "second"}
             PROVE  PendingMin <= PendingMax
  BY DEF NoRejectedWrite, Accepts
<1> USE DEF WriteInv, CpuFreqTypeOK
<1>1. policy \in Policies /\ Usable(policy)
  BY DEF CallArguments
<1>2. PICK c \in Configs : base = c.low /\ goal \in {c.low, c.high}
  BY DEF CallArguments
<1>3. c.low \in Nat /\ c.high \in Nat /\ c.low <= c.high
  OBVIOUS
<1>4. /\ Frequency(policy, c.low) <= Frequency(policy, goal)
      /\ Frequency(policy, goal) <= Frequency(policy, c.high)
  BY <1>1, <1>2, <1>3, FrequencyMonotone
<1>5. CASE call = "first"
  <2>1. goal <= base => goal = c.low
    BY <1>2, <1>3
  <2> QED BY <1>1, <1>2, <1>4, <1>5, <2>1, FrequencyType, <1>3
          DEF PendingMin, PendingMax, WritesMin, SafeLimits
<1>6. CASE call = "second"
  BY <1>1, <1>2, <1>3, <1>6 DEF PendingMin, PendingMax, WritesMin, SafeHalfway
<1> QED BY <1>5, <1>6

LEMMA WriteInvWrite ==
  OneConfiguration /\ WriteInv /\ Write => WriteInv'
<1> SUFFICES ASSUME OneConfiguration, WriteInv, Write PROVE WriteInv'
  OBVIOUS
<1>1. CpuFreqTypeOK'
  BY TypeWrite DEF WriteInv
<1>2. policy \in Policies /\ Usable(policy) /\ goal \in Nat /\ base \in Nat
      /\ scalingMin \in [Policies -> Nat] /\ scalingMax \in [Policies -> Nat]
  BY DEF Write, WriteInv, CallArguments, CpuFreqTypeOK
<1>3. CASE call' = "scan" /\ UNCHANGED limitVars
  <2>1. SafeLimits'
    BY <1>3 DEF WriteInv, SafeLimits, limitVars
  <2>2. SafeHalfway' /\ CallArguments'
    BY <1>3 DEF WriteInv, SafeHalfway, CallArguments, Write, argVars
  <2> QED BY <1>1, <2>1, <2>2 DEF WriteInv
<1>4. CASE /\ scalingMin' = [scalingMin EXCEPT ![policy] = PendingMin]
           /\ scalingMax' = [scalingMax EXCEPT ![policy] = PendingMax]
  <2>1. PendingMin \in {scalingMin[policy], Frequency(policy, goal)}
        /\ PendingMax \in {scalingMax[policy], Frequency(policy, goal)}
    BY DEF PendingMin, PendingMax
  <2>2. PICK c \in Configs : base = c.low /\ goal \in {c.low, c.high}
    BY DEF WriteInv, CallArguments, Write
  <2>3. \A d \in Configs : /\ Frequency(policy, goal) <= Frequency(policy, d.high)
                           /\ Frequency(policy, d.low) <= Frequency(policy, goal)
    BY <1>2, <2>2, FrequencyMonotone DEF OneConfiguration
  <2>4. SafeLimits'
    BY <1>2, <1>4, <2>1, <2>3, FrequencyType DEF SafeLimits, WriteInv
  <2>5. SafeHalfway'
    BY <1>2, <1>4, FrequencyType
    DEF SafeHalfway, Write, PendingMin, PendingMax, WritesMin, argVars
  <2>6. CallArguments'
    BY <1>2, <2>2 DEF CallArguments, Write, argVars
  <2> QED BY <1>1, <2>4, <2>5, <2>6 DEF WriteInv
<1> QED BY <1>3, <1>4 DEF Write

LEMMA WriteInvKernel ==
  OneConfiguration /\ WriteInv /\ (Kernel \/ Settle) => WriteInv'
<1> SUFFICES ASSUME OneConfiguration, WriteInv, Kernel \/ Settle PROVE WriteInv'
  OBVIOUS
<1>1. CpuFreqTypeOK'
  BY TypeKernel DEF WriteInv
<1>2. CallArguments'
  BY DEF WriteInv, CallArguments, Kernel, Vanish, Appear, OtherWriter, Settle,
         callVars, argVars
<1>3. CASE UNCHANGED limitVars /\ UNCHANGED <<call, goal, base, policy>>
  <2>1. SafeLimits'
    BY <1>3 DEF WriteInv, SafeLimits, limitVars
  <2>2. SafeHalfway'
    BY <1>3 DEF WriteInv, SafeHalfway, limitVars
  <2> QED BY <1>1, <1>2, <2>1, <2>2 DEF WriteInv
<1>4. ASSUME NEW p \in Policies, Appear(p) PROVE WriteInv'
  <2>1. /\ scalingMin' = [scalingMin EXCEPT ![p] = HwMin[p]]
        /\ scalingMax' = [scalingMax EXCEPT ![p] = HwMax[p]]
        /\ UNCHANGED <<call, goal, base, policy>>
    BY <1>4 DEF Appear, argVars
  <2>2. SafeLimits'
    BY <2>1, FrequencyInRange DEF WriteInv, SafeLimits, CpuFreqTypeOK
  <2>3. call = "second" => policy \in Policies /\ Usable(policy) /\ goal \in Nat
    BY DEF WriteInv, CallArguments, CpuFreqTypeOK
  <2>4. SafeHalfway'
    BY <2>1, <2>3, FrequencyInRange DEF WriteInv, SafeHalfway, CpuFreqTypeOK
  <2> QED BY <1>1, <1>2, <2>2, <2>4 DEF WriteInv
<1>5. ASSUME NEW p \in Policies, Vanish(p) \/ OtherWriter(p)
      PROVE UNCHANGED limitVars /\ UNCHANGED <<call, goal, base, policy>>
  BY <1>5 DEF Vanish, OtherWriter, Disturb, OneConfiguration, argVars
<1>6. ASSUME Settle
      PROVE UNCHANGED limitVars /\ UNCHANGED <<call, goal, base, policy>>
  BY <1>6 DEF Settle, callVars
<1> QED BY <1>3, <1>4, <1>5, <1>6 DEF Kernel

LEMMA WriteInvStep ==
  OneConfiguration /\ WriteInv /\ [CpuFreqNext]_cpufreqVars => WriteInv'
<1> SUFFICES ASSUME OneConfiguration, WriteInv, [CpuFreqNext]_cpufreqVars
             PROVE  WriteInv'
  OBVIOUS
<1>1. CpuFreqTypeOK'
  BY TypeStep DEF WriteInv
<1> USE DEF WriteInv, SafeLimits, SafeHalfway, CallArguments
<1>2. ASSUME NEW c \in Configs, SetAll(c.low, c.low) \/ SetAll(c.high, c.low)
      PROVE  WriteInv'
  BY <1>1, <1>2 DEF SetAll, limitVars
<1>3. CASE Return \/ Abandon
  BY <1>1, <1>3 DEF Return, Abandon, ClearCall, limitVars
<1>4. ASSUME NEW p \in Policies, ReadEntry(p) PROVE WriteInv'
  BY <1>1, <1>4 DEF ReadEntry, limitVars, argVars
<1>5. CASE Write
  BY <1>5, WriteInvWrite
<1>6. CASE Kernel \/ Settle
  BY <1>6, WriteInvKernel
<1>7. CASE UNCHANGED cpufreqVars
  BY <1>1, <1>7 DEF cpufreqVars
<1> QED BY <1>2, <1>3, <1>4, <1>5, <1>6, <1>7
        DEF CpuFreqNext, Caller, SetAllStep

(***************************************************************************)
(* No driver ever has a reason to reject one of the two writes, with any   *)
(* number of policies, read and write failures, hotplug events and kills.  *)
(***************************************************************************)
THEOREM NoRejectedWriteHolds ==
  ASSUME OneConfiguration
  PROVE  CpuFreqSpec => []NoRejectedWrite
<1>1. CpuFreqInit => WriteInv
  BY WriteInvInit
<1>2. WriteInv /\ [CpuFreqNext]_cpufreqVars => WriteInv'
  BY WriteInvStep
<1>3. WriteInv => NoRejectedWrite
  BY WriteInvAccepts
<1> QED BY <1>1, <1>2, <1>3, PTL DEF CpuFreqSpec

----------------------------------------------------------------------------
(***************************************************************************)
(* With several configurations the limits may start anywhere, but in the   *)
(* middle of a policy the file written first still stands on the safe side *)
(* of the target, and no policy is counted twice.                          *)
(***************************************************************************)
NobodyElseWrites == "external" \notin Disturbances

CountedOnce == todo \cap attempted = {} /\ policy \notin succeeded

HalfwayInv == CpuFreqTypeOK /\ SafeHalfway /\ CallArguments /\ CountedOnce

LEMMA CallArgumentsStep ==
  CpuFreqTypeOK /\ CallArguments /\ [CpuFreqNext]_cpufreqVars => CallArguments'
<1> SUFFICES ASSUME CpuFreqTypeOK, CallArguments, [CpuFreqNext]_cpufreqVars
             PROVE  CallArguments'
  OBVIOUS
<1> USE DEF CallArguments, argVars, callVars
<1>1. ASSUME NEW c \in Configs, SetAll(c.low, c.low) \/ SetAll(c.high, c.low)
      PROVE  CallArguments'
  BY <1>1 DEF SetAll
<1>2. CASE Return \/ Abandon
  BY <1>2 DEF Return, Abandon, ClearCall
<1>3. ASSUME NEW p \in Policies, ReadEntry(p) PROVE CallArguments'
  BY <1>3 DEF ReadEntry, CpuFreqTypeOK
<1>4. CASE Write
  BY <1>4 DEF Write
<1>5. CASE Kernel \/ Settle
  BY <1>5 DEF Kernel, Vanish, Appear, OtherWriter, Settle
<1>6. CASE UNCHANGED cpufreqVars
  BY <1>6 DEF cpufreqVars
<1> QED BY <1>1, <1>2, <1>3, <1>4, <1>5, <1>6
        DEF CpuFreqNext, Caller, SetAllStep

LEMMA HalfwayInvInit == CpuFreqInit => HalfwayInv
BY TypeInit DEF CpuFreqInit, HalfwayInv, SafeHalfway, CallArguments, CountedOnce

LEMMA HalfwayInvWrite == HalfwayInv /\ Write => HalfwayInv'
<1> SUFFICES ASSUME HalfwayInv, Write PROVE HalfwayInv'
  OBVIOUS
<1>1. CpuFreqTypeOK'
  BY TypeWrite DEF HalfwayInv
<1>2. policy \in Policies /\ goal \in Nat /\ base \in Nat
      /\ scalingMin \in [Policies -> Nat] /\ scalingMax \in [Policies -> Nat]
  BY DEF Write, HalfwayInv, CpuFreqTypeOK
<1>3. CallArguments'
  BY DEF HalfwayInv, CallArguments, Write, argVars
<1>4. CountedOnce'
  BY DEF HalfwayInv, CountedOnce, CpuFreqTypeOK, Write
<1>5. SafeHalfway'
  <2>1. CASE call' = "scan"
    BY <2>1 DEF SafeHalfway
  <2>2. CASE /\ call = "first"
             /\ scalingMin' = [scalingMin EXCEPT ![policy] = PendingMin]
             /\ scalingMax' = [scalingMax EXCEPT ![policy] = PendingMax]
             /\ UNCHANGED <<policy, goal, base>>
    BY <1>2, <2>2, FrequencyType
    DEF SafeHalfway, PendingMin, PendingMax, WritesMin
  <2> QED BY <2>1, <2>2 DEF Write, argVars
<1> QED BY <1>1, <1>3, <1>4, <1>5 DEF HalfwayInv

LEMMA HalfwayInvKernel ==
  NobodyElseWrites /\ HalfwayInv /\ (Kernel \/ Settle) => HalfwayInv'
<1> SUFFICES ASSUME NobodyElseWrites, HalfwayInv, Kernel \/ Settle PROVE HalfwayInv'
  OBVIOUS
<1>1. CpuFreqTypeOK'
  BY TypeKernel DEF HalfwayInv
<1>2. CallArguments'
  BY DEF HalfwayInv, CallArguments, Kernel, Vanish, Appear, OtherWriter, Settle,
         callVars, argVars
<1>3. CountedOnce'
  BY DEF HalfwayInv, CountedOnce, Kernel, Vanish, Appear, OtherWriter, Settle, callVars
<1>4. ASSUME NEW p \in Policies, Appear(p) PROVE SafeHalfway'
  <2>1. /\ scalingMin' = [scalingMin EXCEPT ![p] = HwMin[p]]
        /\ scalingMax' = [scalingMax EXCEPT ![p] = HwMax[p]]
        /\ UNCHANGED <<call, goal, base, policy>>
    BY <1>4 DEF Appear, argVars
  <2>2. call = "second" => policy \in Policies /\ Usable(policy) /\ goal \in Nat
    BY DEF HalfwayInv, CallArguments, CpuFreqTypeOK
  <2> SUFFICES ASSUME call = "second"
               PROVE  IF goal <= base THEN scalingMin'[policy] <= Frequency(policy, goal)
                                      ELSE scalingMax'[policy] >= Frequency(policy, goal)
    BY <2>1 DEF SafeHalfway
  <2>3. /\ HwMin[policy] <= Frequency(policy, goal)
        /\ Frequency(policy, goal) <= HwMax[policy]
    BY <2>2, FrequencyInRange
  <2>4. /\ scalingMin \in [Policies -> Nat] /\ scalingMax \in [Policies -> Nat]
        /\ Frequency(policy, goal) \in Nat /\ HwMax[policy] \in Nat
    BY <2>2, FrequencyType DEF HalfwayInv, CpuFreqTypeOK
  <2>5. IF goal <= base THEN scalingMin[policy] <= Frequency(policy, goal)
                        ELSE scalingMax[policy] >= Frequency(policy, goal)
    BY DEF HalfwayInv, SafeHalfway
  <2>6. CASE p = policy
    <3>1. scalingMin'[policy] = HwMin[policy] /\ scalingMax'[policy] = HwMax[policy]
      BY <2>1, <2>2, <2>4, <2>6
    <3> QED BY <2>3, <2>4, <3>1
  <2>7. CASE p # policy
    <3>1. scalingMin'[policy] = scalingMin[policy] /\ scalingMax'[policy] = scalingMax[policy]
      BY <2>1, <2>2, <2>4, <2>7
    <3> QED BY <2>5, <3>1
  <2> QED BY <2>6, <2>7
<1>5. ASSUME UNCHANGED <<limitVars, call, goal, base, policy>> PROVE SafeHalfway'
  BY <1>5 DEF HalfwayInv, SafeHalfway, limitVars
<1>6. (\E p \in Policies : Vanish(p) \/ OtherWriter(p)) \/ Settle
        => UNCHANGED <<limitVars, call, goal, base, policy>>
  BY DEF Vanish, OtherWriter, Disturb, NobodyElseWrites, Settle, callVars, argVars
<1> QED BY <1>1, <1>2, <1>3, <1>4, <1>5, <1>6 DEF HalfwayInv, Kernel

LEMMA HalfwayInvStep ==
  NobodyElseWrites /\ HalfwayInv /\ [CpuFreqNext]_cpufreqVars => HalfwayInv'
<1> SUFFICES ASSUME NobodyElseWrites, HalfwayInv, [CpuFreqNext]_cpufreqVars
             PROVE  HalfwayInv'
  OBVIOUS
<1>1. CpuFreqTypeOK'
  BY TypeStep DEF HalfwayInv
<1> USE DEF HalfwayInv, SafeHalfway, CallArguments, CountedOnce
<1>2. ASSUME NEW c \in Configs, SetAll(c.low, c.low) \/ SetAll(c.high, c.low)
      PROVE  HalfwayInv'
  BY <1>1, <1>2 DEF SetAll, CpuFreqTypeOK
<1>3. CASE Return \/ Abandon
  BY <1>1, <1>3 DEF Return, Abandon, ClearCall
<1>4. ASSUME NEW p \in Policies, ReadEntry(p) PROVE HalfwayInv'
  BY <1>1, <1>4 DEF ReadEntry, limitVars, argVars, CpuFreqTypeOK
<1>5. CASE Write
  BY <1>5, HalfwayInvWrite
<1>6. CASE Kernel \/ Settle
  BY <1>6, HalfwayInvKernel
<1>7. CASE UNCHANGED cpufreqVars
  BY <1>1, <1>7 DEF cpufreqVars
<1> QED BY <1>2, <1>3, <1>4, <1>5, <1>6, <1>7
        DEF CpuFreqNext, Caller, SetAllStep

----------------------------------------------------------------------------
(***************************************************************************)
(* A strict driver keeps the limits in order, whoever writes them.         *)
(***************************************************************************)
StrictOrdered ==
  \A p \in Policies : p \in Strict /\ Usable(p) => scalingMin[p] <= scalingMax[p]

LEMMA StrictOrderedStep ==
  CpuFreqTypeOK /\ StrictOrdered /\ [CpuFreqNext]_cpufreqVars => StrictOrdered'
<1> SUFFICES ASSUME CpuFreqTypeOK, StrictOrdered, [CpuFreqNext]_cpufreqVars
             PROVE  StrictOrdered'
  OBVIOUS
<1>1. CASE UNCHANGED limitVars
  BY <1>1 DEF limitVars, StrictOrdered
<1>2. ASSUME NEW q \in Policies, NEW lo, NEW hi, q \in Strict /\ Usable(q) => lo <= hi,
             scalingMin' = [scalingMin EXCEPT ![q] = lo],
             scalingMax' = [scalingMax EXCEPT ![q] = hi]
      PROVE  StrictOrdered'
  <2>1. \A p \in Policies : /\ scalingMin'[p] = IF p = q THEN lo ELSE scalingMin[p]
                            /\ scalingMax'[p] = IF p = q THEN hi ELSE scalingMax[p]
    BY <1>2 DEF CpuFreqTypeOK
  <2> QED BY <1>2, <2>1 DEF StrictOrdered
<1>3. CASE Write
  <2>1. CASE /\ PendingAccepted
             /\ scalingMin' = [scalingMin EXCEPT ![policy] = PendingMin]
             /\ scalingMax' = [scalingMax EXCEPT ![policy] = PendingMax]
    <3>1. policy \in Policies /\ (policy \in Strict => PendingMin <= PendingMax)
      BY <2>1 DEF PendingAccepted, Accepts, CpuFreqTypeOK
    <3> HIDE DEF StrictOrdered
    <3> QED BY <1>2, <2>1, <3>1
  <2> QED BY <1>1, <1>3, <2>1 DEF Write
<1>4. ASSUME NEW q \in Policies, Appear(q) PROVE StrictOrdered'
  BY <1>2, <1>4 DEF Appear, Usable
<1>5. ASSUME NEW q \in Policies, OtherWriter(q) PROVE StrictOrdered'
  <2>1. \E lo, hi : /\ lo <= hi
                    /\ scalingMin' = [scalingMin EXCEPT ![q] = lo]
                    /\ scalingMax' = [scalingMax EXCEPT ![q] = hi]
    BY <1>5 DEF OtherWriter
  <2> QED BY <1>2, <2>1
<1>6. ~(Write \/ \E p \in Policies : Appear(p) \/ OtherWriter(p)) => UNCHANGED limitVars
  BY DEF CpuFreqNext, Caller, SetAll, ReadEntry, SetAllStep, Return, Abandon, Kernel,
         Vanish, Settle, cpufreqVars, limitVars
<1> QED BY <1>1, <1>3, <1>4, <1>5, <1>6

LEMMA StrictKeepsOrder == CpuFreqSpec => []StrictOrdered
<1>1. CpuFreqInit => StrictOrdered
  BY DEF CpuFreqInit, StrictOrdered, Usable
<1> QED BY <1>1, StrictOrderedStep, CpuFreqTypeCorrect, PTL DEF CpuFreqSpec

----------------------------------------------------------------------------
(***************************************************************************)
(* What a return value of 0 means.  With the policies fixed and no other   *)
(* program writing them, the directory stream and the counted policies     *)
(* partition the machine, a policy counted as succeeded keeps standing at  *)
(* the target, and the policy in work already has its first file there.    *)
(***************************************************************************)
MachineIsOurs == {"external", "hotplug"} \cap Disturbances = {}

SweepCovers ==
  /\ present = Policies
  /\ call # "none" => todo = Policies \ attempted
  /\ policy \notin succeeded

SucceededPinned == \A p \in succeeded : Pinned(p, goal)

FirstFileWritten ==
  call = "second" =>
    IF goal <= base THEN scalingMin[policy] = Frequency(policy, goal)
                    ELSE scalingMax[policy] = Frequency(policy, goal)

CountedUsable ==
  \A p \in Policies : p \in succeeded \/ p = policy => Usable(p)

SuccessInv == /\ CpuFreqTypeOK
              /\ SweepCovers
              /\ SucceededPinned
              /\ FirstFileWritten
              /\ CountedUsable

LEMMA SuccessInvInit == CpuFreqInit => SuccessInv
BY TypeInit
DEF CpuFreqInit, SuccessInv, SweepCovers, SucceededPinned, FirstFileWritten,
    CountedUsable

LEMMA SuccessInvWrite == SuccessInv /\ Write => SuccessInv'
<1> SUFFICES ASSUME SuccessInv, Write PROVE SuccessInv'
  OBVIOUS
<1>1. CpuFreqTypeOK'
  BY TypeWrite DEF SuccessInv
<1>2. policy \in Policies /\ goal \in Nat /\ base \in Nat /\ succeeded \subseteq Policies
      /\ scalingMin \in [Policies -> Nat] /\ scalingMax \in [Policies -> Nat]
  BY DEF Write, SuccessInv, CpuFreqTypeOK
<1>3. SweepCovers'
  BY <1>2 DEF SuccessInv, SweepCovers, Write
<1>4. CountedUsable'
  BY DEF SuccessInv, CountedUsable, Write
<1>5. CASE call' = "scan" /\ UNCHANGED <<limitVars, succeeded>>
  <2>1. SucceededPinned' /\ FirstFileWritten'
    BY <1>5 DEF SuccessInv, SucceededPinned, FirstFileWritten, Pinned, limitVars,
                Write, argVars
  <2> QED BY <1>1, <1>3, <1>4, <2>1 DEF SuccessInv
<1>6. CASE /\ scalingMin' = [scalingMin EXCEPT ![policy] = PendingMin]
           /\ scalingMax' = [scalingMax EXCEPT ![policy] = PendingMax]
           /\ IF call = "first"
                THEN call' = "second" /\ UNCHANGED <<succeeded, policy>>
                ELSE call' = "scan" /\ succeeded' = succeeded \cup {policy}
  <2>1. UNCHANGED <<goal, base>>
    BY DEF Write, argVars
  <2>2. \A p \in succeeded : p \in Policies /\ p # policy /\ Pinned(p, goal)
    BY <1>2 DEF SuccessInv, SweepCovers, SucceededPinned
  <2>3. \A p \in succeeded : Pinned(p, goal)'
    BY <1>2, <1>6, <2>1, <2>2 DEF Pinned
  <2>4. CASE call = "first"
    <3>1. SucceededPinned'
      BY <1>6, <2>1, <2>3, <2>4 DEF SucceededPinned, Pinned
    <3>2. FirstFileWritten'
      BY <1>2, <1>6, <2>1, <2>4
      DEF FirstFileWritten, PendingMin, PendingMax, WritesMin
    <3> QED BY <1>1, <1>3, <1>4, <3>1, <3>2 DEF SuccessInv
  <2>5. CASE call = "second"
    <3>1. \A p \in Policies : p = policy => Pinned(p, goal)'
      BY <1>2, <1>6, <2>1, <2>5
      DEF SuccessInv, FirstFileWritten, PendingMin, PendingMax, WritesMin, Pinned
    <3>2. SucceededPinned'
      BY <1>2, <1>6, <2>1, <2>3, <2>5, <3>1 DEF SucceededPinned, Pinned
    <3>3. FirstFileWritten'
      BY <1>6, <2>5 DEF FirstFileWritten
    <3> QED BY <1>1, <1>3, <1>4, <3>2, <3>3 DEF SuccessInv
  <2> QED BY <2>4, <2>5 DEF Write
<1> QED BY <1>5, <1>6 DEF Write

LEMMA SuccessInvStep ==
  MachineIsOurs /\ SuccessInv /\ [CpuFreqNext]_cpufreqVars => SuccessInv'
<1> SUFFICES ASSUME MachineIsOurs, SuccessInv, [CpuFreqNext]_cpufreqVars
             PROVE  SuccessInv'
  OBVIOUS
<1>1. CpuFreqTypeOK'
  BY TypeStep DEF SuccessInv
<1> USE DEF SuccessInv, SweepCovers, SucceededPinned, FirstFileWritten, Pinned,
            CountedUsable, limitVars, argVars, callVars
<1>2. ASSUME NEW target, NEW low, SetAll(target, low) PROVE SuccessInv'
  BY <1>1, <1>2 DEF SetAll, CpuFreqTypeOK
<1>3. CASE Return \/ Abandon
  BY <1>1, <1>3 DEF Return, Abandon, ClearCall
<1>4. ASSUME NEW p \in Policies, ReadEntry(p) PROVE SuccessInv'
  <2>1. policy' \in {p, NoPolicy} /\ p \notin succeeded
    BY <1>4 DEF ReadEntry, CpuFreqTypeOK
  <2>2. SweepCovers'
    BY <1>4, <2>1 DEF ReadEntry, CpuFreqTypeOK
  <2>3. SucceededPinned' /\ FirstFileWritten' /\ CountedUsable'
    BY <1>4 DEF ReadEntry
  <2> QED BY <1>1, <2>2, <2>3
<1>5. CASE Write
  BY <1>5, SuccessInvWrite
<1>6. CASE Kernel
  BY <1>6 DEF Kernel, Vanish, Appear, OtherWriter, Disturb, MachineIsOurs
<1>7. CASE Settle
  BY <1>1, <1>7 DEF Settle
<1>8. CASE UNCHANGED cpufreqVars
  BY <1>1, <1>8 DEF cpufreqVars
<1> QED BY <1>2, <1>3, <1>4, <1>5, <1>6, <1>7, <1>8
        DEF CpuFreqNext, Caller, SetAllStep

(***************************************************************************)
(* A call that is about to return 0 has put the whole machine at its       *)
(* target, for any configurations and any history of rejected writes,      *)
(* failed calls and killed callers.                                        *)
(***************************************************************************)
THEOREM SuccessIsEverywhereHolds ==
  ASSUME MachineIsOurs
  PROVE  CpuFreqSpec => []SuccessIsEverywhere
<1>1. CpuFreqInit => SuccessInv
  BY SuccessInvInit
<1>2. SuccessInv /\ [CpuFreqNext]_cpufreqVars => SuccessInv'
  BY SuccessInvStep
<1>3. SuccessInv => SuccessIsEverywhere
  BY DEF SuccessInv, SweepCovers, SucceededPinned, SuccessIsEverywhere, AllApplied
<1> QED BY <1>1, <1>2, <1>3, PTL DEF CpuFreqSpec
============================================================================
