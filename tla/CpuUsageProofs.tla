--------------------------- MODULE CpuUsageProofs ---------------------------
(***************************************************************************)
(* NeverUnderestimates for counters of any size.  The argument: between    *)
(* two samples the differences of the code are the ticks that passed less  *)
(* the ones that were taken back, and taking back can only shrink the idle *)
(* part of the total.                                                      *)
(***************************************************************************)
EXTENDS CpuUsage, TLAPS

Ticks == [busy : Nat, idle : Nat, lost : Nat]

CountersOK ==
  /\ busy \in Nat /\ idle \in Nat /\ iowait \in Nat
  /\ window \in Ticks
  /\ previous \in {Nothing} \cup [idle : Int, total : Int]

\* The window accounts for the difference of the two samples.
WindowExact ==
  previous # Nothing =>
    /\ CpuTimes.idle - previous.idle = window.idle - window.lost
    /\ CpuTimes.total - previous.total
         = window.busy + window.idle - window.lost

UsageInv == CountersOK /\ WindowExact /\ NeverUnderestimates

LEMMA ProductMonotone ==
  ASSUME NEW a \in Nat, NEW b \in Int, NEW c \in Int, b <= c
  PROVE  a * b <= a * c
<1>1. PICK d \in Nat : c = b + d
  <2>1. c - b \in Nat /\ c = b + (c - b)
    OBVIOUS
  <2> QED BY <2>1
<1>2. a * c = a * b + a * d
  BY <1>1
<1>3. a * d >= 0
  BY <1>1
<1> QED BY <1>2, <1>3

\* The difference of the samples of a window of b busy, i idle and l lost
\* ticks, and the usage the code makes of it.
LEMMA UsageOfWindow ==
  ASSUME NEW before \in [idle : Int, total : Int],
         NEW now \in [idle : Int, total : Int],
         NEW b \in Nat, NEW i \in Nat, NEW l \in Nat,
         now.idle - before.idle = i - l,
         now.total - before.total = b + i - l
  PROVE  LET u == UsagePercent(before, now)
         IN  IF b + i > l
               THEN /\ u.part * (b + i) >= b * u.whole
                    /\ l = 0 => u.part * (b + i) = b * u.whole
               ELSE u.part = 0
<1> DEFINE u == UsagePercent(before, now)
           whole == b + i - l
<1>1. now.total <= before.total <=> b + i <= l
  OBVIOUS
<1>2. CASE b + i <= l
  BY <1>1, <1>2 DEF UsagePercent
<1>3. CASE b + i > l /\ i >= l
  <2>1. IdleDelta(before, now) = i - l
    BY <1>3 DEF IdleDelta
  <2>2. u.part = b /\ u.whole = whole
    BY <1>1, <1>3, <2>1 DEF UsagePercent
  <2>3. b * whole <= b * (b + i)
    BY ProductMonotone
  <2>4. l = 0 => whole = b + i
    OBVIOUS
  <2> QED BY <1>3, <2>2, <2>3, <2>4
<1>4. CASE b + i > l /\ i < l
  <2>1. IdleDelta(before, now) = 0
    BY <1>4 DEF IdleDelta
  <2>2. u.part = whole /\ u.whole = whole
    BY <1>1, <1>4, <2>1 DEF UsagePercent
  <2>3. whole * b <= whole * (b + i)
    BY <1>4, ProductMonotone
  <2>4. b * whole = whole * b
    OBVIOUS
  <2> QED BY <1>4, <2>2, <2>3, <2>4
<1> QED BY <1>2, <1>3, <1>4

----------------------------------------------------------------------------
(***************************************************************************)
(* NeverUnderestimates: counters that go backwards never make the daemon   *)
(* see less load than there was, unless they swallow the whole window.     *)
(***************************************************************************)
THEOREM NeverUnderestimatesHolds == UsageSpec => []NeverUnderestimates
<1>1. UsageInit => UsageInv
  BY CpuUsageAssumption
     DEF UsageInit, UsageInv, CountersOK, WindowExact, NeverUnderestimates, Ticks
<1>2. UsageInv /\ [UsageNext]_usageVars => UsageInv'
  <2> SUFFICES ASSUME CountersOK, WindowExact, NeverUnderestimates,
                      [UsageNext]_usageVars
               PROVE  CountersOK' /\ WindowExact' /\ NeverUnderestimates'
    BY DEF UsageInv
  <2>1. ASSUME NEW was_busy \in BOOLEAN, Tick(was_busy)
        PROVE  CountersOK' /\ WindowExact' /\ NeverUnderestimates'
    <3>1. UNCHANGED sampleVars
      BY <2>1 DEF Tick
    <3>2. \/ /\ busy' = busy + 1 /\ UNCHANGED <<idle, iowait>>
             /\ window' = [window EXCEPT !.busy = @ + 1]
          \/ /\ UNCHANGED busy
             /\ \/ idle' = idle + 1 /\ UNCHANGED iowait
                \/ iowait' = iowait + 1 /\ UNCHANGED idle
             /\ window' = [window EXCEPT !.idle = @ + 1]
      BY <2>1 DEF Tick
    <3>3. CountersOK'
      BY <3>1, <3>2 DEF CountersOK, Ticks, sampleVars
    <3>4. WindowExact'
      BY <3>1, <3>2 DEF CountersOK, WindowExact, CpuTimes, Ticks, sampleVars
    <3> QED BY <3>1, <3>3, <3>4 DEF NeverUnderestimates, sampleVars
  <2>2. CASE IowaitRegress
    <3>1. CountersOK'
      BY <2>2 DEF IowaitRegress, CountersOK, Ticks, sampleVars
    <3>2. WindowExact'
      BY <2>2 DEF IowaitRegress, CountersOK, WindowExact, CpuTimes, Ticks, sampleVars
    <3> QED BY <2>2, <3>1, <3>2 DEF IowaitRegress, NeverUnderestimates, sampleVars
  <2>3. CASE Read
    <3>1. CpuTimes \in [idle : Int, total : Int]
      BY DEF CountersOK, CpuTimes
    <3>2. /\ previous' = CpuTimes /\ UNCHANGED <<busy, idle, iowait>>
          /\ window' = [busy |-> 0, idle |-> 0, lost |-> 0]
      BY <2>3 DEF Read
    <3>3. CountersOK'
      BY <3>1, <3>2 DEF CountersOK, Ticks
    <3>4. WindowExact'
      BY <3>2 DEF CountersOK, WindowExact, CpuTimes
    <3>5. CASE previous = Nothing
      BY <2>3, <3>3, <3>4, <3>5 DEF Read, NeverUnderestimates
    <3>6. CASE previous # Nothing
      <4>1. usage' = UsagePercent(previous, CpuTimes) /\ measured' = window
        BY <2>3, <3>6 DEF Read
      <4>2. /\ window.busy \in Nat /\ window.idle \in Nat /\ window.lost \in Nat
            /\ previous \in [idle : Int, total : Int]
        BY <3>6 DEF CountersOK, Ticks
      <4>3. IF window.busy + window.idle > window.lost
              THEN /\ usage'.part * (window.busy + window.idle)
                        >= window.busy * usage'.whole
                   /\ window.lost = 0 =>
                        usage'.part * (window.busy + window.idle)
                          = window.busy * usage'.whole
              ELSE usage'.part = 0
        BY <3>1, <3>6, <4>1, <4>2, UsageOfWindow DEF WindowExact
      <4> QED BY <3>3, <3>4, <4>1, <4>3 DEF NeverUnderestimates
    <3> QED BY <3>5, <3>6
  <2>4. CASE UNCHANGED usageVars
    BY <2>4 DEF usageVars, CountersOK, WindowExact, CpuTimes, NeverUnderestimates
  <2> QED BY <2>1, <2>2, <2>3, <2>4 DEF UsageNext
<1>3. UsageInv => NeverUnderestimates
  BY DEF UsageInv
<1> QED BY <1>1, <1>2, <1>3, PTL DEF UsageSpec
============================================================================
