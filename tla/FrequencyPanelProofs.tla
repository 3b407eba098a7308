------------------------ MODULE FrequencyPanelProofs ------------------------
(***************************************************************************)
(* What holds of the configuration for every file, every form and every    *)
(* hardware range: theorems about modules CpuConfig and FrequencyPanel.    *)
(***************************************************************************)
EXTENDS FrequencyPanel, TLAPS

\* What the rest of the system needs of a configuration.
Safe(c) ==
  /\ c.low_frequency_khz <= c.high_frequency_khz
  /\ c.interval_ms \in 100..5000

LEMMA DefaultsValid == Valid(Defaults)
<1>1. Defaults.low_threshold_pct = 600 /\ Defaults.high_threshold_pct = 1000
  BY DEF Defaults, Config
<1>2. Defaults.low_frequency_khz = 1200000 /\ Defaults.high_frequency_khz = 3500000
      /\ Defaults.interval_ms = 500
  BY DEF Defaults, Config
<1>3. ~PercentagesRejected(Defaults)
  BY <1>1 DEF PercentagesRejected, Below, AtLeast
<1> QED BY <1>2, <1>3 DEF Valid

\* load_runtime_config never gives the daemon anything that is not valid.
LEMMA RuntimeConfigValid ==
  ASSUME NEW contents
  PROVE  Valid(RuntimeConfig(contents))
BY DefaultsValid DEF RuntimeConfig

LEMMA RuntimeConfigSafe ==
  ASSUME NEW contents
  PROVE  Safe(RuntimeConfig(contents))
BY RuntimeConfigValid DEF Valid, Safe

----------------------------------------------------------------------------
(***************************************************************************)
(* RunningConfigSafe, for every file the administrator may leave and every *)
(* moment of a save the daemon may start in.  It is inductive by itself:   *)
(* the only configurations that get to run come out of load_runtime_config. *)
(***************************************************************************)
THEOREM RunningConfigSafeHolds == PanelSpec => []RunningConfigSafe
<1>1. PanelInit => RunningConfigSafe
  <2>1. PanelInit => runtime = NoDaemon \/ runtime = RuntimeConfig(disk)
    BY DEF PanelInit
  <2> QED BY <2>1, RuntimeConfigSafe DEF RunningConfigSafe, Safe
<1>2. RunningConfigSafe /\ [PanelNext]_panelVars => RunningConfigSafe'
  <2> SUFFICES ASSUME RunningConfigSafe, [PanelNext]_panelVars
               PROVE  RunningConfigSafe'
    OBVIOUS
  <2>1. runtime' = runtime \/ runtime' = RuntimeConfig(disk)
    BY DEF PanelNext, panelVars, saveVars, pageVars, HardwareRefresh,
           RestoreDefaults, Fill, Save, SaveStep, StepFails, InstallRemoves,
           InstallCopies, EnsureService, RestartService, DaemonRestarts,
           AdministratorEdits
  <2>2. runtime # NoDaemon => Safe(runtime)
    BY DEF RunningConfigSafe, Safe
  <2>3. runtime' # NoDaemon => Safe(runtime')
    <3>1. CASE runtime' = runtime
      BY <2>2, <3>1
    <3>2. CASE runtime' = RuntimeConfig(disk)
      BY <3>2, RuntimeConfigSafe
    <3> QED BY <2>1, <3>1, <3>2
  <2> QED BY <2>3 DEF RunningConfigSafe, Safe
<1> QED BY <1>1, <1>2, PTL DEF PanelSpec

----------------------------------------------------------------------------
(***************************************************************************)
(* PresentedIsSaveable.  A handler that fills the form does so from a      *)
(* configuration it has just fitted to the range, and the only one that    *)
(* lets the form differ from it marks it as edited.                        *)
(***************************************************************************)

\* Normalized needs a function on the five fields; a save takes one from the
\* form into state->config.
ShapeOK ==
  /\ config = [field \in Fields |-> config[field]]
  /\ shown = [field \in Fields |-> shown[field]]
  /\ range \in Ranges \cup {NoRange}

PresentedInv == ShapeOK /\ PresentedIsSaveable

LEMMA WidgetsShape ==
  ASSUME NEW c, NEW r, NEW before
  PROVE  Widgets(c, r, before) = [field \in Fields |-> Widgets(c, r, before)[field]]
BY DEF Widgets, Config, Fields, Percentages, Frequencies

\* A pair of clocks that fits the range is shown as it is.
LEMMA FittingClocksShown ==
  ASSUME NEW c, NEW r \in Ranges, NEW before, InRange(c, r),
         c.low_frequency_khz <= c.high_frequency_khz
  PROVE  /\ InRange(Widgets(c, r, before), r)
         /\ Widgets(c, r, before).low_frequency_khz
              <= Widgets(c, r, before).high_frequency_khz
<1>1. r # NoRange /\ r.min \in Nat /\ r.max \in Nat
  BY RangesAssumption
<1>2. /\ c.low_frequency_khz \in r.min..r.max
      /\ c.high_frequency_khz \in r.min..r.max
  BY DEF InRange, Frequencies
<1>3. /\ Widgets(c, r, before).low_frequency_khz = c.low_frequency_khz
      /\ Widgets(c, r, before).high_frequency_khz = c.high_frequency_khz
  <2>1. \A v, b : v \in r.min..r.max => Clamp(v, r.min, r.max, b) = v
    BY <1>1, NaNAssumption DEF Clamp
  <2> QED BY <1>1, <1>2, <2>1 DEF Widgets, Config
<1> QED BY <1>2, <1>3 DEF InRange, Frequencies

LEMMA NormalizedFits ==
  ASSUME NEW c, c = [field \in Fields |-> c[field]], NEW r \in Ranges
  PROVE  /\ InRange(Normalized(c, r), r)
         /\ Normalized(c, r).low_frequency_khz <= Normalized(c, r).high_frequency_khz
         /\ Normalized(c, r) = [field \in Fields |-> Normalized(c, r)[field]]
<1>1. r.min \in Nat /\ r.max \in Nat /\ r.min <= r.max
  BY RangesAssumption
<1> DEFINE low == IF c["low_frequency_khz"] \in r.min..r.max
                    THEN c["low_frequency_khz"] ELSE r.min
           high == IF c["high_frequency_khz"] \in r.min..r.max
                     THEN c["high_frequency_khz"] ELSE r.max
<1>2. low \in r.min..r.max /\ high \in r.min..r.max
  BY <1>1
<1>3. Normalized(c, r)
        = [c EXCEPT !["low_frequency_khz"] = IF low > high THEN r.min ELSE low,
                    !["high_frequency_khz"] = IF low > high THEN r.max ELSE high]
  BY DEF Normalized
<1> HIDE DEF low, high
<1>4. /\ "low_frequency_khz" \in DOMAIN c /\ "high_frequency_khz" \in DOMAIN c
      /\ DOMAIN c = Fields
  BY DEF Fields, Percentages, Frequencies
<1>5. /\ Normalized(c, r)["low_frequency_khz"] = IF low > high THEN r.min ELSE low
      /\ Normalized(c, r)["high_frequency_khz"] = IF low > high THEN r.max ELSE high
      /\ Normalized(c, r) = [field \in Fields |-> Normalized(c, r)[field]]
  BY <1>3, <1>4
<1> QED BY <1>1, <1>2, <1>5 DEF InRange, Frequencies

THEOREM PresentedIsSaveableHolds == PanelSpec => []PresentedIsSaveable
<1>1. PanelInit => PresentedInv
  <2> SUFFICES ASSUME PanelInit PROVE PresentedInv
    OBVIOUS
  <2> DEFINE c == IF LoadSucceeds(disk) THEN Loaded(disk) ELSE Defaults
  <2>1. c = [field \in Fields |-> c[field]]
    BY DEF Loaded, Defaults, Config, Fields, Percentages, Frequencies
  <2>2. /\ range \in Ranges \cup {NoRange}
        /\ config = IF range = NoRange THEN c ELSE Normalized(c, range)
        /\ shown = Widgets(config, range, FreshForm)
    BY DEF PanelInit, Opened
  <2> HIDE DEF c
  <2>3. ShapeOK
    BY <2>1, <2>2, NormalizedFits, WidgetsShape DEF ShapeOK
  <2>4. PresentedIsSaveable
    BY <2>1, <2>2, NormalizedFits, FittingClocksShown DEF PresentedIsSaveable
  <2> QED BY <2>3, <2>4 DEF PresentedInv
<1>2. PresentedInv /\ [PanelNext]_panelVars => PresentedInv'
  <2> SUFFICES ASSUME ShapeOK, PresentedIsSaveable, [PanelNext]_panelVars
               PROVE  ShapeOK' /\ PresentedIsSaveable'
    BY DEF PresentedInv
  <2>1. CASE HardwareRefresh
    <3> DEFINE c == IF range' = NoRange THEN config ELSE Normalized(config, range')
    <3>1. /\ range' \in Ranges \cup {NoRange}
          /\ config' = c
          /\ shown' = Widgets(c, range', shown)
      BY <2>1 DEF HardwareRefresh, Present
    <3>2. ShapeOK'
      BY <3>1, NormalizedFits, WidgetsShape DEF ShapeOK
    <3>3. PresentedIsSaveable'
      BY <3>1, NormalizedFits, FittingClocksShown DEF PresentedIsSaveable, ShapeOK
    <3> QED BY <3>2, <3>3
  <2>2. CASE RestoreDefaults
    <3> DEFINE c == IF range = NoRange THEN Defaults
                    ELSE [Defaults EXCEPT !["low_frequency_khz"] = range.min,
                                          !["high_frequency_khz"] = range.max]
    <3>1. /\ range' = range
          /\ config' = c
          /\ shown' = Widgets(c, range', shown)
      BY <2>2 DEF RestoreDefaults, Present
    <3>2. c = [field \in Fields |-> c[field]]
      BY DEF Defaults, Config, Fields, Percentages, Frequencies
    <3>3. ASSUME range # NoRange
          PROVE  InRange(c, range) /\ c.low_frequency_khz <= c.high_frequency_khz
      BY <3>3, RangesAssumption DEF ShapeOK, InRange, Frequencies, Defaults, Config
    <3> HIDE DEF c
    <3>4. ShapeOK'
      BY <3>1, <3>2, WidgetsShape DEF ShapeOK
    <3>5. PresentedIsSaveable'
      BY <3>1, <3>3, FittingClocksShown DEF PresentedIsSaveable, ShapeOK
    <3> QED BY <3>4, <3>5
  <2>3. CASE \E form \in Forms : Fill(form)
    <3>1. PICK form \in Forms : Fill(form)
      BY <2>3
    <3>2. /\ shown' = Widgets(form, range, shown)
          /\ edited' = "yes" /\ UNCHANGED <<config, range>>
      BY <3>1 DEF Fill
    <3> QED BY <3>2, WidgetsShape DEF ShapeOK, PresentedIsSaveable
  <2>4. CASE \E answer \in {"yes", "no"} : Save(answer)
    <3>1. config' \in {config, shown} /\ UNCHANGED <<range, shown, edited>>
      BY <2>4 DEF Save
    <3> QED BY <3>1 DEF ShapeOK, PresentedIsSaveable
  <2>5. CASE SaveStep \/ DaemonRestarts \/ AdministratorEdits \/ UNCHANGED panelVars
    <3>1. UNCHANGED pageVars
      BY <2>5 DEF SaveStep, StepFails, InstallRemoves, InstallCopies, EnsureService,
                  RestartService, DaemonRestarts, AdministratorEdits, panelVars, pageVars
    <3> QED BY <3>1 DEF pageVars, ShapeOK, PresentedIsSaveable
  <2> QED BY <2>1, <2>2, <2>3, <2>4, <2>5 DEF PanelNext
<1>3. PresentedInv => PresentedIsSaveable
  BY DEF PresentedInv
<1> QED BY <1>1, <1>2, <1>3, PTL DEF PanelSpec

----------------------------------------------------------------------------
(***************************************************************************)
(* ReportedMeansRunning.  What a save writes loads back with nothing but   *)
(* its thresholds rounded; between the form and the daemon it goes through *)
(* state->config, the temporary file and the file, and the invariant says  *)
(* which of them agree at each step.                                       *)
(***************************************************************************)

\* What state->config may hold, and what the buttons may show.
Numeric(c) == c \in [Fields -> Int \cup {NaN}]

FormConfig(c) ==
  /\ c \in [Fields -> Int]
  /\ 0 <= c.low_threshold_pct /\ c.low_threshold_pct <= 9900
  /\ 100 <= c.high_threshold_pct /\ c.high_threshold_pct <= 10000

LEMMA PrintedNear ==
  ASSUME NEW p \in Int
  PROVE  Printed(p) \in Int /\ Printed(p) - p \in -5..5
BY NaNAssumption DEF Printed

LEMMA PrintedMonotone ==
  ASSUME NEW p \in Int, NEW q \in Int, p <= q
  PROVE  Printed(p) <= Printed(q)
BY NaNAssumption DEF Printed

LEMMA PrintedInRange ==
  /\ \A p \in Int : 0 <= p /\ p <= 9900 => 0 <= Printed(p) /\ Printed(p) <= 9900
  /\ \A p \in Int : 100 <= p /\ p <= 10000 => 100 <= Printed(p) /\ Printed(p) <= 10000
BY NaNAssumption DEF Printed

\* What cpu_config_write writes, cpu_config_load takes as it is.
LEMMA WrittenIsRead ==
  ASSUME NEW contents \in [Fields -> Int]
  PROVE  LoadSucceeds(contents) /\ Loaded(contents) = contents
<1>1. contents \in [Fields -> Int \cup {NaN}]
  OBVIOUS
<1>2. contents # Missing /\ contents # Unreadable
  BY <1>1, FilesAssumption
<1>3. \A field \in Fields : contents[field] # Garbage /\ contents[field] # Absent
  BY <1>1, FilesAssumption
<1>4. Loaded(contents) = [field \in Fields |-> contents[field]]
  BY <1>2, <1>3 DEF Loaded
<1>5. LoadSucceeds(contents)
  BY <1>2, <1>3 DEF LoadSucceeds
<1> QED BY <1>1, <1>4, <1>5

\* cpu_config_write and load_runtime_config, one after the other.
LEMMA SavedIsLoaded ==
  ASSUME NEW c, FormConfig(c), Valid(c)
  PROVE  LET r == RuntimeConfig(FileOf(c))
         IN  /\ Below(r.low_threshold_pct, r.high_threshold_pct)
             /\ IF Collapsed(c) THEN r = Defaults ELSE Nearly(r, c)
<1> DEFINE low == Printed(c.low_threshold_pct)
           high == Printed(c.high_threshold_pct)
<1>1. /\ c \in [Fields -> Int]
      /\ c.low_threshold_pct \in Int /\ c.high_threshold_pct \in Int
  BY DEF FormConfig, Fields, Percentages
<1>2. /\ low \in Int /\ 0 <= low /\ low <= 9900
      /\ high \in Int /\ 100 <= high /\ high <= 10000
  BY <1>1, PrintedInRange, PrintedNear DEF FormConfig
<1>3. c.low_threshold_pct < c.high_threshold_pct
  BY <1>1, NaNAssumption DEF Valid, PercentagesRejected, AtLeast
<1>4. low <= high
  BY <1>1, <1>3, PrintedMonotone
<1>5. FileOf(c) \in [Fields -> Int]
  BY <1>1, PrintedNear DEF FileOf, Fields, Percentages
<1>6. /\ FileOf(c).low_threshold_pct = low /\ FileOf(c).high_threshold_pct = high
      /\ \A field \in Fields \ Percentages : FileOf(c)[field] = c[field]
  BY DEF FileOf, Fields, Percentages
<1>7. LoadSucceeds(FileOf(c)) /\ Loaded(FileOf(c)) = FileOf(c)
  BY <1>5, WrittenIsRead
<1>8. RuntimeConfig(FileOf(c)) = IF Valid(FileOf(c)) THEN FileOf(c) ELSE Defaults
  BY <1>7 DEF RuntimeConfig
<1>9. Valid(FileOf(c)) <=> low # high
  <2>1. PercentagesRejected(FileOf(c)) <=> low = high
    BY <1>2, <1>4, <1>6, NaNAssumption DEF PercentagesRejected, Below, AtLeast
  <2>2. /\ FileOf(c).low_frequency_khz = c.low_frequency_khz
        /\ FileOf(c).high_frequency_khz = c.high_frequency_khz
        /\ FileOf(c).interval_ms = c.interval_ms
    BY <1>6 DEF Fields, Percentages, Frequencies
  <2> QED BY <2>1, <2>2 DEF Valid
<1>10. CASE low = high
  <2>1. Collapsed(c) /\ RuntimeConfig(FileOf(c)) = Defaults
    BY <1>8, <1>9, <1>10 DEF Collapsed
  <2>2. Below(Defaults.low_threshold_pct, Defaults.high_threshold_pct)
    BY NaNAssumption DEF Defaults, Config, Below
  <2> QED BY <2>1, <2>2
<1>11. CASE low # high
  <2>1. ~Collapsed(c) /\ RuntimeConfig(FileOf(c)) = FileOf(c)
    BY <1>8, <1>9, <1>11 DEF Collapsed
  <2>2. Below(FileOf(c).low_threshold_pct, FileOf(c).high_threshold_pct)
    BY <1>2, <1>4, <1>6, <1>11, NaNAssumption DEF Below
  <2>3. /\ low - c.low_threshold_pct \in -5..5
        /\ high - c.high_threshold_pct \in -5..5
    BY <1>1, PrintedNear
  <2>4. Nearly(FileOf(c), c)
    BY <1>6, <2>3 DEF Nearly, Percentages
  <2> QED BY <2>1, <2>2, <2>4
<1> QED BY <1>10, <1>11

LEMMA WidgetsForm ==
  ASSUME NEW c, Numeric(c), NEW r \in Ranges \cup {NoRange},
         NEW before, FormConfig(before)
  PROVE  FormConfig(Widgets(c, r, before))
<1> DEFINE w == Widgets(c, r, before)
<1>1. \A field \in Fields : c[field] \in Int \cup {NaN} /\ before[field] \in Int
  BY DEF Numeric, FormConfig
<1>2. /\ 0 <= w.low_threshold_pct /\ w.low_threshold_pct <= 9900
      /\ w.low_threshold_pct \in Int
  <2>1. w.low_threshold_pct = Clamp(c.low_threshold_pct, 0, 9900, before.low_threshold_pct)
    BY DEF Widgets, Config
  <2> QED BY <1>1, <2>1 DEF Clamp, FormConfig, Fields, Percentages
<1>3. /\ 100 <= w.high_threshold_pct /\ w.high_threshold_pct <= 10000
      /\ w.high_threshold_pct \in Int
  <2>1. w.high_threshold_pct
          = Clamp(c.high_threshold_pct, 100, 10000, before.high_threshold_pct)
    BY DEF Widgets, Config
  <2> QED BY <1>1, <2>1 DEF Clamp, FormConfig, Fields, Percentages
<1>4. w.interval_ms \in Int
  <2>1. w.interval_ms = Clamp(c.interval_ms, 100, 5000, before.interval_ms)
    BY DEF Widgets, Config
  <2>2. c.interval_ms \in Int \cup {NaN} /\ before.interval_ms \in Int
    BY <1>1 DEF Fields
  <2> QED BY <2>1, <2>2 DEF Clamp
<1>5. \A field \in Frequencies : w[field] \in Int
  <2> SUFFICES ASSUME NEW field \in Frequencies PROVE w[field] \in Int
    OBVIOUS
  <2>1. w[field] = IF r = NoRange THEN before[field]
                   ELSE Clamp(c[field], r.min, r.max, before[field])
    BY DEF Widgets, Config, Frequencies
  <2>2. r # NoRange => r.min \in Int /\ r.max \in Int
    BY RangesAssumption
  <2>3. c[field] \in Int \cup {NaN} /\ before[field] \in Int
    BY <1>1 DEF Fields
  <2> HIDE DEF w
  <2> QED BY <2>1, <2>2, <2>3 DEF Clamp
<1>6. \A field \in Fields : w[field] \in Int
  BY <1>2, <1>3, <1>4, <1>5 DEF Fields, Percentages
<1>7. w = [field \in Fields |-> w[field]]
  BY WidgetsShape
<1> HIDE DEF w
<1>8. w \in [Fields -> Int]
  BY <1>6, <1>7
<1> QED BY <1>2, <1>3, <1>8 DEF FormConfig, w

LEMMA DefaultsNumeric == Defaults \in [Fields -> Int]
BY DEF Defaults, Config, Fields, Percentages, Frequencies

LEMMA NormalizedNumeric ==
  ASSUME NEW c, Numeric(c), NEW r \in Ranges
  PROVE  Numeric(Normalized(c, r))
<1>1. r.min \in Int /\ r.max \in Int
  BY RangesAssumption
<1>2. /\ c \in [Fields -> Int \cup {NaN}]
      /\ c["low_frequency_khz"] \in Int \cup {NaN}
      /\ c["high_frequency_khz"] \in Int \cup {NaN}
  BY DEF Numeric, Fields, Frequencies
<1>3. \E low, high \in Int \cup {NaN} :
        Normalized(c, r) = [c EXCEPT !["low_frequency_khz"] = low,
                                     !["high_frequency_khz"] = high]
  BY <1>1, <1>2 DEF Normalized
<1> QED BY <1>2, <1>3 DEF Numeric

\* Contents the file may have: what the administrator leaves, what an
\* install that stops half way leaves, and what the panel writes.
Contents == HandMade \cup {Missing, Unreadable} \cup [Fields -> Int]

LEMMA LoadedNumeric ==
  ASSUME NEW contents \in Contents, LoadSucceeds(contents)
  PROVE  Numeric(Loaded(contents))
<1>1. \A field \in Fields : Defaults[field] \in Int
  BY DefaultsNumeric
<1>2. CASE contents = Missing
  BY <1>1, <1>2 DEF Loaded, Numeric
<1>3. CASE contents # Missing
  <2>1. contents # Unreadable /\ \A field \in Fields : contents[field] # Garbage
    BY <1>3 DEF LoadSucceeds
  <2>2. \A field \in Fields : contents[field] \in Int \cup {NaN, Absent, Garbage}
    BY <1>3, <2>1, HandMadeAssumption DEF Contents
  <2> QED BY <1>1, <1>3, <2>1, <2>2 DEF Loaded, Numeric
<1> QED BY <1>2, <1>3

\* What is proved of the page by itself.
PageInv ==
  /\ disk \in Contents
  /\ Numeric(config) /\ FormConfig(shown)
  /\ range \in Ranges \cup {NoRange}
  /\ step \in {"idle", "install", "copy", "ensure", "restart"}
  /\ step # "idle" => temporary \in [Fields -> Int]

LEMMA FileOfForm ==
  ASSUME NEW c, FormConfig(c)
  PROVE  FileOf(c) \in [Fields -> Int]
BY PrintedNear DEF FormConfig, FileOf, Fields, Percentages

LEMMA PageInvInvariant == PanelSpec => []PageInv
<1>1. PanelInit => PageInv
  <2> SUFFICES ASSUME PanelInit PROVE PageInv
    OBVIOUS
  <2> DEFINE c == IF LoadSucceeds(disk) THEN Loaded(disk) ELSE Defaults
  <2>1. /\ disk \in Contents /\ step = "idle"
        /\ range \in Ranges \cup {NoRange}
        /\ config = IF range = NoRange THEN c ELSE Normalized(c, range)
        /\ shown = Widgets(config, range, FreshForm)
    BY DEF PanelInit, Opened, Contents
  <2>2. Numeric(c)
    BY <2>1, LoadedNumeric, DefaultsNumeric DEF Numeric
  <2> HIDE DEF c
  <2>3. Numeric(config)
    BY <2>1, <2>2, NormalizedNumeric
  <2>4. FormConfig(FreshForm)
    BY DEF FormConfig, FreshForm, Config, Fields, Percentages, Frequencies
  <2>5. FormConfig(shown)
    BY <2>1, <2>3, <2>4, WidgetsForm
  <2> QED BY <2>1, <2>3, <2>5 DEF PageInv
<1>2. PageInv /\ [PanelNext]_panelVars => PageInv'
  <2> SUFFICES ASSUME PageInv, [PanelNext]_panelVars PROVE PageInv'
    OBVIOUS
  <2>1. CASE HardwareRefresh
    <3> DEFINE c == IF range' = NoRange THEN config ELSE Normalized(config, range')
    <3>1. /\ range' \in Ranges \cup {NoRange} /\ config' = c
          /\ shown' = Widgets(c, range', shown) /\ UNCHANGED <<disk, step, temporary>>
      BY <2>1 DEF HardwareRefresh, Present, saveVars
    <3>2. Numeric(c)
      BY <3>1, NormalizedNumeric DEF PageInv
    <3> HIDE DEF c
    <3> QED BY <3>1, <3>2, WidgetsForm DEF PageInv
  <2>2. CASE RestoreDefaults
    <3> DEFINE c == IF range = NoRange THEN Defaults
                    ELSE [Defaults EXCEPT !["low_frequency_khz"] = range.min,
                                          !["high_frequency_khz"] = range.max]
    <3>1. /\ range' = range /\ config' = c
          /\ shown' = Widgets(c, range', shown) /\ UNCHANGED <<disk, step, temporary>>
      BY <2>2 DEF RestoreDefaults, Present, saveVars
    <3>2. Numeric(c)
      <4>1. range # NoRange => range.min \in Int /\ range.max \in Int
        BY RangesAssumption DEF PageInv
      <4>2. c \in [Fields -> Int]
        BY <4>1, DefaultsNumeric
      <4> QED BY <4>2 DEF Numeric
    <3> HIDE DEF c
    <3> QED BY <3>1, <3>2, WidgetsForm DEF PageInv
  <2>3. CASE \E form \in Forms : Fill(form)
    <3>1. PICK form \in Forms : Fill(form)
      BY <2>3
    <3>2. Numeric(form)
      BY FormsAssumption DEF Numeric
    <3>3. /\ shown' = Widgets(form, range, shown)
          /\ UNCHANGED <<disk, config, range, step, temporary>>
      BY <3>1 DEF Fill, saveVars
    <3> QED BY <3>2, <3>3, WidgetsForm DEF PageInv
  <2>4. CASE \E answer \in {"yes", "no"} : Save(answer)
    <3>1. /\ config' \in {config, shown} /\ UNCHANGED <<disk, range, shown>>
          /\ \/ step' = step /\ temporary' = temporary
             \/ step' = "install" /\ temporary' = FileOf(shown)
      BY <2>4 DEF Save, saveVars
    <3>2. Numeric(shown) /\ FileOf(shown) \in [Fields -> Int]
      BY FileOfForm DEF PageInv, FormConfig, Numeric
    <3> QED BY <3>1, <3>2 DEF PageInv
  <2>5. CASE SaveStep \/ DaemonRestarts
    <3>1. /\ UNCHANGED <<config, range, shown, temporary>>
          /\ \/ disk' = disk \/ disk' = Missing
             \/ disk' = temporary /\ step # "idle"
          /\ step' \in {"idle", "install", "copy", "ensure", "restart"}
          /\ step' = "idle" \/ step # "idle"
      BY <2>5 DEF SaveStep, StepFails, InstallRemoves, InstallCopies, EnsureService,
                  RestartService, DaemonRestarts, pageVars, saveVars, PageInv
    <3> QED BY <3>1 DEF PageInv, Contents
  <2>6. CASE AdministratorEdits \/ UNCHANGED panelVars
    <3>1. /\ UNCHANGED <<config, range, shown, step, temporary>>
          /\ disk' = disk \/ disk' \in HandMade
      BY <2>6 DEF AdministratorEdits, panelVars, pageVars, saveVars
    <3> QED BY <3>1 DEF PageInv, Contents
  <2> QED BY <2>1, <2>2, <2>3, <2>4, <2>5, <2>6 DEF PanelNext
<1> QED BY <1>1, <1>2, PTL DEF PanelSpec

\* What PageInv leaves of PanelTypeOK.
OthersOK ==
  /\ runtime = NoDaemon \/ DOMAIN runtime = Fields
  /\ author \in {"panel", "other"}
  /\ installed \in {"yes", "no"} /\ restart \in {"yes", "no"}
  /\ edited \in {"yes", "no"}
  /\ status \in {"none", "error", "info", "saved", "restarted"}

LEMMA RuntimeConfigFields ==
  ASSUME NEW contents
  PROVE  DOMAIN RuntimeConfig(contents) = Fields
BY DefaultsNumeric DEF RuntimeConfig, Loaded

(***************************************************************************)
(* PanelTypeOK: whatever the files and forms, the page keeps complete      *)
(* configurations, and so do the file and the daemon.                      *)
(***************************************************************************)
THEOREM PanelTypeCorrect == PanelSpec => []PanelTypeOK
<1>1. PanelInit => OthersOK
  BY RuntimeConfigFields DEF PanelInit, OthersOK
<1>2. OthersOK /\ [PanelNext]_panelVars => OthersOK'
  <2> SUFFICES ASSUME OthersOK, [PanelNext]_panelVars PROVE OthersOK'
    OBVIOUS
  <2>1. runtime' = runtime \/ DOMAIN runtime' = Fields
    BY RuntimeConfigFields
       DEF PanelNext, panelVars, saveVars, pageVars, HardwareRefresh,
           RestoreDefaults, Fill, Save, SaveStep, StepFails, InstallRemoves,
           InstallCopies, EnsureService, RestartService, DaemonRestarts,
           AdministratorEdits
  <2>2. /\ author' \in {author, "panel", "other"}
        /\ installed' \in {installed, "yes"}
        /\ restart' \in {restart, "yes", "no"}
        /\ edited' \in {edited, "yes", "no"}
        /\ status' \in {status, "error", "info", "saved", "restarted"}
    BY DEF PanelNext, panelVars, saveVars, pageVars, HardwareRefresh,
           RestoreDefaults, Fill, Save, SaveStep, StepFails, InstallRemoves,
           InstallCopies, EnsureService, RestartService, DaemonRestarts,
           AdministratorEdits, Present
  <2> QED BY <2>1, <2>2 DEF OthersOK
<1>3. PageInv /\ OthersOK => PanelTypeOK
  <2> SUFFICES ASSUME PageInv, OthersOK PROVE PanelTypeOK
    OBVIOUS
  <2>1. disk \in {Missing, Unreadable} \/ DOMAIN disk = Fields
    BY HandMadeAssumption DEF PageInv, Contents
  <2>2. /\ DOMAIN config = Fields /\ DOMAIN shown = Fields
        /\ step # "idle" => DOMAIN temporary = Fields
    BY DEF PageInv, Numeric, FormConfig
  <2> QED BY <2>1, <2>2 DEF PageInv, OthersOK, PanelTypeOK
<1> QED BY <1>1, <1>2, <1>3, PageInvInvariant, PTL DEF PanelSpec

\* cpu_config_write and activate, one after the other, on the range the form was
\* checked against: the form is filled with what was in it.
LEMMA SavedIsShown ==
  ASSUME NEW c, FormConfig(c), Valid(c), NEW r \in Ranges, InRange(c, r)
  PROVE  Nearly(Widgets(Opened(FileOf(c), r), r, FreshForm), c)
<1> DEFINE f == FileOf(c)
           w == Widgets(f, r, FreshForm)
<1>1. /\ c \in [Fields -> Int] /\ f \in [Fields -> Int]
      /\ r # NoRange /\ r.min \in Nat /\ r.max \in Nat
  BY FileOfForm, RangesAssumption DEF FormConfig
<1>2. /\ f.low_threshold_pct = Printed(c.low_threshold_pct)
      /\ f.high_threshold_pct = Printed(c.high_threshold_pct)
      /\ \A field \in Fields \ Percentages : f[field] = c[field]
  BY DEF FileOf, Fields, Percentages
<1>3. /\ f.low_frequency_khz = c.low_frequency_khz
      /\ f.high_frequency_khz = c.high_frequency_khz
      /\ f.interval_ms = c.interval_ms
  BY <1>2 DEF Fields, Percentages, Frequencies
<1>4. /\ c.low_frequency_khz \in r.min..r.max /\ c.high_frequency_khz \in r.min..r.max
      /\ c.low_frequency_khz <= c.high_frequency_khz /\ c.interval_ms \in 100..5000
  BY DEF InRange, Valid, Frequencies
<1> HIDE DEF f
<1>5. Normalized(f, r) = f
  <2>1. /\ f["low_frequency_khz"] \in r.min..r.max
        /\ f["high_frequency_khz"] \in r.min..r.max
        /\ ~(f["low_frequency_khz"] > f["high_frequency_khz"])
    BY <1>1, <1>3, <1>4
  <2>2. Normalized(f, r) = [f EXCEPT !["low_frequency_khz"] = f["low_frequency_khz"],
                                     !["high_frequency_khz"] = f["high_frequency_khz"]]
    BY <2>1 DEF Normalized
  <2> QED BY <1>1, <2>2
<1>6. Opened(f, r) = f
  BY <1>1, <1>5, WrittenIsRead DEF Opened
<1>7. /\ f.low_threshold_pct \in Int /\ f.high_threshold_pct \in Int
      /\ 0 <= f.low_threshold_pct /\ f.low_threshold_pct <= 9900
      /\ 100 <= f.high_threshold_pct /\ f.high_threshold_pct <= 10000
      /\ f.low_threshold_pct - c.low_threshold_pct \in -5..5
      /\ f.high_threshold_pct - c.high_threshold_pct \in -5..5
  <2>1. c.low_threshold_pct \in Int /\ c.high_threshold_pct \in Int
    BY <1>1 DEF Fields, Percentages
  <2> QED BY <1>2, <2>1, PrintedInRange, PrintedNear DEF FormConfig
<1>8. /\ w.low_threshold_pct = f.low_threshold_pct
      /\ w.high_threshold_pct = f.high_threshold_pct
      /\ w.low_frequency_khz = f.low_frequency_khz
      /\ w.high_frequency_khz = f.high_frequency_khz
      /\ w.interval_ms = f.interval_ms
  <2>1. \A v, lo, hi \in Int : \A b : lo <= v /\ v <= hi => Clamp(v, lo, hi, b) = v
    BY NaNAssumption DEF Clamp
  <2>2. /\ Clamp(f.low_threshold_pct, 0, 9900, FreshForm.low_threshold_pct)
             = f.low_threshold_pct
        /\ Clamp(f.high_threshold_pct, 100, 10000, FreshForm.high_threshold_pct)
             = f.high_threshold_pct
    BY <1>7, <2>1
  <2>3. /\ Clamp(f["low_frequency_khz"], r.min, r.max, FreshForm["low_frequency_khz"])
             = f.low_frequency_khz
        /\ Clamp(f["high_frequency_khz"], r.min, r.max, FreshForm["high_frequency_khz"])
             = f.high_frequency_khz
        /\ Clamp(f.interval_ms, 100, 5000, FreshForm.interval_ms) = f.interval_ms
    <3>1. /\ r.min \in Int /\ r.max \in Int
          /\ f.low_frequency_khz \in Int /\ f.high_frequency_khz \in Int
          /\ f.interval_ms \in Int
      <4>1. f \in [Fields -> Int]
        BY <1>1
      <4>2. /\ "low_frequency_khz" \in Fields /\ "high_frequency_khz" \in Fields
            /\ "interval_ms" \in Fields
        BY DEF Fields, Frequencies
      <4> QED BY <1>1, <4>1, <4>2
    <3>2. /\ r.min <= f.low_frequency_khz /\ f.low_frequency_khz <= r.max
          /\ r.min <= f.high_frequency_khz /\ f.high_frequency_khz <= r.max
      BY <1>1, <1>3, <1>4
    <3>3. 100 <= f.interval_ms /\ f.interval_ms <= 5000
      <4> DEFINE ms == f.interval_ms
      <4>1. ms \in 100..5000
        BY <1>3, <1>4
      <4> HIDE DEF ms
      <4>2. 100 <= ms /\ ms <= 5000
        BY <4>1
      <4> QED BY <4>2 DEF ms
    <3> QED BY <2>1, <3>1, <3>2, <3>3
  <2> QED BY <1>1, <2>2, <2>3 DEF Widgets, Config
<1>9. Nearly(w, c)
  <2>1. \A field \in Fields \ Percentages : w[field] = c[field]
    BY <1>3, <1>8 DEF Fields, Percentages, Frequencies
  <2>2. \A field \in Percentages : w[field] - c[field] \in -5..5
    BY <1>7, <1>8 DEF Percentages
  <2> QED BY <2>1, <2>2 DEF Nearly
<1> QED BY <1>6, <1>9 DEF f

\* What Save has checked of the form it took into state->config.
Checked ==
  /\ FormConfig(config) /\ Valid(config)
  /\ range # NoRange /\ InRange(config, range)

\* Which of the form, the temporary file, the file and the daemon agree.
SaveInv ==
  /\ step # "idle" => Checked
  /\ step \in {"install", "copy"} => temporary = FileOf(config)
  /\ step \in {"ensure", "restart"} /\ author = "panel" => disk = FileOf(config)
  /\ step = "idle" /\ status \in {"saved", "restarted"} /\ author = "panel" =>
       /\ Checked
       /\ disk = FileOf(config)
       /\ status = "restarted" => runtime = RuntimeConfig(disk)

LEMMA SaveInvInvariant == PanelSpec => []SaveInv
<1>1. PanelInit => SaveInv
  BY DEF PanelInit, SaveInv
<1>2. SaveInv /\ PageInv /\ [PanelNext]_panelVars => SaveInv'
  <2> SUFFICES ASSUME SaveInv, PageInv, [PanelNext]_panelVars PROVE SaveInv'
    OBVIOUS
  <2>1. CASE HardwareRefresh
    BY <2>1 DEF HardwareRefresh, saveVars, SaveInv, Checked
  <2>2. CASE RestoreDefaults
    BY <2>2 DEF RestoreDefaults, saveVars, SaveInv, Checked
  <2>3. CASE \E form \in Forms : Fill(form)
    BY <2>3 DEF Fill, saveVars, SaveInv, Checked
  <2>4. CASE \E answer \in {"yes", "no"} : Save(answer)
    BY <2>4 DEF Save, saveVars, SaveInv, Checked, PageInv
  <2>5. CASE SaveStep
    <3>1. CASE StepFails
      BY <3>1 DEF StepFails, pageVars, SaveInv, Checked
    <3>2. CASE InstallRemoves
      BY <3>2 DEF InstallRemoves, pageVars, SaveInv, Checked
    <3>3. CASE InstallCopies
      BY <3>3 DEF InstallCopies, pageVars, SaveInv, Checked
    <3>4. CASE EnsureService
      BY <3>4 DEF EnsureService, pageVars, SaveInv, Checked
    <3>5. CASE RestartService
      BY <3>5 DEF RestartService, pageVars, SaveInv, Checked
    <3> QED BY <2>5, <3>1, <3>2, <3>3, <3>4, <3>5 DEF SaveStep
  <2>6. CASE DaemonRestarts
    BY <2>6 DEF DaemonRestarts, pageVars, saveVars, SaveInv, Checked
  <2>7. CASE AdministratorEdits
    BY <2>7 DEF AdministratorEdits, pageVars, saveVars, SaveInv, Checked
  <2>8. CASE UNCHANGED panelVars
    BY <2>8 DEF panelVars, SaveInv, Checked
  <2> QED BY <2>1, <2>2, <2>3, <2>4, <2>5, <2>6, <2>7, <2>8 DEF PanelNext
<1> QED BY <1>1, <1>2, PageInvInvariant, PTL DEF PanelSpec

(***************************************************************************)
(* "Configuração salva e serviço reiniciado." is true for every file and   *)
(* every form, but for thresholds that the rounding of the file collapses. *)
(***************************************************************************)
THEOREM ReportedMeansRunningHolds == PanelSpec => []ReportedMeansRunning
<1>1. SaveInv => ReportedMeansRunning
  BY SavedIsLoaded DEF SaveInv, Checked, ReportedMeansRunning
<1> QED BY <1>1, SaveInvInvariant, PTL

\* What was saved is what both readers of the file make of it: the daemon and the
\* next window, for every file there was before, every form and every range.
THEOREM SavedMeansReadHolds == PanelSpec => []SavedMeansRead
<1>1. PageInv /\ SaveInv => SavedMeansRead
  <2> SUFFICES ASSUME PageInv, SaveInv, step = "idle",
                      status \in {"saved", "restarted"}, author = "panel"
               PROVE  /\ IF Collapsed(config) THEN RuntimeConfig(disk) = Defaults
                                              ELSE Nearly(RuntimeConfig(disk), config)
                      /\ Nearly(Widgets(Opened(disk, range), range, FreshForm), config)
    BY DEF SavedMeansRead
  <2>1. Checked /\ disk = FileOf(config) /\ range \in Ranges
    BY DEF SaveInv, PageInv, Checked
  <2>2. IF Collapsed(config) THEN RuntimeConfig(disk) = Defaults
                             ELSE Nearly(RuntimeConfig(disk), config)
    BY <2>1, SavedIsLoaded DEF Checked
  <2>3. Nearly(Widgets(Opened(disk, range), range, FreshForm), config)
    BY <2>1, SavedIsShown DEF Checked
  <2> QED BY <2>2, <2>3
<1> QED BY <1>1, PageInvInvariant, SaveInvInvariant, PTL
============================================================================
