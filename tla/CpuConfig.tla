----------------------------- MODULE CpuConfig ------------------------------
(***************************************************************************)
(* The configuration file and its rules (src/config.c), and what the       *)
(* daemon makes of a file (load_runtime_config in src/daemon.c).  All of   *)
(* it is pure: module FrequencyPanel puts it to work.                      *)
(*                                                                         *)
(* Percentages are in hundredths of a percent, frequencies in kHz and      *)
(* intervals in ms.  A percentage may also be NaN, which the file format   *)
(* lets through (strtod reads "nan"); comparisons with NaN are false, as   *)
(* in IEEE arithmetic.                                                     *)
(***************************************************************************)
EXTENDS Integers

CONSTANTS
  NaN,         \* the double that is not a number
  Absent,      \* a file's field: the key is not there
  Garbage,     \* a file's field: the key is there, its value is no number
  Missing,     \* no such file (ENOENT)
  Unreadable   \* the file exists, but cannot be read or is over 1 MiB

ASSUME NaNAssumption == NaN \notin Int

Percentages == {"low_threshold_pct", "high_threshold_pct"}
Frequencies == {"low_frequency_khz", "high_frequency_khz"}
Fields == Percentages \cup Frequencies \cup {"interval_ms"}

\* No file is taken for no file, and no field of one for a missing field.
ASSUME FilesAssumption ==
  /\ {Absent, Garbage} \cap (Int \cup {NaN}) = {}
  /\ \A file \in {Missing, Unreadable} : file \notin [Fields -> Int \cup {NaN}]

\* A CpuConfig, from its five members.
Config(low_pct, high_pct, low_khz, high_khz, ms) ==
  [low_threshold_pct |-> low_pct, high_threshold_pct |-> high_pct,
   low_frequency_khz |-> low_khz, high_frequency_khz |-> high_khz,
   interval_ms |-> ms]

\* cpu_config_defaults.
Defaults == Config(600, 1000, 1200000, 3500000, 500)

----------------------------------------------------------------------------
\* cpu_config_load: fields that are not in the file keep their default, and
\* so does everything when there is no file.
LoadSucceeds(contents) ==
  \/ contents = Missing
  \/ /\ contents # Unreadable
     /\ \A field \in Fields : contents[field] # Garbage

Loaded(contents) ==
  [field \in Fields |->
     IF contents = Missing THEN Defaults[field]
     ELSE IF contents[field] = Absent THEN Defaults[field] ELSE contents[field]]

----------------------------------------------------------------------------
\* cpu_config_validate, and its comparisons of doubles.
Below(a, b) == a # NaN /\ b # NaN /\ a < b
AtLeast(a, b) == a # NaN /\ b # NaN /\ a >= b

PercentagesRejected(c) ==
  \/ Below(c.low_threshold_pct, 0) \/ AtLeast(c.low_threshold_pct, 10000)
  \/ AtLeast(0, c.high_threshold_pct) \/ Below(10000, c.high_threshold_pct)
  \/ AtLeast(c.low_threshold_pct, c.high_threshold_pct)

Valid(c) ==
  /\ ~PercentagesRejected(c)
  /\ c.low_frequency_khz <= c.high_frequency_khz
  /\ c.interval_ms \in 100..5000

\* check_range: both clocks inside the range detected on the hardware.
InRange(c, range) ==
  \A field \in Frequencies : c[field] \in range.min..range.max

----------------------------------------------------------------------------
\* Mutant: what was loaded is used without validation.
RuntimeConfigUnchecked(contents) ==
  IF LoadSucceeds(contents) THEN Loaded(contents) ELSE Defaults

\* load_runtime_config: a file that cannot be loaded, or does not validate,
\* is replaced by the defaults as a whole.
RuntimeConfig(contents) ==
  IF LoadSucceeds(contents)
    THEN IF Valid(Loaded(contents)) THEN Loaded(contents) ELSE Defaults
    ELSE Defaults

----------------------------------------------------------------------------
\* cpu_config_write prints the percentages with one decimal (and NaN as a
\* word that loads as NaN); the integers as they are.
Printed(pct) == IF pct = NaN THEN NaN ELSE ((pct + 5) \div 10) * 10

\* Mutant: one line is not written.
FileOfWithoutInterval(c) ==
  [field \in Percentages \cup Frequencies |->
     IF field \in Percentages THEN Printed(c[field]) ELSE c[field]]

FileOf(c) ==
  [field \in Fields |->
     IF field \in Percentages THEN Printed(c[field]) ELSE c[field]]
============================================================================
