-------------------------- MODULE MCFrequencyPanel --------------------------
(***************************************************************************)
(* Small instances of FrequencyPanel: two processors, a handful of files   *)
(* and a handful of ways to fill in the form.                              *)
(***************************************************************************)
EXTENDS FrequencyPanel

MCRanges == {[min |-> 800000, max |-> 4000000], [min |-> 1500000, max |-> 3000000]}

Edited(c, field, value) == [c EXCEPT ![field] = value]

\* One file per reason to reject or to adjust a configuration.
MCHandMade ==
  { Missing, Unreadable, Defaults,
    Edited(Defaults, "interval_ms", Garbage),
    Edited(Defaults, "interval_ms", 0),
    Edited(Defaults, "high_frequency_khz", 1000000),
    \* both clocks fit the second processor, in the wrong order; a threshold
    \* with two decimals
    Config(1004, 2000, 2500000, 2000000, 500),
    \* thresholds that are equal with one decimal
    Edited(Config(1046, 1050, 900000, 3900000, 1000), "interval_ms", Absent) }

\* Complete, without its low clock, with thresholds or clocks swapped.
MCForms ==
  { Config(1000, 4000, 1500000, 3000000, 200),
    Config(4000, 1000, 1500000, 3000000, 200),
    Config(600, 1000, 3000000, 1500000, 500),
    Config(0, 10000, 100000, 10000000, 5000) }

\* A threshold strtod takes and the rules say nothing of.
NaNFiles == {Defaults, Config(NaN, 1000, 1200000, 3500000, 500)}
============================================================================
