---------------------------- MODULE Hysteresis ------------------------------
(***************************************************************************)
(* What the frequency service promises, without sysfs, processes or        *)
(* partial sweeps: a controller with a mode and a machine whose policies   *)
(* each have a pair of limits.                                             *)
(*                                                                         *)
(*   - inside the band nothing moves and the mode is kept;                 *)
(*   - outside the band the limits only ever move to the clock of the side *)
(*     the last sample was on, and only while the mode is not that side;   *)
(*   - the mode moves to a side only when the whole machine is there;      *)
(*   - a restart forgets the mode and may bring another configuration.     *)
(*                                                                         *)
(* It is the text of README.md ("Histerese") and of the comment in the     *)
(* daemon's loop made precise; module Daemon is shown to implement it.     *)
(***************************************************************************)
EXTENDS Integers

CONSTANTS Policies, HwMin, HwMax, Configs

VARIABLES
  mode,    \* "UNKNOWN", "LOW" or "HIGH": what the machine was last driven to
  usage,   \* where the last sample was: "below", "band" or "above"
  config,  \* the pair of clocks in force
  minimum, maximum  \* the limits of every policy

hysteresisVars == <<mode, usage, config, minimum, maximum>>

\* The side a sample asks for.
Side(u) == CASE u = "below" -> "LOW" [] u = "above" -> "HIGH"
             [] OTHER -> mode

Distance(a, b) == IF a < b THEN b - a ELSE a - b

\* f is the clock of the given side on policy p: of the frequencies the
\* policy can do, the one nearest to the configured one.
IsSideClock(p, side, f) ==
  LET khz == IF side = "LOW" THEN config.low ELSE config.high
  IN  /\ f \in HwMin[p]..HwMax[p]
      /\ \A g \in HwMin[p]..HwMax[p] : Distance(f, khz) <= Distance(g, khz)

HysteresisInit ==
  /\ mode = "UNKNOWN"
  /\ usage = "band"
  /\ config \in Configs
  /\ minimum = HwMin
  /\ maximum = HwMax

TakeSample ==
  /\ usage' \in {"below", "band", "above"}
  /\ UNCHANGED <<mode, config, minimum, maximum>>

\* One limit of one policy moves to where the last sample wants it.
Adjust(p) ==
  /\ mode # Side(usage)
  /\ \E f \in HwMin[p]..HwMax[p] :
       /\ IsSideClock(p, Side(usage), f)
       /\ \/ minimum' = [minimum EXCEPT ![p] = f] /\ UNCHANGED maximum
          \/ maximum' = [maximum EXCEPT ![p] = f] /\ UNCHANGED minimum
  /\ UNCHANGED <<mode, usage, config>>

Commit ==
  /\ mode # Side(usage)
  /\ \A p \in Policies : /\ IsSideClock(p, Side(usage), minimum[p])
                         /\ IsSideClock(p, Side(usage), maximum[p])
  /\ mode' = Side(usage)
  /\ UNCHANGED <<usage, config, minimum, maximum>>

Restart ==
  /\ mode' = "UNKNOWN"
  /\ config' \in Configs
  /\ UNCHANGED <<usage, minimum, maximum>>

HysteresisNext ==
  TakeSample \/ Commit \/ Restart \/ (\E p \in Policies : Adjust(p))

HysteresisSpec == HysteresisInit /\ [][HysteresisNext]_hysteresisVars
============================================================================
