------------------------------ MODULE MCDaemon ------------------------------
(***************************************************************************)
(* Constants of the small instances of Daemon: a hybrid processor whose two *)
(* policies have different ranges, with frequencies in arbitrary units.    *)
(* The low clock of OneConfig is below p2's range and its high clock above *)
(* p1's, so that both clamps of set_one_policy_frequency act.  The clocks  *)
(* of ThreeConfigs lie so that a sweep to either side can find itself      *)
(* above or below the limits an earlier configuration left.                *)
(***************************************************************************)
EXTENDS Daemon

CONSTANTS p1, p2

MCPolicies == {p1, p2}
MCHwMin == [p \in MCPolicies |-> IF p = p1 THEN 1 ELSE 3]
MCHwMax == [p \in MCPolicies |-> IF p = p1 THEN 4 ELSE 6]

OneConfig == {[low |-> 2, high |-> 5]}
ThreeConfigs == {[low |-> 1, high |-> 3], [low |-> 3, high |-> 4],
                 [low |-> 4, high |-> 6]}

\* Both loads get the same clock, above what the other configuration leaves.
EqualClocks == {[low |-> 1, high |-> 3], [low |-> 4, high |-> 4]}
============================================================================
