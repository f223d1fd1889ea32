------------------------ MODULE MCThermalThresholds ------------------------
(***************************************************************************)
(* The thermal thresholds on small instances; the .cfg files give the      *)
(* threads.                                                                *)
(***************************************************************************)
EXTENDS ThermalThresholds, TLC

CONSTANTS warn, halt, warn_release

SmallSettable == {warn, halt}
SmallReleases == {warn_release}

\* Disabled, below zero Celsius, and above.
SmallFactory == {0, 260, 330}

\* Keep, disable, and a temperature.
SmallRequests == {-1, 0, 80}

\* The threads are interchangeable.
Symmetries == Permutations(Threads)
=============================================================================
