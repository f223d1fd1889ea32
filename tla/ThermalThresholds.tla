-------------------------- MODULE ThermalThresholds --------------------------
(***************************************************************************)
(* The thermal thresholds of one sensor: framework_ec_get_thermal_         *)
(* thresholds and framework_ec_set_thermal_thresholds (src/src/lib.rs,     *)
(* src/src/thermal.rs).  The EC keeps Kelvin with zero for "disabled"; the *)
(* ABI speaks Celsius, with an enabled mask on the way out and "negative   *)
(* keeps, zero disables" on the way in.  A set is one EC command that      *)
(* reads the whole configuration and one that writes it back, so calls of  *)
(* several threads interleave between the two.                             *)
(***************************************************************************)
EXTENDS Integers

CONSTANTS Threads,   \* host threads, each inside one call at a time
          Settable,  \* warn, high, halt, fan_off, fan_max
          Releases,  \* warn_release, high_release, halt_release
          Factory,   \* Kelvin values the firmware may start with
          Requests   \* values a host passes: negative, zero or degrees Celsius

Fields == Settable \cup Releases

KelvinOffset == 273

ASSUME ThermalAssumption ==
    /\ Settable \cap Releases = {}
    /\ Factory \subseteq Nat /\ Requests \subseteq Int

VARIABLES cfg,      \* EC: the thresholds in Kelvin
          pc,       \* where each thread is
          cfgRead,  \* cfgRead[t]: the configuration t's set has read
          values,   \* values[t]: the arguments of t's set
          reading,  \* what the last get of any thread returned
          asked     \* history: asked[f], the values f had at first or a set asked for

vars == <<cfg, pc, cfgRead, values, reading, asked>>

KelvinValues == Factory \cup {r + KelvinOffset : r \in {x \in Requests : x > 0}}

\* Mutant: a disabled threshold is not told from absolute zero.
EnabledAlways(kelvin) == TRUE

\* mark in get_thermal_thresholds
Enabled(kelvin) == kelvin # 0

\* threshold_celsius
Celsius(kelvin) == kelvin - KelvinOffset

Reading(config) ==
    [f \in Fields |-> [enabled |-> Enabled(config[f]), celsius |-> Celsius(config[f])]]

\* The thresholds of a failed get.
NoReading == [f \in Fields |-> [enabled |-> FALSE, celsius |-> 0]]

\* The locals of a thread that is in no call.
NoConfig == [f \in Fields |-> 0]
KeepAll == [f \in Settable |-> -1]

Init ==
    /\ cfg \in [Fields -> Factory]
    /\ pc = [t \in Threads |-> "idle"]
    /\ cfgRead = [t \in Threads |-> NoConfig]
    /\ values = [t \in Threads |-> KeepAll]
    /\ reading = NoReading
    /\ asked = [f \in Fields |-> {cfg[f]}]
-----------------------------------------------------------------------------
\* One EC command reads the whole configuration; an error returns zeroed
\* thresholds with the failing status.
Get(t) ==
    /\ pc[t] = "idle"
    /\ reading' = Reading(cfg)
    /\ UNCHANGED <<cfg, pc, cfgRead, values, asked>>

GetFails(t) ==
    /\ pc[t] = "idle"
    /\ reading' = NoReading
    /\ UNCHANGED <<cfg, pc, cfgRead, values, asked>>

\* The first half of power::set_thermal_thresholds.  When it fails, the call
\* returns its error and nothing has changed.
SetReads(t) ==
    /\ pc[t] = "idle"
    /\ \E v \in [Settable -> Requests] :
          /\ values' = [values EXCEPT ![t] = v]
          /\ asked' = [f \in Fields |-> asked[f] \cup
                IF f \in Settable /\ v[f] >= 0
                THEN {IF v[f] = 0 THEN 0 ELSE v[f] + KelvinOffset} ELSE {}]
    /\ cfgRead' = [cfgRead EXCEPT ![t] = cfg]
    /\ pc' = [pc EXCEPT ![t] = "write"]
    /\ UNCHANGED <<cfg, reading>>

\* Mutant: any number is degrees Celsius.
MergedBlindly(old, v) == IF v = 0 THEN 0 ELSE v + KelvinOffset

\* Negative keeps, zero disables, positive is degrees Celsius.
Merged(old, v) ==
    IF v < 0 THEN old
    ELSE IF v = 0 THEN 0
    ELSE v + KelvinOffset

\* Mutant: the configuration is built from the arguments alone.
FromArguments(t) ==
    [f \in Fields |-> IF f \in Settable THEN Merged(0, values[t][f]) ELSE 0]

\* The configuration the second half writes: the release points as they were read.
NewConfig(t) ==
    [f \in Fields |-> IF f \in Settable THEN Merged(cfgRead[t][f], values[t][f])
                      ELSE cfgRead[t][f]]

Done(t) == /\ pc' = [pc EXCEPT ![t] = "idle"]
           /\ cfgRead' = [cfgRead EXCEPT ![t] = NoConfig]
           /\ values' = [values EXCEPT ![t] = KeepAll]

\* The second half.
SetWrites(t) ==
    /\ pc[t] = "write"
    /\ cfg' = NewConfig(t)
    /\ Done(t)
    /\ UNCHANGED <<reading, asked>>

SetWriteFails(t) ==
    /\ pc[t] = "write"
    /\ Done(t)
    /\ UNCHANGED <<cfg, reading, asked>>

Next == \E t \in Threads :
            Get(t) \/ GetFails(t) \/ SetReads(t) \/ SetWrites(t) \/ SetWriteFails(t)

Spec == Init /\ [][Next]_vars
-----------------------------------------------------------------------------
(* Properties *)

Kelvins == KelvinValues \cup {0}

\* Every variable keeps its type.
TypeOK ==
    /\ cfg \in [Fields -> Kelvins]
    /\ pc \in [Threads -> {"idle", "write"}]
    /\ cfgRead \in [Threads -> [Fields -> Kelvins]]
    /\ values \in [Threads -> [Settable -> Requests \cup {-1}]]
    /\ reading \in [Fields -> [enabled : BOOLEAN,
                               celsius : {0} \cup {k - KelvinOffset : k \in Kelvins}]]
    /\ asked \in [Fields -> SUBSET Kelvins]

\* However sets of several threads interleave and fail, the release points stay
\* what they were: no call of this library can move one (lib.rs, "the release
\* points are preserved").
ReleasesStay == [][\A f \in Releases : cfg'[f] = cfg[f]]_vars

\* No threshold has a value nobody asked for: races and failures can bring back
\* an old value, but "keep" never becomes a temperature and no value asked for
\* one threshold reaches another one.
ValuesWereAskedFor == \A f \in Fields : cfg[f] \in asked[f]

\* A threshold reported as enabled is one the EC had, in degrees Celsius, "so a
\* disabled threshold is never confused with a real sub-zero value"
\* (thermal.rs:420), whatever the sets did meanwhile.
ReadingsAreReal ==
    \A f \in Fields :
        reading[f].enabled => reading[f].celsius + KelvinOffset \in asked[f] \ {0}

\* "The call is a read-modify-write, so untouched thresholds and the release
\* points are preserved" (lib.rs:2715): a set that keeps a threshold does not
\* change it.
UntouchedArePreserved ==
    [][\A t \in Threads : pc[t] = "write" /\ pc'[t] = "idle" =>
          \A f \in Settable : values[t][f] < 0 => cfg'[f] = cfg[f]]_vars
=============================================================================
