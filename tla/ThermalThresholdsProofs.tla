----------------------- MODULE ThermalThresholdsProofs -----------------------
(***************************************************************************)
(* What races between calls cannot do to the thermal thresholds, for any   *)
(* set of threads, thresholds, factory values and requests: no release     *)
(* point moves, and no threshold or reading has a value nobody asked for.  *)
(***************************************************************************)
EXTENDS ThermalThresholds, TLAPS

\* The shape of the variables that the steps need.  (The sets of values of TypeOK
\* follow from what was asked for.)
Shape ==
    /\ cfg \in [Fields -> Int]
    /\ pc \in [Threads -> {"idle", "write"}]
    /\ cfgRead \in [Threads -> [Fields -> Int]]
    /\ values \in [Threads -> [Settable -> Int]]
    /\ reading \in [Fields -> [enabled : BOOLEAN, celsius : Int]]
    /\ asked \in [Fields -> SUBSET Int]

\* The Kelvin value that a request of degrees, or of zero, stands for.
Encoded(v) == IF v = 0 THEN 0 ELSE v + KelvinOffset

\* A set between its two commands holds release points that are still right,
\* old thresholds that were real, and requests that are recorded.
Pending(t) ==
    pc[t] = "write" =>
        /\ \A f \in Releases : cfgRead[t][f] = cfg[f]
        /\ \A f \in Fields : cfgRead[t][f] \in asked[f]
        /\ \A f \in Settable : values[t][f] >= 0 => Encoded(values[t][f]) \in asked[f]

\* The inductive invariant: the two properties and what they rest on.
IInv == /\ Shape
        /\ \A t \in Threads : Pending(t)
        /\ ValuesWereAskedFor
        /\ ReadingsAreReal

-----------------------------------------------------------------------------
(* The steps *)

LEMMA InitInvariant == Init => IInv
<1> SUFFICES ASSUME Init PROVE IInv
    OBVIOUS
<1>0. Factory \subseteq Int
    BY ThermalAssumption
<1>1. cfg \in [Fields -> Int]
    <2>1. cfg \in [Fields -> Factory]
        BY DEF Init
    <2> QED
        BY <1>0, <2>1
<1>2. Shape
    BY <1>1 DEF Init, Shape, NoConfig, KeepAll, NoReading
<1>3. \A t \in Threads : Pending(t)
    BY DEF Init, Pending
<1>4. ValuesWereAskedFor
    BY DEF Init, ValuesWereAskedFor
<1>5. ReadingsAreReal
    BY DEF Init, ReadingsAreReal, NoReading
<1> QED
    BY <1>2, <1>3, <1>4, <1>5 DEF IInv

\* A reading of the configuration tells the truth about it.
LEMMA ReadingOfConfig ==
    ASSUME cfg \in [Fields -> Int], NEW f \in Fields
    PROVE  /\ Reading(cfg)[f].enabled \in BOOLEAN
           /\ Reading(cfg)[f].celsius \in Int
           /\ Reading(cfg)[f].enabled <=> cfg[f] # 0
           /\ Reading(cfg)[f].celsius + KelvinOffset = cfg[f]
<1>1. Reading(cfg)[f] = [enabled |-> cfg[f] # 0, celsius |-> cfg[f] - KelvinOffset]
    BY DEF Reading, Enabled, Celsius
<1>2. cfg[f] \in Int
    OBVIOUS
<1>3. Reading(cfg)[f].enabled = (cfg[f] # 0)
    BY <1>1
<1>4. Reading(cfg)[f].celsius = cfg[f] - KelvinOffset
    BY <1>1
<1>5. \A k \in Int : k - 273 \in Int /\ (k - 273) + 273 = k
    OBVIOUS
<1>6. /\ Reading(cfg)[f].celsius \in Int
      /\ Reading(cfg)[f].celsius + KelvinOffset = cfg[f]
    BY <1>2, <1>4, <1>5 DEF KelvinOffset
<1>7. Reading(cfg)[f].enabled \in BOOLEAN
    BY <1>3, Zenon
<1>8. Reading(cfg)[f].enabled <=> cfg[f] # 0
    BY <1>3, Zenon
<1> QED
    BY <1>6, <1>7, <1>8

LEMMA GetKeeps == ASSUME IInv, NEW t \in Threads, Get(t) PROVE IInv'
<1> USE DEF IInv
<1>1. reading' = Reading(cfg) /\ UNCHANGED <<cfg, pc, cfgRead, values, asked>>
    BY DEF Get
<1>2. cfg \in [Fields -> Int]
    BY DEF Shape
<1>3. reading' \in [Fields -> [enabled : BOOLEAN, celsius : Int]]
    BY <1>1, <1>2 DEF Reading, Enabled, Celsius, KelvinOffset
<1>4. Shape'
    BY <1>1, <1>3 DEF Shape
<1>5. \A u \in Threads : Pending(u)'
    BY <1>1 DEF Pending
<1>6. ValuesWereAskedFor'
    BY <1>1 DEF ValuesWereAskedFor
<1>7. ASSUME NEW f \in Fields, reading'[f].enabled
      PROVE  reading'[f].celsius + KelvinOffset \in asked'[f] \ {0}
    <2>1. cfg[f] # 0 /\ reading'[f].celsius + KelvinOffset = cfg[f]
        BY <1>1, <1>2, <1>7, ReadingOfConfig
    <2>2. cfg[f] \in asked'[f]
        BY <1>1 DEF ValuesWereAskedFor
    <2> QED
        BY <2>1, <2>2
<1> QED
    BY <1>4, <1>5, <1>6, <1>7 DEF ReadingsAreReal

LEMMA GetFailsKeeps == ASSUME IInv, NEW t \in Threads, GetFails(t) PROVE IInv'
<1> USE DEF IInv
<1>1. reading' = NoReading /\ UNCHANGED <<cfg, pc, cfgRead, values, asked>>
    BY DEF GetFails
<1>2. Shape'
    BY <1>1 DEF Shape, NoReading
<1>3. \A u \in Threads : Pending(u)'
    BY <1>1 DEF Pending
<1>4. ValuesWereAskedFor'
    BY <1>1 DEF ValuesWereAskedFor
<1>5. ReadingsAreReal'
    BY <1>1 DEF ReadingsAreReal, NoReading
<1> QED
    BY <1>2, <1>3, <1>4, <1>5

LEMMA SetReadsKeeps == ASSUME IInv, NEW t \in Threads, SetReads(t) PROVE IInv'
<1> USE DEF IInv
<1>1. /\ pc[t] = "idle" /\ pc' = [pc EXCEPT ![t] = "write"]
      /\ cfgRead' = [cfgRead EXCEPT ![t] = cfg]
      /\ UNCHANGED <<cfg, reading>>
    BY DEF SetReads
<1>2. PICK v \in [Settable -> Requests] :
        /\ values' = [values EXCEPT ![t] = v]
        /\ asked' = [f \in Fields |-> asked[f] \cup
              IF f \in Settable /\ v[f] >= 0 THEN {Encoded(v[f])} ELSE {}]
    BY DEF SetReads, Encoded
<1>3. Requests \subseteq Int
    BY ThermalAssumption
<1>4. v \in [Settable -> Int]
    BY <1>3
<1>5. \A f \in Fields : asked[f] \subseteq asked'[f]
    BY <1>2
<1>6. \A f \in Settable : v[f] >= 0 => Encoded(v[f]) \in asked'[f]
    BY <1>2 DEF Fields
<1>7. \A i \in Int : Encoded(i) \in Int
    BY DEF Encoded, KelvinOffset
<1>8. asked' \in [Fields -> SUBSET Int]
    <2>1. \A f \in Fields : asked[f] \subseteq Int
        BY DEF Shape
    <2>2. \A f \in Settable : {Encoded(v[f])} \subseteq Int
        BY <1>4, <1>7
    <2> QED
        BY <1>2, <2>1, <2>2
<1>9. Shape'
    BY <1>1, <1>2, <1>4, <1>8 DEF Shape
<1>10. ASSUME NEW u \in Threads, pc'[u] = "write" PROVE Pending(u)'
    <2>1. CASE u = t
        <3>1. cfgRead'[u] = cfg /\ values'[u] = v
            BY <1>1, <1>2, <2>1 DEF Shape
        <3>2. \A f \in Fields : cfg[f] \in asked'[f]
            BY <1>5 DEF ValuesWereAskedFor
        <3> QED
            BY <1>1, <1>6, <3>1, <3>2 DEF Pending
    <2>2. CASE u # t
        <3>1. cfgRead'[u] = cfgRead[u] /\ values'[u] = values[u] /\ pc[u] = "write"
            BY <1>1, <1>2, <1>10, <2>2 DEF Shape
        <3>2. Settable \subseteq Fields
            BY DEF Fields
        <3> QED
            BY <1>1, <1>5, <3>1, <3>2 DEF Pending
    <2> QED
        BY <2>1, <2>2
<1>11. \A u \in Threads : Pending(u)'
    BY <1>10 DEF Pending
<1>12. ValuesWereAskedFor'
    BY <1>1, <1>5 DEF ValuesWereAskedFor
<1>13. ReadingsAreReal'
    BY <1>1, <1>5 DEF ReadingsAreReal
<1> QED
    BY <1>9, <1>11, <1>12, <1>13

\* What leaving a call does to the other threads: nothing.
LEMMA DoneKeeps ==
    ASSUME IInv, NEW t \in Threads, Done(t), UNCHANGED <<reading, asked>>,
           cfg' \in [Fields -> Int], \A f \in Releases : cfg'[f] = cfg[f]
    PROVE  Shape' /\ \A u \in Threads : Pending(u)'
<1> USE DEF IInv
<1>1. /\ pc' = [pc EXCEPT ![t] = "idle"]
      /\ cfgRead' = [cfgRead EXCEPT ![t] = NoConfig]
      /\ values' = [values EXCEPT ![t] = KeepAll]
    BY DEF Done
<1>2. NoConfig \in [Fields -> Int] /\ KeepAll \in [Settable -> Int]
    BY DEF NoConfig, KeepAll
<1>3. Shape'
    BY <1>1, <1>2 DEF Shape
<1>4. ASSUME NEW u \in Threads, pc'[u] = "write" PROVE Pending(u)'
    <2>1. u # t
        BY <1>1, <1>4 DEF Shape
    <2>2. cfgRead'[u] = cfgRead[u] /\ values'[u] = values[u] /\ pc[u] = "write"
        BY <1>1, <1>4, <2>1 DEF Shape
    <2> QED
        BY <2>2 DEF Pending
<1> QED
    BY <1>3, <1>4 DEF Pending

\* The release points that a set writes are those of the EC.
LEMMA WritesReleasesBack ==
    ASSUME IInv, NEW t \in Threads, SetWrites(t)
    PROVE  \A f \in Releases : cfg'[f] = cfg[f]
<1>1. ASSUME NEW f \in Releases PROVE cfg'[f] = cfg[f]
    <2>1. f \in Fields /\ f \notin Settable
        BY ThermalAssumption DEF Fields
    <2>2. cfg'[f] = cfgRead[t][f]
        BY <2>1 DEF SetWrites, NewConfig
    <2>3. cfgRead[t][f] = cfg[f]
        BY DEF IInv, Pending, SetWrites
    <2> QED
        BY <2>2, <2>3
<1> QED
    BY <1>1

LEMMA SetWritesKeeps == ASSUME IInv, NEW t \in Threads, SetWrites(t) PROVE IInv'
<1> USE DEF IInv
<1>1. pc[t] = "write" /\ cfg' = NewConfig(t) /\ Done(t) /\ UNCHANGED <<reading, asked>>
    BY DEF SetWrites
<1>2. Pending(t)
    OBVIOUS
<1>3. ASSUME NEW f \in Fields PROVE cfg'[f] \in asked[f]
    <2>1. CASE f \notin Settable
        BY <1>1, <1>2, <2>1 DEF NewConfig, Pending
    <2>2. CASE f \in Settable
        <3>1. cfg'[f] = Merged(cfgRead[t][f], values[t][f])
            BY <1>1, <2>2 DEF NewConfig
        <3>2. values[t][f] \in Int
            BY <2>2 DEF Shape
        <3>3. CASE values[t][f] < 0
            <4>1. cfg'[f] = cfgRead[t][f]
                BY <3>1, <3>3 DEF Merged
            <4> QED
                BY <1>1, <1>2, <4>1 DEF Pending
        <3>4. CASE ~(values[t][f] < 0)
            <4>1. cfg'[f] = Encoded(values[t][f])
                BY <3>1, <3>4 DEF Merged, Encoded
            <4>2. values[t][f] >= 0
                BY <3>2, <3>4
            <4> QED
                BY <1>1, <1>2, <2>2, <4>1, <4>2 DEF Pending
        <3> QED
            BY <3>3, <3>4
    <2> QED
        BY <2>1, <2>2
<1>4. cfg' \in [Fields -> Int]
    <2>1. \A f \in Fields : cfg'[f] \in Int
        BY <1>3 DEF Shape
    <2>2. cfg' = [f \in Fields |-> cfg'[f]]
        BY <1>1 DEF NewConfig
    <2> QED
        BY <2>1, <2>2
<1>5. Shape' /\ \A u \in Threads : Pending(u)'
    BY <1>1, <1>4, WritesReleasesBack, DoneKeeps
<1>6. ValuesWereAskedFor'
    BY <1>1, <1>3 DEF ValuesWereAskedFor
<1>7. ReadingsAreReal'
    BY <1>1 DEF ReadingsAreReal
<1> QED
    BY <1>5, <1>6, <1>7

LEMMA SetWriteFailsKeeps == ASSUME IInv, NEW t \in Threads, SetWriteFails(t) PROVE IInv'
<1> USE DEF IInv
<1>1. Done(t) /\ UNCHANGED <<cfg, reading, asked>>
    BY DEF SetWriteFails
<1>2. Shape' /\ \A u \in Threads : Pending(u)'
    BY <1>1, DoneKeeps DEF Shape
<1>3. ValuesWereAskedFor' /\ ReadingsAreReal'
    BY <1>1 DEF ValuesWereAskedFor, ReadingsAreReal
<1> QED
    BY <1>2, <1>3

LEMMA NextInvariant == IInv /\ [Next]_vars => IInv'
<1> SUFFICES ASSUME IInv, [Next]_vars PROVE IInv'
    OBVIOUS
<1>1. CASE UNCHANGED vars
    <2>1. UNCHANGED <<cfg, pc, cfgRead, values, reading, asked>>
        BY <1>1 DEF vars
    <2> QED
        BY <2>1 DEF IInv, Shape, Pending, ValuesWereAskedFor, ReadingsAreReal
<1>2. ASSUME NEW t \in Threads, Get(t) PROVE IInv'
    BY <1>2, GetKeeps
<1>3. ASSUME NEW t \in Threads, GetFails(t) PROVE IInv'
    BY <1>3, GetFailsKeeps
<1>4. ASSUME NEW t \in Threads, SetReads(t) PROVE IInv'
    BY <1>4, SetReadsKeeps
<1>5. ASSUME NEW t \in Threads, SetWrites(t) PROVE IInv'
    BY <1>5, SetWritesKeeps
<1>6. ASSUME NEW t \in Threads, SetWriteFails(t) PROVE IInv'
    BY <1>6, SetWriteFailsKeeps
<1> QED
    BY <1>1, <1>2, <1>3, <1>4, <1>5, <1>6 DEF Next

-----------------------------------------------------------------------------
(* The theorems *)

\* The inductive invariant.
LEMMA Invariance == Spec => []IInv
<1> QED
    BY InitInvariant, NextInvariant, PTL DEF Spec

\* Every threshold of the EC has a value it had at first or that a set asked for,
\* whatever calls race or fail half way (thermal.rs, set_thermal_thresholds).
THEOREM ThresholdsWereAskedFor == Spec => []ValuesWereAskedFor
<1>1. IInv => ValuesWereAskedFor
    BY DEF IInv
<1> QED
    BY <1>1, Invariance, PTL

\* A threshold reported as enabled was one, in degrees Celsius (thermal.rs,
\* get_thermal_thresholds).
THEOREM ReadingsTellTheTruth == Spec => []ReadingsAreReal
<1>1. IInv => ReadingsAreReal
    BY DEF IInv
<1> QED
    BY <1>1, Invariance, PTL

\* No call moves a release point (lib.rs, framework_ec_set_thermal_thresholds).
THEOREM ReleasePointsStay == Spec => ReleasesStay
<1>1. IInv /\ [Next]_vars => [\A f \in Releases : cfg'[f] = cfg[f]]_vars
    <2> SUFFICES ASSUME IInv, Next PROVE \A f \in Releases : cfg'[f] = cfg[f]
        OBVIOUS
    <2>1. ASSUME NEW t \in Threads, SetWrites(t)
          PROVE  \A f \in Releases : cfg'[f] = cfg[f]
        BY <2>1, WritesReleasesBack
    <2>2. ASSUME NEW t \in Threads,
                 Get(t) \/ GetFails(t) \/ SetReads(t) \/ SetWriteFails(t)
          PROVE  cfg' = cfg
        BY <2>2 DEF Get, GetFails, SetReads, SetWriteFails
    <2> QED
        BY <2>1, <2>2 DEF Next
<1> QED
    BY <1>1, Invariance, PTL DEF Spec, ReleasesStay
-----------------------------------------------------------------------------
(* The type invariant is inductive on its own *)

\* Keep, disable or set: what a request makes of a Kelvin value is one again.
LEMMA RequestsGiveKelvins ==
    ASSUME NEW v \in Requests
    PROVE  /\ v \in Int
           /\ v >= 0 => (IF v = 0 THEN 0 ELSE v + KelvinOffset) \in Kelvins
BY ThermalAssumption DEF Kelvins, KelvinValues

LEMMA MergedIsKelvin ==
    ASSUME NEW old \in Kelvins, NEW v \in Requests \cup {-1}
    PROVE  Merged(old, v) \in Kelvins
<1>1. CASE v < 0
    BY <1>1 DEF Merged
<1>2. CASE ~(v < 0)
    <2>1. v \in Requests
        BY <1>2
    <2>2. v >= 0
        BY <1>2, <2>1, RequestsGiveKelvins
    <2> QED
        BY <1>2, <2>1, <2>2, RequestsGiveKelvins DEF Merged
<1> QED
    BY <1>1, <1>2

LEMMA InitTypeOK == Init => TypeOK
<1> SUFFICES ASSUME Init PROVE TypeOK
    OBVIOUS
<1>1. Factory \subseteq Kelvins /\ 0 \in Kelvins
    BY DEF Kelvins, KelvinValues
<1>2. cfg \in [Fields -> Kelvins]
    BY <1>1 DEF Init
<1> QED
    BY <1>1, <1>2 DEF Init, TypeOK, NoConfig, KeepAll, NoReading

LEMMA DoneKeepsTypes ==
    ASSUME TypeOK, NEW t \in Threads, Done(t)
    PROVE  /\ pc' \in [Threads -> {"idle", "write"}]
           /\ cfgRead' \in [Threads -> [Fields -> Kelvins]]
           /\ values' \in [Threads -> [Settable -> Requests \cup {-1}]]
<1>1. NoConfig \in [Fields -> Kelvins] /\ KeepAll \in [Settable -> Requests \cup {-1}]
    BY DEF NoConfig, KeepAll, Kelvins
<1> QED
    BY <1>1 DEF Done, TypeOK

LEMMA NextTypeOK == TypeOK /\ [Next]_vars => TypeOK'
<1> SUFFICES ASSUME TypeOK, [Next]_vars PROVE TypeOK'
    OBVIOUS
<1> DEFINE Degrees == {0} \cup {k - KelvinOffset : k \in Kelvins}
<1>1. CASE UNCHANGED vars
    BY <1>1 DEF vars, TypeOK
<1>2. ASSUME NEW t \in Threads, Get(t) PROVE TypeOK'
    <2>1. reading' = Reading(cfg) /\ UNCHANGED <<cfg, pc, cfgRead, values, asked>>
        BY <1>2 DEF Get
    <2>2. ASSUME NEW f \in Fields
          PROVE  Reading(cfg)[f] \in [enabled : BOOLEAN, celsius : Degrees]
        <3>1. Reading(cfg)[f] = [enabled |-> cfg[f] # 0, celsius |-> cfg[f] - KelvinOffset]
            BY DEF Reading, Enabled, Celsius
        <3>2. cfg[f] - KelvinOffset \in Degrees /\ (cfg[f] # 0) \in BOOLEAN
            BY DEF TypeOK
        <3> HIDE DEF Degrees
        <3>3. \A e \in BOOLEAN, d \in Degrees :
                  [enabled |-> e, celsius |-> d] \in [enabled : BOOLEAN, celsius : Degrees]
            OBVIOUS
        <3> QED
            BY <3>1, <3>2, <3>3, Zenon
    <2>3. reading' \in [Fields -> [enabled : BOOLEAN, celsius : Degrees]]
        BY <2>1, <2>2 DEF Reading
    <2> QED
        BY <2>1, <2>3 DEF TypeOK
<1>3. ASSUME NEW t \in Threads, GetFails(t) PROVE TypeOK'
    BY <1>3 DEF GetFails, TypeOK, NoReading
<1>4. ASSUME NEW t \in Threads, SetReads(t) PROVE TypeOK'
    <2> PICK v \in [Settable -> Requests] :
            /\ values' = [values EXCEPT ![t] = v]
            /\ asked' = [f \in Fields |-> asked[f] \cup
                  IF f \in Settable /\ v[f] >= 0
                  THEN {IF v[f] = 0 THEN 0 ELSE v[f] + KelvinOffset} ELSE {}]
        BY <1>4 DEF SetReads
    <2>1. ASSUME NEW f \in Fields PROVE asked'[f] \subseteq Kelvins
        <3>1. asked[f] \subseteq Kelvins
            BY DEF TypeOK
        <3>2. CASE f \in Settable /\ v[f] >= 0
            <4>1. (IF v[f] = 0 THEN 0 ELSE v[f] + KelvinOffset) \in Kelvins
                BY <3>2, RequestsGiveKelvins
            <4>2. asked'[f] =
                      asked[f] \cup {IF v[f] = 0 THEN 0 ELSE v[f] + KelvinOffset}
                BY <3>2
            <4> QED
                BY <3>1, <4>1, <4>2, Zenon
        <3>3. CASE ~(f \in Settable /\ v[f] >= 0)
            BY <3>1, <3>3
        <3> QED
            BY <3>2, <3>3
    <2>2. asked' \in [Fields -> SUBSET Kelvins]
        BY <2>1
    <2>3. values' \in [Threads -> [Settable -> Requests \cup {-1}]]
        BY DEF TypeOK
    <2> QED
        BY <1>4, <2>2, <2>3 DEF SetReads, TypeOK
<1>5. ASSUME NEW t \in Threads, SetWrites(t) PROVE TypeOK'
    <2>1. cfg' = NewConfig(t) /\ Done(t) /\ UNCHANGED <<reading, asked>>
        BY <1>5 DEF SetWrites
    <2>2. ASSUME NEW f \in Fields PROVE cfg'[f] \in Kelvins
        <3>1. cfgRead[t][f] \in Kelvins
            BY DEF TypeOK
        <3>2. CASE f \in Settable
            <4>1. values[t][f] \in Requests \cup {-1}
                BY <3>2 DEF TypeOK
            <4> QED
                BY <2>1, <3>1, <3>2, <4>1, MergedIsKelvin DEF NewConfig
        <3>3. CASE f \notin Settable
            BY <2>1, <3>1, <3>3 DEF NewConfig
        <3> QED
            BY <3>2, <3>3
    <2>3. cfg' \in [Fields -> Kelvins]
        BY <2>1, <2>2 DEF NewConfig
    <2> QED
        BY <2>1, <2>3, DoneKeepsTypes DEF TypeOK
<1>6. ASSUME NEW t \in Threads, SetWriteFails(t) PROVE TypeOK'
    BY <1>6, DoneKeepsTypes DEF SetWriteFails, TypeOK
<1> QED
    BY <1>1, <1>2, <1>3, <1>4, <1>5, <1>6 DEF Next

\* In every reachable state each variable has its type: what the EC keeps is zero, a
\* value of the firmware, or degrees Celsius that a host asked for, in Kelvin
\* (thermal.rs, set_thermal_thresholds).
THEOREM ThermalTypeOK == Spec => []TypeOK
BY InitTypeOK, NextTypeOK, PTL DEF Spec
=============================================================================
