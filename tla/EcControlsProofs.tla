-------------------------- MODULE EcControlsProofs --------------------------
(***************************************************************************)
(* For any number of threads, fans and GPIOs and any width of a byte: the  *)
(* entry points that send one command do what HostRequests promises.       *)
(***************************************************************************)
EXTENDS EcControls, TLAPS

-----------------------------------------------------------------------------
(* The inductive invariant *)

Refusals == {"NullPointer", "InvalidArgument"}
Failures == {"EcError", "DataUnavailable", "Success"}

Demands == [write : BOOLEAN, at : SUBSET HostNames, value : HostValues \cup {Nothing},
            firm : BOOLEAN]
Commands == [write : BOOLEAN, at : SUBSET HostNames, value : RawValues \cup {Nothing},
             failure : Failures]

SentCalls == [pc : {"sent"}, demand : Demands, command : Commands, reply : {Nothing}]
ExecutedCalls == [pc : {"executed"}, demand : Demands, command : Commands,
                  reply : RawValues \cup {Nothing}]
AnsweredCalls == [pc : {"answered"}, reply : HostValues \cup {Nothing},
                  status : Refusals \cup Failures]

\* The command does what was demanded: if the machine can execute it at all, it names
\* the same registers, what it writes reads as the value that was given, and a failure
\* that is reported as a success is one of a demand that is not firm.
Meets(demand, command) ==
    /\ demand \in Demands /\ command \in Commands
    /\ command.write = demand.write
    /\ command.at \subseteq Registers[area] => command.at = demand.at
    /\ Shown(command.value) = demand.value
    /\ command.failure = "Success" => ~demand.firm
    /\ command.write => command.at = {} \/ command.value \in RawValues
    /\ command.write /\ area = "backlight" => command.value[2] <= 100

RegistersTyped ==
    /\ area \in DOMAIN Registers
    /\ ec \in [Registers[area] -> RawValues]
    /\ area = "backlight" => ec[<<"backlight">>][2] <= 100

CallFits(call) ==
    \/ call = Idle
    \/ call \in SentCalls /\ Meets(call.demand, call.command)
    \/ call \in ExecutedCalls /\ Meets(call.demand, call.command)
    \/ call \in AnsweredCalls

CallsFit == DOMAIN calls = Threads /\ calls = [t \in Threads |-> calls[t]]
               /\ \A t \in Threads : CallFits(calls[t])

IInv == RegistersTyped /\ CallsFit
-----------------------------------------------------------------------------
(* Values and registers *)

\* Only the levels of the fingerprint LED have names of their own for the host.
LEMMA PlainValues ==
    /\ \A w \in Words, label \in {"rpm", "duty", "value"} :
          <<label, w>> \in RawValues /\ <<label, w>>[1] # "level"
    /\ \A p \in Percents, label \in {"custom", "percent"} :
          <<label, p>> \in RawValues /\ <<label, p>>[1] # "level" /\ <<label, p>>[2] = p
    /\ \A min, max \in Words :
          <<"limits", min, max>> \in RawValues /\ <<"limits", min, max>>[1] # "level"
    /\ \A w \in Words, soc \in Thresholds :
          <<"above", w, soc>> \in RawValues /\ <<"above", w, soc>>[1] # "level"
    /\ \A raw \in {<<"auto">>, <<"ctrl">>} : raw \in RawValues /\ raw[1] # "level"
BY DEF RawValues

LEMMA Levels ==
    /\ \A level \in DOMAIN FpLedBrightnessLevel :
          /\ level \in HostLevels /\ FpLedBrightnessLevel[level] \in DeviceLevels
          /\ FingerprintLedLevel[FpLedBrightnessLevel[level]] = level
    /\ \A level \in DeviceLevels : FingerprintLedLevel[level] \in HostLevels
<1>1. DOMAIN FpLedBrightnessLevel = {"High", "Medium", "Low", "UltraLow", "Auto"}
    BY DEF FpLedBrightnessLevel
<1>2. /\ FpLedBrightnessLevel["High"] = "high" /\ FpLedBrightnessLevel["Medium"] = "medium"
      /\ FpLedBrightnessLevel["Low"] = "low" /\ FpLedBrightnessLevel["Auto"] = "auto"
      /\ FpLedBrightnessLevel["UltraLow"] = "ultraLow"
    BY DEF FpLedBrightnessLevel
<1>3. /\ FingerprintLedLevel["high"] = "High" /\ FingerprintLedLevel["medium"] = "Medium"
      /\ FingerprintLedLevel["low"] = "Low" /\ FingerprintLedLevel["auto"] = "Auto"
      /\ FingerprintLedLevel["ultraLow"] = "UltraLow"
    BY DEF FingerprintLedLevel
<1> QED
    BY <1>1, <1>2, <1>3 DEF HostLevels, DeviceLevels

LEMMA LevelValues ==
    /\ \A level \in DeviceLevels :
          /\ <<"level", level>> \in RawValues
          /\ Shown(<<"level", level>>) = <<"level", FingerprintLedLevel[level]>>
    /\ \A level \in HostLevels : <<"level", level>> \in HostValues
<1>1. \A level \in DeviceLevels : <<"level", level>> \in RawValues
    BY DEF RawValues
<1>2. \A level : <<"level", level>>[1] = "level" /\ <<"level", level>>[2] = level
    OBVIOUS
<1>3. \A level \in DeviceLevels :
          Shown(<<"level", level>>) = <<"level", FingerprintLedLevel[level]>>
    BY <1>1, <1>2, NothingAssumption DEF Shown
<1>4. \A level \in HostLevels : <<"level", level>> \in HostValues
    BY DEF HostValues
<1> QED
    BY <1>1, <1>3, <1>4

LEMMA PlainShown ==
    /\ Shown(Nothing) = Nothing
    /\ \A raw : raw[1] # "level" => Shown(raw) = raw
BY DEF Shown

LEMMA ShownTyped ==
    ASSUME NEW raw \in RawValues PROVE Shown(raw) \in HostValues
<1>1. CASE raw[1] # "level"
    BY <1>1, PlainShown DEF HostValues
<1>2. CASE raw[1] = "level"
    <2>1. PICK level \in DeviceLevels : raw = <<"level", level>>
        BY <1>2 DEF RawValues
    <2> QED
        BY <2>1, Levels, LevelValues
<1> QED
    BY <1>1, <1>2

LEMMA AreasListed ==
    DOMAIN Registers = {"fan", "led", "backlight", "charge", "mode", "gpio", "rgb", "key",
                        "charger", "channel", "hid"} \cup Readings
BY DEF Registers

LEMMA RegistersAreNames ==
    \A a \in DOMAIN Registers : Registers[a] \subseteq Names /\ Names \subseteq HostNames
BY DEF Names, HostNames

LEMMA RegistersListed ==
    /\ Registers["fan"] = Fans
    /\ Registers["led"] = {<<"led">>} /\ Registers["backlight"] = {<<"backlight">>}
    /\ Registers["charge"] = {<<"limits">>, <<"current">>, <<"rate">>}
    /\ Registers["mode"] = {<<"tablet">>, <<"deck">>, <<"delay">>, <<"s0ix">>}
    /\ Registers["gpio"] = {<<"gpio", g>> : g \in GpioNames}
    /\ Registers["rgb"] = {<<"rgb", k>> : k \in 0..1}
    /\ Registers["key"] = {<<"remapped">>, <<"caps">>, <<"ps2">>}
    /\ Registers["charger"] = {<<"charger", p>> : p \in 0..(PortCount - 1)}
    /\ Registers["channel"] = {<<"adc">>, <<"board">>}
    /\ Registers["hid"] = {<<"touch">>, <<"haptic">>, <<"click">>}
    /\ \A a \in Readings : Registers[a] = {<<a>>}
BY DEF Registers, Readings

LEMMA FactoryTyped ==
    /\ \A n : Factory(n) \in RawValues
    /\ Factory(<<"backlight">>)[2] <= 100
    /\ Factory(<<"s0ix">>)[1] # "level"
<1> DEFINE p == CHOOSE p \in Percents : p <= 100
           w == CHOOSE w \in Words : TRUE
<1>1. p \in Percents /\ p <= 100 /\ w \in Words
    BY ControlsAssumption
<1>2. \A n : Factory(n) \in {<<"auto">>, <<"level", "auto">>, <<"percent", p>>, <<"value", w>>}
    BY DEF Factory
<1>3. <<"backlight">> \notin Fans /\ <<"s0ix">> \notin Fans
    BY DEF Fans
<1>4. <<"backlight">> # <<"led">> /\ <<"s0ix">> # <<"led">> /\ <<"s0ix">> # <<"backlight">>
    OBVIOUS
<1>5. Factory(<<"backlight">>) = <<"percent", p>> /\ Factory(<<"s0ix">>) = <<"value", w>>
    BY <1>3, <1>4 DEF Factory
<1> HIDE DEF p, w
<1>6. "auto" \in DeviceLevels
    BY DEF DeviceLevels
<1> QED
    BY <1>1, <1>2, <1>5, <1>6, PlainValues, LevelValues
-----------------------------------------------------------------------------
(* The entry points: each refuses, or sends a command that meets its demand *)

LEMMA WriteMeets ==
    ASSUME NEW at \in SUBSET HostNames, NEW raw \in RawValues, raw[1] # "level",
           area = "backlight" => raw[2] <= 100
    PROVE  Meets(Set(at, raw), Write(at, raw))
<1>1. Set(at, raw) \in Demands
    BY DEF Set, Demand, Demands, HostValues
<1>2. Write(at, raw) \in Commands
    BY DEF Write, Commands, Failures
<1>3. Shown(raw) = raw
    BY PlainShown
<1> QED
    BY <1>1, <1>2, <1>3 DEF Meets, Set, Demand, Write

LEMMA ReadMeets ==
    ASSUME NEW n \in HostNames PROVE Meets(Get(n), Read(n))
<1>1. Get(n) \in Demands
    BY DEF Get, Demand, Demands
<1>2. Read(n) \in Commands
    BY DEF Read, Commands, Failures
<1> QED
    BY <1>1, <1>2, PlainShown DEF Meets, Get, Demand, Read

LEMMA MeetsAnyway ==
    ASSUME NEW demand, NEW command, Meets(demand, command)
    PROVE  /\ \A failure \in {"EcError", "DataUnavailable"} :
                 Meets(demand, [command EXCEPT !.failure = failure])
           /\ \A failure \in Failures :
                 Meets([demand EXCEPT !.firm = FALSE],
                       [command EXCEPT !.failure = failure])
BY DEF Meets, Demands, Commands, Failures

Starts(t) ==
    \/ \E refusal \in Refusals : Begin(t, Answered(Nothing, refusal))
    \/ \E demand \in Demands, command \in Commands :
          Meets(demand, command) /\ Send(t, demand, command)

LEMMA SendStarts ==
    ASSUME NEW t, NEW demand, NEW command, Meets(demand, command), Send(t, demand, command)
    PROVE  Starts(t)
BY DEF Starts, Meets

LEMMA WithHandleStarts ==
    ASSUME NEW t, NEW demand, NEW command, NEW refusal \in Refusals \cup {"none"},
           refusal = "none" => Meets(demand, command),
           WithHandle(t, demand, refusal, command)
    PROVE  Starts(t)
BY SendStarts DEF WithHandle, Starts, Refusals

LEMMA FanCommandStarts ==
    ASSUME NEW t, NEW i \in I32, NEW parsed, NEW raw \in RawValues, raw[1] # "level",
           area = "fan",
           parsed = ParseOptionalFanIndex(i) \/ parsed = ParseOptionalFanIndexU8(i),
           FanCommand(t, i, parsed, raw)
    PROVE  Starts(t)
<1>1. Fans \subseteq HostNames /\ <<"fan", i>> \in HostNames
    BY RegistersListed, RegistersAreNames, AreasListed DEF HostNames
<1>2. parsed # {} => parsed = Meant(i)
    BY DEF ParseOptionalFanIndex, ParseOptionalFanIndexU8, Meant
<1>3. Meant(i) \in SUBSET HostNames
    BY <1>1 DEF Meant
<1>4. parsed # {} => Meets(Set(Meant(i), raw), Write(parsed, raw))
    BY <1>2, <1>3, WriteMeets
<1>5. /\ RefuseUnless(parsed # {}) \in Refusals \cup {"none"}
      /\ RefuseUnless(parsed # {}) = "none" => parsed # {}
    BY DEF RefuseUnless, Refusals
<1> QED
    BY <1>4, <1>5, WithHandleStarts DEF FanCommand

LEMMA FansStart ==
    ASSUME NEW t, SetFanRpm(t) \/ SetFanDuty(t) \/ RestoreAutoFanControl(t)
    PROVE  Starts(t)
<1>1. CASE SetFanRpm(t)
    <2>1. PICK i \in I32, w \in Words :
              FanCommand(t, i, ParseOptionalFanIndex(i), <<"rpm", w>>)
        BY <1>1 DEF SetFanRpm
    <2> QED
        BY <1>1, <2>1, PlainValues, FanCommandStarts DEF SetFanRpm
<1>2. CASE SetFanDuty(t)
    <2>1. PICK i \in I32, w \in Words :
              FanCommand(t, i, ParseOptionalFanIndex(i), <<"duty", w>>)
        BY <1>2 DEF SetFanDuty
    <2> QED
        BY <1>2, <2>1, PlainValues, FanCommandStarts DEF SetFanDuty
<1>3. CASE RestoreAutoFanControl(t)
    <2>1. PICK i \in I32 : FanCommand(t, i, ParseOptionalFanIndexU8(i), <<"auto">>)
        BY <1>3 DEF RestoreAutoFanControl
    <2> QED
        BY <1>3, <2>1, PlainValues, FanCommandStarts DEF RestoreAutoFanControl
<1> QED
    BY <1>1, <1>2, <1>3

\* The areas are told apart by their names.
LEMMA NamesListed ==
    /\ {<<"led">>, <<"backlight">>, <<"limits">>, <<"current">>, <<"rate">>, <<"tablet">>,
        <<"deck">>, <<"delay">>, <<"s0ix">>, <<"remapped">>, <<"caps">>, <<"ps2">>,
        <<"adc">>, <<"board">>, <<"touch">>, <<"haptic">>, <<"click">>}
          \subseteq HostNames
    /\ \A a \in Readings : <<a>> \in HostNames
    /\ \A p \in U8 : <<"charger", p>> \in HostNames
    /\ \A name \in PassedNames : <<"gpio", name>> \in HostNames
    /\ \A k \in 0..2 : <<"rgb", k>> \in HostNames
<1>1. \A a \in DOMAIN Registers : \A n \in Registers[a] : n \in HostNames
    BY RegistersAreNames
<1>2. /\ {<<"led">>, <<"backlight">>, <<"limits">>, <<"current">>, <<"rate">>,
          <<"tablet">>, <<"deck">>, <<"delay">>, <<"s0ix">>} \subseteq HostNames
    BY <1>1, RegistersListed, AreasListed
<1>3. /\ {<<"remapped">>, <<"caps">>, <<"ps2">>, <<"adc">>, <<"board">>, <<"touch">>,
          <<"haptic">>, <<"click">>} \subseteq HostNames
    BY <1>1, RegistersListed, AreasListed
<1>4. \A a \in Readings : <<a>> \in HostNames
    BY <1>1, RegistersListed, AreasListed
<1>5. \A p \in U8 : <<"charger", p>> \in HostNames
    BY DEF HostNames
<1>6. \A k \in 0..2 : <<"rgb", k>> \in HostNames
    <2>1. \A k \in 0..1 : <<"rgb", k>> \in HostNames
        BY <1>1, RegistersListed, AreasListed
    <2>2. <<"rgb", 2>> \in HostNames
        BY DEF HostNames
    <2> QED
        BY <2>1, <2>2
<1>7. \A name \in PassedNames : <<"gpio", name>> \in HostNames
    BY DEF HostNames
<1> QED
    BY <1>2, <1>3, <1>4, <1>5, <1>6, <1>7

LEMMA SetValueStarts ==
    ASSUME NEW t, NEW n \in HostNames, area # "backlight", SetValue(t, n) PROVE Starts(t)
<1>1. PICK w \in Words : WithHandle(t, Set({n}, <<"value", w>>), "none",
                                    Write({n}, <<"value", w>>))
    BY DEF SetValue
<1>2. Meets(Set({n}, <<"value", w>>), Write({n}, <<"value", w>>))
    BY PlainValues, WriteMeets
<1> QED
    BY <1>1, <1>2, WithHandleStarts

LEMMA GetValueStarts ==
    ASSUME NEW t, NEW n \in HostNames, GetValue(t, n) PROVE Starts(t)
BY ReadMeets, WithHandleStarts DEF GetValue

LEMMA GetUnexplainedStarts ==
    ASSUME NEW t, <<area>> \in HostNames, GetUnexplained(t) PROVE Starts(t)
<1>1. Meets(Get(<<area>>), [Read(<<area>>) EXCEPT !.failure = "DataUnavailable"])
    BY ReadMeets, MeetsAnyway
<1> QED
    BY <1>1, WithHandleStarts DEF GetUnexplained

LEMMA LightsStart ==
    ASSUME NEW t,
           \/ SetKeyboardBacklight(t) \/ GetKeyboardBacklight(t) \/ SetFingerprintLed(t)
           \/ SetFingerprintLedPercentage(t) \/ GetFingerprintLed(t)
    PROVE  Starts(t)
<1>1. CASE SetKeyboardBacklight(t)
    <2>1. PICK p \in Percents :
              WithHandle(t, [Set({<<"backlight">>}, <<"percent", p>>) EXCEPT !.firm = FALSE],
                         RefuseUnless(InPercent(p)),
                         [Write({<<"backlight">>}, <<"percent", p>>)
                             EXCEPT !.failure = "Success"])
        BY <1>1 DEF SetKeyboardBacklight
    <2>2. /\ RefuseUnless(InPercent(p)) \in Refusals \cup {"none"}
          /\ RefuseUnless(InPercent(p)) = "none" => p <= 100
        BY DEF RefuseUnless, Refusals, InPercent
    <2>3. <<"percent", p>> \in RawValues /\ <<"percent", p>>[1] # "level"
          /\ <<"percent", p>>[2] = p
        BY PlainValues
    <2>4. ASSUME p <= 100
          PROVE  Meets([Set({<<"backlight">>}, <<"percent", p>>) EXCEPT !.firm = FALSE],
                       [Write({<<"backlight">>}, <<"percent", p>>)
                           EXCEPT !.failure = "Success"])
        <3>1. Meets(Set({<<"backlight">>}, <<"percent", p>>),
                    Write({<<"backlight">>}, <<"percent", p>>))
            BY <2>3, <2>4, NamesListed, WriteMeets
        <3> QED
            BY <3>1, MeetsAnyway DEF Failures
    <2> QED
        BY <2>1, <2>2, <2>4, WithHandleStarts
<1>2. CASE GetKeyboardBacklight(t)
    BY <1>2, NamesListed, ReadMeets, WithHandleStarts DEF GetKeyboardBacklight
<1>3. CASE SetFingerprintLed(t)
    <2>1. PICK level \in HostLevels :
              WithHandle(t, Set({<<"led">>}, <<"level", level>>),
                         RefuseUnless(level \in DOMAIN FpLedBrightnessLevel),
                         Write({<<"led">>}, <<"level", FpLedBrightnessLevel[level]>>))
        BY <1>3 DEF SetFingerprintLed
    <2>2. /\ RefuseUnless(level \in DOMAIN FpLedBrightnessLevel) \in Refusals \cup {"none"}
          /\ RefuseUnless(level \in DOMAIN FpLedBrightnessLevel) = "none" =>
                level \in DOMAIN FpLedBrightnessLevel
        BY DEF RefuseUnless, Refusals
    <2>3. ASSUME level \in DOMAIN FpLedBrightnessLevel
          PROVE  Meets(Set({<<"led">>}, <<"level", level>>),
                       Write({<<"led">>}, <<"level", FpLedBrightnessLevel[level]>>))
        <3> DEFINE raw == <<"level", FpLedBrightnessLevel[level]>>
                   value == <<"level", level>>
        <3>1. raw \in RawValues /\ Shown(raw) = value /\ value \in HostValues
            BY <2>3, Levels, LevelValues
        <3> HIDE DEF raw, value
        <3>2. Set({<<"led">>}, value) \in Demands
            BY <3>1, NamesListed DEF Set, Demand, Demands
        <3>3. Write({<<"led">>}, raw) \in Commands
            BY <3>1, NamesListed DEF Write, Commands, Failures
        <3>4. area # "backlight"
            BY <1>3 DEF SetFingerprintLed
        <3>5. Meets(Set({<<"led">>}, value), Write({<<"led">>}, raw))
            BY <3>1, <3>2, <3>3, <3>4 DEF Meets, Set, Demand, Write
        <3> QED
            BY <3>5 DEF raw, value
    <2> QED
        BY <2>1, <2>2, <2>3, WithHandleStarts
<1>4. CASE SetFingerprintLedPercentage(t)
    <2>1. PICK p \in Percents :
              WithHandle(t, Set({<<"led">>}, <<"custom", p>>), "none",
                         Write({<<"led">>}, <<"custom", p>>))
        BY <1>4 DEF SetFingerprintLedPercentage
    <2>2. Meets(Set({<<"led">>}, <<"custom", p>>), Write({<<"led">>}, <<"custom", p>>))
        BY <1>4, PlainValues, NamesListed, WriteMeets DEF SetFingerprintLedPercentage
    <2> QED
        BY <2>1, <2>2, WithHandleStarts
<1>5. CASE GetFingerprintLed(t)
    BY <1>5, NamesListed, ReadMeets, WithHandleStarts DEF GetFingerprintLed
<1> QED
    BY <1>1, <1>2, <1>3, <1>4, <1>5

LEMMA LimitsStart ==
    ASSUME NEW t, NEW register \in {<<"current">>, <<"rate">>}, LimitCharger(t, register)
    PROVE  Starts(t)
<1>1. PICK w \in Words, soc \in Thresholds :
          LET raw == IF soc < 0 THEN <<"value", w>> ELSE <<"above", w, soc>> IN
             WithHandle(t, Set({register}, raw), "none", Write({register}, raw))
    BY DEF LimitCharger
<1> DEFINE raw == IF soc < 0 THEN <<"value", w>> ELSE <<"above", w, soc>>
<1>2. raw \in RawValues /\ raw[1] # "level"
    BY PlainValues
<1>3. WithHandle(t, Set({register}, raw), "none", Write({register}, raw))
    BY <1>1
<1>4. area # "backlight" /\ register \in HostNames
    BY NamesListed DEF LimitCharger
<1> HIDE DEF raw
<1>5. Meets(Set({register}, raw), Write({register}, raw))
    BY <1>2, <1>4, WriteMeets
<1> QED
    BY <1>3, <1>5, WithHandleStarts

\* The sweep over the ports ends with the one that was asked for, or with one that no
\* machine has.
LEMMA SweepEndsThere ==
    ASSUME NEW p \in U8
    PROVE  /\ Sweep(p) - 1 \in U8
           /\ Sweep(p) - 1 \in 0..(PortCount - 1) => Sweep(p) - 1 = p
BY ControlsAssumption DEF U8, Sweep

LEMMA ChargingStarts ==
    ASSUME NEW t,
           \/ SetChargeLimits(t) \/ GetChargeLimits(t) \/ SetChargeCurrentLimit(t)
           \/ SetChargeRateLimit(t) \/ GetPdPowerInfo(t)
    PROVE  Starts(t)
<1>1. CASE SetChargeLimits(t)
    <2>1. PICK min, max \in Words :
              WithHandle(t, Set({<<"limits">>}, <<"limits", min, max>>), "none",
                         Write({<<"limits">>}, <<"limits", min, max>>))
        BY <1>1 DEF SetChargeLimits
    <2> DEFINE raw == <<"limits", min, max>>
    <2>2. raw \in RawValues /\ raw[1] # "level"
        BY PlainValues
    <2> HIDE DEF raw
    <2>3. Meets(Set({<<"limits">>}, raw), Write({<<"limits">>}, raw))
        BY <1>1, <2>2, NamesListed, WriteMeets DEF SetChargeLimits
    <2> QED
        BY <2>1, <2>3, WithHandleStarts DEF raw
<1>2. CASE GetChargeLimits(t)
    BY <1>2, NamesListed, ReadMeets, WithHandleStarts DEF GetChargeLimits
<1>3. CASE SetChargeCurrentLimit(t) \/ SetChargeRateLimit(t)
    BY <1>3, LimitsStart DEF SetChargeCurrentLimit, SetChargeRateLimit
<1>4. CASE GetPdPowerInfo(t)
    <2>1. PICK p \in U8 : WithHandle(t, Get(<<"charger", p>>), "none",
                                     Read(<<"charger", Sweep(p) - 1>>))
        BY <1>4 DEF GetPdPowerInfo
    <2> DEFINE last == Sweep(p) - 1
    <2>2. last \in U8 /\ (last \in 0..(PortCount - 1) => last = p)
        BY SweepEndsThere
    <2> HIDE DEF last
    <2>3. <<"charger", p>> \in HostNames /\ <<"charger", last>> \in HostNames
        BY <2>2, NamesListed
    <2>4. ASSUME {<<"charger", last>>} \subseteq Registers[area] PROVE last = p
        <3>1. area = "charger" /\ <<"charger", last>> \in Registers["charger"]
            BY <1>4, <2>4 DEF GetPdPowerInfo
        <3>2. PICK q \in 0..(PortCount - 1) : <<"charger", last>> = <<"charger", q>>
            BY <3>1, RegistersListed
        <3>3. last = q
            BY <3>2
        <3> QED
            BY <2>2, <3>3
    <2>5. Get(<<"charger", p>>) \in Demands /\ Read(<<"charger", last>>) \in Commands
        BY <2>3 DEF Get, Demand, Demands, Read, Commands, Failures
    <2>6. Meets(Get(<<"charger", p>>), Read(<<"charger", last>>))
        BY <2>4, <2>5, PlainShown DEF Meets, Get, Demand, Read
    <2> QED
        BY <2>1, <2>6, WithHandleStarts DEF last
<1> QED
    BY <1>1, <1>2, <1>3, <1>4

LEMMA ModesStart ==
    ASSUME NEW t,
           \/ SetTabletMode(t) \/ SetInputDeckMode(t) \/ SetHibernateDelay(t)
           \/ GetHibernateDelay(t) \/ GetS0ixCounter(t) \/ ResetS0ixCounter(t)
    PROVE  Starts(t)
<1>1. CASE SetTabletMode(t)
    BY <1>1, NamesListed, SetValueStarts DEF SetTabletMode
<1>2. CASE SetInputDeckMode(t)
    <2>1. Meets(Set({}, Nothing), Write({}, Nothing))
        <3>1. Set({}, Nothing) \in Demands /\ Write({}, Nothing) \in Commands
            BY DEF Set, Demand, Demands, Write, Commands, Failures
        <3> QED
            BY <1>2, <3>1, PlainShown DEF Meets, Set, Demand, Write, SetInputDeckMode
    <2> QED
        BY <1>2, <2>1, NamesListed, SetValueStarts, WithHandleStarts DEF SetInputDeckMode
<1>3. CASE SetHibernateDelay(t)
    BY <1>3, NamesListed, SetValueStarts DEF SetHibernateDelay
<1>4. CASE GetHibernateDelay(t) \/ GetS0ixCounter(t)
    BY <1>4, NamesListed, GetValueStarts DEF GetHibernateDelay, GetS0ixCounter
<1>5. CASE ResetS0ixCounter(t)
    BY <1>5, NamesListed, FactoryTyped, WriteMeets, WithHandleStarts DEF ResetS0ixCounter
<1> QED
    BY <1>1, <1>2, <1>3, <1>4, <1>5

LEMMA GpiosStart ==
    ASSUME NEW t, SetGpio(t) \/ GetGpio(t) PROVE Starts(t)
<1>1. \A name \in PassedNames : BorrowUtf8(name) \in Refusals \cup {"none"}
    BY DEF BorrowUtf8, Refusals
<1>2. CASE SetGpio(t)
    <2>1. PICK name \in PassedNames, w \in Words :
              WithHandle(t, Set({<<"gpio", name>>}, <<"value", w>>), BorrowUtf8(name),
                         Write({<<"gpio", name>>}, <<"value", w>>))
        BY <1>2 DEF SetGpio
    <2>2. Meets(Set({<<"gpio", name>>}, <<"value", w>>),
                Write({<<"gpio", name>>}, <<"value", w>>))
        BY <1>2, PlainValues, NamesListed, WriteMeets DEF SetGpio
    <2> QED
        BY <1>1, <2>1, <2>2, WithHandleStarts
<1>3. CASE GetGpio(t)
    <2>1. PICK name \in PassedNames :
              WithHandle(t, Get(<<"gpio", name>>), BorrowUtf8(name),
                         Read(<<"gpio", name>>))
        BY <1>3 DEF GetGpio
    <2>2. Meets(Get(<<"gpio", name>>), Read(<<"gpio", name>>))
        BY NamesListed, ReadMeets
    <2> QED
        BY <1>1, <2>1, <2>2, WithHandleStarts
<1> QED
    BY <1>2, <1>3

LEMMA KeysStart ==
    ASSUME NEW t,
           \/ SetRgbKeyboardColors(t) \/ RemapKey(t) \/ RemapCapsToCtrl(t)
           \/ Ps2EmulationEnable(t)
    PROVE  Starts(t)
<1>1. CASE SetRgbKeyboardColors(t)
    <2>1. PICK start \in 0..1, count \in -1..2, w \in Words, null \in BOOLEAN :
              LET keys == {<<"rgb", k>> : k \in start..(start + count - 1)} IN
                 WithHandle(t, Set(keys, <<"value", w>>),
                            IF null THEN "NullPointer" ELSE RefuseUnless(count >= 0),
                            Write(keys, <<"value", w>>))
        BY <1>1 DEF SetRgbKeyboardColors
    <2> DEFINE keys == {<<"rgb", k>> : k \in start..(start + count - 1)}
               refusal == IF null THEN "NullPointer" ELSE RefuseUnless(count >= 0)
    <2>2. WithHandle(t, Set(keys, <<"value", w>>), refusal, Write(keys, <<"value", w>>))
        BY <2>1
    <2>3. refusal \in Refusals \cup {"none"}
        BY DEF RefuseUnless, Refusals
    <2>4. keys \in SUBSET HostNames
        <3>1. start..(start + count - 1) \subseteq 0..2
            OBVIOUS
        <3> QED
            BY <3>1, NamesListed
    <2> HIDE DEF keys, refusal
    <2>5. Meets(Set(keys, <<"value", w>>), Write(keys, <<"value", w>>))
        BY <1>1, <2>4, PlainValues, WriteMeets DEF SetRgbKeyboardColors
    <2> QED
        BY <2>2, <2>3, <2>5, WithHandleStarts
<1>2. CASE RemapKey(t) \/ Ps2EmulationEnable(t)
    BY <1>2, NamesListed, SetValueStarts DEF RemapKey, Ps2EmulationEnable
<1>3. CASE RemapCapsToCtrl(t)
    BY <1>3, PlainValues, NamesListed, WriteMeets, WithHandleStarts DEF RemapCapsToCtrl
<1> QED
    BY <1>1, <1>2, <1>3

LEMMA DevicesStart ==
    ASSUME NEW t,
           TouchscreenEnable(t) \/ TouchpadSetHapticIntensity(t) \/ TouchpadSetClickForce(t)
    PROVE  Starts(t)
<1>1. ASSUME NEW n \in {<<"touch">>, <<"haptic">>, <<"click">>}, SetDevice(t, n)
      PROVE  Starts(t)
    <2>1. PICK w \in Words : Send(t, Set({n}, <<"value", w>>),
              [Write({n}, <<"value", w>>) EXCEPT !.failure = "DataUnavailable"])
        BY <1>1 DEF SetDevice
    <2>2. Meets(Set({n}, <<"value", w>>), Write({n}, <<"value", w>>))
        BY <1>1, PlainValues, NamesListed, WriteMeets DEF SetDevice
    <2> QED
        BY <2>1, <2>2, MeetsAnyway, SendStarts
<1> QED
    BY <1>1 DEF TouchscreenEnable, TouchpadSetHapticIntensity, TouchpadSetClickForce

LEMMA MeasurementsStart ==
    ASSUME NEW t, Measurements(t) PROVE Starts(t)
<1>1. CASE AdcRead(t) \/ ReadBoardId(t)
    BY <1>1, NamesListed, GetValueStarts DEF AdcRead, ReadBoardId
<1>2. CASE \/ GetPrivacySwitches(t) \/ GetUptime(t) \/ GetChassisIntrusion(t)
           \/ GetProtocolInfo(t) \/ GetSysinfo(t) \/ IsCharging(t)
           \/ GetApThrottleStatus(t) \/ GetFanCount(t) \/ GetGpioCount(t)
           \/ CommandVersionSupported(t)
    <2>1. area \in Readings /\ GetValue(t, <<area>>)
        BY <1>2 DEF Readings, GetPrivacySwitches, GetUptime, GetChassisIntrusion,
                    GetProtocolInfo, GetSysinfo, IsCharging, GetApThrottleStatus,
                    GetFanCount, GetGpioCount, CommandVersionSupported
    <2> QED
        BY <2>1, NamesListed, GetValueStarts
<1>3. CASE GetSwitches(t) \/ GetAlsReading(t) \/ GetBatteryCutoffStatus(t)
    <2>1. area \in Readings /\ GetUnexplained(t)
        BY <1>3 DEF Readings, GetSwitches, GetAlsReading, GetBatteryCutoffStatus
    <2> QED
        BY <2>1, NamesListed, GetUnexplainedStarts
<1>4. CASE GetSensorInfo(t)
    <2>1. PICK failure \in {"Success", "EcError"} :
              WithHandle(t, [Get(<<area>>) EXCEPT !.firm = FALSE], "none",
                         [Read(<<area>>) EXCEPT !.failure = failure])
        BY <1>4 DEF GetSensorInfo
    <2>2. <<area>> \in HostNames /\ failure \in Failures
        BY <1>4, NamesListed DEF GetSensorInfo, Readings, Failures
    <2>3. Meets([Get(<<area>>) EXCEPT !.firm = FALSE],
                [Read(<<area>>) EXCEPT !.failure = failure])
        BY <2>2, ReadMeets, MeetsAnyway
    <2> QED
        BY <2>1, <2>3, WithHandleStarts
<1>5. CASE AuthenticateBattery(t)
    <2>1. PICK refusal \in {"none", "NullPointer"} :
              WithHandle(t, Get(<<area>>), refusal, Read(<<area>>))
        BY <1>5 DEF AuthenticateBattery
    <2>2. <<area>> \in HostNames
        BY <1>5, NamesListed DEF AuthenticateBattery, Readings
    <2> QED
        BY <2>1, <2>2, ReadMeets, WithHandleStarts DEF Refusals
<1> QED
    BY <1>1, <1>2, <1>3, <1>4, <1>5 DEF Measurements

LEMMA EntryPointsStart ==
    ASSUME NEW t, Settings(t) \/ Measurements(t) PROVE Starts(t)
<1>1. CASE Settings(t)
    BY <1>1, FansStart, LightsStart, ChargingStarts, ModesStart, GpiosStart, KeysStart,
       DevicesStart DEF Settings
<1> QED
    BY <1>1, MeasurementsStart
-----------------------------------------------------------------------------
(* The invariant *)

LEMMA CallKinds ==
    /\ Idle.pc = "idle"
    /\ \A call \in SentCalls : call.pc = "sent"
    /\ \A call \in ExecutedCalls : call.pc = "executed"
    /\ \A call \in AnsweredCalls : call.pc = "answered"
BY DEF Idle, SentCalls, ExecutedCalls, AnsweredCalls

LEMMA CallsKept ==
    ASSUME CallsFit, NEW t \in Threads, NEW call, CallFits(call), UNCHANGED area,
           calls' = [calls EXCEPT ![t] = call]
    PROVE  CallsFit'
<1>1. \A u \in Threads : calls'[u] = IF u = t THEN call ELSE calls[u]
    BY DEF CallsFit
<1>2. \A c : CallFits(c)' <=> CallFits(c)
    BY DEF CallFits, Meets
<1>3. \A u \in Threads : CallFits(calls'[u])
    BY <1>1 DEF CallsFit
<1> QED
    BY <1>2, <1>3 DEF CallsFit

LEMMA AnsweredFits ==
    /\ \A status \in Refusals \cup Failures : CallFits(Answered(Nothing, status))
    /\ \A raw \in RawValues \cup {Nothing} : CallFits(Answered(Shown(raw), "Success"))
<1>1. \A raw \in RawValues \cup {Nothing} : Shown(raw) \in HostValues \cup {Nothing}
    BY ShownTyped, PlainShown
<1> QED
    BY <1>1 DEF CallFits, Answered, AnsweredCalls, Failures

\* What a command on its way looks like.
LEMMA SentCall ==
    ASSUME CallsFit, NEW t \in Threads, calls[t].pc = "sent"
    PROVE  calls[t] \in SentCalls /\ Meets(calls[t].demand, calls[t].command)
BY CallKinds DEF CallsFit, CallFits

LEMMA ExecutedCall ==
    ASSUME CallsFit, NEW t \in Threads, calls[t].pc = "executed"
    PROVE  calls[t] \in ExecutedCalls /\ Meets(calls[t].demand, calls[t].command)
BY CallKinds DEF CallsFit, CallFits

LEMMA InitInv == Init => IInv
<1> SUFFICES ASSUME Init PROVE IInv
    OBVIOUS
<1>1. /\ area \in DOMAIN Registers /\ ec = [n \in Registers[area] |-> Factory(n)]
      /\ calls = [t \in Threads |-> Idle]
    BY DEF Init
<1>2. ec \in [Registers[area] -> RawValues]
    BY <1>1, FactoryTyped
<1>3. area = "backlight" => ec[<<"backlight">>][2] <= 100
    BY <1>1, FactoryTyped, RegistersListed
<1> QED
    BY <1>1, <1>2, <1>3 DEF IInv, RegistersTyped, CallsFit, CallFits

\* What the start of a call, and the answer to one, leave alone.
LEMMA RegistersKept ==
    ASSUME RegistersTyped, UNCHANGED <<area, ec>> PROVE RegistersTyped'
BY DEF RegistersTyped

LEMMA StartKeeps ==
    ASSUME IInv, NEW t \in Threads, Starts(t) PROVE IInv'
<1>1. CASE \E refusal \in Refusals : Begin(t, Answered(Nothing, refusal))
    BY <1>1, AnsweredFits, CallsKept, RegistersKept DEF Begin, IInv
<1>2. ASSUME NEW demand \in Demands, NEW command \in Commands, Meets(demand, command),
             Send(t, demand, command)
      PROVE  IInv'
    <2>1. Sent(demand, command) \in SentCalls
        BY DEF Sent, SentCalls
    <2>2. CallFits(Sent(demand, command))
        BY <1>2, <2>1 DEF CallFits, Sent
    <2> QED
        BY <1>2, <2>2, CallsKept, RegistersKept DEF Send, Begin, IInv
<1> QED
    BY <1>1, <1>2 DEF Starts

LEMMA ExecuteKeeps ==
    ASSUME IInv, NEW t \in Threads, Execute(t) PROVE IInv'
<1> DEFINE command == calls[t].command
<1>1. /\ calls[t] \in SentCalls /\ Meets(calls[t].demand, command)
      /\ command.at \subseteq DOMAIN ec /\ area' = area
    BY SentCall DEF Execute, Becomes, IInv
<1>2. CASE /\ command.write
           /\ ec' = [n \in DOMAIN ec |-> IF n \in command.at THEN command.value ELSE ec[n]]
           /\ Becomes(t, [calls[t] EXCEPT !.pc = "executed"])
    <2>1. [calls[t] EXCEPT !.pc = "executed"] \in ExecutedCalls
        BY <1>1 DEF SentCalls, ExecutedCalls
    <2>2. CallFits([calls[t] EXCEPT !.pc = "executed"])
        BY <1>1, <2>1 DEF CallFits, SentCalls
    <2>3. CallsFit'
        BY <1>2, <2>2, CallsKept DEF Becomes, IInv
    <2>4. /\ \A n \in command.at : command.value \in RawValues
          /\ area = "backlight" => command.value[2] <= 100
        BY <1>1, <1>2 DEF Meets
    <2>5. ec' \in [Registers[area] -> RawValues]
        BY <1>2, <2>4 DEF IInv, RegistersTyped
    <2>6. area = "backlight" => ec'[<<"backlight">>][2] <= 100
        BY <1>2, <2>4, RegistersListed DEF IInv, RegistersTyped
    <2> QED
        BY <1>1, <2>3, <2>5, <2>6 DEF IInv, RegistersTyped
<1>3. ASSUME NEW n \in command.at, UNCHANGED ec,
             Becomes(t, [calls[t] EXCEPT !.pc = "executed", !.reply = ec[n]])
      PROVE  IInv'
    <2> DEFINE call == [calls[t] EXCEPT !.pc = "executed", !.reply = ec[n]]
    <2>1. ec[n] \in RawValues
        BY <1>1 DEF IInv, RegistersTyped
    <2>2. call \in ExecutedCalls /\ call.demand = calls[t].demand /\ call.command = command
        BY <1>1, <2>1 DEF SentCalls, ExecutedCalls
    <2>3. calls' = [calls EXCEPT ![t] = call]
        BY <1>3 DEF Becomes
    <2> HIDE DEF call
    <2>4. CallFits(call)
        BY <1>1, <2>2 DEF CallFits
    <2>5. CallsFit'
        BY <1>1, <2>3, <2>4, CallsKept DEF IInv
    <2> QED
        BY <1>1, <1>3, <2>5, RegistersKept DEF IInv
<1> QED
    BY <1>2, <1>3 DEF Execute

LEMMA AnswerKeeps ==
    ASSUME IInv, NEW t \in Threads,
           NotExecuted(t) \/ Reply(t) \/ ReplyLost(t) \/ Return(t)
    PROVE  IInv'
<1>1. CASE NotExecuted(t)
    <2>1. calls[t].command.failure \in Failures
        BY <1>1, SentCall DEF NotExecuted, IInv, Meets, Commands
    <2>2. CallFits(AfterFailure(calls[t]))
        BY <2>1, AnsweredFits DEF AfterFailure
    <2> QED
        BY <1>1, <2>2, CallsKept, RegistersKept DEF NotExecuted, Becomes, IInv
<1>2. CASE Reply(t)
    <2>1. calls[t].reply \in RawValues \cup {Nothing}
        BY <1>2, ExecutedCall DEF Reply, IInv, ExecutedCalls
    <2>2. CallFits(Answered(Shown(calls[t].reply), "Success"))
        BY <2>1, AnsweredFits
    <2> QED
        BY <1>2, <2>2, CallsKept, RegistersKept DEF Reply, Becomes, IInv
<1>3. CASE ReplyLost(t)
    <2>1. calls[t].command.failure \in Failures
        BY <1>3, ExecutedCall DEF ReplyLost, IInv, Meets, Commands
    <2>2. CallFits(AfterFailure(calls[t]))
        BY <2>1, AnsweredFits DEF AfterFailure
    <2> QED
        BY <1>3, <2>2, CallsKept, RegistersKept DEF ReplyLost, Becomes, IInv
<1>4. CASE Return(t)
    <2>1. CallFits(Idle)
        BY DEF CallFits
    <2> QED
        BY <1>4, <2>1, CallsKept, RegistersKept DEF Return, Becomes, IInv
<1> QED
    BY <1>1, <1>2, <1>3, <1>4

LEMMA BacklightStays == <<"backlight">> \notin Volatile
<1>1. \A a \in Readings : a # "backlight"
    BY DEF Readings
<1>2. \A a \in Readings : <<"backlight">> # <<a>>
    BY <1>1
<1>3. \A p \in 0..(PortCount - 1) : <<"backlight">> # <<"charger", p>>
    OBVIOUS
<1>4. Registers.charger = {<<"charger", p>> : p \in 0..(PortCount - 1)}
    BY RegistersListed
<1>5. Registers.channel = {<<"adc">>, <<"board">>}
    BY RegistersListed
<1>6. <<"backlight">> \notin {<<"adc">>, <<"board">>, <<"s0ix">>}
    OBVIOUS
<1> QED
    BY <1>2, <1>3, <1>4, <1>5, <1>6 DEF Volatile

LEMMA MachineKeeps == IInv /\ (Drift \/ Restart) => IInv'
<1> SUFFICES ASSUME IInv, Drift \/ Restart PROVE IInv'
    OBVIOUS
<1>1. area' = area /\ calls' = calls
    BY DEF Drift, Restart
<1>2. CallsFit'
    <2>1. \A c : CallFits(c)' <=> CallFits(c)
        BY <1>1 DEF CallFits, Meets
    <2> QED
        BY <1>1, <2>1 DEF IInv, CallsFit
<1>3. CASE Drift
    <2>1. PICK n \in Registers[area] \cap Volatile, w \in Words :
              ec' = [ec EXCEPT ![n] = <<"value", w>>]
        BY <1>3 DEF Drift
    <2>2. <<"value", w>> \in RawValues /\ n # <<"backlight">>
        BY PlainValues, BacklightStays
    <2>3. ec' \in [Registers[area] -> RawValues]
        BY <2>1, <2>2 DEF IInv, RegistersTyped
    <2>4. area = "backlight" => ec'[<<"backlight">>][2] <= 100
        BY <2>1, <2>2, RegistersListed DEF IInv, RegistersTyped
    <2> QED
        BY <1>1, <1>2, <2>3, <2>4 DEF IInv, RegistersTyped
<1>4. CASE Restart
    <2>1. ec' = [n \in Registers[area] |-> Factory(n)]
        BY <1>4 DEF Restart
    <2>2. ec' \in [Registers[area] -> RawValues]
        BY <2>1, FactoryTyped
    <2>3. area = "backlight" => ec'[<<"backlight">>][2] <= 100
        BY <2>1, FactoryTyped, RegistersListed
    <2> QED
        BY <1>1, <1>2, <2>2, <2>3 DEF IInv, RegistersTyped
<1> QED
    BY <1>3, <1>4

LEMMA StepKeeps == IInv /\ [Next]_vars => IInv'
<1> SUFFICES ASSUME IInv, [Next]_vars PROVE IInv'
    OBVIOUS
<1>1. ASSUME NEW t \in Threads, Settings(t) \/ Measurements(t) PROVE IInv'
    BY <1>1, EntryPointsStart, StartKeeps
<1>2. ASSUME NEW t \in Threads, Transport(t) \/ Delivery(t) \/ Return(t) PROVE IInv'
    BY <1>2, ExecuteKeeps, AnswerKeeps DEF Transport, Delivery
<1>3. CASE UNCHANGED vars
    <2>1. \A c : CallFits(c)' <=> CallFits(c)
        BY <1>3 DEF CallFits, Meets, vars
    <2> QED
        BY <1>3, <2>1 DEF IInv, CallsFit, RegistersTyped, vars
<1> QED
    BY <1>1, <1>2, <1>3, MachineKeeps DEF Next

LEMMA InvHolds == Spec => []IInv
BY InitInv, StepKeeps, PTL DEF Spec

\* Types, whatever the threads ask for: no register ever holds a value the firmware
\* has no meaning for, such as a keyboard backlight beyond 100 percent, a level that
\* can only be read or a fan that is not there.
THEOREM ControlsTypeOK == Spec => []TypeOK
<1>1. IInv => TypeOK
    <2> SUFFICES ASSUME IInv, NEW t \in Threads
                 PROVE  /\ RegistersTyped
                        /\ calls[t].pc \in {"idle", "sent", "executed", "answered"}
                        /\ calls[t].pc \in {"sent", "executed"} =>
                              calls[t].command.value \in RawValues \cup {Nothing}
        BY DEF TypeOK, RegistersTyped, IInv
    <2>1. CallFits(calls[t])
        BY DEF IInv, CallsFit
    <2> QED
        BY <2>1, CallKinds DEF IInv, CallFits, Meets, Commands
<1> QED
    BY <1>1, InvHolds, PTL
-----------------------------------------------------------------------------
(* The refinement: the machine and the calls in the terms of the host *)

HostValue == [n \in DOMAIN ec |-> Shown(ec[n])]
HostCalls == [t \in Threads |-> HostCall(calls[t])]

LEMMA HostCallValues ==
    /\ HostCall(Idle) = [stage |-> "idle"]
    /\ \A call \in SentCalls :
          HostCall(call) = [stage |-> "open", demand |-> call.demand, seen |-> Nothing]
    /\ \A call \in ExecutedCalls :
          HostCall(call) =
             [stage |-> "done", demand |-> call.demand, seen |-> Shown(call.reply)]
    /\ \A reply, status :
          HostCall(Answered(reply, status)) =
             [stage |-> "answered", seen |-> reply, status |-> status]
BY DEF HostCall, Idle, SentCalls, ExecutedCalls, Answered

\* One call changes: the host sees exactly that call change.
LEMMA HostBecomes ==
    ASSUME CallsFit, NEW t \in Threads, NEW call, calls' = [calls EXCEPT ![t] = call]
    PROVE  HostCalls' = [HostCalls EXCEPT ![t] = HostCall(call)]
<1>1. \A u \in Threads : calls'[u] = IF u = t THEN call ELSE calls[u]
    BY DEF CallsFit
<1>2. \A u \in Threads : HostCall(calls'[u]) = IF u = t THEN HostCall(call)
                                                     ELSE HostCall(calls[u])
    BY <1>1
<1>3. HostCalls' = [u \in Threads |-> HostCall(calls'[u])]
    BY DEF HostCalls, HostCall
<1>4. \A u \in Threads : HostCalls[u] = HostCall(calls[u])
    BY DEF HostCalls
<1> QED
    BY <1>2, <1>3, <1>4 DEF HostCalls

LEMMA HostSame == UNCHANGED ec => HostValue' = HostValue
BY DEF HostValue

LEMMA HostSees == \A t \in Threads : HostCalls[t] = HostCall(calls[t])
BY DEF HostCalls

\* The values of the host's registers.
LEMMA HostRegisters ==
    ASSUME RegistersTyped
    PROVE  /\ DOMAIN HostValue = Registers[area] /\ DOMAIN ec = Registers[area]
           /\ Registers[area] \subseteq HostNames
           /\ \A n \in Registers[area] : HostValue[n] = Shown(ec[n])
<1>1. DOMAIN ec = Registers[area] /\ Registers[area] \subseteq HostNames
    BY RegistersAreNames DEF RegistersTyped
<1> QED
    BY <1>1 DEF HostValue

LEMMA InitImplements == Init => Requests!Init
<1> SUFFICES ASSUME Init PROVE Requests!Init
    OBVIOUS
<1>1. RegistersTyped /\ ec = [n \in Registers[area] |-> Factory(n)]
      /\ calls = [t \in Threads |-> Idle]
    BY InitInv DEF Init, IInv
<1>2. DOMAIN HostValue \subseteq HostNames
    BY <1>1, HostRegisters
<1>3. \A n \in DOMAIN HostValue : HostValue[n] = [m \in HostNames |-> Shown(Factory(m))][n]
    BY <1>1, <1>2, HostRegisters
<1>4. HostCalls = [t \in Threads |-> Requests!Idle]
    BY <1>1, HostCallValues DEF HostCalls, Requests!Idle
<1> QED
    BY <1>2, <1>3, <1>4 DEF Requests!Init, HostValue, HostCalls

\* A call starts: it is refused, or the host's demand is open.
LEMMA StartImplements ==
    ASSUME IInv, NEW t \in Threads, Starts(t)
    PROVE  Requests!Ask(t) \/ Requests!Refuse(t)
<1>1. calls[t] = Idle /\ UNCHANGED ec
    BY DEF Starts, Send, Begin
<1>2. HostCalls[t] = Requests!Idle /\ HostValue' = HostValue
    BY <1>1, HostSees, HostSame, HostCallValues DEF Requests!Idle
<1>3. ASSUME NEW refusal \in Refusals, Begin(t, Answered(Nothing, refusal))
      PROVE  Requests!Refuse(t)
    <2>1. HostCalls' =
             [HostCalls EXCEPT ![t] = HostCall(Answered(Nothing, refusal))]
        BY <1>3, HostBecomes DEF Begin, IInv
    <2>2. HostCalls' = [HostCalls EXCEPT ![t] = Requests!Answered(Nothing, refusal)]
        BY <2>1, HostCallValues DEF Requests!Answered
    <2>3. refusal \in Requests!Refusals
        BY DEF Requests!Refusals, Refusals
    <2> QED
        BY <1>2, <2>2, <2>3 DEF Requests!Refuse, Requests!Becomes, HostCalls, HostValue
<1>4. ASSUME NEW demand \in Demands, NEW command \in Commands, Send(t, demand, command)
      PROVE  Requests!Ask(t)
    <2> DEFINE open == [stage |-> "open", demand |-> demand, seen |-> Nothing]
    <2>1. Sent(demand, command) \in SentCalls /\ Sent(demand, command).demand = demand
        BY DEF Sent, SentCalls
    <2>2. HostCalls' = [HostCalls EXCEPT ![t] = HostCall(Sent(demand, command))]
        BY <1>4, HostBecomes DEF Send, Begin, IInv
    <2>3. HostCall(Sent(demand, command)) = open
        BY <2>1, HostCallValues
    <2>4. open \in Requests!Open
        BY DEF Requests!Open, Requests!Demand, Demands
    <2> HIDE DEF open
    <2>5. HostCalls'[t] = open
        BY <2>2, <2>3 DEF HostCalls
    <2>6. HostCalls'[t] \in Requests!Open
          /\ HostCalls' = [HostCalls EXCEPT ![t] = HostCalls'[t]]
        BY <2>2, <2>3, <2>4, <2>5
    <2> QED
        BY <1>2, <2>6 DEF Requests!Ask, Requests!Becomes, HostCalls, HostValue
<1> QED
    BY <1>3, <1>4 DEF Starts

\* The firmware executes the command: that is the moment of the demand.
LEMMA ExecuteImplements ==
    ASSUME IInv, NEW t \in Threads, Execute(t)
    PROVE  Requests!TakeEffect(t)
<1> DEFINE call == calls[t]
           demand == call.demand
           command == call.command
<1>1. /\ call \in SentCalls /\ Meets(demand, command)
      /\ command.at \subseteq DOMAIN ec
    BY SentCall DEF Execute, IInv
<1>2. /\ HostCalls[t] = [stage |-> "open", demand |-> demand, seen |-> Nothing]
      /\ call.reply = Nothing
    BY <1>1, HostSees, HostCallValues DEF SentCalls
<1>3. /\ command.at = demand.at /\ command.write = demand.write
      /\ Shown(command.value) = demand.value
    BY <1>1 DEF Meets, IInv, RegistersTyped
<1>4. /\ DOMAIN HostValue = DOMAIN ec /\ demand.at \subseteq DOMAIN HostValue
      /\ \A n \in DOMAIN ec : HostValue[n] = Shown(ec[n])
    BY <1>1, <1>3 DEF HostValue
<1>5. CASE /\ command.write
           /\ ec' = [n \in DOMAIN ec |-> IF n \in command.at THEN command.value ELSE ec[n]]
           /\ Becomes(t, [calls[t] EXCEPT !.pc = "executed"])
    <2> DEFINE next == [call EXCEPT !.pc = "executed"]
    <2>1. next \in ExecutedCalls /\ next.demand = demand /\ next.reply = Nothing
        BY <1>1, <1>2 DEF SentCalls, ExecutedCalls
    <2>2. calls' = [calls EXCEPT ![t] = next]
        BY <1>5 DEF Becomes
    <2> HIDE DEF next
    <2>3. HostCalls' = [HostCalls EXCEPT ![t] = HostCall(next)]
        BY <2>2, HostBecomes DEF IInv
    <2>4. HostCall(next) = [stage |-> "done", demand |-> demand, seen |-> Nothing]
        BY <2>1, HostCallValues, PlainShown
    <2>5. HostCalls' = [HostCalls EXCEPT ![t] = [HostCalls[t] EXCEPT !.stage = "done"]]
        <3>1. HostCall(next) = [HostCalls[t] EXCEPT !.stage = "done"]
            BY <1>2, <2>4
        <3> QED
            BY <2>3, <3>1
    <2>6. HostValue' = [n \in DOMAIN HostValue |->
                           IF n \in demand.at THEN demand.value ELSE HostValue[n]]
        <3>1. \A n \in DOMAIN ec :
                 Shown(ec'[n]) = IF n \in demand.at THEN demand.value ELSE HostValue[n]
            BY <1>3, <1>4, <1>5
        <3>2. DOMAIN ec' = DOMAIN ec
            BY <1>5
        <3>3. HostValue' = [n \in DOMAIN ec' |-> Shown(ec'[n])]
            BY DEF HostValue, Shown
        <3> QED
            BY <1>4, <3>1, <3>2, <3>3
    <2>7. HostCalls[t].stage = "open" /\ HostCalls[t].demand = demand /\ demand.write
        BY <1>2, <1>3, <1>5
    <2> HIDE DEF demand
    <2> QED
        BY <1>4, <2>5, <2>6, <2>7
        DEF Requests!TakeEffect, Requests!Becomes, HostCalls, HostValue
<1>6. ASSUME ~command.write, NEW n \in command.at, UNCHANGED ec,
             Becomes(t, [calls[t] EXCEPT !.pc = "executed", !.reply = ec[n]])
      PROVE  Requests!TakeEffect(t)
    <2> DEFINE next == [call EXCEPT !.pc = "executed", !.reply = ec[n]]
    <2>1. n \in DOMAIN ec /\ ec[n] \in RawValues
        BY <1>1 DEF IInv, RegistersTyped
    <2>2. next \in ExecutedCalls /\ next.demand = demand /\ next.reply = ec[n]
        BY <1>1, <2>1 DEF SentCalls, ExecutedCalls
    <2>3. calls' = [calls EXCEPT ![t] = next]
        BY <1>6 DEF Becomes
    <2> HIDE DEF next
    <2>4. HostCalls' = [HostCalls EXCEPT ![t] = HostCall(next)]
        BY <2>3, HostBecomes DEF IInv
    <2>5. HostCall(next) = [stage |-> "done", demand |-> demand, seen |-> HostValue[n]]
        BY <1>4, <2>1, <2>2, HostCallValues
    <2>6. HostCalls' =
             [HostCalls EXCEPT ![t] = [HostCalls[t] EXCEPT !.stage = "done",
                                                           !.seen = HostValue[n]]]
        <3> DEFINE done == [HostCalls[t] EXCEPT !.stage = "done"]
        <3>1. done = [stage |-> "done", demand |-> demand, seen |-> Nothing]
            BY <1>2
        <3> HIDE DEF done
        <3>2. HostCall(next) = [done EXCEPT !.seen = HostValue[n]]
            BY <2>5, <3>1
        <3>3. HostCalls' = [HostCalls EXCEPT ![t] = [done EXCEPT !.seen = HostValue[n]]]
            BY <2>4, <3>2
        <3> QED
            BY <3>3 DEF done
    <2>7. /\ HostCalls[t].stage = "open" /\ HostCalls[t].demand = demand
          /\ ~demand.write /\ n \in demand.at /\ HostValue' = HostValue
        BY <1>2, <1>3, <1>6, HostSame
    <2> HIDE DEF demand
    <2> QED
        BY <1>4, <2>6, <2>7
        DEF Requests!TakeEffect, Requests!Becomes, HostCalls, HostValue
<1> QED
    BY <1>5, <1>6 DEF Execute

\* A call is answered with a failure: one that is reported, or one that is hidden
\* and whose demand was not firm.
LEMMA FailureImplements ==
    ASSUME IInv, NEW t \in Threads, NotExecuted(t) \/ ReplyLost(t)
    PROVE  Requests!Fail(t) \/ Requests!Succeed(t)
<1> DEFINE demand == calls[t].demand
           failure == calls[t].command.failure
<1>1. /\ calls[t] \in SentCalls \cup ExecutedCalls
      /\ Meets(demand, calls[t].command)
      /\ calls' = [calls EXCEPT ![t] = AfterFailure(calls[t])] /\ UNCHANGED ec
    BY SentCall, ExecutedCall DEF NotExecuted, ReplyLost, Becomes, IInv
<1>2. HostCalls' = [HostCalls EXCEPT ![t] = HostCall(AfterFailure(calls[t]))]
    BY <1>1, HostBecomes DEF IInv
<1>3. HostCalls' = [HostCalls EXCEPT ![t] = Requests!Answered(Nothing, failure)]
    BY <1>2, HostCallValues DEF AfterFailure, Requests!Answered
<1>4. /\ HostCalls[t].stage \in {"open", "done"} /\ HostCalls[t].demand = demand
      /\ HostValue' = HostValue
    BY <1>1, HostSees, HostCallValues, HostSame
<1>5. failure \in Failures /\ (failure = "Success" => ~demand.firm)
    BY <1>1 DEF Meets, Commands
<1> HIDE DEF failure, demand
<1>6. CASE failure = "Success"
    <2>1. ~HostCalls[t].demand.firm
        BY <1>4, <1>5, <1>6
    <2>2. HostCalls' = [HostCalls EXCEPT ![t] = Requests!Answered(Nothing, "Success")]
        BY <1>3, <1>6
    <2>3. \E seen \in {HostCalls[t].seen, Nothing} :
             /\ seen # HostCalls[t].seen => ~HostCalls[t].demand.firm
             /\ HostCalls' = [HostCalls EXCEPT ![t] = Requests!Answered(seen, "Success")]
        BY <2>1, <2>2
    <2> QED
        BY <1>4, <2>1, <2>3 DEF Requests!Succeed, Requests!Becomes, HostCalls, HostValue
<1>7. CASE failure # "Success"
    <2>1. failure \in Requests!Failures
        BY <1>5, <1>7 DEF Failures, Requests!Failures
    <2> QED
        BY <1>3, <1>4, <2>1 DEF Requests!Fail, Requests!Becomes, HostCalls, HostValue
<1> QED
    BY <1>6, <1>7

LEMMA ReplyImplements ==
    ASSUME IInv, NEW t \in Threads, Reply(t) PROVE Requests!Succeed(t)
<1> DEFINE seen == Shown(calls[t].reply)
<1>1. calls[t] \in ExecutedCalls /\ UNCHANGED ec
      /\ calls' = [calls EXCEPT ![t] = Answered(seen, "Success")]
    BY ExecutedCall DEF Reply, Becomes, IInv
<1>2. HostCalls' = [HostCalls EXCEPT ![t] = HostCall(Answered(seen, "Success"))]
    BY <1>1, HostBecomes DEF IInv
<1>3. HostCalls[t].stage = "done" /\ HostCalls[t].seen = seen /\ HostValue' = HostValue
    BY <1>1, HostSees, HostCallValues, HostSame
<1> HIDE DEF seen
<1>4. HostCalls' = [HostCalls EXCEPT ![t] = Requests!Answered(HostCalls[t].seen, "Success")]
    BY <1>2, <1>3, HostCallValues DEF Requests!Answered
<1> QED
    BY <1>3, <1>4 DEF Requests!Succeed, Requests!Becomes, HostCalls, HostValue

LEMMA ReturnImplements ==
    ASSUME IInv, NEW t \in Threads, Return(t) PROVE Requests!Return(t)
<1>1. calls[t].pc = "answered" /\ UNCHANGED ec /\ calls' = [calls EXCEPT ![t] = Idle]
    BY DEF Return, Becomes
<1>2. HostCalls' = [HostCalls EXCEPT ![t] = Requests!Idle]
    <2>1. HostCalls' = [HostCalls EXCEPT ![t] = HostCall(Idle)]
        BY <1>1, HostBecomes DEF IInv
    <2>2. HostCall(Idle) = Requests!Idle
        BY HostCallValues DEF Requests!Idle
    <2> QED
        BY <2>1, <2>2
<1>3. HostCalls[t].stage = "answered" /\ HostValue' = HostValue
    <2>1. HostCall(calls[t]).stage = "answered"
        BY <1>1 DEF HostCall
    <2> QED
        BY <1>1, <2>1, HostSees, HostSame
<1> QED
    BY <1>2, <1>3 DEF Requests!Return, Requests!Becomes, HostCalls, HostValue

\* A register that lives changes, or the firmware restarts.
LEMMA MachineImplements ==
    /\ IInv /\ Drift => Requests!Drift
    /\ IInv /\ Restart => Requests!Restart
<1>1. ASSUME IInv, Drift PROVE Requests!Drift
    <2>1. PICK n \in Registers[area] \cap Volatile, w \in Words :
              ec' = [ec EXCEPT ![n] = <<"value", w>>]
        BY <1>1 DEF Drift
    <2> DEFINE raw == <<"value", w>>
    <2>2. raw \in RawValues /\ Shown(raw) = raw /\ raw \in HostValues
        BY PlainValues, PlainShown DEF HostValues
    <2>3. ec' = [ec EXCEPT ![n] = raw] /\ n \in DOMAIN HostValue /\ n \in Volatile
        BY <1>1, <2>1, HostRegisters DEF IInv
    <2> HIDE DEF raw
    <2>4. HostValue' = [m \in DOMAIN ec' |-> Shown(ec'[m])]
        BY DEF HostValue, Shown
    <2>5. HostValue' = [HostValue EXCEPT ![n] = raw]
        BY <2>2, <2>3, <2>4 DEF HostValue
    <2>6. HostValue'[n] = raw
        BY <2>3, <2>5
    <2>7. HostValue'[n] \in HostValues /\ HostValue' = [HostValue EXCEPT ![n] = HostValue'[n]]
        BY <2>2, <2>5, <2>6
    <2>8. HostCalls' = HostCalls
        BY <1>1 DEF Drift, HostCalls, HostCall
    <2> QED
        BY <2>3, <2>7, <2>8 DEF Requests!Drift, HostCalls, HostValue
<1>2. ASSUME IInv, Restart PROVE Requests!Restart
    <2>1. /\ ec' = [n \in Registers[area] |-> Factory(n)]
          /\ DOMAIN HostValue = Registers[area] /\ Registers[area] \subseteq HostNames
        BY <1>2, HostRegisters DEF Restart, IInv
    <2>2. HostValue' = [m \in DOMAIN ec' |-> Shown(ec'[m])]
        BY DEF HostValue, Shown
    <2>3. HostValue' = [n \in DOMAIN HostValue |->
                           [m \in HostNames |-> Shown(Factory(m))][n]]
        BY <2>1, <2>2
    <2>4. HostCalls' = HostCalls
        BY <1>2 DEF Restart, HostCalls, HostCall
    <2> QED
        BY <2>3, <2>4 DEF Requests!Restart, HostCalls, HostValue
<1> QED
    BY <1>1, <1>2

\* The handlers with their conversions, widths and commands do what the host was
\* promised: exactly the registers it named get the value it gave, at one moment and
\* at most once even when the answer is lost, a refused call touches nothing, success
\* means it happened, and what is read is what the machine held at that moment.
THEOREM ControlsImplementRequests == Spec => ImplementsRequests
<1>1. IInv /\ [Next]_vars => [Requests!Next]_(Requests!vars)
    <2> SUFFICES ASSUME IInv, [Next]_vars PROVE [Requests!Next]_(Requests!vars)
        OBVIOUS
    <2>1. ASSUME NEW t \in Threads, Settings(t) \/ Measurements(t)
          PROVE  Requests!Step(t)
        BY <2>1, EntryPointsStart, StartImplements DEF Requests!Step
    <2>2. ASSUME NEW t \in Threads, Transport(t) \/ Delivery(t) \/ Return(t)
          PROVE  Requests!Step(t)
        BY <2>2, ExecuteImplements, FailureImplements, ReplyImplements, ReturnImplements
        DEF Transport, Delivery, Requests!Step
    <2>3. CASE UNCHANGED vars
        BY <2>3 DEF vars, Requests!vars, HostCall, Shown
    <2> QED
        BY <2>1, <2>2, <2>3, MachineImplements DEF Next, Requests!Next
<1> QED
    BY <1>1, InitImplements, InvHolds, PTL DEF Spec, ImplementsRequests, Requests!Spec
=============================================================================
