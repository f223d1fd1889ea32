----------------------------- MODULE EcControls -----------------------------
(***************************************************************************)
(* The entry points that send one command: fan control, the lights, charge *)
(* limits, modes, GPIOs, keyboard, chargers, the single readings of the EC *)
(* and the settings of touchscreen and touchpad (lib.rs over controls.rs,  *)
(* diagnostics.rs, thermal.rs, pd.rs and peripherals.rs).  An entry point  *)
(* checks handle and arguments, translates them into a command and sends   *)
(* it once.  The firmware may execute it or not, and either answer may get *)
(* lost on the way; the host's threads do all this at the same time.       *)
(***************************************************************************)
EXTENDS Integers

CONSTANTS Threads,   \* host threads
          Words,     \* values that pass through unchanged: speeds, currents, times
          FanCount,  \* fans of the machine
          MaxU8,     \* u8::MAX, 255 in the build
          PortCount, \* PD ports of the machine: 2 or 4, a graphics module adds one
          MinI32, MaxI32, \* bounds: the i32 values a host passes
          Percents,  \* bound: the u8 percentages a host passes
          Thresholds,\* bound: the states of charge a host passes
          GpioNames, \* GPIOs of the firmware
          Nothing    \* the reply of a write, the answer of a failed call

I32 == MinI32..MaxI32
U8 == 0..MaxU8

ASSUME ControlsAssumption ==
    /\ MaxU8 \in Nat \ {0} /\ FanCount \in 1..MaxU8
    /\ PortCount \in 0..(MaxU8 - 1)
    /\ MinI32 \in Int /\ MaxI32 \in Int /\ MinI32 < -1 /\ MaxU8 < MaxI32
    /\ Percents \subseteq Nat /\ Thresholds \subseteq Int
    /\ Words # {} /\ \E p \in Percents : p <= 100

VARIABLES area,  \* the settings this behaviour is about; areas share no register
          ec,    \* the machine: from each register of the area to its raw value
          calls  \* from each thread to its call

vars == <<area, ec, calls>>
-----------------------------------------------------------------------------
(* The machine *)

Fans == {<<"fan", i>> : i \in 0..(FanCount - 1)}

\* Readings that are one command and one register each.
Readings == {"privacy", "uptime", "intrusion", "switches", "protocol", "sysinfo",
             "charging", "light", "cutoff", "throttle", "fans", "gpios", "commands",
             "sensors", "battery"}

\* The registers of each area.
Registers ==
    [a \in {"fan", "led", "backlight", "charge", "mode", "gpio", "rgb", "key",
            "charger", "channel", "hid"} \cup Readings |->
        CASE a = "fan" -> Fans
          [] a = "charge" -> {<<"limits">>, <<"current">>, <<"rate">>}
          [] a = "mode" -> {<<"tablet">>, <<"deck">>, <<"delay">>, <<"s0ix">>}
          [] a = "gpio" -> {<<"gpio", g>> : g \in GpioNames}
          [] a = "rgb" -> {<<"rgb", k>> : k \in 0..1}
          [] a = "key" -> {<<"remapped">>, <<"caps">>, <<"ps2">>}
          [] a = "charger" -> {<<"charger", p>> : p \in 0..(PortCount - 1)}
          [] a = "channel" -> {<<"adc">>, <<"board">>}
          [] a = "hid" -> {<<"touch">>, <<"haptic">>, <<"click">>}
          [] OTHER -> {<<a>>}]

Names == UNION {Registers[a] : a \in DOMAIN Registers}

\* Registers the machine changes by itself.
Volatile == {<<a>> : a \in Readings} \cup Registers.charger \cup Registers.channel
                \cup {<<"s0ix">>}

\* The levels of the firmware, FpLedBrightnessLevel without Custom.
DeviceLevels == {"high", "medium", "low", "ultraLow", "auto"}

RawValues ==
    {<<"auto">>, <<"ctrl">>} \cup ({"rpm", "duty", "value"} \X Words)
        \cup ({"level"} \X DeviceLevels) \cup ({"custom", "percent"} \X Percents)
        \cup ({"limits"} \X Words \X Words) \cup ({"above"} \X Words \X Thresholds)

ASSUME NothingAssumption == Nothing \notin RawValues

\* What a register holds after a restart of the firmware.
Factory(n) ==
    IF n \in Fans THEN <<"auto">>
    ELSE IF n = <<"led">> THEN <<"level", "auto">>
    ELSE IF n = <<"backlight">> THEN <<"percent", CHOOSE p \in Percents : p <= 100>>
    ELSE <<"value", CHOOSE w \in Words : TRUE>>

Idle == [pc |-> "idle"]

Init ==
    /\ area \in DOMAIN Registers
    /\ ec = [n \in Registers[area] |-> Factory(n)]
    /\ calls = [t \in Threads |-> Idle]

\* A register that lives changes: a charger is moved, the system sleeps, a pin moves.
Drift ==
    /\ \E n \in Registers[area] \cap Volatile : \E w \in Words :
          ec' = [ec EXCEPT ![n] = <<"value", w>>]
    /\ UNCHANGED <<area, calls>>

Restart ==
    /\ ec' = [n \in Registers[area] |-> Factory(n)]
    /\ UNCHANGED <<area, calls>>
-----------------------------------------------------------------------------
(* A call: what the host demands of it, and the command the code makes of it *)

Demand(write, at, value) == [write |-> write, at |-> at, value |-> value, firm |-> TRUE]
Set(at, value) == Demand(TRUE, at, value)
Get(n) == Demand(FALSE, {n}, Nothing)

\* A command, and the status that a failure of it is turned into.
Write(at, raw) == [write |-> TRUE, at |-> at, value |-> raw, failure |-> "EcError"]
Read(n) == [write |-> FALSE, at |-> {n}, value |-> Nothing, failure |-> "EcError"]

Sent(demand, command) ==
    [pc |-> "sent", demand |-> demand, command |-> command, reply |-> Nothing]
Answered(reply, status) == [pc |-> "answered", reply |-> reply, status |-> status]

Begin(t, call) ==
    /\ calls[t] = Idle
    /\ calls' = [calls EXCEPT ![t] = call]
    /\ UNCHANGED <<area, ec>>

Send(t, demand, command) == Begin(t, Sent(demand, command))

\* require_handle comes first, then the check of the arguments, then the command.
WithHandle(t, demand, refusal, command) ==
    \/ Begin(t, Answered(Nothing, "NullPointer"))
    \/ refusal # "none" /\ Begin(t, Answered(Nothing, refusal))
    \/ refusal = "none" /\ Send(t, demand, command)

RefuseUnless(ok) == IF ok THEN "none" ELSE "InvalidArgument"
-----------------------------------------------------------------------------
(* Fan control *)

\* The fans that a host means by an index: -1 is all of them.
Meant(i) == IF i = -1 THEN Fans ELSE {<<"fan", i>>}

ParseOptionalFanIndex(i) ==
    IF i = -1 THEN Fans ELSE {<<"fan", j>> : j \in {i} \cap Nat}

\* Mutant: the index is cast to a byte instead of being converted.
ParseAsU8(i) == IF i = -1 THEN Fans ELSE {<<"fan", i % (MaxU8 + 1)>>}

\* The command for one fan carries a byte.
ParseOptionalFanIndexU8(i) ==
    IF i = -1 THEN Fans ELSE {<<"fan", j>> : j \in {i} \cap U8}

FanCommand(t, i, parsed, raw) ==
    WithHandle(t, Set(Meant(i), raw), RefuseUnless(parsed # {}), Write(parsed, raw))

SetFanRpm(t) ==
    /\ area = "fan"
    /\ \E i \in I32, w \in Words :
          FanCommand(t, i, ParseOptionalFanIndex(i), <<"rpm", w>>)

SetFanDuty(t) ==
    /\ area = "fan"
    /\ \E i \in I32, w \in Words :
          FanCommand(t, i, ParseOptionalFanIndex(i), <<"duty", w>>)

RestoreAutoFanControl(t) ==
    /\ area = "fan"
    /\ \E i \in I32 : FanCommand(t, i, ParseOptionalFanIndexU8(i), <<"auto">>)
-----------------------------------------------------------------------------
(* Lights *)

\* Mutant: no check, as for the fingerprint LED.
AnyPercent(p) == p \in Percents

\* The percentages that the keyboard backlight may be set to.
InPercent(p) == p <= 100

\* Upstream's setter returns nothing: whatever becomes of the command, the call
\* reports success.
SetKeyboardBacklight(t) ==
    /\ area = "backlight"
    /\ \E p \in Percents :
          WithHandle(t, [Set({<<"backlight">>}, <<"percent", p>>) EXCEPT !.firm = FALSE],
                     RefuseUnless(InPercent(p)),
                     [Write({<<"backlight">>}, <<"percent", p>>) EXCEPT !.failure = "Success"])

GetKeyboardBacklight(t) ==
    area = "backlight"
        /\ WithHandle(t, Get(<<"backlight">>), "none", Read(<<"backlight">>))

HostLevels == {"High", "Medium", "Low", "UltraLow", "Auto", "Custom", "Unknown"}

\* fp_led_brightness_level: Custom and Unknown cannot be set.
FpLedBrightnessLevel ==
    [High |-> "high", Medium |-> "medium", Low |-> "low", UltraLow |-> "ultraLow",
     Auto |-> "auto"]

FingerprintLedLevel ==
    [high |-> "High", medium |-> "Medium", low |-> "Low", ultraLow |-> "UltraLow",
     auto |-> "Auto"]

SetFingerprintLed(t) ==
    /\ area = "led"
    /\ \E level \in HostLevels :
          WithHandle(t, Set({<<"led">>}, <<"level", level>>),
                     RefuseUnless(level \in DOMAIN FpLedBrightnessLevel),
                     Write({<<"led">>}, <<"level", FpLedBrightnessLevel[level]>>))

SetFingerprintLedPercentage(t) ==
    /\ area = "led"
    /\ \E p \in Percents :
          WithHandle(t, Set({<<"led">>}, <<"custom", p>>), "none",
                     Write({<<"led">>}, <<"custom", p>>))

GetFingerprintLed(t) ==
    area = "led" /\ WithHandle(t, Get(<<"led">>), "none", Read(<<"led">>))

\* What the host is told of a reply.
Shown(raw) ==
    IF raw # Nothing /\ raw[1] = "level" THEN <<"level", FingerprintLedLevel[raw[2]]>> ELSE raw
-----------------------------------------------------------------------------
(* Charging *)

\* The firmware may refuse the pair; the code does not look at it.
SetChargeLimits(t) ==
    /\ area = "charge"
    /\ \E min, max \in Words :
          WithHandle(t, Set({<<"limits">>}, <<"limits", min, max>>), "none",
                     Write({<<"limits">>}, <<"limits", min, max>>))

GetChargeLimits(t) ==
    area = "charge" /\ WithHandle(t, Get(<<"limits">>), "none", Read(<<"limits">>))

\* A limit on the charger, above a state of charge or, below zero, always.
LimitCharger(t, register) ==
    /\ area = "charge"
    /\ \E w \in Words, soc \in Thresholds :
          LET raw == IF soc < 0 THEN <<"value", w>> ELSE <<"above", w, soc>> IN
             WithHandle(t, Set({register}, raw), "none", Write({register}, raw))

SetChargeCurrentLimit(t) == LimitCharger(t, <<"current">>)
SetChargeRateLimit(t) == LimitCharger(t, <<"rate">>)

\* Mutant: the sweep is as long as the number of the port.
SweepShort(p) == p

\* saturating_add(1): how many ports the sweep reads, of which the last is answered.
Sweep(p) == IF p = MaxU8 THEN MaxU8 ELSE p + 1

\* The host asks for port p.  The entries of the earlier ports are dropped, so only
\* the last read matters; of no entry at all pop makes an error.
GetPdPowerInfo(t) ==
    /\ area = "charger"
    /\ \E p \in U8 :
          WithHandle(t, Get(<<"charger", p>>), "none",
                     Read(<<"charger", Sweep(p) - 1>>))
-----------------------------------------------------------------------------
(* Modes and counters *)

SetValue(t, n) ==
    \E w \in Words : WithHandle(t, Set({n}, <<"value", w>>), "none",
                                Write({n}, <<"value", w>>))
GetValue(t, n) == WithHandle(t, Get(n), "none", Read(n))

SetTabletMode(t) == area = "mode" /\ SetValue(t, <<"tablet">>)
SetHibernateDelay(t) == area = "mode" /\ SetValue(t, <<"delay">>)
GetHibernateDelay(t) == area = "mode" /\ GetValue(t, <<"delay">>)
GetS0ixCounter(t) == area = "mode" /\ GetValue(t, <<"s0ix">>)

\* ReadOnly is sent like the other modes, and changes nothing.
SetInputDeckMode(t) ==
    /\ area = "mode"
    /\ \/ SetValue(t, <<"deck">>)
       \/ WithHandle(t, Set({}, Nothing), "none", Write({}, Nothing))

ResetS0ixCounter(t) ==
    /\ area = "mode"
    /\ WithHandle(t, Set({<<"s0ix">>}, Factory(<<"s0ix">>)), "none",
                  Write({<<"s0ix">>}, Factory(<<"s0ix">>)))
-----------------------------------------------------------------------------
(* GPIOs and keyboard *)

\* What a host may pass for a name: one the firmware has or has not, a null
\* pointer, a negative length, bytes that are not UTF-8.
PassedNames == GpioNames \cup {"other", "null", "negative", "garbled"}

BorrowUtf8(name) ==
    CASE name = "null" -> "NullPointer"
      [] name \in {"negative", "garbled"} -> "InvalidArgument"
      [] OTHER -> "none"

SetGpio(t) ==
    /\ area = "gpio"
    /\ \E name \in PassedNames, w \in Words :
          WithHandle(t, Set({<<"gpio", name>>}, <<"value", w>>), BorrowUtf8(name),
                     Write({<<"gpio", name>>}, <<"value", w>>))

GetGpio(t) ==
    /\ area = "gpio"
    /\ \E name \in PassedNames :
          WithHandle(t, Get(<<"gpio", name>>), BorrowUtf8(name), Read(<<"gpio", name>>))

\* Keys 0 and 1 exist.  A null pointer is refused, then a negative count.
SetRgbKeyboardColors(t) ==
    /\ area = "rgb"
    /\ \E start \in 0..1, count \in -1..2, w \in Words, null \in BOOLEAN :
          LET keys == {<<"rgb", k>> : k \in start..(start + count - 1)} IN
             WithHandle(t, Set(keys, <<"value", w>>),
                        IF null THEN "NullPointer" ELSE RefuseUnless(count >= 0),
                        Write(keys, <<"value", w>>))

RemapKey(t) == area = "key" /\ SetValue(t, <<"remapped">>)
Ps2EmulationEnable(t) == area = "key" /\ SetValue(t, <<"ps2">>)

RemapCapsToCtrl(t) ==
    area = "key" /\ WithHandle(t, Set({<<"caps">>}, <<"ctrl">>), "none",
                               Write({<<"caps">>}, <<"ctrl">>))
-----------------------------------------------------------------------------
(* Readings, and the devices that take no handle *)

AdcRead(t) == area = "channel" /\ GetValue(t, <<"adc">>)
ReadBoardId(t) == area = "channel" /\ GetValue(t, <<"board">>)
GetPrivacySwitches(t) == area = "privacy" /\ GetValue(t, <<area>>)
GetUptime(t) == area = "uptime" /\ GetValue(t, <<area>>)
GetChassisIntrusion(t) == area = "intrusion" /\ GetValue(t, <<area>>)
GetProtocolInfo(t) == area = "protocol" /\ GetValue(t, <<area>>)
GetSysinfo(t) == area = "sysinfo" /\ GetValue(t, <<area>>)
IsCharging(t) == area = "charging" /\ GetValue(t, <<area>>)
GetApThrottleStatus(t) == area = "throttle" /\ GetValue(t, <<area>>)
GetFanCount(t) == area = "fans" /\ GetValue(t, <<area>>)
GetGpioCount(t) == area = "gpios" /\ GetValue(t, <<area>>)
CommandVersionSupported(t) == area = "commands" /\ GetValue(t, <<area>>)

\* A memory map or an upstream helper that does not say why it failed.
GetUnexplained(t) ==
    WithHandle(t, Get(<<area>>), "none", [Read(<<area>>) EXCEPT !.failure = "DataUnavailable"])

GetSwitches(t) == area = "switches" /\ GetUnexplained(t)
GetAlsReading(t) == area = "light" /\ GetUnexplained(t)
GetBatteryCutoffStatus(t) == area = "cutoff" /\ GetUnexplained(t)

\* An EC that does not know the command (InvalidCommand) has no sensors: a failure
\* that is reported as a success with none.
GetSensorInfo(t) ==
    /\ area = "sensors"
    /\ \E failure \in {"Success", "EcError"} :
          WithHandle(t, [Get(<<area>>) EXCEPT !.firm = FALSE], "none",
                     [Read(<<area>>) EXCEPT !.failure = failure])

\* The key is looked at before the battery is challenged.
AuthenticateBattery(t) ==
    /\ area = "battery"
    /\ \E refusal \in {"none", "NullPointer"} :
          WithHandle(t, Get(<<area>>), refusal, Read(<<area>>))

SetDevice(t, n) ==
    /\ area = "hid"
    /\ \E w \in Words : Send(t, Set({n}, <<"value", w>>),
             [Write({n}, <<"value", w>>) EXCEPT !.failure = "DataUnavailable"])

TouchscreenEnable(t) == SetDevice(t, <<"touch">>)
TouchpadSetHapticIntensity(t) == SetDevice(t, <<"haptic">>)
TouchpadSetClickForce(t) == SetDevice(t, <<"click">>)
-----------------------------------------------------------------------------
(* A command on its way *)

Becomes(t, call) == calls' = [calls EXCEPT ![t] = call] /\ UNCHANGED area

\* The firmware does what the command says, to all registers it names at once; a
\* command that names one it has not is refused.
Execute(t) ==
    /\ calls[t].pc = "sent" /\ calls[t].command.at \subseteq DOMAIN ec
    /\ LET command == calls[t].command IN
          \/ /\ command.write
             /\ ec' = [n \in DOMAIN ec |-> IF n \in command.at THEN command.value ELSE ec[n]]
             /\ Becomes(t, [calls[t] EXCEPT !.pc = "executed"])
          \/ /\ ~command.write
             /\ \E n \in command.at :
                   Becomes(t, [calls[t] EXCEPT !.pc = "executed", !.reply = ec[n]])
             /\ UNCHANGED ec

\* Mutant: a command that failed is sent again.
Resend(call) == [call EXCEPT !.pc = "sent", !.reply = Nothing]

\* status_from_error: no command is repeated.
AfterFailure(call) == Answered(Nothing, call.command.failure)

\* Refused by the firmware, or lost before it: the driver reports an error.
NotExecuted(t) ==
    /\ calls[t].pc = "sent"
    /\ Becomes(t, AfterFailure(calls[t]))
    /\ UNCHANGED ec

Reply(t) ==
    /\ calls[t].pc = "executed"
    /\ Becomes(t, Answered(Shown(calls[t].reply), "Success"))
    /\ UNCHANGED ec

\* Executed, but the host hears of a failure.
ReplyLost(t) ==
    /\ calls[t].pc = "executed"
    /\ Becomes(t, AfterFailure(calls[t]))
    /\ UNCHANGED ec

Return(t) ==
    /\ calls[t].pc = "answered"
    /\ Becomes(t, Idle)
    /\ UNCHANGED ec
-----------------------------------------------------------------------------
Settings(t) ==
    \/ SetFanRpm(t) \/ SetFanDuty(t) \/ RestoreAutoFanControl(t)
    \/ SetKeyboardBacklight(t) \/ GetKeyboardBacklight(t)
    \/ SetFingerprintLed(t) \/ SetFingerprintLedPercentage(t) \/ GetFingerprintLed(t)
    \/ SetChargeLimits(t) \/ GetChargeLimits(t)
    \/ SetChargeCurrentLimit(t) \/ SetChargeRateLimit(t) \/ GetPdPowerInfo(t)
    \/ SetTabletMode(t) \/ SetInputDeckMode(t) \/ SetHibernateDelay(t)
    \/ GetHibernateDelay(t) \/ GetS0ixCounter(t) \/ ResetS0ixCounter(t)
    \/ SetGpio(t) \/ GetGpio(t) \/ SetRgbKeyboardColors(t)
    \/ RemapKey(t) \/ RemapCapsToCtrl(t) \/ Ps2EmulationEnable(t)
    \/ TouchscreenEnable(t) \/ TouchpadSetHapticIntensity(t) \/ TouchpadSetClickForce(t)

Measurements(t) ==
    \/ AdcRead(t) \/ ReadBoardId(t) \/ GetPrivacySwitches(t) \/ GetUptime(t)
    \/ GetChassisIntrusion(t) \/ GetProtocolInfo(t) \/ GetSysinfo(t)
    \/ IsCharging(t) \/ GetApThrottleStatus(t) \/ GetFanCount(t) \/ GetGpioCount(t)
    \/ CommandVersionSupported(t) \/ GetSwitches(t) \/ GetAlsReading(t)
    \/ GetBatteryCutoffStatus(t) \/ GetSensorInfo(t) \/ AuthenticateBattery(t)

Transport(t) == Execute(t) \/ NotExecuted(t)
Delivery(t) == Reply(t) \/ ReplyLost(t)

Next ==
    \/ \E t \in Threads : Settings(t) \/ Measurements(t)
                             \/ Transport(t) \/ Delivery(t) \/ Return(t)
    \/ Drift \/ Restart

\* The driver answers every command or reports an error, and a call returns.
Fairness ==
    \A t \in Threads :
        WF_vars(Transport(t)) /\ WF_vars(Delivery(t)) /\ WF_vars(Return(t))

Spec == Init /\ [][Next]_vars /\ Fairness
-----------------------------------------------------------------------------
(* Properties *)

\* What a host may name, whether the machine has it or not.
HostNames == Names \cup {<<"fan", i>> : i \in I32} \cup {<<"charger", p>> : p \in U8}
                 \cup {<<"gpio", name>> : name \in PassedNames} \cup {<<"rgb", 2>>}

HostValues == RawValues \cup ({"level"} \X HostLevels)

\* Registers, commands and calls have their types: whatever the threads ask for, no
\* register ever holds a value the firmware has no meaning for, such as a keyboard
\* backlight beyond 100 percent, a level that can only be read or a fan that is not there.
TypeOK ==
    /\ area \in DOMAIN Registers
    /\ ec \in [Registers[area] -> RawValues]
    /\ area = "backlight" => ec[<<"backlight">>][2] <= 100
    /\ \A t \in Threads :
          /\ calls[t].pc \in {"idle", "sent", "executed", "answered"}
          /\ calls[t].pc \in {"sent", "executed"} =>
                calls[t].command.value \in RawValues \cup {Nothing}

\* A call in the terms of the host.
HostCall(call) ==
    CASE call.pc = "idle" -> [stage |-> "idle"]
      [] call.pc = "sent" ->
            [stage |-> "open", demand |-> call.demand, seen |-> Nothing]
      [] call.pc = "executed" ->
            [stage |-> "done", demand |-> call.demand, seen |-> Shown(call.reply)]
      [] call.pc = "answered" ->
            [stage |-> "answered", seen |-> call.reply, status |-> call.status]

Requests == INSTANCE HostRequests
    WITH Names <- HostNames, Values <- HostValues,
         Defaults <- [n \in HostNames |-> Shown(Factory(n))],
         value <- [n \in DOMAIN ec |-> Shown(ec[n])],
         call <- [t \in Threads |-> HostCall(calls[t])]

\* The handlers with their conversions, widths and commands do what the host was
\* promised: exactly the registers it named get the value it gave, at one moment and
\* at most once even when the answer is lost, a refused call touches nothing, success
\* means it happened, and what is read is what the machine held at that moment.
ImplementsRequests == Requests!Spec

\* Every call returns, although commands and answers get lost and the firmware restarts.
EveryCallReturns ==
    \A t \in Threads : calls[t].pc # "idle" ~> calls[t].pc = "idle"
=============================================================================
