-------------------------- MODULE ComposedReadings --------------------------
(***************************************************************************)
(* The queries that compose one answer from several reads of the machine:  *)
(* the expansion bay and its GPU descriptor (inventory/query.rs,           *)
(* gpu_descriptor.rs), the scan for the charging port (lib.rs), the        *)
(* charger at one port (pd.rs), fans and temperatures (thermal.rs), the    *)
(* posture of lid and base (controls.rs), feature flags                    *)
(* (inventory/query.rs), the internal modules of the inventory             *)
(* (inventory/internals.rs), standalone mode (thermal.rs), the stylus of a *)
(* touchscreen that may not answer (peripherals.rs), and the choice of a   *)
(* driver when a session is opened (runtime.rs).                           *)
(*                                                                         *)
(* A read is one EC command, memory-map read, USB or HID enumeration.      *)
(* Between two reads the machine may change, and each read may fail: a     *)
(* failure ends the call or stands for a default, as the code has it.      *)
(* What the machine is like is a set of facts; a read shows the facts of   *)
(* its register that are true at that moment; an answer is a set of        *)
(* claims.                                                                 *)
(***************************************************************************)
EXTENDS Naturals, Sequences, FiniteSets

CONSTANTS MaxChanges, \* bound: changes of the machine during a call
          MaxFaults   \* bound: failed reads in a call

ASSUME ReadingsAssumption == MaxChanges \in Nat /\ MaxFaults \in Nat

VARIABLES query,   \* the entry point, or the part of the inventory
          facts,   \* machine: what is true now
          todo,    \* the reads still to be made, in order
          seen,    \* the facts that reads have shown
          done,    \* the reads that succeeded
          status,  \* "running", or the status of the answer
          claims,  \* the claims of the answer
          ever,    \* history: what was true at some moment of the call
          always,  \* history: what was true at every moment of the call
          changes, \* number of changes so far
          faults   \* number of failed reads so far

vars == <<query, facts, todo, seen, done, status, claims, ever, always,
          changes, faults>>
-----------------------------------------------------------------------------
(* The machine *)

\* What each read shows: the facts of the register or of the bus.  "board" is a
\* board the EC names, well connected or not; "card" a vendor code of a fan, an
\* SSD holder or a PCIe accessory, "gpu" one of a GPU; "activeN" a charger that
\* supplies the machine through port N, "offerN" one that offers to; "fpLed" a
\* fingerprint LED that answers; "crosDriver" the kernel's driver, or the one that
\* the host asked for; "ecMemory" a memory map that begins as that of an EC.
Shows == [
    info |-> {"board"}, pcie |-> {"card", "gpu"}, serial |-> {"serial"},
    gpuPort |-> {"gpuPortUsed"}, descriptor |-> {"programmed"},
    port0 |-> {"active0"}, port1 |-> {"active1"}, port2 |-> {"active2"},
    port3 |-> {"active3"}, port4 |-> {"active4"}, port5 |-> {"active5"},
    charger0 |-> {"offer0"}, charger1 |-> {"offer1"}, charger2 |-> {"offer2"},
    angle |-> {"lidOpen"}, base |-> {"baseTilted"}, lid |-> {"lidTilted"},
    pwmFan |-> {"pwmFan"}, thermal |-> {"thermal"},
    temps |-> {"sensor"}, fans |-> {"turning", "stalled"},
    keyboard |-> {"keyboard"}, backlight |-> {"backlight"},
    touchpad |-> {"touchpad"}, fingerprint |-> {"fingerprint"},
    light |-> {"motion"}, tablet |-> {"motion"},
    deck |-> {"deckModule", "deckTouchpad"}, usbModules |-> {"usbModule"},
    hidTouchpads |-> {"hidTouchpad"}, boardId |-> {"boardId"},
    led |-> {"fpLed"}, ledAgain |-> {"fpLed"},
    touchscreens |-> {"touchscreen"}, cameras |-> {"camera"},
    crosNode |-> {"crosNode"}, crosDriver |-> {"crosDriver"}, portio |-> {"portio"},
    magic |-> {"ecMemory"}, standalone |-> {"standalone"},
    standaloneMode |-> {"standaloneMode"}, stylus |-> {"stylus"}]

\* The things that change as one, one at a time: the user swaps a module, moves a
\* charger, switches the camera; a fan starts, stalls or stops.
Parts == {{"board", "card", "gpu", "serial", "gpuPortUsed", "programmed"},
          {"active0", "active1", "active2", "active3", "active4", "active5"},
          {"offer0", "offer1", "offer2"}, {"lidOpen", "baseTilted", "lidTilted"},
          {"turning", "stalled"}, {"sensor"}, {"camera"},
          {"deckModule", "usbModule"}, {"deckTouchpad", "hidTouchpad"},
          {"crosNode", "crosDriver"}, {"portio"}, {"ecMemory"},
          {"standalone", "standaloneMode"}, {"stylus"}}

\* What can be true together.  The EC may not know the board of a known vendor,
\* and a vendor code comes later than the board ("Initializing").
Consistent(world) ==
    /\ ~ {"card", "gpu"} \subseteq world
    /\ world \cap {"serial", "gpuPortUsed"} # {} => "gpu" \in world
    /\ "programmed" \in world => world \cap {"card", "gpu"} # {}
    /\ Cardinality(world \cap {"active0", "active1", "active2", "active3",
                               "active4", "active5"}) <= 1
    /\ ~ {"turning", "stalled"} \subseteq world
-----------------------------------------------------------------------------
(* The queries: their reads, in order *)

ExpansionBayStatus == <<"info", "pcie", "serial", "gpuPort">>

\* ensure_descriptor_present makes the whole query first.
GpuDescriptor == ExpansionBayStatus \o <<"descriptor">>

ActiveCharge == <<"port0", "port1", "port2", "port3", "port4", "port5">>

\* get_pd_info sweeps the ports up to the one asked for, here number 2.
PdPowerInfo == <<"charger0", "charger1", "charger2">>

\* Three reads of the memory map: the EC updates it in between.
AccelData == <<"angle", "base", "lid">>

FanCapabilities == <<"pwmFan", "thermal", "temps", "fans">>

ThermalSnapshot == <<"temps", "fans">>

\* Each flag reads the features anew; the last two look at the same bit.
FeatureFlags ==
    <<"keyboard", "backlight", "touchpad", "fingerprint", "light", "tablet">>

FixedModules == <<"fingerprint", "led", "ledAgain", "touchscreens", "cameras">>

\* detect_internal_modules on a Framework 16, and on the other laptops.
Framework16Modules == <<"deck", "usbModules", "hidTouchpads">> \o FixedModules
LaptopModules ==
    <<"keyboard", "hidTouchpads", "touchpad", "boardId">> \o FixedModules

\* The device node is looked for before the driver behind it is tried; another driver
\* is tried only without it; the magic is read last.
OpenDefault == <<"crosNode", "crosDriver", "portio", "magic">>
OpenWithDriver == <<"crosDriver", "magic">>

StandaloneMode == <<"standalone", "standaloneMode">>

\* The touchscreen says nothing when no stylus is paired, or fails.
StylusBattery == <<"stylus">>

Reads == [ExpansionBayStatus |-> ExpansionBayStatus,
          GpuDescriptorHeader |-> GpuDescriptor, GpuDescriptor |-> GpuDescriptor,
          ActiveCharge |-> ActiveCharge, PdPowerInfo |-> PdPowerInfo,
          AccelData |-> AccelData, FanCapabilities |-> FanCapabilities,
          ThermalSnapshot |-> ThermalSnapshot, FeatureFlags |-> FeatureFlags,
          Framework16Modules |-> Framework16Modules,
          LaptopModules |-> LaptopModules,
          OpenDefault |-> OpenDefault, OpenWithDriver |-> OpenWithDriver,
          StandaloneMode |-> StandaloneMode, StylusBattery |-> StylusBattery]
Queries == DOMAIN Reads

\* The status of a call that a failed read ends; the other failed reads stand for
\* a default and the call goes on.
Fatal(q, read) ==
    CASE q \in {"ThermalSnapshot", "AccelData"} -> "DataUnavailable"
      [] \/ read \in {"info", "pcie", "descriptor", "charger2", "pwmFan", "thermal",
                      "magic"}
         \/ q = "FeatureFlags" -> "EcError"
      [] OTHER -> "none"

\* The reads that are made only after something else was seen.
Asked(read) ==
    CASE read = "gpuPort" -> "gpu" \in seen
      [] read = "fans" -> "temps" \in done
      [] read = "led" -> "fingerprint" \notin seen
      [] read = "ledAgain" -> seen \cap {"fingerprint", "fpLed"} # {}
      [] query = "ActiveCharge" -> seen = {}
      [] query = "OpenDefault" /\ read = "crosDriver" -> "crosNode" \in seen
      [] read = "portio" -> "crosDriver" \notin seen
      [] OTHER -> TRUE
-----------------------------------------------------------------------------
(* The answers: each claim, and when the code makes it *)

\* Mutant: a bay is occupied only when board and vendor agree.
PresentByBoth == "board" \in seen /\ seen \cap {"card", "gpu"} # {}

\* present, of expansion_bay_status.
Present == "board" \in seen \/ seen \cap {"card", "gpu"} # {}

BayClaims == [present |-> Present, usbPort |-> "gpu" \in seen,
              usbPortUsed |-> "gpuPortUsed" \in seen, serial |-> "serial" \in seen]

HeaderClaims == [present |-> Present]

DescriptorClaims == [present |-> Present, descriptor |-> "programmed" \in seen]

ChargeClaims == [active0 |-> "active0" \in seen, active1 |-> "active1" \in seen,
                 active2 |-> "active2" \in seen, active3 |-> "active3" \in seen,
                 active4 |-> "active4" \in seen, active5 |-> "active5" \in seen]

\* pop() takes the last port of the sweep; the others do not matter.
ChargerClaims == [charger |-> "offer2" \in seen]

PostureClaims == [angle |-> "lidOpen" \in seen, base |-> "baseTilted" \in seen,
                  lid |-> "lidTilted" \in seen]

\* A stalled fan is a fan, and counts.
FanPresent == seen \cap {"turning", "stalled"} # {}

FanClaims == [control |-> "pwmFan" \in seen, reporting |-> "thermal" \in seen,
              fan |-> FanPresent]

ThermalClaims == [temperature |-> "sensor" \in seen, fan |-> FanPresent,
                  fanStalled |-> "stalled" \in seen]

FlagClaims == [keyboardFlag |-> "keyboard" \in seen,
               backlightFlag |-> "backlight" \in seen,
               touchpadFlag |-> "touchpad" \in seen,
               fingerprintFlag |-> "fingerprint" \in seen,
               lightFlag |-> "motion" \in seen, tabletFlag |-> "motion" \in seen]

FingerprintFound == seen \cap {"fingerprint", "fpLed"} # {}

\* The second reading of the LED decides on the confidence.
FixedClaims == [fingerprintReader |-> FingerprintFound,
                fingerprintDirect |-> FingerprintFound /\ "ledAgain" \in done
                                                       /\ "fpLed" \in seen,
                touchscreen |-> "touchscreen" \in seen, webcam |-> "camera" \in seen]

\* An observation over USB or HID replaces the descriptor made from the deck.
Framework16Claims ==
    [topRow |-> "deckModule" \in seen \/ "usbModule" \in seen,
     inputTouchpad |-> "deckTouchpad" \in seen \/ "hidTouchpad" \in seen]

LaptopClaims == [internalKeyboard |-> "keyboard" \in seen,
                 internalTouchpad |-> "touchpad" \in seen \/ "hidTouchpad" \in seen,
                 touchpadDirect |-> "hidTouchpad" \in seen]

\* The driver field of the handle tells which driver was taken.
SessionClaims == [opened |-> "ecMemory" \in seen, viaCros |-> "crosDriver" \in seen,
                  viaPortio |-> "portio" \in seen]

StandaloneClaims == [isStandalone |-> "standalone" \in seen,
                     standaloneMode |-> "standaloneMode" \in seen]

\* None, for whatever reason, is a success without a stylus.
StylusClaims == [stylusPaired |-> "stylus" \in seen]

Answers ==
    CASE query = "ExpansionBayStatus" -> {BayClaims}
      [] query = "GpuDescriptorHeader" -> {HeaderClaims}
      [] query = "GpuDescriptor" -> {DescriptorClaims}
      [] query = "ActiveCharge" -> {ChargeClaims}
      [] query = "PdPowerInfo" -> {ChargerClaims}
      [] query = "AccelData" -> {PostureClaims}
      [] query = "FanCapabilities" -> {FanClaims}
      [] query = "ThermalSnapshot" -> {ThermalClaims}
      [] query = "FeatureFlags" -> {FlagClaims}
      [] query = "Framework16Modules" -> {FixedClaims, Framework16Claims}
      [] query = "LaptopModules" -> {FixedClaims, LaptopClaims}
      [] query \in {"OpenDefault", "OpenWithDriver"} -> {SessionClaims}
      [] query = "StandaloneMode" -> {StandaloneClaims}
      [] query = "StylusBattery" -> {StylusClaims}

Topics == UNION {DOMAIN record : record \in Answers}
Claimed == UNION {{c \in DOMAIN record : record[c]} : record \in Answers}
-----------------------------------------------------------------------------
(* The steps of a call *)

Relevant(q) == UNION {Shows[Reads[q][i]] : i \in DOMAIN Reads[q]}
Worlds(q) == {world \in SUBSET Relevant(q) : Consistent(world)}

Init ==
    /\ query \in Queries /\ facts \in Worlds(query)
    /\ todo = Reads[query] /\ seen = {} /\ done = {}
    /\ status = "running" /\ claims = {}
    /\ ever = facts /\ always = facts
    /\ changes = 0 /\ faults = 0

Change ==
    /\ status = "running" /\ changes < MaxChanges
    /\ \E part \in Parts, world \in Worlds(query) :
          /\ world # facts /\ world \ part = facts \ part
          /\ facts' = world
          /\ ever' = ever \cup world /\ always' = always \cap world
    /\ changes' = changes + 1
    /\ UNCHANGED <<query, todo, seen, done, status, claims, faults>>

\* The status of a call that what it saw so far ends: the GPU descriptor is refused
\* when the bay looks empty, a session when no driver was found.
Refusal ==
    CASE Head(todo) = "descriptor" /\ ~Present -> "DataUnavailable"
      [] Head(todo) = "magic" /\ seen \cap {"crosDriver", "portio"} = {} -> "NoDriver"
      [] OTHER -> "none"
Refused == Refusal # "none"

ReadSucceeds ==
    /\ status = "running" /\ todo # << >> /\ Asked(Head(todo)) /\ ~Refused
    /\ seen' = seen \cup (Shows[Head(todo)] \cap facts)
    /\ done' = done \cup {Head(todo)}
    /\ todo' = Tail(todo)
    /\ UNCHANGED <<query, facts, status, claims, ever, always, changes, faults>>

\* Mutant: a check that cannot be made is taken for a yes.
DefaultYes(read) == Shows[read]

\* What a tolerated failure shows: a default PD state, unwrap_or(false), no
\* devices, no buffer.
Default(read) == {}

ToleratedFailure ==
    /\ status = "running" /\ todo # << >> /\ Asked(Head(todo)) /\ ~Refused
    /\ faults < MaxFaults /\ Fatal(query, Head(todo)) = "none"
    /\ seen' = seen \cup Default(Head(todo))
    /\ todo' = Tail(todo)
    /\ faults' = faults + 1
    /\ UNCHANGED <<query, facts, done, status, claims, ever, always, changes>>

Skip ==
    /\ status = "running" /\ todo # << >> /\ ~Asked(Head(todo))
    /\ todo' = Tail(todo)
    /\ UNCHANGED <<query, facts, seen, done, status, claims, ever, always,
                   changes, faults>>

\* Mutant: a failed call answers with what it has gathered so far.
SoFar == Claimed

\* The record that goes with a failing status: defaults only.
Nothing == {}

FatalFailure ==
    /\ status = "running" /\ todo # << >> /\ Asked(Head(todo)) /\ ~Refused
    /\ faults < MaxFaults /\ Fatal(query, Head(todo)) # "none"
    /\ status' = Fatal(query, Head(todo)) /\ claims' = Nothing
    /\ faults' = faults + 1
    /\ UNCHANGED <<query, facts, todo, seen, done, ever, always, changes>>

Refuse ==
    /\ status = "running" /\ todo # << >> /\ Refused
    /\ status' = Refusal /\ claims' = Nothing
    /\ UNCHANGED <<query, facts, todo, seen, done, ever, always, changes, faults>>

\* The raw descriptor is an error when it is empty, a wrong magic when it is read.
Return ==
    /\ status = "running" /\ todo = << >>
    /\ CASE query = "GpuDescriptor" /\ "programmed" \notin seen ->
                status' = "DataUnavailable" /\ claims' = Nothing
         [] query \in {"OpenDefault", "OpenWithDriver"} /\ "ecMemory" \notin seen ->
                status' = "EcError" /\ claims' = Nothing
         [] OTHER -> status' = "Success" /\ claims' = Claimed
    /\ UNCHANGED <<query, facts, todo, seen, done, ever, always, changes, faults>>

Next == \/ Change \/ ReadSucceeds \/ ToleratedFailure \/ FatalFailure
        \/ Skip \/ Refuse \/ Return

Spec == Init /\ [][Next]_vars
-----------------------------------------------------------------------------
(* Properties *)

\* Every variable keeps its type; only a successful call claims anything.
TypeOK ==
    /\ query \in Queries
    /\ {facts, seen, ever, always} \subseteq SUBSET Relevant(query)
    /\ todo \in Seq(DOMAIN Shows) /\ done \subseteq DOMAIN Shows
    /\ status \in {"running", "Success", "DataUnavailable", "EcError", "NoDriver"}
    /\ claims \subseteq Topics /\ (claims # {} => status = "Success")
    /\ changes \in 0..MaxChanges /\ faults \in 0..MaxFaults

\* What stands behind each claim, independently of how the code comes to it: the
\* reads, each with the fact that makes the claim true.
Evidence == [
    present |-> {<<"info", "board">>, <<"pcie", "card">>, <<"pcie", "gpu">>},
    usbPort |-> {<<"pcie", "gpu">>}, usbPortUsed |-> {<<"gpuPort", "gpuPortUsed">>},
    serial |-> {<<"serial", "serial">>},
    descriptor |-> {<<"descriptor", "programmed">>},
    active0 |-> {<<"port0", "active0">>}, active1 |-> {<<"port1", "active1">>},
    active2 |-> {<<"port2", "active2">>}, active3 |-> {<<"port3", "active3">>},
    active4 |-> {<<"port4", "active4">>}, active5 |-> {<<"port5", "active5">>},
    charger |-> {<<"charger2", "offer2">>}, angle |-> {<<"angle", "lidOpen">>},
    base |-> {<<"base", "baseTilted">>}, lid |-> {<<"lid", "lidTilted">>},
    control |-> {<<"pwmFan", "pwmFan">>}, reporting |-> {<<"thermal", "thermal">>},
    fan |-> {<<"fans", "turning">>, <<"fans", "stalled">>},
    fanStalled |-> {<<"fans", "stalled">>}, temperature |-> {<<"temps", "sensor">>},
    keyboardFlag |-> {<<"keyboard", "keyboard">>},
    backlightFlag |-> {<<"backlight", "backlight">>},
    touchpadFlag |-> {<<"touchpad", "touchpad">>},
    fingerprintFlag |-> {<<"fingerprint", "fingerprint">>},
    lightFlag |-> {<<"light", "motion">>}, tabletFlag |-> {<<"tablet", "motion">>},
    fingerprintReader |-> {<<"fingerprint", "fingerprint">>, <<"led", "fpLed">>},
    fingerprintDirect |-> {<<"ledAgain", "fpLed">>},
    touchscreen |-> {<<"touchscreens", "touchscreen">>},
    webcam |-> {<<"cameras", "camera">>},
    topRow |-> {<<"deck", "deckModule">>, <<"usbModules", "usbModule">>},
    inputTouchpad |->
        {<<"deck", "deckTouchpad">>, <<"hidTouchpads", "hidTouchpad">>},
    internalKeyboard |-> {<<"keyboard", "keyboard">>},
    internalTouchpad |->
        {<<"touchpad", "touchpad">>, <<"hidTouchpads", "hidTouchpad">>},
    touchpadDirect |-> {<<"hidTouchpads", "hidTouchpad">>},
    opened |-> {<<"magic", "ecMemory">>}, viaCros |-> {<<"crosDriver", "crosDriver">>},
    viaPortio |-> {<<"portio", "portio">>},
    isStandalone |-> {<<"standalone", "standalone">>},
    standaloneMode |-> {<<"standaloneMode", "standaloneMode">>},
    stylusPaired |-> {<<"stylus", "stylus">>}]

\* Nothing is reported that was never there: a claim was true at some moment of
\* the call, however the machine changed and whichever reads failed.
ClaimsWereTrue ==
    \A c \in claims : \E evidence \in Evidence[c] : evidence[2] \in ever

\* A read that worked, of something that was there all the time.
Undeniable(c) ==
    \E evidence \in Evidence[c] : evidence[1] \in done /\ evidence[2] \in always

\* Nothing is hidden: a successful call claims whatever one of its reads showed
\* and stayed true, even if other reads of the same thing failed or disagreed.
SilenceIsExplained ==
    status = "Success" => \A c \in Topics : Undeniable(c) => c \in claims

\* The drivers that the call may take, and what must be there for each.
Drivers ==
    IF query = "OpenDefault" THEN {{"crosNode", "crosDriver"}, {"portio"}}
    ELSE {{"crosDriver"}}

\* A GPU descriptor is refused for an empty bay only if no read of the bay that
\* worked could have shown a module that was there throughout the call; a session
\* is refused for want of a driver only if a check failed or no driver it may take
\* was there throughout: of a driver that appears or goes while the others are
\* tried, either answer is true.
RefusalIsExplained ==
    /\ status = "DataUnavailable" /\ "descriptor" \notin done
         /\ query \in {"GpuDescriptor", "GpuDescriptorHeader"} =>
             ~Undeniable("present")
    /\ status = "NoDriver" =>
          faults > 0 \/ \A driver \in Drivers : ~(driver \subseteq always)
=============================================================================
