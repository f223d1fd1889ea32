----------------------- MODULE ComposedReadingsProofs -----------------------
(***************************************************************************)
(* For any number of changes of the machine and of failed reads: what an   *)
(* answer that is composed of several reads claims, leaves out or refuses. *)
(***************************************************************************)
EXTENDS ComposedReadings, SequenceTheorems, TLAPS

-----------------------------------------------------------------------------
(* Claims and evidence *)

\* The claim is made when some evidence for it was seen, only then, and what a read
\* is said to give evidence of is what it shows.
Backed(record, c) ==
    /\ record[c] => \E evidence \in Evidence[c] : evidence[2] \in seen
    /\ \A evidence \in Evidence[c] :
          /\ evidence[1] \in DOMAIN Shows /\ evidence[2] \in Shows[evidence[1]]
          /\ evidence[1] \in done /\ evidence[2] \in seen => record[c]

Supported(record) == \A c \in DOMAIN record : Backed(record, c)

LEMMA BayClaimsSupported == Supported(BayClaims)
<1>1. DOMAIN BayClaims = {"present", "usbPort", "usbPortUsed", "serial"}
    BY DEF BayClaims
<1>2. /\ BayClaims["present"] <=> Present
      /\ BayClaims["usbPort"] <=> "gpu" \in seen
      /\ BayClaims["usbPortUsed"] <=> "gpuPortUsed" \in seen
      /\ BayClaims["serial"] <=> "serial" \in seen
    BY DEF BayClaims
<1>3. /\ Evidence["present"] = {<<"info", "board">>, <<"pcie", "card">>, <<"pcie", "gpu">>}
      /\ Evidence["usbPort"] = {<<"pcie", "gpu">>}
      /\ Evidence["usbPortUsed"] = {<<"gpuPort", "gpuPortUsed">>}
      /\ Evidence["serial"] = {<<"serial", "serial">>}
    BY DEF Evidence
<1>4. /\ "info" \in DOMAIN Shows /\ Shows["info"] = {"board"}
      /\ "pcie" \in DOMAIN Shows /\ Shows["pcie"] = {"card", "gpu"}
      /\ "gpuPort" \in DOMAIN Shows /\ Shows["gpuPort"] = {"gpuPortUsed"}
      /\ "serial" \in DOMAIN Shows /\ Shows["serial"] = {"serial"}
    BY DEF Shows
<1>5. Backed(BayClaims, "present")
    BY <1>2, <1>3, <1>4 DEF Backed, Present
<1>6. Backed(BayClaims, "usbPort")
    BY <1>2, <1>3, <1>4 DEF Backed
<1>7. Backed(BayClaims, "usbPortUsed")
    BY <1>2, <1>3, <1>4 DEF Backed
<1>8. Backed(BayClaims, "serial")
    BY <1>2, <1>3, <1>4 DEF Backed
<1> QED
    BY <1>1, <1>5, <1>6, <1>7, <1>8 DEF Supported

LEMMA HeaderClaimsSupported == Supported(HeaderClaims)
<1>1. DOMAIN HeaderClaims = {"present"}
    BY DEF HeaderClaims
<1>2. /\ HeaderClaims["present"] <=> Present
    BY DEF HeaderClaims
<1>3. /\ Evidence["present"] = {<<"info", "board">>, <<"pcie", "card">>, <<"pcie", "gpu">>}
    BY DEF Evidence
<1>4. /\ "info" \in DOMAIN Shows /\ Shows["info"] = {"board"}
      /\ "pcie" \in DOMAIN Shows /\ Shows["pcie"] = {"card", "gpu"}
    BY DEF Shows
<1>5. Backed(HeaderClaims, "present")
    BY <1>2, <1>3, <1>4 DEF Backed, Present
<1> QED
    BY <1>1, <1>5 DEF Supported

LEMMA DescriptorClaimsSupported == Supported(DescriptorClaims)
<1>1. DOMAIN DescriptorClaims = {"present", "descriptor"}
    BY DEF DescriptorClaims
<1>2. /\ DescriptorClaims["present"] <=> Present
      /\ DescriptorClaims["descriptor"] <=> "programmed" \in seen
    BY DEF DescriptorClaims
<1>3. /\ Evidence["present"] = {<<"info", "board">>, <<"pcie", "card">>, <<"pcie", "gpu">>}
      /\ Evidence["descriptor"] = {<<"descriptor", "programmed">>}
    BY DEF Evidence
<1>4. /\ "info" \in DOMAIN Shows /\ Shows["info"] = {"board"}
      /\ "pcie" \in DOMAIN Shows /\ Shows["pcie"] = {"card", "gpu"}
      /\ "descriptor" \in DOMAIN Shows /\ Shows["descriptor"] = {"programmed"}
    BY DEF Shows
<1>5. Backed(DescriptorClaims, "present")
    BY <1>2, <1>3, <1>4 DEF Backed, Present
<1>6. Backed(DescriptorClaims, "descriptor")
    BY <1>2, <1>3, <1>4 DEF Backed
<1> QED
    BY <1>1, <1>5, <1>6 DEF Supported

LEMMA ChargeClaimsSupported == Supported(ChargeClaims)
<1>1. DOMAIN ChargeClaims = {"active0", "active1", "active2", "active3", "active4",
                             "active5"}
    BY DEF ChargeClaims
<1>2. /\ ChargeClaims["active0"] <=> "active0" \in seen
      /\ ChargeClaims["active1"] <=> "active1" \in seen
      /\ ChargeClaims["active2"] <=> "active2" \in seen
      /\ ChargeClaims["active3"] <=> "active3" \in seen
      /\ ChargeClaims["active4"] <=> "active4" \in seen
      /\ ChargeClaims["active5"] <=> "active5" \in seen
    BY DEF ChargeClaims
<1>3. /\ Evidence["active0"] = {<<"port0", "active0">>}
      /\ Evidence["active1"] = {<<"port1", "active1">>}
      /\ Evidence["active2"] = {<<"port2", "active2">>}
      /\ Evidence["active3"] = {<<"port3", "active3">>}
      /\ Evidence["active4"] = {<<"port4", "active4">>}
      /\ Evidence["active5"] = {<<"port5", "active5">>}
    BY DEF Evidence
<1>4. /\ "port0" \in DOMAIN Shows /\ Shows["port0"] = {"active0"}
      /\ "port1" \in DOMAIN Shows /\ Shows["port1"] = {"active1"}
      /\ "port2" \in DOMAIN Shows /\ Shows["port2"] = {"active2"}
      /\ "port3" \in DOMAIN Shows /\ Shows["port3"] = {"active3"}
      /\ "port4" \in DOMAIN Shows /\ Shows["port4"] = {"active4"}
      /\ "port5" \in DOMAIN Shows /\ Shows["port5"] = {"active5"}
    BY DEF Shows
<1>5. Backed(ChargeClaims, "active0")
    BY <1>2, <1>3, <1>4 DEF Backed
<1>6. Backed(ChargeClaims, "active1")
    BY <1>2, <1>3, <1>4 DEF Backed
<1>7. Backed(ChargeClaims, "active2")
    BY <1>2, <1>3, <1>4 DEF Backed
<1>8. Backed(ChargeClaims, "active3")
    BY <1>2, <1>3, <1>4 DEF Backed
<1>9. Backed(ChargeClaims, "active4")
    BY <1>2, <1>3, <1>4 DEF Backed
<1>10. Backed(ChargeClaims, "active5")
    BY <1>2, <1>3, <1>4 DEF Backed
<1> QED
    BY <1>1, <1>5, <1>6, <1>7, <1>8, <1>9, <1>10 DEF Supported

LEMMA ChargerClaimsSupported == Supported(ChargerClaims)
<1>1. DOMAIN ChargerClaims = {"charger"}
    BY DEF ChargerClaims
<1>2. /\ ChargerClaims["charger"] <=> "offer2" \in seen
    BY DEF ChargerClaims
<1>3. /\ Evidence["charger"] = {<<"charger2", "offer2">>}
    BY DEF Evidence
<1>4. /\ "charger2" \in DOMAIN Shows /\ Shows["charger2"] = {"offer2"}
    BY DEF Shows
<1>5. Backed(ChargerClaims, "charger")
    BY <1>2, <1>3, <1>4 DEF Backed
<1> QED
    BY <1>1, <1>5 DEF Supported

LEMMA PostureClaimsSupported == Supported(PostureClaims)
<1>1. DOMAIN PostureClaims = {"angle", "base", "lid"}
    BY DEF PostureClaims
<1>2. /\ PostureClaims["angle"] <=> "lidOpen" \in seen
      /\ PostureClaims["base"] <=> "baseTilted" \in seen
      /\ PostureClaims["lid"] <=> "lidTilted" \in seen
    BY DEF PostureClaims
<1>3. /\ Evidence["angle"] = {<<"angle", "lidOpen">>}
      /\ Evidence["base"] = {<<"base", "baseTilted">>}
      /\ Evidence["lid"] = {<<"lid", "lidTilted">>}
    BY DEF Evidence
<1>4. /\ "angle" \in DOMAIN Shows /\ Shows["angle"] = {"lidOpen"}
      /\ "base" \in DOMAIN Shows /\ Shows["base"] = {"baseTilted"}
      /\ "lid" \in DOMAIN Shows /\ Shows["lid"] = {"lidTilted"}
    BY DEF Shows
<1>5. Backed(PostureClaims, "angle")
    BY <1>2, <1>3, <1>4 DEF Backed
<1>6. Backed(PostureClaims, "base")
    BY <1>2, <1>3, <1>4 DEF Backed
<1>7. Backed(PostureClaims, "lid")
    BY <1>2, <1>3, <1>4 DEF Backed
<1> QED
    BY <1>1, <1>5, <1>6, <1>7 DEF Supported

LEMMA FanClaimsSupported == Supported(FanClaims)
<1>1. DOMAIN FanClaims = {"control", "reporting", "fan"}
    BY DEF FanClaims
<1>2. /\ FanClaims["control"] <=> "pwmFan" \in seen
      /\ FanClaims["reporting"] <=> "thermal" \in seen
      /\ FanClaims["fan"] <=> FanPresent
    BY DEF FanClaims
<1>3. /\ Evidence["control"] = {<<"pwmFan", "pwmFan">>}
      /\ Evidence["reporting"] = {<<"thermal", "thermal">>}
      /\ Evidence["fan"] = {<<"fans", "turning">>, <<"fans", "stalled">>}
    BY DEF Evidence
<1>4. /\ "pwmFan" \in DOMAIN Shows /\ Shows["pwmFan"] = {"pwmFan"}
      /\ "thermal" \in DOMAIN Shows /\ Shows["thermal"] = {"thermal"}
      /\ "fans" \in DOMAIN Shows /\ Shows["fans"] = {"turning", "stalled"}
    BY DEF Shows
<1>5. Backed(FanClaims, "control")
    BY <1>2, <1>3, <1>4 DEF Backed
<1>6. Backed(FanClaims, "reporting")
    BY <1>2, <1>3, <1>4 DEF Backed
<1>7. Backed(FanClaims, "fan")
    BY <1>2, <1>3, <1>4 DEF Backed, FanPresent
<1> QED
    BY <1>1, <1>5, <1>6, <1>7 DEF Supported

LEMMA ThermalClaimsSupported == Supported(ThermalClaims)
<1>1. DOMAIN ThermalClaims = {"temperature", "fan", "fanStalled"}
    BY DEF ThermalClaims
<1>2. /\ ThermalClaims["temperature"] <=> "sensor" \in seen
      /\ ThermalClaims["fan"] <=> FanPresent
      /\ ThermalClaims["fanStalled"] <=> "stalled" \in seen
    BY DEF ThermalClaims
<1>3. /\ Evidence["temperature"] = {<<"temps", "sensor">>}
      /\ Evidence["fan"] = {<<"fans", "turning">>, <<"fans", "stalled">>}
      /\ Evidence["fanStalled"] = {<<"fans", "stalled">>}
    BY DEF Evidence
<1>4. /\ "temps" \in DOMAIN Shows /\ Shows["temps"] = {"sensor"}
      /\ "fans" \in DOMAIN Shows /\ Shows["fans"] = {"turning", "stalled"}
    BY DEF Shows
<1>5. Backed(ThermalClaims, "temperature")
    BY <1>2, <1>3, <1>4 DEF Backed
<1>6. Backed(ThermalClaims, "fan")
    BY <1>2, <1>3, <1>4 DEF Backed, FanPresent
<1>7. Backed(ThermalClaims, "fanStalled")
    BY <1>2, <1>3, <1>4 DEF Backed
<1> QED
    BY <1>1, <1>5, <1>6, <1>7 DEF Supported

LEMMA FlagClaimsSupported == Supported(FlagClaims)
<1>1. DOMAIN FlagClaims = {"keyboardFlag", "backlightFlag", "touchpadFlag",
                           "fingerprintFlag", "lightFlag", "tabletFlag"}
    BY DEF FlagClaims
<1>2. /\ FlagClaims["keyboardFlag"] <=> "keyboard" \in seen
      /\ FlagClaims["backlightFlag"] <=> "backlight" \in seen
      /\ FlagClaims["touchpadFlag"] <=> "touchpad" \in seen
      /\ FlagClaims["fingerprintFlag"] <=> "fingerprint" \in seen
      /\ FlagClaims["lightFlag"] <=> "motion" \in seen
      /\ FlagClaims["tabletFlag"] <=> "motion" \in seen
    BY DEF FlagClaims
<1>3. /\ Evidence["keyboardFlag"] = {<<"keyboard", "keyboard">>}
      /\ Evidence["backlightFlag"] = {<<"backlight", "backlight">>}
      /\ Evidence["touchpadFlag"] = {<<"touchpad", "touchpad">>}
      /\ Evidence["fingerprintFlag"] = {<<"fingerprint", "fingerprint">>}
      /\ Evidence["lightFlag"] = {<<"light", "motion">>}
      /\ Evidence["tabletFlag"] = {<<"tablet", "motion">>}
    BY DEF Evidence
<1>4. /\ "keyboard" \in DOMAIN Shows /\ Shows["keyboard"] = {"keyboard"}
      /\ "backlight" \in DOMAIN Shows /\ Shows["backlight"] = {"backlight"}
      /\ "touchpad" \in DOMAIN Shows /\ Shows["touchpad"] = {"touchpad"}
      /\ "fingerprint" \in DOMAIN Shows /\ Shows["fingerprint"] = {"fingerprint"}
      /\ "light" \in DOMAIN Shows /\ Shows["light"] = {"motion"}
      /\ "tablet" \in DOMAIN Shows /\ Shows["tablet"] = {"motion"}
    BY DEF Shows
<1>5. Backed(FlagClaims, "keyboardFlag")
    BY <1>2, <1>3, <1>4 DEF Backed
<1>6. Backed(FlagClaims, "backlightFlag")
    BY <1>2, <1>3, <1>4 DEF Backed
<1>7. Backed(FlagClaims, "touchpadFlag")
    BY <1>2, <1>3, <1>4 DEF Backed
<1>8. Backed(FlagClaims, "fingerprintFlag")
    BY <1>2, <1>3, <1>4 DEF Backed
<1>9. Backed(FlagClaims, "lightFlag")
    BY <1>2, <1>3, <1>4 DEF Backed
<1>10. Backed(FlagClaims, "tabletFlag")
    BY <1>2, <1>3, <1>4 DEF Backed
<1> QED
    BY <1>1, <1>5, <1>6, <1>7, <1>8, <1>9, <1>10 DEF Supported

LEMMA FixedClaimsSupported == Supported(FixedClaims)
<1>1. DOMAIN FixedClaims = {"fingerprintReader", "fingerprintDirect", "touchscreen",
                            "webcam"}
    BY DEF FixedClaims
<1>2. /\ FixedClaims["fingerprintReader"] <=> FingerprintFound
      /\ FixedClaims["fingerprintDirect"] <=> (FingerprintFound /\ "ledAgain" \in done /\ "fpLed" \in seen)
      /\ FixedClaims["touchscreen"] <=> "touchscreen" \in seen
      /\ FixedClaims["webcam"] <=> "camera" \in seen
    BY DEF FixedClaims
<1>3. /\ Evidence["fingerprintReader"] = {<<"fingerprint", "fingerprint">>, <<"led", "fpLed">>}
      /\ Evidence["fingerprintDirect"] = {<<"ledAgain", "fpLed">>}
      /\ Evidence["touchscreen"] = {<<"touchscreens", "touchscreen">>}
      /\ Evidence["webcam"] = {<<"cameras", "camera">>}
    BY DEF Evidence
<1>4. /\ "fingerprint" \in DOMAIN Shows /\ Shows["fingerprint"] = {"fingerprint"}
      /\ "led" \in DOMAIN Shows /\ Shows["led"] = {"fpLed"}
      /\ "ledAgain" \in DOMAIN Shows /\ Shows["ledAgain"] = {"fpLed"}
      /\ "touchscreens" \in DOMAIN Shows /\ Shows["touchscreens"] = {"touchscreen"}
      /\ "cameras" \in DOMAIN Shows /\ Shows["cameras"] = {"camera"}
    BY DEF Shows
<1>5. Backed(FixedClaims, "fingerprintReader")
    BY <1>2, <1>3, <1>4 DEF Backed, FingerprintFound
<1>6. Backed(FixedClaims, "fingerprintDirect")
    BY <1>2, <1>3, <1>4 DEF Backed, FingerprintFound
<1>7. Backed(FixedClaims, "touchscreen")
    BY <1>2, <1>3, <1>4 DEF Backed
<1>8. Backed(FixedClaims, "webcam")
    BY <1>2, <1>3, <1>4 DEF Backed
<1> QED
    BY <1>1, <1>5, <1>6, <1>7, <1>8 DEF Supported

LEMMA Framework16ClaimsSupported == Supported(Framework16Claims)
<1>1. DOMAIN Framework16Claims = {"topRow", "inputTouchpad"}
    BY DEF Framework16Claims
<1>2. /\ Framework16Claims["topRow"] <=> ("deckModule" \in seen \/ "usbModule" \in seen)
      /\ Framework16Claims["inputTouchpad"] <=> ("deckTouchpad" \in seen \/ "hidTouchpad" \in seen)
    BY DEF Framework16Claims
<1>3. /\ Evidence["topRow"] = {<<"deck", "deckModule">>, <<"usbModules", "usbModule">>}
      /\ Evidence["inputTouchpad"] = {<<"deck", "deckTouchpad">>, <<"hidTouchpads", "hidTouchpad">>}
    BY DEF Evidence
<1>4. /\ "deck" \in DOMAIN Shows /\ Shows["deck"] = {"deckModule", "deckTouchpad"}
      /\ "usbModules" \in DOMAIN Shows /\ Shows["usbModules"] = {"usbModule"}
      /\ "hidTouchpads" \in DOMAIN Shows /\ Shows["hidTouchpads"] = {"hidTouchpad"}
    BY DEF Shows
<1>5. Backed(Framework16Claims, "topRow")
    BY <1>2, <1>3, <1>4 DEF Backed
<1>6. Backed(Framework16Claims, "inputTouchpad")
    BY <1>2, <1>3, <1>4 DEF Backed
<1> QED
    BY <1>1, <1>5, <1>6 DEF Supported

LEMMA LaptopClaimsSupported == Supported(LaptopClaims)
<1>1. DOMAIN LaptopClaims = {"internalKeyboard", "internalTouchpad", "touchpadDirect"}
    BY DEF LaptopClaims
<1>2. /\ LaptopClaims["internalKeyboard"] <=> "keyboard" \in seen
      /\ LaptopClaims["internalTouchpad"] <=> ("touchpad" \in seen \/ "hidTouchpad" \in seen)
      /\ LaptopClaims["touchpadDirect"] <=> "hidTouchpad" \in seen
    BY DEF LaptopClaims
<1>3. /\ Evidence["internalKeyboard"] = {<<"keyboard", "keyboard">>}
      /\ Evidence["internalTouchpad"] = {<<"touchpad", "touchpad">>, <<"hidTouchpads", "hidTouchpad">>}
      /\ Evidence["touchpadDirect"] = {<<"hidTouchpads", "hidTouchpad">>}
    BY DEF Evidence
<1>4. /\ "keyboard" \in DOMAIN Shows /\ Shows["keyboard"] = {"keyboard"}
      /\ "touchpad" \in DOMAIN Shows /\ Shows["touchpad"] = {"touchpad"}
      /\ "hidTouchpads" \in DOMAIN Shows /\ Shows["hidTouchpads"] = {"hidTouchpad"}
    BY DEF Shows
<1>5. Backed(LaptopClaims, "internalKeyboard")
    BY <1>2, <1>3, <1>4 DEF Backed
<1>6. Backed(LaptopClaims, "internalTouchpad")
    BY <1>2, <1>3, <1>4 DEF Backed
<1>7. Backed(LaptopClaims, "touchpadDirect")
    BY <1>2, <1>3, <1>4 DEF Backed
<1> QED
    BY <1>1, <1>5, <1>6, <1>7 DEF Supported

LEMMA SessionClaimsSupported == Supported(SessionClaims)
<1>1. DOMAIN SessionClaims = {"opened", "viaCros", "viaPortio"}
    BY DEF SessionClaims
<1>2. /\ SessionClaims["opened"] <=> "ecMemory" \in seen
      /\ SessionClaims["viaCros"] <=> "crosDriver" \in seen
      /\ SessionClaims["viaPortio"] <=> "portio" \in seen
    BY DEF SessionClaims
<1>3. /\ Evidence["opened"] = {<<"magic", "ecMemory">>}
      /\ Evidence["viaCros"] = {<<"crosDriver", "crosDriver">>}
      /\ Evidence["viaPortio"] = {<<"portio", "portio">>}
    BY DEF Evidence
<1>4. /\ "magic" \in DOMAIN Shows /\ Shows["magic"] = {"ecMemory"}
      /\ "crosDriver" \in DOMAIN Shows /\ Shows["crosDriver"] = {"crosDriver"}
      /\ "portio" \in DOMAIN Shows /\ Shows["portio"] = {"portio"}
    BY DEF Shows
<1>5. Backed(SessionClaims, "opened")
    BY <1>2, <1>3, <1>4 DEF Backed
<1>6. Backed(SessionClaims, "viaCros")
    BY <1>2, <1>3, <1>4 DEF Backed
<1>7. Backed(SessionClaims, "viaPortio")
    BY <1>2, <1>3, <1>4 DEF Backed
<1> QED
    BY <1>1, <1>5, <1>6, <1>7 DEF Supported

LEMMA StandaloneClaimsSupported == Supported(StandaloneClaims)
<1>1. DOMAIN StandaloneClaims = {"isStandalone", "standaloneMode"}
    BY DEF StandaloneClaims
<1>2. /\ StandaloneClaims["isStandalone"] <=> "standalone" \in seen
      /\ StandaloneClaims["standaloneMode"] <=> "standaloneMode" \in seen
    BY DEF StandaloneClaims
<1>3. /\ Evidence["isStandalone"] = {<<"standalone", "standalone">>}
      /\ Evidence["standaloneMode"] = {<<"standaloneMode", "standaloneMode">>}
    BY DEF Evidence
<1>4. /\ "standalone" \in DOMAIN Shows /\ Shows["standalone"] = {"standalone"}
      /\ "standaloneMode" \in DOMAIN Shows /\ Shows["standaloneMode"] = {"standaloneMode"}
    BY DEF Shows
<1>5. Backed(StandaloneClaims, "isStandalone")
    BY <1>2, <1>3, <1>4 DEF Backed
<1>6. Backed(StandaloneClaims, "standaloneMode")
    BY <1>2, <1>3, <1>4 DEF Backed
<1> QED
    BY <1>1, <1>5, <1>6 DEF Supported

LEMMA StylusClaimsSupported == Supported(StylusClaims)
<1>1. DOMAIN StylusClaims = {"stylusPaired"}
    BY DEF StylusClaims
<1>2. StylusClaims["stylusPaired"] <=> "stylus" \in seen
    BY DEF StylusClaims
<1>3. Evidence["stylusPaired"] = {<<"stylus", "stylus">>}
    BY DEF Evidence
<1>4. "stylus" \in DOMAIN Shows /\ Shows["stylus"] = {"stylus"}
    BY DEF Shows
<1>5. Backed(StylusClaims, "stylusPaired")
    BY <1>2, <1>3, <1>4 DEF Backed
<1> QED
    BY <1>1, <1>5 DEF Supported

\* Whatever the query, each record of its answer is backed by what was seen.
LEMMA QueriesListed ==
    Queries = {"ExpansionBayStatus", "GpuDescriptorHeader", "GpuDescriptor", "ActiveCharge",
               "PdPowerInfo", "AccelData", "FanCapabilities", "ThermalSnapshot",
               "FeatureFlags", "Framework16Modules", "LaptopModules", "OpenDefault",
               "OpenWithDriver", "StandaloneMode", "StylusBattery"}
BY DEF Queries, Reads

LEMMA AnswersSupported ==
    ASSUME query \in Queries PROVE \A record \in Answers : Supported(record)
<1>1. CASE query = "ExpansionBayStatus"
    BY <1>1, BayClaimsSupported DEF Answers
<1>2. CASE query = "GpuDescriptorHeader"
    BY <1>2, HeaderClaimsSupported DEF Answers
<1>3. CASE query = "GpuDescriptor"
    BY <1>3, DescriptorClaimsSupported DEF Answers
<1>4. CASE query = "ActiveCharge"
    BY <1>4, ChargeClaimsSupported DEF Answers
<1>5. CASE query = "PdPowerInfo"
    BY <1>5, ChargerClaimsSupported DEF Answers
<1>6. CASE query = "AccelData"
    BY <1>6, PostureClaimsSupported DEF Answers
<1>7. CASE query = "FanCapabilities"
    BY <1>7, FanClaimsSupported DEF Answers
<1>8. CASE query = "ThermalSnapshot"
    BY <1>8, ThermalClaimsSupported DEF Answers
<1>9. CASE query = "FeatureFlags"
    BY <1>9, FlagClaimsSupported DEF Answers
<1>10. CASE query = "Framework16Modules"
    BY <1>10, FixedClaimsSupported, Framework16ClaimsSupported DEF Answers
<1>11. CASE query = "LaptopModules"
    BY <1>11, FixedClaimsSupported, LaptopClaimsSupported DEF Answers
<1>12. CASE query \in {"OpenDefault", "OpenWithDriver"}
    BY <1>12, SessionClaimsSupported DEF Answers
<1>13. CASE query = "StandaloneMode"
    BY <1>13, StandaloneClaimsSupported DEF Answers
<1>14. CASE query = "StylusBattery"
    BY <1>14, StylusClaimsSupported DEF Answers
<1> QED
    BY <1>1, <1>2, <1>3, <1>4, <1>5, <1>6, <1>7, <1>8, <1>9, <1>10, <1>11, <1>12, <1>13,
       <1>14, QueriesListed

LEMMA ClaimsHaveEvidence ==
    ASSUME query \in Queries, NEW c \in Claimed
    PROVE  \E evidence \in Evidence[c] : evidence[2] \in seen
<1>1. PICK record \in Answers : c \in DOMAIN record /\ record[c]
    BY DEF Claimed
<1>2. Backed(record, c)
    BY <1>1, AnswersSupported DEF Supported
<1> QED
    BY <1>1, <1>2 DEF Backed

LEMMA EvidenceIsClaimed ==
    ASSUME query \in Queries, NEW c \in Topics, NEW evidence \in Evidence[c]
    PROVE  /\ evidence[1] \in DOMAIN Shows /\ evidence[2] \in Shows[evidence[1]]
           /\ evidence[1] \in done /\ evidence[2] \in seen => c \in Claimed
<1>1. PICK record \in Answers : c \in DOMAIN record
    BY DEF Topics
<1>2. Backed(record, c)
    BY <1>1, AnswersSupported DEF Supported
<1> QED
    BY <1>1, <1>2 DEF Backed, Claimed

LEMMA ClaimsAreTopics == Claimed \subseteq Topics
BY DEF Claimed, Topics

\* The answer depends on the query and on what its reads showed.
LEMMA AnswersKept ==
    ASSUME query \in Queries, UNCHANGED <<query, seen, done>>
    PROVE  Claimed' = Claimed /\ Topics' = Topics
<1>1. Present' = Present /\ FanPresent' = FanPresent /\ FingerprintFound' = FingerprintFound
    BY DEF Present, FanPresent, FingerprintFound
<1>2. /\ BayClaims' = BayClaims /\ HeaderClaims' = HeaderClaims
      /\ DescriptorClaims' = DescriptorClaims
    BY <1>1, Zenon DEF BayClaims, HeaderClaims, DescriptorClaims
<1>3. /\ ChargeClaims' = ChargeClaims /\ ChargerClaims' = ChargerClaims
      /\ PostureClaims' = PostureClaims /\ FlagClaims' = FlagClaims
    BY Zenon DEF ChargeClaims, ChargerClaims, PostureClaims, FlagClaims
<1>4. /\ FanClaims' = FanClaims /\ ThermalClaims' = ThermalClaims
      /\ FixedClaims' = FixedClaims
    BY <1>1, Zenon DEF FanClaims, ThermalClaims, FixedClaims
<1>5. /\ Framework16Claims' = Framework16Claims /\ LaptopClaims' = LaptopClaims
      /\ SessionClaims' = SessionClaims /\ StandaloneClaims' = StandaloneClaims
      /\ StylusClaims' = StylusClaims
    BY Zenon DEF Framework16Claims, LaptopClaims, SessionClaims, StandaloneClaims,
                 StylusClaims
<1>6. Answers' = Answers
    BY <1>2, <1>3, <1>4, <1>5 DEF Answers
<1> QED
    BY <1>6 DEF Claimed, Topics
-----------------------------------------------------------------------------
(* The reads of a query *)

Sessions == {"OpenDefault", "OpenWithDriver"}
GpuQueries == {"GpuDescriptor", "GpuDescriptorHeader"}

ReadSet(q) == {Reads[q][i] : i \in DOMAIN Reads[q]}

LEMMA ReadsListed ==
    DOMAIN Shows =
        {"info", "pcie", "serial", "gpuPort", "descriptor", "port0", "port1", "port2",
         "port3", "port4", "port5", "charger0", "charger1", "charger2", "angle", "base",
         "lid", "pwmFan", "thermal", "temps", "fans", "keyboard", "backlight", "touchpad",
         "fingerprint", "light", "tablet", "deck", "usbModules", "hidTouchpads",
         "boardId", "led", "ledAgain", "touchscreens", "cameras", "crosNode",
         "crosDriver", "portio", "magic", "standalone", "standaloneMode", "stylus"}
BY DEF Shows

\* Every query reads what there is to read; only the opening of a session reads the
\* magic number, and a query of the GPU descriptor ends with the descriptor.
LEMMA ReadsTyped ==
    ASSUME NEW q \in Queries
    PROVE  /\ Reads[q] \in Seq(DOMAIN Shows)
           /\ q \notin Sessions => Reads[q] \in Seq(DOMAIN Shows \ {"magic"})
           /\ q \in GpuQueries => Len(Reads[q]) = 5 /\ Reads[q][5] = "descriptor"
<1> DEFINE S == DOMAIN Shows \ {"magic"}
<1>1. S = {"info", "pcie", "serial", "gpuPort", "descriptor", "port0", "port1", "port2",
           "port3", "port4", "port5", "charger0", "charger1", "charger2", "angle", "base",
           "lid", "pwmFan", "thermal", "temps", "fans", "keyboard", "backlight",
           "touchpad", "fingerprint", "light", "tablet", "deck", "usbModules",
           "hidTouchpads", "boardId", "led", "ledAgain", "touchscreens", "cameras",
           "crosNode", "crosDriver", "portio", "standalone", "standaloneMode", "stylus"}
    BY ReadsListed
<1>2. S \subseteq DOMAIN Shows /\ "magic" \in DOMAIN Shows
    BY ReadsListed
<1> HIDE DEF S
<1>3. ExpansionBayStatus \in Seq(S) /\ Len(ExpansionBayStatus) = 4
    BY <1>1 DEF ExpansionBayStatus
<1>4. GpuDescriptor \in Seq(S) /\ Len(GpuDescriptor) = 5 /\ GpuDescriptor[5] = "descriptor"
    <2>1. /\ <<"descriptor">> \in Seq(S) /\ Len(<<"descriptor">>) = 1
          /\ <<"descriptor">>[1] = "descriptor"
        BY <1>1
    <2> DEFINE last == <<"descriptor">>
    <2> HIDE DEF last
    <2>2. /\ ExpansionBayStatus \o last \in Seq(S)
          /\ Len(ExpansionBayStatus \o last) = Len(ExpansionBayStatus) + Len(last)
          /\ \A i \in 1..(Len(ExpansionBayStatus) + Len(last)) :
                (ExpansionBayStatus \o last)[i] =
                    IF i <= Len(ExpansionBayStatus) THEN ExpansionBayStatus[i]
                    ELSE last[i - Len(ExpansionBayStatus)]
        <3>1. last \in Seq(S)
            BY <2>1 DEF last
        <3> QED
            BY <1>3, <3>1, ConcatProperties
    <2>4. Len(last) = 1
        BY <2>1 DEF last
    <2>3. (ExpansionBayStatus \o last)[5] = last[1]
        BY <1>3, <2>2, <2>4
    <2>5. GpuDescriptor = ExpansionBayStatus \o last
        BY DEF GpuDescriptor, last
    <2>6. last[1] = "descriptor"
        BY <2>1 DEF last
    <2> QED
        BY <1>3, <2>2, <2>3, <2>4, <2>5, <2>6
<1>5. /\ ActiveCharge \in Seq(S) /\ PdPowerInfo \in Seq(S) /\ AccelData \in Seq(S)
      /\ FanCapabilities \in Seq(S) /\ ThermalSnapshot \in Seq(S)
      /\ FeatureFlags \in Seq(S) /\ StandaloneMode \in Seq(S) /\ StylusBattery \in Seq(S)
    BY <1>1 DEF ActiveCharge, PdPowerInfo, AccelData, FanCapabilities, ThermalSnapshot,
                FeatureFlags, StandaloneMode, StylusBattery
<1>6. Framework16Modules \in Seq(S) /\ LaptopModules \in Seq(S)
    <2>1. /\ FixedModules \in Seq(S)
          /\ <<"deck", "usbModules", "hidTouchpads">> \in Seq(S)
          /\ <<"keyboard", "hidTouchpads", "touchpad", "boardId">> \in Seq(S)
        BY <1>1 DEF FixedModules
    <2> QED
        BY <2>1, ConcatProperties DEF Framework16Modules, LaptopModules
<1>7. OpenDefault \in Seq(DOMAIN Shows) /\ OpenWithDriver \in Seq(DOMAIN Shows)
    BY <1>1, <1>2 DEF OpenDefault, OpenWithDriver
<1>8. \A s \in Seq(S) : s \in Seq(DOMAIN Shows)
    BY <1>2
<1>9. CASE q \in {"ExpansionBayStatus", "GpuDescriptorHeader", "GpuDescriptor"}
    <2>1. /\ Reads["ExpansionBayStatus"] = ExpansionBayStatus
          /\ Reads["GpuDescriptorHeader"] = GpuDescriptor
          /\ Reads["GpuDescriptor"] = GpuDescriptor
        BY DEF Reads
    <2> QED
        BY <1>3, <1>4, <1>8, <1>9, <2>1 DEF GpuQueries, S
<1>10. CASE q \in {"ActiveCharge", "PdPowerInfo", "AccelData", "FanCapabilities",
                   "ThermalSnapshot", "FeatureFlags", "StandaloneMode", "StylusBattery"}
    <2>1. /\ Reads["ActiveCharge"] = ActiveCharge /\ Reads["PdPowerInfo"] = PdPowerInfo
          /\ Reads["AccelData"] = AccelData /\ Reads["FanCapabilities"] = FanCapabilities
          /\ Reads["ThermalSnapshot"] = ThermalSnapshot
          /\ Reads["FeatureFlags"] = FeatureFlags
          /\ Reads["StandaloneMode"] = StandaloneMode
          /\ Reads["StylusBattery"] = StylusBattery
        BY DEF Reads
    <2>2. Reads[q] \in Seq(S) /\ q \notin GpuQueries
        BY <1>5, <1>10, <2>1 DEF GpuQueries
    <2> QED
        BY <1>8, <2>2 DEF S
<1>11. CASE q \in {"Framework16Modules", "LaptopModules"}
    BY <1>6, <1>8, <1>11 DEF Reads, Sessions, GpuQueries, S
<1>12. CASE q \in Sessions
    BY <1>7, <1>12 DEF Reads, Sessions, GpuQueries, S
<1> QED
    BY <1>9, <1>10, <1>11, <1>12, QueriesListed DEF Sessions

LEMMA ReadSetTyped ==
    ASSUME NEW q \in Queries
    PROVE  /\ Reads[q] \in Seq(ReadSet(q)) /\ ReadSet(q) \subseteq DOMAIN Shows
           /\ "magic" \in ReadSet(q) => q \in Sessions
           /\ \A read \in ReadSet(q) : Shows[read] \subseteq Relevant(q)
<1>1. Reads[q] \in Seq(DOMAIN Shows)
    BY ReadsTyped
<1>2. DOMAIN Reads[q] = 1..Len(Reads[q]) /\ Len(Reads[q]) \in Nat
    BY <1>1, LenProperties
<1>3. \A i \in DOMAIN Reads[q] : Reads[q][i] \in DOMAIN Shows
    BY <1>1, <1>2, ElementOfSeq
<1>4. Reads[q] \in Seq(ReadSet(q))
    <2>1. Reads[q] \in [1..Len(Reads[q]) -> ReadSet(q)]
        BY <1>1, <1>2 DEF ReadSet
    <2> QED
        BY <1>2, <2>1, SeqDef
<1>5. q \notin Sessions => \A i \in DOMAIN Reads[q] : Reads[q][i] # "magic"
    <2>1. ASSUME q \notin Sessions, NEW i \in DOMAIN Reads[q]
          PROVE  Reads[q][i] # "magic"
        <3>1. Reads[q][i] \in DOMAIN Shows \ {"magic"}
            BY <1>2, <2>1, ReadsTyped, ElementOfSeq
        <3> QED
            BY <3>1
    <2> QED
        BY <2>1
<1>6. \A read \in ReadSet(q) : Shows[read] \subseteq Relevant(q)
    BY DEF ReadSet, Relevant
<1> QED
    BY <1>3, <1>4, <1>5, <1>6 DEF ReadSet
-----------------------------------------------------------------------------
(* The inductive invariant *)

Shape ==
    /\ query \in Queries
    /\ facts \subseteq Relevant(query) /\ seen \subseteq Relevant(query)
    /\ ever \subseteq Relevant(query) /\ always \subseteq Relevant(query)
    /\ todo \in Seq(ReadSet(query)) /\ done \subseteq DOMAIN Shows
    /\ status \in {"running", "Success", "DataUnavailable", "EcError", "NoDriver"}
    /\ changes \in 0..MaxChanges /\ faults \in 0..MaxFaults

\* What was seen was true once; a read that worked has shown what was true all along.
Witnessed ==
    /\ seen \subseteq ever /\ always \subseteq facts /\ facts \subseteq ever
    /\ \A read \in done : Shows[read] \cap always \subseteq seen

\* The descriptor is the last read of its query, and never passed over.
DescriptorStays ==
    status = "running" /\ query \in GpuQueries /\ "descriptor" \notin done =>
        todo # << >> /\ todo[Len(todo)] = "descriptor"

\* Without a failed check, a driver that the opening has got past was tried, or
\* what it needs was missing at some moment, or another driver was taken.
DriversTried ==
    status = "running" /\ faults = 0 =>
        /\ query = "OpenWithDriver" =>
              /\ todo \in {<<"crosDriver", "magic">>, <<"magic">>, << >>}
              /\ todo = <<"magic">> => "crosDriver" \in done
        /\ query = "OpenDefault" =>
              /\ todo \in {<<"crosNode", "crosDriver", "portio", "magic">>,
                           <<"crosDriver", "portio", "magic">>, <<"portio", "magic">>,
                           <<"magic">>, << >>}
              /\ todo = <<"crosDriver", "portio", "magic">> => "crosNode" \in done
              /\ todo \in {<<"portio", "magic">>, <<"magic">>} =>
                    "crosDriver" \in done \/ "crosNode" \notin always
              /\ todo = <<"magic">> => "portio" \in done \/ "crosDriver" \in seen

\* A call claims all that it gathered, or nothing.
AnswerFits ==
    /\ claims = IF status = "Success" THEN Claimed ELSE {}
    /\ RefusalIsExplained

IInv == Shape /\ Witnessed /\ DescriptorStays /\ DriversTried /\ AnswerFits
-----------------------------------------------------------------------------
(* The initial states, and what the steps have in common *)

LEMMA InitInv == Init => IInv
<1> SUFFICES ASSUME Init PROVE IInv
    OBVIOUS
<1> USE DEF Init
<1>1. facts \subseteq Relevant(query)
    BY DEF Worlds
<1>2. Shape
    BY <1>1, ReadSetTyped, ReadingsAssumption DEF Shape
<1>3. Witnessed
    BY DEF Witnessed
<1>4. DescriptorStays
    BY ReadsTyped DEF DescriptorStays
<1>5. Reads["OpenWithDriver"] = OpenWithDriver /\ Reads["OpenDefault"] = OpenDefault
    BY DEF Reads
<1>6. DriversTried
    <2>1. query = "OpenWithDriver" => todo = <<"crosDriver", "magic">>
        BY <1>5 DEF OpenWithDriver
    <2>2. query = "OpenDefault" => todo = <<"crosNode", "crosDriver", "portio", "magic">>
        BY <1>5 DEF OpenDefault
    <2>3. /\ <<"crosDriver", "magic">> # <<"magic">>
          /\ \A later \in {<<"crosDriver", "portio", "magic">>, <<"portio", "magic">>,
                           <<"magic">>} :
                <<"crosNode", "crosDriver", "portio", "magic">> # later
        OBVIOUS
    <2> QED
        BY <2>1, <2>2, <2>3, Zenon DEF DriversTried
<1>7. AnswerFits
    BY DEF AnswerFits, RefusalIsExplained
<1> QED
    BY <1>2, <1>3, <1>4, <1>6, <1>7 DEF IInv

LEMMA NextRead ==
    ASSUME Shape, todo # << >>
    PROVE  /\ Head(todo) \in ReadSet(query) /\ Head(todo) \in DOMAIN Shows
           /\ Shows[Head(todo)] \subseteq Relevant(query)
           /\ Tail(todo) \in Seq(ReadSet(query))
           /\ Head(todo) = "magic" => query \in Sessions
<1>1. /\ Head(todo) \in ReadSet(query) /\ Tail(todo) \in Seq(ReadSet(query))
    BY HeadTailProperties DEF Shape
<1> QED
    BY <1>1, ReadSetTyped DEF Shape

LEMMA FatalStatus ==
    ASSUME NEW q, NEW read
    PROVE  /\ Fatal(q, read) \in {"DataUnavailable", "EcError", "none"}
           /\ q \in GpuQueries => Fatal(q, read) # "DataUnavailable"
           /\ q \in GpuQueries => Fatal(q, "descriptor") = "EcError"
BY DEF Fatal, GpuQueries

LEMMA RefusalStatus ==
    /\ Refusal \in {"DataUnavailable", "NoDriver", "none"}
    /\ Refusal = "DataUnavailable" => ~Present
    /\ Refusal = "NoDriver" =>
          Head(todo) = "magic" /\ seen \cap {"crosDriver", "portio"} = {}
BY DEF Refusal

\* What a running call changes, whichever of the three ways it passes over a read.
Passes ==
    /\ status = "running" /\ todo # << >> /\ todo' = Tail(todo)
    /\ faults' \in {faults, faults + 1}
    /\ UNCHANGED <<query, facts, status, claims, ever, always, changes>>

LEMMA PassingSteps == ReadSucceeds \/ ToleratedFailure \/ Skip => Passes
BY DEF ReadSucceeds, ToleratedFailure, Skip, Passes

\* What the three ways to end a call leave alone.
Ends ==
    /\ status = "running" /\ status' # "running"
    /\ UNCHANGED <<query, facts, todo, seen, done, ever, always, changes>>

LEMMA EndingSteps == FatalFailure \/ Refuse \/ Return => Ends
BY FatalStatus, RefusalStatus DEF FatalFailure, Refuse, Refused, Return, Ends

LEMMA ShapeStep == Shape /\ [Next]_vars => Shape'
<1> SUFFICES ASSUME Shape, [Next]_vars PROVE Shape'
    OBVIOUS
<1> USE DEF Shape
<1>1. CASE Change
    <2>1. PICK world \in Worlds(query) : /\ facts' = world /\ ever' = ever \cup world
                                         /\ always' = always \cap world
        BY <1>1 DEF Change
    <2>2. world \subseteq Relevant(query)
        BY DEF Worlds
    <2>3. changes' \in 0..MaxChanges
        BY <1>1, ReadingsAssumption DEF Change
    <2>4. UNCHANGED <<query, todo, seen, done, status, claims, faults>>
        BY <1>1 DEF Change
    <2> QED
        BY <2>1, <2>2, <2>3, <2>4
<1>2. CASE ReadSucceeds
    <2>1. /\ Head(todo) \in DOMAIN Shows /\ Shows[Head(todo)] \subseteq Relevant(query)
          /\ Tail(todo) \in Seq(ReadSet(query))
        BY <1>2, NextRead DEF ReadSucceeds
    <2> QED
        BY <1>2, <2>1 DEF ReadSucceeds
<1>3. CASE ToleratedFailure
    <2>1. Tail(todo) \in Seq(ReadSet(query))
        BY <1>3, NextRead DEF ToleratedFailure
    <2>2. faults' \in 0..MaxFaults
        BY <1>3, ReadingsAssumption DEF ToleratedFailure
    <2> QED
        BY <1>3, <2>1, <2>2 DEF ToleratedFailure, Default
<1>4. CASE Skip
    <2>1. Tail(todo) \in Seq(ReadSet(query))
        BY <1>4, NextRead DEF Skip
    <2> QED
        BY <1>4, <2>1 DEF Skip
<1>5. CASE FatalFailure
    <2>1. faults' \in 0..MaxFaults
        BY <1>5, ReadingsAssumption DEF FatalFailure
    <2> QED
        BY <1>5, <2>1, FatalStatus DEF FatalFailure
<1>6. CASE Refuse
    BY <1>6, RefusalStatus DEF Refuse, Refused
<1>7. CASE Return
    BY <1>7 DEF Return
<1>8. CASE UNCHANGED vars
    BY <1>8 DEF vars
<1> QED
    BY <1>1, <1>2, <1>3, <1>4, <1>5, <1>6, <1>7, <1>8 DEF Next

LEMMA WitnessedStep == Shape /\ Witnessed /\ [Next]_vars => Witnessed'
<1> SUFFICES ASSUME Shape, Witnessed, [Next]_vars PROVE Witnessed'
    OBVIOUS
<1> USE DEF Witnessed
<1>1. CASE Change
    <2>1. PICK world \in Worlds(query) : /\ facts' = world /\ ever' = ever \cup world
                                         /\ always' = always \cap world
        BY <1>1 DEF Change
    <2>2. seen' = seen /\ done' = done
        BY <1>1 DEF Change
    <2> QED
        BY <2>1, <2>2
<1>2. CASE ReadSucceeds
    <2>1. Shows[Head(todo)] \cap always \subseteq Shows[Head(todo)] \cap facts
        OBVIOUS
    <2> QED
        BY <1>2, <2>1 DEF ReadSucceeds
<1>3. CASE ToleratedFailure \/ Skip
    BY <1>3 DEF ToleratedFailure, Default, Skip
<1>4. CASE FatalFailure \/ Refuse \/ Return
    BY <1>4, EndingSteps DEF Ends
<1>5. CASE UNCHANGED vars
    BY <1>5 DEF vars
<1> QED
    BY <1>1, <1>2, <1>3, <1>4, <1>5 DEF Next

LEMMA DescriptorStep == Shape /\ DescriptorStays /\ [Next]_vars => DescriptorStays'
<1> SUFFICES ASSUME Shape, DescriptorStays, [Next]_vars,
                    status' = "running", query' \in GpuQueries, "descriptor" \notin done'
             PROVE  todo' # << >> /\ todo'[Len(todo')] = "descriptor"
    BY DEF DescriptorStays
<1>1. CASE ReadSucceeds \/ ToleratedFailure \/ Skip
    <2>1. Passes /\ done \subseteq done'
        BY <1>1, PassingSteps DEF ReadSucceeds, ToleratedFailure, Skip
    <2>2. todo # << >> /\ todo[Len(todo)] = "descriptor" /\ todo \in Seq(ReadSet(query))
        BY <2>1 DEF DescriptorStays, Passes, Shape
    <2>3. /\ Len(todo) \in Nat \ {0} /\ Head(todo) = todo[1]
          /\ Len(Tail(todo)) = Len(todo) - 1
          /\ \A i \in 1..Len(Tail(todo)) : Tail(todo)[i] = todo[i + 1]
          /\ Tail(todo) \in Seq(ReadSet(query))
        BY <2>2
    <2>4. Head(todo) # "descriptor"
        <3> SUFFICES ASSUME Head(todo) = "descriptor" PROVE FALSE
            OBVIOUS
        <3>1. query \in GpuQueries
            BY <2>1 DEF Passes
        <3>2. Asked(Head(todo))
            BY <3>1 DEF Asked, GpuQueries
        <3>3. Fatal(query, Head(todo)) # "none"
            BY <3>1, FatalStatus
        <3>4. ~Skip /\ ~ToleratedFailure
            BY <3>2, <3>3 DEF Skip, ToleratedFailure
        <3>5. ReadSucceeds
            BY <1>1, <3>4
        <3> QED
            BY <3>5 DEF ReadSucceeds
    <2>5. Len(todo) # 1
        BY <2>2, <2>3, <2>4
    <2>6. Len(Tail(todo)) \in 1..Len(Tail(todo)) /\ Len(Tail(todo)) + 1 = Len(todo)
        BY <2>3, <2>5
    <2>7. Tail(todo)[Len(Tail(todo))] = "descriptor" /\ Tail(todo) # << >>
        BY <2>2, <2>3, <2>6
    <2> QED
        BY <2>1, <2>7 DEF Passes
<1>2. CASE Change \/ UNCHANGED vars
    BY <1>2 DEF DescriptorStays, Change, vars
<1>3. CASE FatalFailure \/ Refuse \/ Return
    BY <1>3, EndingSteps DEF Ends
<1> QED
    BY <1>1, <1>2, <1>3 DEF Next

\* A read of a session that is passed over without a failure was made, or it was not
\* asked for.
LEMMA PassedWithoutFailure ==
    ASSUME Shape, ReadSucceeds \/ ToleratedFailure \/ Skip, faults' = 0
    PROVE  /\ Passes /\ faults = 0 /\ seen \subseteq seen' /\ done \subseteq done'
           /\ Head(todo) \in done' \/ ~Asked(Head(todo))
<1>1. Passes
    BY PassingSteps
<1>2. faults = 0 /\ ~ToleratedFailure
    BY <1>1 DEF Shape, Passes, ToleratedFailure
<1> QED
    BY <1>1, <1>2 DEF ReadSucceeds, Skip

LEMMA DriversStep ==
    Shape /\ Witnessed /\ DriversTried /\ [Next]_vars => DriversTried'
<1> SUFFICES ASSUME Shape, Witnessed, DriversTried, [Next]_vars,
                    status' = "running", faults' = 0
             PROVE  DriversTried'
    BY DEF DriversTried
<1>1. CASE ReadSucceeds \/ ToleratedFailure \/ Skip
    <2>1. /\ status = "running" /\ faults = 0 /\ todo # << >> /\ todo' = Tail(todo)
          /\ query' = query /\ always' = always
          /\ seen \subseteq seen' /\ done \subseteq done'
          /\ Head(todo) \in done' \/ ~Asked(Head(todo))
        BY <1>1, PassedWithoutFailure DEF Passes
    <2>2. CASE query = "OpenWithDriver"
        <3>1. CASE todo = <<"crosDriver", "magic">>
            <4>1. Head(todo) = "crosDriver" /\ Tail(todo) = <<"magic">>
                BY <3>1
            <4>2. Asked("crosDriver")
                BY <2>2 DEF Asked
            <4> QED
                BY <2>1, <2>2, <4>1, <4>2, Zenon DEF DriversTried
        <3>2. CASE todo = <<"magic">>
            <4>1. Tail(todo) = << >> /\ << >> # <<"magic">>
                BY <3>2
            <4> QED
                BY <2>1, <2>2, <4>1, Zenon DEF DriversTried
        <3> QED
            BY <2>1, <2>2, <3>1, <3>2 DEF DriversTried
    <2>3. CASE query = "OpenDefault"
        <3> DEFINE Suffix3 == <<"crosDriver", "portio", "magic">>
                   Suffix2 == <<"portio", "magic">>
                   Suffix1 == <<"magic">>
        <3>1. /\ Suffix3 # Suffix2 /\ Suffix3 # Suffix1 /\ Suffix3 # << >>
              /\ Suffix2 # Suffix1 /\ Suffix2 # << >> /\ Suffix1 # << >>
            OBVIOUS
        <3>2. Tail(Suffix3) = Suffix2 /\ Tail(Suffix2) = Suffix1 /\ Tail(Suffix1) = << >>
            OBVIOUS
        <3>3. /\ Head(Suffix3) = "crosDriver" /\ Head(Suffix2) = "portio"
            OBVIOUS
        <3> HIDE DEF Suffix3, Suffix2, Suffix1
        <3>4. /\ todo \in {<<"crosNode", "crosDriver", "portio", "magic">>, Suffix3,
                           Suffix2, Suffix1}
              /\ todo = Suffix3 => "crosNode" \in done
              /\ todo \in {Suffix2, Suffix1} =>
                    "crosDriver" \in done \/ "crosNode" \notin always
              /\ todo = Suffix1 => "portio" \in done \/ "crosDriver" \in seen
            BY <2>1, <2>3 DEF DriversTried, Suffix3, Suffix2, Suffix1
        <3>5. \/ todo' = Suffix3 /\ "crosNode" \in done'
              \/ todo' = Suffix2 /\ ("crosDriver" \in done' \/ "crosNode" \notin always')
              \/ /\ todo' = Suffix1 /\ ("crosDriver" \in done' \/ "crosNode" \notin always')
                 /\ "portio" \in done' \/ "crosDriver" \in seen'
              \/ todo' = << >>
            <4>1. CASE todo = <<"crosNode", "crosDriver", "portio", "magic">>
                <5>1. Head(todo) = "crosNode" /\ Tail(todo) = Suffix3
                    BY <4>1 DEF Suffix3
                <5>2. Asked("crosNode")
                    BY <2>3 DEF Asked
                <5> QED
                    BY <2>1, <5>1, <5>2
            <4>2. CASE todo = Suffix3
                <5>1. "crosNode" \in done /\ Shows["crosNode"] = {"crosNode"}
                    BY <3>4, <4>2 DEF Shows
                <5>2. "crosNode" \in always => "crosNode" \in seen
                    BY <5>1 DEF Witnessed
                <5>3. "crosNode" \in seen => Asked("crosDriver")
                    BY <2>3 DEF Asked
                <5> QED
                    BY <2>1, <3>2, <3>3, <4>2, <5>2, <5>3
            <4>3. CASE todo = Suffix2
                <5>1. ~Asked("portio") => "crosDriver" \in seen
                    BY <2>3 DEF Asked
                <5> QED
                    BY <2>1, <3>2, <3>3, <3>4, <4>3, <5>1
            <4>4. CASE todo = Suffix1
                BY <2>1, <3>2, <4>4
            <4> QED
                BY <3>4, <4>1, <4>2, <4>3, <4>4
        <3>6. query' = "OpenDefault" /\ query' # "OpenWithDriver"
            BY <2>1, <2>3
        <3>7. /\ todo' \in {Suffix3, Suffix2, Suffix1, << >>}
              /\ todo' = Suffix3 => "crosNode" \in done'
              /\ todo' \in {Suffix2, Suffix1} =>
                    "crosDriver" \in done' \/ "crosNode" \notin always'
              /\ todo' = Suffix1 => "portio" \in done' \/ "crosDriver" \in seen'
            BY <3>1, <3>5
        <3> QED
            BY <3>6, <3>7, Zenon DEF DriversTried, Suffix3, Suffix2, Suffix1
    <2> QED
        BY <2>1, <2>2, <2>3 DEF DriversTried
<1>2. CASE Change
    <2>1. always' \subseteq always
        BY <1>2 DEF Change
    <2> QED
        BY <1>2, <2>1 DEF Change, DriversTried
<1>3. CASE FatalFailure \/ Refuse \/ Return
    BY <1>3, EndingSteps DEF Ends
<1>4. CASE UNCHANGED vars
    BY <1>4 DEF vars, DriversTried
<1> QED
    BY <1>1, <1>2, <1>3, <1>4 DEF Next

\* A GPU descriptor is refused for an empty bay by a read that has not come yet; a
\* module that was there throughout would have been seen by a read that worked.
LEMMA RefusedForWantOfModule ==
    ASSUME Shape, Witnessed, ~Present, query \in GpuQueries
    PROVE  ~Undeniable("present")
<1>1. Evidence["present"] = {<<"info", "board">>, <<"pcie", "card">>, <<"pcie", "gpu">>}
    BY DEF Evidence
<1>2. Shows["info"] = {"board"} /\ Shows["pcie"] = {"card", "gpu"}
    BY DEF Shows
<1>3. ASSUME "info" \in done, "board" \in always PROVE FALSE
    BY <1>2, <1>3 DEF Witnessed, Present
<1>4. ASSUME "pcie" \in done, NEW code \in {"card", "gpu"}, code \in always PROVE FALSE
    BY <1>2, <1>4 DEF Witnessed, Present
<1> QED
    BY <1>1, <1>3, <1>4 DEF Undeniable

LEMMA RefusedForWantOfDriver ==
    ASSUME Shape, Witnessed, DriversTried, status = "running", faults = 0,
           query \in Sessions, todo # << >>, Head(todo) = "magic",
           seen \cap {"crosDriver", "portio"} = {}
    PROVE  \A driver \in Drivers : ~(driver \subseteq always)
<1>1. Shows["crosDriver"] = {"crosDriver"} /\ Shows["portio"] = {"portio"}
    BY DEF Shows
<1>2. "crosDriver" \in done => "crosDriver" \notin always
    BY <1>1 DEF Witnessed
<1>3. "portio" \in done => "portio" \notin always
    BY <1>1 DEF Witnessed
<1>4. CASE query = "OpenWithDriver"
    <2>1. Head(<<"crosDriver", "magic">>) # "magic"
        OBVIOUS
    <2>2. todo = <<"magic">> /\ "crosDriver" \in done
        BY <1>4, <2>1, Zenon DEF DriversTried
    <2>3. Drivers = {{"crosDriver"}}
        BY <1>4 DEF Drivers
    <2> QED
        BY <1>2, <2>2, <2>3
<1>5. CASE query = "OpenDefault"
    <2>1. /\ Head(<<"crosNode", "crosDriver", "portio", "magic">>) # "magic"
          /\ Head(<<"crosDriver", "portio", "magic">>) # "magic"
          /\ Head(<<"portio", "magic">>) # "magic"
        OBVIOUS
    <2>2. /\ todo = <<"magic">> /\ ("crosDriver" \in done \/ "crosNode" \notin always)
          /\ "portio" \in done \/ "crosDriver" \in seen
        BY <1>5, <2>1, Zenon DEF DriversTried
    <2>3. Drivers = {{"crosNode", "crosDriver"}, {"portio"}}
        BY <1>5 DEF Drivers
    <2> QED
        BY <1>2, <1>3, <2>2, <2>3
<1> QED
    BY <1>4, <1>5 DEF Sessions

LEMMA AnswerStep == IInv /\ [Next]_vars => AnswerFits'
<1> SUFFICES ASSUME IInv, [Next]_vars PROVE AnswerFits'
    OBVIOUS
<1> USE DEF IInv
<1>1. CASE Change \/ ReadSucceeds \/ ToleratedFailure \/ Skip
    <2>1. status = "running" /\ status' = "running" /\ claims' = claims
        BY <1>1 DEF Change, ReadSucceeds, ToleratedFailure, Skip
    <2> QED
        BY <2>1 DEF AnswerFits, RefusalIsExplained
<1>2. CASE FatalFailure
    <2>1. /\ status' \in {"DataUnavailable", "EcError"} /\ claims' = {}
          /\ query' = query
          /\ status' = "DataUnavailable" => query \notin GpuQueries
        BY <1>2, FatalStatus DEF FatalFailure, Nothing
    <2> QED
        BY <2>1 DEF AnswerFits, RefusalIsExplained, GpuQueries
<1>3. CASE Refuse
    <2>1. /\ status = "running" /\ todo # << >> /\ claims' = {}
          /\ status' = Refusal /\ status' \in {"DataUnavailable", "NoDriver"}
          /\ UNCHANGED <<query, seen, done, always, faults>>
        BY <1>3, RefusalStatus DEF Refuse, Refused, Nothing
    <2>2. Undeniable("present")' <=> Undeniable("present")
        BY <2>1 DEF Undeniable
    <2>3. Drivers' = Drivers
        BY <2>1 DEF Drivers
    <2>4. status' = "DataUnavailable" /\ query \in GpuQueries => ~Undeniable("present")
        BY <2>1, RefusalStatus, RefusedForWantOfModule
    <2>5. status' = "NoDriver" =>
              faults > 0 \/ \A driver \in Drivers : ~(driver \subseteq always)
        <3> SUFFICES ASSUME status' = "NoDriver", faults = 0
                     PROVE  \A driver \in Drivers : ~(driver \subseteq always)
            BY DEF Shape
        <3>1. Head(todo) = "magic" /\ seen \cap {"crosDriver", "portio"} = {}
            BY <2>1, RefusalStatus
        <3>2. query \in Sessions
            BY <2>1, <3>1, NextRead
        <3> QED
            BY <2>1, <3>1, <3>2, RefusedForWantOfDriver
    <2> QED
        BY <2>1, <2>2, <2>3, <2>4, <2>5 DEF AnswerFits, RefusalIsExplained, GpuQueries
<1>4. CASE Return
    <2>1. /\ status = "running" /\ todo = << >> /\ UNCHANGED <<query, seen, done>>
          /\ \/ status' = "Success" /\ claims' = Claimed
             \/ status' \in {"DataUnavailable", "EcError"} /\ claims' = {}
        BY <1>4 DEF Return, Nothing
    <2>2. Claimed' = Claimed
        BY <2>1, AnswersKept DEF Shape
    <2>3. query \in GpuQueries => "descriptor" \in done
        BY <2>1 DEF DescriptorStays
    <2>4. query' = query /\ done' = done /\ status' # "NoDriver"
        BY <2>1
    <2>5. claims' = IF status' = "Success" THEN Claimed' ELSE {}
        BY <2>1, <2>2
    <2> QED
        BY <2>3, <2>4, <2>5, Zenon DEF AnswerFits, RefusalIsExplained, GpuQueries
<1>5. CASE UNCHANGED vars
    <2>1. Claimed' = Claimed
        BY <1>5, AnswersKept DEF vars, Shape
    <2>2. Undeniable("present")' <=> Undeniable("present")
        BY <1>5 DEF Undeniable, vars
    <2>3. Drivers' = Drivers
        BY <1>5 DEF Drivers, vars
    <2> QED
        BY <1>5, <2>1, <2>2, <2>3 DEF AnswerFits, RefusalIsExplained, vars
<1> QED
    BY <1>1, <1>2, <1>3, <1>4, <1>5 DEF Next

LEMMA InvHolds == Spec => []IInv
<1>1. IInv /\ [Next]_vars => IInv'
    BY ShapeStep, WitnessedStep, DescriptorStep, DriversStep, AnswerStep DEF IInv
<1> QED
    BY <1>1, InitInv, PTL DEF Spec
-----------------------------------------------------------------------------
(* The theorems *)

\* Types, whatever the bounds; only a successful call claims anything.
THEOREM ReadingsTypeOK == Spec => []TypeOK
<1>1. IInv => TypeOK
    <2> SUFFICES ASSUME IInv PROVE TypeOK
        OBVIOUS
    <2> USE DEF IInv
    <2>1. todo \in Seq(DOMAIN Shows)
        BY ReadSetTyped DEF Shape
    <2>2. claims \subseteq Topics /\ (claims # {} => status = "Success")
        BY ClaimsAreTopics DEF AnswerFits
    <2> QED
        BY <2>1, <2>2 DEF Shape, TypeOK
<1> QED
    BY <1>1, InvHolds, PTL

\* However often the machine changes between the reads and however many of them
\* fail: each claim of an answer (a module present, an active port, a fan, a flag of
\* the EC, an opened session) was true at some moment of the call, by the register or
\* the bus that the claim is about.
THEOREM NothingIsMadeUp == Spec => []ClaimsWereTrue
<1>1. IInv => ClaimsWereTrue
    <2> SUFFICES ASSUME IInv, NEW c \in claims
                 PROVE  \E evidence \in Evidence[c] : evidence[2] \in ever
        BY DEF ClaimsWereTrue
    <2> USE DEF IInv
    <2>1. c \in Claimed
        BY DEF AnswerFits
    <2> QED
        BY <2>1, ClaimsHaveEvidence DEF Shape, Witnessed
<1> QED
    BY <1>1, InvHolds, PTL

\* What one of the reads that worked was about, and was there throughout, is in the
\* answer of a successful call, though other reads of the same thing failed.
THEOREM NothingIsHidden == Spec => []SilenceIsExplained
<1>1. IInv => SilenceIsExplained
    <2> SUFFICES ASSUME IInv, status = "Success", NEW c \in Topics, Undeniable(c)
                 PROVE  c \in claims
        BY DEF SilenceIsExplained
    <2> USE DEF IInv
    <2>1. PICK evidence \in Evidence[c] : evidence[1] \in done /\ evidence[2] \in always
        BY DEF Undeniable
    <2>2. evidence[2] \in Shows[evidence[1]]
        BY EvidenceIsClaimed DEF Shape
    <2>3. evidence[2] \in seen
        BY <2>1, <2>2 DEF Witnessed
    <2>4. c \in Claimed
        BY <2>1, <2>3, EvidenceIsClaimed DEF Shape
    <2> QED
        BY <2>4 DEF AnswerFits
<1> QED
    BY <1>1, InvHolds, PTL

\* A GPU descriptor is refused for an empty bay, and a session for want of a driver,
\* only when no read that worked could have known better: a module or a driver that
\* was there throughout the call is found, unless the check for the driver failed.
THEOREM NothingIsRefusedInVain == Spec => []RefusalIsExplained
<1>1. IInv => RefusalIsExplained
    BY DEF IInv, AnswerFits
<1> QED
    BY <1>1, InvHolds, PTL
=============================================================================
