------------------------------ MODULE UsbSlots ------------------------------
(***************************************************************************)
(* One build of the expansion-card part of the module inventory            *)
(* (src/src/inventory/usb_slots.rs).  The EC tells what the Type-C link of *)
(* each slot looks like, USB and HID enumeration tell which cards exist    *)
(* somewhere, and nothing tells which card sits in which slot: the code    *)
(* correlates the two, one read after another, while a user may plug and   *)
(* unplug, the EC may not answer and an enumeration may miss a device.     *)
(***************************************************************************)
EXTENDS Integers, Sequences, FiniteSets, FiniteSetsExt

CONSTANTS SlotCount,      \* usb_c_slot_count
          DetachedSlots,  \* length of the detached array, 4 in the build
          Occupants,      \* what a slot can hold in this instance
          LooseKinds,     \* cards and look-alikes that may be outside the slots
          MaxLoose,       \* bound: of each kind
          Platform,       \* "Laptop" for the 12, 13 and 16, "Desktop", "Other"
          MaxPlugs,       \* bound: hotplug events during the build
          MaxFaults       \* bound: failed reads during the build

Slots == 0..(SlotCount - 1)

\* The slots of the machine; an instance may model fewer.
MainboardPdPortCount == IF Platform = "Desktop" THEN 2 ELSE 4

\* What the tables say of PD in a slot: every documented laptop wires its four
\* slots, the desktop neither of its two; the rest is not documented.
SlotCapability(i) ==
    CASE Platform = "Laptop" /\ i < 4 -> "pd"
      [] Platform = "Desktop" /\ i < 2 -> "no pd"
      [] OTHER -> "unknown"

\* The slots whose capability is known and excludes PD.
Unwired == {i \in Slots : SlotCapability(i) = "no pd"}

HidCard == "HidCard"      \* 1st generation DisplayPort or HDMI card, display on
UsbKinds == {"Audio", "Ssd", "UsbA", "Ethernet", "Sd", "MicroSd"}
Cards == UsbKinds \cup {HidCard}

\* Occupants that enumerate as nothing (a passthrough card, a passive display
\* card), or as a HID card without an alternate mode (its display is off).
Anonymous == {"Empty", "Passthrough", "Display", "IdleHid"}

ASSUME SlotAssumption ==
    /\ SlotCount \in 0..MainboardPdPortCount
    /\ {DetachedSlots, MaxLoose, MaxPlugs, MaxFaults} \subseteq Nat
    /\ Occupants \subseteq Cards \cup Anonymous /\ "Empty" \in Occupants
    /\ LooseKinds \subseteq Cards
    /\ Platform \in {"Laptop", "Desktop", "Other"}

VARIABLES port,      \* the machine: what each slot holds
          loose,     \* the machine: how many of each kind are outside the slots
          slots,     \* usb_slots
          detached,  \* the filled part of the detached array
          pc,        \* where the build is
          index,     \* the slot it probes next, or the pass it runs next
          observed,  \* history: how many cards of each kind its pass enumerated
          plugs,     \* history: hotplug events so far
          faults     \* history: failed reads so far

machine == <<port, loose, plugs>>
vars == <<port, loose, slots, detached, pc, index, observed, plugs, faults>>

\* The part of FrameworkEcPdPortState the build looks at.
PdStates == [connected : BOOLEAN, dp : BOOLEAN]
DefaultPd == [connected |-> FALSE, dp |-> FALSE]

Confidences == {"Unknown", "DerivedWeak", "DerivedStrong", "Direct"}
Identities == Cards \cup {"None", "UnknownUsbCOccupant"}
FlagNames == {"Connected", "DisplayAltMode"}

Slot == [identity : Identities, confidence : Confidences, present : BOOLEAN,
         flags : SUBSET FlagNames, pd : PdStates, cardConfidence : Confidences,
         capability : {"unset", "unknown", "pd", "no pd"}]

DefaultSlot == [identity |-> "None", confidence |-> "Unknown", present |-> FALSE,
                flags |-> {}, pd |-> DefaultPd, cardConfidence |-> "Unknown",
                capability |-> "unset"]

Init ==
    /\ port \in [Slots -> Occupants]
    /\ loose \in [LooseKinds -> 0..MaxLoose]
    /\ slots = [i \in Slots |-> DefaultSlot]
    /\ detached = << >>
    /\ pc = "probe"
    /\ index = 0
    /\ observed = [k \in Cards |-> 0]
    /\ plugs = 0
    /\ faults = 0
-----------------------------------------------------------------------------
(* The machine *)

\* A card moves, comes or goes between two reads of the build.
Hotplug ==
    /\ pc \in {"probe", "pass"} /\ plugs < MaxPlugs
    /\ \E i \in Slots : \E o \in Occupants \ {port[i]} :
          port' = [port EXCEPT ![i] = o]
    /\ plugs' = plugs + 1
    /\ UNCHANGED <<loose, slots, detached, pc, index, observed, faults>>

\* The Type-C link of an occupant.
LinkOf(o) == [connected |-> o # "Empty", dp |-> o \in {HidCard, "Display"}]

\* What the EC reports for a slot: the link, or, for a slot that is not wired
\* for PD, anything at all.
Reported(i) == IF i \in Unwired THEN PdStates ELSE {LinkOf(port[i])}

\* How many devices an enumeration that works returns for a kind.
Present(k) ==
    Cardinality({i \in Slots : port[i] = k \/ (k = HidCard /\ port[i] = "IdleHid")})
        + (IF k \in LooseKinds THEN loose[k] ELSE 0)
-----------------------------------------------------------------------------
(* Probing the slots *)

\* query_pd_port_state turns an EC error into the default state.
QueryPdPortState(i, pd) ==
    \/ pd \in Reported(i) /\ UNCHANGED faults
    \/ pd = DefaultPd /\ faults < MaxFaults /\ faults' = faults + 1

PdFlags(pd) == (IF pd.connected THEN {"Connected"} ELSE {})
                  \cup (IF pd.dp THEN {"DisplayAltMode"} ELSE {})

\* A connected slot is filled in, of an empty one only the PD state is kept.
Probed(pd) ==
    IF pd.connected
    THEN [DefaultSlot EXCEPT !.identity = "UnknownUsbCOccupant", !.present = TRUE,
             !.confidence = IF pd.dp THEN "DerivedStrong" ELSE "DerivedWeak",
             !.flags = PdFlags(pd), !.pd = pd]
    ELSE [DefaultSlot EXCEPT !.pd = pd]

Probe ==
    /\ pc = "probe" /\ index < SlotCount
    /\ \E pd \in PdStates :
          /\ QueryPdPortState(index, pd)
          /\ slots' = [slots EXCEPT ![index] = Probed(pd)]
    /\ index' = index + 1
    /\ UNCHANGED <<machine, detached, pc, observed>>

EndProbe ==
    /\ pc = "probe" /\ index = SlotCount
    /\ pc' = "pass" /\ index' = 1
    /\ UNCHANGED <<machine, slots, detached, observed, faults>>
-----------------------------------------------------------------------------
(* The correlation passes *)

\* Mutant: a pass whose confidence is weak runs before one that is direct.
PassesWeakFirst == <<HidCard, "Audio", "UsbA", "Ssd", "Ethernet", "Sd", "MicroSd">>

Passes == <<HidCard, "Audio", "Ssd", "UsbA", "Ethernet", "Sd", "MicroSd">>

\* How sure the code is of the slot, and of the kind, when a pass assigns.
SlotConfidence(k) == IF k \in {HidCard, "Ssd"} THEN "Direct" ELSE "DerivedWeak"
CardConfidence(k) == IF k \in {HidCard, "Audio", "Ssd"} THEN "Direct" ELSE "DerivedWeak"

DpSlots == {i \in Slots : slots[i].pd.dp}

\* Mutants: a slot another pass identified stays a candidate; a slot is
\* a candidate only while nothing is known of it.
NonDpSlots == {i \in Slots : slots[i].pd.connected /\ ~slots[i].pd.dp}
UntouchedSlots == {i \in NonDpSlots : slots[i].identity = "None"}

\* The slots that hold something without a display and not yet identified.
UnassignedNonDp == {i \in NonDpSlots : slots[i].identity = "UnknownUsbCOccupant"}

Candidates(k) == IF k = HidCard THEN DpSlots ELSE UnassignedNonDp

\* Mutant: the first candidate will do.
AnyMatch(n, candidates) == n = 1 /\ candidates # {}

\* One card and one place for it to be.
Match(n, candidates) == n = 1 /\ Cardinality(candidates) = 1

Assign(i, k) ==
    slots' = [slots EXCEPT ![i] =
        [slots[i] EXCEPT !.identity = k, !.confidence = SlotConfidence(k),
                         !.present = TRUE, !.flags = @ \cup {"Connected"},
                         !.cardConfidence = CardConfidence(k)]]

\* Mutants of the array: the bound forgotten, the last slot never used.
Unbounded(k, n) == detached \o [j \in 1..n |-> k]
OneShort(k, n) ==
    detached \o [j \in 1..Min({n, DetachedSlots - 1 - Min({DetachedSlots - 1, Len(detached)})}) |-> k]

\* push_detached_module for n cards: those past the end of the array are dropped.
PushDetached(k, n) == detached \o [j \in 1..Min({n, DetachedSlots - Len(detached)}) |-> k]

\* An enumeration that fails returns no device, one that cannot read the
\* descriptor of a device skips it.
Enumerate(k, n) ==
    \/ n = Present(k) /\ UNCHANGED faults
    \/ n < Present(k) /\ faults < MaxFaults /\ faults' = faults + 1

\* One pass: enumerate the cards of a kind, then assign the only card to the only
\* candidate, or list all of them as detached.
AssignCardPass ==
    /\ pc = "pass" /\ index <= Len(Passes)
    /\ LET k == Passes[index]  candidates == Candidates(k) IN
       \E n \in 0..(SlotCount + MaxLoose) :
          /\ Enumerate(k, n)
          /\ observed' = [observed EXCEPT ![k] = n]
          /\ \/ /\ Match(n, candidates)
                /\ Assign(Min(candidates), k)
                /\ UNCHANGED detached
             \/ /\ ~Match(n, candidates)
                /\ detached' = PushDetached(k, n)
                /\ UNCHANGED slots
    /\ index' = index + 1
    /\ UNCHANGED <<machine, pc>>

\* The static capability goes in last, and where it excludes PD the PD state
\* is put back to its default.
ApplyCapability ==
    /\ pc = "pass" /\ index = Len(Passes) + 1
    /\ slots' = [i \in Slots |->
          [slots[i] EXCEPT !.capability = SlotCapability(i),
                           !.pd = IF i \in Unwired THEN DefaultPd ELSE @]]
    /\ pc' = "done"
    /\ UNCHANGED <<machine, detached, index, observed, faults>>

Next == Hotplug \/ Probe \/ EndProbe \/ AssignCardPass \/ ApplyCapability

Spec == Init /\ [][Next]_vars
-----------------------------------------------------------------------------
(* Properties *)

\* Every variable keeps its type; the detached array is never overrun.
TypeOK ==
    /\ port \in [Slots -> Occupants]
    /\ loose \in [LooseKinds -> 0..MaxLoose]
    /\ slots \in [Slots -> Slot]
    /\ detached \in Seq(Cards) /\ Len(detached) <= DetachedSlots
    /\ pc \in {"probe", "pass", "done"}
    /\ index \in 0..(SlotCount + Len(Passes) + 1)
    /\ observed \in [Cards -> 0..(SlotCount + MaxLoose)]
    /\ plugs \in 0..MaxPlugs /\ faults \in 0..MaxFaults

Identified(i) == slots[i].identity \in Cards
InSlots(k) == Cardinality({i \in Slots : slots[i].identity = k})
InDetached(k) == Cardinality({j \in 1..Len(detached) : detached[j] = k})

\* What a pass enumerated is in the inventory exactly once, in a slot or
\* detached, whatever was plugged or failed in between; only a full detached
\* array loses a card (assign_card_pass, push_detached_module).
ObservedExactlyOnce ==
    \A k \in Cards :
        /\ InSlots(k) + InDetached(k) <= observed[k]
        /\ InSlots(k) + InDetached(k) < observed[k] => Len(detached) = DetachedSlots

\* A pass never takes over a slot that an earlier pass identified: the earlier
\* pass "locks a slot before a weaker pass can claim it" (FFI_NOTES.md:19).
IdentifiedForGood ==
    [][\A i \in Slots : Identified(i) =>
          /\ slots'[i].identity = slots[i].identity
          /\ slots'[i].confidence = slots[i].confidence]_vars

\* Nothing happened to the machine during the build, every read worked, and no
\* HID card has its display off.
Undisturbed ==
    /\ plugs = 0 /\ faults = 0 /\ Unwired = {}
    /\ \A i \in Slots : port[i] # "IdleHid"

NoneLoose(kinds) == \A k \in kinds \cap LooseKinds : loose[k] = 0

\* The cards that no other product can be mistaken for.
Unmistakable == {HidCard, "Audio", "Ssd"}

\* While a dock offers look-alikes of the generic cards, a slot that holds an
\* unmistakable card is never labelled as something else: the unmistakable passes
\* come first, and a slot they leave unidentified is never the only candidate.
GenuineNeverMislabelled ==
    Undisturbed /\ NoneLoose(Unmistakable) =>
        \A i \in Slots : port[i] \in Unmistakable /\ Identified(i) =>
            slots[i].identity = port[i]

\* In the same surroundings a slot reported with Direct confidence holds the card
\* it is reported to hold, whatever the dock offers.
DirectIsTrue ==
    Undisturbed /\ NoneLoose({HidCard, "Ssd"}) =>
        \A i \in Slots : slots[i].confidence = "Direct" => slots[i].identity = port[i]

Sole(i, k) == /\ port[i] = k
              /\ k \in UsbKinds
              /\ \A j \in Slots \ {i} : LinkOf(port[j]).connected => LinkOf(port[j]).dp

\* With nothing outside the slots, the only occupant without a display is
\* identified by the end of the build, if it is a card at all.
SoleCardIsPlaced ==
    pc = "done" /\ Undisturbed /\ NoneLoose(Cards) =>
        \A i \in Slots, k \in Cards : Sole(i, k) => slots[i].identity = k

\* Slots that are not wired for PD "are surfaced by capability alone, not as
\* broken PD ports" (usb_slots.rs:300): empty, such a slot shows no occupant.
UnwiredByCapabilityAlone ==
    pc = "done" => \A i \in Unwired : port[i] = "Empty" /\ ~Identified(i) =>
        ~slots[i].present /\ slots[i].flags = {}
=============================================================================
