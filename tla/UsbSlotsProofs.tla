--------------------------- MODULE UsbSlotsProofs ---------------------------
(***************************************************************************)
(* For every machine and any number of slots, hotplug events and failed    *)
(* reads: what the slot inventory keeps of the cards it enumerated, and    *)
(* what its labels are worth.                                              *)
(***************************************************************************)
EXTENDS UsbSlots, FiniteSetTheorems, SequenceTheorems, TLAPS

-----------------------------------------------------------------------------
(* The inductive invariant *)

Shape ==
    /\ port \in [Slots -> Occupants]
    /\ loose \in [LooseKinds -> 0..MaxLoose]
    /\ slots \in [Slots -> Slot]
    /\ detached \in Seq(Cards) /\ Len(detached) <= DetachedSlots
    /\ \/ pc = "probe" /\ index \in 0..SlotCount
       \/ pc = "pass" /\ index \in 1..(Len(Passes) + 1)
       \/ pc = "done" /\ index = Len(Passes) + 1
    /\ observed \in [Cards -> 0..(SlotCount + MaxLoose)]
    /\ plugs \in 0..MaxPlugs /\ faults \in 0..MaxFaults

\* The pass that looks for the kind has not run.
Ahead(k) == pc = "probe" \/ \E j \in index..Len(Passes) : Passes[j] = k

\* Of a kind whose pass is still to come nothing is known.
AheadIsUnknown ==
    \A k \in Cards : Ahead(k) =>
        /\ observed[k] = 0
        /\ \A i \in Slots : slots[i].identity # k
        /\ \A j \in 1..Len(detached) : detached[j] # k

\* The PD states are those of the probe: in the end the slots that are not wired
\* lose theirs.
PdKept == pc # "done" \/ Unwired = {}

\* A slot is identified by the first pass if it shows a display, else by one of the
\* others, and only one of them: it took the only candidate there was.
Labels ==
    /\ \A i \in Slots : slots[i].confidence = "Direct" => slots[i].identity \in {HidCard, "Ssd"}
    /\ PdKept =>
          /\ \A i \in Slots :
                /\ slots[i].pd.connected => slots[i].identity # "None"
                /\ Identified(i) => (slots[i].pd.dp <=> slots[i].identity = HidCard)
                /\ Identified(i) /\ ~slots[i].pd.dp => slots[i].pd.connected
          /\ (\E i \in NonDpSlots : Identified(i)) => UnassignedNonDp = {}

\* The probe saw the links as they are.
LinksSeen ==
    \A i \in Slots : (pc = "probe" => i < index) => slots[i].pd = LinkOf(port[i])

\* A label that nothing outside the slots can have caused is right.
LabelsTrue ==
    \A i \in Slots : Identified(i) /\ NoneLoose({slots[i].identity}) =>
        slots[i].identity = port[i]

\* A card that has no look-alike outside is found by its own pass at the latest, if
\* it is the only candidate.
FoundInTime ==
    \A i \in Slots, m \in 2..Len(Passes) :
        port[i] = Passes[m] /\ NoneLoose({Passes[m]}) =>
            /\ \A j \in 1..Len(Passes) : slots[i].identity = Passes[j] => j <= m
            /\ pc # "probe" /\ m < index => UnassignedNonDp # {i}

Truthful == Undisturbed => LinksSeen /\ LabelsTrue /\ FoundInTime

IInv == Shape /\ AheadIsUnknown /\ ObservedExactlyOnce /\ Labels /\ Truthful
-----------------------------------------------------------------------------
(* Slots, passes and candidates *)

LEMMA SlotsAreFew ==
    /\ SlotCount \in Nat /\ DetachedSlots \in Nat /\ MaxLoose \in Nat
    /\ MaxPlugs \in Nat /\ MaxFaults \in Nat
    /\ Slots \subseteq Nat /\ IsFiniteSet(Slots)
<1>1. SlotCount \in Nat
    BY SlotAssumption DEF MainboardPdPortCount
<1> QED
    BY <1>1, SlotAssumption, FS_Interval DEF Slots

LEMMA PassesListed ==
    /\ Len(Passes) = 7 /\ Passes[1] = "HidCard" /\ Passes[2] = "Audio"
    /\ Passes[3] = "Ssd" /\ Passes[4] = "UsbA" /\ Passes[5] = "Ethernet"
    /\ Passes[6] = "Sd" /\ Passes[7] = "MicroSd"
BY DEF Passes, HidCard

LEMMA CardsListed ==
    Cards = {"HidCard", "Audio", "Ssd", "UsbA", "Ethernet", "Sd", "MicroSd"}
BY DEF Cards, UsbKinds, HidCard

\* Each kind has its pass, and the cards with a display come first.
LEMMA OnePassEach ==
    /\ Len(Passes) = 7 /\ Passes[1] = HidCard
    /\ \A j \in 1..7 : Passes[j] \in Cards
    /\ \A j, m \in 1..7 : Passes[j] = Passes[m] => j = m
    /\ \A k \in Cards : \E j \in 1..7 : Passes[j] = k
<1>1. \A j \in 1..7 : j = 1 \/ j = 2 \/ j = 3 \/ j = 4 \/ j = 5 \/ j = 6 \/ j = 7
    OBVIOUS
<1>2. \A j \in 1..7 : Passes[j] \in Cards
    BY <1>1, PassesListed, CardsListed
<1>3. \A j, m \in 1..7 : Passes[j] = Passes[m] => j = m
    BY <1>1, PassesListed
<1>4. \A k \in Cards : \E j \in 1..7 : Passes[j] = k
    BY PassesListed, CardsListed
<1> QED
    BY <1>2, <1>3, <1>4, PassesListed DEF HidCard

LEMMA DisplaysFirst == \A j \in 1..7 : Passes[j] = HidCard => j = 1
<1>1. 1 \in 1..7
    OBVIOUS
<1> QED
    BY <1>1, OnePassEach

LEMMA LeastOfOne == \A i \in Int : Min({i}) = i
BY DEF Min

LEMMA LeastOfTwo == \A a, b \in Int : Min({a, b}) = IF a <= b THEN a ELSE b
BY DEF Min

LEMMA OneCandidate ==
    ASSUME NEW n, NEW candidates \in SUBSET Slots, Match(n, candidates)
    PROVE  n = 1 /\ \E i \in Slots : candidates = {i} /\ Min(candidates) = i
<1>1. IsFiniteSet(candidates)
    BY SlotsAreFew, FS_Subset
<1>2. PICK i : candidates = {i}
    BY <1>1, FS_Singleton DEF Match
<1>3. i \in Slots /\ i \in Int
    BY <1>2, SlotsAreFew
<1> QED
    BY <1>2, <1>3, LeastOfOne DEF Match

LEMMA CandidatesAreSlots ==
    ASSUME NEW k PROVE Candidates(k) \subseteq Slots
BY DEF Candidates, DpSlots, UnassignedNonDp, NonDpSlots

LEMMA ProbedTyped ==
    ASSUME NEW pd \in PdStates
    PROVE  /\ Probed(pd) \in Slot /\ Probed(pd).pd = pd
           /\ Probed(pd).identity = IF pd.connected THEN "UnknownUsbCOccupant" ELSE "None"
           /\ Probed(pd).confidence # "Direct"
<1>1. DefaultSlot \in Slot
    BY DEF DefaultSlot, Slot, Identities, Confidences, PdStates, DefaultPd, FlagNames
<1>2. pd \in PdStates /\ PdFlags(pd) \in SUBSET FlagNames
    BY DEF PdFlags, FlagNames
<1> QED
    BY <1>1, <1>2 DEF Probed, Slot, DefaultSlot, Identities, Confidences

\* What a pass that finds one card and one candidate does to the slots.
LEMMA AssignedTyped ==
    ASSUME slots \in [Slots -> Slot], NEW i \in Slots, NEW k \in Cards, Assign(i, k)
    PROVE  /\ slots' \in [Slots -> Slot]
           /\ \A j \in Slots : slots'[j].pd = slots[j].pd
           /\ \A j \in Slots \ {i} : slots'[j] = slots[j]
           /\ slots'[i].identity = k /\ slots'[i].confidence = SlotConfidence(k)
<1> DEFINE new == [slots[i] EXCEPT !.identity = k, !.confidence = SlotConfidence(k),
                     !.present = TRUE, !.flags = @ \cup {"Connected"},
                     !.cardConfidence = CardConfidence(k)]
<1>1. slots' = [slots EXCEPT ![i] = new]
    BY Zenon DEF Assign
<1>2. slots[i] \in Slot
    OBVIOUS
<1>3. /\ k \in Identities /\ SlotConfidence(k) \in Confidences
      /\ CardConfidence(k) \in Confidences
    BY DEF Identities, SlotConfidence, CardConfidence, Confidences
<1>4. /\ new \in Slot /\ new.pd = slots[i].pd /\ new.identity = k
      /\ new.confidence = SlotConfidence(k)
    BY <1>2, <1>3 DEF Slot, FlagNames
<1> HIDE DEF new
<1> QED
    BY <1>1, <1>4

LEMMA PushedTyped ==
    ASSUME detached \in Seq(Cards), Len(detached) <= DetachedSlots, NEW k \in Cards,
           NEW n \in Nat
    PROVE  \E m \in 0..n :
              /\ m = (IF n <= DetachedSlots - Len(detached) THEN n
                      ELSE DetachedSlots - Len(detached))
              /\ PushDetached(k, n) \in Seq(Cards)
              /\ Len(PushDetached(k, n)) = Len(detached) + m
              /\ Len(PushDetached(k, n)) <= DetachedSlots
              /\ \A j \in 1..(Len(detached) + m) :
                    PushDetached(k, n)[j] = IF j <= Len(detached) THEN detached[j] ELSE k
<1> DEFINE room == DetachedSlots - Len(detached)
           m == IF n <= room THEN n ELSE room
<1>1. room \in Nat /\ Len(detached) \in Nat
    BY SlotsAreFew
<1>2. Min({n, room}) = m /\ m \in Nat /\ m <= n /\ m <= room
    BY <1>1, LeastOfTwo
<1> DEFINE more == [j \in 1..m |-> k]
<1>3. PushDetached(k, n) = detached \o more
    BY <1>2 DEF PushDetached
<1> HIDE DEF m
<1>4. more \in Seq(Cards) /\ Len(more) = m
    BY <1>2
<1>5. \A j \in 1..m : more[j] = k
    OBVIOUS
<1> HIDE DEF more
<1>6. /\ detached \o more \in Seq(Cards)
      /\ Len(detached \o more) = Len(detached) + Len(more)
      /\ \A j \in 1..(Len(detached) + Len(more)) :
            (detached \o more)[j] =
                IF j <= Len(detached) THEN detached[j] ELSE more[j - Len(detached)]
    BY <1>4, ConcatProperties
<1>7. \A j \in 1..(Len(detached) + m) : ~(j <= Len(detached)) => j - Len(detached) \in 1..m
    BY <1>1, <1>2
<1>8. /\ PushDetached(k, n) \in Seq(Cards)
      /\ Len(PushDetached(k, n)) = Len(detached) + m
      /\ \A j \in 1..(Len(detached) + m) :
            PushDetached(k, n)[j] =
                IF j <= Len(detached) THEN detached[j] ELSE more[j - Len(detached)]
    BY <1>3, <1>4, <1>6
<1>9. \A j \in 1..(Len(detached) + m) :
          PushDetached(k, n)[j] = IF j <= Len(detached) THEN detached[j] ELSE k
    BY <1>5, <1>7, <1>8
<1>10. m \in 0..n /\ Len(detached) + m <= DetachedSlots
    BY <1>1, <1>2, SlotsAreFew
<1>11. m = (IF n <= DetachedSlots - Len(detached) THEN n ELSE DetachedSlots - Len(detached))
    BY DEF m
<1> QED
    BY <1>8, <1>9, <1>10, <1>11, Zenon
-----------------------------------------------------------------------------
(* The shape of the state *)

\* A pass either assigns its only card to its only candidate or lists its cards.
LEMMA PassCases ==
    ASSUME Shape, AssignCardPass
    PROVE  \E k \in Cards, n \in 0..(SlotCount + MaxLoose) :
              /\ pc = "pass" /\ pc' = "pass" /\ index \in 1..7 /\ index' = index + 1
              /\ k = Passes[index] /\ UNCHANGED machine
              /\ Enumerate(k, n) /\ observed' = [observed EXCEPT ![k] = n]
              /\ \/ /\ Match(n, Candidates(k)) /\ n = 1 /\ UNCHANGED detached
                    /\ \E i \in Slots : Candidates(k) = {i} /\ Assign(i, k)
                 \/ /\ ~Match(n, Candidates(k)) /\ UNCHANGED slots
                    /\ detached' = PushDetached(k, n)
<1> DEFINE k == Passes[index]
<1>1. index \in 1..7 /\ k \in Cards
    BY OnePassEach DEF AssignCardPass, Shape
<1>2. PICK n \in 0..(SlotCount + MaxLoose) :
          /\ Enumerate(k, n) /\ observed' = [observed EXCEPT ![k] = n]
          /\ \/ /\ Match(n, Candidates(k)) /\ Assign(Min(Candidates(k)), k)
                /\ UNCHANGED detached
             \/ /\ ~Match(n, Candidates(k)) /\ detached' = PushDetached(k, n)
                /\ UNCHANGED slots
    BY DEF AssignCardPass
<1>3. pc = "pass" /\ pc' = "pass" /\ index' = index + 1 /\ UNCHANGED machine
    BY DEF AssignCardPass
<1> HIDE DEF k
<1>4. ASSUME Match(n, Candidates(k))
      PROVE  n = 1 /\ \E i \in Slots : Candidates(k) = {i} /\ Min(Candidates(k)) = i
    BY <1>4, OneCandidate, CandidatesAreSlots
<1>5. k = Passes[index]
    BY DEF k
<1> QED
    BY <1>1, <1>2, <1>3, <1>4, <1>5

LEMMA InitShape == Init => Shape
<1> SUFFICES ASSUME Init PROVE Shape
    OBVIOUS
<1> USE DEF Init
<1>1. DefaultSlot \in Slot
    BY DEF DefaultSlot, Slot, Identities, Confidences, PdStates, DefaultPd, FlagNames
<1>2. slots \in [Slots -> Slot]
    BY <1>1
<1>3. detached \in Seq(Cards) /\ Len(detached) <= DetachedSlots
    BY SlotsAreFew
<1>4. observed \in [Cards -> 0..(SlotCount + MaxLoose)]
    BY SlotsAreFew
<1> QED
    BY <1>2, <1>3, <1>4, SlotsAreFew DEF Shape

LEMMA ShapeStep == Shape /\ [Next]_vars => Shape'
<1> SUFFICES ASSUME Shape, [Next]_vars PROVE Shape'
    OBVIOUS
<1>1. CASE Hotplug
    <2>1. PICK i \in Slots, o \in Occupants : port' = [port EXCEPT ![i] = o]
        BY <1>1 DEF Hotplug
    <2>2. port' \in [Slots -> Occupants]
        BY <2>1 DEF Shape
    <2>3. plugs' \in 0..MaxPlugs
        BY <1>1, SlotsAreFew DEF Hotplug, Shape
    <2> QED
        BY <1>1, <2>2, <2>3 DEF Hotplug, Shape
<1>2. CASE Probe
    <2>1. PICK pd \in PdStates : QueryPdPortState(index, pd)
                                    /\ slots' = [slots EXCEPT ![index] = Probed(pd)]
        BY <1>2 DEF Probe
    <2>2. slots' \in [Slots -> Slot]
        BY <2>1, ProbedTyped DEF Shape
    <2>3. faults' \in 0..MaxFaults
        BY <2>1, SlotsAreFew DEF QueryPdPortState, Shape
    <2>4. pc = "probe" /\ pc' = "probe" /\ index' \in 0..SlotCount
        BY <1>2, SlotsAreFew DEF Probe, Shape
    <2> QED
        BY <1>2, <2>2, <2>3, <2>4 DEF Probe, machine, Shape
<1>3. CASE EndProbe
    BY <1>3, OnePassEach DEF EndProbe, machine, Shape
<1>4. CASE AssignCardPass
    <2> USE DEF Shape
    <2>1. PICK k \in Cards, n \in 0..(SlotCount + MaxLoose) :
              /\ pc = "pass" /\ pc' = "pass" /\ index \in 1..7 /\ index' = index + 1
              /\ UNCHANGED machine
              /\ Enumerate(k, n) /\ observed' = [observed EXCEPT ![k] = n]
              /\ \/ UNCHANGED detached /\ \E i \in Slots : Assign(i, k)
                 \/ UNCHANGED slots /\ detached' = PushDetached(k, n)
        BY <1>4, PassCases
    <2>2. slots' \in [Slots -> Slot]
        BY <2>1, AssignedTyped
    <2>3. detached' \in Seq(Cards) /\ Len(detached') <= DetachedSlots
        <3>1. n \in Nat
            BY SlotsAreFew
        <3> QED
            BY <2>1, <3>1, PushedTyped
    <2>4. faults' \in 0..MaxFaults
        BY <2>1, SlotsAreFew DEF Enumerate
    <2>5. pc' = "pass" /\ index' \in 1..(Len(Passes) + 1)
        BY <2>1, OnePassEach
    <2>6. observed' \in [Cards -> 0..(SlotCount + MaxLoose)]
        BY <2>1
    <2> QED
        BY <2>1, <2>2, <2>3, <2>4, <2>5, <2>6 DEF machine
<1>5. CASE ApplyCapability
    <2>1. ASSUME NEW i \in Slots PROVE slots'[i] \in Slot
        <3> DEFINE state == IF i \in Unwired THEN DefaultPd ELSE slots[i].pd
        <3>1. slots[i] \in Slot /\ state \in PdStates
            BY DEF Shape, Slot, DefaultPd, PdStates
        <3>2. SlotCapability(i) \in {"unset", "unknown", "pd", "no pd"}
            BY DEF SlotCapability
        <3>3. slots'[i] = [slots[i] EXCEPT !.capability = SlotCapability(i), !.pd = state]
            BY <1>5 DEF ApplyCapability
        <3> HIDE DEF state
        <3> QED
            BY <3>1, <3>2, <3>3 DEF Slot
    <2>2. slots' \in [Slots -> Slot]
        <3>1. slots' = [i \in Slots |-> slots'[i]]
            BY <1>5 DEF ApplyCapability
        <3> QED
            BY <2>1, <3>1
    <2> QED
        BY <1>5, <2>2 DEF ApplyCapability, machine, Shape
<1>6. CASE UNCHANGED vars
    BY <1>6 DEF vars, machine, Shape
<1> QED
    BY <1>1, <1>2, <1>3, <1>4, <1>5, <1>6 DEF Next
-----------------------------------------------------------------------------
(* What was enumerated is in the inventory once *)

LEMMA Counts ==
    ASSUME Shape, NEW k
    PROVE  InSlots(k) \in Nat /\ InDetached(k) \in Nat
<1>1. IsFiniteSet(1..Len(detached))
    BY FS_Interval DEF Shape
<1>2. IsFiniteSet({i \in Slots : slots[i].identity = k})
    BY SlotsAreFew, FS_Subset
<1>3. IsFiniteSet({j \in 1..Len(detached) : detached[j] = k})
    BY <1>1, FS_Subset
<1> QED
    BY <1>2, <1>3, FS_CardinalityType DEF InSlots, InDetached

LEMMA NoneCounted ==
    ASSUME NEW k
    PROVE  /\ (\A i \in Slots : slots[i].identity # k) => InSlots(k) = 0
           /\ (\A j \in 1..Len(detached) : detached[j] # k) => InDetached(k) = 0
<1>1. ASSUME \A i \in Slots : slots[i].identity # k PROVE InSlots(k) = 0
    <2>1. {i \in Slots : slots[i].identity = k} = {}
        BY <1>1
    <2> QED
        BY <2>1, FS_EmptySet DEF InSlots
<1>2. ASSUME \A j \in 1..Len(detached) : detached[j] # k PROVE InDetached(k) = 0
    <2>1. {j \in 1..Len(detached) : detached[j] = k} = {}
        BY <1>2
    <2> QED
        BY <2>1, FS_EmptySet DEF InDetached
<1> QED
    BY <1>1, <1>2

\* Listing n cards of a kind that is not listed yet: all of them, or as many as the
\* array has room for.
LEMMA PushedCount ==
    ASSUME detached \in Seq(Cards), Len(detached) <= DetachedSlots, NEW k \in Cards,
           NEW n \in Nat, \A j \in 1..Len(detached) : detached[j] # k,
           detached' = PushDetached(k, n)
    PROVE  /\ InDetached(k)' \in 0..n
           /\ InDetached(k)' < n => Len(detached') = DetachedSlots
           /\ Len(detached') >= Len(detached) /\ Len(detached') <= DetachedSlots
           /\ \A other \in Cards \ {k} :
                 /\ InDetached(other)' = InDetached(other)
                 /\ \A j \in 1..Len(detached') : detached'[j] = other =>
                       \E i \in 1..Len(detached) : detached[i] = other
<1> DEFINE old == Len(detached)
<1>1. PICK m \in 0..n :
          /\ m = (IF n <= DetachedSlots - old THEN n ELSE DetachedSlots - old)
          /\ Len(detached') = old + m /\ Len(detached') <= DetachedSlots
          /\ \A j \in 1..(old + m) : detached'[j] = IF j <= old THEN detached[j] ELSE k
    BY PushedTyped
<1>2. old \in Nat /\ m \in Nat /\ DetachedSlots \in Nat
    BY SlotsAreFew
<1> HIDE DEF old
<1>3. {j \in 1..(old + m) : detached'[j] = k} = (old + 1)..(old + m)
    BY <1>1, <1>2 DEF old
<1>4. Cardinality((old + 1)..(old + m)) = m
    BY <1>2, FS_Interval
<1>5. InDetached(k)' = m
    BY <1>1, <1>3, <1>4 DEF InDetached
<1>6. ASSUME NEW other \in Cards \ {k}
      PROVE  {j \in 1..(old + m) : detached'[j] = other} = {j \in 1..old : detached[j] = other}
    BY <1>1, <1>2
<1>7. ASSUME NEW other \in Cards \ {k} PROVE InDetached(other)' = InDetached(other)
    BY <1>1, <1>6 DEF InDetached, old
<1>8. ASSUME NEW other \in Cards \ {k}, NEW j \in 1..Len(detached'), detached'[j] = other
      PROVE  \E i \in 1..Len(detached) : detached[i] = other
    <2>1. j \in {i \in 1..(old + m) : detached'[i] = other}
        BY <1>1, <1>8
    <2> QED
        BY <1>6, <2>1 DEF old
<1>9. m < n => Len(detached') = DetachedSlots
    BY <1>1, <1>2
<1>10. Len(detached') >= Len(detached)
    BY <1>1, <1>2 DEF old
<1> QED
    BY <1>1, <1>5, <1>7, <1>8, <1>9, <1>10

LEMMA AssignedCount ==
    ASSUME slots \in [Slots -> Slot], NEW i \in Slots, NEW k \in Cards, Assign(i, k),
           slots[i].identity \notin Cards, \A j \in Slots : slots[j].identity # k
    PROVE  /\ InSlots(k)' = 1
           /\ \A other \in Cards \ {k} :
                 /\ InSlots(other)' = InSlots(other)
                 /\ \A j \in Slots : slots'[j].identity = other => slots[j].identity = other
<1>1. /\ \A j \in Slots \ {i} : slots'[j] = slots[j]
      /\ slots'[i].identity = k
    BY AssignedTyped
<1>2. {j \in Slots : slots'[j].identity = k} = {i}
    BY <1>1
<1>3. InSlots(k)' = 1
    BY <1>2, FS_Singleton DEF InSlots
<1>4. ASSUME NEW other \in Cards \ {k}
      PROVE  {j \in Slots : slots'[j].identity = other}
                = {j \in Slots : slots[j].identity = other}
    BY <1>1
<1>5. ASSUME NEW other \in Cards \ {k} PROVE InSlots(other)' = InSlots(other)
    BY <1>4 DEF InSlots
<1> QED
    BY <1>3, <1>4, <1>5

\* No pass looks for a slot that is identified already: the first pass comes before
\* all others, and they take unidentified slots only.
LEMMA CandidatesAreNew ==
    ASSUME Shape, AheadIsUnknown, AssignCardPass, NEW i \in Candidates(Passes[index])
    PROVE  i \in Slots /\ slots[i].identity \notin Cards
<1>1. i \in Slots
    BY CandidatesAreSlots
<1>2. CASE Passes[index] = HidCard
    <2>1. index = 1
        BY <1>2, OnePassEach DEF AssignCardPass, Shape
    <2>2. \A k \in Cards : Ahead(k)
        BY <2>1, OnePassEach DEF Ahead
    <2> QED
        BY <1>1, <2>2 DEF AheadIsUnknown
<1>3. CASE Passes[index] # HidCard
    BY <1>1, <1>3, CardsListed DEF Candidates, UnassignedNonDp
<1> QED
    BY <1>2, <1>3

LEMMA CountStep ==
    Shape /\ AheadIsUnknown /\ ObservedExactlyOnce /\ [Next]_vars
        => AheadIsUnknown' /\ ObservedExactlyOnce'
<1> SUFFICES ASSUME Shape, AheadIsUnknown, ObservedExactlyOnce, [Next]_vars
             PROVE  AheadIsUnknown' /\ ObservedExactlyOnce'
    OBVIOUS
<1> DEFINE SameCounts ==
              /\ observed' = observed /\ detached' = detached
              /\ \A k \in Cards, i \in Slots :
                    slots'[i].identity = k <=> slots[i].identity = k
<1>1. ASSUME SameCounts, \A k \in Cards : Ahead(k)' => Ahead(k)
      PROVE  AheadIsUnknown' /\ ObservedExactlyOnce'
    <2>1. ASSUME NEW k \in Cards
          PROVE  InSlots(k)' = InSlots(k) /\ InDetached(k)' = InDetached(k)
        <3>1. {i \in Slots : slots'[i].identity = k} = {i \in Slots : slots[i].identity = k}
            BY <1>1
        <3> QED
            BY <1>1, <3>1 DEF InSlots, InDetached
    <2>2. AheadIsUnknown'
        BY <1>1 DEF AheadIsUnknown
    <2>3. ObservedExactlyOnce'
        BY <1>1, <2>1 DEF ObservedExactlyOnce
    <2> QED
        BY <2>2, <2>3
<1>2. CASE Hotplug
    BY <1>1, <1>2 DEF Hotplug, Ahead
<1>3. CASE Probe
    <2>1. PICK pd \in PdStates : slots' = [slots EXCEPT ![index] = Probed(pd)]
        BY <1>3 DEF Probe
    <2>2. pc = "probe" /\ pc' = "probe" /\ observed' = observed /\ detached' = detached
        BY <1>3 DEF Probe
    <2>3. \A i \in Slots : slots[i].identity \notin Cards
        BY <2>2 DEF Ahead, AheadIsUnknown
    <2>4. Probed(pd).identity \notin Cards
        BY ProbedTyped, CardsListed
    <2>5. \A i \in Slots : slots'[i].identity \notin Cards
        BY <2>1, <2>3, <2>4 DEF Shape
    <2> QED
        BY <1>1, <2>2, <2>3, <2>5 DEF Ahead
<1>4. CASE EndProbe
    BY <1>1, <1>4 DEF EndProbe, Ahead
<1>5. CASE AssignCardPass
    <2>1. PICK k \in Cards, n \in 0..(SlotCount + MaxLoose) :
              /\ pc = "pass" /\ pc' = "pass" /\ index \in 1..7 /\ index' = index + 1
              /\ k = Passes[index]
              /\ observed' = [observed EXCEPT ![k] = n]
              /\ \/ /\ n = 1 /\ UNCHANGED detached
                    /\ \E i \in Slots : Candidates(k) = {i} /\ Assign(i, k)
                 \/ UNCHANGED slots /\ detached' = PushDetached(k, n)
        BY <1>5, PassCases
    <2>2. /\ Ahead(k) /\ ~Ahead(k)'
          /\ \A other \in Cards : Ahead(other)' => Ahead(other)
        BY <2>1, OnePassEach DEF Ahead
    <2>3. /\ observed'[k] = n /\ n \in Nat
          /\ \A other \in Cards \ {k} : observed'[other] = observed[other]
        BY <2>1, SlotsAreFew DEF Shape
    <2>4. /\ \A i \in Slots : slots[i].identity # k
          /\ \A j \in 1..Len(detached) : detached[j] # k
        BY <2>2 DEF AheadIsUnknown
    <2>5. InSlots(k) = 0 /\ InDetached(k) = 0
        BY <2>4, NoneCounted
    <2>6. CASE n = 1 /\ detached' = detached
                 /\ \E i \in Slots : Candidates(k) = {i} /\ Assign(i, k)
        <3>1. PICK i \in Slots : Candidates(k) = {i} /\ Assign(i, k)
            BY <2>6
        <3>2. slots[i].identity \notin Cards
            BY <1>5, <2>1, <3>1, CandidatesAreNew
        <3>3. /\ InSlots(k)' = 1
              /\ \A other \in Cards \ {k} :
                    /\ InSlots(other)' = InSlots(other)
                    /\ \A j \in Slots :
                          slots'[j].identity = other => slots[j].identity = other
            BY <2>4, <3>1, <3>2, AssignedCount DEF Shape
        <3>4. \A other : InDetached(other)' = InDetached(other)
            BY <2>6 DEF InDetached
        <3>5. AheadIsUnknown'
            BY <2>2, <2>3, <2>6, <3>3 DEF AheadIsUnknown
        <3>6. ObservedExactlyOnce'
            BY <2>3, <2>5, <2>6, <3>3, <3>4 DEF ObservedExactlyOnce
        <3> QED
            BY <3>5, <3>6
    <2>7. CASE UNCHANGED slots /\ detached' = PushDetached(k, n)
        <3>1. /\ InDetached(k)' \in 0..n
              /\ InDetached(k)' < n => Len(detached') = DetachedSlots
              /\ Len(detached') >= Len(detached) /\ Len(detached') <= DetachedSlots
              /\ \A other \in Cards \ {k} :
                    /\ InDetached(other)' = InDetached(other)
                    /\ \A j \in 1..Len(detached') : detached'[j] = other =>
                          \E i \in 1..Len(detached) : detached[i] = other
            BY <2>3, <2>4, <2>7, PushedCount DEF Shape
        <3>2. \A other : InSlots(other)' = InSlots(other)
            BY <2>7 DEF InSlots
        <3>3. AheadIsUnknown'
            BY <2>2, <2>3, <2>7, <3>1 DEF AheadIsUnknown
        <3>4. Len(detached) = DetachedSlots => Len(detached') = DetachedSlots
            BY <3>1, SlotsAreFew, ShapeStep DEF Shape
        <3>5. ObservedExactlyOnce'
            <4>1. /\ InSlots(k)' + InDetached(k)' <= observed'[k]
                  /\ InSlots(k)' + InDetached(k)' < observed'[k] =>
                        Len(detached') = DetachedSlots
                BY <2>3, <2>5, <3>1, <3>2
            <4>2. ASSUME NEW other \in Cards \ {k}
                  PROVE  /\ InSlots(other)' + InDetached(other)' <= observed'[other]
                         /\ InSlots(other)' + InDetached(other)' < observed'[other] =>
                               Len(detached') = DetachedSlots
                BY <2>3, <3>1, <3>2, <3>4 DEF ObservedExactlyOnce
            <4> QED
                BY <4>1, <4>2 DEF ObservedExactlyOnce
        <3> QED
            BY <3>3, <3>5
    <2> QED
        BY <2>1, <2>6, <2>7
<1>6. CASE ApplyCapability
    <2>1. \A i \in Slots : slots'[i].identity = slots[i].identity
        BY <1>6 DEF ApplyCapability, Shape, Slot
    <2>2. /\ observed' = observed /\ detached' = detached
          /\ pc' = "done" /\ index' = Len(Passes) + 1
        BY <1>6 DEF ApplyCapability
    <2>3. ASSUME NEW k \in Cards PROVE ~Ahead(k)'
        <3>1. index'..Len(Passes) = {}
            BY <2>2, OnePassEach
        <3> QED
            BY <2>2, <3>1 DEF Ahead
    <2> QED
        BY <1>1, <2>1, <2>2, <2>3
<1>7. CASE UNCHANGED vars
    BY <1>1, <1>7 DEF vars, machine, Ahead
<1> QED
    BY <1>2, <1>3, <1>4, <1>5, <1>6, <1>7 DEF Next
-----------------------------------------------------------------------------
(* The labels of the slots *)

LEMMA PdTyped ==
    ASSUME slots \in [Slots -> Slot], NEW i \in Slots
    PROVE  /\ slots[i].pd \in PdStates
           /\ slots[i].pd.connected \in BOOLEAN /\ slots[i].pd.dp \in BOOLEAN
BY DEF Slot, PdStates

LEMMA LabelsStep ==
    Shape /\ AheadIsUnknown /\ Labels /\ [Next]_vars => Labels'
<1> SUFFICES ASSUME Shape, AheadIsUnknown, Labels, [Next]_vars PROVE Labels'
    OBVIOUS
<1>1. ASSUME UNCHANGED slots, pc' = "done" <=> pc = "done" PROVE Labels'
    <2>1. PdKept' <=> PdKept
        BY <1>1 DEF PdKept
    <2>2. NonDpSlots' = NonDpSlots /\ UnassignedNonDp' = UnassignedNonDp
        BY <1>1 DEF NonDpSlots, UnassignedNonDp
    <2> QED
        BY <1>1, <2>1, <2>2 DEF Labels, Identified
<1>2. CASE Hotplug
    BY <1>1, <1>2 DEF Hotplug
<1>3. CASE Probe
    <2>1. PICK pd \in PdStates : slots' = [slots EXCEPT ![index] = Probed(pd)]
        BY <1>3 DEF Probe
    <2>2. pc = "probe" /\ pc' = "probe"
        BY <1>3 DEF Probe
    <2>3. \A i \in Slots : slots[i].identity \notin Cards
        BY <2>2 DEF Ahead, AheadIsUnknown
    <2>4. /\ Probed(pd).identity \notin Cards /\ Probed(pd).confidence # "Direct"
          /\ Probed(pd).pd.connected => Probed(pd).identity # "None"
        BY ProbedTyped, CardsListed
    <2>5. \A i \in Slots : ~Identified(i)'
        BY <2>1, <2>3, <2>4 DEF Shape, Identified
    <2>6. \A i \in Slots : slots'[i].confidence = "Direct" =>
                               slots'[i].identity \in {HidCard, "Ssd"}
        BY <2>1, <2>4 DEF Shape, Labels
    <2>7. \A i \in Slots : slots'[i].pd.connected => slots'[i].identity # "None"
        BY <2>1, <2>2, <2>4 DEF Shape, Labels, PdKept
    <2> QED
        BY <2>5, <2>6, <2>7 DEF Labels, NonDpSlots
<1>4. CASE EndProbe
    BY <1>1, <1>4 DEF EndProbe
<1>5. CASE AssignCardPass
    <2>1. PICK k \in Cards : /\ pc = "pass" /\ pc' = "pass"
                             /\ index \in 1..7 /\ k = Passes[index]
                             /\ \/ \E i \in Slots : Candidates(k) = {i} /\ Assign(i, k)
                                \/ UNCHANGED slots
        BY <1>5, PassCases
    <2>2. ASSUME NEW i \in Slots, Candidates(k) = {i}, Assign(i, k) PROVE Labels'
        <3>1. /\ \A j \in Slots : slots'[j].pd = slots[j].pd
              /\ \A j \in Slots \ {i} : slots'[j] = slots[j]
              /\ slots'[i].identity = k /\ slots'[i].confidence = SlotConfidence(k)
            BY <2>2, AssignedTyped DEF Shape
        <3>2. slots'[i].confidence = "Direct" => slots'[i].identity \in {HidCard, "Ssd"}
            BY <3>1 DEF SlotConfidence
        <3>3. NonDpSlots' = NonDpSlots
            BY <3>1 DEF NonDpSlots
        <3>4. k \notin {"None", "UnknownUsbCOccupant"}
            BY CardsListed
        <3>5. PdKept
            BY <2>1 DEF PdKept
        <3>6. CASE k = HidCard
            <4>1. slots[i].pd.dp
                BY <2>2, <3>6 DEF Candidates, DpSlots
            <4>2. \A j \in Slots : slots[j].identity \notin Cards
                <5>1. index = 1
                    BY <2>1, <3>6, DisplaysFirst
                <5> QED
                    BY <5>1, OnePassEach DEF Ahead, AheadIsUnknown
            <4>3. \A j \in NonDpSlots' : ~Identified(j)'
                BY <3>1, <3>3, <4>1, <4>2 DEF NonDpSlots, Identified
            <4>4. \A j \in Slots :
                      /\ slots'[j].pd.connected => slots'[j].identity # "None"
                      /\ Identified(j)' => (slots'[j].pd.dp <=> slots'[j].identity = HidCard)
                      /\ Identified(j)' /\ ~slots'[j].pd.dp => slots'[j].pd.connected
                BY <3>1, <3>4, <3>5, <3>6, <4>1, <4>2 DEF Labels, Identified
            <4> QED
                BY <3>1, <3>2, <4>3, <4>4 DEF Labels
        <3>7. CASE k # HidCard
            <4>1. i \in NonDpSlots /\ UnassignedNonDp = {i}
                BY <2>2, <3>7 DEF Candidates, UnassignedNonDp
            <4>2. slots[i].pd.connected /\ ~slots[i].pd.dp
                BY <4>1 DEF NonDpSlots
            <4>3. ASSUME NEW j \in UnassignedNonDp' PROVE FALSE
                <5>1. j \in NonDpSlots /\ slots'[j].identity = "UnknownUsbCOccupant"
                    BY <3>3, <4>3 DEF UnassignedNonDp
                <5>2. j # i /\ j \in Slots
                    BY <3>1, <3>4, <5>1 DEF NonDpSlots
                <5>3. j \in UnassignedNonDp
                    BY <3>1, <5>1, <5>2 DEF UnassignedNonDp
                <5> QED
                    BY <4>1, <5>2, <5>3
            <4>4. \A j \in Slots :
                      /\ slots'[j].pd.connected => slots'[j].identity # "None"
                      /\ Identified(j)' => (slots'[j].pd.dp <=> slots'[j].identity = HidCard)
                      /\ Identified(j)' /\ ~slots'[j].pd.dp => slots'[j].pd.connected
                BY <3>1, <3>4, <3>5, <3>7, <4>2 DEF Labels, Identified
            <4> QED
                BY <3>1, <3>2, <4>3, <4>4 DEF Labels
        <3> QED
            BY <3>6, <3>7
    <2> QED
        BY <1>1, <2>1, <2>2
<1>6. CASE ApplyCapability
    <2>1. \A i \in Slots : /\ slots'[i].identity = slots[i].identity
                           /\ slots'[i].confidence = slots[i].confidence
                           /\ i \notin Unwired => slots'[i].pd = slots[i].pd
        BY <1>6 DEF ApplyCapability, Shape, Slot
    <2>2. PdKept' => PdKept /\ \A i \in Slots : slots'[i].pd = slots[i].pd
        BY <1>6, <2>1 DEF ApplyCapability, PdKept
    <2>3. \A i \in Slots : slots'[i].confidence = "Direct" =>
                               slots'[i].identity \in {HidCard, "Ssd"}
        BY <2>1 DEF Labels
    <2>4. CASE ~PdKept'
        BY <2>3, <2>4 DEF Labels
    <2>5. CASE PdKept'
        <3>1. NonDpSlots' = NonDpSlots
            BY <2>2, <2>5 DEF NonDpSlots
        <3>2. UnassignedNonDp' = UnassignedNonDp
            BY <2>1, <3>1 DEF UnassignedNonDp, NonDpSlots
        <3>3. \A i \in Slots : Identified(i)' <=> Identified(i)
            BY <2>1 DEF Identified
        <3>4. \A i \in Slots :
                  /\ slots'[i].pd.connected => slots'[i].identity # "None"
                  /\ Identified(i)' => (slots'[i].pd.dp <=> slots'[i].identity = HidCard)
                  /\ Identified(i)' /\ ~slots'[i].pd.dp => slots'[i].pd.connected
            BY <2>1, <2>2, <2>5, <3>3 DEF Labels
        <3>5. (\E i \in NonDpSlots' : Identified(i)') => UnassignedNonDp' = {}
            BY <2>2, <2>5, <3>1, <3>2, <3>3 DEF Labels, NonDpSlots
        <3> QED
            BY <2>3, <3>4, <3>5 DEF Labels
    <2> QED
        BY <2>4, <2>5
<1>7. CASE UNCHANGED vars
    BY <1>1, <1>7 DEF vars
<1> QED
    BY <1>2, <1>3, <1>4, <1>5, <1>6, <1>7 DEF Next

LEMMA ForGoodStep ==
    ASSUME Shape, AheadIsUnknown, [Next]_vars, NEW i \in Slots, Identified(i)
    PROVE  /\ slots'[i].identity = slots[i].identity
           /\ slots'[i].confidence = slots[i].confidence
<1>1. CASE Hotplug \/ EndProbe \/ UNCHANGED vars
    BY <1>1 DEF Hotplug, EndProbe, vars
<1>2. CASE Probe
    BY <1>2 DEF Probe, Ahead, AheadIsUnknown, Identified
<1>3. CASE AssignCardPass
    <2>1. CASE UNCHANGED slots
        BY <2>1
    <2>2. ASSUME NEW k \in Cards, k = Passes[index],
                 NEW j \in Slots, Candidates(k) = {j}, Assign(j, k)
          PROVE  slots'[i] = slots[i]
        <3>1. j # i
            BY <1>3, <2>2, CandidatesAreNew DEF Identified
        <3> QED
            BY <2>2, <3>1, AssignedTyped DEF Shape
    <2> QED
        BY <1>3, <2>1, <2>2, PassCases
<1>4. CASE ApplyCapability
    BY <1>4 DEF ApplyCapability, Shape, Slot
<1> QED
    BY <1>1, <1>2, <1>3, <1>4 DEF Next
-----------------------------------------------------------------------------
(* What the labels are worth when nothing interferes *)

LEMMA Quiet ==
    ASSUME Shape, [Next]_vars, Undisturbed'
    PROVE  /\ Undisturbed /\ ~Hotplug /\ UNCHANGED machine /\ faults' = faults
           /\ \A kinds : NoneLoose(kinds)' <=> NoneLoose(kinds)
<1>1. plugs \in Nat /\ faults \in Nat /\ plugs' = 0 /\ faults' = 0
    BY SlotsAreFew DEF Shape, Undisturbed
<1>2. ~Hotplug
    BY <1>1 DEF Hotplug
<1>3. UNCHANGED machine
    BY <1>2 DEF Next, vars, Probe, EndProbe, AssignCardPass, ApplyCapability, machine
<1>4. faults' = faults \/ faults' = faults + 1
    <2>1. CASE Probe
        BY <2>1 DEF Probe, QueryPdPortState
    <2>2. CASE AssignCardPass
        BY <2>2 DEF AssignCardPass, Enumerate
    <2>3. CASE EndProbe \/ ApplyCapability \/ UNCHANGED vars
        BY <2>3 DEF EndProbe, ApplyCapability, vars
    <2> QED
        BY <1>2, <2>1, <2>2, <2>3 DEF Next
<1>5. faults = 0 /\ faults' = faults
    BY <1>1, <1>4
<1>6. Undisturbed
    BY <1>1, <1>3, <1>5 DEF Undisturbed, machine
<1>7. \A kinds : NoneLoose(kinds)' <=> NoneLoose(kinds)
    BY <1>3 DEF NoneLoose, machine
<1> QED
    BY <1>2, <1>3, <1>5, <1>6, <1>7

\* Without look-alikes outside, an enumeration counts the cards in the slots.
LEMMA OnePresent ==
    ASSUME Shape, Undisturbed, NEW k \in Cards, NoneLoose({k})
    PROVE  /\ Present(k) = 1 => \E i \in Slots : port[i] = k
           /\ \A i \in Slots : port[i] = k /\ (\A j \in Slots : port[j] = k => j = i)
                 => Present(k) = 1
<1> DEFINE holders == {i \in Slots : port[i] = k}
<1>1. {i \in Slots : port[i] = k \/ (k = HidCard /\ port[i] = "IdleHid")} = holders
    BY DEF Undisturbed
<1>2. IsFiniteSet(holders) /\ Cardinality(holders) \in Nat
    BY SlotsAreFew, FS_Subset, FS_CardinalityType
<1>3. (IF k \in LooseKinds THEN loose[k] ELSE 0) = 0
    BY DEF NoneLoose
<1>4. Present(k) = Cardinality(holders)
    <2>1. Present(k) = Cardinality(holders) + 0
        BY <1>1, <1>3 DEF Present
    <2> QED
        BY <1>2, <2>1
<1>5. ASSUME Present(k) = 1 PROVE \E i \in Slots : port[i] = k
    <2>1. PICK i : holders = {i}
        BY <1>2, <1>4, <1>5, FS_Singleton
    <2>2. i \in holders
        BY <2>1
    <2> QED
        BY <2>2
<1>6. ASSUME NEW i \in Slots, port[i] = k, \A j \in Slots : port[j] = k => j = i
      PROVE  Present(k) = 1
    <2>1. holders = {i}
        BY <1>6
    <2> QED
        BY <1>4, <2>1, FS_Singleton
<1> QED
    BY <1>5, <1>6

LEMMA LinksOfCards ==
    ASSUME NEW k \in Cards
    PROVE  LinkOf(k).connected /\ (LinkOf(k).dp <=> k = HidCard)
BY CardsListed DEF LinkOf, HidCard

\* While one slot is still a candidate, every slot with a USB card is.
LEMMA UsbIsCandidate ==
    ASSUME Shape, Labels, LinksSeen, pc = "pass", UnassignedNonDp # {},
           NEW i \in Slots, port[i] \in Cards \ {HidCard}
    PROVE  i \in UnassignedNonDp
<1>1. slots[i].pd = LinkOf(port[i])
    BY DEF LinksSeen
<1>2. slots[i].pd.connected /\ ~slots[i].pd.dp
    BY <1>1, LinksOfCards
<1>3. i \in NonDpSlots
    BY <1>2 DEF NonDpSlots
<1>4. ~Identified(i) /\ slots[i].identity # "None"
    BY <1>2, <1>3 DEF Labels, PdKept
<1>5. slots[i].identity \in Identities
    BY DEF Shape, Slot
<1> QED
    BY <1>3, <1>4, <1>5 DEF UnassignedNonDp, Identities, Identified

\* One card, one candidate: the card is there.
LEMMA RightPlace ==
    ASSUME Shape, Labels, LinksSeen, Undisturbed, pc = "pass", NEW k \in Cards,
           NEW i \in Slots, Candidates(k) = {i}, Present(k) = 1, NoneLoose({k})
    PROVE  port[i] = k
<1>1. PICK j \in Slots : port[j] = k
    BY OnePresent
<1>2. CASE k = HidCard
    <2>1. slots[j].pd.dp
        BY <1>1, <1>2, LinksOfCards DEF LinksSeen
    <2>2. j \in Candidates(k)
        BY <1>2, <2>1 DEF Candidates, DpSlots
    <2> QED
        BY <1>1, <2>2
<1>3. CASE k # HidCard
    <2>1. UnassignedNonDp = {i}
        BY <1>3 DEF Candidates
    <2>2. j \in UnassignedNonDp
        BY <1>1, <1>3, <2>1, UsbIsCandidate
    <2> QED
        BY <1>1, <2>1, <2>2
<1> QED
    BY <1>2, <1>3

\* The only candidate is found by the pass for its card.
LEMMA OnlyOneOfItsKind ==
    ASSUME Shape, Labels, LinksSeen, Undisturbed, pc = "pass", NEW i \in Slots,
           port[i] \in Cards \ {HidCard}, UnassignedNonDp = {i}, NoneLoose({port[i]})
    PROVE  Match(Present(port[i]), Candidates(port[i]))
<1>1. \A j \in Slots : port[j] = port[i] => j = i
    BY UsbIsCandidate
<1>2. Present(port[i]) = 1
    BY <1>1, OnePresent
<1>3. Candidates(port[i]) = {i}
    BY DEF Candidates
<1> QED
    BY <1>2, <1>3, FS_Singleton DEF Match

LEMMA TruthProbe ==
    ASSUME Shape, AheadIsUnknown', Probe, Undisturbed, LinksSeen, UNCHANGED machine,
           faults' = faults
    PROVE  LinksSeen' /\ LabelsTrue' /\ FoundInTime'
<1>1. PICK pd \in PdStates : QueryPdPortState(index, pd)
                                /\ slots' = [slots EXCEPT ![index] = Probed(pd)]
    BY DEF Probe
<1>2. /\ index \in Slots /\ index \in Nat /\ index' = index + 1
      /\ pc = "probe" /\ pc' = "probe" /\ port' = port
    BY SlotsAreFew DEF Probe, Shape, Slots, machine
<1>3. pd \in Reported(index)
    BY <1>1 DEF QueryPdPortState, Undisturbed
<1>4. pd = LinkOf(port[index])
    BY <1>2, <1>3 DEF Reported, Undisturbed
<1>5. slots'[index].pd = LinkOf(port[index])
    BY <1>1, <1>2, <1>4, ProbedTyped DEF Shape
<1>6. ASSUME NEW i \in Slots, i < index' PROVE slots'[i].pd = LinkOf(port'[i])
    <2>1. CASE i = index
        BY <1>2, <1>5, <2>1
    <2>2. CASE i # index
        <3>1. i < index
            BY <1>2, <1>6, <2>2, SlotsAreFew
        <3>2. slots'[i] = slots[i]
            BY <1>1, <2>2 DEF Shape
        <3> QED
            BY <1>2, <3>1, <3>2 DEF LinksSeen
    <2> QED
        BY <2>1, <2>2
<1>7. LinksSeen'
    BY <1>2, <1>6 DEF LinksSeen
<1>8. \A i \in Slots : slots'[i].identity \notin Cards
    BY <1>2 DEF Ahead, AheadIsUnknown
<1>9. LabelsTrue'
    BY <1>8 DEF LabelsTrue, Identified
<1>10. FoundInTime'
    BY <1>2, <1>8, OnePassEach DEF FoundInTime
<1> QED
    BY <1>7, <1>9, <1>10

LEMMA TruthPass ==
    ASSUME Shape, AheadIsUnknown, Labels, Labels', AssignCardPass,
           Undisturbed, LinksSeen, LabelsTrue, FoundInTime,
           UNCHANGED machine, faults' = faults
    PROVE  LinksSeen' /\ LabelsTrue' /\ FoundInTime'
<1>1. PICK k \in Cards, n \in 0..(SlotCount + MaxLoose) :
          /\ pc = "pass" /\ pc' = "pass" /\ index \in 1..7 /\ index' = index + 1
          /\ k = Passes[index] /\ Enumerate(k, n)
          /\ \/ /\ Match(n, Candidates(k)) /\ n = 1
                /\ \E i \in Slots : Candidates(k) = {i} /\ Assign(i, k)
             \/ ~Match(n, Candidates(k)) /\ UNCHANGED slots
    BY PassCases
<1>2. n = Present(k)
    BY <1>1 DEF Enumerate, Undisturbed
<1>3. port' = port /\ loose' = loose
    BY DEF machine
<1>4. \A kinds : NoneLoose(kinds)' <=> NoneLoose(kinds)
    BY <1>3 DEF NoneLoose
<1>5. CASE ~Match(n, Candidates(k)) /\ UNCHANGED slots
    <2>1. LinksSeen'
        BY <1>1, <1>3, <1>5 DEF LinksSeen
    <2>2. LabelsTrue'
        BY <1>3, <1>4, <1>5 DEF LabelsTrue, Identified
    <2>3. UnassignedNonDp' = UnassignedNonDp
        BY <1>5 DEF UnassignedNonDp, NonDpSlots
    <2>4. ASSUME NEW i \in Slots, NEW m \in 2..Len(Passes),
                 port'[i] = Passes[m], NoneLoose({Passes[m]})'
          PROVE  /\ \A j \in 1..Len(Passes) : slots'[i].identity = Passes[j] => j <= m
                 /\ m < index' => UnassignedNonDp' # {i}
        <3>1. port[i] = Passes[m] /\ NoneLoose({Passes[m]})
            BY <1>3, <1>4, <2>4
        <3>2. \A j \in 1..Len(Passes) : slots'[i].identity = Passes[j] => j <= m
            BY <1>5, <3>1 DEF FoundInTime
        <3>3. m < index => UnassignedNonDp # {i}
            BY <1>1, <3>1 DEF FoundInTime
        <3>4. ASSUME m = index, UnassignedNonDp = {i} PROVE FALSE
            <4>1. m \in 1..7 /\ m # 1
                BY OnePassEach
            <4>2. port[i] = k /\ k # HidCard
                BY <1>1, <3>1, <3>4, <4>1, DisplaysFirst
            <4> QED
                BY <1>1, <1>2, <1>5, <3>1, <3>4, <4>2, OnlyOneOfItsKind
        <3>5. m < index' => m < index \/ m = index
            BY <1>1, OnePassEach
        <3> QED
            BY <2>3, <3>2, <3>3, <3>4, <3>5
    <2>5. FoundInTime'
        BY <2>4 DEF FoundInTime
    <2> QED
        BY <2>1, <2>2, <2>5
<1>6. ASSUME NEW c \in Slots, Match(n, Candidates(k)), n = 1,
             Candidates(k) = {c}, Assign(c, k)
      PROVE  LinksSeen' /\ LabelsTrue' /\ FoundInTime'
    <2>1. /\ \A j \in Slots : slots'[j].pd = slots[j].pd
          /\ \A j \in Slots \ {c} : slots'[j] = slots[j]
          /\ slots'[c].identity = k
        BY <1>6, AssignedTyped DEF Shape
    <2>2. LinksSeen'
        BY <1>1, <1>3, <2>1 DEF LinksSeen
    <2>3. NoneLoose({k}) => port[c] = k
        BY <1>1, <1>2, <1>6, RightPlace
    <2>4. LabelsTrue'
        BY <1>3, <1>4, <2>1, <2>3 DEF LabelsTrue, Identified
    <2>5. k # HidCard => UnassignedNonDp = {c} /\ UnassignedNonDp' = {}
        <3> SUFFICES ASSUME k # HidCard
                     PROVE  UnassignedNonDp = {c} /\ UnassignedNonDp' = {}
            OBVIOUS
        <3>1. UnassignedNonDp = {c}
            BY <1>6 DEF Candidates
        <3>2. c \in NonDpSlots'
            BY <2>1, <3>1 DEF UnassignedNonDp, NonDpSlots
        <3>3. Identified(c)' /\ PdKept'
            BY <1>1, <2>1 DEF Identified, PdKept
        <3> QED
            BY <3>1, <3>2, <3>3 DEF Labels
    <2>6. ASSUME NEW i \in Slots, NEW m \in 2..Len(Passes),
                 port'[i] = Passes[m], NoneLoose({Passes[m]})'
          PROVE  /\ \A j \in 1..Len(Passes) : slots'[i].identity = Passes[j] => j <= m
                 /\ m < index' => UnassignedNonDp' # {i}
        <3>1. port[i] = Passes[m] /\ NoneLoose({Passes[m]})
            BY <1>3, <1>4, <2>6
        <3>2. k = HidCard => index = 1
            BY <1>1, DisplaysFirst
        <3>3. m < index' => UnassignedNonDp' # {i}
            <4>1. k = HidCard => ~(m < index')
                BY <1>1, <3>2, OnePassEach
            <4> QED
                BY <2>5, <4>1
        <3>4. ASSUME NEW j \in 1..Len(Passes), slots'[i].identity = Passes[j]
              PROVE  j <= m
            <4>1. CASE i # c
                BY <2>1, <3>1, <3>4, <4>1 DEF FoundInTime
            <4>2. CASE i = c
                <5>1. j = index
                    BY <1>1, <2>1, <3>4, <4>2, OnePassEach
                <5>2. CASE index = 1
                    BY <5>1, <5>2, OnePassEach
                <5>3. CASE index # 1
                    <6>1. UnassignedNonDp = {i}
                        BY <2>5, <3>2, <4>2, <5>3
                    <6>2. ~(m < index)
                        BY <1>1, <3>1, <6>1 DEF FoundInTime
                    <6> QED
                        BY <1>1, <5>1, <6>2, OnePassEach
                <5> QED
                    BY <5>2, <5>3
            <4> QED
                BY <4>1, <4>2
        <3> QED
            BY <3>3, <3>4
    <2>7. FoundInTime'
        BY <2>6 DEF FoundInTime
    <2> QED
        BY <2>2, <2>4, <2>7
<1> QED
    BY <1>1, <1>5, <1>6

LEMMA TruthStep ==
    ASSUME Shape, AheadIsUnknown, AheadIsUnknown', Labels, Labels', Truthful, [Next]_vars
    PROVE  Truthful'
<1> SUFFICES ASSUME Undisturbed' PROVE LinksSeen' /\ LabelsTrue' /\ FoundInTime'
    BY DEF Truthful
<1>1. /\ Undisturbed /\ ~Hotplug /\ UNCHANGED machine /\ faults' = faults
      /\ \A kinds : NoneLoose(kinds)' <=> NoneLoose(kinds)
    BY Quiet
<1>2. LinksSeen /\ LabelsTrue /\ FoundInTime
    BY <1>1 DEF Truthful
<1>3. port' = port
    BY <1>1 DEF machine
<1>4. CASE Probe
    BY <1>1, <1>2, <1>4, TruthProbe
<1>5. CASE AssignCardPass
    BY <1>1, <1>2, <1>5, TruthPass
<1>6. CASE EndProbe
    <2>1. /\ slots' = slots /\ pc = "probe" /\ pc' = "pass" /\ index = SlotCount
          /\ index' = 1
        BY <1>6 DEF EndProbe
    <2>2. \A i \in Slots : i < index
        BY <2>1, SlotsAreFew DEF Slots
    <2>3. LinksSeen'
        BY <1>2, <1>3, <2>1, <2>2 DEF LinksSeen
    <2>4. LabelsTrue'
        BY <1>1, <1>2, <1>3, <2>1 DEF LabelsTrue, Identified
    <2>5. \A m \in 2..Len(Passes) : ~(m < index')
        BY <2>1, OnePassEach
    <2>6. FoundInTime'
        BY <1>1, <1>2, <1>3, <2>1, <2>5 DEF FoundInTime
    <2> QED
        BY <2>3, <2>4, <2>6
<1>7. CASE ApplyCapability
    <2>1. \A i \in Slots : /\ slots'[i].identity = slots[i].identity
                           /\ slots'[i].pd = slots[i].pd
        BY <1>1, <1>7 DEF ApplyCapability, Shape, Slot, Undisturbed
    <2>2. pc = "pass" /\ pc' = "done" /\ index' = index
        BY <1>7 DEF ApplyCapability
    <2>3. UnassignedNonDp' = UnassignedNonDp
        BY <2>1 DEF UnassignedNonDp, NonDpSlots
    <2>4. LinksSeen'
        BY <1>2, <1>3, <2>1, <2>2 DEF LinksSeen
    <2>5. LabelsTrue'
        BY <1>1, <1>2, <1>3, <2>1 DEF LabelsTrue, Identified
    <2>6. FoundInTime'
        BY <1>1, <1>2, <1>3, <2>1, <2>2, <2>3 DEF FoundInTime
    <2> QED
        BY <2>4, <2>5, <2>6
<1>8. CASE UNCHANGED vars
    <2>1. slots' = slots /\ pc' = pc /\ index' = index
        BY <1>8 DEF vars
    <2>2. UnassignedNonDp' = UnassignedNonDp
        BY <2>1 DEF UnassignedNonDp, NonDpSlots
    <2>3. LinksSeen' /\ LabelsTrue'
        BY <1>1, <1>2, <1>3, <2>1 DEF LinksSeen, LabelsTrue, Identified
    <2>4. FoundInTime'
        BY <1>1, <1>2, <1>3, <2>1, <2>2 DEF FoundInTime
    <2> QED
        BY <2>3, <2>4
<1> QED
    BY <1>1, <1>4, <1>5, <1>6, <1>7, <1>8 DEF Next
-----------------------------------------------------------------------------
(* The theorems *)

LEMMA InitInv == Init => IInv
<1> SUFFICES ASSUME Init PROVE IInv
    OBVIOUS
<1>1. Shape
    BY InitShape
<1>2. /\ \A i \in Slots : slots[i].identity = "None" /\ slots[i].confidence = "Unknown"
      /\ \A i \in Slots : slots[i].pd = DefaultPd
      /\ detached = << >> /\ pc = "probe" /\ index = 0
      /\ \A k \in Cards : observed[k] = 0
    BY DEF Init, DefaultSlot
<1>3. \A i \in Slots : slots[i].identity \notin Cards
    BY <1>2, CardsListed
<1>4. 1..Len(detached) = {}
    BY <1>2
<1>5. AheadIsUnknown
    BY <1>2, <1>3, <1>4 DEF AheadIsUnknown
<1>6. \A k \in Cards : InSlots(k) = 0 /\ InDetached(k) = 0
    BY <1>3, <1>4, NoneCounted
<1>7. ObservedExactlyOnce
    BY <1>2, <1>6 DEF ObservedExactlyOnce
<1>8. Labels
    BY <1>2, <1>3 DEF Labels, Identified, NonDpSlots, DefaultPd
<1>9. LinksSeen
    <2>1. \A i \in Slots : ~(i < index)
        BY <1>2, SlotsAreFew
    <2> QED
        BY <1>2, <2>1 DEF LinksSeen
<1>10. LabelsTrue
    BY <1>3 DEF LabelsTrue, Identified
<1>11. FoundInTime
    BY <1>2, <1>3, OnePassEach DEF FoundInTime
<1> QED
    BY <1>1, <1>5, <1>7, <1>8, <1>9, <1>10, <1>11 DEF IInv, Truthful

LEMMA InvHolds == Spec => []IInv
<1>1. IInv /\ [Next]_vars => IInv'
    <2> SUFFICES ASSUME IInv, [Next]_vars PROVE IInv'
        OBVIOUS
    <2>1. Shape' /\ AheadIsUnknown' /\ ObservedExactlyOnce' /\ Labels'
        BY ShapeStep, CountStep, LabelsStep DEF IInv
    <2>2. Truthful'
        BY <2>1, TruthStep DEF IInv
    <2> QED
        BY <2>1, <2>2 DEF IInv
<1> QED
    BY <1>1, InitInv, PTL DEF Spec

\* Types, for any number of slots and of cards outside: the fields of a slot keep
\* theirs, and the detached array is never overrun.
THEOREM SlotsTypeOK == Spec => []TypeOK
<1>1. IInv => TypeOK
    <2> SUFFICES ASSUME IInv PROVE TypeOK
        OBVIOUS
    <2>1. index \in 0..(SlotCount + Len(Passes) + 1)
        <3>1. index \in 0..SlotCount \/ index \in 1..(Len(Passes) + 1)
            BY OnePassEach DEF IInv, Shape
        <3> QED
            BY <3>1, SlotsAreFew, OnePassEach
    <2> QED
        BY <2>1 DEF IInv, Shape, TypeOK
<1> QED
    BY <1>1, InvHolds, PTL

\* Whatever is plugged or fails during the build: a card that a pass enumerated is
\* in the inventory once, in a slot or detached, and only a full detached array
\* loses one (assign_card_pass, push_detached_module).
THEOREM EveryCardIsListedOnce == Spec => []ObservedExactlyOnce
<1>1. IInv => ObservedExactlyOnce
    BY DEF IInv
<1> QED
    BY <1>1, InvHolds, PTL

\* No pass takes over a slot that an earlier one identified, in any build.
THEOREM SlotsAreLocked == Spec => IdentifiedForGood
<1>1. IInv /\ [Next]_vars =>
        [\A i \in Slots : Identified(i) =>
            /\ slots'[i].identity = slots[i].identity
            /\ slots'[i].confidence = slots[i].confidence]_vars
    <2> SUFFICES ASSUME IInv, [Next]_vars, NEW i \in Slots, Identified(i)
                 PROVE  /\ slots'[i].identity = slots[i].identity
                        /\ slots'[i].confidence = slots[i].confidence
        OBVIOUS
    <2> QED
        BY ForGoodStep DEF IInv
<1> QED
    BY <1>1, InvHolds, PTL DEF Spec, IdentifiedForGood

\* In an undisturbed build, with look-alikes of the generic cards only outside the
\* slots, no label covers up a 1st generation display card, an audio card or an SSD:
\* its own pass comes first and would have found it.
THEOREM NoGenuineCardIsMislabelled == Spec => []GenuineNeverMislabelled
<1>1. IInv => GenuineNeverMislabelled
    <2> SUFFICES ASSUME IInv, Undisturbed, NoneLoose(Unmistakable),
                        NEW i \in Slots, port[i] \in Unmistakable, Identified(i)
                 PROVE  slots[i].identity = port[i]
        BY DEF GenuineNeverMislabelled
    <2>1. Labels /\ LinksSeen /\ LabelsTrue /\ FoundInTime /\ PdKept
        BY DEF IInv, Truthful, Undisturbed, PdKept
    <2>2. slots[i].pd = LinkOf(port[i])
        <3>1. pc # "probe"
            <4>1. ~Ahead(slots[i].identity)
                BY DEF IInv, AheadIsUnknown, Identified
            <4> QED
                BY <4>1 DEF Ahead
        <3> QED
            BY <2>1, <3>1 DEF LinksSeen
    <2>3. port[i] \in Cards
        BY CardsListed DEF Unmistakable, HidCard
    <2>4. CASE port[i] = HidCard
        BY <2>1, <2>2, <2>3, <2>4, LinksOfCards DEF Labels
    <2>5. CASE port[i] # HidCard
        <3>1. PICK m \in 2..3 : port[i] = Passes[m]
            BY <2>5, PassesListed DEF Unmistakable, HidCard
        <3>2. NoneLoose({Passes[m]})
            BY <3>1 DEF NoneLoose
        <3>3. m \in 2..Len(Passes)
            BY OnePassEach
        <3>4. PICK j \in 1..7 : slots[i].identity = Passes[j]
            BY OnePassEach DEF Identified
        <3>5. j <= m
            BY <2>1, <3>1, <3>2, <3>3, <3>4, OnePassEach DEF FoundInTime
        <3>6. j = 1 \/ j = 2 \/ j = 3
            BY <3>5
        <3>7. slots[i].identity \in Unmistakable
            BY <3>4, <3>6, PassesListed DEF Unmistakable, HidCard
        <3>8. NoneLoose({slots[i].identity})
            BY <3>7 DEF NoneLoose
        <3> QED
            BY <2>1, <3>8 DEF LabelsTrue
    <2> QED
        BY <2>4, <2>5
<1> QED
    BY <1>1, InvHolds, PTL

\* In an undisturbed build a slot that is reported with Direct confidence holds the
\* card it is reported to hold, unless a second display card or SSD is outside.
THEOREM DirectLabelsAreTrue == Spec => []DirectIsTrue
<1>1. IInv => DirectIsTrue
    <2> SUFFICES ASSUME IInv, Undisturbed, NoneLoose({HidCard, "Ssd"}),
                        NEW i \in Slots, slots[i].confidence = "Direct"
                 PROVE  slots[i].identity = port[i]
        BY DEF DirectIsTrue
    <2>1. slots[i].identity \in {HidCard, "Ssd"}
        BY DEF IInv, Labels
    <2>2. Identified(i) /\ NoneLoose({slots[i].identity})
        BY <2>1, CardsListed DEF Identified, HidCard, NoneLoose
    <2> QED
        BY <2>2 DEF IInv, Truthful, LabelsTrue
<1> QED
    BY <1>1, InvHolds, PTL

\* In an undisturbed build with nothing outside the slots, the only occupant without
\* a display is identified, if it is a card that enumerates at all.
THEOREM LoneCardIsPlaced == Spec => []SoleCardIsPlaced
<1>1. IInv => SoleCardIsPlaced
    <2> SUFFICES ASSUME IInv, pc = "done", Undisturbed, NoneLoose(Cards),
                        NEW i \in Slots, NEW k \in Cards, Sole(i, k)
                 PROVE  slots[i].identity = k
        BY DEF SoleCardIsPlaced
    <2>1. Labels /\ LinksSeen /\ LabelsTrue /\ FoundInTime /\ PdKept
        BY DEF IInv, Truthful, Undisturbed, PdKept
    <2>2. /\ port[i] = k /\ k \in Cards \ {HidCard} /\ NoneLoose({k})
          /\ \A j \in Slots \ {i} : LinkOf(port[j]).connected => LinkOf(port[j]).dp
        <3>1. HidCard \notin UsbKinds
            BY DEF UsbKinds, HidCard
        <3> QED
            BY <3>1 DEF Sole, NoneLoose
    <2>3. \A j \in Slots : slots[j].pd = LinkOf(port[j])
        BY <2>1 DEF LinksSeen
    <2>4. \A j \in NonDpSlots : j = i
        BY <2>2, <2>3 DEF NonDpSlots
    <2>5. slots[i].pd.connected /\ ~slots[i].pd.dp
        BY <2>2, <2>3, LinksOfCards
    <2>6. Identified(i)
        <3> SUFFICES ASSUME ~Identified(i) PROVE FALSE
            OBVIOUS
        <3>1. slots[i].identity = "UnknownUsbCOccupant"
            <4>1. slots[i].identity \in Identities
                BY DEF IInv, Shape, Slot
            <4> QED
                BY <2>1, <2>5, <4>1 DEF Labels, Identified, Identities
        <3>2. UnassignedNonDp = {i}
            BY <2>4, <2>5, <3>1 DEF UnassignedNonDp, NonDpSlots
        <3>3. PICK m \in 2..7 : Passes[m] = k
            BY <2>2, OnePassEach
        <3>4. m \in 2..Len(Passes) /\ m < index
            BY OnePassEach DEF IInv, Shape
        <3> QED
            BY <2>1, <2>2, <3>2, <3>3, <3>4 DEF FoundInTime
    <2>7. NoneLoose({slots[i].identity})
        BY <2>6 DEF NoneLoose, Identified
    <2> QED
        BY <2>1, <2>2, <2>6, <2>7 DEF LabelsTrue
<1> QED
    BY <1>1, InvHolds, PTL
=============================================================================
