SPECIFICATION Spec
CONSTANTS
    SlotCount = 3
    DetachedSlots = 3
    Occupants <- Mixed
    LooseKinds <- Dock
    MaxLoose = 1
    Platform = "Laptop"
    MaxPlugs = 1
    MaxFaults = 1
INVARIANTS TypeOK ObservedExactlyOnce GenuineNeverMislabelled DirectIsTrue SoleCardIsPlaced
PROPERTY IdentifiedForGood
CHECK_DEADLOCK FALSE
