SPECIFICATION Spec
CONSTANTS
    SlotCount = 2
    DetachedSlots = 4
    Occupants <- Steady
    LooseKinds <- Dock
    MaxLoose = 0
    Platform = "Desktop"
    MaxPlugs = 0
    MaxFaults = 0
INVARIANT UnwiredByCapabilityAlone
CHECK_DEADLOCK FALSE
