SPECIFICATION Spec
CONSTANTS
    Records = {r1, r2}
    Addresses = {a1, a2, a3, a4}
    Null = Null
    Dangling = Dangling
    PeripheralSlots = 2
    SmartFields = 3
    BatteryFields = 2
    MaxPeripherals = 3
    Library = Library
    NoRecord = NoRecord
SYMMETRY Symmetries
INVARIANTS TypeOK FreesHitTheirOwn HeapIsAccountedFor
CHECK_DEADLOCK FALSE
