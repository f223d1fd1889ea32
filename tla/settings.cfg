SPECIFICATION Spec
CONSTANTS
    Threads = {t1, t2}
    Words = {w1, w2}
    FanCount = 2
    MaxU8 = 3
    PortCount = 2
    MaxI32 = 4
    MinI32 <- LowestI32
    Percents = {0, 100, 101}
    Thresholds <- StatesOfCharge
    GpioNames = {"lid"}
    Nothing = Nothing
INVARIANT TypeOK
PROPERTIES ImplementsRequests EveryCallReturns
