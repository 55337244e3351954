SPECIFICATION DeliverySpec
CONSTANT MaxTransientRetries = 3
CHECK_DEADLOCK FALSE
INVARIANTS
    RepeatedWithoutEffect
    StopIsWarranted
