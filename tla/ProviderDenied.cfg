SPECIFICATION DeliverySpec
CONSTANT MaxTransientRetries = 1
CHECK_DEADLOCK FALSE
INVARIANTS
    AuthenticationStops
