\* A worker that keeps its components while the reconciliation repairs the rows.
CONSTANTS
    OpenQty = 3
    ScaleQty = 1
    MaxAttempts = 3
    MaxOrders = 4
    Faults = {"garbled", "stale"}
SPECIFICATION Spec
INVARIANTS Settled
