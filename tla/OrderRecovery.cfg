\* Refused, garbled and unconnected POSTs, failing record updates and crashes up to
\* the recorded fill; recovery comes before the next tick.
CONSTANTS
    OpenQty = 3
    ScaleQty = 1
    MaxAttempts = 3
    MaxOrders = 4
    Faults = {"garbled", "unsent", "update", "crash"}
SPECIFICATION FairSpec
INVARIANTS TypeOK Settled ActsOnHoldings
PROPERTIES Resolved
