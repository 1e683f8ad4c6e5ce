SPECIFICATION Spec
CONSTANTS
    Strategies = {smart_hodler, mean_reversion}
    MaxOrders = 2
    MaxRecords = 4
    RecoveryAge = 1
    LostAge = 2
    MaxFaults = 1
    smart_hodler = smart_hodler
    mean_reversion = mean_reversion
INVARIANTS TypeOK OneRecordPerOrder
PROPERTIES RecordsSettle OrphansCancelled
