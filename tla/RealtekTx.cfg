SPECIFICATION ChipSpec
CONSTANTS
    num_tx_desc = 3
    MAX_SKB_FRAGS = 1
    CounterSpan = 8
    PtrSpan = 4
    KEEP_COUNT = 1
    RequireLSOPatch = FALSE
    Setups = {{}, {"msix", "unplug"}}
    MaxFlap = 1
INVARIANTS TypeOK RingBound ChipOrder
PROPERTY TxCleaned
CHECK_DEADLOCK FALSE
