SPECIFICATION KernelSpec
CONSTANTS
    num_tx_desc = 2
    MAX_SKB_FRAGS = 0
    CounterSpan = 6
    PtrSpan = 3
    KEEP_COUNT = 0
    RequireLSOPatch = FALSE
    Setups = {{"msix", "watchdog"}, {"msix", "watchdog", "forced"}}
    MaxFlap = 0
PROPERTY QueueWakes
CHECK_DEADLOCK FALSE
