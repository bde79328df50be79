SPECIFICATION FairSpec
CONSTANTS
    VM_MAX_SLOTS = 3
    Quotas = {0, 1, 2}
    DefaultQuota = 1
    SCHED_CREDITS_PER_PCT = 1
PROPERTIES EverySlotServed
