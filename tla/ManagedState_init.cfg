SPECIFICATION MSpec
CONSTANTS
    Readers = {r1}
    Writers = {w1}
    MaxSlot = 0
    MaxPub = 1
INVARIANT
    InitializedOnce
CHECK_DEADLOCK FALSE
