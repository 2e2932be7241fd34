SPECIFICATION CondVarSpec
CONSTANTS
    Waiters = {w1, w2}
    Notifiers = {n1}
    Free = Free
INVARIANT NotifiedIsAwake
