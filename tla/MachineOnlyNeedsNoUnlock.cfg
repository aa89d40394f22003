SPECIFICATION Spec
CONSTANTS
    MachineKeys = {k1, k2, k3}
    Wrappings = {w1, w2}
    None = none
    MaxGeneration = 4
    Records = {r1, r2}
INVARIANT
    MachineOnlyNeedsNoUnlock
