SPECIFICATION Spec
CONSTANTS
    Services = 2
    Addresses = 2
    Taken = {1}
    MaxEdits = 1
    MaxPods = 2
    MaxFaults = 1
INVARIANTS
    NoSharedEip
    FipHasEip
PROPERTIES
    Settles
