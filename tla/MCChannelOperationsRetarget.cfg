CONSTANTS
    None = None
    Calls = {c1, c2}
    Operations = {"intro"}
    Items = 2
    Devices = {1, 2}
    MaxFaults = 1
SPECIFICATION Spec
INVARIANTS NeverResent
SYMMETRY CallSymmetry
CHECK_DEADLOCK FALSE
