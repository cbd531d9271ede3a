CONSTANTS
    None = None
    Calls = {c1, c2, c3}
    Operations = {"create", "send", "intro"}
    Items = 2
    Devices = {1, 2}
    MaxFaults = 1
SPECIFICATION Spec
INVARIANTS OneRoom OnceInOrder
PROPERTIES ProgressIsKept
SYMMETRY CallSymmetry
CHECK_DEADLOCK FALSE
