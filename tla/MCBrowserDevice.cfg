CONSTANTS
    None = None
    Tabs = {t1, t2}
    Owners = {o1}
    People = {o1, o2}
    Calls = {c1, c2, c3}
    Operations = {"ensureReady", "use", "acceptLoss"}
    MaxDevices = 2
    MaxEvents = 1
SPECIFICATION Spec
INVARIANTS SingleWriter NoOrphanView NothingHangs
PROPERTIES DeviceKeepsIdentity
SYMMETRY Symmetry
CHECK_DEADLOCK FALSE
