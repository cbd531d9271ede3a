CONSTANTS
    Nobody = Nobody
    AppTabs = {t1, t2}
    MaxAppEvents = 2
    MaxFaults = 1
SPECIFICATION AppSpec
INVARIANTS RouteHasDevice
PROPERTIES FocusedTabSettles
CHECK_DEADLOCK FALSE
