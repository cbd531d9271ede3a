--------------------------- MODULE MCBrowserDevice ---------------------------
EXTENDS BrowserDevice, TLC

\* Tabs, owners and calls are interchangeable.
Symmetry == Permutations(Tabs) \cup Permutations(Owners) \cup Permutations(Calls)
=============================================================================
