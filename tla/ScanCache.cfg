CONSTANTS
    Dirs = {Root, Inner, Leaf}
    Root = Root
    Inner = Inner
    Leaf = Leaf
    Parent <- MCParent
    Names = {video}
    NoEntry = NoEntry
    Missing = Missing
    Damaged = Damaged
    MaxScans = 3
    MaxTime = 2
    MaxChanges = 2
    MaxFaults = 1
SPECIFICATION Spec
INVARIANTS EntriesTrue ScanFindsAll
PROPERTIES NotListedAgain
CHECK_DEADLOCK FALSE
