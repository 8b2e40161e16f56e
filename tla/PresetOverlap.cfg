\* Saves of two operators overlap each other and the collector.
CONSTANTS
    r1 = r1
    r2 = r2
    r3 = r3
    w1 = w1
    w2 = w2
    w3 = w3
    Row = {r1, r2, r3}
    Value = {0, 1}
    Accepted = {0, 1}
    Default = 0
    Collected = {1}
    Writer = {w1, w2}
    Autocommit = {w2}
    Nobody = Nobody
    NoRow = NoRow
    Choices <- Either
    Removable = {r1, r2, r3}
    Overlap = TRUE
SPECIFICATION Spec
SYMMETRY Symmetry
INVARIANTS TypeOK
PROPERTIES SaveReplacesWhatItSaw CollectorReachesTheActive ClearingKeepsData
