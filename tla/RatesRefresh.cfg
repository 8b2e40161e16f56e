\* Two runs of the command and an operator who re-saves presets.
CONSTANTS
    r1 = r1
    r2 = r2
    w1 = w1
    c1 = c1
    c2 = c2
    Row = {r1, r2}
    Keys <- TwoKeys
    MaxTime = 1
    Value <- Times
    Accepted <- Times
    Collected <- Times
    Default <- NoTimes
    Writer = {w1, c1, c2}
    Collector = {c1, c2}
    Autocommit = {c1, c2}
    Nobody = Nobody
    NoRow = NoRow
    Choices <- Either
    Removable = {r1, r2}
    Overlap = TRUE
    Edit = TRUE
SPECIFICATION RatesSpec
SYMMETRY Symmetry
INVARIANTS RatesTypeOK
PROPERTIES RunRefreshesRates
