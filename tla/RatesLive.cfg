\* A run and two operators; every run and every write ends.
CONSTANTS
    r1 = r1
    r2 = r2
    w1 = w1
    c1 = c1
    w2 = w2
    Row = {r1, r2}
    Keys <- OneKey
    MaxTime = 0
    Value <- TimesOfOne
    Accepted <- TimesOfOne
    Collected <- TimesOfOne
    Default <- NoTimeOfOne
    Writer = {w1, w2, c1}
    Collector = {c1}
    Autocommit = {c1}
    Nobody = Nobody
    NoRow = NoRow
    Choices = {TRUE}
    Removable = {r1}
    Overlap = TRUE
    Edit = TRUE
SPECIFICATION RatesFairSpec
PROPERTIES RunEnds EveryWriteEnds
