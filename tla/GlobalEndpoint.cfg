\* Two operators activate Global presets one at a time, a shell session edits
\* the rules, and one request at a time reads both tables.
CONSTANTS
    r1 = r1
    r2 = r2
    w1 = w1
    w2 = w2
    s1 = s1
    c1 = c1
    Row = {r1, r2}
    Value = {0}
    Accepted = {0}
    Default = 0
    Collected = {0}
    Writer = {w1, w2}
    Autocommit = {}
    RulesWriter = {s1}
    Nobody = Nobody
    NoRow = NoRow
    Choices = {TRUE}
    Removable = {}
    Overlap = FALSE
    Reader = {c1}
SPECIFICATION EndpointSpec
SYMMETRY Symmetry
INVARIANTS AlwaysAnActivePreset ReadersTypeOK FoundGlobalStays
