\* One operator edits the fee, at and around both ends of the range.
CONSTANTS
    r1 = r1
    r2 = r2
    w1 = w1
    Row = {r1, r2}
    Value <- Fees
    Accepted <- SavableFees
    Default = 1
    Collected = {}
    Writer = {w1}
    Autocommit = {}
    Nobody = Nobody
    NoRow = NoRow
    Choices <- Either
    Removable = {r1, r2}
    Overlap = FALSE
SPECIFICATION Spec
INVARIANTS FeeBelowTen
