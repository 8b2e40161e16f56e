\* A selection longer than the hard limit, here two outputs.
CONSTANTS
    InputQuarters = 592
    OutputBytes = 34
    BaseBytes = 10
    Wallets <- Larger
    Amounts = {1, 150, 1000, 3000, 4700}
    ByteFees = {1}
    Segwit = {FALSE}
    VirtualSizes = {}
    SimpleModeLimit = 1
    MaxUtxosHardLimit = 2
SPECIFICATION Spec
INVARIANTS AmountCovered
CHECK_DEADLOCK FALSE
