\* A transaction is large from three inputs on, or two and one output.
CONSTANTS
    neoId = neoId
    gasId = gasId
    Assets = {neoId, gasId}
    Gas = gasId
    NoAsset = NoAsset
    Requests <- SmallRequests
    BaseBytes = 1
    InputBytes = 4
    OutputBytes = 3
    SignatureSize = 1
    LargeTxSize = 13
    MinFeeForLargeTx = 1
    FeeForByteOfTx = 1
    MinGas = 2
SPECIFICATION Spec
INVARIANTS TypeOK AssetsBalance LastInputNeeded FailsOnlyWhenShort FeeIsPaid LargePaysByTheByte
CHECK_DEADLOCK FALSE
