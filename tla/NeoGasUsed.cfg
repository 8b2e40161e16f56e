\* As NeoPlan.cfg, but two inputs and two outputs are still a small transaction.
CONSTANTS
    neoId = neoId
    gasId = gasId
    Assets = {neoId, gasId}
    Gas = gasId
    NoAsset = NoAsset
    Requests <- SmallRequests
    BaseBytes = 1
    InputBytes = 4
    OutputBytes = 3
    SignatureSize = 1
    LargeTxSize = 17
    MinFeeForLargeTx = 1
    FeeForByteOfTx = 1
    MinGas = 2
SPECIFICATION Spec
INVARIANT GasUsedWithinFee
CHECK_DEADLOCK FALSE
