\* Up to three outputs for select() and four for selectSimple().
CONSTANTS
    InputQuarters = 592
    OutputBytes = 34
    BaseBytes = 10
    Wallets <- UpToFour
    Amounts = {0, 1, 150, 426, 1200}
    ByteFees = {0, 1}
    Segwit <- Either
    VirtualSizes = {110, 400}
    SimpleModeLimit = 3
    MaxUtxosHardLimit = 4
    Key = {"a", "b", "c"}
    Scripts <- AllScripts
    SigningRequests <- Requests
SPECIFICATION SignerSpec
INVARIANTS TypeOK PlanBalances ShortOnlyWithoutChange AmountCovered FewestInputs NoDustChange NoDustSpent SignedPaysTheFee SignedUnlocks RightAnswersCompile EveryHashAnswered BothWaysAlike EstimateHasTheItems
PROPERTY Spec
CHECK_DEADLOCK FALSE
