SPECIFICATION Spec
CONSTANTS
    Utterances = {"u1", "u2"}
    Wers = {0, 2}
    MaxWerAbs = 1
    MaxWerGap = 1
    Setups <- MCSetups
    Nothing = Nothing
    MaxRuns = 2
INVARIANTS
    OutcomesAgree
    PairedUnlessTorn
    GapMeansRegression
PROPERTIES
    PassedServes
