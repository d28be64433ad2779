SPECIFICATION Spec
CONSTANTS
    Texts <- MCTexts
    Policies <- MCPolicies
    RawCuts <- MCRawCuts
INVARIANTS
    RowsInOrder
    AloneMasked
    MaskedNeverSpoken
    RedactionHides
CHECK_DEADLOCK FALSE
