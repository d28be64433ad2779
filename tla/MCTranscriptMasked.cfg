SPECIFICATION Spec
CONSTANTS
    Texts <- MCTexts
    Policies <- MCPolicies
    RawCuts <- MCRawCuts
INVARIANTS
    PayloadMasked
CHECK_DEADLOCK FALSE
