CONSTANTS
    UserIds <- MCUserIds
    ItemIds <- MCItemIds
    OrderIds <- MCOrderIds
    Candidates <- MCCandidates
    RotatorStates <- MCRotators
    MaxOrderNum = 2
    OnlineCalls <- MCOnlineCalls
    MaxOnline = 2
SPECIFICATION Spec
INVARIANT TypeOK
INVARIANT OrderLinesConserved
CHECK_DEADLOCK FALSE
