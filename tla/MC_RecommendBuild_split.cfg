CONSTANTS
    UserIds <- MCUserIds
    ItemIds <- MCItemIds
    OrderIds <- MCOrderIds
    Candidates <- MCCandidates
    RotatorStates <- MCRotators
    MaxOrderNum = 1
    OnlineCalls <- MCOnlineCalls
    MaxOnline = 0
SPECIFICATION Spec
INVARIANT OrdersNotSplit
CHECK_DEADLOCK FALSE
