CONSTANTS
    t1 = t1
    t2 = t2
    NoObj = NoObj
    Threads <- MCThreadOne
    MaxChdirs = 2
SPECIFICATION Spec
INVARIANT TypeOK
