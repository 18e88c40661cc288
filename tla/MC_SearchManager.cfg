CONSTANTS
    t1 = t1
    t2 = t2
    q1 = q1
    q2 = q2
    NoEntry = NoEntry
    NoResult = NoResult
    NoCall = NoCall
    Threads <- MCThreads
    Queries <- MCQueryOne
    Docs <- MCDocs
    Score <- MCScore
    Corpus <- MCCorpus
    Starts <- MCStarts
    TopKs <- MCTopKs
    MaxGen = 1
    MaxResets = 1
    CacheCapacity = 1
SPECIFICATION Spec
INVARIANT TypeOK
PROPERTY ResultCacheSpec
