CONSTANTS
    c1 = c1
    c2 = c2
    NoService = NoService
    Remote = Remote
    C <- MCC
    NodeCfg <- MCNodeCfg
    DataDirs <- MCDataDirs
    MaxStarts = 2
    MaxJobs = 1
SPECIFICATION Spec
INVARIANT TypeOK
INVARIANT ItemSourceValid
