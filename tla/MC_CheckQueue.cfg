CONSTANTS
    w1 = w1 w2 = w2 m1 = m1 g1 = g1 g2 = g2 b1 = b1
    NoThread = NoThread
    Workers = {w1, w2}
    Masters = {m1}
    Checks = {g1, g2, b1}
    Valid = {g1, g2}
    nBatchSize = 2
SPECIFICATION FairSpec
INVARIANTS
    VerdictIsExact
    MasterWaitsForSomeone
PROPERTIES
    WaitReturns
