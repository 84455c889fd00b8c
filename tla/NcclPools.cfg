SPECIFICATION FairSpec
CONSTANTS
    Colls <- MCColls
    Ops <- MCOps
    Kchs <- MCKchs
    Steps = {"s1"}
    Nets = {"n1"}
    Parent <- MCParent
    Shards = {0, 1}
    HomeShard <- TwoShards
    Cap <- MCCap
    MaxPending = 1
    MaxKids = 5
    Small = {"c2"}
    Jobs <- MCJobs
    Invalid = Invalid
    Null = Null
    NoOne = NoOne
INVARIANTS PoolsSound RowsFaithful
PROPERTIES FinishedPublished HungReported
CHECK_DEADLOCK FALSE
