\* All plans, with errors and timeouts.  An instance that has ended does nothing.
CONSTANTS
    MaxInstances = 3
    Plans <- SmallPlans
    Providers = {1}
SPECIFICATION FairSpec
INVARIANTS TypeOK NeverEarly SuccessMeansDownloaded NobodyBlocked
PROPERTIES EveryoneEnds
CHECK_DEADLOCK FALSE
