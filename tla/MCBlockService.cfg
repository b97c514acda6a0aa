\* GetMany on every kind of exchange, directly or through a session, while blocks
\* are added, fetched and deleted.
CONSTANTS
    a = a  b = b  c = c
    Cids = {a, b, c}
    Unsafe = {c}
    Adders = {p1}
    AddLists <- AddedBlocks
    Getters = {g1}
    GetCids = {a, c}
    Setups <- AllSetups
    Stored = {{}}
    Batch = Batch
    KeyLists <- RepeatedKeys
    Removed <- RemovedBlocks
    Undecodable = {b}
SPECIFICATION DagSpec
INVARIANTS TypeOK AddedStored SessionMadeOnce GetManyHonest
 
\* callers come to an end, and some goroutines are left blocked
CHECK_DEADLOCK FALSE
