\* Two calls for one block, of which one may be cancelled, and one for a block that
\* is no node; a DAG service that may never answer.
CONSTANTS
    k1 = k1  k2 = k2  k3 = k3  h1 = h1  h2 = h2
    Calls = {k1, k2, k3}
    Hashes = {h1, h2}
    HashOf <- SharedHash
    Arriving = {h1, h2}
    Undecodable = {h2}
    Cancellable = {k1}
SPECIFICATION FairSpec
INVARIANTS TypeOK NoLostAlert AlertMeansCached NoSpuriousMiss
PROPERTIES ArrivalEndsGet
