\* The manifest of a DAG of three CIDs, two of one multihash, from a manifetch
\* server that may fail; and any manifest of up to three CIDs from another peer.
CONSTANTS
    a = a  b = b  c = c  bogus = bogus
    Cids = {a, b, c, bogus}
    WalkCids = {a, b, c}
    Hash <- SharedHash
    MaxManifest = 3
    startingCredit = 1
    MayCancel = TRUE
    ManifestRoot = a
    Children <- Triangle
    WireSize = 1
    RetChSize = 1
SPECIFICATION ManifetchSpec
INVARIANTS TypeOK CreditBounded CreditConserved NoCreditPanic OutstandingRedeemable ManifestExact
PROPERTIES ManifestFlows
\* an aborted requester leaves the reader blocked on retCh: the system may stop
CHECK_DEADLOCK FALSE
