\* One credit, a manifest of three CIDs: the wake-up of the second one can be lost.
CONSTANTS
    a = a  b = b  c = c  bogus = bogus
    Cids = {a, b, c, bogus}
    WalkCids = {a, b, c}
    Hash <- SharedHash
    MaxManifest = 3
    startingCredit = 1
    MayCancel = FALSE
    ManifestRoot = a
    Children <- Triangle
    WireSize = 1
    RetChSize = 1
SPECIFICATION ManifetchSpec
PROPERTIES CreditIsUsed
CHECK_DEADLOCK FALSE
