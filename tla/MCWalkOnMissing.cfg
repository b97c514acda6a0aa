\* OnMissing installed, one node missing: the callback is called with the wrong CID.
CONSTANTS
    r = r  a = a  b = b  c = c  d = d
    Cids = {r, a, b, c, d}
    Undef = Undef
    Root = r
    Links <- DiamondLinks
    Missing = {d}
    DepthLim <- Unlimited
    SkipRoot = FALSE
    Handler = "OnMissing"
    Workers = {w1, w2}
    MayCancel = FALSE
SPECIFICATION WalkDepthSpec
INVARIANTS CallbackOnMissingNode
