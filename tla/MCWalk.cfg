\* Depth limited walk of a graph with a short cut, a missing node tolerated by
\* IgnoreMissing, and a caller that may cancel at any moment; both walks.
CONSTANTS
    r = r  a = a  b = b  c = c  d = d
    Cids = {r, a, b, c, d}
    Undef = Undef
    Root = r
    Links <- ShortcutLinks
    Missing = {c}
    DepthLim = 2
    SkipRoot = FALSE
    Handler = "IgnoreMissing"
    Workers = {w1, w2}
    MayCancel = TRUE
SPECIFICATION WalkDepthSpec
INVARIANTS TypeOK DepthFirst VisitExclusive FetchedOnce NothingStranded DepthsExact
PROPERTIES ImplementsDagWalk SequentialImplementsDagWalk WalkDepthReturns
