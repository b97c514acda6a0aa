\* Two calls for one CID: only one of their channels is removed.
CONSTANTS
    g1 = g1  g2 = g2  x = x  y = y
    Gets = {g1, g2}
    CidOf <- SameCid
    StreamCids <- NoStream
    MayCancel = FALSE
    MayFail = FALSE
    MaxAnswers = 1
    None = None
SPECIFICATION Spec
INVARIANTS RemovedAfterSend
