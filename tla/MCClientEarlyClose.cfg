\* A stream of two CIDs whose first answer arrives before the second request.
CONSTANTS
    g1 = g1  g2 = g2  x = x  y = y
    Gets = {}
    CidOf <- SameCid
    StreamCids <- StreamOfTwo
    MayCancel = FALSE
    MayFail = FALSE
    MaxAnswers = 1
    None = None
SPECIFICATION Spec
INVARIANTS StreamComplete
