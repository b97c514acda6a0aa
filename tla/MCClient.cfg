\* GetBlock and GetBlocksCh for the same CIDs, cancelled calls, repeated answers and a server that fails.
\* The handler may block for good with wantsMut held, so the system may stop.
CONSTANTS
    g1 = g1  g2 = g2  x = x  y = y
    Gets = {g1}
    CidOf <- SameCid
    StreamCids <- StreamOfTwo
    MayCancel = TRUE
    MayFail = TRUE
    MaxAnswers = 2
    None = None
SPECIFICATION FairSpec
INVARIANTS TypeOK AnswerOnTheWay ForwarderBehind
PROPERTIES GetBlockReturns
CHECK_DEADLOCK FALSE
