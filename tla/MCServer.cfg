\* Messages of one entry, one of them for a block the server may not have.
CONSTANTS
    m1 = m1  m2 = m2  m3 = m3  e1 = e1  e2 = e2  e3 = e3
    Messages = {m1, m2}
    Entries = {e1, e2}
    MsgOf <- OneEach
    MayLack = {e2}
    maxTries = 3
SPECIFICATION FairSpec
INVARIANTS TypeOK DoneMeansSent CrashJustified
PROPERTIES WantsEnd ImplementsWantService
