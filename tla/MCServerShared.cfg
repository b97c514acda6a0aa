\* A message of two entries: the goroutines overwrite each other's err.
CONSTANTS
    m1 = m1  m2 = m2  m3 = m3  e1 = e1  e2 = e2  e3 = e3
    Messages = {m1}
    Entries = {e1, e2}
    MsgOf <- AllInOne
    MayLack = {}
    maxTries = 3
SPECIFICATION Spec
INVARIANTS DoneMeansSent
