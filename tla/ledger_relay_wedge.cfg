SPECIFICATION FairSpec
CONSTANTS
    t1 = t1
    t2 = t2
    t3 = t3
    k1 = k1
    k2 = k2
    Relay = Relay
    Nobody = Nobody
    Transfer = {t1, t2}
    Key = {k1, k2}
    keyOf <- MCKeyOf
    BatchLimit = 2
    BankAnswers = {TRUE}
    BusyAt = {"read", "write", "commit"}
    MaxCrashes = 0
PROPERTY
    RelayLetsGo
CHECK_DEADLOCK FALSE
