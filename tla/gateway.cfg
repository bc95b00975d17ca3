SPECIFICATION FairSpec
CONSTANTS
    r1 = r1
    r2 = r2
    r3 = r3
    r4 = r4
    r5 = r5
    r6 = r6
    r7 = r7
    c1 = c1
    c2 = c2
    k1 = k1
    t1 = t1
    t2 = t2
    h1 = h1
    h2 = h2
    admin = admin
    iban = iban
    o1 = o1
    o2 = o2
    None = None
    NoHeader = NoHeader
    EmptyHeader = EmptyHeader
    NoTarget = NoTarget
    Operator = {o1, o2}
    Announcement <- MCAnnouncement
    Rate = {0, 5}
    FullRate = 5
    Request = {r1, r2, r3, r4, r5, r6, r7}
    Client = {c1, c2}
    HeaderKey = {k1}
    TxId = {t1, t2}
    TxHash = {h1, h2}
    Role = {admin}
    Beneficiary = {iban}
    req <- MCReq
    whitelist <- MCWhitelist
    HardLimit = 5
    RiskLimit = 80
    Sanctioned = {"NK", "IR", "SY"}
    Bounds <- MCBounds
INVARIANTS
    TypeOK
    
    StatusesStand
    PaidHashesHold
    OperatorsObeyed
PROPERTIES
    LocksLetGo
    SettingArrives
CHECK_DEADLOCK FALSE
