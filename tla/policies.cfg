SPECIFICATION Spec
CONSTANTS
    ka = ka
    kb = kb
    l1 = l1
    l2 = l2
    None = None
    Empty = Empty
    Nothing = Nothing
    NoFile = NoFile
    NotANumber = NotANumber
    Key = {ka, kb}
    Loader = {l1, l2}
    DefaultRisk = 6
    Text <- MCText
    Shipped <- MCShipped
    Substring <- MCSubstring
    Condition <- MCCondition
    Payload <- MCPayload
    PolicyText <- MCPolicyText
    ShippedPolicy <- MCShippedPolicy
    Query <- MCQuery
    Bounds <- MCBounds
INVARIANTS
    TypeOK
    AcceptedWasSigned
    HonestPolicyVerifies
    SuccessMeansClear
    DenialExplained
    EngineDecides
CHECK_DEADLOCK FALSE
