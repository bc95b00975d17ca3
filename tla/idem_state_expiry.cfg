SPECIFICATION Spec
CONSTANTS
    r1 = r1
    r2 = r2
    r3 = r3
    body = body
    otherBody = otherBody
    ok = ok
    refused = refused
    NoResult = NoResult
    Failure = Failure
    Request = {r1, r2, r3}
    Payload = {body, otherBody}
    payloadOf <- MCPayloadOf
    Result = {ok, refused}
    LockTTL = 3
    MaxWait = 2
    MaxHold = 2
    StateTTL = 3
    StateExpires = TRUE
INVARIANT
    MutualExclusion
