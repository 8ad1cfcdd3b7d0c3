CONSTANTS
    Keys = {k1, k2}
    Trusted = {k1}
    NoStatus = NoStatus
    NoResult = NoResult
    NetMagic = 1
    NoMeta = NoMeta
    NoVerif = NoVerif
    NoResp = NoResp
    NoReq = NoReq
SPECIFICATION Spec
INVARIANT ProblemReturnsFalse
