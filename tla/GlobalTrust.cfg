CONSTANTS
    Versions = {v1, v2}
    Current = v1
    Managers = {m1, m2}
    TrustIds = {t1, t2}
    Vals = {1, 2}
    Keys = {k1}
    NilKey = NilKey
    Nil = Nil
    NoBody = NoBody
    NoSig = NoSig
SPECIFICATION Spec
INVARIANT VerifyIffUnchanged
