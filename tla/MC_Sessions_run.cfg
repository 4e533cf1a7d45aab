CONSTANTS
    s1 = s1
    s2 = s2
    Sess <- MCSess
    Rounds = 1
    None = None
SPECIFICATION Spec
INVARIANT NoRunAfterClose
