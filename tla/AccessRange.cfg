SPECIFICATION Spec
CONSTANTS
    k1 = k1
    k2 = k2
    p1 = p1
    e1 = e1
    e2 = e2
    ext = ext
    int = int
    hyp = hyp
    Keys = {k1, k2}
    Passwords = {p1}
    Default = Default
    Texts <- SomeTexts
    Space = 8
    Sizes = {1, 2, 4, 8}
    HostNames = {ext, int, hyp}
    Hyphenated = {hyp}
    Resolves <- Names
    Allowed = {2, 3, 4, 5, 6}
    Reachable = {5, int, ext}
    Entered = {5}
    Editors = {e1}
    Limit = 4
    ScanRange = ScanRange
    NoSecret = NoSecret
    NoServer = NoServer
    None = None
    MaxChanges = 2
INVARIANT RangePasswordOverrides
CHECK_DEADLOCK FALSE
