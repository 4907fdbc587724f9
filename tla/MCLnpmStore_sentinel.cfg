\* A store root that may refuse the backfill's sentinel.
SPECIFICATION Spec
CONSTANTS
    Name = {a}
    Hash = {h1}
    File = {f1, f2}
    Worker = {w1}
    Temp = {t1}
    Unreadable = {}
    SentinelMayFail = TRUE
    Passing = {}
    None = None
SYMMETRY Symmetry
INVARIANT ServedIsWhole
