\* Two goroutines store from trees edited under them; stores, removals and backfills end anywhere.
SPECIFICATION Spec
CONSTANTS
    Name = {a, b}
    Hash = {h1}
    File = {f1}
    Worker = {w1, w2}
    Temp = {t1, t2}
    Unreadable = {b}
    SentinelMayFail = FALSE
    Passing = {x}
    None = None
SYMMETRY Symmetry
INVARIANTS
    TypeOK
    WritersKeepTheirTemp
    ServedIsWhole
PROPERTIES
    NoLaundering
    ImplementsBuilds
