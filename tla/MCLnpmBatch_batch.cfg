\* Adds of two packages and pushes to two projects, any part of which fails.
SPECIFICATION MCSpec
CONSTANTS
    Pkg = {a, b}
    Project = {q1, q2}
    Hash = {h1, h2}
    Tag = {latest}
    Latest = latest
    Commands = 2
    NoDevice = NoDevice
    None = None
SYMMETRY Symmetry
INVARIANTS
    ReportIsTrue
    ReferencedIsKept
    PushReachesAll
PROPERTIES
    SpecifiersSurvive
CHECK_DEADLOCK FALSE
