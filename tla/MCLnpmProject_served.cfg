\* One command at a time, without and with failures, and two that wait for each other or do not.
SPECIFICATION Spec
CONSTANTS
    Hash = {h1, h2}
    Tag = {latest, beta}
    Latest = latest
    Pkg = a
    Project = q1
    Proc = {p1, p2}
    Scenario <- All
    Blank = Blank
    NoDevice = NoDevice
    None = None
SYMMETRY Symmetry
INVARIANTS
    TypeOK
    RowIsServed
    PullMeansCurrent
PROPERTIES
    PinnedStays
    NothingForgotten
    SpecifierSurvives
    RestoreRebuildsExactly
