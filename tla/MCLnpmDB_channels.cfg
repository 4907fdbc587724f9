\* One package, two builds, two channels, two projects.
SPECIFICATION Spec
CONSTANTS
    Name = {a}
    Hash = {h1, h2}
    Tag = {latest, beta}
    Latest = latest
    Path = {q1, q2}
    Device = {}
    NoDevice = NoDevice
    FileCount <- NoFiles
    MaxId = 6
    NoRow = NoRow
SYMMETRY Symmetry
INVARIANTS
    TypeOK
    Consistent
PROPERTIES
    PinnedLinksStayPut
    FollowersCarried
CHECK_DEADLOCK FALSE
