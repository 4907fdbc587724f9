\* Two drives that may take turns at a mount point, and a project on either side.
SPECIFICATION Spec
CONSTANTS
    away = away
    home = home
    media = media
    Project = {away, home}
    Place <- Here
    Build = {b1}
    Drive = {d1, d2}
    Mount = {media}
    Root = Root
    Number = {n1, n2, n3, n4}
    NoDevice = NoDevice
    Renumber = TRUE
    None = None
SYMMETRY Symmetry
INVARIANTS
    TypeOK
PROPERTIES
    ConsumedIsKept
    SkippedIsAway
