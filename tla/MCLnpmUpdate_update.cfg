\* Two updates that may overlap, three releases.
SPECIFICATION UpdateSpec
CONSTANTS
    Updater = {u1, u2}
    Releases = {1, 2, 3}
    Foreign = Foreign
    Part = Part
    Attempts = 3
    None = None
SYMMETRY Symmetry
INVARIANTS
    OnlyReleasesRun
    BinaryKept
CHECK_DEADLOCK FALSE
