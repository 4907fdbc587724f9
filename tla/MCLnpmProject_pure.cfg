\* add --pure, and no failure at all.
SPECIFICATION Spec
CONSTANTS
    Hash = {h1, h2}
    Tag = {latest}
    Latest = latest
    Pkg = a
    Project = q1
    Proc = {p1}
    Scenario <- Pure
    Blank = Blank
    NoDevice = NoDevice
    None = None
SYMMETRY Symmetry
PROPERTIES
    SpecifierSurvives
