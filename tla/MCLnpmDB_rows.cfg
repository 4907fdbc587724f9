\* Two packages, two channels, one project, a device: ids handed out, freed and updated.
SPECIFICATION Spec
CONSTANTS
    Name = {a, b}
    Hash = {h1, h2}
    Tag = {latest, beta}
    Latest = latest
    Path = {q1}
    Device = {d1}
    NoDevice = NoDevice
    FileCount <- OneFile
    MaxId = 7
    NoRow = NoRow
SYMMETRY Symmetry
PROPERTIES
    RowsKeepTheirIdentity
    DeviceRemembered
    ImplementsRegistry
CHECK_DEADLOCK FALSE
