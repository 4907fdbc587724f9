\* One typed command, what its scripts run, and what is left running when one of them is killed.
SPECIFICATION Spec
CONSTANTS
    Proc = {p1, p2, p3}
    Shell = {p1}
    Worker = {w1, w2}
    Package = {a, b}
    Typed = {"publish", "publish-all", "dry-run", "push", "add", "retreat", "other"}
    Scripted = {"push"}
    None = None
INVARIANTS
    TypeOK
    EveryPackageIsTried
PROPERTIES
    EveryCommandEnds
    PrePackScriptsMayRunLnpm
