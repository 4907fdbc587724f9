\* Two releases, one file changed and one dropped, in a project that edits files.
SPECIFICATION Spec
CONSTANTS
    f1 = f1
    f2 = f2
    x = x
    y = y
    File <- TwoFiles
    Content = {x, y}
    Build <- TwoBuilds
    Temp = {t1}
    Live = Live
    Odd = Odd
    NoHash = NoHash
    None = None
    Written <- Edited
INVARIANTS
    TypeOK
    LinkedExactly
    NeverHalfLinked
    PreviousSurvives

