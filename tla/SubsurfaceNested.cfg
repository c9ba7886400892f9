SPECIFICATION SubSpec
CONSTANTS
    NoParent = NoParent
    Surfaces = {root, a, b}
    Toplevels = {root}
    Fenced = {root}
    MaxSubCommits = 2
    MaxTreeCommits = 6
PROPERTIES ReleasedWithParent
CHECK_DEADLOCK FALSE
