CONSTANTS
    Paths = {p1}
    Blobs = {b1, b2, b3}
    Absent = Absent
    Conflict = Conflict
    Branches = {main, dev}
    NoBranch = NoBranch
    TagNames = {}
    Main = main
    DefaultBranch = main
    Inside = {}
    Threads = {t1}
    NoMerge = NoMerge
    MayAddRemote = FALSE
    Cancellable = FALSE
    MaxCommits = 4
    MaxAside = 3
SYMMETRY Symmetry
SPECIFICATION BoundedSpec
PROPERTY MergeLandsOnItsBranch
