CONSTANTS
    Paths = {p1}
    Blobs = {b1, b2, b3}
    Absent = Absent
    Conflict = Conflict
    Branches = {main, dev}
    NoBranch = NoBranch
    TagNames = {v1}
    Main = main
    DefaultBranch = dev
    Inside = {}
    Threads = {t1}
    NoMerge = NoMerge
    MayAddRemote = TRUE
    Cancellable = FALSE
    MaxCommits = 4
    MaxAside = 3
SYMMETRY Symmetry
SPECIFICATION BoundedSpec
INVARIANTS
    TypeOK
    HeadAlwaysResolves
    WorkingTreeMatchesHead
PROPERTY ImplementsHistory
