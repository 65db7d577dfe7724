CONSTANTS
    Paths = {p1, p2}
    Blobs = {b1, b2}
    Absent = Absent
    Conflict = Conflict
    Branches = {main, dev}
    NoBranch = NoBranch
    TagNames = {}
    Main = main
    DefaultBranch = main
    Inside = {}
    Threads = {t1, t2}
    NoMerge = NoMerge
    MayAddRemote = TRUE
    Cancellable = TRUE
    MaxCommits = 5
SYMMETRY Symmetry
SPECIFICATION MergeSpec
INVARIANTS
    TypeOK
    MergeKeepsBothSides
    WorkingTreeMatchesHead
PROPERTY TipsMoveForward
