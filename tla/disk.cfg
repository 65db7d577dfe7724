CONSTANTS
    Paths = {p1}
    Blobs = {b1, b2}
    Absent = Absent
    Conflict = Conflict
    Branches = {main, dev}
    NoBranch = NoBranch
    TagNames = {}
    Main = main
    DefaultBranch = main
    Failures = TRUE
    MaxCommits = 5
    MaxSteps = 5
    MaxStashes = 1
SYMMETRY Symmetry
SPECIFICATION BoundedSpec
INVARIANTS
    DiskTypeOK
    UntouchedIsClean
PROPERTIES
    KeepsHistoryPromises
    NoEditIsLost
