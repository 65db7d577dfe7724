CONSTANTS
    Paths = {p1}
    Blobs = {b1, b2}
    Absent = Absent
    Conflict = Conflict
    Branches = {main}
    NoBranch = NoBranch
    Main = main
    DefaultBranch = main
    Clones = {c1, c2}
    Threads = {t1}
    Strategies = {"detect", "theirs"}
    MaxAuthored = 3
    MaxCommits = 4
SYMMETRY Symmetry
SPECIFICATION SharedSpec
INVARIANTS
    TypeOK
    TrackingIsPublished
PROPERTIES
    ServerMovesForward
    ImplementsServer
