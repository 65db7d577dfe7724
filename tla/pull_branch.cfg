CONSTANTS
    Paths = {p1}
    Blobs = {b1, b2}
    Absent = Absent
    Conflict = Conflict
    Branches = {main, dev}
    NoBranch = NoBranch
    Main = main
    DefaultBranch = dev
    Clones = {c1, c2}
    Threads = {t1}
    Strategies = {"detect", "theirs"}
    MaxAuthored = 2
    MaxCommits = 3
SYMMETRY Symmetry
SPECIFICATION SharedSpec
PROPERTY PullMergesTrackingBranch
