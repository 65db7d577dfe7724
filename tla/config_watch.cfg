CONSTANTS
    Paths = {p1}
    Blobs = {b1, b2}
    Absent = Absent
    Conflict = Conflict
    Branches = {main}
    NoBranch = NoBranch
    Main = main
    DefaultBranch = main
    Clones = {c1}
    Threads = {Manager, Watcher}
    Mine = c1
    Manager = Manager
    Watcher = Watcher
    Strategies = {"theirs"}
    MaxAuthored = 3
    MaxCommits = 8
SPECIFICATION FairConfigSpec
INVARIANT ConfigTypeOK
PROPERTY RemoteChangeIsNoticed
