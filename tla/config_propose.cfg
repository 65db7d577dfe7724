CONSTANTS
    Paths = {p1}
    Blobs = {b1}
    Absent = Absent
    Conflict = Conflict
    Branches = {main, dev}
    NoBranch = NoBranch
    Main = main
    DefaultBranch = dev
    Clones = {c1}
    Threads = {Manager, Watcher}
    Mine = c1
    Manager = Manager
    Watcher = Watcher
    Strategies = {"theirs"}
    MaxAuthored = 3
    MaxCommits = 8
SPECIFICATION SharedConfigSpec
CONSTRAINT FewMerges
INVARIANTS ProposalIsApart PushCarriesCommit
PROPERTY BranchesMoveForward
