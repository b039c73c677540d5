SPECIFICATION IndexSpec
CONSTANTS
    File = {f1}
    MaxConnects = 2
    Workers = 2
    MaxCommits = 2
    MaxTrouble = 1
CHECK_DEADLOCK FALSE
INVARIANTS IndexReadable IndexMatchesBranch StatusSettles
