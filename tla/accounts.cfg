CONSTANTS
    Owner = "o"
    Invitee = {"a"}
    Invite = {"i1", "i2"}
    Session = {"s1", "s2", "s3"}
    Worker = {w1, w2}
    ProSeats = 2
    FreeSeats = 1
    MaxFailures = 2
    MaxOps = 4
    MaxCrashes = 1
SYMMETRY Symmetry
SPECIFICATION AccountsSpec
CHECK_DEADLOCK FALSE
INVARIANTS TeamConsistent AnswersHold SessionsHold CounterHasTtl
