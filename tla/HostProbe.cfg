SPECIFICATION MCSpec
CONSTANTS
    Keys = {k1, k2}
    Roles = {1, 2, 3, 4}
    home = home
    k1 = k1
    k2 = k2
    Networks = {home}
    Ports = {"ok", "bad"}
    NoNode = NoNode
    Keep = 0
    Given <- MCGiven
INVARIANTS
    ProbesReturnAsExpected
    StatusTellsWhatAnswered
PROPERTY
    SilentHostsDoNotKeepAChunk
CHECK_DEADLOCK FALSE
