\* One pairing session and the peer; two calls and one slot, and two lines of
\* output; two commands one after the other; a request, a socket and a job of
\* one login, and a pool of one thread.
SPECIFICATION Spec
CONSTANTS
    Pairings = {s1}
    Peer = peer
    Processes = {c1, c2}
    MaxConcurrency = 1
    QueueSize = 1
    PipeSize = 1
    OutputLimit = 1
    MaxWritten = 2
    MaxCommands = 2
    MaxSlices = 2
    MaxLines = 2
    Users = {u1, u2}
    Admins = {u1}
    Tokens = {token}
    Requests = {r1}
    Sockets = {socket1}
    Jobs = {j1}
    PoolSize = 1
    Lifetime = 1
    MaxTime = 1
    MaxLogins = 1
INVARIANTS TypeOK AnswersAreTrue
PROPERTIES PairingStands EffectsAtHome WorkEnds
CHECK_DEADLOCK FALSE
