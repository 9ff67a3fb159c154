\* Three requests of two authorities over two servers: reuse, refusal to reuse, recycling.
SPECIFICATION Spec
CONSTANTS
    Request = {r1, r2, r3}
    Worker = {w1, w2}
    Authority = {agent, deploy}
    NoWorker = NoWorker
    NoAuthority = NoAuthority
    NoCall = NoCall
    MaxWire = 1
SYMMETRY Interchangeable
INVARIANTS
    OneRequestPerWorker
    OwnAuthority
    AnswersOwnCall
CHECK_DEADLOCK FALSE
