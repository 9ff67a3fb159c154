\* Three submissions compete for one session and one checked key, beside a key never looked up.
SPECIFICATION FairSpec
CONSTANTS
    Request = {r1, r2, r3}
    Session = {s1}
    Key = {k1, kLong}
    UncheckedKey = {kLong}
    MayAge = {r1}
    NoRequest = NoRequest
    NoSession = NoSession
    NoKey = NoKey
INVARIANTS
    OneRunPerSession
    KeyRunsOnce
    AcceptedIsAnswerable
PROPERTIES
    NoEarlyRelease
    ImplementsContract
    AgentsKeepTheirInterface
