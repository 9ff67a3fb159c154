SPECIFICATION Spec
CONSTANTS
    Request = {r1, r2}
    Session = {s1}
    Key = {k1}
    UncheckedKey = {}
    MayAge = {r1, r2}
    NoRequest = NoRequest
    NoSession = NoSession
    NoKey = NoKey
PROPERTY SubmissionDropsOldRecords
