SPECIFICATION Spec2
CONSTANTS
    Tokens = {t1}
    Requests = {r1}
    Enrollers = {e1, e2}
    Approvers = {a1, a2}
    Procs = {p1, p2, p3}
    Work <- MCWork
    MaxAttempts <- MCMaxAttempts
    NoOne = nobody
CONSTRAINT ApprovalsCompete
SYMMETRY Symmetry
INVARIANTS AdmitsOne TrustStartsWithToken EnrolledIsStored EnrolledCanConnect
PROPERTIES OthersAreKept
CHECK_DEADLOCK FALSE
