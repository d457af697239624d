--------------------------- MODULE MCClientStore ---------------------------
(* An instance of ClientStore for TLC.  Processes, tokens and the calls of *)
(* one kind are interchangeable.                                           *)
EXTENDS ClientStore, TLC

\* One process enrolls with a QR code, the two others do one of: enroll
\* again, be approved, or enroll another server, and then connect; or
\* enroll another server and remove one.
Does(f, j, k) == Cardinality({p \in Procs : f[p] = j}) >= k
MCWork == {f \in [Procs -> Jobs] :
             /\ Does(f, "qr", 1)
             /\ \/ Does(f, "connect", 1) /\ (Does(f, "qr", 2) \/ Does(f, "approval", 1)
                                              \/ Does(f, "other", 1))
                \/ Does(f, "other", 1) /\ Does(f, "remove", 1)}

MCMaxAttempts(f) == IF Does(f, "approval", 1) THEN 1 ELSE 2

\* A bound: two approving calls compete only while no process of the device has
\* its answer.  The server takes every step of its own meanwhile.
ApprovalsCompete ==
    \/ \E h \in Approvers : pc[h] = "start"
    \/ \A p \in Procs : ppc[p] \in {"start", "try", "wait", "poll"}

Symmetry == Permutations(Procs) \cup Permutations(Enrollers) \cup Permutations(Approvers)
=============================================================================
