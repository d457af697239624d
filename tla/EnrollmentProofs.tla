-------------------------- MODULE EnrollmentProofs --------------------------
(***************************************************************************)
(* Proofs about Enrollment, for any number of tokens, pairing requests and *)
(* calls, and about ClientStore, for any number of processes of the device *)
(* and addresses of the server.                                            *)
(***************************************************************************)
EXTENDS ClientStore, SequenceTheorems, FiniteSetTheorems, TLAPS

Critical == {"get", "write", "push", "save", "mark"}

\* The mutex of the client store excludes: a handler inside add_client or
\* approve_pairing_request is its holder, and a dead process has none.
Exclusive ==
    /\ \A h \in Handlers : pc[h] \in Critical => lock = h
    /\ up # "up" => \A h \in Handlers : pc[h] \notin Critical \cup {"lock"}

\* An Enroll call holds its token from validate_and_consume on.
Holds(h) == h \in admitted \/ pc[h] \in Critical \cup {"lock", "ok"}
TokenHeld ==
    /\ \A h \in Enrollers : Holds(h) => tok[subject[h]] \in {"used", "gone"}
    /\ \A g, h \in Enrollers : Holds(g) /\ Holds(h) /\ subject[g] = subject[h] => g = h
\* A request that was approved once is never pending again.
RequestSpent ==
    /\ \A h \in Approvers : pc[h] = "ok" =>
          req[subject[h]] \in {"approved", "timeout", "gone"}
    /\ \A g, h \in Approvers :
          pc[g] = "ok" /\ pc[h] = "ok" /\ subject[g] = subject[h] => g = h

\* Every registry, in memory or on disk, holds admitted clients, and an
\* ApprovePairing call past its check was made by one.
Trusted ==
    /\ mem \subseteq admitted /\ disk \subseteq admitted
    /\ ~lax => /\ admitted # {} => admitted \cap Enrollers # {}
               /\ \A h \in Approvers : pc[h] \in Critical \cup {"lock"} => admitted # {}

\* The files agree with the registry.
Stored ==
    /\ \A h \in Handlers : pc[h] \in {"push", "save", "mark", "ok"} => h \in crt
    /\ \A h \in Handlers : pc[h] \in {"save", "mark"} => h \in mem
    /\ cut => damaged
    /\ up = "up" => disk \subseteq mem
    /\ ~damaged => \A h \in Handlers : pc[h] \in {"mark", "ok"} => h \in disk

Subjected ==
    /\ \A h \in Enrollers : subject[h] \in Tokens
    /\ \A h \in Approvers : subject[h] \in Requests

IInv == TypeOK /\ Exclusive /\ TokenHeld /\ RequestSpent /\ Trusted /\ Stored /\ Subjected

\* The initial states.
LEMMA InitIInv == Init => IInv
<1> SUFFICES ASSUME Init PROVE IInv
  OBVIOUS
<1>1. subject \in [Handlers -> Subjects] /\ Subjected
  BY DEF Init, Subjected
<1>2. TypeOK
  BY <1>1 DEF Init, TypeOK, Handlers, Subjects
<1>3. Exclusive /\ TokenHeld /\ RequestSpent /\ Trusted /\ Stored
  BY DEF Init, Exclusive, TokenHeld, RequestSpent, Trusted, Stored, Holds, Critical,
     Handlers
<1> QED BY <1>1, <1>2, <1>3 DEF IInv

\* Every step keeps the invariant.
LEMMA NextIInv == IInv /\ [Next]_vars => IInv'
<1> SUFFICES ASSUME IInv, [Next]_vars PROVE IInv'
  OBVIOUS
<1> USE EnrollmentAssumption DEF IInv, Handlers
<1>1. ASSUME Expire PROVE IInv'
  <2>1. TypeOK'
    BY <1>1 DEF Expire, store, Subjects, TypeOK, Exclusive, Critical
  <2>2. Exclusive'
    BY <1>1 DEF Expire, store, Subjects, TypeOK, Exclusive, Critical
  <2>3. TokenHeld'
    BY <1>1 DEF Expire, store, Subjects, TypeOK, TokenHeld, Holds, Critical,
       Subjected, Exclusive
  <2>4. RequestSpent'
    BY <1>1 DEF Expire, store, Subjects, TypeOK, RequestSpent, Subjected, Critical
  <2>5. Trusted'
    BY <1>1 DEF Expire, store, Subjects, TypeOK, Trusted, Critical, Exclusive
  <2>6. Stored'
    BY <1>1 DEF Expire, store, Subjects, TypeOK, Stored, Critical, Exclusive
  <2>7. Subjected'
    BY <1>1 DEF Expire, store, Subjects, Subjected
  <2> QED BY <2>1, <2>2, <2>3, <2>4, <2>5, <2>6, <2>7
<1>2. ASSUME ListPending PROVE IInv'
  <2>1. TypeOK'
    BY <1>2 DEF ListPending, CleanupRequests, store, TypeOK, Exclusive, Critical
  <2>2. Exclusive'
    BY <1>2 DEF ListPending, CleanupRequests, store, TypeOK, Exclusive, Critical
  <2>3. TokenHeld'
    BY <1>2 DEF ListPending, CleanupRequests, store, TypeOK, TokenHeld, Holds,
       Critical, Subjected, Exclusive
  <2>4. RequestSpent'
    BY <1>2 DEF ListPending, CleanupRequests, store, TypeOK, RequestSpent,
       Subjected, Critical
  <2>5. Trusted'
    BY <1>2 DEF ListPending, CleanupRequests, store, TypeOK, Trusted, Critical,
       Exclusive
  <2>6. Stored'
    BY <1>2 DEF ListPending, CleanupRequests, store, TypeOK, Stored, Critical, Exclusive
  <2>7. Subjected'
    BY <1>2 DEF ListPending, CleanupRequests, store, Subjected
  <2> QED BY <2>1, <2>2, <2>3, <2>4, <2>5, <2>6, <2>7
<1>3. ASSUME Crash PROVE IInv'
  <2>1. TypeOK'
    BY <1>3 DEF Crash, CutShort, store, TypeOK, Exclusive, Critical
  <2>2. Exclusive'
    BY <1>3 DEF Crash, CutShort, store, TypeOK, Exclusive, Critical
  <2>3. TokenHeld'
    BY <1>3 DEF Crash, CutShort, store, TypeOK, TokenHeld, Holds, Critical,
       Subjected, Exclusive
  <2>4. RequestSpent'
    BY <1>3 DEF Crash, CutShort, store, TypeOK, RequestSpent, Subjected, Critical
  <2>5. Trusted'
    BY <1>3 DEF Crash, CutShort, store, TypeOK, Trusted, Critical, Exclusive
  <2>6. Stored'
    BY <1>3 DEF Crash, CutShort, store, TypeOK, Stored, Critical, Exclusive
  <2>7. Subjected'
    BY <1>3 DEF Crash, CutShort, store, Subjected
  <2> QED BY <2>1, <2>2, <2>3, <2>4, <2>5, <2>6, <2>7
<1>4. ASSUME Restart PROVE IInv'
  <2>1. TypeOK'
    BY <1>4 DEF Restart, store, TypeOK, Exclusive, Critical
  <2>2. Exclusive'
    BY <1>4 DEF Restart, store, TypeOK, Exclusive, Critical
  <2>3. TokenHeld'
    BY <1>4 DEF Restart, store, TypeOK, TokenHeld, Holds, Critical, Subjected, Exclusive
  <2>4. RequestSpent'
    BY <1>4 DEF Restart, store, TypeOK, RequestSpent, Subjected, Critical
  <2>5. Trusted'
    BY <1>4 DEF Restart, store, TypeOK, Trusted, Critical, Exclusive
  <2>6. Stored'
    BY <1>4 DEF Restart, store, TypeOK, Stored, Critical, Exclusive
  <2>7. Subjected'
    BY <1>4 DEF Restart, store, Subjected
  <2> QED BY <2>1, <2>2, <2>3, <2>4, <2>5, <2>6, <2>7
<1>5. ASSUME NEW t \in Tokens, GenerateToken(t) PROVE IInv'
  <2>1. TypeOK'
    BY <1>5 DEF GenerateToken, DropExpired, store, TypeOK, Exclusive, Critical
  <2>2. Exclusive'
    BY <1>5 DEF GenerateToken, DropExpired, store, TypeOK, Exclusive, Critical
  <2>3. TokenHeld'
    BY <1>5 DEF GenerateToken, DropExpired, store, TypeOK, TokenHeld, Holds,
       Critical, Subjected, Exclusive
  <2>4. RequestSpent'
    BY <1>5 DEF GenerateToken, DropExpired, store, TypeOK, RequestSpent,
       Subjected, Critical
  <2>5. Trusted'
    BY <1>5 DEF GenerateToken, DropExpired, store, TypeOK, Trusted, Critical, Exclusive
  <2>6. Stored'
    BY <1>5 DEF GenerateToken, DropExpired, store, TypeOK, Stored, Critical, Exclusive
  <2>7. Subjected'
    BY <1>5 DEF GenerateToken, DropExpired, store, Subjected
  <2> QED BY <2>1, <2>2, <2>3, <2>4, <2>5, <2>6, <2>7
<1>6. ASSUME NEW r \in Requests, CreateRequest(r) PROVE IInv'
  <2>1. TypeOK'
    BY <1>6 DEF CreateRequest, CleanupRequests, store, TypeOK, Exclusive, Critical
  <2>2. Exclusive'
    BY <1>6 DEF CreateRequest, CleanupRequests, store, TypeOK, Exclusive, Critical
  <2>3. TokenHeld'
    BY <1>6 DEF CreateRequest, CleanupRequests, store, TypeOK, TokenHeld, Holds,
       Critical, Subjected, Exclusive
  <2>4. RequestSpent'
    BY <1>6 DEF CreateRequest, CleanupRequests, store, TypeOK, RequestSpent,
       Subjected, Critical
  <2>5. Trusted'
    BY <1>6 DEF CreateRequest, CleanupRequests, store, TypeOK, Trusted, Critical,
       Exclusive
  <2>6. Stored'
    BY <1>6 DEF CreateRequest, CleanupRequests, store, TypeOK, Stored, Critical,
       Exclusive
  <2>7. Subjected'
    BY <1>6 DEF CreateRequest, CleanupRequests, store, Subjected
  <2> QED BY <2>1, <2>2, <2>3, <2>4, <2>5, <2>6, <2>7
<1>7. ASSUME NEW r \in Requests, PollStatus(r) PROVE IInv'
  <2>1. TypeOK'
    BY <1>7 DEF PollStatus, AfterGet, Known, store, TypeOK, Exclusive, Critical
  <2>2. Exclusive'
    BY <1>7 DEF PollStatus, AfterGet, Known, store, TypeOK, Exclusive, Critical
  <2>3. TokenHeld'
    BY <1>7 DEF PollStatus, AfterGet, Known, store, TypeOK, TokenHeld, Holds,
       Critical, Subjected, Exclusive
  <2>4. RequestSpent'
    BY <1>7 DEF PollStatus, AfterGet, Known, store, TypeOK, RequestSpent,
       Subjected, Critical
  <2>5. Trusted'
    BY <1>7 DEF PollStatus, AfterGet, Known, store, TypeOK, Trusted, Critical, Exclusive
  <2>6. Stored'
    BY <1>7 DEF PollStatus, AfterGet, Known, store, TypeOK, Stored, Critical, Exclusive
  <2>7. Subjected'
    BY <1>7 DEF PollStatus, AfterGet, Known, store, Subjected
  <2> QED BY <2>1, <2>2, <2>3, <2>4, <2>5, <2>6, <2>7
<1>8. ASSUME NEW r \in Requests, RejectRequest(r) PROVE IInv'
  <2>1. TypeOK'
    BY <1>8 DEF RejectRequest, store, TypeOK, Exclusive, Critical
  <2>2. Exclusive'
    BY <1>8 DEF RejectRequest, store, TypeOK, Exclusive, Critical
  <2>3. TokenHeld'
    BY <1>8 DEF RejectRequest, store, TypeOK, TokenHeld, Holds, Critical,
       Subjected, Exclusive
  <2>4. RequestSpent'
    BY <1>8 DEF RejectRequest, store, TypeOK, RequestSpent, Subjected, Critical
  <2>5. Trusted'
    BY <1>8 DEF RejectRequest, store, TypeOK, Trusted, Critical, Exclusive
  <2>6. Stored'
    BY <1>8 DEF RejectRequest, store, TypeOK, Stored, Critical, Exclusive
  <2>7. Subjected'
    BY <1>8 DEF RejectRequest, store, Subjected
  <2> QED BY <2>1, <2>2, <2>3, <2>4, <2>5, <2>6, <2>7
<1>9. ASSUME NEW h \in Handlers, ConsumeToken(h) PROVE IInv'
  <2>1. TypeOK'
    BY <1>9 DEF ConsumeToken, Goto, store, TypeOK, Subjected, Exclusive, Critical
  <2>2. Exclusive'
    BY <1>9 DEF ConsumeToken, Goto, store, TypeOK, Exclusive, Critical
  <2>3. TokenHeld'
    BY <1>9 DEF ConsumeToken, Goto, store, TypeOK, TokenHeld, Holds, Critical,
       Subjected, Exclusive
  <2>4. RequestSpent'
    BY <1>9 DEF ConsumeToken, Goto, store, TypeOK, RequestSpent, Subjected, Critical
  <2>5. Trusted'
    BY <1>9 DEF ConsumeToken, Goto, store, TypeOK, Trusted, Critical, Exclusive
  <2>6. Stored'
    BY <1>9 DEF ConsumeToken, Goto, store, TypeOK, Stored, Critical, Exclusive
  <2>7. Subjected'
    BY <1>9 DEF ConsumeToken, Goto, store, Subjected
  <2> QED BY <2>1, <2>2, <2>3, <2>4, <2>5, <2>6, <2>7
<1>10. ASSUME NEW h \in Handlers, EnsureEnrolledClient(h) PROVE IInv'
  <2>1. TypeOK'
    BY <1>10 DEF EnsureEnrolledClient, Goto, store, TypeOK, Exclusive, Critical
  <2>2. Exclusive'
    BY <1>10 DEF EnsureEnrolledClient, Goto, store, TypeOK, Exclusive, Critical
  <2>3. TokenHeld'
    BY <1>10 DEF EnsureEnrolledClient, Goto, store, TypeOK, TokenHeld, Holds,
       Critical, Subjected, Exclusive
  <2>4. RequestSpent'
    BY <1>10 DEF EnsureEnrolledClient, Goto, store, TypeOK, RequestSpent,
       Subjected, Critical
  <2>5. Trusted'
    BY <1>10 DEF EnsureEnrolledClient, Goto, store, TypeOK, Trusted, Critical, Exclusive
  <2>6. Stored'
    BY <1>10 DEF EnsureEnrolledClient, Goto, store, TypeOK, Stored, Critical, Exclusive
  <2>7. Subjected'
    BY <1>10 DEF EnsureEnrolledClient, Goto, store, Subjected
  <2> QED BY <2>1, <2>2, <2>3, <2>4, <2>5, <2>6, <2>7
<1>11. ASSUME NEW h \in Handlers, LockStore(h) PROVE IInv'
  <2>1. TypeOK'
    BY <1>11 DEF LockStore, Goto, store, TypeOK, Exclusive, Critical
  <2>2. Exclusive'
    BY <1>11 DEF LockStore, Goto, store, TypeOK, Exclusive, Critical
  <2>3. TokenHeld'
    BY <1>11 DEF LockStore, Goto, store, TypeOK, TokenHeld, Holds, Critical,
       Subjected, Exclusive
  <2>4. RequestSpent'
    BY <1>11 DEF LockStore, Goto, store, TypeOK, RequestSpent, Subjected, Critical
  <2>5. Trusted'
    BY <1>11 DEF LockStore, Goto, store, TypeOK, Trusted, Critical, Exclusive
  <2>6. Stored'
    BY <1>11 DEF LockStore, Goto, store, TypeOK, Stored, Critical, Exclusive
  <2>7. Subjected'
    BY <1>11 DEF LockStore, Goto, store, Subjected
  <2> QED BY <2>1, <2>2, <2>3, <2>4, <2>5, <2>6, <2>7
<1>12. ASSUME NEW h \in Handlers, GetRequest(h) PROVE IInv'
  <2>1. TypeOK'
    <3>1. req' \in [Requests -> {"none", "pending", "approved", "rejected",
                                 "timeout", "gone"}]
      BY <1>12 DEF GetRequest, AfterGet, TypeOK
    <3>2. CASE pc' = [pc EXCEPT ![h] = "write"] /\ UNCHANGED lock
      BY <1>12, <3>1, <3>2 DEF GetRequest, store, TypeOK, Exclusive, Critical
    <3>3. CASE pc' = [pc EXCEPT ![h] = "error"] /\ lock' = NoOne
      BY <1>12, <3>1, <3>3 DEF GetRequest, store, TypeOK
    <3> QED BY <1>12, <3>2, <3>3 DEF GetRequest, Goto, Answer
  <2>2. Exclusive'
    BY <1>12 DEF GetRequest, Goto, Answer, AfterGet, Known, store, TypeOK,
       Exclusive, Critical
  <2>3. TokenHeld'
    BY <1>12 DEF GetRequest, Goto, Answer, AfterGet, Known, store, TypeOK,
       TokenHeld, Holds, Critical, Subjected, Exclusive
  <2>4. RequestSpent'
    BY <1>12 DEF GetRequest, Goto, Answer, AfterGet, Known, store, TypeOK,
       RequestSpent, Subjected, Critical
  <2>5. Trusted'
    BY <1>12 DEF GetRequest, Goto, Answer, AfterGet, Known, store, TypeOK,
       Trusted, Critical, Exclusive
  <2>6. Stored'
    BY <1>12 DEF GetRequest, Goto, Answer, AfterGet, Known, store, TypeOK, Stored,
       Critical, Exclusive
  <2>7. Subjected'
    BY <1>12 DEF GetRequest, Goto, Answer, AfterGet, Known, store, Subjected
  <2> QED BY <2>1, <2>2, <2>3, <2>4, <2>5, <2>6, <2>7
<1>13. ASSUME NEW h \in Handlers, WriteCert(h) PROVE IInv'
  <2>1. TypeOK'
    BY <1>13 DEF WriteCert, Goto, Answer, TypeOK, Exclusive, Critical
  <2>2. Exclusive'
    BY <1>13 DEF WriteCert, Goto, Answer, TypeOK, Exclusive, Critical
  <2>3. TokenHeld'
    BY <1>13 DEF WriteCert, Goto, Answer, TypeOK, TokenHeld, Holds, Critical,
       Subjected, Exclusive
  <2>4. RequestSpent'
    BY <1>13 DEF WriteCert, Goto, Answer, TypeOK, RequestSpent, Subjected, Critical
  <2>5. Trusted'
    BY <1>13 DEF WriteCert, Goto, Answer, TypeOK, Trusted, Critical, Exclusive
  <2>6. Stored'
    BY <1>13 DEF WriteCert, Goto, Answer, TypeOK, Stored, Critical, Exclusive
  <2>7. Subjected'
    BY <1>13 DEF WriteCert, Goto, Answer, Subjected
  <2> QED BY <2>1, <2>2, <2>3, <2>4, <2>5, <2>6, <2>7
<1>14. ASSUME NEW h \in Handlers, PushClient(h) PROVE IInv'
  <2>1. TypeOK'
    BY <1>14 DEF PushClient, Goto, TypeOK, Exclusive, Critical
  <2>2. Exclusive'
    BY <1>14 DEF PushClient, Goto, TypeOK, Exclusive, Critical
  <2>3. TokenHeld'
    BY <1>14 DEF PushClient, Goto, TypeOK, TokenHeld, Holds, Critical, Subjected,
       Exclusive
  <2>4. RequestSpent'
    BY <1>14 DEF PushClient, Goto, TypeOK, RequestSpent, Subjected, Critical
  <2>5. Trusted'
    BY <1>14 DEF PushClient, Goto, TypeOK, Trusted, Critical, Exclusive
  <2>6. Stored'
    BY <1>14 DEF PushClient, Goto, TypeOK, Stored, Critical, Exclusive
  <2>7. Subjected'
    BY <1>14 DEF PushClient, Goto, Subjected
  <2> QED BY <2>1, <2>2, <2>3, <2>4, <2>5, <2>6, <2>7
<1>15. ASSUME NEW h \in Handlers, SaveRegistry(h) PROVE IInv'
  <2>1. TypeOK'
    BY <1>15, ZenonT(60) DEF SaveRegistry, Goto, Answer, Saved, CutShort, TypeOK, Exclusive,
       Critical
  <2>2. Exclusive'
    BY <1>15 DEF SaveRegistry, Goto, Answer, Saved, CutShort, TypeOK, Exclusive,
       Critical
  <2>3. TokenHeld'
    BY <1>15 DEF SaveRegistry, Goto, Answer, Saved, CutShort, TypeOK, TokenHeld,
       Holds, Critical, Subjected, Exclusive
  <2>4. RequestSpent'
    BY <1>15 DEF SaveRegistry, Goto, Answer, Saved, CutShort, TypeOK,
       RequestSpent, Subjected, Critical
  <2>5. Trusted'
    BY <1>15 DEF SaveRegistry, Goto, Answer, Saved, CutShort, TypeOK, Trusted,
       Critical, Exclusive
  <2>6. Stored'
    BY <1>15 DEF SaveRegistry, Goto, Answer, Saved, CutShort, TypeOK, Stored,
       Critical, Exclusive
  <2>7. Subjected'
    BY <1>15 DEF SaveRegistry, Goto, Answer, Saved, CutShort, Subjected
  <2> QED BY <2>1, <2>2, <2>3, <2>4, <2>5, <2>6, <2>7
<1>16. ASSUME NEW h \in Handlers, ApproveRequest(h) PROVE IInv'
  <2>1. TypeOK'
    BY <1>16 DEF ApproveRequest, Goto, Answer, Known, store, TypeOK, Subjected,
       Exclusive, Critical
  <2>2. Exclusive'
    BY <1>16 DEF ApproveRequest, Goto, Answer, Known, store, TypeOK, Exclusive, Critical
  <2>3. TokenHeld'
    BY <1>16 DEF ApproveRequest, Goto, Answer, Known, store, TypeOK, TokenHeld,
       Holds, Critical, Subjected, Exclusive
  <2>4. RequestSpent'
    BY <1>16 DEF ApproveRequest, Goto, Answer, Known, store, TypeOK, RequestSpent,
       Subjected, Critical
  <2>5. Trusted'
    BY <1>16 DEF ApproveRequest, Goto, Answer, Known, store, TypeOK, Trusted,
       Critical, Exclusive
  <2>6. Stored'
    BY <1>16 DEF ApproveRequest, Goto, Answer, Known, store, TypeOK, Stored,
       Critical, Exclusive
  <2>7. Subjected'
    BY <1>16 DEF ApproveRequest, Goto, Answer, Known, store, Subjected
  <2> QED BY <2>1, <2>2, <2>3, <2>4, <2>5, <2>6, <2>7
<1>17. CASE UNCHANGED vars
  BY <1>17 DEF vars, store, TypeOK, Exclusive, TokenHeld, RequestSpent, Trusted, Stored,
     Subjected, Holds, Critical
<1> QED BY <1>1, <1>2, <1>3, <1>4, <1>5, <1>6, <1>7, <1>8, <1>9, <1>10, <1>11, <1>12, <1>13, <1>14, <1>15, <1>16, <1>17
        DEF Next, HandlerStep

\* The invariant holds in every reachable state.
LEMMA AlwaysIInv == Spec => []IInv
BY InitIInv, NextIInv, PTL DEF Spec

(***************************************************************************)
(* A token admits one client and one ApprovePairing call succeeds per      *)
(* request, for any number of concurrent calls and restarts.               *)
(***************************************************************************)
THEOREM SingleAdmission == Spec => []AdmitsOne
<1>1. IInv => AdmitsOne
  BY DEF IInv, TokenHeld, RequestSpent, Holds, AdmitsOne
<1> QED BY <1>1, AlwaysIInv, PTL

(***************************************************************************)
(* Nobody is admitted by approval before somebody enrolled with a token,   *)
(* unless a caller without an enrolled certificate was let in while        *)
(* require_client_cert was off.                                            *)
(***************************************************************************)
THEOREM RootOfTrust == Spec => []TrustStartsWithToken
<1>1. IInv => TrustStartsWithToken
  BY DEF IInv, Trusted, TrustStartsWithToken
<1> QED BY <1>1, AlwaysIInv, PTL

(***************************************************************************)
(* An acknowledged enrollment is in memory and in both files, after any    *)
(* number of restarts, unless a write of metadata.toml was cut short.      *)
(***************************************************************************)
THEOREM Durability == Spec => []EnrolledIsStored
<1>1. IInv => EnrolledIsStored
  BY DEF IInv, Stored, EnrolledIsStored
<1> QED BY <1>1, AlwaysIInv, PTL

-----------------------------------------------------------------------------
(* ClientStore: Enrollment proves its properties for calls that may come   *)
(* at any time.  A device with its processes, its retries at one address   *)
(* after the other and its polls makes no others, so that what is proved   *)
(* of the server holds with the device, too.                               *)

\* A process polls a pairing request, never an Enroll call.
PollsRequest ==
    /\ DOMAIN ppc = Procs /\ DOMAIN call = Procs
    /\ \A p \in Procs : ppc[p] = "poll" => call[p] \in Requests

\* The steps of the device leave the server alone, and none of them starts
\* to poll.
LEMMA DeviceStepLocal ==
    ASSUME NEW p \in Procs, DeviceStep(p), PollsRequest
    PROVE  PollsRequest' /\ UNCHANGED vars
<1> USE DEF PollsRequest, At, Go
<1>1. CASE Begin(p) \/ NoConnection(p) \/ CallEnroll(p) \/ EnrollAnswers(p)
  BY <1>1 DEF Begin, NoConnection, CallEnroll, EnrollAnswers
<1>2. CASE LoseAnswer(p) \/ AllFailed(p)
  BY <1>2 DEF LoseAnswer, AllFailed
<1>3. CASE StoreCredentials(p)
  BY <1>3 DEF StoreCredentials, StoreFile
<1>4. CASE LoadServers(p) \/ SaveServers(p) \/ StoreFails(p)
  BY <1>4 DEF LoadServers, SaveServers, StoreFails, StopsWriting
<1>5. CASE RemoveLoads(p)
  BY <1>5 DEF RemoveLoads
<1>6. CASE RemoveSaves(p) \/ RemoveDir(p)
  BY <1>6 DEF RemoveSaves, RemoveDir
<1>7. CASE ConnectLoads(p)
  BY <1>7 DEF ConnectLoads
<1>8. CASE ConnectServer(p)
  <2>1. /\ UNCHANGED <<vars, call>>
        /\ \E l \in {"nocreds", "unreachable", "connected", "refused"} : Go(p, l)
    BY <1>8 DEF ConnectServer
  <2>2. QED
    BY <2>1
<1>9. CASE Killed(p)
  BY <1>9 DEF Killed, StopsWriting
<1>10. QED
  BY <1>1, <1>2, <1>3, <1>4, <1>5, <1>6, <1>7, <1>8, <1>9 DEF DeviceStep

\* A pairing request becomes the one its process polls.
LEMMA RequestPairingStep ==
    ASSUME NEW p \in Procs, RequestPairing(p), PollsRequest
    PROVE  PollsRequest' /\ Next
<1>1. PICK r \in Requests : CreateRequest(r) /\ call' = [call EXCEPT ![p] = r]
  BY DEF RequestPairing
<1>2. \E l \in {"poll", "try"} : ppc' = [ppc EXCEPT ![p] = l]
  BY DEF RequestPairing, Go
<1>3. PollsRequest'
  BY <1>1, <1>2 DEF PollsRequest
<1>4. QED
  BY <1>1, <1>3 DEF Next

\* A poll is the server's PollStatus of a pairing request, a step of Enrollment.
LEMMA PollStep ==
    ASSUME NEW p \in Procs, Poll(p), PollsRequest
    PROVE  PollsRequest' /\ Next
<1>1. call[p] \in Requests /\ PollStatus(call[p])
  BY DEF Poll, At, PollsRequest
<1>2. UNCHANGED call /\ \E l \in {"poll", "try", "cert"} : ppc' = [ppc EXCEPT ![p] = l]
  BY DEF Poll, Go
<1>3. PollsRequest'
  BY <1>1, <1>2 DEF PollsRequest
<1>4. QED
  BY <1>1, <1>3 DEF Next

\* The server's own steps are steps of Enrollment.
LEMMA ServerStepIsEnrollment ==
    ASSUME ServerStep, PollsRequest
    PROVE  PollsRequest' /\ Next
<1>1. PollsRequest'
  BY DEF ServerStep, device, PollsRequest
<1>2. Next
  BY DEF ServerStep, Next, Handlers
<1>3. QED
  BY <1>1, <1>2

\* Every step of the composition is a step of Enrollment, or leaves the
\* server alone.
LEMMA StoreStep == PollsRequest /\ [Next2]_all => PollsRequest' /\ [Next]_vars
<1> SUFFICES ASSUME PollsRequest, [Next2]_all PROVE PollsRequest' /\ [Next]_vars
  OBVIOUS
<1>1. CASE UNCHANGED all
  BY <1>1 DEF all, device, PollsRequest
<1>2. CASE ServerStep
  BY <1>2, ServerStepIsEnrollment
<1>3. CASE \E p \in Procs : DeviceStep(p)
  BY <1>3, DeviceStepLocal
<1>4. CASE \E p \in Procs : RequestPairing(p) \/ Poll(p)
  BY <1>4, RequestPairingStep, PollStep
<1>5. QED
  BY <1>1, <1>2, <1>3, <1>4 DEF Next2

(***************************************************************************)
(* The server behind the device's processes is a server of Enrollment:     *)
(* trying the same token at several addresses, a new pairing request after *)
(* a failure, and polls in between are covered by what is proved there.    *)
(***************************************************************************)
THEOREM StoreImplementsEnrollment == Spec2 => Spec
<1>1. Init2 => Init /\ PollsRequest
  BY DEF Init2, PollsRequest
<1>2. QED
  BY <1>1, StoreStep, PTL DEF Spec2, Spec

(***************************************************************************)
(* With the device's retries, too, a token admits one client and a request *)
(* is approved by one call, the first client came by a token unless        *)
(* require_client_cert was off at some call, and a client that was told of *)
(* its success is in the server's files.                                   *)
(***************************************************************************)
THEOREM ClientStoreSafety ==
    Spec2 => [](AdmitsOne /\ TrustStartsWithToken /\ EnrolledIsStored)
<1>1. QED
  BY StoreImplementsEnrollment, SingleAdmission, RootOfTrust, Durability, PTL

-----------------------------------------------------------------------------
(* The store of the device.  Its properties come from one invariant:       *)
(* as long as the processes did not meet at the store, the one that is     *)
(* there knows what servers.toml and the three files hold, and what it is  *)
(* about to write belongs to a call that the server has answered.          *)

Entries == {"here", "other"}
Places == {"start", "try", "wait", "poll", "failed", "done", "killed", "nocreds",
           "unreachable", "connected", "refused"} \cup Writing
Owners == Procs \cup {NoOne}

StoreTyped ==
    /\ job \in [Procs -> Jobs]
    /\ ppc \in [Procs -> Places]
    /\ DOMAIN call = Procs
    /\ caller \in [Enrollers \cup Requests -> Owners]
    /\ files \in [crt : Owners, key : Owners, pin : Owners]
    /\ toml \in Seq(Entries)
    /\ copy \in [Procs -> Seq(Entries)]

\* Where a process is tells what it does, and which call it waits for.
PlaceTellsJob ==
    \A p \in Procs :
        /\ ppc[p] \in {"cert", "key", "pin"} => job[p] \in {"qr", "approval"}
        /\ ppc[p] \in {"load", "save"} => job[p] \in {"qr", "approval", "other"}
        /\ ppc[p] \in {"try", "wait", "poll"} => job[p] \in {"qr", "approval"}
        /\ ppc[p] \in {"prompt", "rmdir"} => job[p] = "remove"
        /\ ppc[p] \in {"creds", "nocreds", "refused"} => job[p] = "connect"
        /\ ppc[p] = "wait" => /\ job[p] = "qr"
                              /\ call[p] \in Enrollers /\ caller[call[p]] = p
        /\ ppc[p] = "poll" => /\ job[p] = "approval"
                              /\ call[p] \in Requests /\ caller[call[p]] = p

\* A request that is approved was approved by a call, and a request that a
\* process made is known to have been made.
ApprovedByCall ==
    /\ \A r \in Requests : req[r] = "approved" =>
          \E h \in Approvers : subject[h] = r /\ pc[h] = "ok"
    /\ \A r \in Requests : caller[r] # NoOne => req[r] # "none"

\* The server has answered a call made for this process's certificate.
Enrolled(p) == \E h \in Handlers : pc[h] = "ok" /\ Certified(h) = p

OneAtStore == ~clash => \A p, q \in Procs : AtStore(p) /\ AtStore(q) => p = q

\* What the process at the store has read is still so.
ReadIsCurrent ==
    ~clash /\ ~torn =>
        /\ ~garbled
        /\ \A p \in Procs :
              /\ ppc[p] \in {"save", "prompt"} => copy[p] = toml
              /\ ppc[p] = "creds" => Contains(toml, "here")
              /\ ppc[p] = "rmdir" => ~Contains(toml, call[p])

\* The files are written for an enrollment that was answered, and belong
\* together whenever servers.toml lists the server and nobody is writing them.
FilesBelongTogether ==
    ~clash /\ ~torn =>
        /\ \A p \in Procs :
              /\ AtStore(p) /\ job[p] \in {"qr", "approval"} => Enrolled(p)
              /\ ppc[p] = "key" => files.crt = p
              /\ ppc[p] = "pin" => files.crt = p /\ files.key = p
              /\ ppc[p] \in {"load", "save"} /\ job[p] # "other" =>
                    files.crt = p /\ files.key = p /\ files.pin = p
        /\ Contains(toml, "here") /\ (\A p \in Procs : ppc[p] \notin {"key", "pin"}) =>
              \E p \in Procs : files.crt = p /\ files.key = p /\ files.pin = p /\ Enrolled(p)

StoreInv ==
    /\ StoreTyped /\ PlaceTellsJob /\ ApprovedByCall /\ OneAtStore
    /\ ReadIsCurrent /\ FilesBelongTogether /\ EnrolledCanConnect

\* A fresh device, its files included, satisfies the invariant.
LEMMA StoreInit == Init2 => StoreInv
<1> SUFFICES ASSUME Init2 PROVE StoreInv
  OBVIOUS
<1> USE StoreAssumption
<1>1. StoreTyped /\ ppc = [p \in Procs |-> "start"]
  BY EmptySeq DEF Init2, StoreTyped, Places, Owners, Empty, Entries
<1>2. PlaceTellsJob /\ OneAtStore /\ EnrolledCanConnect
  BY <1>1 DEF PlaceTellsJob, OneAtStore, AtStore, Writing, EnrolledCanConnect
<1>3. ApprovedByCall
  BY DEF Init2, Init, ApprovedByCall
<1>4. ReadIsCurrent /\ FilesBelongTogether
  <2>1. ~Contains(toml, "here")
    BY DEF Init2, Contains
  <2> QED BY <1>1, <2>1 DEF Init2, ReadIsCurrent, FilesBelongTogether, AtStore, Writing
<1> QED BY <1>1, <1>2, <1>3, <1>4 DEF StoreInv

\* A certificate the server has stored stays so.
LEMMA EnrolledKept ==
    ASSUME StoreTyped, Subjected, subject' = subject,
           \A h \in Handlers : pc[h] = "ok" => pc'[h] = "ok",
           \A x \in Enrollers \cup Requests : caller[x] # NoOne => caller'[x] = caller[x],
           NEW p \in Procs, Enrolled(p)
    PROVE  Enrolled(p)'
<1>1. PICK h \in Handlers : pc[h] = "ok" /\ Certified(h) = p
  BY DEF Enrolled
<1>2. Certified(h)' = p
  BY <1>1, StoreAssumption DEF StoreTyped, Subjected, Certified, Handlers
<1> QED BY <1>1, <1>2 DEF Enrolled

\* What ServerRegistry::remove and upsert leave in the list.
LEMMA WithoutSelects ==
    ASSUME NEW reg \in Seq(Entries), NEW s
    PROVE  /\ Without(reg, s) \in Seq(Entries)
           /\ \A t : Contains(Without(reg, s), t) <=> Contains(reg, t) /\ t # s
<1> DEFINE kept == {i \in DOMAIN reg : reg[i] # s}
           rank(i) == Cardinality({j \in kept : j <= i})
           n == Cardinality(kept)
           r == [i \in kept |-> rank(i)]
           at(k) == CHOOSE i \in kept : rank(i) = k
           out == [k \in 1..n |-> reg[at(k)]]
<1>1. DOMAIN reg = 1..Len(reg) /\ Len(reg) \in Nat
  BY LenProperties
<1>2. kept \subseteq 1..Len(reg) /\ IsFiniteSet(kept) /\ n \in Nat
  <2>1. kept \in SUBSET (1..Len(reg))
    BY <1>1
  <2>2. IsFiniteSet(1..Len(reg))
    BY <1>1, FS_Interval
  <2> HIDE DEF kept
  <2>3. IsFiniteSet(kept)
    BY <2>1, <2>2, FS_Subset
  <2> QED BY <2>1, <2>3, FS_CardinalityType
<1>3. \A i \in kept : IsFiniteSet({j \in kept : j <= i})
  <2> TAKE i \in kept
  <2>1. {j \in kept : j <= i} \in SUBSET kept
    OBVIOUS
  <2> HIDE DEF kept
  <2> QED BY <1>2, <2>1, FS_Subset
<1>4. ASSUME NEW i \in kept PROVE rank(i) \in 1..n
  <2>1. rank(i) \in Nat /\ rank(i) <= n
    BY <1>2, <1>3, FS_Subset, FS_CardinalityType
  <2>2. i \in {j \in kept : j <= i}
    BY <1>2
  <2>3. rank(i) # 0
    BY <1>3, <2>2, FS_EmptySet
  <2> QED BY <1>2, <2>1, <2>3
<1>5. ASSUME NEW i \in kept, NEW k \in kept, i < k PROVE rank(i) # rank(k)
  <2>1. {j \in kept : j <= i} \subseteq {j \in kept : j <= k}
    BY <1>2, <1>5
  <2>2. k \in {j \in kept : j <= k} /\ k \notin {j \in kept : j <= i}
    BY <1>2, <1>5
  <2> QED BY <1>3, <2>1, <2>2, FS_Subset
<1>6. \A i, k \in kept : rank(i) = rank(k) => i = k
  <2> SUFFICES ASSUME NEW i \in kept, NEW k \in kept, i # k PROVE rank(i) # rank(k)
    OBVIOUS
  <2>1. i < k \/ k < i
    BY <1>2
  <2> QED BY <1>5, <2>1
<1> HIDE DEF kept, rank
<1>7. r \in Injection(kept, 1..n)
  BY <1>4, <1>6 DEF Injection, IsInjective
<1>8. IsFiniteSet(1..n) /\ Cardinality(1..n) = n
  BY <1>2, FS_Interval
<1>9. r \in Surjection(kept, 1..n)
  BY <1>7, <1>8, FS_Injection
<1>10. \A k \in 1..n : at(k) \in kept /\ rank(at(k)) = k
  BY <1>9 DEF Surjection
<1>11. \A i \in kept : at(rank(i)) = i
  BY <1>4, <1>6, <1>10
<1> HIDE DEF at
<1>12. \A k \in 1..n : reg[at(k)] \in Entries
  BY <1>1, <1>2, <1>10, ElementOfSeq
<1>13. out \in Seq(Entries) /\ Len(out) = n
  BY <1>2, <1>12, SeqDef
<1>14. Without(reg, s) = out
  BY DEF Without, kept, rank, at
<1>15. ASSUME NEW t PROVE Contains(out, t) <=> \E i \in kept : reg[i] = t
  BY <1>4, <1>10, <1>11, <1>13 DEF Contains
<1>16. ASSUME NEW t PROVE (\E i \in kept : reg[i] = t) <=> Contains(reg, t) /\ t # s
  BY <1>1 DEF kept, Contains
<1> QED BY <1>13, <1>14, <1>15, <1>16

\* upsert adds or replaces its own entry and keeps the others.
LEMMA UpsertAdds ==
    ASSUME NEW reg \in Seq(Entries), NEW e \in Entries
    PROVE  /\ Upsert(reg, e) \in Seq(Entries)
           /\ \A t : Contains(Upsert(reg, e), t) <=> Contains(reg, t) \/ t = e
BY DEF Upsert, Contains

\* Steps of a process that is not at the store.
LEMMA NoConnectionStep ==
    ASSUME StoreInv, Subjected, NEW p \in Procs, NoConnection(p)
    PROVE  StoreInv'
<1> USE DEF StoreInv, NoConnection
<1>1. \A q \in Procs : Enrolled(q) => Enrolled(q)'
  BY EnrolledKept DEF vars
<1>2. StoreTyped' /\ PlaceTellsJob'
  BY DEF StoreTyped, PlaceTellsJob, vars
<1>3. OneAtStore' /\ ReadIsCurrent' /\ FilesBelongTogether'
  BY <1>1 DEF OneAtStore, ReadIsCurrent, FilesBelongTogether, AtStore
<1>4. ApprovedByCall' /\ EnrolledCanConnect'
  BY DEF ApprovedByCall, EnrolledCanConnect, vars, store
<1> QED BY <1>2, <1>3, <1>4

\* The call with the code: nothing is at the store yet.
LEMMA CallEnrollStep ==
    ASSUME StoreInv, Subjected, NEW p \in Procs, CallEnroll(p)
    PROVE  StoreInv'
<1> USE StoreAssumption DEF StoreInv, CallEnroll, At, Go
<1>1. \A q \in Procs : Enrolled(q) => Enrolled(q)'
  BY EnrolledKept DEF vars
<1>2. StoreTyped'
  BY DEF StoreTyped, Places, Owners
<1>3. PlaceTellsJob'
  BY DEF StoreTyped, PlaceTellsJob, vars
<1>4. OneAtStore' /\ ReadIsCurrent' /\ FilesBelongTogether'
  BY <1>1 DEF StoreTyped, OneAtStore, ReadIsCurrent, FilesBelongTogether, AtStore, Writing
<1>5. ApprovedByCall' /\ EnrolledCanConnect'
  BY DEF StoreTyped, ApprovedByCall, EnrolledCanConnect, vars, store
<1> QED BY <1>2, <1>3, <1>4, <1>5

\* A lost answer, and running out of addresses: the token may be spent.
LEMMA GiveUpStep ==
    ASSUME StoreInv, Subjected, NEW p \in Procs, LoseAnswer(p) \/ AllFailed(p)
    PROVE  StoreInv'
<1> USE DEF StoreInv, At, Go
<1>0. /\ \/ /\ ppc[p] \in {"wait", "poll"} /\ ppc' = [ppc EXCEPT ![p] = "try"]
         \/ ppc[p] = "try" /\ ppc' = [ppc EXCEPT ![p] = "failed"]
      /\ UNCHANGED <<vars, job, call, caller, files, toml, garbled, copy, clash, torn>>
  BY DEF LoseAnswer, AllFailed
<1>1. \A q \in Procs : Enrolled(q) => Enrolled(q)'
  BY <1>0, EnrolledKept DEF vars
<1>2. PICK l \in {"try", "failed"} :
        ppc[p] \in {"wait", "poll", "try"} /\ ppc' = [ppc EXCEPT ![p] = l]
  BY <1>0
<1>3. StoreTyped' /\ PlaceTellsJob'
  BY <1>0, <1>2 DEF StoreTyped, PlaceTellsJob, Places
<1>7. OneAtStore' /\ ReadIsCurrent'
  BY <1>0, <1>2 DEF StoreTyped, OneAtStore, ReadIsCurrent, AtStore, Writing
<1>5. FilesBelongTogether'
  BY <1>0, <1>1 DEF StoreTyped, FilesBelongTogether, AtStore, Writing
<1>6. ApprovedByCall' /\ EnrolledCanConnect'
  BY <1>0 DEF StoreTyped, ApprovedByCall, EnrolledCanConnect, vars, store
<1> QED BY <1>3, <1>5, <1>6, <1>7

\* A process that goes to the store notes whether another one is there.
LEMMA ClashIsNoted ==
    ASSUME NEW p \in Procs, NotesClash(p), ~clash'
    PROVE  ~clash /\ \A q \in Procs \ {p} : ppc[q] \notin Writing
BY DEF NotesClash, Alone, AtStore

\* A job starts; a remove job goes straight to the store.
LEMMA BeginStep ==
    ASSUME StoreInv, Subjected, NEW p \in Procs, Begin(p)
    PROVE  StoreInv'
<1> USE StoreAssumption DEF StoreInv, At, Go
<1>1. PICK l \in {"load", "try", "failed"} :
        /\ ppc' = [ppc EXCEPT ![p] = l]
        /\ l = "load" => job[p] = "other" /\ NotesClash(p)
        /\ l = "try" => job[p] \in {"qr", "approval"}
        /\ clash' = clash \/ NotesClash(p)
  BY DEF Begin
<1>2. /\ ppc[p] = "start"
      /\ UNCHANGED <<vars, job, call, caller, files, toml, garbled, copy, torn>>
  BY DEF Begin
<1>3. ASSUME ~clash'
      PROVE  ~clash /\ (l = "load" => \A q \in Procs \ {p} : ppc[q] \notin Writing)
  BY <1>1, <1>3, ClashIsNoted
<1>4. \A q \in Procs : Enrolled(q) => Enrolled(q)'
  BY <1>2, EnrolledKept DEF vars
<1>5. StoreTyped' /\ PlaceTellsJob'
  BY <1>1, <1>2 DEF StoreTyped, PlaceTellsJob, Places, Writing
<1>7. OneAtStore'
  BY <1>1, <1>3 DEF StoreTyped, OneAtStore, AtStore, Writing
<1>8. ReadIsCurrent'
  BY <1>1, <1>2, <1>3 DEF StoreTyped, ReadIsCurrent
<1>9. FilesBelongTogether'
  BY <1>1, <1>2, <1>3, <1>4 DEF StoreTyped, FilesBelongTogether, AtStore, Writing
<1>10. ApprovedByCall' /\ EnrolledCanConnect'
  BY <1>1, <1>2, <1>3 DEF StoreTyped, ApprovedByCall, EnrolledCanConnect, vars, store
<1> QED BY <1>5, <1>7, <1>8, <1>9, <1>10

\* An answer that was taken: the server has stored the certificate.
LEMMA EnrollAnswersStep ==
    ASSUME StoreInv, Subjected, NEW p \in Procs, EnrollAnswers(p)
    PROVE  StoreInv'
<1> USE StoreAssumption DEF StoreInv, At, Go
<1>1. PICK l \in {"cert", "try"} :
        /\ ppc' = [ppc EXCEPT ![p] = l]
        /\ l = "cert" => pc[call[p]] = "ok" /\ NotesClash(p)
        /\ l = "try" => pc[call[p]] \in {"error", "dead"}
        /\ clash' = clash \/ NotesClash(p)
  BY DEF EnrollAnswers
<1>2. /\ ppc[p] = "wait"
      /\ UNCHANGED <<vars, job, call, caller, files, toml, garbled, copy, torn>>
  BY DEF EnrollAnswers
<1>3. ASSUME ~clash'
      PROVE  ~clash /\ (l = "cert" => \A q \in Procs \ {p} : ppc[q] \notin Writing)
  BY <1>1, <1>3, ClashIsNoted
<1>4. \A q \in Procs : Enrolled(q) => Enrolled(q)'
  BY <1>2, EnrolledKept DEF vars
<1>5. StoreTyped' /\ PlaceTellsJob'
  BY <1>1, <1>2 DEF StoreTyped, PlaceTellsJob, Places, Writing
<1>7. OneAtStore'
  BY <1>1, <1>3 DEF StoreTyped, OneAtStore, AtStore, Writing
<1>8. ReadIsCurrent'
  BY <1>1, <1>2, <1>3 DEF StoreTyped, ReadIsCurrent
<1>9. l = "cert" => Enrolled(p)
  BY <1>1, <1>2 DEF PlaceTellsJob, Enrolled, Certified, Handlers
<1>10. FilesBelongTogether'
  BY <1>1, <1>2, <1>3, <1>4, <1>9 DEF StoreTyped, FilesBelongTogether, AtStore, Writing
<1>11. ApprovedByCall' /\ EnrolledCanConnect'
  BY <1>1, <1>2, <1>3 DEF StoreTyped, ApprovedByCall, EnrolledCanConnect, vars, store
<1> QED BY <1>5, <1>7, <1>8, <1>10, <1>11

\* The three files are written one by one; whoever writes them is alone, or
\* the clash is noted.
LEMMA StoreCredentialsStep ==
    ASSUME StoreInv, Subjected, NEW p \in Procs, StoreCredentials(p)
    PROVE  StoreInv'
<1> USE StoreAssumption DEF StoreInv, At, Go
<1>1. \/ /\ ppc[p] = "cert" /\ ppc' = [ppc EXCEPT ![p] = "key"]
         /\ files' = [files EXCEPT !.crt = p]
      \/ /\ ppc[p] = "key" /\ ppc' = [ppc EXCEPT ![p] = "pin"]
         /\ files' = [files EXCEPT !.key = p]
      \/ /\ ppc[p] = "pin" /\ ppc' = [ppc EXCEPT ![p] = "load"]
         /\ files' = [files EXCEPT !.pin = p]
  BY DEF StoreCredentials, StoreFile
<1>2. UNCHANGED <<vars, job, call, caller, toml, garbled, copy, torn>>
  BY DEF StoreCredentials, StoreFile
<1>3. ASSUME ~clash' PROVE ~clash /\ \A q \in Procs \ {p} : ppc[q] \notin Writing
  <2>1. NotesClash(p)
    BY DEF StoreCredentials, StoreFile
  <2> QED BY <1>3, <2>1, ClashIsNoted
<1>4. \A q \in Procs : Enrolled(q) => Enrolled(q)'
  BY <1>2, EnrolledKept DEF vars
<1>5. PICK l \in {"key", "pin", "load"} :
        ppc[p] \in {"cert", "key", "pin"} /\ ppc' = [ppc EXCEPT ![p] = l]
  BY <1>1
<1>6. StoreTyped' /\ PlaceTellsJob'
  <2>1. files' \in [crt : Owners, key : Owners, pin : Owners]
    BY <1>1 DEF StoreTyped, Owners
  <2> QED BY <1>2, <1>5, <2>1 DEF StoreTyped, PlaceTellsJob, Places, Writing
<1>7. OneAtStore'
  BY <1>2, <1>3, <1>5 DEF StoreTyped, OneAtStore, AtStore, Writing, vars
<1>8. ReadIsCurrent'
  BY <1>1, <1>2, <1>3 DEF StoreTyped, ReadIsCurrent
<1>9. FilesBelongTogether'
  BY <1>1, <1>2, <1>3, <1>4 DEF StoreTyped, PlaceTellsJob, FilesBelongTogether, AtStore, Writing
<1>10. ApprovedByCall' /\ EnrolledCanConnect'
  BY <1>1, <1>2, <1>3 DEF StoreTyped, ApprovedByCall, EnrolledCanConnect, vars, store
<1> QED BY <1>6, <1>7, <1>8, <1>9, <1>10

\* The enrolling process reads servers.toml into its copy.
LEMMA LoadServersStep ==
    ASSUME StoreInv, Subjected, NEW p \in Procs, LoadServers(p)
    PROVE  StoreInv'
<1> USE StoreAssumption DEF StoreInv, LoadServers, At, Go
<1>1. ASSUME ~clash' PROVE ~clash /\ \A q \in Procs \ {p} : ppc[q] \notin Writing
  BY <1>1, ClashIsNoted
<1>2. \A q \in Procs : Enrolled(q) => Enrolled(q)'
  BY EnrolledKept DEF vars
<1>3. StoreTyped'
  BY DEF StoreTyped, Places, Writing
<1>4. PlaceTellsJob'
  BY DEF StoreTyped, PlaceTellsJob, vars
<1>5. OneAtStore' /\ ReadIsCurrent'
  BY <1>1 DEF StoreTyped, OneAtStore, ReadIsCurrent, AtStore, Writing
<1>6. FilesBelongTogether'
  BY <1>1, <1>2 DEF StoreTyped, FilesBelongTogether, AtStore, Writing
<1>7. ApprovedByCall' /\ EnrolledCanConnect'
  BY <1>1 DEF StoreTyped, ApprovedByCall, EnrolledCanConnect, vars, store
<1> QED BY <1>3, <1>4, <1>5, <1>6, <1>7

\* It writes its copy with the new entry back.
LEMMA SaveServersStep ==
    ASSUME StoreInv, Subjected, NEW p \in Procs, SaveServers(p)
    PROVE  StoreInv'
<1> USE StoreAssumption DEF StoreInv, At, Go
<1> DEFINE e == IF job[p] = "other" THEN "other" ELSE "here"
<1>0. /\ ppc[p] = "save" /\ ppc' = [ppc EXCEPT ![p] = "done"]
      /\ toml' = Upsert(copy[p], e) /\ ~garbled'
      /\ copy' = [copy EXCEPT ![p] = <<>>]
      /\ UNCHANGED <<vars, job, call, caller, files, torn>>
  BY DEF SaveServers
<1>1. ASSUME ~clash' PROVE ~clash /\ \A q \in Procs \ {p} : ppc[q] \notin Writing
  BY <1>1, ClashIsNoted DEF SaveServers
<1>2. \A q \in Procs : Enrolled(q) => Enrolled(q)'
  BY <1>0, EnrolledKept DEF vars
<1>3. /\ toml' \in Seq(Entries)
      /\ \A t : Contains(toml', t) <=> Contains(copy[p], t) \/ t = e
  BY <1>0, UpsertAdds DEF StoreTyped, Entries
<1> HIDE DEF e
<1>4. StoreTyped'
  BY <1>0, <1>3 DEF StoreTyped, Places
<1>5. PlaceTellsJob'
  BY <1>0 DEF StoreTyped, PlaceTellsJob, vars
<1>6. OneAtStore' /\ ReadIsCurrent'
  BY <1>0, <1>1 DEF StoreTyped, OneAtStore, ReadIsCurrent, AtStore, Writing
<1>7. FilesBelongTogether'
  <2> SUFFICES ASSUME ~clash', ~torn' PROVE FilesBelongTogether'
    BY DEF FilesBelongTogether
  <2>1. ~clash /\ ~torn /\ \A q \in Procs \ {p} : ppc[q] \notin Writing
    BY <1>0, <1>1
  <2>2. copy[p] = toml
    BY <1>0, <2>1 DEF ReadIsCurrent
  <2>3. job[p] = "other" => (Contains(toml', "here") <=> Contains(toml, "here"))
    BY <1>3, <2>2 DEF e
  <2>4. job[p] # "other" => \E q \in Procs : files.crt = q /\ files.key = q /\ files.pin = q /\ Enrolled(q)
    BY <1>0, <2>1 DEF FilesBelongTogether, PlaceTellsJob, AtStore, Writing
  <2>5. \A q \in Procs : ppc[q] \notin {"key", "pin"}
    BY <1>0, <2>1 DEF Writing
  <2> QED BY <1>0, <1>2, <2>1, <2>3, <2>4, <2>5 DEF StoreTyped, FilesBelongTogether, AtStore, Writing
<1>8. ApprovedByCall' /\ EnrolledCanConnect'
  BY <1>0, <1>1 DEF StoreTyped, ApprovedByCall, EnrolledCanConnect, vars, store
<1> QED BY <1>4, <1>5, <1>6, <1>7, <1>8

\* What a write or a removal that does not complete leaves of the files.
LEMMA LeftFilesTyped ==
    ASSUME StoreTyped, NEW p \in Procs
    PROVE  \A x \in LeftFiles(p) : /\ x \in [crt : Owners, key : Owners, pin : Owners]
                                   /\ ppc[p] = "rmdir" /\ call[p] # "here" => x = files
<1> DEFINE T == [crt : Owners, key : Owners, pin : Owners]
<1>0. files \in T /\ p \in Owners /\ NoOne \in Owners /\ DOMAIN FileOf = {"cert", "key", "pin"}
  BY DEF StoreTyped, Owners, FileOf
<1>1. CASE ppc[p] \in {"cert", "key", "pin"}
  <2>1. FileOf[ppc[p]] \in {"crt", "key", "pin"}
    BY <1>1 DEF FileOf
  <2>2. \A x \in Owners : [files EXCEPT ![FileOf[ppc[p]]] = x] \in T
    BY <1>0, <2>1
  <2>3. LeftFiles(p) = {files} \cup {[files EXCEPT ![FileOf[ppc[p]]] = x] : x \in {NoOne, p}}
    BY <1>0, <1>1 DEF LeftFiles, At
  <2> QED BY <1>0, <1>1, <2>2, <2>3
<1>2. CASE ppc[p] \notin {"cert", "key", "pin"}
  <2>1. \A gone : NotAllOf(gone) \in T
    BY <1>0 DEF NotAllOf
  <2> HIDE DEF T
  <2>2. LeftFiles(p) = IF ppc[p] = "rmdir" /\ call[p] = "here"
                       THEN {NotAllOf(gone) : gone \in SUBSET DOMAIN files} ELSE {files}
    BY <1>0, <1>2 DEF LeftFiles, At
  <2> QED BY <1>0, <2>1, <2>2 DEF T
<1> QED BY <1>1, <1>2

\* What a write that does not complete leaves has the types of the store.
LEMMA StopsWritingTyped ==
    ASSUME StoreTyped, NEW p \in Procs, StopsWriting(p)
    PROVE  /\ files' \in [crt : Owners, key : Owners, pin : Owners]
           /\ toml' \in Seq(Entries) /\ copy' \in [Procs -> Seq(Entries)]
<1>1. <<>> \in Seq(Entries)
  BY EmptySeq
<1>2. toml' \in Seq(Entries) /\ copy' \in [Procs -> Seq(Entries)]
  BY <1>1 DEF StopsWriting, LeavesToml, StoreTyped
<1> QED BY <1>2, LeftFilesTyped DEF StopsWriting

\* A write fails or the process is killed: the store is as it was, or torn.
LEMMA StopStep ==
    ASSUME StoreInv, Subjected, NEW p \in Procs, StoreFails(p) \/ Killed(p)
    PROVE  StoreInv'
<1> USE DEF StoreInv, At, Go
<1>1. PICK l \in {"try", "failed", "killed"} :
        ppc' = [ppc EXCEPT ![p] = l] /\ (l = "try" => job[p] = "approval")
  BY DEF StoreFails, Killed
<1>2. /\ ppc[p] \in {"cert", "key", "pin", "load", "save", "prompt", "rmdir"}
      /\ StopsWriting(p)
  BY DEF StoreFails, Killed
<1>3. /\ ~torn' => /\ ~torn /\ ppc[p] \notin {"key", "pin"}
                   /\ files' = files /\ toml' = toml /\ garbled' = garbled
      /\ copy' = [copy EXCEPT ![p] = <<>>]
      /\ UNCHANGED <<vars, job, call, caller, clash>>
  BY <1>2 DEF StopsWriting
<1>4. \A q \in Procs : Enrolled(q) => Enrolled(q)'
  BY <1>3, EnrolledKept DEF vars
<1>5. StoreTyped' /\ PlaceTellsJob'
  BY <1>1, <1>2, <1>3, StopsWritingTyped DEF StoreTyped, PlaceTellsJob, Places
<1>6. OneAtStore' /\ ReadIsCurrent'
  BY <1>1, <1>3 DEF StoreTyped, OneAtStore, ReadIsCurrent, AtStore, Writing
<1>7. FilesBelongTogether'
  BY <1>1, <1>2, <1>3, <1>4 DEF StoreTyped, FilesBelongTogether, AtStore, Writing
<1>8. ApprovedByCall' /\ EnrolledCanConnect'
  BY <1>1, <1>2, <1>3 DEF StoreTyped, ApprovedByCall, EnrolledCanConnect, vars, store
<1> QED BY <1>5, <1>6, <1>7, <1>8

\* run_remove reads servers.toml before it asks its question.
LEMMA RemoveLoadsStep ==
    ASSUME StoreInv, Subjected, NEW p \in Procs, RemoveLoads(p)
    PROVE  StoreInv'
<1> USE DEF StoreInv, At, Go
<1>1. /\ ppc[p] = "start" /\ job[p] = "remove"
      /\ UNCHANGED <<vars, job, caller, files, toml, garbled, torn>>
  BY DEF RemoveLoads
<1>2. PICK l \in {"failed", "prompt"} :
        /\ ppc' = [ppc EXCEPT ![p] = l]
        /\ \E e : call' \in {call, [call EXCEPT ![p] = e]}
        /\ copy' \in {copy, [copy EXCEPT ![p] = toml]}
        /\ l = "prompt" => copy' = [copy EXCEPT ![p] = toml]
  BY DEF RemoveLoads
<1>3. ASSUME ~clash' PROVE ~clash /\ \A q \in Procs \ {p} : ppc[q] \notin Writing
  BY <1>3, ClashIsNoted DEF RemoveLoads
<1>4. \A q \in Procs : Enrolled(q) => Enrolled(q)'
  BY <1>1, EnrolledKept DEF vars
<1>5. StoreTyped' /\ PlaceTellsJob'
  <2>1. DOMAIN call' = Procs /\ \A q \in Procs \ {p} : call'[q] = call[q]
    BY <1>2 DEF StoreTyped
  <2>2. copy' \in [Procs -> Seq(Entries)]
    BY <1>2 DEF StoreTyped
  <2>3. StoreTyped'
    BY <1>1, <1>2, <2>1, <2>2 DEF StoreTyped, Places, Writing
  <2>4. /\ ppc'[p] \in {"failed", "prompt"} /\ job'[p] = "remove"
        /\ \A q \in Procs \ {p} : ppc'[q] = ppc[q]
    BY <1>1, <1>2 DEF StoreTyped
  <2>5. PlaceTellsJob'
    BY <1>1, <2>1, <2>4 DEF StoreTyped, PlaceTellsJob
  <2> QED BY <2>3, <2>5
<1>7. OneAtStore' /\ ReadIsCurrent'
  BY <1>1, <1>2, <1>3 DEF StoreTyped, OneAtStore, ReadIsCurrent, AtStore, Writing
<1>8. FilesBelongTogether'
  BY <1>1, <1>2, <1>3, <1>4 DEF StoreTyped, FilesBelongTogether, AtStore, Writing
<1>9. ApprovedByCall' /\ EnrolledCanConnect'
  BY <1>1, <1>2, <1>3 DEF StoreTyped, ApprovedByCall, EnrolledCanConnect, vars, store
<1> QED BY <1>5, <1>7, <1>8, <1>9

\* run_remove writes its copy back without the entry.
LEMMA RemoveSavesStep ==
    ASSUME StoreInv, Subjected, NEW p \in Procs, RemoveSaves(p)
    PROVE  StoreInv'
<1> USE DEF StoreInv, At, Go
<1>1. /\ ppc[p] = "prompt" /\ copy' = [copy EXCEPT ![p] = <<>>]
      /\ UNCHANGED <<vars, job, call, caller, files, torn>>
  BY DEF RemoveSaves
<1>2. \/ ppc' = [ppc EXCEPT ![p] = "done"] /\ UNCHANGED <<toml, garbled>>
      \/ /\ ppc' = [ppc EXCEPT ![p] = "rmdir"]
         /\ toml' = Without(copy[p], call[p]) /\ ~garbled'
  BY DEF RemoveSaves
<1>3. ASSUME ~clash' PROVE ~clash /\ \A q \in Procs \ {p} : ppc[q] \notin Writing
  BY <1>3, ClashIsNoted DEF RemoveSaves
<1>4. \A q \in Procs : Enrolled(q) => Enrolled(q)'
  BY <1>1, EnrolledKept DEF vars
<1>5. PICK l \in {"done", "rmdir"} :
        /\ ppc' = [ppc EXCEPT ![p] = l]
        /\ l = "done" => UNCHANGED <<toml, garbled>>
        /\ l = "rmdir" =>
              /\ toml' \in Seq(Entries) /\ ~garbled'
              /\ \A t : Contains(toml', t) <=> Contains(copy[p], t) /\ t # call[p]
  BY <1>2, WithoutSelects DEF StoreTyped
<1>6. StoreTyped' /\ PlaceTellsJob'
  <2>1. <<>> \in Seq(Entries)
    BY EmptySeq
  <2> QED BY <1>1, <1>5, <2>1 DEF StoreTyped, PlaceTellsJob, Places, Writing
<1>7. OneAtStore'
  BY <1>1, <1>3, <1>5 DEF StoreTyped, PlaceTellsJob, OneAtStore, AtStore, Writing, vars
<1>8. ReadIsCurrent'
  BY <1>1, <1>3, <1>5 DEF StoreTyped, ReadIsCurrent, Writing
<1>9. FilesBelongTogether'
  <2> SUFFICES ASSUME ~clash', ~torn' PROVE FilesBelongTogether'
    BY DEF FilesBelongTogether
  <2>1. ~clash /\ ~torn /\ \A q \in Procs \ {p} : ppc[q] \notin Writing
    BY <1>1, <1>3
  <2>2. Contains(toml', "here") => Contains(toml, "here")
    BY <1>1, <1>5, <2>1 DEF ReadIsCurrent
  <2> QED BY <1>1, <1>4, <1>5, <2>1, <2>2 DEF StoreTyped, FilesBelongTogether, AtStore, Writing
<1>10. ApprovedByCall' /\ EnrolledCanConnect'
  BY <1>1, <1>3, <1>5 DEF StoreTyped, ApprovedByCall, EnrolledCanConnect, vars, store
<1> QED BY <1>6, <1>7, <1>8, <1>9, <1>10

\* run_remove deletes the directory of the server.
LEMMA RemoveDirStep ==
    ASSUME StoreInv, Subjected, NEW p \in Procs, RemoveDir(p)
    PROVE  StoreInv'
<1> USE DEF StoreInv, At, Go
<1>1. /\ ppc[p] = "rmdir" /\ ppc' = [ppc EXCEPT ![p] = "done"]
      /\ files' \in [crt : Owners, key : Owners, pin : Owners]
      /\ files' = files \/ call[p] = "here"
      /\ UNCHANGED <<vars, job, call, caller, toml, garbled, copy, torn>>
  BY LeftFilesTyped DEF RemoveDir
<1>2. ASSUME ~clash' PROVE ~clash /\ \A q \in Procs \ {p} : ppc[q] \notin Writing
  BY <1>2, ClashIsNoted DEF RemoveDir
<1>3. \A q \in Procs : Enrolled(q) => Enrolled(q)'
  BY <1>1, EnrolledKept DEF vars
<1>4. StoreTyped' /\ PlaceTellsJob'
  BY <1>1 DEF StoreTyped, PlaceTellsJob, Places
<1>5. OneAtStore'
  BY <1>1, <1>2 DEF StoreTyped, PlaceTellsJob, OneAtStore, AtStore, Writing, vars
<1>6. ReadIsCurrent'
  BY <1>1, <1>2 DEF StoreTyped, ReadIsCurrent
<1>7. FilesBelongTogether'
  BY <1>1, <1>2, <1>3 DEF StoreTyped, ReadIsCurrent, FilesBelongTogether, AtStore, Writing
<1>8. ApprovedByCall' /\ EnrolledCanConnect'
  BY <1>1, <1>2 DEF StoreTyped, ApprovedByCall, EnrolledCanConnect, vars, store
<1> QED BY <1>4, <1>5, <1>6, <1>7, <1>8

\* A connect job reads what the store has and is accepted or refused.
LEMMA ConnectLoadsStep ==
    ASSUME StoreInv, Subjected, NEW p \in Procs, ConnectLoads(p)
    PROVE  StoreInv'
<1> USE DEF StoreInv, At, Go
<1>1. /\ ppc[p] = "start" /\ job[p] = "connect"
      /\ UNCHANGED <<vars, job, call, caller, files, toml, garbled, copy, torn>>
  BY DEF ConnectLoads
<1>2. PICK l \in {"failed", "creds"} :
        /\ ppc' = [ppc EXCEPT ![p] = l]
        /\ l = "creds" => Named(toml, "id") # {}
  BY DEF ConnectLoads
<1>3. l = "creds" => Contains(toml, "here")
  <2>1. Named(toml, "id") = {i \in DOMAIN toml : toml[i] = "here"}
    BY DEF Named
  <2>2. DOMAIN toml = 1..Len(toml)
    BY LenProperties DEF StoreTyped
  <2> QED BY <1>2, <2>1, <2>2 DEF Contains
<1>4. ASSUME ~clash' PROVE ~clash /\ \A q \in Procs \ {p} : ppc[q] \notin Writing
  BY <1>4, ClashIsNoted DEF ConnectLoads
<1>5. \A q \in Procs : Enrolled(q) => Enrolled(q)'
  BY <1>1, EnrolledKept DEF vars
<1>6. StoreTyped' /\ PlaceTellsJob'
  BY <1>1, <1>2 DEF StoreTyped, PlaceTellsJob, Places, Writing
<1>7. OneAtStore'
  BY <1>1, <1>2, <1>4 DEF StoreTyped, OneAtStore, AtStore, Writing, vars
<1>8. ReadIsCurrent'
  BY <1>1, <1>2, <1>3, <1>4 DEF StoreTyped, ReadIsCurrent
<1>9. FilesBelongTogether'
  BY <1>1, <1>2, <1>4, <1>5 DEF StoreTyped, FilesBelongTogether, AtStore, Writing
<1>10. ApprovedByCall' /\ EnrolledCanConnect'
  BY <1>1, <1>2, <1>4 DEF StoreTyped, ApprovedByCall, EnrolledCanConnect, vars, store
<1> QED BY <1>6, <1>7, <1>8, <1>9, <1>10

\* The connection: the files belong together, and the server has the
\* certificate in memory (EnrolledIsStored).
LEMMA ConnectServerStep ==
    ASSUME StoreInv, Subjected, EnrolledIsStored, NEW p \in Procs, ConnectServer(p)
    PROVE  StoreInv'
<1> USE DEF StoreInv, At, Go
<1>1. /\ ppc[p] = "creds"
      /\ UNCHANGED <<vars, job, call, caller, files, toml, garbled, copy, torn>>
  BY DEF ConnectServer
<1>2. PICK l \in {"nocreds", "unreachable", "connected", "refused"} :
        /\ ppc' = [ppc EXCEPT ![p] = l]
        /\ l = "nocreds" => (\E f \in DOMAIN files : files[f] = NoOne) \/ files.crt # files.key
        /\ l = "refused" => up = "up" /\ ~(\E h \in mem : Certified(h) = files.crt)
  BY DEF ConnectServer
<1>3. ASSUME ~clash' PROVE ~clash /\ \A q \in Procs \ {p} : ppc[q] \notin Writing
  BY <1>3, ClashIsNoted DEF ConnectServer
<1>4. \A q \in Procs : Enrolled(q) => Enrolled(q)'
  BY <1>1, EnrolledKept DEF vars
<1>5. StoreTyped' /\ PlaceTellsJob'
  BY <1>1, <1>2 DEF StoreTyped, PlaceTellsJob, Places
<1>6. OneAtStore'
  BY <1>1, <1>2, <1>3 DEF StoreTyped, PlaceTellsJob, OneAtStore, AtStore, Writing, vars
<1>7. ReadIsCurrent'
  BY <1>1, <1>2, <1>3 DEF StoreTyped, ReadIsCurrent
<1>8. FilesBelongTogether'
  BY <1>1, <1>2, <1>3, <1>4 DEF StoreTyped, FilesBelongTogether, AtStore, Writing
<1>9. ASSUME ~clash', ~torn', ~damaged' PROVE l \notin {"nocreds", "refused"}
  <2>1. ~clash /\ ~torn /\ ~damaged /\ \A q \in Procs \ {p} : ppc[q] \notin Writing
    BY <1>1, <1>3, <1>9 DEF vars, store
  <2>2. \A q \in Procs : ppc[q] \notin {"key", "pin"}
    BY <1>1, <2>1 DEF Writing
  <2>3. PICK q \in Procs : files.crt = q /\ files.key = q /\ files.pin = q /\ Enrolled(q)
    BY <1>1, <2>1, <2>2 DEF ReadIsCurrent, FilesBelongTogether
  <2>4. l # "nocreds"
    BY <1>2, <2>3, StoreAssumption DEF StoreTyped
  <2>5. up = "up" => \E h \in mem : Certified(h) = q
    BY <2>1, <2>3 DEF Enrolled, EnrolledIsStored
  <2> QED BY <1>2, <2>3, <2>4, <2>5
<1>10. ApprovedByCall' /\ EnrolledCanConnect'
  BY <1>1, <1>2, <1>3, <1>9 DEF StoreTyped, ApprovedByCall, EnrolledCanConnect, vars, store
<1> QED BY <1>5, <1>6, <1>7, <1>8, <1>10

-----------------------------------------------------------------------------
\* What no step of the server takes back, and where an approval comes from.
ServerKeepsIt ==
    /\ subject' = subject
    /\ \A h \in Handlers : pc[h] \in {"ok", "error", "dead"} => pc'[h] = pc[h]
    /\ \A r \in Requests : req[r] # "none" => req'[r] # "none"
    /\ \A r \in Requests : req'[r] = "approved" =>
          req[r] = "approved" \/ \E h \in Approvers : subject[h] = r /\ pc'[h] = "ok"
    /\ ~damaged' => ~damaged

\* Every step of the server keeps what ServerKeepsIt names.
LEMMA ServerKeeps == ASSUME TypeOK, Subjected, Next PROVE ServerKeepsIt
<1> USE DEF ServerKeepsIt, TypeOK
<1>1. CASE Expire \/ ListPending \/ Restart
  BY <1>1 DEF Expire, ListPending, Restart, CleanupRequests, store
<1>2. CASE Crash
  BY <1>2 DEF Crash, CutShort, store
<1>3. CASE \E t \in Tokens : GenerateToken(t)
  BY <1>3 DEF GenerateToken, store
<1>4. CASE \E r \in Requests : CreateRequest(r) \/ PollStatus(r) \/ RejectRequest(r)
  <2>1. CASE \E r \in Requests : CreateRequest(r)
    BY <2>1 DEF CreateRequest, CleanupRequests, store
  <2>2. CASE \E r \in Requests : PollStatus(r)
    BY <2>2 DEF PollStatus, AfterGet, Known, store
  <2>3. CASE \E r \in Requests : RejectRequest(r)
    BY <2>3 DEF RejectRequest, store
  <2> QED BY <1>4, <2>1, <2>2, <2>3
<1>5. ASSUME NEW h \in Handlers, HandlerStep(h) PROVE ServerKeepsIt
  <2>1. CASE ConsumeToken(h) \/ EnsureEnrolledClient(h) \/ LockStore(h)
    BY <2>1 DEF ConsumeToken, EnsureEnrolledClient, LockStore, Goto, store
  <2>2. CASE GetRequest(h)
    BY <2>2 DEF GetRequest, AfterGet, Known, Goto, Answer, store
  <2>3. CASE WriteCert(h) \/ PushClient(h)
    BY <2>3 DEF WriteCert, PushClient, Goto, Answer
  <2>4. CASE SaveRegistry(h)
    BY <2>4 DEF SaveRegistry, Saved, CutShort, Goto, Answer
  <2>5. CASE ApproveRequest(h)
    <3>1. pc[h] = "mark" /\ subject' = subject /\ damaged' = damaged
      BY <2>5 DEF ApproveRequest, store
    <3>2. \/ /\ req' = [req EXCEPT ![subject[h]] = "timeout"] \/ req' = req
             /\ pc' = [pc EXCEPT ![h] = "error"]
          \/ /\ req' = [req EXCEPT ![subject[h]] = "approved"]
             /\ pc' = [pc EXCEPT ![h] = "ok"]
      BY <2>5 DEF ApproveRequest, Answer, Goto
    <3>3. h \in Enrollers => subject[h] \notin Requests
      BY EnrollmentAssumption DEF Subjected
    <3> QED BY <3>1, <3>2, <3>3 DEF Handlers
  <2> QED BY <1>5, <2>1, <2>2, <2>3, <2>4, <2>5 DEF HandlerStep
<1> QED BY <1>1, <1>2, <1>3, <1>4, <1>5 DEF Next

\* Hence a step of the server keeps what holds of the device.
LEMMA ServerStepKeepsStore ==
    ASSUME StoreInv, Subjected, TypeOK, ServerStep
    PROVE  StoreInv'
<1> USE DEF StoreInv
<1>1. UNCHANGED <<job, ppc, call, caller, files, toml, garbled, copy, clash, torn>>
  BY DEF ServerStep, device
<1>2. ServerKeepsIt
  <2>1. Next
    BY DEF ServerStep, Next, Handlers
  <2> QED BY <2>1, ServerKeeps
<1>3. \A q \in Procs : Enrolled(q) => Enrolled(q)'
  BY <1>1, <1>2, EnrolledKept DEF ServerKeepsIt
<1>4. StoreTyped' /\ PlaceTellsJob' /\ OneAtStore' /\ ReadIsCurrent' /\ FilesBelongTogether'
  BY <1>1, <1>3 DEF StoreTyped, PlaceTellsJob, OneAtStore, ReadIsCurrent, FilesBelongTogether,
     AtStore
<1>5. ApprovedByCall' /\ EnrolledCanConnect'
  BY <1>1, <1>2 DEF ServerKeepsIt, ApprovedByCall, EnrolledCanConnect, Handlers
<1> QED BY <1>4, <1>5

\* A new pairing request is the caller's own.
LEMMA RequestPairingKeepsStore ==
    ASSUME StoreInv, Subjected, TypeOK, NEW p \in Procs, RequestPairing(p)
    PROVE  StoreInv'
<1> USE StoreAssumption DEF StoreInv, At, Go
<1>1. PICK r \in Requests : /\ CreateRequest(r)
                            /\ caller' = [caller EXCEPT ![r] = p]
                            /\ call' = [call EXCEPT ![p] = r]
  BY DEF RequestPairing
<1>2. PICK l \in {"poll", "try"} : ppc' = [ppc EXCEPT ![p] = l]
  BY DEF RequestPairing
<1>3. /\ ppc[p] = "try" /\ job[p] = "approval"
      /\ UNCHANGED <<job, files, toml, garbled, copy, clash, torn>>
  BY DEF RequestPairing
<1>4. req[r] = "none" /\ req'[r] = "pending"
  BY <1>1 DEF CreateRequest, CleanupRequests, TypeOK
<1>5. \A x \in Enrollers \cup Requests : caller[x] # NoOne => caller'[x] = caller[x]
  BY <1>1, <1>4 DEF StoreTyped, ApprovedByCall
<1>6. ServerKeepsIt
  <2>1. Next
    BY <1>1 DEF Next
  <2> QED BY <2>1, ServerKeeps
<1>7. \A q \in Procs : Enrolled(q) => Enrolled(q)'
  BY <1>5, <1>6, EnrolledKept DEF ServerKeepsIt
<1>8. StoreTyped' /\ PlaceTellsJob'
  BY <1>1, <1>2, <1>3, <1>5 DEF StoreTyped, PlaceTellsJob, Places, Owners
<1>9. ApprovedByCall'
  <2>1. \A h \in Approvers : pc[h] = "ok" => pc'[h] = "ok" /\ subject'[h] = subject[h]
    BY <1>6 DEF ServerKeepsIt, Handlers
  <2>2. \A x \in Requests : caller'[x] # NoOne => req'[x] # "none"
    BY <1>1, <1>4, <1>6 DEF StoreTyped, ServerKeepsIt, ApprovedByCall
  <2> QED BY <1>6, <2>1, <2>2 DEF ServerKeepsIt, ApprovedByCall
<1>11. OneAtStore' /\ ReadIsCurrent'
  BY <1>1, <1>2, <1>3 DEF StoreTyped, OneAtStore, ReadIsCurrent, AtStore, Writing
<1>12. FilesBelongTogether'
  BY <1>2, <1>3, <1>7 DEF StoreTyped, FilesBelongTogether, AtStore, Writing
<1>13. EnrolledCanConnect'
  BY <1>2, <1>3, <1>6 DEF StoreTyped, ServerKeepsIt, EnrolledCanConnect
<1> QED BY <1>8, <1>9, <1>11, <1>12, <1>13

\* A device that is told "approved" has its certificate at the server.
LEMMA PollKeepsStore ==
    ASSUME StoreInv, Subjected, TypeOK, NEW p \in Procs, Poll(p)
    PROVE  StoreInv'
<1> USE StoreAssumption DEF StoreInv, At, Go
<1> DEFINE r == call[p]
<1>1. /\ ppc[p] = "poll" /\ job[p] = "approval" /\ r \in Requests /\ caller[r] = p
      /\ PollStatus(r)
      /\ UNCHANGED <<job, call, caller, files, toml, garbled, copy, torn>>
  BY DEF Poll, PlaceTellsJob
<1>2. PICK l \in {"cert", "poll", "try"} :
        /\ ppc' = [ppc EXCEPT ![p] = l]
        /\ l = "cert" => told'[r] = "approved" /\ NotesClash(p)
        /\ clash' = clash \/ NotesClash(p)
  BY DEF Poll
<1>3. ASSUME ~clash'
      PROVE  ~clash /\ (l = "cert" => \A q \in Procs \ {p} : ppc[q] \notin Writing)
  BY <1>2, <1>3, ClashIsNoted
<1>4. ServerKeepsIt
  <2>1. Next
    BY <1>1 DEF Next
  <2> QED BY <2>1, ServerKeeps
<1>5. \A q \in Procs : Enrolled(q) => Enrolled(q)'
  BY <1>1, <1>4, EnrolledKept DEF ServerKeepsIt
<1>6. l = "cert" => Enrolled(p)
  <2>1. told'[r] = "approved" => req[r] = "approved"
    BY <1>1 DEF PollStatus, AfterGet, Known, TypeOK
  <2> QED BY <1>1, <1>2, <2>1, EnrollmentAssumption
          DEF ApprovedByCall, Enrolled, Certified, Handlers
<1> HIDE DEF r
<1>7. StoreTyped' /\ PlaceTellsJob'
  BY <1>1, <1>2 DEF StoreTyped, PlaceTellsJob, Places, Writing, r
<1>8. ApprovedByCall'
  <2>1. \A h \in Approvers : pc[h] = "ok" => pc'[h] = "ok" /\ subject'[h] = subject[h]
    BY <1>4 DEF ServerKeepsIt, Handlers
  <2>2. \A h \in Enrollers : pc[h] \in {"error", "dead"} => pc'[h] \in {"error", "dead"}
    BY <1>4 DEF ServerKeepsIt, Handlers
  <2>3. \A q \in Procs : job[q] = "qr" => ppc'[q] = ppc[q]
    BY <1>1, <1>2 DEF StoreTyped
  <2> QED BY <1>1, <1>4, <2>1, <2>2, <2>3 DEF ServerKeepsIt, ApprovedByCall
<1>9. OneAtStore' /\ ReadIsCurrent'
  BY <1>1, <1>2, <1>3 DEF StoreTyped, OneAtStore, ReadIsCurrent, AtStore, Writing
<1>10. FilesBelongTogether'
  BY <1>1, <1>2, <1>3, <1>5, <1>6 DEF StoreTyped, FilesBelongTogether, AtStore, Writing
<1>11. EnrolledCanConnect'
  BY <1>1, <1>2, <1>3, <1>4 DEF StoreTyped, ServerKeepsIt, EnrolledCanConnect
<1> QED BY <1>7, <1>8, <1>9, <1>10, <1>11

\* Every step of the composition keeps the invariant.
LEMMA StoreNext == IInv /\ StoreInv /\ [Next2]_all => StoreInv'
<1> SUFFICES ASSUME IInv, StoreInv, [Next2]_all PROVE StoreInv'
  OBVIOUS
<1>0. TypeOK /\ Subjected /\ EnrolledIsStored
  BY DEF IInv, Stored, EnrolledIsStored
<1>1. CASE UNCHANGED all
  BY <1>1 DEF all, device, vars, store, StoreInv, StoreTyped, PlaceTellsJob, ApprovedByCall,
     OneAtStore, ReadIsCurrent, FilesBelongTogether, EnrolledCanConnect,
     AtStore, Enrolled, Certified
<1>2. CASE ServerStep
  BY <1>0, <1>2, ServerStepKeepsStore
<1>3. ASSUME NEW p \in Procs, DeviceStep(p) PROVE StoreInv'
  BY <1>0, <1>3, BeginStep, NoConnectionStep, CallEnrollStep, EnrollAnswersStep, GiveUpStep,
     StoreCredentialsStep, LoadServersStep, SaveServersStep, StopStep, RemoveLoadsStep,
     RemoveSavesStep, RemoveDirStep, ConnectLoadsStep, ConnectServerStep
     DEF DeviceStep
<1>4. ASSUME NEW p \in Procs, RequestPairing(p) \/ Poll(p) PROVE StoreInv'
  BY <1>0, <1>4, RequestPairingKeepsStore, PollKeepsStore
<1> QED BY <1>1, <1>2, <1>3, <1>4 DEF Next2

\* The invariant holds in every state of the composition.
LEMMA StoreAlways == Spec2 => []StoreInv
<1>1. Spec2 => []IInv
  BY StoreImplementsEnrollment, AlwaysIInv, PTL
<1> QED BY <1>1, StoreInit, StoreNext, PTL DEF Spec2

(***************************************************************************)
(* An enrollment that was reported as done can be used by a later          *)
(* connection, for any number of devices' processes, calls, retries,       *)
(* crashes and restarts of the server, as long as two processes were never *)
(* at the store at once, no write was cut short and none was left out      *)
(* after the first, and the server's registry was not damaged.             *)
(***************************************************************************)
THEOREM ReportedEnrollmentWorks == Spec2 => []EnrolledCanConnect
<1>1. StoreInv => EnrolledCanConnect
  BY DEF StoreInv
<1> QED BY <1>1, StoreAlways, PTL

\* One step of OthersAreKept.
KeepsOthers ==
    \A s \in {"here", "other"} :
        Settled(s) /\ ~Settled(s)' =>
            \E p \in Procs :
               \/ job[p] = "remove" /\ call[p] = s /\ At(p, "prompt") /\ ppc'[p] = "rmdir"
               \/ ppc'[p] # ppc[p] /\ ppc'[p] \in {"try", "failed", "killed"} /\ toml' = <<>>

\* A step that leaves servers.toml and the copies in hand alone.
LEMMA SettledKept ==
    ASSUME NEW s, Settled(s), toml' = toml,
           \A q \in Procs : ppc'[q] \in {"save", "prompt"} =>
               ppc[q] \in {"save", "prompt"} /\ copy'[q] = copy[q]
    PROVE  Settled(s)'
BY DEF Settled

\* Every step of the composition is a step of OthersAreKept.
LEMMA KeepsOthersStep == ASSUME StoreInv, [Next2]_all PROVE KeepsOthers
<1> SUFFICES ASSUME NEW s \in {"here", "other"}, Settled(s), ~Settled(s)'
             PROVE  \E p \in Procs :
                       \/ /\ job[p] = "remove" /\ call[p] = s
                          /\ At(p, "prompt") /\ ppc'[p] = "rmdir"
                       \/ /\ ppc'[p] # ppc[p] /\ ppc'[p] \in {"try", "failed", "killed"}
                          /\ toml' = <<>>
  BY DEF KeepsOthers
<1> USE DEF At, Go
<1>0. StoreTyped /\ PlaceTellsJob
  BY DEF StoreInv
<1>1. PICK p \in Procs : DeviceStep(p) \/ RequestPairing(p) \/ Poll(p)
  <2>1. ~ServerStep /\ ~UNCHANGED all
    BY SettledKept DEF ServerStep, all, device
  <2> QED BY <2>1 DEF Next2
<1>2. ~(RequestPairing(p) \/ Poll(p))
  BY <1>0, SettledKept DEF StoreTyped, RequestPairing, Poll
<1>3. ~(Begin(p) \/ NoConnection(p) \/ CallEnroll(p) \/ EnrollAnswers(p) \/ LoseAnswer(p)
        \/ AllFailed(p))
  BY <1>0, SettledKept
     DEF StoreTyped, Begin, NoConnection, CallEnroll, EnrollAnswers, LoseAnswer, AllFailed
<1>4. ~(StoreCredentials(p) \/ RemoveDir(p) \/ ConnectLoads(p) \/ ConnectServer(p))
  <2>1. StoreCredentials(p) \/ RemoveDir(p) \/ ConnectLoads(p) \/ ConnectServer(p) =>
          /\ toml' = toml /\ copy' = copy
          /\ \E l \in Places \ {"save", "prompt"} : ppc' = [ppc EXCEPT ![p] = l]
    BY DEF StoreCredentials, StoreFile, RemoveDir, ConnectLoads, ConnectServer, Places, Writing
  <2> QED BY <1>0, <2>1, SettledKept DEF StoreTyped
<1>5. ~(LoadServers(p) \/ RemoveLoads(p))
  <2>1. LoadServers(p) \/ RemoveLoads(p) =>
          /\ toml' = toml
          /\ \E l : ppc' = [ppc EXCEPT ![p] = l] /\ (l \in {"save", "prompt"} => copy'[p] = toml)
          /\ \A q \in Procs \ {p} : copy'[q] = copy[q]
    BY <1>0 DEF StoreTyped, LoadServers, RemoveLoads
  <2> QED BY <1>0, <2>1 DEF StoreTyped, Settled
<1>6. ~SaveServers(p)
  <2> SUFFICES ASSUME SaveServers(p) PROVE FALSE
    OBVIOUS
  <2>1. PICK e \in Entries : toml' = Upsert(copy[p], e)
    BY DEF SaveServers, Entries
  <2>2. Contains(copy[p], s) /\ copy[p] \in Seq(Entries)
    BY <1>0 DEF Settled, SaveServers, StoreTyped
  <2>3. Contains(toml', s)
    BY <2>1, <2>2, UpsertAdds
  <2> QED BY <1>0, <2>3 DEF Settled, SaveServers, StoreTyped
<1>7. CASE RemoveSaves(p)
  <2>1. /\ ppc[p] = "prompt" /\ job[p] = "remove"
        /\ Contains(copy[p], s) /\ copy[p] \in Seq(Entries)
    BY <1>0, <1>7 DEF Settled, RemoveSaves, StoreTyped, PlaceTellsJob
  <2>2. \A q \in Procs : ppc'[q] \in {"save", "prompt"} =>
          ppc[q] \in {"save", "prompt"} /\ copy'[q] = copy[q]
    BY <1>0, <1>7 DEF RemoveSaves, StoreTyped
  <2>3. toml' # toml /\ toml' = Without(copy[p], call[p]) /\ ppc'[p] = "rmdir"
    BY <1>0, <1>7, <2>2, SettledKept DEF RemoveSaves, StoreTyped
  <2>4. call[p] = s
    <3>1. call[p] # s => Contains(toml', s)
      BY <2>1, <2>3, WithoutSelects
    <3> QED BY <2>2, <3>1 DEF Settled
  <2> QED BY <2>1, <2>3, <2>4
<1>8. CASE StoreFails(p) \/ Killed(p)
  <2>1. PICK l \in {"try", "failed", "killed"} : ppc' = [ppc EXCEPT ![p] = l]
    BY <1>8 DEF StoreFails, Killed
  <2>2. ppc[p] \notin {"try", "failed", "killed"} /\ StopsWriting(p)
    BY <1>8 DEF StoreFails, Killed
  <2>3. toml' = toml \/ toml' = <<>>
    BY <2>2 DEF StopsWriting, LeavesToml
  <2>4. toml' # toml
    BY <1>0, <2>1, <2>2, SettledKept DEF StopsWriting, StoreTyped
  <2> QED BY <1>0, <2>1, <2>2, <2>3, <2>4 DEF StoreTyped
<1> QED BY <1>1, <1>2, <1>3, <1>4, <1>5, <1>6, <1>7, <1>8 DEF DeviceStep

(***************************************************************************)
(* Once a server is listed in servers.toml and in every copy in hand, only *)
(* its own removal or a write that is cut short ends that, for any number  *)
(* of processes that enroll and remove at the same time.                   *)
(***************************************************************************)
THEOREM RegistryKeepsOthers == Spec2 => OthersAreKept
<1>1. StoreInv /\ [Next2]_all => [KeepsOthers]_all
  BY KeepsOthersStep
<1>2. Spec2 => [][KeepsOthers]_all
  BY <1>1, StoreAlways, PTL DEF Spec2
<1> QED BY <1>2 DEF OthersAreKept, KeepsOthers

=============================================================================
