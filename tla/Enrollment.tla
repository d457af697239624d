----------------------------- MODULE Enrollment -----------------------------
(***************************************************************************)
(* How a device becomes an authorized client of the server: the one-time   *)
(* enrollment tokens (security/enrollment.rs), the pairing requests        *)
(* (security/pairing.rs), the client store with its files                  *)
(* (storage/clients.rs) and the RPC handlers that tie them together        *)
(* (grpc/server.rs, cli/approve.rs), across crashes and restarts.          *)
(*                                                                         *)
(* Each manager is a mutex around a map; the client store is a mutex too,  *)
(* and approve_pairing_request runs inside it.  A handler is one Enroll or *)
(* one ApprovePairing call; add_client draws a fresh client id, so a       *)
(* client is identified with the call that added it.  Wall-clock expiry    *)
(* becomes a step that may happen at any time, once.                       *)
(***************************************************************************)
EXTENDS Naturals, FiniteSets

CONSTANTS Tokens,     \* enrollment tokens that are ever generated
          Requests,   \* pairing requests that are ever created
          Enrollers,  \* Enroll calls
          Approvers,  \* ApprovePairing calls
          NoOne       \* the client store is not locked

ASSUME EnrollmentAssumption ==
    /\ Enrollers \cap Approvers = {}
    /\ NoOne \notin Enrollers \cup Approvers
    /\ Tokens \cap Requests = {}

Handlers == Enrollers \cup Approvers
Subjects == Tokens \cup Requests

VARIABLES
    up,        \* the server process: "up", "down", or "refused" to start
    expired,   \* tokens and requests whose expires_at has passed
    tok,       \* EnrollmentTokenManager.tokens
    req,       \* PairingRequestManager.requests
    told,      \* the last status a polling device was told
    mem,       \* ClientStore.registry
    crt,       \* the <client id>.crt files
    disk,      \* the clients listed in metadata.toml
    cut,       \* metadata.toml ends in the middle and does not parse
    damaged,   \* history: a write of metadata.toml was cut short
    lock,      \* the holder of the client store's mutex
    pc,        \* where each handler is
    subject,   \* the token or the request it was called with
    admitted,  \* history: the clients that were ever in a registry
    lax        \* history: ApprovePairing was let in without an enrolled certificate

store == <<mem, crt, disk, cut, damaged>>
vars == <<up, expired, tok, req, told, store, lock, pc, subject, admitted, lax>>

(***************************************************************************)
(* The values of the state; a handler that has answered, or died, holds no *)
(* lock.                                                                   *)
(***************************************************************************)
TypeOK ==
    /\ up \in {"up", "down", "refused"}
    /\ expired \in SUBSET Subjects
    /\ tok \in [Tokens -> {"none", "fresh", "used", "gone"}]
    /\ req \in [Requests -> {"none", "pending", "approved", "rejected",
                             "timeout", "gone"}]
    /\ told \in [Requests -> {"none", "unspecified", "pending", "approved",
                              "rejected", "timeout"}]
    /\ mem \in SUBSET Handlers
    /\ crt \in SUBSET Handlers
    /\ disk \in SUBSET Handlers
    /\ cut \in BOOLEAN
    /\ damaged \in BOOLEAN
    /\ lock \in Handlers \cup {NoOne}
    /\ pc \in [Handlers -> {"start", "lock", "get", "write", "push", "save",
                            "mark", "ok", "error", "dead"}]
    /\ subject \in [Handlers -> Subjects]
    /\ admitted \in SUBSET Handlers
    /\ lax \in BOOLEAN
    /\ lock # NoOne => pc[lock] \in {"get", "write", "push", "save", "mark"}

Init ==
    /\ up = "up"
    /\ expired = {}
    /\ tok = [t \in Tokens |-> "none"]
    /\ req = [r \in Requests |-> "none"]
    /\ told = [r \in Requests |-> "none"]
    /\ mem = {} /\ crt = {} /\ disk = {}
    /\ cut = FALSE /\ damaged = FALSE
    /\ lock = NoOne
    /\ pc = [h \in Handlers |-> "start"]
    /\ subject \in {f \in [Handlers -> Subjects] :
                       /\ \A h \in Enrollers : f[h] \in Tokens
                       /\ \A h \in Approvers : f[h] \in Requests}
    /\ admitted = {} /\ lax = FALSE

Goto(h, l) == pc' = [pc EXCEPT ![h] = l]
\* The handler returns: the guard of the store's mutex is dropped.
Answer(h, l) == Goto(h, l) /\ lock' = NoOne

-----------------------------------------------------------------------------
(* Time, and the managers behind their mutexes.                            *)

\* get_request and the others compare expires_at with the clock: it passes for a
\* token or a request that is there.
Known(r) == req[r] \notin {"none", "gone"}
Expire ==
    /\ \E x \in Subjects \ expired :
          /\ x \in Tokens => tok[x] \in {"fresh", "used"}
          /\ x \in Requests => Known(x)
          /\ expired' = expired \cup {x}
    /\ UNCHANGED <<up, tok, req, told, store, lock, pc, subject, admitted, lax>>

DropExpired(f) == [t \in Tokens |->
                      IF t \in expired /\ f[t] # "none" THEN "gone" ELSE f[t]]

\* generate_token: insert, then drop the expired tokens.
GenerateToken(t) ==
    /\ up = "up"
    /\ tok[t] = "none" /\ t \notin expired
    /\ tok' = DropExpired([tok EXCEPT ![t] = "fresh"])
    /\ UNCHANGED <<up, expired, req, told, store, lock, pc, subject, admitted, lax>>

\* cleanup_expired_requests: only a request that is still pending is dropped.
CleanupRequests == [r \in Requests |->
                       IF r \in expired /\ req[r] = "pending" THEN "gone" ELSE req[r]]

\* create_request: clean up, then insert.
CreateRequest(r) ==
    /\ up = "up"
    /\ req[r] = "none" /\ r \notin expired
    /\ req' = [CleanupRequests EXCEPT ![r] = "pending"]
    /\ UNCHANGED <<up, expired, tok, told, store, lock, pc, subject, admitted, lax>>

ListPending ==
    /\ up = "up"
    /\ req' = CleanupRequests
    /\ UNCHANGED <<up, expired, tok, told, store, lock, pc, subject, admitted, lax>>

\* get_request marks an expired request as timed out, whatever its status.
AfterGet(r) == IF Known(r) /\ r \in expired THEN "timeout" ELSE req[r]

\* check_pairing_status
PollStatus(r) ==
    /\ up = "up"
    /\ req' = [req EXCEPT ![r] = AfterGet(r)]
    /\ told' = [told EXCEPT ![r] = IF Known(r) THEN AfterGet(r) ELSE "unspecified"]
    /\ UNCHANGED <<up, expired, tok, store, lock, pc, subject, admitted, lax>>

\* reject_request looks at the status only, not at the clock.
RejectRequest(r) ==
    /\ up = "up"
    /\ req[r] = "pending"
    /\ req' = [req EXCEPT ![r] = "rejected"]
    /\ UNCHANGED <<up, expired, tok, told, store, lock, pc, subject, admitted, lax>>

-----------------------------------------------------------------------------
(* enroll, up to the client store.                                         *)

\* Mutant: the token is looked at here and marked later, or never.
ConsumeTokenUnmarked(h) ==
    LET t == subject[h] IN
    /\ up = "up"
    /\ h \in Enrollers /\ pc[h] = "start"
    /\ IF tok[t] = "fresh" /\ t \notin expired
       THEN \E l \in {"lock", "error"} : Goto(h, l)
       ELSE Goto(h, "error")
    /\ UNCHANGED <<up, expired, tok, req, told, store, lock, subject, admitted, lax>>

\* validate_and_consume in one lock section.  An unusable certificate is
\* noticed afterwards: the token is spent all the same.
ConsumeToken(h) ==
    LET t == subject[h] IN
    /\ up = "up"
    /\ h \in Enrollers /\ pc[h] = "start"
    /\ IF tok[t] = "fresh" /\ t \notin expired
       THEN /\ tok' = [tok EXCEPT ![t] = "used"]
            /\ \E l \in {"lock", "error"} : Goto(h, l)
       ELSE /\ tok' = [tok EXCEPT ![t] = IF @ = "fresh" THEN "gone" ELSE @]
            /\ Goto(h, "error")
    /\ UNCHANGED <<up, expired, req, told, store, lock, subject, admitted, lax>>

(* approve_pairing, up to the client store.                                *)

\* Mutant: whoever presents some certificate may approve.
EnsureAnyCertificate(h) ==
    /\ up = "up" /\ lock = NoOne
    /\ h \in Approvers /\ pc[h] = "start"
    /\ Goto(h, "lock")
    /\ UNCHANGED <<up, expired, tok, req, told, store, lock, subject, admitted, lax>>

\* ensure_enrolled_client.  security.require_client_cert is read at each call
\* and any reload may change it, so it is free here; its default is off.
EnsureEnrolledClient(h) ==
    /\ up = "up"
    /\ h \in Approvers /\ pc[h] = "start"
    /\ \/ lock = NoOne /\ mem # {}      \* the certificate of an enrolled client
          /\ Goto(h, "lock") /\ UNCHANGED lax
       \/ Goto(h, "error") /\ UNCHANGED lax  \* none or an unknown one, and required
       \/ Goto(h, "lock") /\ lax' = TRUE     \* none or an unknown one, not required
    /\ UNCHANGED <<up, expired, tok, req, told, store, lock, subject, admitted>>

LockStore(h) ==
    /\ pc[h] = "lock" /\ lock = NoOne
    /\ lock' = h
    /\ Goto(h, IF h \in Approvers THEN "get" ELSE "write")
    /\ UNCHANGED <<up, expired, tok, req, told, store, subject, admitted, lax>>

GetRequest(h) ==
    LET r == subject[h] IN
    /\ pc[h] = "get"
    /\ req' = [req EXCEPT ![r] = AfterGet(r)]
    /\ IF AfterGet(r) = "pending" /\ r \notin expired
       THEN Goto(h, "write") /\ UNCHANGED lock
       ELSE Answer(h, "error")
    /\ UNCHANGED <<up, expired, tok, told, store, subject, admitted, lax>>

-----------------------------------------------------------------------------
(* add_client                                                              *)

\* The certificate file is written first; a failure leaves no entry.
WriteCert(h) ==
    /\ pc[h] = "write"
    /\ \/ crt' = crt \cup {h} /\ Goto(h, "push") /\ UNCHANGED lock
       \/ Answer(h, "error") /\ UNCHANGED crt
    /\ UNCHANGED <<up, expired, tok, req, told, mem, disk, cut, damaged, subject,
                   admitted, lax>>

PushClient(h) ==
    /\ pc[h] = "push"
    /\ mem' = mem \cup {h}
    /\ admitted' = admitted \cup {h}
    /\ Goto(h, "save")
    /\ UNCHANGED <<up, expired, tok, req, told, crt, disk, cut, damaged, lock, subject,
                   lax>>

Saved(h) == IF h \in Approvers THEN Goto(h, "mark") /\ UNCHANGED lock
            ELSE Answer(h, "ok")

\* What metadata.toml may hold when fs::write does not complete: what it held,
\* nothing (which parses, as an empty registry), or a part that does not parse.
CutShort ==
    \/ UNCHANGED <<disk, cut, damaged>>
    \/ disk' = {} /\ cut' \in BOOLEAN /\ damaged' = TRUE

\* Mutant: the file is written before the entry is pushed.
SaveRegistryStale(h) ==
    /\ pc[h] = "save"
    /\ Saved(h) /\ disk' = mem \ {h} /\ cut' = FALSE
    /\ UNCHANGED <<up, expired, tok, req, told, mem, crt, damaged, subject, admitted, lax>>

\* save_registry rewrites the file in place; on an error add_client returns,
\* but the entry stays in the registry.
SaveRegistry(h) ==
    /\ pc[h] = "save"
    /\ \/ Saved(h) /\ disk' = mem /\ cut' = FALSE /\ UNCHANGED damaged
       \/ Answer(h, "error") /\ CutShort
    /\ UNCHANGED <<up, expired, tok, req, told, mem, crt, subject, admitted, lax>>

\* approve_request: by now the request may have expired or be gone; the client
\* that was just added stays.
ApproveRequest(h) ==
    LET r == subject[h] IN
    /\ pc[h] = "mark"
    /\ \/ /\ Known(r) /\ r \in expired
          /\ req' = [req EXCEPT ![r] = "timeout"]
          /\ Answer(h, "error")
       \/ /\ ~Known(r) \/ (r \notin expired /\ req[r] # "pending")
          /\ Answer(h, "error")
          /\ UNCHANGED req
       \/ /\ r \notin expired /\ req[r] = "pending"
          /\ req' = [req EXCEPT ![r] = "approved"]
          /\ Answer(h, "ok")
    /\ UNCHANGED <<up, expired, tok, told, store, subject, admitted, lax>>

-----------------------------------------------------------------------------
(* The process dies and is started again.                                  *)

Crash ==
    /\ up = "up"
    /\ up' = "down"
    /\ pc' = [h \in Handlers |->
                 IF pc[h] \in {"start", "ok", "error"} THEN pc[h] ELSE "dead"]
    /\ lock' = NoOne
    /\ mem' = {}
    /\ tok' = [t \in Tokens |-> IF tok[t] = "none" THEN "none" ELSE "gone"]
    /\ req' = [r \in Requests |-> IF req[r] = "none" THEN "none" ELSE "gone"]
    /\ IF \E h \in Handlers : pc[h] = "save" THEN CutShort
       ELSE UNCHANGED <<disk, cut, damaged>>
    /\ UNCHANGED <<expired, told, crt, subject, admitted, lax>>

\* ClientStore::new: a missing or empty file is an empty registry, a file that
\* does not parse stops the server.
Restart ==
    /\ up = "down"
    /\ up' = IF cut THEN "refused" ELSE "up"
    /\ mem' = IF cut THEN {} ELSE disk
    /\ UNCHANGED <<expired, tok, req, told, crt, disk, cut, damaged, lock, pc,
                   subject, admitted, lax>>

-----------------------------------------------------------------------------
HandlerStep(h) ==
    \/ ConsumeToken(h) \/ EnsureEnrolledClient(h) \/ LockStore(h) \/ GetRequest(h)
    \/ WriteCert(h) \/ PushClient(h) \/ SaveRegistry(h) \/ ApproveRequest(h)

Next ==
    \/ Expire \/ ListPending \/ Crash \/ Restart
    \/ \E t \in Tokens : GenerateToken(t)
    \/ \E r \in Requests : CreateRequest(r) \/ PollStatus(r) \/ RejectRequest(r)
    \/ \E h \in Handlers : HandlerStep(h)

Spec == Init /\ [][Next]_vars

-----------------------------------------------------------------------------
(***************************************************************************)
(* An enrollment token admits one client, and of the ApprovePairing calls  *)
(* for one request a single one succeeds, however the calls, the status    *)
(* polls, expiry and restarts interleave.                                  *)
(***************************************************************************)
AdmitsOne ==
    /\ \A g, h \in admitted \cap Enrollers : subject[g] = subject[h] => g = h
    /\ \A g, h \in Approvers :
          pc[g] = "ok" /\ pc[h] = "ok" /\ subject[g] = subject[h] => g = h

(***************************************************************************)
(* Approval is passed on from enrolled clients only: as long as nobody has *)
(* enrolled with a token, nobody is admitted by a pairing request either,  *)
(* through any chain of approvals, restarts and failed saves.  This is so  *)
(* while security.require_client_cert is on: with the default, off, the    *)
(* handler lets a caller in that presents no enrolled certificate (lax).   *)
(***************************************************************************)
TrustStartsWithToken ==
    ~lax /\ admitted \cap Approvers # {} => admitted \cap Enrollers # {}

(***************************************************************************)
(* A client that was told it is enrolled is in the registry, in            *)
(* metadata.toml and has its certificate file, after any number of         *)
(* restarts, unless a write of metadata.toml was cut short.                *)
(***************************************************************************)
EnrolledIsStored ==
    ~damaged /\ up = "up" =>
        \A h \in Handlers : pc[h] = "ok" => h \in mem \cap disk \cap crt

(***************************************************************************)
(* docs/SECURITY.md: a pairing request id is single-use.  No two clients   *)
(* are ever admitted on one request.                                       *)
(* The code does not keep this: README, section 6.                         *)
(***************************************************************************)
RequestIsSingleUse ==
    \A g, h \in admitted \cap Approvers : subject[g] = subject[h] => g = h

(***************************************************************************)
(* docs/FEATURE_PERSISTENT_ENROLLMENT.md: the server persists enrolled     *)
(* clients.  The same without the proviso.                                 *)
(* The code does not keep this: README, section 6.                         *)
(***************************************************************************)
EnrollmentPersists ==
    \A h \in Handlers : pc[h] = "ok" /\ up # "down" => h \in mem

(***************************************************************************)
(* docs/PRD.md: an accepted request returns APPROVED, a timed out one      *)
(* shows an error.  A device that was told TIMEOUT is not authorized.      *)
(* The code does not keep this: README, section 6.                         *)
(***************************************************************************)
TimeoutMeansUnpaired ==
    \A h \in Approvers : h \in mem => told[subject[h]] # "timeout"
=============================================================================
