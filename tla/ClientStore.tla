---------------------------- MODULE ClientStore ----------------------------
(***************************************************************************)
(* The device's side of enrollment, on top of the server's (Enrollment):   *)
(* processes of the command line client and the TUI that enroll, remove    *)
(* and connect (client-lib/src/enrollment.rs, grpc_client.rs, storage.rs,  *)
(* certificates.rs, cli/src/main.rs, tui/src/main.rs), all on one          *)
(* configuration directory without any lock: servers.toml and, for each    *)
(* server, client.crt, client.key and the pinned fingerprint.              *)
(*                                                                         *)
(* "here" is the server Enrollment models, "other" a second one that only  *)
(* shares servers.toml.  A process generates one certificate and tries one *)
(* address after the other with it; a process stands for its certificate   *)
(* and its key.                                                            *)
(***************************************************************************)
EXTENDS Enrollment, SequencesExt

CONSTANTS Procs,       \* processes on the device
          Work,        \* what they do: functions from Procs to Jobs
          MaxAttempts(_)  \* addresses they know of the server, the relay included

Jobs == {"qr", "approval", "other", "remove", "connect"}

ASSUME StoreAssumption ==
    /\ Work \subseteq [Procs -> Jobs]
    /\ \A f \in Work : MaxAttempts(f) \in Nat
    /\ NoOne \notin Procs \cup Requests
    /\ Enrollers \cap Requests = {}

VARIABLES
    job,      \* what each process does: "qr", "approval", "other", "remove", "connect"
    ppc,      \* where it is
    tries,    \* addresses it has tried
    call,     \* the Enroll call or the pairing request of its current attempt
    caller,   \* the process an Enroll call or a pairing request came from
    files,    \* the processes whose certificate, key and fingerprint are stored;
              \* NoOne: no such file, or one that was cut short
    toml,     \* servers.toml: the servers it lists; unreadable when garbled
    garbled,
    copy,     \* the registry a process has loaded
    clash,    \* history: two processes were at the store at once
    torn      \* history: a write was cut short or the writes after it never came

device == <<job, ppc, tries, call, caller, files, toml, garbled, copy, clash, torn>>
all == <<vars, device>>

Empty == [crt |-> NoOne, key |-> NoOne, pin |-> NoOne]

Init2 ==
    /\ Init
    /\ job \in Work
    /\ ppc = [p \in Procs |-> "start"]
    /\ tries = [p \in Procs |-> 0]
    /\ call = [p \in Procs |-> NoOne]
    /\ caller = [x \in Enrollers \cup Requests |-> NoOne]
    /\ files = Empty
    /\ toml = <<>> /\ garbled = FALSE
    /\ copy = [p \in Procs |-> <<>>]
    /\ clash = FALSE /\ torn = FALSE

At(p, l) == ppc[p] = l
Go(p, l) == ppc' = [ppc EXCEPT ![p] = l]

\* A process between its first and its last step at the store.
Writing == {"cert", "key", "pin", "load", "save", "prompt", "rsave", "rmdir", "creds"}
AtStore(p) == ppc[p] \in Writing
Alone(p) == \A q \in Procs \ {p} : ~AtStore(q)
NotesClash(p) == clash' = (clash \/ ~Alone(p))

-----------------------------------------------------------------------------
(* enroll_via_qr: the same token at each address, then through the relay.  *)

\* run_enroll_qr and resolve_server_targets stop on a payload that is
\* expired or unreadable, or a server that is unknown or ambiguous.
Begin(p) ==
    /\ At(p, "start") /\ job[p] \in {"qr", "approval", "other"}
    /\ \E l \in {IF job[p] = "other" THEN "load" ELSE "try", "failed"} : Go(p, l)
    /\ IF job[p] = "other" THEN NotesClash(p) ELSE UNCHANGED clash
    /\ UNCHANGED <<vars, job, tries, call, caller, files, toml, garbled, copy, torn>>

\* No connection: unreachable, not an IP address, another fingerprint, and
\* for the relay a token that is not a UUID.
NoConnection(p) ==
    /\ At(p, "try") /\ tries[p] < MaxAttempts(job)
    /\ tries' = [tries EXCEPT ![p] = @ + 1]
    /\ UNCHANGED <<vars, job, ppc, call, caller, files, toml, garbled, copy, clash, torn>>

\* attempt_qr_enrollment, attempt_qr_enrollment_via_relay: the call is made.
CallEnroll(p) ==
    /\ At(p, "try") /\ job[p] = "qr" /\ tries[p] < MaxAttempts(job)
    /\ \E h \in Enrollers :
         /\ caller[h] = NoOne /\ pc[h] = "start"
         /\ caller' = [caller EXCEPT ![h] = p]
         /\ call' = [call EXCEPT ![p] = h]
    /\ tries' = [tries EXCEPT ![p] = @ + 1]
    /\ Go(p, "wait")
    /\ UNCHANGED <<vars, job, files, toml, garbled, copy, clash, torn>>

\* complete_enrollment_request: the answer, or the connection breaks.
EnrollAnswers(p) ==
    /\ At(p, "wait") /\ pc[call[p]] \in {"ok", "error", "dead"}
    /\ IF pc[call[p]] = "ok" THEN Go(p, "cert") /\ NotesClash(p)
                             ELSE Go(p, "try") /\ UNCHANGED clash
    /\ UNCHANGED <<vars, job, tries, call, caller, files, toml, garbled, copy, torn>>

LoseAnswer(p) ==
    /\ ppc[p] \in {"wait", "poll"}
    /\ Go(p, "try")
    /\ UNCHANGED <<vars, job, tries, call, caller, files, toml, garbled, copy, clash, torn>>

\* Every address has been tried.
AllFailed(p) ==
    /\ At(p, "try") /\ tries[p] = MaxAttempts(job)
    /\ Go(p, "failed")
    /\ UNCHANGED <<vars, job, tries, call, caller, files, toml, garbled, copy, clash, torn>>

-----------------------------------------------------------------------------
(* attempt_approval_enrollment: a pairing request per address.             *)

\* connect_unverified, get_server_info and request_pairing succeed.  A
\* check on the answers may still fail: the server id, the fingerprint of
\* the handshake, the verification code.
RequestPairing(p) ==
    /\ At(p, "try") /\ job[p] = "approval" /\ tries[p] < MaxAttempts(job)
    /\ \E r \in Requests :
         /\ CreateRequest(r)
         /\ caller' = [caller EXCEPT ![r] = p]
         /\ call' = [call EXCEPT ![p] = r]
    /\ tries' = [tries EXCEPT ![p] = @ + 1]
    /\ \E l \in {"poll", "try"} : Go(p, l)
    /\ UNCHANGED <<job, files, toml, garbled, copy, clash, torn>>

\* One round of the loop; a status that is neither approved, rejected nor
\* timed out is polled again until the deadline has passed.
Poll(p) ==
    /\ At(p, "poll")
    /\ PollStatus(call[p])
    /\ CASE told'[call[p]] = "approved" -> Go(p, "cert") /\ NotesClash(p)
         [] told'[call[p]] \in {"rejected", "timeout"} -> Go(p, "try") /\ UNCHANGED clash
         [] OTHER -> (\E l \in {"poll", "try"} : Go(p, l)) /\ UNCHANGED clash
    /\ UNCHANGED <<job, tries, call, caller, files, toml, garbled, copy, torn>>

-----------------------------------------------------------------------------
(* finalize_qr_enrollment, and the same steps after an approval.           *)

\* write_client_credentials: the certificate, then the key; persist_fingerprint
StoreFile(p, at, field, next) ==
    /\ At(p, at)
    /\ files' = [files EXCEPT ![field] = p]
    /\ NotesClash(p)
    /\ Go(p, next)
    /\ UNCHANGED <<vars, job, tries, call, caller, toml, garbled, copy, torn>>

\* Mutant: the key of an earlier enrollment is kept.
StoreCredentialsOnce(p) ==
    \/ StoreFile(p, "cert", "crt", IF files.key = NoOne THEN "key" ELSE "pin")
    \/ StoreFile(p, "key", "key", "pin") \/ StoreFile(p, "pin", "pin", "load")

StoreCredentials(p) ==
    \/ StoreFile(p, "cert", "crt", "key")
    \/ StoreFile(p, "key", "key", "pin")
    \/ StoreFile(p, "pin", "pin", "load")

\* ServerRegistry::load
LoadServers(p) ==
    /\ At(p, "load") /\ ~garbled
    /\ copy' = [copy EXCEPT ![p] = toml]
    /\ NotesClash(p)
    /\ Go(p, "save")
    /\ UNCHANGED <<vars, job, tries, call, caller, files, toml, garbled, torn>>

\* ServerRegistry::remove: the other entries are retained, in their order.
Without(reg, s) ==
    LET kept == {i \in DOMAIN reg : reg[i] # s}
        rank(i) == Cardinality({j \in kept : j <= i})
    IN  [k \in 1..Cardinality(kept) |-> reg[CHOOSE i \in kept : rank(i) = k]]

\* Mutant: the registry is replaced by the new entry.
UpsertAlone(reg, e) == <<e>>

\* ServerRegistry::upsert: the entry is replaced in place, or goes to the end
Upsert(reg, e) == IF Contains(reg, e) THEN reg ELSE Append(reg, e)

\* upsert and ServerRegistry::save, which rewrites the file in place
SaveServers(p) ==
    /\ At(p, "save")
    /\ toml' = Upsert(copy[p], IF job[p] = "other" THEN "other" ELSE "here")
    /\ garbled' = FALSE
    /\ copy' = [copy EXCEPT ![p] = <<>>]
    /\ NotesClash(p)
    /\ Go(p, "done")
    /\ UNCHANGED <<vars, job, tries, call, caller, files, torn>>

\* What a write that does not complete leaves: fs::write truncates in place, and
\* the write may be complete when set_permissions fails; remove_dir_all may stop
\* in the middle.
FileOf == [cert |-> "crt", key |-> "key", pin |-> "pin"]
NotAllOf(gone) == [f \in DOMAIN files |-> IF f \in gone THEN NoOne ELSE files[f]]
LeftFiles(p) ==
    CASE ppc[p] \in DOMAIN FileOf ->
            {files} \cup {[files EXCEPT ![FileOf[ppc[p]]] = x] : x \in {NoOne, p}}
      [] At(p, "rmdir") /\ call[p] = "here" -> {NotAllOf(gone) : gone \in SUBSET DOMAIN files}
      [] OTHER -> {files}

\* An empty servers.toml reads as an empty registry, a part of it does not parse.
LeavesToml(p) ==
    \/ UNCHANGED <<toml, garbled>>
    \/ ppc[p] \in {"save", "prompt"} /\ toml' = <<>> /\ garbled' \in BOOLEAN

StopsWriting(p) ==
    /\ files' \in LeftFiles(p)
    /\ LeavesToml(p)
    /\ torn' = (torn \/ ppc[p] \in {"key", "pin"} \/ <<files, toml, garbled>>' # <<files, toml, garbled>>)
    /\ copy' = [copy EXCEPT ![p] = <<>>]
    /\ UNCHANGED <<vars, job, tries, call, caller, clash>>

\* An error from the disk: the QR enrollment and the removal are over; the
\* approval goes on with the next address and a new request.
StoreFails(p) ==
    /\ ppc[p] \in {"cert", "key", "pin", "load", "save", "prompt"}
    /\ StopsWriting(p)
    /\ Go(p, IF job[p] = "approval" THEN "try" ELSE "failed")

\* The process is killed.
Killed(p) ==
    /\ ppc[p] \in {"cert", "key", "pin", "load", "save", "prompt", "rmdir"}
    /\ StopsWriting(p)
    /\ Go(p, "killed")

-----------------------------------------------------------------------------
(* run_remove of the command line, remove_server of the TUI.               *)

\* find_enrolled_server: by id, else the FIRST entry with that name or
\* address, else the only one whose id has that prefix.
Named(reg, identifier) ==
    CASE identifier = "id"     -> {i \in DOMAIN reg : reg[i] = "here"}
      [] identifier = "name"   -> {i \in DOMAIN reg : i = 1}
      [] identifier = "prefix" -> IF Len(reg) = 1 THEN DOMAIN reg ELSE {}

\* The registry is loaded before the user is asked ...
RemoveLoads(p) ==
    /\ At(p, "start") /\ job[p] = "remove"
    /\ \E identifier \in {"id", "name", "prefix"} :
         LET found == Named(toml, identifier)
         IN  IF garbled \/ found = {}
             THEN Go(p, "failed") /\ UNCHANGED <<copy, call>>
             ELSE /\ copy' = [copy EXCEPT ![p] = toml]
                  /\ call' = [call EXCEPT ![p] = toml[CHOOSE i \in found : TRUE]]
                  /\ Go(p, "prompt")
    /\ NotesClash(p)
    /\ UNCHANGED <<vars, job, tries, caller, files, toml, garbled, torn>>

\* ... and saved after the answer; StoreFails when that fails.
RemoveSaves(p) ==
    /\ At(p, "prompt")
    /\ \/ Go(p, "done") /\ UNCHANGED <<toml, garbled>>
       \/ /\ toml' = Without(copy[p], call[p])
          /\ garbled' = FALSE
          /\ Go(p, "rmdir")
    /\ copy' = [copy EXCEPT ![p] = <<>>]
    /\ NotesClash(p)
    /\ UNCHANGED <<vars, job, tries, call, caller, files, torn>>

\* A failure to remove the directory, or a part of it, is only reported.
RemoveDir(p) ==
    /\ At(p, "rmdir")
    /\ files' \in LeftFiles(p)
    /\ NotesClash(p)
    /\ Go(p, "done")
    /\ UNCHANGED <<vars, job, tries, call, caller, toml, garbled, copy, torn>>

-----------------------------------------------------------------------------
(* connect_registered.                                                     *)

Relay == "relay"
Hostname == "hostname"

\* collect_direct_addresses, and the attempts the preferences leave.
Attempts(addresses, prefs, hasRelay) ==
    LET direct == IF prefs.max = 0 THEN addresses
                  ELSE SubSeq(addresses, 1, Min({prefs.max, Len(addresses)}))
        relay == IF hasRelay THEN <<Relay>> ELSE <<>>
    IN  IF prefs.only THEN relay
        ELSE IF prefs.prefer THEN relay \o direct ELSE direct \o relay

\* The entry is looked up in the registry.
ConnectLoads(p) ==
    /\ At(p, "start") /\ job[p] = "connect"
    /\ Go(p, IF garbled \/ Named(toml, "id") = {} THEN "failed" ELSE "creds")
    /\ NotesClash(p)
    /\ UNCHANGED <<vars, job, tries, call, caller, files, toml, garbled, copy, torn>>

\* The process whose certificate the server stored under a client id
Certified(h) == IF h \in Enrollers THEN caller[h] ELSE caller[subject[h]]

\* The credentials are loaded, then the attempts are made in order: the
\* first route that is up decides, if the server knows the certificate.
ConnectServer(p) ==
    /\ At(p, "creds")
    /\ \E prefs \in [only : BOOLEAN, prefer : BOOLEAN, max : {0, 1}],
          reachable \in SUBSET {"ip", Relay}, hasRelay \in BOOLEAN :
         LET list == Attempts(<<"ip", Hostname>>, prefs, hasRelay)
         IN  Go(p, CASE \E f \in DOMAIN files : files[f] = NoOne -> "nocreds"
                     [] files.crt # files.key -> "nocreds"
                     [] \A i \in DOMAIN list : list[i] \notin reachable -> "unreachable"
                     [] up = "up" /\ \E h \in mem : Certified(h) = files.crt -> "connected"
                     [] OTHER -> IF up = "up" THEN "refused" ELSE "unreachable")
    /\ NotesClash(p)
    /\ UNCHANGED <<vars, job, tries, call, caller, files, toml, garbled, copy, torn>>

-----------------------------------------------------------------------------
DeviceStep(p) ==
    \/ Begin(p) \/ NoConnection(p) \/ CallEnroll(p) \/ EnrollAnswers(p) \/ LoseAnswer(p)
    \/ AllFailed(p) \/ StoreCredentials(p) \/ LoadServers(p) \/ SaveServers(p) \/ StoreFails(p)
    \/ RemoveLoads(p) \/ RemoveSaves(p) \/ RemoveDir(p)
    \/ ConnectLoads(p) \/ ConnectServer(p) \/ Killed(p)

\* The server: an Enroll call runs once a process has made it; the approver
\* is another device and answers a request that was made.
ServerStep ==
    /\ \/ Expire \/ ListPending \/ Crash \/ Restart
       \/ \E t \in Tokens : GenerateToken(t)
       \/ \E r \in Requests : RejectRequest(r)
       \/ \E h \in Enrollers : caller[h] # NoOne /\ HandlerStep(h)
       \/ \E h \in Approvers : caller[subject[h]] # NoOne /\ HandlerStep(h)
    /\ UNCHANGED device

Next2 == ServerStep \/ \E p \in Procs : DeviceStep(p) \/ RequestPairing(p) \/ Poll(p)

Spec2 == Init2 /\ [][Next2]_all

-----------------------------------------------------------------------------
(***************************************************************************)
(* An enrollment that was reported as done can be used: a later connection *)
(* finds the entry's certificate and key, and the server knows them, until *)
(* the server is removed, also when another enrollment fails or is killed  *)
(* before its first write or after its last.  Three files and two          *)
(* registries are written one by one on two machines.  Not kept when two   *)
(* processes of the device were at the store at once (there is no lock),   *)
(* when a write was cut short or the ones after it never came, or when the *)
(* server's own registry was damaged.                                      *)
(***************************************************************************)
EnrolledCanConnect ==
    ~clash /\ ~torn /\ ~damaged =>
        \A p \in Procs : job[p] = "connect" => ppc[p] \notin {"nocreds", "refused"}

\* The server is listed in servers.toml and in every copy that may replace it.
Settled(s) ==
    /\ Contains(toml, s)
    /\ \A p \in Procs : ppc[p] \in {"save", "prompt"} => Contains(copy[p], s)

(***************************************************************************)
(* Enrolling and removing other servers keeps a server's entry: once it is *)
(* in servers.toml and in every copy that a process has in hand, it stays, *)
(* whichever processes load, ask their question and save in between, until *)
(* it is removed itself or a write of servers.toml is cut short.  An entry *)
(* that is newer than such a copy has no protection: there is no lock.     *)
(***************************************************************************)
OthersAreKept ==
    [][\A s \in {"here", "other"} :
          Settled(s) /\ ~Settled(s)' =>
             \E p \in Procs :
                \/ job[p] = "remove" /\ call[p] = s /\ At(p, "prompt") /\ ppc'[p] = "rmdir"
                \/ ppc'[p] # ppc[p] /\ ppc'[p] \in {"try", "failed", "killed"} /\ toml' = <<>>]_all
=============================================================================
