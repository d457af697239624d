---------------------------- MODULE RelayTunnel ----------------------------
(***************************************************************************)
(* The handshake of one relay tunnel (relay/src/main.rs,                   *)
(* relay/src/tunnel/state.rs).                                             *)
(*                                                                         *)
(* A tunnel is created by handle_connect_socket for a client and joined by *)
(* handle_tunnel_socket on behalf of a server.  Both handlers run as tokio *)
(* tasks on a multi-threaded runtime and share one TunnelHandle whose      *)
(* fields are guarded by SEPARATE mutexes, so an action below is one lock  *)
(* section, or the code between two await points.  Tunnels are keyed by a  *)
(* fresh UUID and share nothing, so one tunnel is enough.                  *)
(*                                                                         *)
(* Every /tunnel request that names this tunnel is a member of Requests: a *)
(* server may be asked once but dial twice, and the handler must cope.  A  *)
(* handler is identified with the websocket it was started with.           *)
(***************************************************************************)
EXTENDS Naturals, FiniteSets

CONSTANTS Client,    \* the websocket of the connecting client
          Requests,  \* the websockets arriving on /tunnel/<this id>
          NoSocket   \* an empty Option<WebSocket>

ASSUME SocketAssumption ==
    /\ Client \notin Requests
    /\ NoSocket \notin Requests \cup {Client}

Handlers == Requests \cup {Client}

VARIABLES
    listed,     \* the tunnel is a key of AppState.tunnels
    ready,      \* TunnelState: the roles that have sent tunnel_ready
    client_ws,  \* TunnelHandle.client_ws
    server_ws,  \* TunnelHandle.server_ws
    secret,     \* TunnelHandle.server_secret is still Some
    pc,         \* where each handler is
    timed,      \* the handlers whose handshake timeout is running
    held,       \* the websockets each handler owns in a local variable
    guard,      \* TunnelCleanupGuard of the connect handler
    removers,   \* spawned tasks that will call remove_tunnel
    active,     \* the pairs handed to forward_bidirectional
    ended,      \* the pairs whose forwarding has ended
    closed      \* websockets closed or dropped by the relay

slots == <<client_ws, server_ws>>
vars == <<listed, ready, client_ws, server_ws, secret, pc, timed, held, guard,
          removers, active, ended, closed>>

Labels == {"start", "notify_server", "send_ack", "verify", "recv_ready",
           "mark", "notify_ready", "put", "notify_put", "take_client",
           "take_server", "restore", "check", "wait", "waiting", "expired",
           "take_own", "remove", "final", "done"}

Role(h) == IF h = Client THEN "client" ELSE "server"
FullyReady == ready = {"client", "server"}

(***************************************************************************)
(* The values the state of a tunnel ranges over: in particular a slot only *)
(* ever holds a socket of its own role.                                    *)
(***************************************************************************)
TypeOK ==
    /\ listed \in BOOLEAN
    /\ ready \in SUBSET {"client", "server"}
    /\ client_ws \in {Client, NoSocket}
    /\ server_ws \in Requests \cup {NoSocket}
    /\ secret \in BOOLEAN
    /\ pc \in [Handlers -> Labels]
    /\ timed \in SUBSET Handlers
    /\ held \in [Handlers -> SUBSET Handlers]
    /\ guard \in {"none", "armed", "disarmed"}
    /\ removers \in SUBSET {"guard", "forward"}
    /\ active \in SUBSET ({Client} \X Requests)
    /\ ended \in SUBSET ({Client} \X Requests)
    /\ closed \in SUBSET Handlers

Init ==
    /\ listed = FALSE
    /\ ready = {}
    /\ client_ws = NoSocket
    /\ server_ws = NoSocket
    /\ secret = TRUE
    /\ pc = [h \in Handlers |-> "start"]
    /\ timed = {}
    /\ held = [h \in Handlers |-> {h}]
    /\ guard = "none"
    /\ removers = {}
    /\ active = {}
    /\ ended = {}
    /\ closed = {}

At(h, l) == pc[h] = l
Goto(h, l) == pc' = [pc EXCEPT ![h] = l]
\* Notify::notify_waiters wakes the handlers that are waiting NOW; it stores no
\* permit, so a handler that starts to wait afterwards sleeps on.
NotifyAndGoto(h, l) ==
    pc' = [x \in Handlers |->
              IF x = h THEN l
              ELSE IF pc[x] = "waiting" THEN "take_client" ELSE pc[x]]
\* The handler closes, or drops, every websocket it owns.
Discard(h) ==
    /\ closed' = closed \cup held[h]
    /\ held' = [held EXCEPT ![h] = {}]

-----------------------------------------------------------------------------
(* handle_connect_socket, up to tunnel_ready.  The checks that precede     *)
(* create_tunnel are in module RelayRegistry.                              *)

CreateTunnel ==
    /\ At(Client, "start")
    /\ listed' = TRUE
    /\ guard' = "armed"
    /\ Goto(Client, "notify_server")
    /\ UNCHANGED <<ready, slots, secret, timed, held, removers, active,
                   closed, ended>>

\* control_tx.send either queues OpenTunnel or fails because the control
\* channel is gone; on failure the client gets an error and the tunnel goes.
NotifyServer ==
    /\ At(Client, "notify_server")
    /\ \/ /\ Goto(Client, "send_ack")
          /\ UNCHANGED <<held, closed, guard>>
       \/ /\ Goto(Client, "remove")
          /\ Discard(Client)
          /\ guard' = "disarmed"
    /\ UNCHANGED <<listed, ready, slots, secret, timed, removers, active,
                   ended>>

\* Mutant: no cleanup guard on the early returns.
ConnectBailsUnguarded ==
    /\ pc[Client] \in {"send_ack", "recv_ready"}
    /\ Goto(Client, "done")
    /\ Discard(Client)
    /\ UNCHANGED <<listed, ready, slots, secret, timed, guard, removers,
                   active, ended>>

\* An early return with `?` or bail! drops the socket and the armed guard,
\* whose Drop spawns a task that removes the tunnel.
ConnectBails ==
    /\ pc[Client] \in {"send_ack", "recv_ready"}
    /\ Goto(Client, "done")
    /\ Discard(Client)
    /\ removers' = removers \cup {"guard"}
    /\ UNCHANGED <<listed, ready, slots, secret, timed, guard, active, ended>>

SendAck ==
    /\ At(Client, "send_ack")
    /\ Goto(Client, "recv_ready")
    /\ UNCHANGED <<listed, ready, slots, secret, timed, held, guard, removers,
                   active, closed, ended>>

-----------------------------------------------------------------------------
(* handle_tunnel_socket, up to tunnel_ready.                               *)

\* get_tunnel, then the role and token query parameters.
LookupTunnel(s) ==
    /\ At(s, "start")
    /\ pc[Client] # "start"             \* nobody can name an id not yet drawn
    /\ \/ ~listed /\ Goto(s, "done") /\ Discard(s)
       \/ listed /\ Goto(s, "verify") /\ UNCHANGED <<held, closed>>
       \/ listed /\ Goto(s, "remove") /\ Discard(s)
    /\ UNCHANGED <<listed, ready, slots, secret, timed, guard, removers,
                   active, ended>>

\* Mutant: the secret is compared but stays in its slot.
VerifyServerSecretReusable(s) ==
    /\ At(s, "verify")
    /\ \/ secret /\ Goto(s, "recv_ready") /\ UNCHANGED <<held, closed>>
       \/ Goto(s, "remove") /\ Discard(s)
    /\ UNCHANGED <<listed, ready, slots, secret, timed, guard, removers,
                   active, ended>>

\* verify_server_secret: a match takes the secret out of its slot.
VerifyServerSecret(s) ==
    /\ At(s, "verify")
    /\ \/ /\ secret
          /\ secret' = FALSE
          /\ Goto(s, "recv_ready")
          /\ UNCHANGED <<held, closed>>
       \/ /\ Goto(s, "remove")
          /\ Discard(s)
          /\ UNCHANGED secret
    /\ UNCHANGED <<listed, ready, slots, timed, guard, removers, active,
                   ended>>

\* The socket closes, or sends something that is not this tunnel's
\* tunnel_ready: tunnel_handler removes the tunnel.
TunnelBails(s) ==
    /\ At(s, "recv_ready")
    /\ Goto(s, "remove")
    /\ Discard(s)
    /\ UNCHANGED <<listed, ready, slots, secret, timed, guard, removers,
                   active, ended>>

-----------------------------------------------------------------------------
(* Both handlers, from tunnel_ready to the pairing.                        *)

\* Mutant: the socket is attached without recording the peer's readiness.
RecvReadyUnrecorded(h) ==
    /\ At(h, "recv_ready")
    /\ Goto(h, "put")
    /\ UNCHANGED <<listed, ready, slots, secret, timed, held, guard, removers,
                   active, closed, ended>>

RecvReady(h) ==
    /\ At(h, "recv_ready")
    /\ Goto(h, "mark")
    /\ UNCHANGED <<listed, ready, slots, secret, timed, held, guard, removers,
                   active, closed, ended>>

MarkReady(h) ==
    /\ At(h, "mark")
    /\ ready' = ready \cup {Role(h)}
    /\ Goto(h, "notify_ready")
    /\ UNCHANGED <<listed, slots, secret, timed, held, guard, removers,
                   active, closed, ended>>

NotifyReady(h) ==
    /\ At(h, "notify_ready")
    /\ NotifyAndGoto(h, "put")
    /\ UNCHANGED <<listed, ready, slots, secret, timed, held, guard, removers,
                   active, closed, ended>>

\* attach_client / attach_server: the slot is overwritten, which drops the
\* socket that was in it.
PutSocket(h) ==
    /\ At(h, "put")
    /\ LET old == IF h = Client THEN client_ws ELSE server_ws
       IN  closed' = closed \cup ({old} \ {NoSocket})
    /\ IF h = Client THEN client_ws' = h /\ UNCHANGED server_ws
                     ELSE server_ws' = h /\ UNCHANGED client_ws
    /\ held' = [held EXCEPT ![h] = @ \ {h}]
    /\ Goto(h, "notify_put")
    /\ UNCHANGED <<listed, ready, secret, timed, guard, removers, active,
                   ended>>

NotifyPut(h) ==
    /\ At(h, "notify_put")
    /\ NotifyAndGoto(h, "take_client")
    /\ UNCHANGED <<listed, ready, slots, secret, timed, held, guard, removers,
                   active, closed, ended>>

\* take_pair_if_ready, first lock section.
AfterFailedTake(h) == IF h \in timed THEN "check" ELSE "wait"

TakeClient(h) ==
    /\ At(h, "take_client")
    /\ IF client_ws = NoSocket
       THEN Goto(h, AfterFailedTake(h)) /\ UNCHANGED <<client_ws, held>>
       ELSE /\ client_ws' = NoSocket
            /\ held' = [held EXCEPT ![h] = @ \cup {client_ws}]
            /\ Goto(h, "take_server")
    /\ UNCHANGED <<listed, ready, server_ws, secret, timed, guard, removers,
                   active, closed, ended>>

\* Second lock section; with both sockets in hand the handler calls
\* spawn_forwarders, and leaves without another await.
TakeServer(h) ==
    /\ At(h, "take_server")
    /\ IF server_ws = NoSocket
       THEN Goto(h, "restore") /\ UNCHANGED <<server_ws, held, guard, active>>
       ELSE /\ server_ws' = NoSocket
            /\ active' = active \cup (held[h] \X {server_ws})
            /\ held' = [held EXCEPT ![h] = {}]
            /\ Goto(h, IF h = Client /\ h \in timed THEN "final" ELSE "done")
            /\ guard' = IF h = Client /\ h \notin timed THEN "disarmed" ELSE guard
    /\ UNCHANGED <<listed, ready, client_ws, secret, timed, removers, closed,
                   ended>>

\* Mutant: the early return forgets to put the client socket back.
RestoreClientForgets(h) ==
    /\ At(h, "restore")
    /\ held' = [held EXCEPT ![h] = {}]
    /\ Goto(h, AfterFailedTake(h))
    /\ UNCHANGED <<listed, ready, slots, secret, timed, guard, removers,
                   active, closed, ended>>

\* Third lock section: the client socket goes back.
RestoreClient(h) ==
    /\ At(h, "restore")
    /\ client_ws' = Client
    /\ held' = [held EXCEPT ![h] = {}]
    /\ Goto(h, AfterFailedTake(h))
    /\ UNCHANGED <<listed, ready, server_ws, secret, timed, guard, removers,
                   active, closed, ended>>

\* Mutant: the wait loop is not wrapped in a timeout.
StartWaitForever(h) ==
    /\ At(h, "wait")
    /\ Goto(h, "waiting")
    /\ UNCHANGED <<listed, ready, slots, secret, timed, held, guard, removers,
                   active, closed, ended>>

\* notify.notified() registers the handler; the timeout wraps the whole loop.
StartWait(h) ==
    /\ At(h, "wait")
    /\ Goto(h, "waiting")
    /\ timed' = timed \cup {h}
    /\ UNCHANGED <<listed, ready, slots, secret, held, guard, removers,
                   active, closed, ended>>

LeaveWait(h) == IF h = Client THEN "final" ELSE "done"

\* already_active: leave if both roles are ready, else wait again.
CheckActive(h) ==
    /\ At(h, "check")
    /\ Goto(h, IF FullyReady THEN LeaveWait(h) ELSE "wait")
    /\ UNCHANGED <<listed, ready, slots, secret, timed, held, guard, removers,
                   active, closed, ended>>

\* The timeout may fire at every await of the loop.  It drops the future, and
\* with it a client socket taken out of the slot.
Timeout(h) ==
    /\ h \in timed
    /\ pc[h] \in {"waiting", "take_client", "take_server", "restore", "check"}
    /\ Goto(h, "expired")
    /\ Discard(h)
    /\ UNCHANGED <<listed, ready, slots, secret, timed, guard, removers,
                   active, ended>>

ExpireCheck(h) ==
    /\ At(h, "expired")
    /\ Goto(h, IF FullyReady THEN LeaveWait(h) ELSE "take_own")
    /\ UNCHANGED <<listed, ready, slots, secret, timed, held, guard, removers,
                   active, closed, ended>>

\* take_client_socket / take_server_socket, then tunnel_failed or a close frame.
TakeOwn(h) ==
    /\ At(h, "take_own")
    /\ IF h = Client
       THEN /\ client_ws' = NoSocket
            /\ closed' = closed \cup ({client_ws} \ {NoSocket})
            /\ UNCHANGED server_ws
       ELSE /\ server_ws' = NoSocket
            /\ closed' = closed \cup ({server_ws} \ {NoSocket})
            /\ UNCHANGED client_ws
    /\ Goto(h, "remove")
    /\ UNCHANGED <<listed, ready, secret, timed, held, guard, removers,
                   active, ended>>

\* remove_tunnel at the end of every failing path; after a timeout the connect
\* handler disarms its guard and goes on to the became_active check.
RemoveTunnel(h) ==
    /\ At(h, "remove")
    /\ listed' = FALSE
    /\ IF h = Client /\ h \in timed
       THEN Goto(h, "final") /\ guard' = "disarmed"
       ELSE Goto(h, "done") /\ UNCHANGED guard
    /\ UNCHANGED <<ready, slots, secret, timed, held, removers, active,
                   closed, ended>>

\* became_active disarms the guard; a guard still armed spawns the removal.
ConnectReturns ==
    /\ At(Client, "final")
    /\ Goto(Client, "done")
    /\ guard' = IF FullyReady THEN "disarmed" ELSE guard
    /\ removers' = IF guard' = "armed" THEN removers \cup {"guard"} ELSE removers
    /\ UNCHANGED <<listed, ready, slots, secret, timed, held, active, closed,
                   ended>>

-----------------------------------------------------------------------------
(* Spawned tasks.                                                          *)

\* forward_bidirectional returns once both directions ended (TunnelPath).
ForwardEnds ==
    \E p \in active :
        /\ active' = active \ {p}
        /\ closed' = closed \cup {p[1], p[2]}
        /\ ended' = ended \cup {p}
        /\ removers' = removers \cup {"forward"}
        /\ UNCHANGED <<listed, ready, slots, secret, pc, timed, held, guard>>

RunRemover ==
    \E r \in removers :
        /\ removers' = removers \ {r}
        /\ listed' = FALSE
        /\ UNCHANGED <<ready, slots, secret, pc, timed, held, guard, active,
                       closed, ended>>

\* Every handler has returned and no task is left.
Idle ==
    /\ \A h \in Handlers : pc[h] \in {"start", "done"}
    /\ pc[Client] = "done"
    /\ removers = {} /\ active = {}
Finished ==
    /\ Idle
    /\ \A h \in Handlers : pc[h] = "done"
    /\ UNCHANGED vars

HandlerStep(h) ==
    \/ MarkReady(h) \/ NotifyReady(h) \/ PutSocket(h) \/ NotifyPut(h)
    \/ TakeClient(h) \/ TakeServer(h) \/ RestoreClient(h) \/ StartWait(h)
    \/ CheckActive(h) \/ ExpireCheck(h) \/ TakeOwn(h) \/ RemoveTunnel(h)

Next ==
    \/ CreateTunnel \/ NotifyServer \/ SendAck \/ ConnectBails \/ ConnectReturns
    \/ \E s \in Requests :
          LookupTunnel(s) \/ VerifyServerSecret(s) \/ TunnelBails(s)
    \/ \E h \in Handlers : RecvReady(h) \/ Timeout(h) \/ HandlerStep(h)
    \/ ForwardEnds \/ RunRemover
    \/ Finished

(***************************************************************************)
(* The runtime polls every task that can make progress, and timers fire.   *)
(* Peers owe nothing: RecvReady, the bails and ForwardEnds are not fair.   *)
(***************************************************************************)
Fairness ==
    /\ \A h \in Handlers : WF_vars(HandlerStep(h)) /\ WF_vars(Timeout(h))
    /\ \A s \in Requests : WF_vars(VerifyServerSecret(s))
    /\ WF_vars(ConnectReturns) /\ WF_vars(RunRemover)

Spec == Init /\ [][Next]_vars /\ Fairness

-----------------------------------------------------------------------------
(* Properties.                                                             *)

\* The requests that got past verify_server_secret and are not finished.
Joining == {"recv_ready", "mark", "notify_ready", "put", "notify_put",
            "take_client", "take_server", "restore", "check", "wait",
            "waiting", "expired", "take_own"}

(***************************************************************************)
(* Every websocket has exactly one owner, whatever the interleaving of     *)
(* attach_*, take_pair_if_ready, the timeouts and the forwarders: it is in *)
(* a local variable of one handler, in its slot of the TunnelHandle, in one*)
(* forwarded pair, or closed.  It is never lost and never in two places,   *)
(* although a pair is taken in three separate lock sections.               *)
(***************************************************************************)
Inactive(s) == \A p \in active : s # p[1] /\ s # p[2]
InSlot(s) == s = client_ws \/ s = server_ws
OwnedExactlyOnce ==
    \A s \in Handlers :
        /\ s \in closed \/ InSlot(s) \/ ~Inactive(s) \/ \E h \in Handlers : s \in held[h]
        /\ \A g, h \in Handlers : s \in held[g] /\ s \in held[h] => g = h
        /\ (\E h \in Handlers : s \in held[h]) => s \notin closed /\ ~InSlot(s) /\ Inactive(s)
        /\ InSlot(s) => s \notin closed /\ Inactive(s)
        /\ ~Inactive(s) => s \notin closed

(***************************************************************************)
(* No byte is forwarded before both peers sent tunnel_ready, and one pair  *)
(* of sockets is all that a tunnel ever forwards.                          *)
(***************************************************************************)
ForwardOnlyWhenReady ==
    /\ active \cup ended # {} => FullyReady
    /\ \A p, q \in active \cup ended : p = q
    /\ active \cap ended = {}

(***************************************************************************)
(* The one-time secret admits one /tunnel request: two requests are never  *)
(* both past verify_server_secret, and none is while a pair already        *)
(* forwards another request's socket.                                      *)
(***************************************************************************)
OneServerPerTunnel ==
    \A s \in Requests : pc[s] \in Joining =>
        /\ \A t \in Requests : pc[t] \in Joining => s = t
        /\ \A p \in active \cup ended : p[2] = s

(***************************************************************************)
(* The cleanup guard, the failing paths and the forwarders together leave  *)
(* no entry in AppState.tunnels for a handshake that never completed.      *)
(***************************************************************************)
NoUnreadyLeak == Idle /\ listed => FullyReady

(***************************************************************************)
(* The handshake ends.  A handler whose peer has sent tunnel_ready returns *)
(* within the handshake timeout.  Once both peers have sent it, the relay  *)
(* forwards between them or gives up and closes the client's socket, with  *)
(* one exception: a handler that finds the client's socket taken out for a *)
(* moment by the other one waits, and notify_waiters stores no permit.     *)
(* Then both time out, both find the tunnel ready, and the tunnel stays    *)
(* listed with both sockets in their slots (README, section 6).            *)
(***************************************************************************)
HandleDropped == ~listed /\ \A h \in Handlers : pc[h] \in {"start", "done"}
Gone(s) == s \in closed \/ (HandleDropped /\ InSlot(s))
Stranded == Idle /\ listed /\ client_ws = Client /\ server_ws # NoSocket
HandshakeEnds ==
    /\ \A h \in Handlers : At(h, "mark") ~> At(h, "done")
    /\ FullyReady ~> (active # {} \/ Gone(Client) \/ Stranded)

(***************************************************************************)
(* The handshake implements TunnelLifecycle: a tunnel turns Active only    *)
(* from Pending, with both roles ready, and at most once.                  *)
(***************************************************************************)
phase == IF active # {} THEN "Active"
         ELSE IF ended # {} THEN "Closed" ELSE "Pending"
Lifecycle == INSTANCE TunnelLifecycle WITH ready <- ready, phase <- phase
ImplementsLifecycle == Lifecycle!Spec
=============================================================================
