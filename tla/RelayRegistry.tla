--------------------------- MODULE RelayRegistry ---------------------------
(***************************************************************************)
(* The registry of servers kept by the relay (relay/src/main.rs): the      *)
(* control connection of one server id, from /register to its removal, and *)
(* the /connect requests that look it up, check their token against it and *)
(* queue an OpenTunnel command on it.                                      *)
(*                                                                         *)
(* The server dials /register again whenever its control connection is     *)
(* lost, possibly with a new key pair, so the n-th handle_register_socket  *)
(* may still be running when the (n+1)-th starts.  A registration is       *)
(* identified with its number, which stands for its registration_id.       *)
(* The registry maps server ids to registrations under one RwLock; entries *)
(* of different servers share nothing, so one server id is enough.         *)
(***************************************************************************)
EXTENDS Naturals, Sequences, FiniteSets

CONSTANTS Clients,     \* the client ids of the /connect requests
          Keys,        \* the Ed25519 keys the server may use
          Tokens,      \* the relay tokens a client may present
          Server,      \* the id of the server
          MaxRegs,     \* bound: how often the server dials /register
          QueueCap     \* the capacity of the control channel (32 in the code)

NoReg == 0
Regs == 1..MaxRegs

Token == [key : Keys, aud : BOOLEAN, sub : Clients, bound : Clients,
          known : BOOLEAN, server : {Server, "other"},
          audience : {Server, "other"}, connect : BOOLEAN]

ASSUME RegistryAssumption ==
    /\ MaxRegs \in Nat
    /\ QueueCap \in Nat \ {0}
    /\ Tokens \subseteq Token

VARIABLES
    entry,      \* registered_servers[Server]: a registration, or NoReg
    rpc,        \* where each handle_register_socket is
    alive,      \* the registrations whose websocket the server still holds
    silent,     \* those lost without a trace at the relay: no FIN, no reset
    key,        \* RegisteredServer.decoding_key of each registration
    queue,      \* the mpsc channel of each registration
    opened,     \* the commands written to each control websocket
    cpc,        \* where each handle_connect_socket is
    token,      \* the token each client presents
    target      \* server_entry: the registration a connect handler cloned

regVars == <<entry, rpc, alive, silent, key>>
vars == <<entry, rpc, alive, silent, key, queue, opened, cpc, token, target>>

(***************************************************************************)
(* The values the registry ranges over, with the bound of every channel.   *)
(***************************************************************************)
TypeOK ==
    /\ entry \in Regs \cup {NoReg}
    /\ rpc \in [Regs -> {"idle", "acked", "loop", "closing", "done"}]
    /\ alive \in SUBSET Regs /\ silent \in SUBSET Regs
    /\ key \in [Regs -> Keys]
    /\ queue \in [Regs -> Seq(Clients)]
    /\ \A r \in Regs : Len(queue[r]) <= QueueCap
    /\ opened \in [Regs -> SUBSET Clients]
    /\ cpc \in [Clients -> {"start", "verify", "send", "sent", "rejected"}]
    /\ token \in [Clients -> Tokens]
    /\ target \in [Clients -> Regs \cup {NoReg}]

Init ==
    /\ entry = NoReg
    /\ rpc = [r \in Regs |-> "idle"]
    /\ alive = {} /\ silent = {}
    /\ key \in [Regs -> Keys]
    /\ queue = [r \in Regs |-> <<>>]
    /\ opened = [r \in Regs |-> {}]
    /\ cpc = [c \in Clients |-> "start"]
    /\ token \in [Clients -> Tokens]
    /\ target = [c \in Clients |-> NoReg]

-----------------------------------------------------------------------------
(* handle_register_socket                                                  *)

\* The server opens its next control connection once it has given up the
\* previous one, whatever the relay has noticed of that.
Dial(r) ==
    /\ rpc[r] = "idle"
    /\ alive = {}
    /\ \A q \in Regs : q < r => rpc[q] # "idle"
    /\ alive' = {r}
    \* a bad payload, secret or key ends the handler before the ack
    /\ \E l \in {"acked", "done"} : rpc' = [rpc EXCEPT ![r] = l]
    /\ UNCHANGED <<entry, silent, key, queue, opened, cpc, token, target>>

\* The ack has been written, or its send failed: only then is the entry
\* inserted, over any entry of the server.
Upsert(r) ==
    /\ rpc[r] = "acked"
    /\ \/ /\ entry' = r
          /\ rpc' = [rpc EXCEPT ![r] = "loop"]
       \/ /\ r \notin alive
          /\ rpc' = [rpc EXCEPT ![r] = "done"]
          /\ UNCHANGED entry
    /\ UNCHANGED <<alive, silent, key, queue, opened, cpc, token, target>>

\* rx.recv() branch: one command is written to the websocket.  A dead
\* websocket may still accept the bytes, or fail and end the loop; bytes that
\* nobody acknowledges make the system report a connection lost in silence.
Dispatch(r) ==
    /\ rpc[r] = "loop"
    /\ queue[r] # <<>>
    /\ queue' = [queue EXCEPT ![r] = Tail(@)]
    /\ \/ /\ opened' = [opened EXCEPT ![r] = @ \cup {Head(queue[r])}]
          /\ UNCHANGED rpc
       \/ /\ r \notin alive
          /\ rpc' = [rpc EXCEPT ![r] = "closing"]
          /\ UNCHANGED opened
    /\ silent' = silent \ {r}
    /\ UNCHANGED <<entry, alive, key, cpc, token, target>>

\* socket.recv() branch: Close, end of stream or a read error.  The loop has
\* no timer and sends no ping of its own: nothing else tells it of a loss.
RecvClose(r) ==
    /\ rpc[r] = "loop"
    /\ r \notin alive \cup silent
    /\ rpc' = [rpc EXCEPT ![r] = "closing"]
    /\ UNCHANGED <<entry, alive, silent, key, queue, opened, cpc, token, target>>

\* Mutant: the handler returns without unlisting itself.
RemoveServerKeepsEntry(r) ==
    /\ rpc[r] = "closing"
    /\ rpc' = [rpc EXCEPT ![r] = "done"]
    /\ queue' = [queue EXCEPT ![r] = <<>>]
    /\ UNCHANGED <<entry, alive, silent, key, opened, cpc, token, target>>

\* remove_server_if_current, and the return that drops the receiver and with
\* it every command still queued.
RemoveServerIfCurrent(r) ==
    /\ rpc[r] = "closing"
    /\ entry' = IF entry = r THEN NoReg ELSE entry
    /\ rpc' = [rpc EXCEPT ![r] = "done"]
    /\ queue' = [queue EXCEPT ![r] = <<>>]
    /\ UNCHANGED <<alive, silent, key, opened, cpc, token, target>>

\* The network or the server drops the control connection, and the relay's
\* system gets to know of it or not.
Disconnect(r) ==
    /\ r \in alive
    /\ alive' = alive \ {r}
    /\ silent' \in {silent, silent \cup {r}}
    /\ UNCHANGED <<entry, rpc, key, queue, opened, cpc, token, target>>

-----------------------------------------------------------------------------
(* handle_connect_socket, up to the OpenTunnel command.                    *)

\* server_entry clones the Arc: the handler keeps this registration, its key
\* and its channel, even if the registry changes.
LookupServer(c) ==
    /\ cpc[c] = "start"
    /\ target' = [target EXCEPT ![c] = entry]
    /\ cpc' = [cpc EXCEPT ![c] = IF entry = NoReg THEN "rejected" ELSE "verify"]
    /\ UNCHANGED <<regVars, queue, opened, token>>

\* The checks on the signature and on the claims, in the order of the code;
\* each of them answers with an error and closes the socket.
TokenGrants(t, k, c) ==
    /\ t.key = k
    /\ t.aud
    /\ t.sub = t.bound
    /\ t.sub = c
    /\ t.known /\ t.bound = c
    /\ t.server = Server
    /\ t.audience = Server
    /\ t.connect

ValidateToken(c) ==
    /\ cpc[c] = "verify"
    /\ cpc' = [cpc EXCEPT ![c] =
                  IF TokenGrants(token[c], key[target[c]], c) THEN "send"
                  ELSE "rejected"]
    /\ UNCHANGED <<regVars, queue, opened, token, target>>

\* Mutant: the channel is looked up again after the token was checked.
SendCommandToCurrent(c) ==
    /\ cpc[c] = "send"
    /\ LET r == entry IN
       /\ r # NoReg
       /\ Len(queue[r]) < QueueCap
       /\ queue' = [queue EXCEPT ![r] = Append(@, c)]
       /\ cpc' = [cpc EXCEPT ![c] = "sent"]
    /\ UNCHANGED <<regVars, opened, token, target>>

\* Mutant: a full channel whose receiver is gone is still waited for.
SendCommandBlocks(c) ==
    /\ cpc[c] = "send"
    /\ rpc[target[c]] # "done"
    /\ Len(queue[target[c]]) < QueueCap
    /\ queue' = [queue EXCEPT ![target[c]] = Append(@, c)]
    /\ cpc' = [cpc EXCEPT ![c] = "sent"]
    /\ UNCHANGED <<regVars, opened, token, target>>

\* control_tx.send waits for room; it fails once the receiver is dropped.
SendCommand(c) ==
    /\ cpc[c] = "send"
    /\ LET r == target[c] IN
       \/ /\ rpc[r] = "done"
          /\ cpc' = [cpc EXCEPT ![c] = "rejected"]
          /\ UNCHANGED queue
       \/ /\ rpc[r] # "done"
          /\ Len(queue[r]) < QueueCap
          /\ queue' = [queue EXCEPT ![r] = Append(@, c)]
          /\ cpc' = [cpc EXCEPT ![c] = "sent"]
    /\ UNCHANGED <<regVars, opened, token, target>>

-----------------------------------------------------------------------------
RegStep(r) == Upsert(r) \/ Dispatch(r) \/ RecvClose(r) \/ RemoveServerIfCurrent(r)
ConnStep(c) == LookupServer(c) \/ ValidateToken(c) \/ SendCommand(c)

Next ==
    \/ \E r \in Regs : RegStep(r) \/ Dial(r) \/ Disconnect(r)
    \/ \E c \in Clients : ConnStep(c)

\* The runtime polls every task that can run; the network owes nothing.
Fairness ==
    /\ \A r \in Regs : WF_vars(RegStep(r))
    /\ \A c \in Clients : WF_vars(ConnStep(c))

Spec == Init /\ [][Next]_vars
FairSpec == Spec /\ Fairness

-----------------------------------------------------------------------------
(***************************************************************************)
(* A registration that is looked up still has a receiver: the handler that *)
(* returned has taken its entry out, however its upsert and its removal    *)
(* fell between those of the other registrations of the server.            *)
(***************************************************************************)
EntryHasReceiver == entry # NoReg => rpc[entry] \in {"loop", "closing"}

(***************************************************************************)
(* remove_server_if_current takes out its own entry only: a control        *)
(* connection that ends never removes the one that replaced it.            *)
(***************************************************************************)
OwnerUnlists == [][entry # NoReg /\ entry' = NoReg => rpc[entry] = "closing"]_vars

(***************************************************************************)
(* Every OpenTunnel command on a control connection, queued or written,    *)
(* comes from a client whose token was signed with the key of THAT         *)
(* registration and names that client and this server, even if the server  *)
(* re-registered with another key while the request was handled.           *)
(***************************************************************************)
Commanded(r) == opened[r] \cup {queue[r][i] : i \in 1..Len(queue[r])}
CommandsAreVouched ==
    \A r \in Regs : \A c \in Commanded(r) :
        /\ token[c].key = key[r]
        /\ token[c].sub = c
        /\ token[c].server = Server /\ token[c].audience = Server
        /\ token[c].connect

(***************************************************************************)
(* A control connection whose loss can be seen, at once or because a       *)
(* command was written to it, leaves the registry for good, and a connect  *)
(* handler that waits for room in its channel is served or rejected: the   *)
(* loop drains the channel, or its end releases the sender.                *)
(***************************************************************************)
LostConnectionsLeave ==
    /\ \A r \in Regs : (rpc[r] = "loop" /\ r \notin alive \cup silent) ~> [](entry # r)
    /\ \A c \in Clients : cpc[c] = "send" ~> cpc[c] \in {"sent", "rejected"}

(***************************************************************************)
(* docs/FEATURE_RELAY.md: control websockets "rely on the native WebSocket *)
(* ping/pong to detect dead connections".  A lost control connection does  *)
(* not stay listed.  The code does not keep this: the relay answers pings  *)
(* and sends none, and its loop has no timeout; README, section 6.         *)
(***************************************************************************)
DeadConnectionsAreDetected ==
    \A r \in Regs : (rpc[r] = "loop" /\ r \notin alive) ~> entry # r

(***************************************************************************)
(* docs/FEATURE_RELAY.md, key rotation: after reconnecting /register the   *)
(* relay stores the new key.  Once every handler has settled, the          *)
(* registration the server still holds is the one clients are given.       *)
(* The code does not keep this: README, section 6.                         *)
(***************************************************************************)
NewestIsStored ==
    \A r \in alive :
        /\ rpc[r] = "loop"
        /\ \A q \in Regs \ {r} : rpc[q] \in {"idle", "done"}
        => entry = r
=============================================================================
