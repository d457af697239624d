---------------------------- MODULE RelayClient ----------------------------
(***************************************************************************)
(* The server's connection to the relay (server/src/relay/client.rs):      *)
(* start with its reconnection and back-off, connect_and_run, the control  *)
(* channel and its keepalive task, and the tunnel tasks it spawns.  The    *)
(* other end of the control channel is module RelayRegistry; what happens  *)
(* inside a tunnel is in RelayTunnel and TunnelPath.                       *)
(*                                                                         *)
(* A connection can be closed by the relay, break with an error, or die    *)
(* silently: no more data and no error.  The operating system reports a    *)
(* dead connection only when there is something to send over it.           *)
(***************************************************************************)
EXTENDS Naturals, Sequences, FiniteSetsExt

CONSTANTS MaxDelay,    \* reconnect_delay_seconds; validation refuses 0
          TunnelBound  \* bound: running tunnel tasks (neither the relay nor
                       \* the client enforces max_relay_tunnels)

ASSUME RelayClientAssumption ==
    MaxDelay \in Nat \ {0} /\ TunnelBound \in Nat

VARIABLES
    autoConnect, \* config.auto_connect
    state,       \* RelayClientState
    pc,          \* where start and connect_and_run are
    delay,       \* reconnect_delay
    reset,       \* reset_backoff
    acked,       \* history: the last connection was registered
    control,     \* the control connection
    wire,        \* control messages from the relay
    keepalive,   \* spawn_control_keepalive's task runs
    tunnels      \* running tunnel tasks

retry == <<delay, reset>>
network == <<control, wire>>
controlVars == <<autoConnect, state, pc, retry, acked, network, keepalive, tunnels>>

ControlInit ==
    /\ autoConnect \in BOOLEAN
    /\ state = "Disconnected"
    /\ pc = "start"
    /\ delay = 1 /\ reset = FALSE /\ acked = FALSE
    /\ control = "none" /\ wire = <<>>
    /\ keepalive = FALSE /\ tunnels = 0

-----------------------------------------------------------------------------
(* The relay and the network.                                              *)

RelayAnswers ==
    /\ pc = "await" /\ control = "up" /\ wire = <<>>
    /\ \E m \in {"ack", "refusal", "other"} : wire' = <<m>>
    /\ UNCHANGED <<autoConnect, state, pc, retry, acked, control, keepalive, tunnels>>

RelaySends ==
    /\ pc = "listen" /\ control = "up" /\ wire = <<>>
    /\ \E m \in {"open", "other"} :
          (m = "open" => tunnels < TunnelBound) /\ wire' = <<m>>
    /\ UNCHANGED <<autoConnect, state, pc, retry, acked, control, keepalive, tunnels>>

\* A Close frame or the end of the stream; an error; nothing at all.
LinkEnds ==
    /\ control = "up"
    /\ control' \in {"closed", "broken"}
    /\ UNCHANGED <<autoConnect, state, pc, retry, acked, wire, keepalive, tunnels>>

LinkDies ==
    /\ control = "up"
    /\ control' = "silent"
    /\ UNCHANGED <<autoConnect, state, pc, retry, acked, wire, keepalive, tunnels>>

\* handle_tunnel returns.
TunnelEnds ==
    /\ tunnels > 0
    /\ tunnels' = tunnels - 1
    /\ UNCHANGED <<autoConnect, state, pc, retry, acked, network, keepalive>>

-----------------------------------------------------------------------------
(* connect_and_run.                                                        *)

Connecting ==
    /\ pc = "start"
    /\ state' = "Connecting" /\ pc' = "connect" /\ reset' = FALSE /\ acked' = FALSE
    /\ UNCHANGED <<autoConnect, delay, network, keepalive, tunnels>>

\* An incomplete configuration and a failed TLS set-up fail here too.
Connect ==
    /\ pc = "connect"
    /\ \/ pc' = "register" /\ control' = "up" /\ wire' = <<>>
       \/ pc' = "err" /\ UNCHANGED network
    /\ UNCHANGED <<autoConnect, state, retry, acked, keepalive, tunnels>>

SendRegister ==
    /\ pc = "register"
    /\ pc' = IF control \in {"up", "silent"} THEN "await" ELSE "err"
    /\ UNCHANGED <<autoConnect, state, retry, acked, network, keepalive, tunnels>>

\* Anything but a positive register_ack is an error.
RecvAck ==
    /\ pc = "await"
    /\ \/ /\ wire # <<>> /\ Head(wire) = "ack"
          /\ pc' = "listen" /\ state' = "Connected" /\ acked' = TRUE
          /\ keepalive' = TRUE
       \/ /\ \/ wire # <<>> /\ Head(wire) # "ack"
             \/ wire = <<>> /\ control \in {"closed", "broken"}
          /\ pc' = "err" /\ UNCHANGED <<state, acked, keepalive>>
    /\ wire' = <<>>
    /\ UNCHANGED <<autoConnect, retry, control, tunnels>>

\* listen_control_channel, handle_control_message, spawn_tunnel_task.
Listen ==
    /\ pc = "listen" /\ wire # <<>>
    /\ wire' = <<>>
    /\ tunnels' = IF Head(wire) = "open" THEN tunnels + 1 ELSE tunnels
    /\ UNCHANGED <<autoConnect, state, pc, retry, acked, control, keepalive>>

\* The loop ends and the keepalive task is aborted and awaited.
ListenEnds ==
    /\ pc = "listen" /\ wire = <<>> /\ control \in {"closed", "broken"}
    /\ pc' = IF control = "closed" THEN "ok" ELSE "err"
    /\ keepalive' = FALSE
    /\ UNCHANGED <<autoConnect, state, retry, acked, network, tunnels>>

\* Mutant: no pings.
PingNothing ==
    /\ keepalive /\ control \in {"closed", "broken"}
    /\ keepalive' = FALSE
    /\ UNCHANGED <<autoConnect, state, pc, retry, acked, network, tunnels>>

\* A ping over a dead connection makes the system report it; a ping over a
\* connection that has ended fails and ends the task.
Ping ==
    /\ keepalive
    /\ \/ control = "silent" /\ control' = "broken" /\ UNCHANGED keepalive
       \/ control \in {"closed", "broken"} /\ keepalive' = FALSE /\ UNCHANGED control
    /\ UNCHANGED <<autoConnect, state, pc, retry, acked, wire, tunnels>>

-----------------------------------------------------------------------------
(* start.                                                                  *)

\* What both ends of the match share: the test of auto_connect and the reset
\* of the delay before the sleep.
Settle(newState, resets) ==
    /\ state' = newState
    /\ reset' = resets
    /\ delay' = IF resets /\ autoConnect THEN 1 ELSE delay
    /\ pc' = IF autoConnect THEN "sleep" ELSE "stopped"
    /\ control' = "none" /\ wire' = <<>>
    /\ UNCHANGED <<autoConnect, acked, keepalive, tunnels>>

ClosedGracefully == pc = "ok" /\ Settle("Disconnected", TRUE)

\* Mutant: was_connected is read after the state has been overwritten.
FailedForgets == pc = "err" /\ Settle("Error", FALSE)

\* was_connected is read, then the state is overwritten.
Failed == pc = "err" /\ Settle("Error", state = "Connected")

Sleep ==
    /\ pc = "sleep"
    /\ pc' = "start"
    /\ delay' = IF reset THEN 1 ELSE Min({delay * 2, MaxDelay})
    /\ UNCHANGED <<autoConnect, state, reset, acked, network, keepalive, tunnels>>

ClientStep ==
    \/ Connecting \/ Connect \/ SendRegister \/ RecvAck \/ Listen \/ ListenEnds
    \/ ClosedGracefully \/ Failed \/ Sleep

ControlNext == ClientStep \/ Ping \/ RelayAnswers \/ RelaySends \/ LinkEnds \/ LinkDies \/ TunnelEnds

\* The runtime runs the task and the keepalive timer; a relay that is
\* reachable answers a registration.
ControlSpec ==
    /\ ControlInit /\ [][ControlNext]_controlVars
    /\ WF_controlVars(ClientStep) /\ WF_controlVars(Ping) /\ WF_controlVars(RelayAnswers)

-----------------------------------------------------------------------------
(***************************************************************************)
(* The client waits one second before it reconnects exactly when it had    *)
(* been registered, whichever way the connection ended; otherwise it keeps *)
(* its growing delay, up to the configured limit.  start learns how a      *)
(* connection ended from a result and from a state that it then            *)
(* overwrites.                                                             *)
(***************************************************************************)
BackoffFollowsRegistration ==
    /\ pc = "sleep" => (reset <=> acked) /\ (acked => delay = 1)
    /\ delay \in 1 .. MaxDelay
    /\ state = "Connected" => acked /\ pc \in {"listen", "ok", "err"}

(***************************************************************************)
(* "Start the relay client with automatic reconnection" (client.rs): the   *)
(* client listens on a live connection for good or tries to connect again  *)
(* and again; a connection that dies silently is noticed by the keepalive. *)
(* It stops in one case only: the connection dies silently between         *)
(* register and register_ack, where nothing is sent that would reveal it   *)
(* and the wait has no timeout.                                            *)
(***************************************************************************)
KeepsTrying ==
    autoConnect =>
        \/ []<>(pc = "connect")
        \/ <>[](pc = "listen" /\ control = "up")
        \/ <>[](pc = "await" /\ control = "silent")
=============================================================================
