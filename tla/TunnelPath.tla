----------------------------- MODULE TunnelPath -----------------------------
(***************************************************************************)
(* The whole way of the bytes through a relay tunnel, from the stream the  *)
(* client's gRPC channel writes to the local gRPC port of the server:      *)
(*                                                                         *)
(*   application - uplink/downlink tasks - relay - handle_tunnel - gRPC    *)
(*                                                                         *)
(* establish_relay_tunnel, spawn_uplink and spawn_downlink are in          *)
(* client-lib/src/relay.rs, forward_bidirectional and forward_stream in    *)
(* relay/src/main.rs, handle_tunnel in server/src/relay/client.rs.  How    *)
(* the relay pairs the two websockets is module RelayTunnel; here it       *)
(* happens in one step.  Only binary and Close frames are carried: neither *)
(* end sends a text, ping or pong frame once it has sent tunnel_ready, and *)
(* what the code does with one (forward or ignore it) is left out.  The    *)
(* relay's own tunnel_failed text comes with its Close when it gives up.   *)
(***************************************************************************)
EXTENDS Naturals, Sequences, SequencesExt

CONSTANTS MaxChunks   \* bound: the chunks one application writes

ASSUME ChunksAssumption == MaxChunks \in Nat

Ends == {"client", "server"}
Other(p) == IF p = "client" THEN "server" ELSE "client"

\* A binary frame is the number of its chunk, a Close frame is 0.
CloseFrame == 0
IsData(f) == f # CloseFrame

VARIABLES
    \* The applications: the gRPC channel of the client, the gRPC server.
    wrote,    \* chunks each has written
    closed,   \* each has dropped its stream
    got,      \* chunks each has received
    eof,      \* each has seen the end of its stream
    \* The ends of the tunnel.
    up,       \* chunks the bridge has not yet taken from the application
    client,   \* establish_relay_tunnel: where it is
    uplink,   \* the task spawned by spawn_uplink
    downlink, \* the task spawned by spawn_downlink; "closed": by a Close frame
    server,   \* handle_tunnel: where it is
    \* The relay and the two websockets.
    link,     \* "open" or "gone"
    inbound,  \* frames on their way from each end to the relay
    out,      \* frames on their way from the relay to each end
    task,     \* the forward_stream task that READS from each end
    relay,    \* the tunnel: "pairing", "forward", "removed" or "gaveup"
    \* History.
    faulty    \* the connection of this end broke

appVars == <<wrote, closed, got, eof>>
clientVars == <<client, uplink, downlink>>
relayVars == <<task, relay>>
wireVars == <<link, inbound, out>>
vars == <<appVars, up, clientVars, server, wireVars, relayVars, faulty>>

Init ==
    /\ wrote = [p \in Ends |-> 0]
    /\ closed = [p \in Ends |-> FALSE]
    /\ got = [p \in Ends |-> <<>>]
    /\ eof = [p \in Ends |-> FALSE]
    /\ up = [p \in Ends |-> <<>>]
    /\ client = "dial" /\ uplink = "run" /\ downlink = "run"
    /\ server = "dial"
    /\ link = [p \in Ends |-> "open"]
    /\ inbound = [p \in Ends |-> <<>>]
    /\ out = [p \in Ends |-> <<>>]
    /\ task = [p \in Ends |-> "run"]
    /\ relay = "pairing"
    /\ faulty = [p \in Ends |-> FALSE]

\* tunnel_ready has been sent to the relay.
Ready(p) == IF p = "client" THEN client = "run" ELSE server \in {"local", "run", "done"}
HasStream(p) == IF p = "client" THEN client = "run" ELSE server = "run"
\* Nothing more will come from the relay.
StreamOver(p) == out[p] = <<>> /\ (link[p] = "gone" \/ relay \in {"removed", "gaveup"})

-----------------------------------------------------------------------------
(* The applications                                                        *)

AppWrites(p) ==
    /\ HasStream(p) /\ ~closed[p] /\ wrote[p] < MaxChunks
    /\ wrote' = [wrote EXCEPT ![p] = @ + 1]
    /\ up' = [up EXCEPT ![p] = Append(@, wrote[p] + 1)]
    /\ UNCHANGED <<closed, got, eof, clientVars, server, wireVars, relayVars, faulty>>

AppCloses(p) ==
    /\ HasStream(p) /\ ~closed[p]
    /\ closed' = [closed EXCEPT ![p] = TRUE]
    /\ UNCHANGED <<wrote, got, eof, up, clientVars, server, wireVars, relayVars, faulty>>

\* A websocket breaks; each side may still read a part of what was under way.
Break(p) ==
    /\ link[p] = "open" /\ Ready(p)
    /\ link' = [link EXCEPT ![p] = "gone"]
    /\ faulty' = [faulty EXCEPT ![p] = TRUE]
    /\ \E i \in 0..Len(inbound[p]), j \in 0..Len(out[p]) :
          /\ inbound' = [inbound EXCEPT ![p] = SubSeq(@, 1, i)]
          /\ out' = [out EXCEPT ![p] = SubSeq(@, 1, j)]
    /\ UNCHANGED <<appVars, up, clientVars, server, relayVars>>

-----------------------------------------------------------------------------
(* establish_relay_tunnel                                                  *)

\* connect_websocket with the subprotocol, then the connect message.  Only a
\* subprotocol error is worth the second attempt.
Dial ==
    /\ client = "dial"
    /\ client' \in {"ack", "redial", "failed"}
    /\ UNCHANGED <<appVars, up, uplink, downlink, server, wireVars, relayVars, faulty>>

Redial ==
    /\ client = "redial"
    /\ client' \in {"ack", "failed"}
    /\ UNCHANGED <<appVars, up, uplink, downlink, server, wireVars, relayVars, faulty>>

\* connect_ack: anything but a text frame of that type with status ok and a
\* tunnel id fails; otherwise tunnel_ready is sent and the tasks are spawned.
ConnectAck ==
    /\ client = "ack"
    /\ client' = "failed" \/ (relay = "pairing" /\ client' = "run")
    /\ UNCHANGED <<appVars, up, uplink, downlink, server, wireVars, relayVars, faulty>>

(* The two tasks: the websocket is dropped when both have ended.           *)
EndTasks(u, d) ==
    /\ uplink' = u /\ downlink' = d
    /\ link' = IF u # "run" /\ d # "run" THEN [link EXCEPT !["client"] = "gone"] ELSE link

\* A websocket that has received a Close frame refuses data; a broken one
\* refuses it or loses it.
UplinkForwards ==
    /\ client = "run" /\ uplink = "run" /\ up["client"] # <<>>
    /\ up' = [up EXCEPT !["client"] = Tail(@)]
    /\ \/ /\ downlink # "closed"
          /\ inbound' = IF link["client"] = "gone" THEN inbound
                        ELSE [inbound EXCEPT !["client"] = Append(@, Head(up["client"]))]
          /\ UNCHANGED <<uplink, downlink, link>>
       \/ /\ downlink = "closed" \/ link["client"] = "gone"
          /\ EndTasks("done", downlink)
          /\ UNCHANGED inbound
    /\ UNCHANGED <<appVars, client, server, out, relayVars, faulty>>

\* Mutant: the task ends without the Close frame.
UplinkEndsSilently ==
    /\ client = "run" /\ uplink = "run" /\ up["client"] = <<>> /\ closed["client"]
    /\ EndTasks("done", downlink)
    /\ UNCHANGED <<appVars, up, client, server, inbound, out, relayVars, faulty>>

\* Mutant: the end is acted on before what the application wrote is read.
UplinkEndsEarly ==
    /\ client = "run" /\ uplink = "run" /\ closed["client"]
    /\ inbound' = IF link["client"] = "gone" THEN inbound
                  ELSE [inbound EXCEPT !["client"] = Append(@, CloseFrame)]
    /\ EndTasks("done", downlink)
    /\ UNCHANGED <<appVars, up, client, server, out, relayVars, faulty>>

\* read() returns 0: a Close frame, if the websocket still takes it.
UplinkEnds ==
    /\ client = "run" /\ uplink = "run" /\ up["client"] = <<>> /\ closed["client"]
    /\ inbound' = IF link["client"] = "gone" THEN inbound
                  ELSE [inbound EXCEPT !["client"] = Append(@, CloseFrame)]
    /\ EndTasks("done", downlink)
    /\ UNCHANGED <<appVars, up, client, server, out, relayVars, faulty>>

\* The end of the downlink task: relay_writer.shutdown().
DownlinkStops(d) ==
    /\ EndTasks(uplink, d)
    /\ eof' = [eof EXCEPT !["client"] = ~closed["client"]]

\* A Close frame, or tunnel_failed before it, ends the loop.
DownlinkReads ==
    LET f == Head(out["client"]) IN
    /\ client = "run" /\ downlink = "run" /\ out["client"] # <<>>
    /\ out' = [out EXCEPT !["client"] = Tail(@)]
    /\ \/ /\ IsData(f) /\ ~closed["client"]
          /\ got' = [got EXCEPT !["client"] = Append(@, f)]
          /\ UNCHANGED <<uplink, downlink, link, eof>>
       \/ /\ IsData(f) /\ closed["client"]         \* write_all fails
          /\ DownlinkStops("done") /\ UNCHANGED got
       \/ /\ ~IsData(f)
          /\ \E d \in IF relay = "gaveup" THEN {"closed", "done"} ELSE {"closed"} : DownlinkStops(d)
          /\ UNCHANGED got
    /\ UNCHANGED <<wrote, closed, up, client, server, inbound, relayVars, faulty>>

\* The websocket's stream ends or yields an error.
DownlinkEnds ==
    /\ client = "run" /\ downlink = "run" /\ StreamOver("client")
    /\ DownlinkStops("done")
    /\ UNCHANGED <<wrote, closed, got, up, client, server, inbound, out, relayVars, faulty>>

-----------------------------------------------------------------------------
(* handle_tunnel, started by the open_tunnel message the connect causes    *)

ServerDials ==
    /\ server = "dial" /\ client \in {"ack", "run"}
    /\ \/ relay = "pairing" /\ server' = "local"
       \/ server' = "failed"
    /\ UNCHANGED <<appVars, up, clientVars, wireVars, relayVars, faulty>>

\* TcpStream::connect(local_endpoint); on failure the websocket is dropped.
ServerConnects ==
    /\ server = "local"
    /\ \/ server' = "run" /\ UNCHANGED <<link, faulty>>
       \/ /\ server' = "done"
          /\ link' = [link EXCEPT !["server"] = "gone"]
          /\ faulty' = [faulty EXCEPT !["server"] = TRUE]
    /\ UNCHANGED <<appVars, up, clientVars, inbound, out, relayVars>>

\* Either arm of the select! ends: the other one, the websocket and the local
\* connection are dropped, without a Close frame.
BridgeStops ==
    /\ server' = "done"
    /\ link' = [link EXCEPT !["server"] = "gone"]
    /\ eof' = [eof EXCEPT !["server"] = ~closed["server"]]
BridgeGoesOn == UNCHANGED <<server, link, eof>>

\* ws_to_local: a local connection that is closed refuses the write or loses it.
ServerReads ==
    LET f == Head(out["server"]) IN
    /\ server = "run" /\ out["server"] # <<>>
    /\ out' = [out EXCEPT !["server"] = Tail(@)]
    /\ \/ /\ IsData(f) /\ BridgeGoesOn
          /\ got' = IF closed["server"] THEN got ELSE [got EXCEPT !["server"] = Append(@, f)]
       \/ /\ ~IsData(f) \/ closed["server"]
          /\ BridgeStops /\ UNCHANGED got
    /\ UNCHANGED <<wrote, closed, up, clientVars, inbound, relayVars, faulty>>

\* local_to_ws
ServerSends ==
    /\ server = "run" /\ up["server"] # <<>>
    /\ up' = [up EXCEPT !["server"] = Tail(@)]
    /\ \/ /\ BridgeGoesOn
          /\ inbound' = IF link["server"] = "gone" THEN inbound
                        ELSE [inbound EXCEPT !["server"] = Append(@, Head(up["server"]))]
       \/ link["server"] = "gone" /\ BridgeStops /\ UNCHANGED inbound
    /\ UNCHANGED <<wrote, closed, got, clientVars, out, relayVars, faulty>>

\* The websocket's stream is over, or the local connection is at its end.
ServerEnds ==
    /\ server = "run"
    /\ StreamOver("server") \/ (closed["server"] /\ up["server"] = <<>>)
    /\ BridgeStops
    /\ UNCHANGED <<wrote, closed, got, up, clientVars, inbound, out, relayVars, faulty>>

-----------------------------------------------------------------------------
(* The relay                                                               *)

RelayPairs ==
    /\ relay = "pairing" /\ Ready("client") /\ Ready("server")
    /\ relay' = "forward"
    /\ UNCHANGED <<appVars, up, clientVars, server, wireVars, task, faulty>>

\* The tunnel is dropped before it is paired: a Close frame to who is there,
\* for the client with a tunnel_failed before it after the timeout.
RelayGivesUp ==
    /\ relay = "pairing"
    /\ ~(Ready("client") /\ Ready("server"))
    /\ client # "dial" /\ client # "redial"
    /\ relay' = "gaveup"
    /\ out' = [p \in Ends |-> IF Ready(p) /\ link[p] = "open" THEN <<CloseFrame>> ELSE out[p]]
    /\ UNCHANGED <<appVars, up, clientVars, server, link, inbound, task, faulty>>

\* outbound.send(f) of the task that reads the other end: a websocket whose
\* own input is over refuses it, a vanished one refuses it or loses it.
Write(q, f) ==
    /\ task[q] # "ended"
    /\ out' = IF link[q] = "gone" THEN out ELSE [out EXCEPT ![q] = Append(@, f)]
WriteFails(q) == task[q] = "ended" \/ link[q] = "gone"

TaskReads(p) == relay = "forward" /\ task[p] = "run"

\* Mutant: a failed send is logged and the loop goes on.
ForwardDataAnyway(p) ==
    /\ TaskReads(p) /\ inbound[p] # <<>> /\ IsData(Head(inbound[p]))
    /\ inbound' = [inbound EXCEPT ![p] = Tail(@)]
    /\ Write(Other(p), Head(inbound[p])) \/ (WriteFails(Other(p)) /\ UNCHANGED out)
    /\ UNCHANGED <<appVars, up, clientVars, server, link, relayVars, faulty>>

\* A frame is sent on, or the error ends the task and nothing tells anybody.
ForwardData(p) ==
    /\ TaskReads(p) /\ inbound[p] # <<>> /\ IsData(Head(inbound[p]))
    /\ inbound' = [inbound EXCEPT ![p] = Tail(@)]
    /\ \/ Write(Other(p), Head(inbound[p])) /\ UNCHANGED task
       \/ /\ WriteFails(Other(p)) /\ UNCHANGED out
          /\ task' = [task EXCEPT ![p] = "failed"]
    /\ UNCHANGED <<appVars, up, clientVars, server, link, relay, faulty>>

\* A Close frame is passed on if it can be, and ends the task; the Close(None)
\* after the loop is refused by a websocket that has sent one.
ForwardClose(p) ==
    /\ TaskReads(p) /\ inbound[p] # <<>> /\ ~IsData(Head(inbound[p]))
    /\ inbound' = [inbound EXCEPT ![p] = Tail(@)]
    /\ task' = [task EXCEPT ![p] = "ended"]
    /\ Write(Other(p), CloseFrame) \/ (WriteFails(Other(p)) /\ UNCHANGED out)
    /\ UNCHANGED <<appVars, up, clientVars, server, link, relay, faulty>>

\* The stream of an end that has gone is over (the other end is sent
\* Close(None)) or yields an error (it is sent nothing).
StreamEnds(p) ==
    /\ TaskReads(p) /\ inbound[p] = <<>> /\ link[p] = "gone"
    /\ task' = [task EXCEPT ![p] = "ended"]
    /\ Write(Other(p), CloseFrame) \/ UNCHANGED out
    /\ UNCHANGED <<appVars, up, clientVars, server, link, inbound, relay, faulty>>

\* tokio::join! has both results: the websockets are dropped, remove_tunnel.
RemoveTunnel ==
    /\ relay = "forward" /\ \A p \in Ends : task[p] # "run"
    /\ relay' = "removed"
    /\ UNCHANGED <<appVars, up, clientVars, server, wireVars, task, faulty>>

-----------------------------------------------------------------------------
Establish == Dial \/ Redial \/ ConnectAck
Uplink == UplinkForwards \/ UplinkEnds
Downlink == DownlinkReads \/ DownlinkEnds
Bridge == ServerDials \/ ServerConnects \/ ServerReads \/ ServerSends \/ ServerEnds
Pairing == RelayPairs \/ RelayGivesUp
Forward(p) == ForwardData(p) \/ ForwardClose(p) \/ StreamEnds(p)

Next ==
    \/ Establish \/ Uplink \/ Downlink \/ Bridge \/ Pairing \/ RemoveTunnel
    \/ \E p \in Ends : AppWrites(p) \/ AppCloses(p) \/ Break(p) \/ Forward(p)

\* The runtimes run the tasks, connection attempts and the relay's deadlines
\* come to an end, and an application that reads the end of its stream drops
\* it.  Nobody has to write anything.
Fairness ==
    /\ WF_vars(Establish) /\ WF_vars(Uplink) /\ WF_vars(Downlink)
    /\ WF_vars(ServerDials \/ ServerConnects)
    /\ WF_vars(ServerReads \/ ServerEnds) /\ WF_vars(ServerSends \/ ServerEnds)
    /\ WF_vars(Pairing) /\ WF_vars(RemoveTunnel)
    /\ \A p \in Ends : WF_vars(Forward(p)) /\ WF_vars(eof[p] /\ AppCloses(p))

Spec == Init /\ [][Next]_vars
FairSpec == Spec /\ Fairness

-----------------------------------------------------------------------------
(***************************************************************************)
(* The refinement: one abstract stream for each direction.  It is cut by a *)
(* broken connection, by a relay that gives up, by a reader that has gone, *)
(* and, towards the client only, by handle_tunnel: its select! ends both   *)
(* directions when one does, with data of the server still to be sent.     *)
(***************************************************************************)
StreamCut(p) ==
    LET q == Other(p) IN
    \/ faulty[p] \/ faulty[q] \/ relay = "gaveup"
    \/ closed[q] \/ eof[q] \/ eof[p]
    \/ p = "server" /\ server = "done" /\ up[p] # <<>>
\* The chunks among the frames on their way: a Close frame is the last one.
Chunks(frames) ==
    IF frames # <<>> /\ Last(frames) = CloseFrame THEN Front(frames) ELSE frames
\* What the relay has still to read from p, and what p has still to send.
OnWay(p) ==
    IF task[p] # "run" \/ link[Other(p)] = "gone" \/ relay = "gaveup" THEN <<>>
    ELSE Chunks(inbound[p])
Kept(p) == IF StreamCut(p) THEN <<>> ELSE up[p]
Flight(p) ==
    IF eof[Other(p)] \/ closed[Other(p)] THEN <<>>
    ELSE Chunks(out[Other(p)]) \o OnWay(p) \o Kept(p)

ToServer == INSTANCE TunnelStream
              WITH wrote <- wrote["client"], flight <- Flight("client"),
                   got <- got["server"], closed <- closed["client"],
                   cut <- StreamCut("client"), ended <- eof["server"]
ToClient == INSTANCE TunnelStream
              WITH wrote <- wrote["server"], flight <- Flight("server"),
                   got <- got["client"], closed <- closed["server"],
                   cut <- StreamCut("server"), ended <- eof["client"]

(***************************************************************************)
(* Each direction of the tunnel, through five tasks of three programs, is  *)
(* a stream: no chunk is lost in the middle, repeated or out of order, and *)
(* the end is not reported before the last chunk unless the stream was cut.*)
(***************************************************************************)
ImplementsStream == ToServer!Spec /\ ToClient!Spec

(***************************************************************************)
(* A client that drops its stream ends everything behind it: the Close     *)
(* frame passes the relay, handle_tunnel ends, both forwarding tasks end   *)
(* and the tunnel is removed, even when the server's connection breaks on  *)
(* the way.  Only a break of the client's own connection is an exception:  *)
(* forward_stream returns on the error and tells nobody (README, part 6).  *)
(***************************************************************************)
CloseEndsTunnel ==
    closed["client"] ~> \/ relay \in {"removed", "gaveup"} /\ server \notin {"local", "run"}
                        \/ faulty["client"]

(***************************************************************************)
(* handle_tunnel ends without a Close frame and forward_stream returns on  *)
(* the error without sending one, so an idle client is not told that the   *)
(* server's side has gone.  What it does have is this: the next thing it   *)
(* writes makes its own direction fail, which takes the websocket down,    *)
(* and it reads the end of its stream (or has dropped it).                 *)
(***************************************************************************)
NextWriteTells ==
    (task["server"] = "ended" /\ uplink = "run" /\ up["client"] # <<>>)
        ~> (eof["client"] \/ closed["client"])
=============================================================================
