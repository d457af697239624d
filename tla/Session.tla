------------------------------ MODULE Session ------------------------------
(***************************************************************************)
(* One capability session of the server: SessionState, the part of         *)
(* SessionManager that touches it, run_session_event_loop, and the gRPC    *)
(* handlers that open, resume and stream it (server/src/sessions,          *)
(* server/src/grpc/server.rs).                                             *)
(*                                                                         *)
(* The handlers run on a multi-threaded runtime.  SessionState sits behind *)
(* a mutex, so an action is one lock section or the code between two       *)
(* awaits.  A call of the OpenSession RPC is an attempt: Opener sends      *)
(* SessionOpen, a member of Resumers sends SessionResume.  Time, payloads  *)
(* and the contents of client input are left out; the capability is the    *)
(* source of a stream of events (modules ShellScript, ShellInteractive).   *)
(***************************************************************************)
EXTENDS Naturals, Sequences, FiniteSets

CONSTANTS
    Opener,         \* the attempt that opens the session
    Resumers,       \* the attempts that resume it
    NoOne,          \* no attachment
    Streams,        \* the output streams: stdout and stderr
    BufferCapacity, \* DEFAULT_OUTPUT_BUFFER_CAPACITY, 1024
    EventCapacity,  \* DEFAULT_EVENT_CHANNEL_CAPACITY, 256: broadcast channel
    ReplyCapacity,  \* capacity of the response channel, 128
    MaxFrames       \* bound on the output frames of a run

ASSUME AttemptAssumption ==
    /\ Opener \notin Resumers
    /\ NoOne \notin Resumers \cup {Opener}
ASSUME CapacityAssumption ==
    /\ BufferCapacity \in Nat \ {0} /\ EventCapacity \in Nat \ {0}
    /\ ReplyCapacity \in Nat \ {0} /\ MaxFrames \in Nat

Attempts == Resumers \cup {Opener}

VARIABLES
    listed,      \* "new", "live" or "removed": the session in the manager's map
    token,       \* SessionState.resume_token: the n-th token drawn
    next,        \* stdout_next_sequence, stderr_next_sequence
    buffer,      \* output_buffer
    attachment,  \* attachment, named by the attempt that made it
    recorded,    \* history: every frame recorded, in order
    current,     \* the event the event loop has recorded and not yet broadcast
    loop,        \* the event loop: "idle", "closing" or "done"
    pc,          \* where the handler of each attempt is
    cursor,      \* the last sequences the client of an attempt says it saw
    sub,         \* the broadcast receiver of each attempt
    lagged,      \* attempts whose receiver has lost events
    hand,        \* the event forward_session_events is about to send
    forwarder,   \* forward_session_events: "none", "run" or "done"
    uplink,      \* forward_client_events: "none", "run" or "done"
    conn,        \* the transport of each attempt is up
    replay,      \* buffered frames handle_resume_session has yet to send
    missed,      \* frames that were out of the buffer when it was read
    reply,       \* everything sent on the response channel, in order
    read         \* how much of it the transport has taken

state == <<listed, token, next, buffer, attachment, recorded>>
events == <<current, loop>>
downlink == <<sub, lagged, hand, forwarder>>
answer == <<reply, read>>
request == <<pc, cursor, replay, missed>>
vars == <<state, events, downlink, uplink, conn, answer, request>>

\* What travels to a client: output frames, the end of the session, the ack.
Frame(st, n) == [kind |-> "output", stream |-> st, seq |-> n]
Closed == [kind |-> "closed", stream |-> NoOne, seq |-> 0]
Nothing == [kind |-> "none", stream |-> NoOne, seq |-> 0]
Frames == [kind : {"output"}, stream : Streams, seq : Nat]
\* A reply remembers whether it is replayed, live, or the SessionResumeAck.
Reply(src, m) == [src |-> src, msg |-> m]

Init ==
    /\ listed = "new" /\ token = 1
    /\ next = [st \in Streams |-> 1]
    /\ buffer = <<>> /\ recorded = <<>>
    /\ attachment = NoOne
    /\ current = Nothing /\ loop = "idle"
    /\ pc = [a \in Attempts |-> "start"]
    /\ cursor = [a \in Attempts |-> [st \in Streams |-> 0]]
    /\ sub = [a \in Attempts |-> <<>>]
    /\ lagged = {}
    /\ hand = [a \in Attempts |-> Nothing]
    /\ forwarder = [a \in Attempts |-> "none"]
    /\ uplink = [a \in Attempts |-> "none"]
    /\ conn = [a \in Attempts |-> TRUE]
    /\ replay = [a \in Attempts |-> <<>>]
    /\ missed = [a \in Attempts |-> {}]
    /\ reply = [a \in Attempts |-> <<>>]
    /\ read = [a \in Attempts |-> 0]

Items(seq) == {seq[i] : i \in DOMAIN seq}
Goto(a, l) == pc' = [pc EXCEPT ![a] = l]
\* Mutant: a resume subscribes only after it has read the buffer.
SubscribersLate == {a \in Attempts :
                       \/ a = Opener /\ pc[a] = "attach"
                       \/ forwarder[a] = "run"}
\* The attempts that hold a broadcast receiver.
Subscribers == {a \in Attempts :
                   \/ pc[a] \in {"attach", "query", "spawn"}
                   \/ forwarder[a] = "run"}

-----------------------------------------------------------------------------
(* SessionState::record_output and outputs_since.                          *)

\* Mutant: the oldest frame stays and the new one is dropped.
PushFrameDropsNewest(buf, f) ==
    IF Len(buf) = BufferCapacity THEN buf ELSE Append(buf, f)

PushFrame(buf, f) ==
    LET longer == Append(buf, f)
    IN  IF Len(longer) > BufferCapacity THEN Tail(longer) ELSE longer

\* The buffered frames past the cursors cur, in their order.
OutputsSince(buf, cur) ==
    LET after == {i \in DOMAIN buf : buf[i].seq > cur[buf[i].stream]}
        rank(i) == Cardinality({j \in after : j <= i})
    IN  [k \in 1..Cardinality(after) |-> buf[CHOOSE i \in after : rank(i) = k]]

RecordOutput(st) ==
    LET f == Frame(st, next[st])
    IN  /\ next' = [next EXCEPT ![st] = @ + 1]
        /\ buffer' = PushFrame(buffer, f)
        /\ recorded' = Append(recorded, f)
        /\ current' = f

-----------------------------------------------------------------------------
(* run_session_event_loop.                                                 *)

\* receiver.recv, then record_server_event: the capability has produced
\* output.
RecvOutput ==
    /\ listed = "live" /\ loop = "idle" /\ current = Nothing
    /\ Len(recorded) < MaxFrames
    /\ \E st \in Streams : RecordOutput(st)
    /\ UNCHANGED <<listed, token, attachment, loop, downlink, uplink, conn,
                   answer, request>>

\* The capability has closed the session.
RecvClosed ==
    /\ listed = "live" /\ loop = "idle" /\ current = Nothing
    /\ current' = Closed
    /\ UNCHANGED <<state, loop, downlink, uplink, conn, answer, request>>

\* The capability went away without a Closed event: recv returns None.
RecvNone ==
    /\ listed = "live" /\ loop = "idle" /\ current = Nothing
    /\ loop' = "closing"
    /\ UNCHANGED <<state, current, downlink, uplink, conn, answer, request>>

\* event_tx.send: a receiver that is full loses its oldest event.
Broadcast ==
    /\ current # Nothing
    /\ sub' = [a \in Attempts |->
                  IF a \notin Subscribers THEN sub[a]
                  ELSE IF Len(sub[a]) = EventCapacity
                       THEN Append(Tail(sub[a]), current)
                       ELSE Append(sub[a], current)]
    /\ lagged' = lagged \cup {a \in Subscribers : Len(sub[a]) = EventCapacity}
    /\ current' = Nothing
    /\ loop' = IF current = Closed THEN "closing" ELSE loop
    /\ UNCHANGED <<state, hand, forwarder, uplink, conn, answer, request>>

RemoveSession ==
    /\ loop = "closing"
    /\ loop' = "done"
    /\ listed' = "removed"
    /\ UNCHANGED <<token, next, buffer, attachment, recorded, current, downlink,
                   uplink, conn, answer, request>>

-----------------------------------------------------------------------------
(* The open_session RPC with SessionOpen.                                  *)

\* SessionManager::open_session: the capability runs, the session is in the
\* map, the handler holds the first broadcast receiver.
OpenSession ==
    /\ pc[Opener] = "start"
    /\ listed' = "live"
    /\ Goto(Opener, "attach")
    /\ UNCHANGED <<token, next, buffer, attachment, recorded, events, downlink,
                   uplink, conn, answer, cursor, replay, missed>>

\* SessionManager::attach, then the two forwarding tasks.  An error drops the
\* receiver and the client gets a status.
Attach ==
    /\ pc[Opener] = "attach"
    /\ IF listed = "live" /\ attachment = NoOne
       THEN /\ attachment' = Opener
            /\ Goto(Opener, "streaming")
            /\ forwarder' = [forwarder EXCEPT ![Opener] = "run"]
            /\ uplink' = [uplink EXCEPT ![Opener] = "run"]
       ELSE /\ Goto(Opener, "failed")
            /\ UNCHANGED <<attachment, forwarder, uplink>>
    /\ UNCHANGED <<listed, token, next, buffer, recorded, events, sub, lagged,
                   hand, conn, answer, cursor, replay, missed>>

-----------------------------------------------------------------------------
(* handle_resume_session.                                                  *)

\* snapshot and subscribe_events.  The client presents the cursors c.
ResumeSubscribe(a, c) ==
    /\ a \in Resumers /\ pc[a] = "start" /\ listed # "new"
    /\ IF listed = "live"
       THEN /\ Goto(a, "attach")
            /\ cursor' = [cursor EXCEPT ![a] = c]
       ELSE Goto(a, "failed") /\ UNCHANGED cursor
    /\ UNCHANGED <<state, events, downlink, uplink, conn, answer, replay, missed>>

\* Mutant: a valid token takes the session over from its current owner.
AttachWithTokenSteals(a, presented) ==
    /\ a \in Resumers /\ pc[a] = "attach"
    /\ IF listed = "live" /\ presented = token
       THEN attachment' = a /\ token' = token + 1 /\ Goto(a, "query")
       ELSE Goto(a, "failed") /\ UNCHANGED <<attachment, token>>
    /\ UNCHANGED <<listed, next, buffer, recorded, events, downlink, uplink, conn,
                   answer, cursor, replay, missed>>

\* get_sender, then attach_with_token: validate, try_attach and rotate in one
\* lock section.  The presented token is one drawn so far.
AttachWithToken(a, presented) ==
    /\ a \in Resumers /\ pc[a] = "attach"
    /\ IF listed = "live" /\ presented = token /\ attachment = NoOne
       THEN /\ attachment' = a
            /\ token' = token + 1
            /\ Goto(a, "query")
       ELSE Goto(a, "failed") /\ UNCHANGED <<attachment, token>>
    /\ UNCHANGED <<listed, next, buffer, recorded, events, downlink, uplink, conn,
                   answer, cursor, replay, missed>>

\* buffered_output_since.
QueryBuffer(a) ==
    /\ pc[a] = "query"
    /\ IF listed = "live"
       THEN /\ replay' = [replay EXCEPT ![a] = OutputsSince(buffer, cursor[a])]
            /\ missed' = [missed EXCEPT ![a] = Items(recorded) \ Items(buffer)]
            /\ Goto(a, "spawn")
       ELSE Goto(a, "failed") /\ UNCHANGED <<replay, missed>>
    /\ UNCHANGED <<state, events, downlink, uplink, conn, answer, cursor>>

\* The forwarding tasks start BEFORE the buffered frames are sent.
SpawnForwarders(a) ==
    /\ pc[a] = "spawn"
    /\ Goto(a, "replay")
    /\ forwarder' = [forwarder EXCEPT ![a] = "run"]
    /\ uplink' = [uplink EXCEPT ![a] = "run"]
    /\ UNCHANGED <<state, events, sub, lagged, hand, conn, answer, cursor, replay,
                   missed>>

Room(a) == Len(reply[a]) - read[a] < ReplyCapacity
Send(a, m) == reply' = [reply EXCEPT ![a] = Append(@, m)]

\* The handler is at its awaits: a buffered frame, or then the ack, can be
\* sent, or its future is dropped.
ReplayReady(a) == pc[a] = "replay" /\ conn[a] /\ replay[a] # <<>> /\ Room(a)
AckReady(a) == pc[a] = "replay" /\ conn[a] /\ replay[a] = <<>> /\ Room(a)
Dropped(a) == pc[a] = "replay" /\ ~conn[a]

SendReplay(a) ==
    /\ ReplayReady(a)
    /\ Send(a, Reply("replay", Head(replay[a])))
    /\ replay' = [replay EXCEPT ![a] = Tail(@)]
    /\ UNCHANGED <<state, events, downlink, uplink, conn, read, pc, cursor, missed>>

\* Mutant: the ack is sent without waiting for the buffered frames.
SendAckEarly(a) ==
    /\ pc[a] = "replay" /\ conn[a] /\ Room(a)
    /\ Send(a, Reply("ack", Nothing))
    /\ Goto(a, "streaming")
    /\ UNCHANGED <<state, events, downlink, uplink, conn, read, cursor, replay,
                   missed>>

\* SessionResumeAck, and only now the receiving half goes to the transport.
SendAck(a) ==
    /\ AckReady(a)
    /\ Send(a, Reply("ack", Nothing))
    /\ Goto(a, "streaming")
    /\ UNCHANGED <<state, events, downlink, uplink, conn, read, cursor, replay,
                   missed>>

\* The connection is gone and the handler's future is dropped at its await.
DropHandler(a) ==
    /\ Dropped(a)
    /\ Goto(a, "failed")
    /\ UNCHANGED <<state, events, downlink, uplink, conn, answer, cursor, replay,
                   missed>>

-----------------------------------------------------------------------------
(* forward_session_events.                                                 *)

\* Where the task waits: for an event, for the end of the channel (every
\* sender is gone), or for room in the response channel, if that has a reader.
EventReady(a) == forwarder[a] = "run" /\ hand[a] = Nothing /\ sub[a] # <<>>
EventsOver(a) == forwarder[a] = "run" /\ hand[a] = Nothing /\ sub[a] = <<>> /\ loop = "done"
Received(a) == pc[a] \in {"replay", "streaming"} /\ conn[a]
SendReady(a) == forwarder[a] = "run" /\ hand[a] # Nothing /\ (Received(a) => Room(a))

ForwardRecv(a) ==
    /\ EventReady(a)
    /\ hand' = [hand EXCEPT ![a] = Head(sub[a])]
    /\ sub' = [sub EXCEPT ![a] = Tail(@)]
    /\ UNCHANGED <<state, events, lagged, forwarder, uplink, conn, answer, request>>

\* tx.send: waits for room; fails when the receiving half was dropped.
ForwardSend(a) ==
    /\ SendReady(a)
    /\ IF Received(a)
       THEN /\ Send(a, Reply("live", hand[a]))
            /\ UNCHANGED forwarder
       ELSE /\ forwarder' = [forwarder EXCEPT ![a] = "done"]
            /\ UNCHANGED reply
    /\ hand' = [hand EXCEPT ![a] = Nothing]
    /\ UNCHANGED <<state, events, sub, lagged, uplink, conn, read, request>>

\* RecvError::Closed.
ForwardClosed(a) ==
    /\ EventsOver(a)
    /\ forwarder' = [forwarder EXCEPT ![a] = "done"]
    /\ UNCHANGED <<state, events, sub, lagged, hand, uplink, conn, answer, request>>

-----------------------------------------------------------------------------
(* forward_client_events, and the transport.                               *)

\* The client half-closes, the transport fails, or the capability no longer
\* takes input: the loop ends and the session is detached.
Detach(a) ==
    /\ uplink[a] = "run"
    /\ uplink' = [uplink EXCEPT ![a] = "done"]
    /\ attachment' = IF listed = "live" THEN NoOne ELSE attachment
    /\ UNCHANGED <<listed, token, next, buffer, recorded, events, downlink, conn,
                   answer, request>>

Disconnect(a) ==
    /\ conn[a] /\ pc[a] \in {"replay", "streaming"}
    /\ conn' = [conn EXCEPT ![a] = FALSE]
    /\ UNCHANGED <<state, events, downlink, uplink, answer, request>>

\* The transport takes a message off the ReceiverStream.
Deliverable(a) == pc[a] = "streaming" /\ conn[a] /\ read[a] < Len(reply[a])
Deliver(a) ==
    /\ Deliverable(a)
    /\ read' = [read EXCEPT ![a] = @ + 1]
    /\ UNCHANGED <<state, events, downlink, uplink, conn, reply, request>>

-----------------------------------------------------------------------------
HandlerStep(a) ==
    QueryBuffer(a) \/ SpawnForwarders(a) \/ SendReplay(a) \/ SendAck(a) \/ DropHandler(a)
\* Nothing is assumed of the cursors and the token a client presents.
ResumeStep(a) ==
    \/ \E c : ResumeSubscribe(a, c)
    \/ \E presented : AttachWithToken(a, presented)
    \/ HandlerStep(a)
ForwarderStep(a) == ForwardRecv(a) \/ ForwardSend(a) \/ ForwardClosed(a)
LoopStep == Broadcast \/ RemoveSession

Next ==
    \/ OpenSession \/ Attach
    \/ RecvOutput \/ RecvClosed \/ RecvNone \/ LoopStep
    \/ \E a \in Resumers : ResumeStep(a)
    \/ \E a \in Attempts : ForwarderStep(a) \/ Deliver(a) \/ Detach(a) \/ Disconnect(a)

Spec == Init /\ [][Next]_vars

-----------------------------------------------------------------------------
(* Properties.                                                             *)

(***************************************************************************)
(* An attachment always has a task that will release it, and a task that   *)
(* will call detach never releases somebody else's attachment: the two     *)
(* spots where a session is attached (open and resume) and the one where   *)
(* it is detached are far apart, and detach names no attachment.           *)
(***************************************************************************)
Owns(a) == uplink[a] = "run" \/ pc[a] \in {"query", "spawn"}
AttachmentIsOwned ==
    listed = "live" => \A a \in Attempts : attachment = a <=> Owns(a)

(***************************************************************************)
(* output_buffer is the end of what the capability has written: nothing in *)
(* the retained window is missing, repeated or out of order.               *)
(***************************************************************************)
Last(seq, n) == SubSeq(seq, Len(seq) - n + 1, Len(seq))
BufferIsSuffix ==
    buffer = Last(recorded, IF Len(recorded) < BufferCapacity
                            THEN Len(recorded) ELSE BufferCapacity)

(***************************************************************************)
(* A resumed client misses nothing that was in the buffer or came later:   *)
(* every frame past its cursors is replayed, delivered live or on its way, *)
(* unless its broadcast receiver lagged.  Subscribing before reading the   *)
(* buffer is what makes this true.                                         *)
(***************************************************************************)
Sent(a) == {r.msg : r \in Items(reply[a])}
InFlight(a) == Items(replay[a]) \cup Sent(a) \cup Items(sub[a]) \cup {hand[a], current}
NoGap ==
    \A a \in Attempts :
        pc[a] \in {"replay", "streaming"} /\ conn[a] /\ a \notin lagged =>
            \A f \in Items(recorded) :
                f.seq > cursor[a][f.stream] => f \in InFlight(a) \cup missed[a]

(***************************************************************************)
(* docs/resumable-sessions.md: "During resume the server delivers buffered *)
(* output first, then emits a SessionResumeAck ... to confirm that live    *)
(* streaming has resumed."  No live frame precedes the ack.                *)
(* The code does not keep this: README, section 6.                         *)
(***************************************************************************)
ReplayBeforeLive ==
    \A a \in Resumers : \A i, j \in DOMAIN reply[a] :
        i < j /\ reply[a][i].src = "live" => reply[a][j].src = "live"

=============================================================================
