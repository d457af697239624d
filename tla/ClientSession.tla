--------------------------- MODULE ClientSession ---------------------------
(***************************************************************************)
(* The command line client in front of a session of the server: module     *)
(* Session composed with CapabilitySession (client-lib/src/commands.rs:    *)
(* open_capability_session, resume_capability_session, recv) and with the  *)
(* CLI that drives it (cli/src/main.rs: run_exec_command,                  *)
(* run_interactive_shell, drive_session, run_resume).                      *)
(*                                                                         *)
(* One user starts one CLI process after the other: `exec`, which is the   *)
(* attempt Opener, then `resume`s; a process that resumes by itself and a  *)
(* `resume` take an attempt from Resumers.  The handlers of a process that *)
(* has ended may still be at work on the server.  Ready is folded into the *)
(* answer of the RPC, Exit into Closed; input, resizes and heartbeats only *)
(* pass through.                                                           *)
(***************************************************************************)
EXTENDS Session

VARIABLES
    cli,       \* "start", "open", "drive", "interrupted", "handshake", "listed" or "off"
    mine,      \* the attempt whose stream the process reads
    held,      \* the attempts whose streams the process holds
    tok,       \* CapabilitySession.resume_token
    cur,       \* last_stdout_sequence, last_stderr_sequence
    pending,   \* pending_events
    presented, \* the token each attempt presents
    shown,     \* history: frames written to the terminal
    skipped    \* history: frames a `resume` takes as seen, or the terminal failed for

resumeState == <<tok, cur, pending>>
process == <<cli, mine, held, resumeState, shown, skipped>>
clientVars == <<process, presented>>
allVars == <<vars, clientVars>>

Init2 ==
    /\ Init
    /\ cli = "start" /\ mine = NoOne /\ held = {}
    /\ tok = 0 /\ cur = [st \in Streams |-> 0] /\ pending = <<>>
    /\ presented = [a \in Attempts |-> 0]
    /\ shown = {} /\ skipped = {}

-----------------------------------------------------------------------------
(* The process.                                                            *)

\* The process ends, with an error or not; its streams are dropped.
Exits ==
    /\ cli' = "off" /\ mine' = NoOne /\ held' = {} /\ pending' = <<>>
    /\ UNCHANGED <<tok, cur>>

\* A sequence number is taken over as it comes: recv and the handshake alike.
Saw(f) == cur' = [cur EXCEPT ![f.stream] = f.seq]

\* run_exec_command: the RPC of open_capability_session.
Exec ==
    /\ cli = "start"
    /\ OpenSession
    /\ cli' = "open" /\ mine' = Opener /\ held' = {Opener}
    /\ UNCHANGED <<resumeState, shown, skipped, presented>>

\* Ready has come, with the first resume token; or the RPC has failed.
Opened == pc[Opener] = "streaming" /\ conn[Opener]
OpenFailed == pc[Opener] = "failed" \/ ~conn[Opener]

OpenReturns ==
    /\ cli = "open"
    /\ \/ /\ Opened
          /\ cli' = "drive" /\ tok' = 1
          /\ UNCHANGED <<mine, held, cur, pending>>
       \/ OpenFailed /\ Exits
    /\ UNCHANGED <<vars, shown, skipped, presented>>

\* drive_session with an event from pending_events: output is shown, or the
\* terminal cannot be written (StreamClosed).  The session that takes this
\* one's place has its own pending_events: the others are dropped with it.
ShowPending ==
    /\ cli = "drive" /\ pending # <<>>
    /\ \/ /\ shown' = shown \cup {Head(pending)} /\ pending' = Tail(pending)
          /\ UNCHANGED <<cli, skipped>>
       \/ /\ cli' = "interrupted" /\ pending' = <<>>
          /\ skipped' = skipped \cup Items(pending)
          /\ UNCHANGED shown
    /\ UNCHANGED <<vars, mine, held, tok, cur, presented>>

Incoming == reply[mine][read[mine] + 1]

\* drive_session with an event from the stream: output is shown, or the
\* terminal cannot be written (StreamClosed); Closed ends the process.
DriveRecv ==
    /\ cli = "drive" /\ pending = <<>>
    /\ Deliver(mine)
    /\ \/ /\ Incoming.msg.kind = "output" /\ Saw(Incoming.msg)
          /\ \/ shown' = shown \cup {Incoming.msg} /\ UNCHANGED <<cli, skipped>>
             \/ /\ cli' = "interrupted" /\ skipped' = skipped \cup {Incoming.msg}
                /\ UNCHANGED shown
          /\ UNCHANGED <<mine, held, tok, pending>>
       \/ Incoming.msg = Closed /\ Exits /\ UNCHANGED <<shown, skipped>>
    /\ UNCHANGED presented

\* Mutant: the rotated token of the acknowledgement is not stored.
HandshakeKeepsToken ==
    /\ cli = "handshake" /\ Deliver(mine)
    /\ \/ /\ Incoming.src = "ack"
          /\ cli' = "drive" /\ held' = {mine}
          /\ UNCHANGED <<mine, tok, cur, pending>>
       \/ /\ Incoming.msg.kind = "output"
          /\ Saw(Incoming.msg) /\ pending' = Append(pending, Incoming.msg)
          /\ UNCHANGED <<cli, mine, held, tok>>
       \/ Incoming.msg = Closed /\ Exits
    /\ UNCHANGED <<shown, skipped, presented>>

\* The loop of resume_capability_session: output is kept for later, the ack
\* brings the next token and ends it, Closed is an error.
HandshakeRecv ==
    /\ cli = "handshake" /\ Deliver(mine)
    /\ \/ /\ Incoming.src = "ack"
          /\ cli' = "drive" /\ held' = {mine} /\ tok' = presented[mine] + 1  \* the one drawn next
          /\ UNCHANGED <<mine, cur, pending>>
       \/ /\ Incoming.msg.kind = "output"
          /\ Saw(Incoming.msg) /\ pending' = Append(pending, Incoming.msg)
          /\ UNCHANGED <<cli, mine, held, tok>>
       \/ Incoming.msg = Closed /\ Exits
    /\ UNCHANGED <<shown, skipped, presented>>

\* The response stream has ended without an error: every sender is gone.
StreamEnded == /\ pc[mine] = "streaming" /\ conn[mine]
               /\ forwarder[mine] = "done" /\ read[mine] = Len(reply[mine])
StreamFailed == ~conn[mine] \/ pc[mine] = "failed"

\* Mutant: the handshake goes on waiting for its acknowledgement.
StreamStopsInDrive == cli = "drive" /\ pending = <<>> /\ StreamFailed
\* An error of the stream ends the process, in the loop of drive_session as
\* in the handshake; so does the end of the stream in the handshake.
StreamStops ==
    \/ cli = "drive" /\ pending = <<>> /\ StreamFailed
    \/ cli = "handshake" /\ (StreamFailed \/ StreamEnded)

StreamError ==
    /\ StreamStops
    /\ Exits
    /\ UNCHANGED <<vars, shown, skipped, presented>>

\* Ok(None): SessionOutcome::StreamClosed.
StreamCloses ==
    /\ cli = "drive" /\ pending = <<>> /\ StreamEnded
    /\ cli' = "interrupted"
    /\ UNCHANGED <<vars, mine, held, resumeState, shown, skipped, presented>>

\* resume_capability_session: the RPC, with what the process has saved.  The
\* stream it had is dropped when this succeeds, or with the process.
Resume(a) ==
    /\ ResumeSubscribe(a, cur)
    /\ cli' = "handshake" /\ mine' = a /\ held' = held \cup {a}
    /\ presented' = [presented EXCEPT ![a] = tok]
    /\ UNCHANGED <<resumeState, shown, skipped>>

AutoResume(a) == cli = "interrupted" /\ Resume(a)

\* The same, for a session that is gone: NOT_FOUND, and the process ends.
ResumeRefused ==
    /\ cli = "interrupted" /\ listed = "removed"
    /\ Exits
    /\ UNCHANGED <<vars, shown, skipped, presented>>

\* run_resume: ListSessions gives the token and, as cursors, the last
\* sequences recorded.
ListSessions ==
    /\ cli = "off" /\ listed = "live"
    /\ \E a \in Resumers : pc[a] = "start"
    /\ cli' = "listed"
    /\ tok' = token
    /\ cur' = [st \in Streams |-> next[st] - 1]
    /\ skipped' = Items(recorded)
    /\ UNCHANGED <<vars, mine, held, pending, shown, presented>>

ResumeCommand(a) == cli = "listed" /\ Resume(a)

\* Ctrl+] detaches, or the process is killed.  What the SessionClose that
\* Ctrl+] sends does to the capability is in module ShellInteractive; to the
\* session, capabilities end when they like.
Leave ==
    /\ cli \in {"open", "drive", "interrupted", "handshake"}
    /\ Exits
    /\ UNCHANGED <<vars, shown, skipped, presented>>

-----------------------------------------------------------------------------
(* The server, as the process meets it.                                    *)

AttachResumer(a) ==
    /\ AttachWithToken(a, presented[a])
    /\ UNCHANGED clientVars

\* The request stream ends with its connection, or the capability has gone.
DetachClient(a) ==
    /\ ~conn[a] \/ current = Closed \/ loop # "idle"
    /\ Detach(a)
    /\ UNCHANGED clientVars

\* The server has lost the client: it has gone, or the network has failed.
LoseConnection(a) == Disconnect(a) /\ UNCHANGED clientVars

\* The steps the server takes by itself.
ServerStep ==
    /\ \/ Attach \/ LoopStep
       \/ \E a \in Resumers : HandlerStep(a)
       \/ \E a \in Attempts : ForwarderStep(a)
    /\ UNCHANGED clientVars

CapabilityStep == (RecvOutput \/ RecvClosed \/ RecvNone) /\ UNCHANGED clientVars

-----------------------------------------------------------------------------
ProcessStep ==
    \/ OpenReturns \/ ShowPending \/ DriveRecv \/ HandshakeRecv
    \/ StreamError \/ StreamCloses \/ ResumeRefused
    \/ \E a \in Resumers : AutoResume(a) \/ ResumeCommand(a)

\* What happens without the user, the network or the capability: tasks that
\* can run are polled, the process reads its stream, the end of a process and
\* of a connection is noticed.
SystemStep ==
    \/ ProcessStep \/ ServerStep
    \/ \E a \in Resumers : AttachResumer(a)
    \/ \E a \in Attempts : ~conn[a] /\ DetachClient(a)
    \/ \E a \in Attempts \ held : LoseConnection(a)

Next2 ==
    \/ Exec \/ ListSessions \/ Leave \/ CapabilityStep
    \/ ProcessStep \/ ServerStep
    \/ \E a \in Resumers : AttachResumer(a)
    \/ \E a \in Attempts : DetachClient(a) \/ LoseConnection(a)

Spec2 == Init2 /\ [][Next2]_allVars

-----------------------------------------------------------------------------
(***************************************************************************)
(* The cursors a process would resume with are safe: every frame at or     *)
(* below them is on the terminal or about to be, or the resume that gave   *)
(* the process its cursors had skipped it, or the terminal had failed for  *)
(* it or for a replayed frame it came with, or it had left the server's    *)
(* buffer.  Live frames overtake the replayed ones and both set the cursor *)
(* as they come; that the ack comes last is what keeps the difference from *)
(* being lost.  A broadcast receiver that lags does lose it: no later      *)
(* resume asks for what is below the cursors, even if it is still in the   *)
(* buffer.                                                                 *)
(***************************************************************************)
CursorIsSafe ==
    cli \in {"drive", "interrupted"} /\ lagged = {} =>
        \A f \in Items(recorded) :
            f.seq <= cur[f.stream] =>
                f \in shown \cup Items(pending) \cup skipped \cup missed[mine]

(***************************************************************************)
(* A process whose stream owns the attachment holds the token the server   *)
(* will ask for next: the rotation of attach_with_token is never ahead of  *)
(* the client once the acknowledgement is in.                              *)
(***************************************************************************)
TokenIsCurrent == cli = "drive" /\ attachment = mine => tok = token

\* handle_resume_session waits for room in a channel whose receiving half it
\* has not given away yet.
Stalled(a) == pc[a] = "replay" /\ Len(reply[a]) - read[a] = ReplyCapacity

\* The process is at an await that can return, or is not at one.
Understood == Incoming.msg # Nothing \/ (cli = "handshake" /\ Incoming.src = "ack")
ProcessMoves ==
    \/ cli = "open" /\ (Opened \/ OpenFailed)
    \/ cli = "drive" /\ (pending # <<>> \/ StreamEnded)
    \/ cli \in {"drive", "handshake"} /\ Deliverable(mine) /\ Understood
    \/ StreamStops
    \/ cli = "interrupted" /\ listed = "removed"
    \/ cli \in {"interrupted", "listed"} /\ listed # "new" /\ \E a \in Resumers : pc[a] = "start"

(***************************************************************************)
(* The guards of the steps in SystemStep: the system is not at rest.       *)
(* Every such step moves a handler, a queue or a process forward, and the  *)
(* others are bounded: a behaviour in which the system keeps moving gets   *)
(* to a state in which it has nothing left to do.                          *)
(***************************************************************************)
Moving ==
    \/ current # Nothing \/ loop = "closing" \/ pc[Opener] = "attach"
    \/ \E a \in Resumers : \/ pc[a] \in {"attach", "query", "spawn"}
                           \/ ReplayReady(a) \/ AckReady(a) \/ Dropped(a)
    \/ \E a \in Attempts : EventReady(a) \/ SendReady(a) \/ EventsOver(a)
    \/ ProcessMoves
    \/ \E a \in Attempts : ~conn[a] /\ uplink[a] = "run"
    \/ \E a \in Attempts \ held : Received(a)

(***************************************************************************)
(* When the capability is gone the session leaves the manager's map and    *)
(* the process ends, whatever it was doing: as long as they have not, the  *)
(* system has something to do, but for a resume that is stalled.           *)
(***************************************************************************)
ClosedSessionEnds ==
    \/ current = Closed \/ loop = "closing"
    \/ loop = "done" /\ cli # "off" /\ ~(cli = "handshake" /\ Stalled(mine))
    => Moving

(***************************************************************************)
(* docs/resumable-sessions.md: the retained window "is replayed during     *)
(* resume", then the server "emits a SessionResumeAck".  A resume that was *)
(* accepted gets to its ack or loses its connection.  The code does not    *)
(* keep this: live frames and replay fill the response channel before      *)
(* handle_resume_session has returned its receiving half.                  *)
(***************************************************************************)
ResumeIsAcked == (\E a \in Resumers : pc[a] \in {"attach", "query", "spawn", "replay"}) => Moving
=============================================================================
