-------------------------- MODULE ShellInteractive --------------------------
(***************************************************************************)
(* One interactive shell session on Unix                                   *)
(* (server/src/capabilities/shell_interactive.rs): the main loop of        *)
(* run_interactive_shell, the PTY reader task, the task that waits for the *)
(* child, and around them the shell, its PTY, the client's inbound channel *)
(* and the event loop that takes the outbound events (module Session).     *)
(*                                                                         *)
(* Output is numbered in the order the shell writes it.  Input is counted, *)
(* not told apart.  The clock is left out: a deadline that is armed may    *)
(* pass whenever the loop waits in its select!.  Resize and Resume change  *)
(* nothing that is modelled.  inbound.recv() never gives None here: the    *)
(* manager's entry keeps a sender until Closed has been taken.             *)
(*                                                                         *)
(* Whether the configured shell dies of SIGTERM is not for the server to   *)
(* say: an interactive one, as the default `/bin/sh -i`, ignores it.  What *)
(* the shell leaves running in the background keeps the PTY open.          *)
(***************************************************************************)
EXTENDS Naturals, FiniteSets, SequencesExt

CONSTANTS MaxOutput,   \* bound: chunks the shell writes
          MaxEvents,   \* bound: events the client sends
          PtyCapacity, \* input the PTY holds before a write has to wait
          InCapacity,  \* of the inbound channel (64 in the code)
          OutCapacity  \* of the outbound channel (128 in the code)

ASSUME InteractiveAssumption ==
    /\ MaxOutput \in Nat /\ MaxEvents \in Nat
    /\ {PtyCapacity, InCapacity, OutCapacity} \subseteq Nat \ {0}

ClientEvents == {"input", "heartbeat", "close"}
\* A Close event carries its reason; "detach" is the one Ctrl+] gives.
CloseEvents == {"close", "detach"}
Event(k, n) == [kind |-> k, n |-> n]
Closed == Event("closed", 0)

VARIABLES
    shell,     \* the child: "none", "running", "exited" or "reaped"
    honours,   \* it is a shell that dies of SIGTERM; fixed by its configuration
    sigterm,   \* SIGTERM has been sent to it
    jobs,      \* a process it started in the background holds the PTY
    ptyIn,     \* input it has not read
    ptyOut,    \* output the reader has not read
    written,   \* how many chunks it has written
    inbound,   \* the client's events
    sent,      \* how many it has sent
    pc,        \* where the main loop is
    meta,      \* exit_metadata: "none", a CloseEvent, "idle" or "max"
    armed,     \* idle_timeout_secs, max_duration_secs: the deadlines not passed
    reader,    \* the reader task: "none", "read", "send" or "done"
    chunk,     \* the output in its hand
    outbound,  \* the channel to the event loop
    delivered  \* history: what the event loop has taken

os == <<shell, honours, sigterm, jobs, ptyIn, ptyOut, written>>
client == <<inbound, sent>>
main == <<pc, meta, armed>>
copying == <<reader, chunk>>
channel == <<outbound, delivered>>
vars == <<os, client, main, copying, channel>>

Init ==
    /\ shell = "none" /\ honours \in BOOLEAN /\ sigterm = FALSE /\ jobs = FALSE
    /\ ptyIn = 0 /\ ptyOut = <<>> /\ written = 0
    /\ inbound = <<>> /\ sent = 0
    /\ pc = "spawn" /\ meta = "none"
    /\ armed \in SUBSET {"idle", "max"}
    /\ reader = "none" /\ chunk = 0
    /\ outbound = <<>> /\ delivered = <<>>

LoopEnded == Closed \in ToSet(delivered)
Room == Len(outbound) < OutCapacity

\* outbound.send(e).await; once the receiver is gone it fails at once.
Send(e) ==
    \/ LoopEnded /\ UNCHANGED outbound
    \/ ~LoopEnded /\ Room /\ outbound' = Append(outbound, e)

-----------------------------------------------------------------------------
(* The shell, the client, and the event loop.                              *)

\* The slave side of the PTY is open.
PtyOpen == shell = "running" \/ jobs

ShellReads ==
    /\ PtyOpen /\ ptyIn > 0
    /\ ptyIn' = ptyIn - 1
    /\ UNCHANGED <<shell, honours, sigterm, jobs, ptyOut, written, client, main, copying, channel>>

ShellWrites ==
    /\ PtyOpen /\ written < MaxOutput
    /\ written' = written + 1
    /\ ptyOut' = Append(ptyOut, written')
    /\ UNCHANGED <<shell, honours, sigterm, jobs, ptyIn, client, main, copying, channel>>

ShellExits ==
    /\ shell = "running"
    /\ shell' = "exited"
    /\ UNCHANGED <<honours, sigterm, jobs, ptyIn, ptyOut, written, client, main, copying, channel>>

\* A job is put in the background; it outlives the shell or ends before it.
JobStarts ==
    /\ shell = "running" /\ ~jobs
    /\ jobs' = TRUE
    /\ UNCHANGED <<shell, honours, sigterm, ptyIn, ptyOut, written, client, main, copying, channel>>

JobEnds ==
    /\ jobs /\ jobs' = FALSE
    /\ UNCHANGED <<shell, honours, sigterm, ptyIn, ptyOut, written, client, main, copying, channel>>

ClientSends ==
    /\ sent < MaxEvents /\ Len(inbound) < InCapacity
    /\ \E e \in ClientEvents : inbound' = Append(inbound, e)
    /\ sent' = sent + 1
    /\ UNCHANGED <<os, main, copying, channel>>

\* Ctrl+] in the command line client: run_interactive_shell of the CLI sends a
\* SessionClose with the reason "Client detached" and the process ends.  (When
\* the message does not leave the process any more, nothing happens here.)  The
\* client reads its keys only once open_capability_session has seen Ready.
UserDetaches ==
    /\ \E i \in DOMAIN delivered : delivered[i].kind = "ready"
    /\ sent < MaxEvents /\ Len(inbound) < InCapacity
    /\ inbound' = Append(inbound, "detach")
    /\ sent' = sent + 1
    /\ UNCHANGED <<os, main, copying, channel>>

TakeEvent ==
    /\ outbound # <<>> /\ ~LoopEnded
    /\ delivered' = Append(delivered, Head(outbound))
    /\ outbound' = Tail(outbound)
    /\ UNCHANGED <<os, client, main, copying>>

-----------------------------------------------------------------------------
(* run_interactive_shell.                                                  *)

\* forkpty; a failure is logged and the session ends without an event.
Spawn ==
    /\ pc = "spawn"
    /\ \/ shell' = "running" /\ pc' = "ready"
       \/ pc' = "failed" /\ UNCHANGED shell
    /\ UNCHANGED <<honours, sigterm, jobs, ptyIn, ptyOut, written, client, meta, armed, copying, channel>>

\* Ready, then the reader and the waiting task are spawned.
SendReady ==
    /\ pc = "ready"
    /\ Send(Event("ready", 0))
    /\ pc' = "select" /\ reader' = "read"
    /\ UNCHANGED <<os, client, meta, armed, chunk, delivered>>

\* wait_for_child: waitpid returns and the status goes into the oneshot.
Reap ==
    /\ shell = "exited" /\ reader # "none"
    /\ shell' = "reaped"
    /\ UNCHANGED <<honours, sigterm, jobs, ptyIn, ptyOut, written, client, main, copying, channel>>

\* terminate_child: SIGTERM, never anything stronger.
TerminateChild == sigterm' = (sigterm \/ shell = "running")

\* Mutant: the request is noted and no signal is sent.
RecvCloseUnsignalled ==
    /\ pc = "select" /\ inbound # <<>> /\ Head(inbound) \in CloseEvents
    /\ inbound' = Tail(inbound)
    /\ meta' = Head(inbound)
    /\ UNCHANGED <<os, sent, pc, armed, copying, channel>>

RecvClose ==
    /\ pc = "select" /\ inbound # <<>> /\ Head(inbound) \in CloseEvents
    /\ inbound' = Tail(inbound)
    /\ meta' = Head(inbound)
    /\ TerminateChild
    /\ UNCHANGED <<shell, honours, jobs, ptyIn, ptyOut, written, sent, pc, armed, copying, channel>>

RecvInput ==
    /\ pc = "select" /\ inbound # <<>> /\ Head(inbound) = "input"
    /\ inbound' = Tail(inbound)
    /\ pc' = "write"
    /\ UNCHANGED <<os, sent, meta, armed, copying, channel>>

RecvHeartbeat ==
    /\ pc = "select" /\ inbound # <<>> /\ Head(inbound) = "heartbeat"
    /\ inbound' = Tail(inbound)
    /\ pc' = "ack"
    /\ UNCHANGED <<os, sent, meta, armed, copying, channel>>

SendAck ==
    /\ pc = "ack"
    /\ Send(Event("ack", 0))
    /\ pc' = "select"
    /\ UNCHANGED <<os, client, meta, armed, copying, delivered>>

\* pty_write waits for the PTY to take the input; nothing else of the loop
\* runs meanwhile.  It fails when nobody has the PTY open any more.
PtyWrite ==
    /\ pc = "write"
    /\ \/ PtyOpen /\ ptyIn < PtyCapacity /\ ptyIn' = ptyIn + 1
       \/ ~PtyOpen /\ UNCHANGED ptyIn
    /\ pc' = "select"
    /\ UNCHANGED <<shell, honours, sigterm, jobs, ptyOut, written, client, meta, armed, copying, channel>>

\* The idle or the lifetime deadline passes: it is disarmed, so that the
\* loop does not spin on it, and the shell is told to end.
Deadline(d) ==
    /\ pc = "select" /\ d \in armed
    /\ armed' = armed \ {d}
    /\ meta' = d
    /\ TerminateChild
    /\ UNCHANGED <<shell, honours, jobs, ptyIn, ptyOut, written, client, pc, copying, channel>>

\* exit_rx: the child has been reaped.
RecvExit ==
    /\ pc = "select" /\ shell = "reaped"
    /\ pc' = "exit"
    /\ UNCHANGED <<os, client, meta, armed, copying, channel>>

\* Mutant: a client's close is reported as a timeout.
SendExitBlames ==
    /\ pc = "exit"
    /\ Send(Event(IF meta # "none" THEN "timeout" ELSE "exit", 0))
    /\ pc' = "close"
    /\ UNCHANGED <<os, client, meta, armed, copying, delivered>>

\* timed_out comes from the last request, the status from the child.
SendExit ==
    /\ pc = "exit"
    /\ Send(Event(IF meta \in {"idle", "max"} THEN "timeout" ELSE "exit", 0))
    /\ pc' = "close"
    /\ UNCHANGED <<os, client, meta, armed, copying, delivered>>

SendClosed ==
    /\ pc = "close"
    /\ Send(Closed)
    /\ pc' = "join"
    /\ UNCHANGED <<os, client, meta, armed, copying, delivered>>

\* drop(master), reader_task.await; the last sender goes with the function.
Join ==
    /\ pc = "join" /\ reader = "done"
    /\ pc' = "done"
    /\ UNCHANGED <<os, client, meta, armed, copying, channel>>

-----------------------------------------------------------------------------
(* The reader task.                                                        *)

\* Mutant: the buffer is read again before it was sent.
ReaderReadsOver ==
    /\ reader \in {"read", "send"} /\ ptyOut # <<>>
    /\ chunk' = Head(ptyOut) /\ ptyOut' = Tail(ptyOut)
    /\ reader' = "send"
    /\ UNCHANGED <<shell, honours, sigterm, jobs, ptyIn, written, client, main, channel>>

ReaderReads ==
    /\ reader = "read" /\ ptyOut # <<>>
    /\ chunk' = Head(ptyOut) /\ ptyOut' = Tail(ptyOut)
    /\ reader' = "send"
    /\ UNCHANGED <<shell, honours, sigterm, jobs, ptyIn, written, client, main, channel>>

ReaderSends ==
    /\ reader = "send"
    /\ \/ LoopEnded /\ reader' = "done" /\ UNCHANGED outbound
       \/ ~LoopEnded /\ Room
          /\ outbound' = Append(outbound, Event("output", chunk)) /\ reader' = "read"
    /\ UNCHANGED <<os, client, main, chunk, delivered>>

\* read gives 0 or EIO when the slave side is closed and drained; until then
\* it waits, whether or not the shell is still there.
ReaderEnds ==
    /\ reader = "read" /\ ptyOut = <<>> /\ ~PtyOpen
    /\ reader' = "done"
    /\ UNCHANGED <<os, client, main, chunk, channel>>

-----------------------------------------------------------------------------
\* A shell that does not ignore SIGTERM dies of it.
SigtermEndsShell == sigterm /\ honours /\ ShellExits

Receive == RecvClose \/ RecvInput \/ RecvHeartbeat
Report == SendAck \/ PtyWrite \/ SendExit \/ SendClosed \/ Join
ReaderStep == ReaderReads \/ ReaderSends \/ ReaderEnds

Next ==
    \/ ShellReads \/ ShellWrites \/ ShellExits \/ JobStarts \/ JobEnds
    \/ ClientSends \/ UserDetaches \/ TakeEvent
    \/ Spawn \/ SendReady \/ Reap \/ Receive \/ RecvExit \/ Report
    \/ \E d \in {"idle", "max"} : Deadline(d)
    \/ ReaderStep

\* The runtime polls its tasks, select! picks fairly among the branches that
\* are ready, the lifetime deadline passes if the loop keeps coming back to
\* its select!, and SIGTERM ends a shell that honours it.  Nothing else is
\* expected of the shell: it need not read its input, end by itself or end
\* what it started.
Spec ==
    /\ Init /\ [][Next]_vars
    /\ WF_vars(Spawn) /\ WF_vars(SendReady) /\ WF_vars(Reap) /\ WF_vars(Report)
    /\ SF_vars(RecvExit) /\ SF_vars(Receive) /\ SF_vars(Deadline("max"))
    /\ WF_vars(ReaderStep) /\ WF_vars(TakeEvent)
    /\ WF_vars(SigtermEndsShell)

-----------------------------------------------------------------------------
Sent == delivered \o outbound
Kinds(ks) == {i \in DOMAIN Sent : Sent[i].kind \in ks}

(***************************************************************************)
(* Two tasks write to the outbound channel, and still the client sees the  *)
(* shell's output in order, each chunk at most once and none skipped, up   *)
(* to where the session ends: the k-th output is the shell's k-th chunk.   *)
(***************************************************************************)
OutputIsPrefix ==
    \A i \in Kinds({"output"}) :
        Sent[i].n = Cardinality({j \in Kinds({"output"}) : j <= i})

(***************************************************************************)
(* A session reports its end once, after the shell has been reaped, and    *)
(* blames a timeout only if a deadline has passed: Exit comes from one     *)
(* place, the reason for it from four.                                     *)
(***************************************************************************)
EndIsTrue ==
    /\ Cardinality(Kinds({"exit", "timeout"})) <= 1
    /\ Kinds({"exit", "timeout"}) # {} => shell = "reaped"
    /\ Kinds({"timeout"}) # {} => meta \in {"idle", "max"}
    /\ Kinds({"exit"}) # {} => meta \in {"none"} \cup CloseEvents
    /\ \A i \in Kinds({"closed"}) : \E j \in Kinds({"exit", "timeout"}) : j < i

(***************************************************************************)
(* Once a shell that honours SIGTERM has been told to end (the client      *)
(* closed the session or a deadline passed), the session ends for the      *)
(* client, even if what the shell left running keeps the PTY and the       *)
(* reader goes on sending, unless the loop is stuck for good in a write    *)
(* that nobody reads.  When what it left running goes too, no write is     *)
(* stuck and no task is left behind, although the main task waits for the  *)
(* reader and the reader for room in a channel nobody reads after Closed.  *)
(* Of a shell that ignores SIGTERM nothing is said: LifetimeIsCapped.      *)
(***************************************************************************)
RequestedEndComes ==
    /\ honours /\ []<>(pc # "write") => (meta # "none" ~> LoopEnded)
    /\ honours /\ <>[]~jobs => (meta # "none" ~> LoopEnded /\ pc = "done" /\ reader = "done")

(***************************************************************************)
(* docs/resumable-sessions.md: "Press Ctrl+] in an interactive session to  *)
(* detach without terminating the remote shell".  A shell is never told to *)
(* end because its client has detached.                                    *)
(* The code does not keep this: README, section 6.                         *)
(***************************************************************************)
DetachKeepsShell == meta = "detach" => ~sigterm

(***************************************************************************)
(* docs/capability-refactor-plan.md: "Implement idle timeout and absolute  *)
(* lifetime caps per capability".  A session with a lifetime cap ends.     *)
(* The code does not keep this: README, section 6.                         *)
(***************************************************************************)
LifetimeIsCapped == "max" \in armed /\ pc = "select" ~> pc = "done"

(***************************************************************************)
(* docs/PRD.md: "Server sends final exit_code as last message".  No output *)
(* of the shell is sent after its Exit.                                    *)
(* The code does not keep this: README, section 6.                         *)
(***************************************************************************)
OutputBeforeExit ==
    \A i \in Kinds({"output"}), j \in Kinds({"exit", "timeout"}) : i < j
=============================================================================
