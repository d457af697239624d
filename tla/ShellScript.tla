---------------------------- MODULE ShellScript ----------------------------
(***************************************************************************)
(* One run of a shell script capability, from the client's list of the     *)
(* capabilities to the end of the process.  The client checks what the     *)
(* user gives against the list it holds (client-lib/src/commands.rs), the  *)
(* server checks what it is sent against the configuration in force, which *)
(* a reload may have replaced meanwhile, and substitutes the values        *)
(* (capabilities/parameters.rs).  open_session then spawns a task          *)
(* (capabilities/shell_script.rs) that starts the command, copies its two  *)
(* output pipes line by line into the session's outbound channel, waits    *)
(* for the process or the timeout, and reports the end.  The receiver is   *)
(* run_session_event_loop (module Session), which takes events until it    *)
(* sees Closed.                                                            *)
(*                                                                         *)
(* A line is its position in its stream.  The three branches of the        *)
(* select! are polled in random order, and timeout() drops the whole loop  *)
(* at whichever await it is.  The client's inbound events change nothing   *)
(* here: open_session reads them until a Close and ignores all of them.    *)
(***************************************************************************)
EXTENDS Configuration

CONSTANTS Capabilities, \* what the file may define this capability as
          Inputs,       \* what the user may give: functions from names to texts
          MaxReloads,   \* bound: reloads between the list and the run
          MaxLines,     \* bound: lines the command writes to each stream
          OutCapacity   \* of the outbound channel (128 in the code)

Parameter ==
    [name : STRING, type : STRING, min : SUBSET Int, max : SUBSET Int, default : SUBSET Text,
     options : Seq(Text), validation : SUBSET [compiles : BOOLEAN, matches : SUBSET Text]]
Capability ==
    [id : STRING, name : STRING, parameters : Seq(Parameter), kind : STRING, mode : STRING,
     command : Text, timeouts : SUBSET Nat]

Optional(set) == \A x, y \in set : x = y

ASSUME ScriptAssumption ==
    /\ MaxReloads \in Nat /\ MaxLines \in Nat /\ OutCapacity \in Nat \ {0}
    /\ \A c \in Capabilities :
         /\ c \in Capability
         /\ \A i \in DOMAIN c.parameters : Optional(c.parameters[i].default)
    /\ \A given \in Inputs : DOMAIN given \subseteq STRING /\ \A n \in DOMAIN given : given[n] \in Text

Streams == {"stdout", "stderr"}
Event(k, st, n) == [kind |-> k, stream |-> st, n |-> n]
Ready == Event("ready", "none", 0)
Output(st, n) == Event("output", st, n)
Exit(timedOut) == Event(IF timedOut THEN "timeout" ELSE "exit", "none", 0)
Error == Event("error", "none", 0)
Closed == Event("closed", "none", 0)

VARIABLES
    child,     \* /bin/sh: "none", "running", "exited" or "killed"
    written,   \* lines the command has written to each stream
    taken,     \* lines next_line has returned from each stream
    req,       \* the request: the capability in force, the reloads so far, the
               \* parameters the client holds, what the user gave, what the
               \* client sent, and the command that is run
    showOutput,\* definition.show_output
    pc,        \* where the task is
    line,      \* the Output event being sent
    timedOut,  \* what send_exit_event is called with
    outbound,  \* the channel to the event loop
    delivered  \* history: what the event loop has taken

process == <<child, written>>
task == <<req, taken, showOutput, pc, line, timedOut>>
vars == <<process, task, outbound, delivered>>

Init ==
    /\ child = "none"
    /\ written = [st \in Streams |-> 0] /\ taken = written
    /\ \E c \in Capabilities :
         req = [config |-> c, reloads |-> 0, listed |-> <<>>, given |-> <<>>,
                sent |-> <<>>, command |-> <<>>]
    /\ showOutput \in BOOLEAN
    /\ pc = "list"
    /\ line = Closed
    /\ timedOut = FALSE
    /\ outbound = <<>> /\ delivered = <<>>

LoopEnded == Closed \in ToSet(delivered)

\* outbound.send(e).await, and on to l.  A receiver that is gone makes the
\* send fail at once, and every caller ignores the failure.
SendThen(e, l) ==
    /\ \/ LoopEnded /\ UNCHANGED outbound
       \/ ~LoopEnded /\ Len(outbound) < OutCapacity /\ outbound' = Append(outbound, e)
    /\ pc' = l

-----------------------------------------------------------------------------
(* The command, and the event loop at the other end of the channel.        *)

\* What /bin/sh has started may write on when the shell is gone.
WriteLine(st) ==
    /\ child # "none" /\ written[st] < MaxLines
    /\ written' = [written EXCEPT ![st] = @ + 1]
    /\ UNCHANGED <<child, task, outbound, delivered>>

Exits ==
    /\ child = "running"
    /\ child' = "exited"
    /\ UNCHANGED <<written, task, outbound, delivered>>

TakeEvent ==
    /\ outbound # <<>> /\ ~LoopEnded
    /\ delivered' = Append(delivered, Head(outbound))
    /\ outbound' = Tail(outbound)
    /\ UNCHANGED <<process, task>>

-----------------------------------------------------------------------------
(* The request: the client's list, the client's check, the server's.       *)

\* list_commands: a parameter of unknown type fails the whole list.
ListCommands ==
    /\ pc = "list"
    /\ IF Listable(req.config.parameters)
       THEN req' = [req EXCEPT !.listed = FromProto(req.config.parameters)] /\ pc' = "check"
       ELSE pc' = "unlisted" /\ UNCHANGED req
    /\ UNCHANGED <<process, taken, showOutput, line, timedOut, outbound, delivered>>

\* A reload needs a file that parses, not one that validates.
ReloadConfig ==
    /\ pc \in {"list", "check", "open"} /\ req.reloads < MaxReloads
    /\ \E c \in Capabilities : req' = [req EXCEPT !.config = c, !.reloads = @ + 1]
    /\ UNCHANGED <<process, taken, showOutput, pc, line, timedOut, outbound, delivered>>

\* validate_parameters of the client, then the Open message.
ClientValidates ==
    /\ pc = "check"
    /\ \E given \in Inputs :
         IF ClientAccepts(req.listed, given)
         THEN /\ req' = [req EXCEPT !.given = given, !.sent = Sanitized(req.listed, given)]
              /\ pc' = "open"
         ELSE req' = [req EXCEPT !.given = given] /\ pc' = "clientRefused"
    /\ UNCHANGED <<process, taken, showOutput, line, timedOut, outbound, delivered>>

ServerRuns(config, sent) ==
    /\ config.mode = "one_shot"
    /\ ServerAccepts(config.parameters, sent)
    /\ AllProvided(config.command, Validated(config.parameters, sent))

\* open_session up to the spawn of the task: everything that may be refused
\* is refused before the session exists.
OpenSession ==
    /\ pc = "open"
    /\ IF ServerRuns(req.config, req.sent)
       THEN /\ req' = [req EXCEPT !.command =
                          Substitute(req.config.command, Validated(req.config.parameters, req.sent))]
            /\ pc' = "ready"
       ELSE pc' = "serverRefused" /\ UNCHANGED req
    /\ UNCHANGED <<process, taken, showOutput, line, timedOut, outbound, delivered>>

-----------------------------------------------------------------------------
(* run_shell_command and the task around it.                               *)

SendReady ==
    /\ pc = "ready"
    /\ SendThen(Ready, "spawn")
    /\ UNCHANGED <<process, req, taken, showOutput, line, timedOut, delivered>>

\* A failure goes through the ? to the task, which sends the Error.  The
\* request has served its purpose.
Spawn ==
    /\ pc = "spawn"
    /\ \/ child' = "running" /\ pc' = "select"
       \/ pc' = "error" /\ UNCHANGED child
    /\ req' = [config |-> <<>>]
    /\ UNCHANGED <<written, taken, showOutput, line, timedOut, outbound, delivered>>

\* next_line of one of the two readers; a line is dropped without
\* show_output, or when it is not UTF-8.  At the end of a stream Ok(None) leads straight back to select!.
NextLine(st) ==
    /\ pc = "select" /\ taken[st] < written[st]
    /\ taken' = [taken EXCEPT ![st] = @ + 1]
    /\ \/ showOutput /\ line' = Output(st, taken'[st]) /\ pc' = "send"
       \/ UNCHANGED <<line, pc>>
    /\ UNCHANGED <<process, req, showOutput, timedOut, outbound, delivered>>

SendLine ==
    /\ pc = "send"
    /\ SendThen(line, "select")
    /\ UNCHANGED <<process, req, taken, showOutput, line, timedOut, delivered>>

\* child.wait(): the process has ended, whatever is left in its pipes.
WaitChild ==
    /\ pc = "select" /\ child = "exited"
    /\ pc' = "exit"
    /\ UNCHANGED <<process, req, taken, showOutput, line, timedOut, outbound, delivered>>

\* Waiting fails: the Error is sent by run_shell_command itself.
WaitFails ==
    /\ pc = "select"
    /\ pc' = "waitError"
    /\ UNCHANGED <<process, req, taken, showOutput, line, timedOut, outbound, delivered>>

\* The timer fires: the loop is dropped, also in the middle of a send.
Timeout ==
    /\ pc \in {"select", "send"}
    /\ pc' = "kill"
    /\ UNCHANGED <<process, req, taken, showOutput, line, timedOut, outbound, delivered>>

\* Mutant: child.wait() instead of child.kill().
KillWaits ==
    /\ pc = "kill" /\ child # "running"
    /\ timedOut' = TRUE
    /\ pc' = "exit"
    /\ UNCHANGED <<process, req, taken, showOutput, line, outbound, delivered>>

\* child.kill().await kills and reaps /bin/sh, not what it has started; a
\* failure is only logged.
Kill ==
    /\ pc = "kill"
    /\ child' \in {child, IF child = "running" THEN "killed" ELSE child}
    /\ timedOut' = TRUE
    /\ pc' = "exit"
    /\ UNCHANGED <<written, req, taken, showOutput, line, outbound, delivered>>

SendExit ==
    /\ pc = "exit"
    /\ SendThen(Exit(timedOut), "close")
    /\ UNCHANGED <<process, req, taken, showOutput, line, timedOut, delivered>>

\* Mutant: after the Error the task goes on as if the command had ended.
SendErrorAndExit ==
    /\ pc \in {"error", "waitError"}
    /\ SendThen(Error, "exit")
    /\ UNCHANGED <<process, req, taken, showOutput, line, timedOut, delivered>>

SendError ==
    /\ pc \in {"error", "waitError"}
    /\ SendThen(Error, "close")
    /\ UNCHANGED <<process, req, taken, showOutput, line, timedOut, delivered>>

SendClosed ==
    /\ pc = "close"
    /\ SendThen(Closed, "done")
    /\ UNCHANGED <<process, req, taken, showOutput, line, timedOut, delivered>>

TaskStep ==
    \/ SendReady \/ Spawn \/ SendLine \/ WaitChild \/ Kill
    \/ SendExit \/ SendError \/ SendClosed
    \/ \E st \in Streams : NextLine(st)

RequestStep == ListCommands \/ ReloadConfig \/ ClientValidates \/ OpenSession

Next ==
    \/ RequestStep
    \/ TaskStep \/ WaitFails \/ Timeout \/ TakeEvent \/ Exits \/ \E st \in Streams : WriteLine(st)

\* The runtime polls the task and the event loop.  The timer fires if the
\* loop is never left: it is armed over the whole loop, so its fairness is
\* strong, from one await to the next.  The command owes nothing.
Spec ==
    /\ Init /\ [][Next]_vars
    /\ WF_vars(TaskStep) /\ WF_vars(TakeEvent) /\ SF_vars(Timeout)

-----------------------------------------------------------------------------
Sent == delivered \o outbound
LinesOf(st) == {i \in DOMAIN Sent : Sent[i].kind = "output" /\ Sent[i].stream = st}
Ends == {"exit", "timeout", "error"}

(***************************************************************************)
(* The command that runs is the one the user asked for: the configured     *)
(* text with every placeholder replaced by a value that says what the user *)
(* said, whatever the client and the server made of it on the way, and by  *)
(* the configured default where the user said nothing; and it satisfies    *)
(* the configuration in force, even if the client checked an older one.    *)
(* Of two parameters of one name the last one counts.                      *)
(* A value that holds the text of another placeholder is substituted       *)
(* again, of two options that differ in case the first is run, and a       *)
(* placeholder with a letter outside ASCII is left as it stands.           *)
(***************************************************************************)
Says(p, raw, v) ==
    LET text == Trim(raw)
    IN  CASE p.type = "slider"   -> ParseInt(v) = ParseInt(text)
          [] p.type = "toggle"   -> ParseBool(v) = ParseBool(text)
          [] p.type = "dropdown" -> ToLower(v) = ToLower(text)
          [] p.type = "text"     -> v = text

RunsWhatWasAsked ==
    LET values == Validated(req.config.parameters, req.sent)
        params == req.config.parameters
        plain == \A n \in DOMAIN values : \A i \in DOMAIN values[n] : ~values[n][i].hole
        AtOnce(tok) == IF tok \in Captures(req.config.command)
                       THEN Escape(values[tok.t]) ELSE <<tok>>
    IN  pc = "ready" =>
          /\ \A n \in NamesOf(params) : ValidValue(LastOf(params, n), values[n])
          /\ \A n \in DOMAIN req.given : Says(LastOf(req.listed, n), req.given[n], values[n])
          /\ \A n \in NamesOf(params) \ DOMAIN req.given : values[n] \in LastOf(params, n).default
          /\ plain => req.command = FlattenSeq([i \in DOMAIN req.config.command |->
                                               AtOnce(req.config.command[i])])

(***************************************************************************)
(* The two checks agree: while the configuration stays what the client     *)
(* listed, the server runs what the client let through, and the client     *)
(* refuses nothing the server would have run.  The exceptions are          *)
(* configurations that pass the validation at start: a default that its    *)
(* own parameter refuses, an empty default (the client takes it for none), *)
(* a placeholder with a dash (never checked), a shell script that is not   *)
(* one-shot, a text whose surrounding blanks its pattern wants, and an     *)
(* option with blanks around it, which no input of the user can name.      *)
(***************************************************************************)
OddConfig ==
    \/ req.config.mode # "one_shot"
    \/ \E tok \in ToSet(req.config.command) :
          tok.hole /\ tok.t \in Dashed \ NamesOf(req.config.parameters)
    \/ \E i \in DOMAIN req.config.parameters :
          LET p == req.config.parameters[i]
          IN  p.name \notin DOMAIN req.given /\ \E d \in p.default : d = <<>> \/ ~ValidValue(p, d)

TrimmedValue ==
    \E i \in DOMAIN req.listed :
        LET p == req.listed[i]
        IN  /\ p.type \in {"text", "dropdown"} /\ p.name \in DOMAIN req.given
            /\ Trim(req.given[p.name]) # req.given[p.name]

ClientAndServerAgree ==
    pc \in {"clientRefused", "serverRefused"} =>
        \/ req.listed # FromProto(req.config.parameters)
        \/ ~ValidateCapability(req.config) \/ OddConfig
        \/ pc = "clientRefused" /\ (TrimmedValue \/ ~ServerRuns(req.config, req.given))

(***************************************************************************)
(* A client sees a well-formed session: Ready first, then output, then     *)
(* exactly one end (Exit or Error, never both), then Closed and nothing    *)
(* more.  The events come from three levels of error handling and two      *)
(* clones of the sender.  Per stream the lines come in the order they were *)
(* written and each at most once, although two readers share one channel   *)
(* and the timeout may drop a line in hand; and an Exit that is not marked *)
(* as a timeout means that /bin/sh has ended by itself.  After a timeout   *)
(* nothing is said of the process: a kill that fails is only logged.       *)
(***************************************************************************)
EventsInOrder ==
    \A i \in DOMAIN Sent :
        /\ (Sent[i].kind = "ready") <=> (i = 1)
        /\ Sent[i].kind \in Ends => \A j \in 1..(i - 1) : Sent[j].kind \in {"ready", "output"}
        /\ Sent[i].kind = "closed" => i = Len(Sent) /\ Sent[i - 1].kind \in Ends
        /\ Sent[i].kind = "output" => showOutput
LinesInOrder(st) ==
    /\ \A i, j \in LinesOf(st) : i < j => Sent[i].n < Sent[j].n
    /\ \A i \in LinesOf(st) : Sent[i].n <= taken[st]
ExitIsTrue ==
    \A i \in DOMAIN Sent : Sent[i].kind = "exit" => child = "exited"
WellFormedSession ==
    EventsInOrder /\ (\A st \in Streams : LinesInOrder(st)) /\ ExitIsTrue

(***************************************************************************)
(* Every run that was opened ends for the client, even when the command    *)
(* never ends and however much it writes.                                  *)
(***************************************************************************)
EveryRunEnds == pc = "ready" ~> LoopEnded

(***************************************************************************)
(* docs/PRD.md: "Server streams stdout/stderr chunks as they arrive" and   *)
(* "Server sends final exit_code as last message".  A run that ended by    *)
(* itself has read everything the command wrote.                           *)
(* The code does not keep this: README, section 6.                         *)
(***************************************************************************)
OutputIsComplete ==
    (\E i \in DOMAIN Sent : Sent[i].kind = "exit") => taken = written
=============================================================================
