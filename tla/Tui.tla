-------------------------------- MODULE Tui --------------------------------
(***************************************************************************)
(* The terminal user interface (tui/src/main.rs): one App, changed by one  *)
(* loop that takes keys and the events of its tasks from a queue.          *)
(*                                                                         *)
(* A task never reads the App, so an event that waits in the queue is a    *)
(* task that has not sent it yet: the model takes an event from its task   *)
(* and handles it in one step.  A key is pressed by somebody who looks at  *)
(* the screen, and handled later; what it was pressed on is kept with it.  *)
(* Keys that are typed ahead wait behind it; such a key is meant for the   *)
(* screen the key before it leaves.  The loop waits while it removes a     *)
(* server, the input thread and the enrollment task do not: both rewrite   *)
(* servers.toml from a copy they have read.  Texts and cursors are left    *)
(* out, and which machine answers under a server's id.                     *)
(***************************************************************************)
EXTENDS Naturals, FiniteSets, Sequences, SequencesExt

CONSTANTS Order,      \* the servers, in the order of their labels
          Anonymous,  \* servers that are discovered without an id
          Unmatched,  \* those of them whose entry has not their instance name
          Found,      \* the sets of servers a discovery may find
          Lists,      \* the command lists a server may answer with
          Filters,    \* the sets of tags a search or a tag may leave visible
          MaxTasks,   \* bound: tasks at a time
          MaxKeys,    \* bound: keys that wait; the channel has none
          None

Servers == ToSet(Order)

ASSUME TuiAssumption ==
    /\ Order \in Seq(Servers)
    /\ Found \subseteq SUBSET Servers
    /\ Unmatched \subseteq Anonymous /\ Anonymous \subseteq Servers
    /\ {MaxTasks, MaxKeys} \subseteq Nat
    /\ None \notin Servers

VARIABLES
    quit,         \* the loop has ended
    stored,       \* the servers in servers.toml
    registry,     \* App.registry: the servers that were in it when it was read
    discovered,
    sel,          \* App.selected_server, from 1; 0 when there is none
    focus,
    overlay,
    removal,      \* remove_server between its load and its save
    list,         \* App.command_state
    pending,      \* App.pending_command_server
    loads,        \* requests for a command list on their way: to which server
    discovering,  \* App.discovery_in_progress
    enrolling,    \* App.enrollment_in_progress
    etask,        \* the enrollment task
    runs,         \* execution tasks, numbered
    esc,          \* App.pending_escape
    waiting,      \* how many keys wait to be handled
    key           \* history: what the first of them was meant for

servers == <<stored, registry, discovered, sel, removal>>
commands == <<list, pending, loads>>
tasks == <<discovering, enrolling, etask, runs>>
typed == <<waiting, key>>
vars == <<quit, servers, focus, overlay, commands, tasks, esc, typed>>

Closed == [kind |-> "none"]
NoTask == [server |-> None, step |-> "none", copy |-> {}]
EmptyList == [server |-> None, cmds |-> <<>>, selected |-> 0, filter |-> UNION Filters,
              loading |-> FALSE]

\* The loop is at its recv.
Idle == ~quit /\ removal = None

\* The bound on tasks.
MayStart == Len(loads) + Cardinality(runs) + (IF discovering THEN 1 ELSE 0)
              + (IF etask = NoTask THEN 0 ELSE 1) < MaxTasks

-----------------------------------------------------------------------------
(* The server pane.                                                        *)

\* The places of the list, before any is left out: each server as an
\* enrolled one, then as a discovered one.
Places == [k \in 1 .. 2 * Len(Order) |->
              [server |-> Order[(k + 1) \div 2], enrolled |-> k % 2 = 1]]

\* rebuild_servers: an enrolled server absorbs the discovery with its id,
\* or with its instance name.
Items(reg, disc) ==
    LET Shown(i) == IF i.enrolled THEN i.server \in reg
                    ELSE i.server \in disc /\ (i.server \in reg => i.server \in Unmatched)
        shown == {k \in DOMAIN Places : Shown(Places[k])}
        rank(k) == Cardinality({j \in shown : j <= k})
    IN  [n \in 1 .. Cardinality(shown) |-> Places[CHOOSE k \in shown : rank(k) = n]]

\* The index is kept, whatever is at that place now.
Reselect(items) == IF items = <<>> THEN 0
                   ELSE IF sel \in 1 .. Len(items) THEN sel ELSE 1

Rebuild(reg, disc) ==
    /\ registry' = reg /\ discovered' = disc
    /\ sel' = Reselect(Items(reg, disc))

Item == IF sel = 0 THEN [server |-> None, enrolled |-> FALSE]
        ELSE Items(registry, discovered)[sel]

\* find_server_index: the first item with that id
Find(s) ==
    LET items == Items(registry, discovered)
        found == {i \in DOMAIN items : items[i].server = s
                     /\ (items[i].enrolled \/ s \notin Anonymous)}
    IN  IF found = {} THEN 0 ELSE CHOOSE i \in found : \A j \in found : i <= j

-----------------------------------------------------------------------------
(* The command pane.                                                       *)

Filtered(l) == {i \in DOMAIN l.cmds : l.cmds[i].tag \in l.filter}
First(l) == IF Filtered(l) = {} THEN 0
            ELSE CHOOSE i \in Filtered(l) : \A j \in Filtered(l) : i <= j
Last2(l) == CHOOSE i \in Filtered(l) : \A j \in Filtered(l) : j <= i

ReapplyFilters(l) == IF l.selected \in Filtered(l) THEN l
                     ELSE [l EXCEPT !.selected = First(l)]

\* set_command_list: the search and the tag stay.
SetCommandList(l, s, cs) ==
    ReapplyFilters([l EXCEPT !.server = s, !.cmds = cs, !.loading = FALSE,
                             !.selected = IF cs = <<>> THEN 0 ELSE 1])

\* select_next, select_previous: round the visible ones
SelectNext(l) ==
    LET after == {i \in Filtered(l) : i > l.selected}
    IN  [l EXCEPT !.selected =
            IF after = {} THEN First(l) ELSE CHOOSE i \in after : \A j \in after : i <= j]
SelectPrevious(l) ==
    LET before == {i \in Filtered(l) : i < l.selected}
    IN  [l EXCEPT !.selected =
            IF before = {} THEN Last2(l) ELSE CHOOSE i \in before : \A j \in before : j <= i]

Selected(l) == IF l.selected = 0 THEN None ELSE l.cmds[l.selected]

Init ==
    /\ quit = FALSE
    /\ stored \in SUBSET Servers /\ registry = stored /\ discovered = {}
    /\ sel = (IF stored = {} THEN 0 ELSE 1) /\ removal = None
    /\ focus = "servers" /\ overlay = Closed
    /\ list = EmptyList /\ pending = None /\ loads = <<>>
    /\ discovering \in BOOLEAN                  \* discovery.auto_discover
    /\ enrolling = FALSE /\ etask = NoTask
    /\ runs = {}
    /\ esc = "none" /\ waiting = 0 /\ key = None

-----------------------------------------------------------------------------
(* What the tasks send, and handle_task_event.                             *)

DiscoveryFinished ==
    /\ Idle /\ discovering
    /\ discovering' = FALSE
    /\ \/ \E disc \in Found : Rebuild(registry, disc)
       \/ UNCHANGED <<registry, discovered, sel>>
    /\ UNCHANGED <<quit, stored, removal, focus, overlay, commands, enrolling, etask, runs,
                   esc, typed>>

\* A key that waits was pressed on another list.
NotFresh ==
    /\ key' = IF waiting = 0 THEN None ELSE [key EXCEPT !.fresh = FALSE]
    /\ UNCHANGED waiting

\* Mutant: a failed request does not end the loading.
ListFailedStays ==
    UNCHANGED <<list, pending, sel, focus, typed>>

ListFailed ==
    /\ list' = [list EXCEPT !.loading = FALSE]
    /\ pending' = None
    /\ UNCHANGED <<sel, focus, typed>>

ListLoaded(s, cs) ==
    /\ list' = SetCommandList(list, s, cs)
    /\ pending' = None
    /\ sel' = IF Find(s) = 0 THEN sel ELSE Find(s)
    /\ focus' = "commands"
    /\ NotFresh

\* Mutant: every answer is taken.
AnyAnswerIgnored(s) == FALSE

\* An answer is ignored when that of another server is waited for.
AnswerIgnored(s) == pending \notin {None, s}

\* CommandListLoaded; the answers come in any order.
ListAnswered ==
    /\ Idle
    /\ \E i \in DOMAIN loads :
         /\ loads' = RemoveAt(loads, i)
         /\ IF AnswerIgnored(loads[i]) THEN UNCHANGED <<list, pending, sel, focus, typed>>
            ELSE (\E cs \in Lists : ListLoaded(loads[i], cs)) \/ ListFailed
    /\ UNCHANGED <<quit, stored, registry, discovered, removal, overlay, tasks, esc>>

\* The execution overlay that an event of this run is for.
IsFor(r) == overlay.kind = "run" /\ overlay.server = r.server /\ overlay.cmd = r.cmd

\* Started, then lines: output is cleared, then filled.
RunStarted ==
    /\ Idle
    /\ \E r \in runs :
         /\ ~r.started
         /\ runs' = (runs \ {r}) \cup {[r EXCEPT !.started = TRUE]}
         /\ overlay' = IF IsFor(r) THEN [overlay EXCEPT !.running = TRUE, !.output = {}]
                       ELSE overlay
    /\ UNCHANGED <<quit, servers, focus, commands, discovering, enrolling, etask, esc, typed>>

RunOutput ==
    /\ Idle
    /\ \E r \in runs :
         /\ r.started /\ IsFor(r)
         /\ overlay' = [overlay EXCEPT !.output = @ \cup {r.n}]
    /\ UNCHANGED <<quit, servers, focus, commands, tasks, esc, typed>>

RunFinished ==
    /\ Idle
    /\ \E r \in runs :
         /\ r.started
         /\ runs' = runs \ {r}
         /\ overlay' = IF IsFor(r) THEN [overlay EXCEPT !.running = FALSE, !.output = @ \cup {r.n}]
                       ELSE overlay
    /\ UNCHANGED <<quit, servers, focus, commands, discovering, enrolling, etask, esc, typed>>

\* The events of an enrollment say nothing of the server: any enrollment
\* overlay takes them.
ShowEnrollment(step) ==
    overlay' = IF overlay.kind # "enroll" THEN overlay
               ELSE [overlay EXCEPT !.step = step, !.of = @ \cup {etask.server}]

\* Started, Progress, VerificationCode
EnrollmentProgress ==
    /\ Idle /\ etask.step \in {"spawned", "started"}
    /\ etask' = [etask EXCEPT !.step = IF @ = "spawned" THEN "started" ELSE "coded"]
    /\ ShowEnrollment("approval")
    /\ UNCHANGED <<quit, servers, focus, commands, discovering, enrolling, runs, esc, typed>>

\* The enrollment itself (ClientStore) ends with an upsert in servers.toml:
\* read, changed and written by the task while the loop goes on.  With a QR
\* code the entry goes under the id of the selected server; without one,
\* under the id of the payload.
EnrollmentLoads ==
    /\ ~quit /\ etask.step \in {"coded", "submitted"}
    /\ \E s \in IF etask.step = "submitted" /\ etask.server \in Anonymous
                THEN Servers ELSE {etask.server} :
          etask' = [etask EXCEPT !.step = "loaded", !.copy = stored \cup {s}]
    /\ UNCHANGED <<quit, servers, focus, overlay, commands, discovering, enrolling, runs, esc,
                   typed>>

\* What a save that fails may leave of the entries it writes: fs::write
\* empties the file first.  A file cut within an entry is not read any more;
\* every load may fail.
CutShort(entries) == {stored} \cup SUBSET entries

EnrollmentSaves ==
    /\ ~quit /\ etask.step = "loaded"
    /\ \/ stored' = etask.copy /\ etask' = [etask EXCEPT !.step = "done", !.copy = {}]
       \/ stored' \in CutShort(etask.copy) /\ etask' = [etask EXCEPT !.step = "broken", !.copy = {}]
    /\ UNCHANGED <<quit, registry, discovered, sel, removal, focus, overlay, commands, discovering,
                   enrolling, runs, esc, typed>>

\* Completed: the registry is read again, if it can be.
EnrollmentCompleted ==
    /\ Idle /\ etask.step = "done"
    /\ etask' = NoTask /\ enrolling' = FALSE
    /\ ShowEnrollment("completed")
    /\ \/ Rebuild(stored, discovered)
       \/ UNCHANGED <<registry, discovered, sel>>
    /\ UNCHANGED <<quit, stored, removal, focus, commands, discovering, runs, esc, typed>>

EnrollmentFailed ==
    /\ Idle /\ etask.step \in {"started", "coded", "submitted", "broken"}
    /\ etask' = NoTask /\ enrolling' = FALSE
    /\ ShowEnrollment("error")
    /\ UNCHANGED <<quit, servers, focus, commands, discovering, runs, esc, typed>>

-----------------------------------------------------------------------------
(* handle_key_event without an overlay.                                    *)

\* Enter on a server: begin_command_load keeps the old list on the screen.
LoadCommands ==
    /\ Item.enrolled /\ ~list.loading
    /\ MayStart
    /\ list' = [list EXCEPT !.loading = TRUE]
    /\ pending' = Item.server
    /\ loads' = Append(loads, Item.server)
    /\ UNCHANGED <<quit, servers, focus, tasks>>

\* begin_command_execution
BeginExecution(s, c) ==
    LET n == CHOOSE m \in 1 .. MaxTasks : \A r \in runs : r.n # m IN
    /\ MayStart
    /\ runs' = runs \cup {[n |-> n, server |-> s, cmd |-> c, started |-> FALSE]}
    /\ overlay' = [kind |-> "run", server |-> s, cmd |-> c, n |-> n,
                   running |-> TRUE, output |-> {}]
    /\ UNCHANGED <<quit, servers, focus, commands, discovering, enrolling, etask>>

\* trigger_command_activation: on the server of the list, if it is enrolled.
ActivateCommand ==
    /\ Filtered(list) # {}
    /\ LET c == Selected(list) IN
       /\ c.oneshot
       /\ list.server \in registry
       /\ IF c.form
          THEN /\ overlay' = [kind |-> "form", server |-> list.server, cmd |-> c, editing |-> FALSE]
               /\ UNCHANGED <<quit, servers, focus, commands, tasks>>
          ELSE BeginExecution(list.server, c)

\* trigger_enrollment
OpenEnrollment ==
    /\ ~enrolling
    /\ Item.server # None /\ ~Item.enrolled
    /\ overlay' = [kind |-> "enroll", server |-> Item.server, step |-> "method", of |-> {}]

\* open_remove_prompt
OpenPrompt ==
    /\ Item.enrolled
    /\ overlay' = [kind |-> "prompt", server |-> Item.server]

\* The loop ends, and the App and its tasks with it.
Exit ==
    /\ quit' = TRUE
    /\ registry' = {} /\ discovered' = {} /\ sel' = 0 /\ removal' = None
    /\ focus' = "servers" /\ overlay' = Closed
    /\ list' = EmptyList /\ pending' = None /\ loads' = <<>>
    /\ discovering' = FALSE /\ enrolling' = FALSE /\ etask' = NoTask /\ runs' = {}

\* move_selection_up and _down stop at the ends; toggle_focus
Move(k) ==
    /\ \/ /\ k \in {"Up", "Down"} /\ focus = "servers" /\ sel # 0
          /\ sel' = IF k = "Up" THEN (IF sel > 1 THEN sel - 1 ELSE sel)
                    ELSE IF sel < Len(Items(registry, discovered)) THEN sel + 1 ELSE sel
          /\ UNCHANGED <<focus, list>>
       \/ /\ k \in {"Up", "Down"} /\ focus = "commands" /\ Filtered(list) # {}
          /\ list' = IF k = "Up" THEN SelectPrevious(list) ELSE SelectNext(list)
          /\ UNCHANGED <<focus, sel>>
       \/ /\ k \in {"Tab", "Left", "Right"}
          /\ focus' = IF k = "Left" \/ (k = "Tab" /\ focus = "commands") THEN "servers"
                      ELSE IF list.cmds = <<>> THEN focus ELSE "commands"
          /\ UNCHANGED <<sel, list>>
    /\ UNCHANGED <<quit, stored, registry, discovered, removal, pending, loads, tasks>>

MainKey(k) ==
    \/ k = "q" /\ Exit /\ UNCHANGED stored
    \/ /\ k = "d" /\ MayStart /\ discovering' = TRUE    \* trigger_discovery
       /\ UNCHANGED <<quit, servers, focus, commands, enrolling, etask, runs>>
       /\ overlay' = Closed
    \/ /\ \/ k = "e" /\ OpenEnrollment
          \/ k = "r" /\ OpenPrompt
          \/ k = "/" /\ list.cmds # <<>> /\ overlay' = [kind |-> "search"]
          \/ k = "t" /\ list.cmds # <<>> /\ overlay' = [kind |-> "tags"]
       /\ UNCHANGED <<quit, servers, focus, commands, tasks>>
    \/ k \in {"Enter", "Submit"} /\ focus = "servers" /\ LoadCommands /\ overlay' = Closed
    \/ k \in {"Enter", "Submit"} /\ focus = "commands" /\ ActivateCommand
    \/ k = "x" /\ ActivateCommand
    \/ Move(k) /\ overlay' = Closed

-----------------------------------------------------------------------------
(* handle_overlay_value.  An overlay that is not closed or replaced stays. *)

\* A key that confirms the removal begins RemovalLoads.
PromptKey(k, o) ==
    \/ /\ k \in {"y", "Enter", "Submit"}          \* servers.toml cannot be read
       /\ Exit /\ UNCHANGED stored
    \/ /\ k = "n" /\ overlay' = Closed
       /\ UNCHANGED <<quit, servers, focus, commands, tasks>>

\* handle_search_overlay_key, handle_tag_overlay_event
FilterKey(k, o) ==
    /\ k \in {"Enter", "Submit"}
    /\ \E f \in Filters :
         LET l == ReapplyFilters([list EXCEPT !.filter = f])
         IN  list' = IF o.kind = "search" /\ First(l) # 0 THEN [l EXCEPT !.selected = First(l)] ELSE l
    /\ overlay' = Closed
    /\ UNCHANGED <<quit, servers, focus, pending, loads, tasks>>

\* handle_parameter_overlay_event: values that do not validate, or a server
\* that is no longer enrolled, leave the form open.
FormKey(k, o) ==
    \/ k = "Submit" /\ o.server \in registry /\ BeginExecution(o.server, o.cmd)
    \/ /\ k \in {"Submit", "Enter"}
       /\ overlay' = [o EXCEPT !.editing = k = "Enter" /\ ~@]
       /\ UNCHANGED <<quit, servers, focus, commands, tasks>>

\* start_approval_enrollment, start_qr_enrollment
StartEnrollment(o, step, task) ==
    /\ ~enrolling /\ MayStart
    /\ enrolling' = TRUE
    /\ etask' = [server |-> o.server, step |-> task, copy |-> {}]
    /\ overlay' = [o EXCEPT !.step = step]
    /\ UNCHANGED <<quit, servers, focus, commands, discovering, runs>>

\* handle_enrollment_overlay_event; a payload that is empty, does not parse
\* or has expired is refused.
EnrollKey(k, o) ==
    \/ o.step = "method" /\ k = "a" /\ StartEnrollment(o, "approval", "spawned")
    \/ o.step = "qr" /\ k \in {"Enter", "Submit"} /\ StartEnrollment(o, "progress", "submitted")
    \/ /\ \/ o.step = "method" /\ k = "q" /\ overlay' = [o EXCEPT !.step = "qr"]
          \/ o.step \in {"completed", "error"} /\ k \in {"Enter", "Submit"} /\ overlay' = Closed
       /\ UNCHANGED <<quit, servers, focus, commands, tasks>>

\* A key that means nothing here, or is refused.
Stays(o) == overlay' = o /\ UNCHANGED <<quit, servers, focus, commands, tasks>>

HandleKey(k, o) ==
    \/ k = "Ctrl+C" /\ Exit /\ UNCHANGED stored
    \/ o.kind = "none" /\ MainKey(k)
    \/ o.kind = "prompt" /\ PromptKey(k, o)
    \/ o.kind \in {"search", "tags"} /\ FilterKey(k, o)
    \/ o.kind = "form" /\ FormKey(k, o)
    \/ o.kind = "enroll" /\ EnrollKey(k, o)

\* Mutant: the output of a command that is running can be closed.
AfterEscAlways(o) ==
    IF o.kind = "form" /\ o.editing THEN [o EXCEPT !.editing = FALSE] ELSE Closed

\* What Esc makes of each overlay.
AfterEsc(o) ==
    CASE o.kind = "form" /\ o.editing -> [o EXCEPT !.editing = FALSE]
      [] o.kind = "run" /\ o.running -> o
      [] OTHER -> Closed

-----------------------------------------------------------------------------
(* handle_input_event, expand_key_event.                                   *)

Arrows == {"Up", "Down", "Left", "Right"}
Chars == {"q", "d", "e", "r", "/", "t", "x", "y", "n", "a"}
Keys == Arrows \cup Chars \cup {"Tab", "Enter", "Submit", "Ctrl+C"}

\* What the screen offers to act on: a form or a prompt, or without an
\* overlay the command that is marked.
Screen == CASE overlay.kind \in {"form", "prompt"} -> overlay
            [] overlay.kind = "none" ->
                   [kind |-> "none", server |-> list.server, cmd |-> Selected(list)]
            [] OTHER -> [kind |-> overlay.kind]

\* The input thread; its channel is not bounded.
Press ==
    /\ ~quit /\ waiting < MaxKeys
    /\ waiting' = waiting + 1
    /\ key' = IF waiting = 0 THEN [seen |-> Screen, fresh |-> TRUE] ELSE key
    /\ UNCHANGED <<quit, servers, focus, overlay, commands, tasks, esc>>

\* A key has been handled: the next one finds the screen it leaves.
TakeKey ==
    /\ waiting' = waiting - 1
    /\ key' = IF waiting = 1 THEN None ELSE [seen |-> Screen', fresh |-> TRUE]

\* Esc waits for the next key, or for its own release: it may begin an
\* arrow.  After Esc and a bracket, characters are taken until an arrow or
\* a key that is none.
Input ==
    /\ Idle /\ waiting > 0
    /\ \/ esc' = "esc" /\ Stays(overlay)
       \/ esc = "esc" /\ esc' = "seq" /\ Stays(overlay)
       \/ esc = "seq" /\ UNCHANGED esc /\ Stays(overlay)
       \/ /\ esc = "seq" /\ esc' = "none"
          /\ (\E k \in Arrows : HandleKey(k, overlay)) \/ Stays(overlay)
       \/ /\ esc' = "none"
          /\ LET o == IF esc = "none" THEN overlay ELSE AfterEsc(overlay)
             IN  \/ \E k \in IF esc = "seq" THEN Keys \ Chars ELSE Keys : HandleKey(k, o)
                 \/ Stays(o)
    /\ TakeKey

\* Mutant: the prompt removes the server that is selected now.
RemovalLoadsSelected ==
    /\ Idle /\ waiting > 0 /\ esc = "none" /\ overlay.kind = "prompt"
    /\ removal' = [server |-> Item.server, read |-> stored]
    /\ UNCHANGED <<quit, stored, registry, discovered, sel, focus, overlay, commands, tasks, esc,
                   typed>>

\* The key confirms the prompt.  remove_server: the file is read ...
RemovalLoads ==
    /\ Idle /\ waiting > 0 /\ esc = "none" /\ overlay.kind = "prompt"
    /\ removal' = [server |-> overlay.server, read |-> stored]
    /\ UNCHANGED <<quit, stored, registry, discovered, sel, focus, overlay, commands, tasks, esc,
                   typed>>

\* ... and written without the server; the lists are cleared and built again.
\* A write that fails ends the program.
RemovalSaves ==
    /\ removal # None
    /\ LET rest == removal.read \ {removal.server} IN
       \/ /\ stored' = rest
          /\ removal' = None
          /\ Rebuild(rest, discovered)
          /\ list' = EmptyList /\ pending' = None      \* clear_commands
          /\ overlay' = Closed
          /\ UNCHANGED <<quit, focus, loads, tasks>>
       \/ stored' \in CutShort(rest) /\ Exit
    /\ TakeKey
    /\ UNCHANGED esc

Next ==
    \/ DiscoveryFinished \/ ListAnswered \/ RunStarted \/ RunOutput \/ RunFinished
    \/ EnrollmentProgress \/ EnrollmentLoads \/ EnrollmentSaves
    \/ EnrollmentCompleted \/ EnrollmentFailed
    \/ Press \/ Input \/ RemovalLoads \/ RemovalSaves

Spec == Init /\ [][Next]_vars

-----------------------------------------------------------------------------
(***************************************************************************)
(* A key does what it was meant for, although events of tasks are handled  *)
(* before it and may replace the lists under an overlay.  It is meant for  *)
(* the screen it was pressed on or, typed ahead, for the one the key       *)
(* before it left, drawn or not.  The server that is removed is the one of *)
(* the prompt, and of the entries that were read no other is lost (one     *)
(* that the enrollment task wrote since then is).  A command that is       *)
(* started is the one of the form or the one that was marked, on the       *)
(* server the list came from.  Two exceptions: a new command list arrived  *)
(* before the key, and an Esc that had been held back closed the overlay.  *)
(***************************************************************************)
ActsOnWhatIsShown ==
    [][waiting' < waiting =>
        /\ removal # None /\ ~quit' =>
              removal.read \ stored' = {key.seen.server} \cap removal.read
        /\ removal = None => stored' = stored
        /\ runs' \ runs # {} /\ esc = "none" /\ (key.fresh \/ key.seen.kind = "form") =>
              overlay'.server = key.seen.server /\ overlay'.cmd = key.seen.cmd]_vars

(***************************************************************************)
(* An overlay shows the task it was opened for: the output and the end of  *)
(* a run are of that run, not of an earlier one of the same command, and   *)
(* the steps of an enrollment are of that server's.  Events name at most   *)
(* the server and the command.                                             *)
(***************************************************************************)
ShowsItsOwnTask ==
    /\ overlay.kind = "run" =>
          /\ overlay.output \subseteq {overlay.n}
          /\ overlay.running <=> \E r \in runs : r.n = overlay.n
    /\ overlay.kind = "enroll" => overlay.of \subseteq {overlay.server}

(***************************************************************************)
(* From Enter on a server to its answer the command pane keeps what it     *)
(* shows, and the next list it shows is that server's: a request that was  *)
(* forgotten by a removal and is answered meanwhile neither replaces the   *)
(* list nor ends the wait, and no second request takes the place of the    *)
(* first.  A removal gives the wait up.  (When nothing is awaited any      *)
(* more, a forgotten request's answer is shown: README, section 6.)        *)
(***************************************************************************)
PaneKeepsUntilAnswer ==
    [][pending # None /\ ~quit' =>
        \/ UNCHANGED <<pending, list.server, list.cmds>>
        \/ removal # None
        \/ /\ \E i \in DOMAIN loads : loads[i] = pending /\ loads' = RemoveAt(loads, i)
           /\ pending' = None
           /\ list'.server = pending \/ UNCHANGED <<list.server, list.cmds>>]_vars

(***************************************************************************)
(* What the App takes to be in progress is in progress: a flag that makes  *)
(* it refuse the next enrollment or the next request for commands has a    *)
(* task behind it that will clear it, whatever the user removed, closed or *)
(* asked for meanwhile and whichever answers were ignored.                 *)
(***************************************************************************)
BusyHasTask ==
    /\ enrolling <=> etask # NoTask
    /\ list.loading <=> pending # None
    /\ pending # None => pending \in ToSet(loads)
=============================================================================
