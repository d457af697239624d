---------------------------- MODULE ConfigReload ----------------------------
(***************************************************************************)
(* The server's configuration from start to restart: the start itself      *)
(* (main.rs), the file watcher                                             *)
(* (config/watcher.rs), the update broadcaster (config/broadcaster.rs),    *)
(* the RPC handlers that read the configuration under its RwLock           *)
(* (grpc/server.rs), and clients that follow the updates over the          *)
(* WatchConfigUpdates stream or by polling GetConfigVersion.  No client in *)
(* the repository calls these two RPCs yet: Connect, Notified, Poll and    *)
(* Disconnect are the client docs/FEATURE_CONFIG_RELOAD.md describes, on   *)
(* top of the server's handlers.                                           *)
(*                                                                         *)
(* A configuration is the edit that wrote it: its number and its content,  *)
(* which module Configuration loads and validates.  The lock is            *)
(* std::sync::RwLock: a reader is kept out while a writer WAITS, not only  *)
(* while one holds the lock.                                               *)
(***************************************************************************)
EXTENDS Configuration

CONSTANTS Clients,   \* clients that list the capabilities and watch updates
          Enrolls,   \* Enroll and GenerateEnrollmentQR calls
          Files,     \* contents of the file by name; {} does not parse
          MaxEdits,  \* bound: how often the file is saved
          MaxRestarts, \* bound: restarts of the server
          Capacity   \* of a client's stream: the broadcast channel (100 in the
                     \* code) and the channel of the stream (32)

ASSUME ReloadAssumption ==
    /\ Clients \cap Enrolls = {}
    /\ MaxEdits \in Nat /\ MaxRestarts \in Nat
    /\ Capacity \in Nat \ {0}

Absent == "absent"
Contents == Files @@ ("default" :> {DefaultFile}) @@ (Absent :> {})
Loaded(k) == LoadConfig(CHOOSE f \in Contents[k] : TRUE)

Parsing == {k \in DOMAIN Contents : Contents[k] # {}}
Valid == {k \in Parsing : ValidateConfig(Loaded(k))}
Registering == {k \in Parsing : UniqueIds(Loaded(k).capabilities)}
Listing == {k \in Parsing : ListsAll(Loaded(k))}

VARIABLES
    file,      \* the last edit: its number and its content
    watched,   \* the watcher's watch is on the file that the path names
    missed,    \* history: the last edit raised no event
    restarts,
    event,     \* notify events are queued for the watcher
    pending,   \* pending_reload
    wpc,       \* where the server is in its start, or the watcher in reload_config
    loaded,    \* new_config
    config,    \* the configuration behind the lock
    version,   \* config_version
    readers,   \* the holders of a read guard
    epc,       \* where each Enroll call is
    cpc,       \* where each client is
    shown,     \* the configuration a client got from ListCapabilities
    label,     \* the config_version it got with it
    backlog    \* the notifications on its stream

watcher == <<watched, missed, restarts, pending, wpc, loaded, config, version>>
clients == <<cpc, shown, label, backlog>>
reloadVars == <<file, event, watcher, readers, epc, clients>>

ReloadInit ==
    /\ \E k \in DOMAIN Files \cup {Absent} : file = [n |-> 0, content |-> k]
    /\ watched = FALSE /\ missed = FALSE /\ restarts = 0
    /\ event = FALSE /\ pending = FALSE
    /\ wpc = "boot"
    /\ loaded = file /\ config = file
    /\ version = 1
    /\ readers = {}
    /\ epc = [e \in Enrolls |-> "start"]
    /\ cpc = [c \in Clients |-> "off"]
    /\ shown = [c \in Clients |-> 0]
    /\ label = [c \in Clients |-> 0]
    /\ backlog = [c \in Clients |-> <<>>]

-----------------------------------------------------------------------------
(* The user, the start of the server, and the watcher.                     *)

\* A save, complete or not, raises an event when it touches the watched file.
\* The watch is on the inode: renaming a new file over it, or renaming it away
\* before a new one is written, raises a last event and ends the watch.
EditFile ==
    /\ file.n < MaxEdits /\ wpc # "exited"
    /\ \E k \in DOMAIN Files \cup {Absent}, renamed \in BOOLEAN :
         /\ k = Absent => renamed
         /\ file' = [n |-> file.n + 1, content |-> k]
         /\ watched' = (watched /\ ~renamed)
    /\ event' = (event \/ watched)
    /\ missed' = (~watched /\ wpc # "boot")
    /\ UNCHANGED <<restarts, pending, wpc, loaded, config, version, readers, epc, clients>>

\* start_handcontrol_server: a missing file is generated, the file is loaded and validated.
Boot ==
    /\ wpc = "boot"
    /\ file' = IF file.content = Absent THEN [file EXCEPT !.content = "default"] ELSE file
    /\ IF file'.content \in Valid
       THEN config' = file' /\ wpc' = "starting"
       ELSE wpc' = "exited" /\ UNCHANGED config
    /\ UNCHANGED <<watched, missed, restarts, event, pending, loaded, version, readers, epc, clients>>

\* The watcher task starts watching, some time after the file was loaded.  When
\* that fails the task ends and the server runs on without it.
Watch ==
    /\ wpc = "starting"
    /\ \/ wpc' = "idle" /\ watched' = TRUE
       \/ wpc' = "unwatched" /\ UNCHANGED watched
    /\ UNCHANGED <<file, event, missed, restarts, pending, loaded, config, version, readers, epc, clients>>

\* The server is stopped and started; everything but the file is gone.
Restart ==
    /\ wpc \notin {"boot", "exited"} /\ restarts < MaxRestarts
    /\ restarts' = restarts + 1
    /\ wpc' = "boot"
    /\ watched' = FALSE /\ missed' = FALSE
    /\ event' = FALSE /\ pending' = FALSE
    /\ version' = 1
    /\ readers' = {}
    /\ epc' = [e \in Enrolls |-> IF epc[e] = "held" THEN "done" ELSE epc[e]]
    /\ cpc' = [c \in Clients |-> "off"]
    /\ backlog' = [c \in Clients |-> <<>>]
    /\ UNCHANGED <<file, loaded, config, shown, label>>

\* rx.recv() branch of the loop
RecvEvent ==
    /\ wpc = "idle" /\ event
    /\ event' = FALSE
    /\ pending' = TRUE
    /\ UNCHANGED <<file, watched, missed, restarts, wpc, loaded, config, version, readers, epc, clients>>

\* debounce_timer.tick() branch: load_config, which does not validate; a
\* file that does not parse is reported and the old configuration stays.
\* config_reload_allowed only decides on a warning.
Tick ==
    /\ wpc = "idle" /\ pending
    /\ IF file.content \in Parsing
       THEN loaded' = file /\ wpc' = "write" /\ UNCHANGED pending
       ELSE pending' = FALSE /\ UNCHANGED <<loaded, wpc>>
    /\ UNCHANGED <<file, event, watched, missed, restarts, config, version, readers, epc, clients>>

\* config.write() finds readers and waits for them.
WaitForReaders ==
    /\ wpc = "write" /\ readers # {}
    /\ wpc' = "waiting"
    /\ UNCHANGED <<file, event, watched, missed, restarts, pending, loaded, config, version, readers, epc, clients>>

\* Mutant: the configuration is replaced without waiting for its readers.
SwapUnlocked ==
    /\ wpc \in {"write", "waiting"}
    /\ config' = loaded
    /\ wpc' = "bump"
    /\ UNCHANGED <<file, event, watched, missed, restarts, pending, loaded, version, readers, epc, clients>>

\* config.write(), assignment, and the guard is dropped.
SwapConfig ==
    /\ wpc \in {"write", "waiting"} /\ readers = {}
    /\ config' = loaded
    /\ wpc' = "bump"
    /\ UNCHANGED <<file, event, watched, missed, restarts, pending, loaded, version, readers, epc, clients>>

BumpVersion ==
    /\ wpc = "bump"
    /\ version' = version + 1
    /\ wpc' = "broadcast"
    /\ UNCHANGED <<file, event, watched, missed, restarts, pending, loaded, config, readers, epc, clients>>

\* Mutant: a receiver that lags keeps the old notifications.
KeepOldest(s, v, i) == IF Len(s) < Capacity THEN Append(s, v) ELSE s

\* broadcast::Sender::send: a receiver that lags loses the OLDEST message
\* that watch_config_updates has not moved to the stream's own channel yet,
\* the i-th of the two channels together.
KeepNewest(s, v, i) ==
    IF Len(s) < Capacity THEN Append(s, v) ELSE Append(RemoveAt(s, i), v)


\* last_update, broadcast, and pending_reload = false in the loop.
Broadcast ==
    /\ wpc = "broadcast"
    /\ \E i \in [Clients -> 1..Capacity] :
         backlog' = [c \in Clients |-> IF cpc[c] = "off" THEN backlog[c]
                                      ELSE KeepNewest(backlog[c], version, i[c])]
    /\ wpc' = "idle"
    /\ pending' = FALSE
    /\ UNCHANGED <<file, event, watched, missed, restarts, loaded, config, version, readers, epc, cpc, shown, label>>

-----------------------------------------------------------------------------
(* The RPC handlers and their clients.                                     *)

\* A request reaches a server that is up, and whose lock no writer waits for.
CanRead == wpc \notin {"boot", "exited", "waiting"}

\* ensure_enrolled_client reads the configuration before any other handler
\* does its work, so CanRead guards those too.

\* enroll and generate_enrollment_qr return early: enrollment is disabled,
\* the token is refused, the client cannot be stored.
EnrollRefused(e) ==
    /\ epc[e] = "start" /\ CanRead
    /\ epc' = [epc EXCEPT ![e] = "done"]
    /\ UNCHANGED <<file, event, watcher, readers, clients>>

\* enroll and generate_enrollment_qr keep the guard of config.read() ...
EnrollLocks(e) ==
    /\ epc[e] = "start" /\ CanRead
    /\ readers' = readers \cup {e}
    /\ epc' = [epc EXCEPT ![e] = "held"]
    /\ UNCHANGED <<file, event, watcher, clients>>

\* ... while generate_relay_info calls config.read() again.
EnrollReadsAgain(e) ==
    /\ epc[e] = "held" /\ CanRead
    /\ readers' = readers \ {e}
    /\ epc' = [epc EXCEPT ![e] = "done"]
    /\ UNCHANGED <<file, event, watcher, clients>>

\* watch_config_updates subscribes, then the client lists the capabilities.
\* A version says nothing across connections: a restart counts from 1 again.
Connect(c) ==
    /\ cpc[c] = "off" /\ CanRead
    /\ backlog' = [backlog EXCEPT ![c] = <<>>]
    /\ cpc' = [cpc EXCEPT ![c] = "lock"]
    /\ label' = [label EXCEPT ![c] = 0]
    /\ UNCHANGED <<file, event, watcher, readers, epc, shown>>

Disconnect(c) ==
    /\ cpc[c] = "idle"
    /\ cpc' = [cpc EXCEPT ![c] = "off"]
    /\ backlog' = [backlog EXCEPT ![c] = <<>>]
    /\ UNCHANGED <<file, event, watcher, readers, epc, shown, label>>

\* A notification on the stream makes the client list again.
Notified(c) ==
    /\ cpc[c] = "idle" /\ backlog[c] # <<>>
    /\ backlog' = [backlog EXCEPT ![c] = Tail(@)]
    /\ cpc' = [cpc EXCEPT ![c] = "lock"]
    /\ UNCHANGED <<file, event, watcher, readers, epc, shown, label>>

\* get_config_version answers another version than the one the client holds.
Poll(c) ==
    /\ cpc[c] = "idle" /\ CanRead
    /\ version # label[c]
    /\ cpc' = [cpc EXCEPT ![c] = "lock"]
    /\ UNCHANGED <<file, event, watcher, readers, epc, shown, label, backlog>>

Listed == config.content \in Listing

\* list_capabilities on a configuration whose registry cannot be built: the
\* client keeps what it has.
ListFails(c) ==
    /\ cpc[c] = "lock" /\ CanRead
    /\ config.content \notin Registering
    /\ cpc' = [cpc EXCEPT ![c] = "idle"]
    /\ UNCHANGED <<file, event, watcher, readers, epc, shown, label, backlog>>

\* list_capabilities: take the guard, build the registry from the
\* configuration, then load the version while the guard is held.  An answer
\* the client cannot read changes nothing for it.
ListLocks(c) ==
    /\ cpc[c] = "lock" /\ CanRead
    /\ config.content \in Registering
    /\ readers' = readers \cup {c}
    /\ shown' = [shown EXCEPT ![c] = IF Listed THEN config.n ELSE @]
    /\ cpc' = [cpc EXCEPT ![c] = "read"]
    /\ UNCHANGED <<file, event, watcher, epc, label, backlog>>

ListAnswers(c) ==
    /\ cpc[c] = "read"
    /\ label' = [label EXCEPT ![c] = IF Listed THEN version ELSE @]
    /\ readers' = readers \ {c}
    /\ cpc' = [cpc EXCEPT ![c] = "idle"]
    /\ UNCHANGED <<file, event, watcher, epc, shown, backlog>>

-----------------------------------------------------------------------------
WatcherStep == Boot \/ Watch \/ RecvEvent \/ Tick \/ WaitForReaders \/ SwapConfig \/ BumpVersion \/ Broadcast
ClientStep(c) == Notified(c) \/ Poll(c) \/ ListFails(c) \/ ListLocks(c) \/ ListAnswers(c)
EnrollStep(e) == EnrollRefused(e) \/ EnrollLocks(e) \/ EnrollReadsAgain(e)

ReloadNext ==
    \/ EditFile \/ Restart \/ WatcherStep
    \/ \E c \in Clients : ClientStep(c) \/ Connect(c) \/ Disconnect(c)
    \/ \E e \in Enrolls : EnrollStep(e)

\* The watcher's timer ticks, a client polls every 30 seconds, the runtime
\* runs the handlers; nobody has to edit, restart, connect or disconnect.  The tick
\* has its own fairness: select! polls its branches in random order, so a
\* stream of events does not starve the timer.
Fairness ==
    /\ WF_reloadVars(WatcherStep) /\ WF_reloadVars(RecvEvent) /\ WF_reloadVars(Tick)
    /\ \A c \in Clients : WF_reloadVars(ClientStep(c))
    /\ \A e \in Enrolls : WF_reloadVars(EnrollStep(e))

ReloadSpec == ReloadInit /\ [][ReloadNext]_reloadVars
FairSpec == ReloadSpec /\ Fairness

-----------------------------------------------------------------------------
(***************************************************************************)
(* docs/FEATURE_CONFIG_RELOAD.md:142, of the reload: "If invalid: Log      *)
(* error, keep old config".  The configuration in force is always valid.   *)
(* The code does not keep this: reload_config parses and never validates.  *)
(***************************************************************************)
OnlyValidInForce == CanRead => config.content \in Valid

(***************************************************************************)
(* A version identifies a configuration: a client whose version is the     *)
(* server's has the server's configuration, so comparing versions, as the  *)
(* polling client does, never hides an update.  The swap and the increment *)
(* are two steps; only between them may the two disagree.                  *)
(***************************************************************************)
SameVersionSameConfig ==
    \A c \in Clients :
        cpc[c] = "idle" /\ label[c] = version /\ wpc # "bump" => shown[c] = config.n

(***************************************************************************)
(* A lagging stream still tells the client of the last reload: the newest  *)
(* notification is on its backlog until the client lists again, or the     *)
(* client has that version already.  A configuration that cannot be listed *)
(* leaves the client with an older one and no notification.                *)
(***************************************************************************)
NewestIsNotified ==
    \A c \in Clients :
        cpc[c] = "idle" /\ wpc \notin {"bump", "broadcast"} /\ Listed /\ label[c] # version =>
            /\ backlog[c] # <<>>
            /\ backlog[c][Len(backlog[c])] = version

\* A handler that holds the lock for reading asks for it a second time while
\* the watcher waits for it: neither moves again.
Deadlocked == wpc = "waiting" /\ \E e \in Enrolls : epc[e] = "held"

FollowsFile ==
    /\ config.n = file.n
    /\ Listed => \A c \in Clients : cpc[c] = "idle" => shown[c] = file.n


(***************************************************************************)
(* docs/FEATURE_CONFIG_RELOAD.md:680-682: "Watcher blocks on write lock    *)
(* until all readers finish", the reader "finishes reading, releases lock" *)
(* and "Watcher acquires write lock, swaps config".  A reload that waits   *)
(* for the readers goes on.                                                *)
(* The code does not keep this: a handler that reads a second time waits   *)
(* behind the watcher that waits for it.                                   *)
(***************************************************************************)
WatcherGetsLock == wpc = "waiting" ~> wpc # "waiting"

(***************************************************************************)
(* docs/FEATURE_CONFIG_RELOAD.md:137-141: "User saves config.toml", "File  *)
(* watcher detects change", "If valid: Swap RwLock<Config> with new        *)
(* config".  The last save of a valid file is put in force, unless the     *)
(* watcher could not be started or waits for the lock for good.            *)
(* The code does not keep this: the watch begins after the load, and it is *)
(* on the inode, not on the path; README, section 6.                       *)
(***************************************************************************)
SavesTakeEffect ==
    <>[](\/ Deadlocked \/ wpc \in {"exited", "unwatched"}
         \/ file.content \in Valid => config.n = file.n)
=============================================================================
