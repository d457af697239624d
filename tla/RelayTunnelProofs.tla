------------------------- MODULE RelayTunnelProofs -------------------------
(***************************************************************************)
(* Proofs about RelayTunnel, for every set of requests.                    *)
(*                                                                         *)
(* The properties are not inductive: what a handler owns, and which slots  *)
(* may be full, follows from how far the handlers have come.  The          *)
(* inductive invariant IInv says so, one conjunct per resource.            *)
(***************************************************************************)
EXTENDS RelayTunnel, TLAPS

\* The handler still owns the socket it was started with.
PrePut == {"start", "notify_server", "send_ack", "verify", "recv_ready",
           "mark", "notify_ready", "put"}
\* The handler owns the client's socket, between two lock sections.
HasClient == {"take_server", "restore"}

HeldInv ==
    \A h \in Handlers :
        held[h] = IF pc[h] \in PrePut THEN {h}
                  ELSE IF pc[h] \in HasClient THEN {Client} ELSE {}

Pairs == active \cup ended

\* Where the client's socket is.
ClientInv ==
    /\ pc[Client] \in PrePut =>
          /\ client_ws = NoSocket /\ Client \notin closed /\ Pairs = {}
          /\ \A h \in Handlers : pc[h] \notin HasClient
    /\ \A h \in Handlers : pc[h] \in HasClient =>
          /\ client_ws = NoSocket /\ Client \notin closed /\ Pairs = {}
          /\ \A g \in Handlers : pc[g] \in HasClient => g = h
    /\ client_ws = Client => Client \notin closed /\ Pairs = {}
    /\ active # {} => Client \notin closed
    /\ \/ pc[Client] \in PrePut
       \/ client_ws = Client
       \/ \E h \in Handlers : pc[h] \in HasClient
       \/ Client \in closed
       \/ active # {}

\* Where the socket of a /tunnel request is.
ServerInv ==
    \A s \in Requests :
        /\ pc[s] \in PrePut =>
              s # server_ws /\ s \notin closed /\ \A p \in Pairs : p[2] # s
        /\ server_ws = s => s \notin closed /\ \A p \in Pairs : p[2] # s
        /\ \A p \in active : p[2] = s => s \notin closed
        /\ pc[s] \notin PrePut =>
              s \in closed \/ server_ws = s \/ \E p \in active : p[2] = s

\* What the one-time secret guarantees.
SecretInv ==
    /\ secret => /\ server_ws = NoSocket /\ Pairs = {}
                 /\ \A s \in Requests : pc[s] \notin Joining
    /\ \A s \in Requests : pc[s] \in Joining =>
          /\ \A t \in Requests : pc[t] \in Joining => s = t
          /\ server_ws \in {s, NoSocket}
          /\ \A p \in Pairs : p[2] = s

PairInv ==
    /\ \A p, q \in Pairs : p = q
    /\ active \cap ended = {}

ReadyInv ==
    /\ \A h \in Handlers : pc[h] \in {"notify_ready", "put"} => Role(h) \in ready
    /\ client_ws = Client => "client" \in ready
    /\ \A h \in Handlers : pc[h] \in HasClient => "client" \in ready
    /\ server_ws # NoSocket => "server" \in ready
    /\ Pairs # {} => FullyReady

\* Which labels belong to which handler, and what the cleanup guard covers.
GuardInv ==
    /\ pc[Client] # "verify"
    /\ \A s \in Requests : pc[s] \notin {"notify_server", "send_ack", "final"}
    /\ pc[Client] = "start" => ~listed
    /\ pc[Client] \notin {"start", "remove", "final", "done"} => guard = "armed"
    /\ pc[Client] = "final" => guard = "armed" \/ (guard = "disarmed" /\ ~listed)
    /\ listed => \/ FullyReady \/ removers # {} \/ active # {}
                 \/ pc[Client] # "done"

IInv == /\ TypeOK /\ HeldInv /\ ClientInv /\ ServerInv /\ SecretInv
        /\ PairInv /\ ReadyInv /\ GuardInv

\* CreateTunnel keeps every part of the invariant.
LEMMA CreateTunnelInv ==
    ASSUME IInv, CreateTunnel
    PROVE  IInv'
<1> USE SocketAssumption DEF CreateTunnel, At, Goto, IInv, slots, Handlers
<1>1. TypeOK'
  BY DEF TypeOK, Labels
<1>2. HeldInv'
  BY DEF TypeOK, HeldInv, PrePut, HasClient
<1>3. ClientInv'
  BY DEF TypeOK, ClientInv, PrePut, HasClient, Pairs
<1>4. ServerInv'
  BY DEF TypeOK, ServerInv, PrePut, Pairs
<1>5. SecretInv'
  BY DEF TypeOK, SecretInv, Joining, Pairs
<1>6. PairInv'
  BY DEF TypeOK, PairInv, Pairs
<1>7. ReadyInv'
  BY DEF TypeOK, ReadyInv, HasClient, Pairs, FullyReady, Role
<1>8. GuardInv'
  BY DEF TypeOK, GuardInv, FullyReady
<1>9. QED
  BY <1>1, <1>2, <1>3, <1>4, <1>5, <1>6, <1>7, <1>8

\* NotifyServer keeps every part of the invariant.
LEMMA NotifyServerInv ==
    ASSUME IInv, NotifyServer
    PROVE  IInv'
<1> USE SocketAssumption DEF NotifyServer, At, Goto, Discard, IInv, slots, Handlers
<1>0. held[Client] = {Client}
  BY DEF HeldInv, PrePut, Joining
<1>1. TypeOK'
  BY <1>0 DEF TypeOK, Labels
<1>2. HeldInv'
  BY <1>0 DEF TypeOK, HeldInv, PrePut, HasClient
<1>3. ClientInv'
  BY <1>0 DEF TypeOK, ClientInv, PrePut, HasClient, Pairs
<1>4. ServerInv'
  BY <1>0 DEF TypeOK, ServerInv, PrePut, Pairs
<1>5. SecretInv'
  BY DEF TypeOK, SecretInv, Joining, Pairs
<1>6. PairInv'
  BY DEF TypeOK, PairInv, Pairs
<1>7. ReadyInv'
  BY DEF TypeOK, ReadyInv, HasClient, Pairs, FullyReady, Role
<1>8. GuardInv'
  BY DEF TypeOK, GuardInv, FullyReady
<1>9. QED
  BY <1>1, <1>2, <1>3, <1>4, <1>5, <1>6, <1>7, <1>8

\* SendAck keeps every part of the invariant.
LEMMA SendAckInv ==
    ASSUME IInv, SendAck
    PROVE  IInv'
<1> USE SocketAssumption DEF SendAck, At, Goto, IInv, slots, Handlers
<1>1. TypeOK'
  BY DEF TypeOK, Labels
<1>2. HeldInv'
  BY DEF TypeOK, HeldInv, PrePut, HasClient
<1>3. ClientInv'
  BY DEF TypeOK, ClientInv, PrePut, HasClient, Pairs
<1>4. ServerInv'
  BY DEF TypeOK, ServerInv, PrePut, Pairs
<1>5. SecretInv'
  BY DEF TypeOK, SecretInv, Joining, Pairs
<1>6. PairInv'
  BY DEF TypeOK, PairInv, Pairs
<1>7. ReadyInv'
  BY DEF TypeOK, ReadyInv, HasClient, Pairs, FullyReady, Role
<1>8. GuardInv'
  BY DEF TypeOK, GuardInv, FullyReady
<1>9. QED
  BY <1>1, <1>2, <1>3, <1>4, <1>5, <1>6, <1>7, <1>8

\* ConnectBails keeps every part of the invariant.
LEMMA ConnectBailsInv ==
    ASSUME IInv, ConnectBails
    PROVE  IInv'
<1> USE SocketAssumption DEF ConnectBails, Goto, Discard, IInv, slots, Handlers
<1>0. held[Client] = {Client}
  BY DEF HeldInv, PrePut, Joining
<1>1. TypeOK'
  BY <1>0 DEF TypeOK, Labels
<1>2. HeldInv'
  BY <1>0 DEF TypeOK, HeldInv, PrePut, HasClient
<1>3. ClientInv'
  BY <1>0 DEF TypeOK, ClientInv, PrePut, HasClient, Pairs
<1>4. ServerInv'
  BY <1>0 DEF TypeOK, ServerInv, PrePut, Pairs
<1>5. SecretInv'
  BY DEF TypeOK, SecretInv, Joining, Pairs
<1>6. PairInv'
  BY DEF TypeOK, PairInv, Pairs
<1>7. ReadyInv'
  BY DEF TypeOK, ReadyInv, HasClient, Pairs, FullyReady, Role
<1>8. GuardInv'
  BY DEF TypeOK, GuardInv, FullyReady
<1>9. QED
  BY <1>1, <1>2, <1>3, <1>4, <1>5, <1>6, <1>7, <1>8

\* ConnectReturns keeps every part of the invariant.
LEMMA ConnectReturnsInv ==
    ASSUME IInv, ConnectReturns
    PROVE  IInv'
<1> USE SocketAssumption DEF ConnectReturns, At, Goto, IInv, slots, Handlers
<1>1. TypeOK'
  BY DEF TypeOK, Labels
<1>2. HeldInv'
  BY DEF TypeOK, HeldInv, PrePut, HasClient
<1>3. ClientInv'
  BY DEF TypeOK, ClientInv, PrePut, HasClient, Pairs
<1>4. ServerInv'
  BY DEF TypeOK, ServerInv, PrePut, Pairs
<1>5. SecretInv'
  BY DEF TypeOK, SecretInv, Joining, Pairs
<1>6. PairInv'
  BY DEF TypeOK, PairInv, Pairs
<1>7. ReadyInv'
  BY DEF TypeOK, ReadyInv, HasClient, Pairs, FullyReady, Role
<1>8. GuardInv'
  BY DEF TypeOK, GuardInv, FullyReady
<1>9. QED
  BY <1>1, <1>2, <1>3, <1>4, <1>5, <1>6, <1>7, <1>8

\* LookupTunnel keeps every part of the invariant.
LEMMA LookupTunnelInv ==
    ASSUME IInv, NEW s \in Requests, LookupTunnel(s)
    PROVE  IInv'
<1> USE SocketAssumption DEF LookupTunnel, At, Goto, Discard, IInv, slots, Handlers
<1>0. held[s] = {s}
  BY DEF HeldInv, PrePut, Joining
<1>1. TypeOK'
  BY <1>0 DEF TypeOK, Labels
<1>2. HeldInv'
  BY <1>0 DEF TypeOK, HeldInv, PrePut, HasClient
<1>3. ClientInv'
  BY <1>0 DEF TypeOK, ClientInv, PrePut, HasClient, Pairs
<1>4. ServerInv'
  BY <1>0 DEF TypeOK, ServerInv, PrePut, Pairs
<1>5. SecretInv'
  BY DEF TypeOK, SecretInv, Joining, Pairs
<1>6. PairInv'
  BY DEF TypeOK, PairInv, Pairs
<1>7. ReadyInv'
  BY DEF TypeOK, ReadyInv, HasClient, Pairs, FullyReady, Role
<1>8. GuardInv'
  BY DEF TypeOK, GuardInv, FullyReady
<1>9. QED
  BY <1>1, <1>2, <1>3, <1>4, <1>5, <1>6, <1>7, <1>8

\* VerifyServerSecret keeps every part of the invariant.
LEMMA VerifyServerSecretInv ==
    ASSUME IInv, NEW s \in Requests, VerifyServerSecret(s)
    PROVE  IInv'
<1> USE SocketAssumption DEF VerifyServerSecret, At, Goto, Discard, IInv, slots, Handlers
<1>0. held[s] = {s}
  BY DEF HeldInv, PrePut, Joining
<1>1. TypeOK'
  BY <1>0, ZenonT(60) DEF TypeOK, Labels
<1>2. HeldInv'
  BY <1>0 DEF TypeOK, HeldInv, PrePut, HasClient
<1>3. ClientInv'
  BY <1>0 DEF TypeOK, ClientInv, PrePut, HasClient, Pairs
<1>4. ServerInv'
  BY <1>0 DEF TypeOK, ServerInv, PrePut, Pairs
<1>5. SecretInv'
  BY DEF TypeOK, SecretInv, Joining, Pairs
<1>6. PairInv'
  BY DEF TypeOK, PairInv, Pairs
<1>7. ReadyInv'
  BY DEF TypeOK, ReadyInv, HasClient, Pairs, FullyReady, Role
<1>8. GuardInv'
  BY DEF TypeOK, GuardInv, FullyReady
<1>9. QED
  BY <1>1, <1>2, <1>3, <1>4, <1>5, <1>6, <1>7, <1>8

\* TunnelBails keeps every part of the invariant.
LEMMA TunnelBailsInv ==
    ASSUME IInv, NEW s \in Requests, TunnelBails(s)
    PROVE  IInv'
<1> USE SocketAssumption DEF TunnelBails, At, Goto, Discard, IInv, slots, Handlers
<1>0. held[s] = {s}
  BY DEF HeldInv, PrePut, Joining
<1>1. TypeOK'
  BY <1>0 DEF TypeOK, Labels
<1>2. HeldInv'
  BY <1>0 DEF TypeOK, HeldInv, PrePut, HasClient
<1>3. ClientInv'
  BY <1>0 DEF TypeOK, ClientInv, PrePut, HasClient, Pairs
<1>4. ServerInv'
  BY <1>0 DEF TypeOK, ServerInv, PrePut, Pairs
<1>5. SecretInv'
  BY DEF TypeOK, SecretInv, Joining, Pairs
<1>6. PairInv'
  BY DEF TypeOK, PairInv, Pairs
<1>7. ReadyInv'
  BY DEF TypeOK, ReadyInv, HasClient, Pairs, FullyReady, Role
<1>8. GuardInv'
  BY DEF TypeOK, GuardInv, FullyReady
<1>9. QED
  BY <1>1, <1>2, <1>3, <1>4, <1>5, <1>6, <1>7, <1>8

\* RecvReady keeps every part of the invariant.
LEMMA RecvReadyInv ==
    ASSUME IInv, NEW h \in Handlers, RecvReady(h)
    PROVE  IInv'
<1> USE SocketAssumption DEF RecvReady, At, Goto, IInv, slots, Handlers
<1>1. TypeOK'
  BY DEF TypeOK, Labels
<1>2. HeldInv'
  BY DEF TypeOK, HeldInv, PrePut, HasClient
<1>3. ClientInv'
  BY DEF TypeOK, ClientInv, PrePut, HasClient, Pairs
<1>4. ServerInv'
  BY DEF TypeOK, ServerInv, PrePut, Pairs
<1>5. SecretInv'
  BY DEF TypeOK, SecretInv, Joining, Pairs
<1>6. PairInv'
  BY DEF TypeOK, PairInv, Pairs
<1>7. ReadyInv'
  BY DEF TypeOK, ReadyInv, HasClient, Pairs, FullyReady, Role
<1>8. GuardInv'
  BY DEF TypeOK, GuardInv, FullyReady
<1>9. QED
  BY <1>1, <1>2, <1>3, <1>4, <1>5, <1>6, <1>7, <1>8

\* Timeout keeps every part of the invariant.
LEMMA TimeoutInv ==
    ASSUME IInv, NEW h \in Handlers, Timeout(h)
    PROVE  IInv'
<1> USE SocketAssumption DEF Timeout, Goto, Discard, IInv, slots, Handlers
<1>0. held[h] = IF pc[h] \in HasClient THEN {Client} ELSE {}
  BY DEF HeldInv, PrePut
<1>1. TypeOK'
  BY DEF TypeOK, Labels
<1>2. HeldInv'
  BY DEF TypeOK, HeldInv, PrePut, HasClient
<1>3. ClientInv'
  <2>1. CASE pc[h] \in HasClient
    <3>1. closed' = closed \cup {Client}
      BY <1>0, <2>1
    <3>2. \A g \in Handlers : pc'[g] \notin HasClient
      BY <2>1 DEF TypeOK, ClientInv, HasClient
    <3>3. pc'[Client] \notin PrePut
      BY <2>1 DEF TypeOK, ClientInv, PrePut, HasClient
    <3>4. QED
      BY <2>1, <3>1, <3>2, <3>3 DEF ClientInv, Pairs
  <2>2. CASE pc[h] \notin HasClient
    BY <1>0, <2>2 DEF TypeOK, ClientInv, PrePut, HasClient, Pairs
  <2>3. QED
    BY <2>1, <2>2
<1>4. ServerInv'
  <2>1. closed' \subseteq closed \cup {Client} /\ closed \subseteq closed'
    BY <1>0
  <2>2. \A s \in Requests : pc'[s] \in PrePut <=> pc[s] \in PrePut
    BY DEF TypeOK, PrePut
  <2>3. QED
    BY <2>1, <2>2 DEF ServerInv, Pairs
<1>5. SecretInv'
  BY DEF TypeOK, SecretInv, Joining, Pairs
<1>6. PairInv'
  BY DEF TypeOK, PairInv, Pairs
<1>7. ReadyInv'
  BY DEF TypeOK, ReadyInv, HasClient, Pairs, FullyReady, Role
<1>8. GuardInv'
  BY DEF TypeOK, GuardInv, FullyReady
<1>9. QED
  BY <1>1, <1>2, <1>3, <1>4, <1>5, <1>6, <1>7, <1>8

\* MarkReady keeps every part of the invariant.
LEMMA MarkReadyInv ==
    ASSUME IInv, NEW h \in Handlers, MarkReady(h)
    PROVE  IInv'
<1> USE SocketAssumption DEF MarkReady, At, Goto, IInv, slots, Handlers
<1>1. TypeOK'
  BY DEF TypeOK, Labels, Role
<1>2. HeldInv'
  BY DEF TypeOK, HeldInv, PrePut, HasClient
<1>3. ClientInv'
  BY DEF TypeOK, ClientInv, PrePut, HasClient, Pairs
<1>4. ServerInv'
  BY DEF TypeOK, ServerInv, PrePut, Pairs
<1>5. SecretInv'
  BY DEF TypeOK, SecretInv, Joining, Pairs
<1>6. PairInv'
  BY DEF TypeOK, PairInv, Pairs
<1>7. ReadyInv'
  BY DEF TypeOK, ReadyInv, HasClient, Pairs, FullyReady, Role
<1>8. GuardInv'
  BY DEF TypeOK, GuardInv, FullyReady, Role
<1>9. QED
  BY <1>1, <1>2, <1>3, <1>4, <1>5, <1>6, <1>7, <1>8

\* NotifyReady keeps every part of the invariant.
LEMMA NotifyReadyInv ==
    ASSUME IInv, NEW h \in Handlers, NotifyReady(h)
    PROVE  IInv'
<1> USE SocketAssumption DEF NotifyReady, At, NotifyAndGoto, IInv, slots, Handlers
<1>1. TypeOK'
  BY DEF TypeOK, Labels
<1>2. HeldInv'
  BY DEF TypeOK, HeldInv, PrePut, HasClient
<1>3. ClientInv'
  BY DEF TypeOK, ClientInv, PrePut, HasClient, Pairs
<1>4. ServerInv'
  BY DEF TypeOK, ServerInv, PrePut, Pairs
<1>5. SecretInv'
  BY DEF TypeOK, SecretInv, Joining, Pairs
<1>6. PairInv'
  BY DEF TypeOK, PairInv, Pairs
<1>7. ReadyInv'
  BY DEF TypeOK, ReadyInv, HasClient, Pairs, FullyReady, Role
<1>8. GuardInv'
  BY DEF TypeOK, GuardInv, FullyReady
<1>9. QED
  BY <1>1, <1>2, <1>3, <1>4, <1>5, <1>6, <1>7, <1>8

\* PutSocket keeps every part of the invariant.
LEMMA PutSocketInv ==
    ASSUME IInv, NEW h \in Handlers, PutSocket(h)
    PROVE  IInv'
<1> USE SocketAssumption DEF PutSocket, At, Goto, IInv, slots, Handlers
<1>1. TypeOK'
  BY DEF TypeOK, Labels
<1>2. HeldInv'
  BY DEF TypeOK, HeldInv, PrePut, HasClient
<1>3. ClientInv'
  BY DEF TypeOK, ClientInv, PrePut, HasClient, Pairs
<1>4. ServerInv'
  BY DEF TypeOK, ServerInv, PrePut, Pairs
<1>5. SecretInv'
  BY DEF TypeOK, SecretInv, Joining, Pairs
<1>6. PairInv'
  BY DEF TypeOK, PairInv, Pairs
<1>7. ReadyInv'
  BY DEF TypeOK, ReadyInv, HasClient, Pairs, FullyReady, Role
<1>8. GuardInv'
  BY DEF TypeOK, GuardInv, FullyReady
<1>9. QED
  BY <1>1, <1>2, <1>3, <1>4, <1>5, <1>6, <1>7, <1>8

\* NotifyPut keeps every part of the invariant.
LEMMA NotifyPutInv ==
    ASSUME IInv, NEW h \in Handlers, NotifyPut(h)
    PROVE  IInv'
<1> USE SocketAssumption DEF NotifyPut, At, NotifyAndGoto, IInv, slots, Handlers
<1>1. TypeOK'
  BY DEF TypeOK, Labels
<1>2. HeldInv'
  BY DEF TypeOK, HeldInv, PrePut, HasClient
<1>3. ClientInv'
  BY DEF TypeOK, ClientInv, PrePut, HasClient, Pairs
<1>4. ServerInv'
  BY DEF TypeOK, ServerInv, PrePut, Pairs
<1>5. SecretInv'
  BY DEF TypeOK, SecretInv, Joining, Pairs
<1>6. PairInv'
  BY DEF TypeOK, PairInv, Pairs
<1>7. ReadyInv'
  BY DEF TypeOK, ReadyInv, HasClient, Pairs, FullyReady, Role
<1>8. GuardInv'
  BY DEF TypeOK, GuardInv, FullyReady
<1>9. QED
  BY <1>1, <1>2, <1>3, <1>4, <1>5, <1>6, <1>7, <1>8

\* TakeClient keeps every part of the invariant.
LEMMA TakeClientInv ==
    ASSUME IInv, NEW h \in Handlers, TakeClient(h)
    PROVE  IInv'
<1> USE SocketAssumption DEF TakeClient, At, Goto, AfterFailedTake, IInv, slots, Handlers
<1>1. TypeOK'
  BY DEF TypeOK, Labels
<1>2. HeldInv'
  BY SMTT(30) DEF TypeOK, HeldInv, PrePut, HasClient
<1>3. ClientInv'
  BY DEF TypeOK, ClientInv, PrePut, HasClient, Pairs
<1>4. ServerInv'
  BY DEF TypeOK, ServerInv, PrePut, Pairs
<1>5. SecretInv'
  BY DEF TypeOK, SecretInv, Joining, Pairs
<1>6. PairInv'
  BY DEF TypeOK, PairInv, Pairs
<1>7. ReadyInv'
  BY DEF TypeOK, ReadyInv, HasClient, Pairs, FullyReady, Role
<1>8. GuardInv'
  BY DEF TypeOK, GuardInv, FullyReady
<1>9. QED
  BY <1>1, <1>2, <1>3, <1>4, <1>5, <1>6, <1>7, <1>8

\* The pair is complete: both sockets move into the forwarder at once.
LEMMA PairTakenInv ==
    ASSUME IInv, NEW h \in Handlers, TakeServer(h), server_ws # NoSocket
    PROVE  IInv'
<1> USE SocketAssumption DEF TakeServer, At, IInv, Handlers
<1> DEFINE s == server_ws
<1>0. /\ s \in Requests /\ pc[h] \in HasClient /\ held[h] = {Client}
      /\ Pairs = {} /\ active = {} /\ ended = {}
      /\ client_ws = NoSocket /\ Client \notin closed
      /\ pc[Client] \notin PrePut
      /\ \A g \in Handlers : pc[g] \in HasClient => g = h
  <2>1. s \in Requests /\ pc[h] \in HasClient
    BY DEF TypeOK, HasClient
  <2>2. held[h] = {Client} /\ pc[h] \notin PrePut
    BY <2>1 DEF HeldInv, HasClient, PrePut
  <2>3. /\ client_ws = NoSocket /\ Client \notin closed /\ Pairs = {}
        /\ \A g \in Handlers : pc[g] \in HasClient => g = h
        /\ pc[Client] \notin PrePut
    BY <2>1 DEF ClientInv
  <2>4. QED
    BY <2>1, <2>2, <2>3 DEF Pairs
<1>a. /\ active' = {<<Client, s>>} /\ server_ws' = NoSocket
      /\ held' = [held EXCEPT ![h] = {}]
      /\ UNCHANGED <<listed, ready, client_ws, secret, timed, removers, closed, ended>>
  BY <1>0
<1>b. /\ pc' = [pc EXCEPT ![h] = IF h = Client /\ h \in timed THEN "final" ELSE "done"]
      /\ guard' = IF h = Client /\ h \notin timed THEN "disarmed" ELSE guard
  BY DEF Goto
<1>c. Pairs' = {<<Client, s>>}
  BY <1>0, <1>a DEF Pairs
<1>d. FullyReady /\ FullyReady'
  <2>1. "client" \in ready /\ "server" \in ready
    BY <1>0 DEF ReadyInv
  <2>2. ready = {"client", "server"}
    <3>1. ready \subseteq {"client", "server"}
      BY DEF TypeOK
    <3>2. {"client", "server"} \subseteq ready
      BY <2>1
    <3>3. QED
      BY <3>1, <3>2, Zenon
  <2>3. QED
    BY <2>2, <1>a DEF FullyReady
<1> HIDE DEF TakeServer, s
<1>1. TypeOK'
  BY <1>0, <1>a, <1>b DEF TypeOK, Labels
<1>2. HeldInv'
  BY <1>0, <1>a, <1>b DEF TypeOK, HeldInv, PrePut, HasClient
<1>3. ClientInv'
  BY <1>0, <1>a, <1>b, <1>c DEF TypeOK, ClientInv, PrePut, HasClient
<1>4. ServerInv'
  BY <1>0, <1>a, <1>b, <1>c DEF TypeOK, ServerInv, PrePut, HasClient, Pairs, s
<1>5. SecretInv'
  BY <1>0, <1>a, <1>b, <1>c DEF TypeOK, SecretInv, Joining, s
<1>6. PairInv'
  BY <1>0, <1>a, <1>c DEF PairInv
<1>7. ReadyInv'
  BY <1>0, <1>a, <1>b, <1>d DEF TypeOK, ReadyInv, HasClient, FullyReady, Role
<1>8. GuardInv'
  BY <1>0, <1>a, <1>b, <1>d DEF TypeOK, GuardInv, HasClient
<1>9. QED
  BY <1>1, <1>2, <1>3, <1>4, <1>5, <1>6, <1>7, <1>8

\* TakeServer keeps every part of the invariant.
LEMMA TakeServerInv ==
    ASSUME IInv, NEW h \in Handlers, TakeServer(h)
    PROVE  IInv'
<1>1. CASE server_ws # NoSocket
  BY <1>1, PairTakenInv
<1>2. CASE server_ws = NoSocket
  <2> USE <1>2, SocketAssumption DEF TakeServer, At, Goto, IInv, Handlers
  <2>1. TypeOK'
    BY DEF TypeOK, Labels
  <2>2. HeldInv'
    BY DEF TypeOK, HeldInv, PrePut, HasClient
  <2>3. ClientInv'
    BY DEF TypeOK, ClientInv, PrePut, HasClient, Pairs
  <2>4. ServerInv'
    BY DEF TypeOK, ServerInv, PrePut, Pairs
  <2>5. SecretInv'
    BY DEF TypeOK, SecretInv, Joining, Pairs
  <2>6. PairInv'
    BY DEF TypeOK, PairInv, Pairs
  <2>7. ReadyInv'
    BY DEF TypeOK, ReadyInv, HasClient, Pairs, FullyReady, Role
  <2>8. GuardInv'
    BY DEF TypeOK, GuardInv, FullyReady
  <2>9. QED
    BY <2>1, <2>2, <2>3, <2>4, <2>5, <2>6, <2>7, <2>8
<1>3. QED
  BY <1>1, <1>2

\* RestoreClient keeps every part of the invariant.
LEMMA RestoreClientInv ==
    ASSUME IInv, NEW h \in Handlers, RestoreClient(h)
    PROVE  IInv'
<1> USE SocketAssumption DEF RestoreClient, At, Goto, AfterFailedTake, IInv, slots, Handlers
<1>1. TypeOK'
  BY DEF TypeOK, Labels
<1>2. HeldInv'
  BY DEF TypeOK, HeldInv, PrePut, HasClient
<1>3. ClientInv'
  BY DEF TypeOK, ClientInv, PrePut, HasClient, Pairs
<1>4. ServerInv'
  BY DEF TypeOK, ServerInv, PrePut, Pairs
<1>5. SecretInv'
  BY DEF TypeOK, SecretInv, Joining, Pairs
<1>6. PairInv'
  BY DEF TypeOK, PairInv, Pairs
<1>7. ReadyInv'
  BY DEF TypeOK, ReadyInv, HasClient, Pairs, FullyReady, Role
<1>8. GuardInv'
  BY DEF TypeOK, GuardInv, FullyReady
<1>9. QED
  BY <1>1, <1>2, <1>3, <1>4, <1>5, <1>6, <1>7, <1>8

\* StartWait keeps every part of the invariant.
LEMMA StartWaitInv ==
    ASSUME IInv, NEW h \in Handlers, StartWait(h)
    PROVE  IInv'
<1> USE SocketAssumption DEF StartWait, At, Goto, IInv, slots, Handlers
<1>1. TypeOK'
  BY DEF TypeOK, Labels
<1>2. HeldInv'
  BY DEF TypeOK, HeldInv, PrePut, HasClient
<1>3. ClientInv'
  BY DEF TypeOK, ClientInv, PrePut, HasClient, Pairs
<1>4. ServerInv'
  BY DEF TypeOK, ServerInv, PrePut, Pairs
<1>5. SecretInv'
  BY DEF TypeOK, SecretInv, Joining, Pairs
<1>6. PairInv'
  BY DEF TypeOK, PairInv, Pairs
<1>7. ReadyInv'
  BY DEF TypeOK, ReadyInv, HasClient, Pairs, FullyReady, Role
<1>8. GuardInv'
  BY DEF TypeOK, GuardInv, FullyReady
<1>9. QED
  BY <1>1, <1>2, <1>3, <1>4, <1>5, <1>6, <1>7, <1>8

\* CheckActive keeps every part of the invariant.
LEMMA CheckActiveInv ==
    ASSUME IInv, NEW h \in Handlers, CheckActive(h)
    PROVE  IInv'
<1> USE SocketAssumption DEF CheckActive, At, Goto, LeaveWait, IInv, slots, Handlers
<1>1. TypeOK'
  BY DEF TypeOK, Labels
<1>2. HeldInv'
  BY DEF TypeOK, HeldInv, PrePut, HasClient
<1>3. ClientInv'
  BY DEF TypeOK, ClientInv, PrePut, HasClient, Pairs
<1>4. ServerInv'
  BY DEF TypeOK, ServerInv, PrePut, Pairs
<1>5. SecretInv'
  BY DEF TypeOK, SecretInv, Joining, Pairs
<1>6. PairInv'
  BY DEF TypeOK, PairInv, Pairs
<1>7. ReadyInv'
  BY DEF TypeOK, ReadyInv, HasClient, Pairs, FullyReady, Role
<1>8. GuardInv'
  BY DEF TypeOK, GuardInv, FullyReady
<1>9. QED
  BY <1>1, <1>2, <1>3, <1>4, <1>5, <1>6, <1>7, <1>8

\* ExpireCheck keeps every part of the invariant.
LEMMA ExpireCheckInv ==
    ASSUME IInv, NEW h \in Handlers, ExpireCheck(h)
    PROVE  IInv'
<1> USE SocketAssumption DEF ExpireCheck, At, Goto, LeaveWait, IInv, slots, Handlers
<1>1. TypeOK'
  BY DEF TypeOK, Labels
<1>2. HeldInv'
  BY DEF TypeOK, HeldInv, PrePut, HasClient
<1>3. ClientInv'
  BY DEF TypeOK, ClientInv, PrePut, HasClient, Pairs
<1>4. ServerInv'
  BY DEF TypeOK, ServerInv, PrePut, Pairs
<1>5. SecretInv'
  BY DEF TypeOK, SecretInv, Joining, Pairs
<1>6. PairInv'
  BY DEF TypeOK, PairInv, Pairs
<1>7. ReadyInv'
  BY DEF TypeOK, ReadyInv, HasClient, Pairs, FullyReady, Role
<1>8. GuardInv'
  BY DEF TypeOK, GuardInv, FullyReady
<1>9. QED
  BY <1>1, <1>2, <1>3, <1>4, <1>5, <1>6, <1>7, <1>8

\* TakeOwn keeps every part of the invariant.
LEMMA TakeOwnInv ==
    ASSUME IInv, NEW h \in Handlers, TakeOwn(h)
    PROVE  IInv'
<1> USE SocketAssumption DEF TakeOwn, At, Goto, IInv, slots, Handlers
<1>1. TypeOK'
  BY DEF TypeOK, Labels
<1>2. HeldInv'
  BY DEF TypeOK, HeldInv, PrePut, HasClient
<1>3. ClientInv'
  BY DEF TypeOK, ClientInv, PrePut, HasClient, Pairs
<1>4. ServerInv'
  BY DEF TypeOK, ServerInv, PrePut, Pairs
<1>5. SecretInv'
  BY DEF TypeOK, SecretInv, Joining, Pairs
<1>6. PairInv'
  BY DEF TypeOK, PairInv, Pairs
<1>7. ReadyInv'
  BY DEF TypeOK, ReadyInv, HasClient, Pairs, FullyReady, Role
<1>8. GuardInv'
  BY DEF TypeOK, GuardInv, FullyReady
<1>9. QED
  BY <1>1, <1>2, <1>3, <1>4, <1>5, <1>6, <1>7, <1>8

\* RemoveTunnel keeps every part of the invariant.
LEMMA RemoveTunnelInv ==
    ASSUME IInv, NEW h \in Handlers, RemoveTunnel(h)
    PROVE  IInv'
<1> USE SocketAssumption DEF RemoveTunnel, At, Goto, IInv, slots, Handlers
<1>1. TypeOK'
  BY DEF TypeOK, Labels
<1>2. HeldInv'
  BY ZenonT(60) DEF TypeOK, HeldInv, PrePut, HasClient
<1>3. ClientInv'
  BY DEF TypeOK, ClientInv, PrePut, HasClient, Pairs
<1>4. ServerInv'
  BY DEF TypeOK, ServerInv, PrePut, Pairs
<1>5. SecretInv'
  BY DEF TypeOK, SecretInv, Joining, Pairs
<1>6. PairInv'
  BY DEF TypeOK, PairInv, Pairs
<1>7. ReadyInv'
  BY DEF TypeOK, ReadyInv, HasClient, Pairs, FullyReady, Role
<1>8. GuardInv'
  BY DEF TypeOK, GuardInv, FullyReady
<1>9. QED
  BY <1>1, <1>2, <1>3, <1>4, <1>5, <1>6, <1>7, <1>8

\* ForwardEnds keeps every part of the invariant.
LEMMA ForwardEndsInv ==
    ASSUME IInv, ForwardEnds
    PROVE  IInv'
<1> USE SocketAssumption DEF ForwardEnds, IInv, slots, Handlers
<1>1. TypeOK'
  BY DEF TypeOK, Labels
<1>2. HeldInv'
  BY DEF TypeOK, HeldInv, PrePut, HasClient
<1>3. ClientInv'
  BY DEF TypeOK, ClientInv, PrePut, HasClient, Pairs, PairInv
<1>4. ServerInv'
  BY DEF TypeOK, ServerInv, PrePut, Pairs
<1>5. SecretInv'
  BY DEF TypeOK, SecretInv, Joining, Pairs
<1>6. PairInv'
  BY DEF TypeOK, PairInv, Pairs
<1>7. ReadyInv'
  BY DEF TypeOK, ReadyInv, HasClient, Pairs, FullyReady, Role
<1>8. GuardInv'
  BY DEF TypeOK, GuardInv, FullyReady
<1>9. QED
  BY <1>1, <1>2, <1>3, <1>4, <1>5, <1>6, <1>7, <1>8

\* RunRemover keeps every part of the invariant.
LEMMA RunRemoverInv ==
    ASSUME IInv, RunRemover
    PROVE  IInv'
<1> USE SocketAssumption DEF RunRemover, IInv, slots, Handlers
<1>1. TypeOK'
  BY DEF TypeOK, Labels
<1>2. HeldInv'
  BY DEF TypeOK, HeldInv, PrePut, HasClient
<1>3. ClientInv'
  BY DEF TypeOK, ClientInv, PrePut, HasClient, Pairs
<1>4. ServerInv'
  BY DEF TypeOK, ServerInv, PrePut, Pairs
<1>5. SecretInv'
  BY DEF TypeOK, SecretInv, Joining, Pairs
<1>6. PairInv'
  BY DEF TypeOK, PairInv, Pairs
<1>7. ReadyInv'
  BY DEF TypeOK, ReadyInv, HasClient, Pairs, FullyReady, Role
<1>8. GuardInv'
  BY DEF TypeOK, GuardInv, FullyReady
<1>9. QED
  BY <1>1, <1>2, <1>3, <1>4, <1>5, <1>6, <1>7, <1>8

\* The table is empty and nobody has a socket.
LEMMA InitInv == Init => IInv
<1> SUFFICES ASSUME Init PROVE IInv
  OBVIOUS
<1> USE SocketAssumption DEF Init, Handlers
<1>1. TypeOK
  BY DEF TypeOK, Labels
<1>2. HeldInv
  BY DEF HeldInv, PrePut
<1>3. ClientInv /\ ServerInv /\ PairInv
  BY DEF ClientInv, ServerInv, PairInv, Pairs, PrePut, HasClient
<1>4. SecretInv /\ ReadyInv /\ GuardInv
  BY DEF SecretInv, ReadyInv, GuardInv, Joining, Pairs, HasClient
<1>5. QED
  BY <1>1, <1>2, <1>3, <1>4 DEF IInv

\* A step that changes nothing.
LEMMA StutterInv == IInv /\ UNCHANGED vars => IInv'
BY DEF IInv, vars, TypeOK, HeldInv, ClientInv, ServerInv, SecretInv, PairInv,
       ReadyInv, GuardInv, Pairs, FullyReady

\* Every step of every handler and task preserves IInv.
LEMMA NextInv == IInv /\ [Next]_vars => IInv'
<1> SUFFICES ASSUME IInv, [Next]_vars PROVE IInv'
  OBVIOUS
<1>1. CASE CreateTunnel \/ NotifyServer \/ SendAck \/ ConnectBails \/ ConnectReturns
  BY <1>1, CreateTunnelInv, NotifyServerInv, SendAckInv, ConnectBailsInv,
     ConnectReturnsInv
<1>2. ASSUME NEW s \in Requests,
             LookupTunnel(s) \/ VerifyServerSecret(s) \/ TunnelBails(s)
      PROVE  IInv'
  BY <1>2, LookupTunnelInv, VerifyServerSecretInv, TunnelBailsInv
<1>3. ASSUME NEW h \in Handlers, RecvReady(h) \/ Timeout(h)
      PROVE  IInv'
  BY <1>3, RecvReadyInv, TimeoutInv
<1>4. ASSUME NEW h \in Handlers, HandlerStep(h)
      PROVE  IInv'
  BY <1>4, MarkReadyInv, NotifyReadyInv, PutSocketInv, NotifyPutInv,
     TakeClientInv, TakeServerInv, RestoreClientInv, StartWaitInv,
     CheckActiveInv, ExpireCheckInv, TakeOwnInv, RemoveTunnelInv
     DEF HandlerStep
<1>5. CASE ForwardEnds \/ RunRemover
  BY <1>5, ForwardEndsInv, RunRemoverInv
<1>6. CASE Finished \/ UNCHANGED vars
  BY <1>6, StutterInv DEF Finished
<1>7. QED
  BY <1>1, <1>2, <1>3, <1>4, <1>5, <1>6 DEF Next

\* IInv holds in every reachable state, for any number of requests.
THEOREM Invariance == Spec => []IInv
  BY InitInv, NextInv, PTL DEF Spec

(***************************************************************************)
(* The slots, the handlers' locals and the forwarders only ever hold       *)
(* values of their type: no handler stores a socket into the other role's  *)
(* slot of the TunnelHandle.                                               *)
(***************************************************************************)
THEOREM TypeCorrect == Spec => []TypeOK
<1>1. IInv => TypeOK
  BY DEF IInv
<1>2. QED
  BY <1>1, Invariance, PTL

(***************************************************************************)
(* Every websocket has exactly one owner, although take_pair_if_ready is   *)
(* three lock sections and a timeout may cut it off between any two.       *)
(***************************************************************************)
THEOREM Ownership == Spec => []OwnedExactlyOnce
<1>1. IInv => OwnedExactlyOnce
  <2> SUFFICES ASSUME IInv, NEW s \in Handlers
               PROVE  /\ s \in closed \/ InSlot(s) \/ ~Inactive(s)
                            \/ \E h \in Handlers : s \in held[h]
                      /\ \A g, h \in Handlers : s \in held[g] /\ s \in held[h] => g = h
                      /\ (\E h \in Handlers : s \in held[h])
                            => s \notin closed /\ ~InSlot(s) /\ Inactive(s)
                      /\ InSlot(s) => s \notin closed /\ Inactive(s)
                      /\ ~Inactive(s) => s \notin closed
    BY DEF OwnedExactlyOnce
  <2> USE SocketAssumption DEF IInv, Handlers, InSlot, Inactive
  <2>0. \A p \in Pairs : p[1] = Client /\ p[2] \in Requests
    BY DEF TypeOK, Pairs
  <2>1. CASE s = Client
    <3>1. \A h \in Handlers : s \in held[h] <=>
             (pc[h] \in HasClient \/ (h = Client /\ pc[h] \in PrePut))
      BY <2>1 DEF HeldInv, PrePut, HasClient
    <3>2. server_ws # s
      BY <2>1 DEF TypeOK
    <3>3. QED
      BY <2>0, <2>1, <3>1, <3>2 DEF ClientInv, Pairs
  <2>2. CASE s \in Requests
    <3>1. \A h \in Handlers : s \in held[h] <=> (h = s /\ pc[h] \in PrePut)
      BY <2>2 DEF HeldInv, PrePut, HasClient
    <3>2. client_ws # s
      BY <2>2 DEF TypeOK
    <3>3. QED
      BY <2>0, <2>2, <3>1, <3>2 DEF ServerInv, Pairs
  <2>3. QED
    BY <2>1, <2>2
<1>2. QED
  BY <1>1, Invariance, PTL

(***************************************************************************)
(* Nothing is forwarded before both peers are ready, and a tunnel forwards *)
(* one pair of sockets, once.                                              *)
(***************************************************************************)
THEOREM ForwardSafety == Spec => []ForwardOnlyWhenReady
<1>1. IInv => ForwardOnlyWhenReady
  BY DEF IInv, ForwardOnlyWhenReady, PairInv, ReadyInv, Pairs
<1>2. QED
  BY <1>1, Invariance, PTL

\* The one-time secret admits one /tunnel request into the handshake.
THEOREM SecretSafety == Spec => []OneServerPerTunnel
<1>1. IInv => OneServerPerTunnel
  BY DEF IInv, OneServerPerTunnel, SecretInv, Pairs
<1>2. QED
  BY <1>1, Invariance, PTL

\* A handshake that never completed leaves no entry in AppState.tunnels.
THEOREM LeakSafety == Spec => []NoUnreadyLeak
<1>1. IInv => NoUnreadyLeak
  BY DEF IInv, NoUnreadyLeak, GuardInv, Idle
<1>2. QED
  BY <1>1, Invariance, PTL

(***************************************************************************)
(* The handshake implements TunnelLifecycle.  Only MarkReady changes       *)
(* ready; only a completed take_pair_if_ready makes the tunnel Active, and *)
(* by IInv it was Pending with both roles ready; ForwardEnds closes it.    *)
(***************************************************************************)
THEOREM Refinement == Spec => ImplementsLifecycle
<1>1. Init => Lifecycle!Init
  BY DEF Init, Lifecycle!Init, phase
<1>2. ASSUME IInv, [Next]_vars
      PROVE  [Lifecycle!Next]_<<ready, phase>>
  <2> USE DEF Lifecycle!Next, Lifecycle!Roles
  <2>1. CASE UNCHANGED <<ready, active, ended>>
    BY <2>1 DEF phase
  <2>2. ASSUME NEW h \in Handlers, MarkReady(h)
        PROVE  Lifecycle!Signal
    BY <2>2 DEF MarkReady, Lifecycle!Signal, Role, phase
  <2>3. ASSUME NEW h \in Handlers, TakeServer(h), server_ws # NoSocket
        PROVE  Lifecycle!Activate
    <3>1. pc[h] \in HasClient /\ held[h] = {Client}
      BY <1>2, <2>3 DEF TakeServer, At, IInv, HeldInv, PrePut, HasClient
    <3>2. active = {} /\ ended = {}
      BY <1>2, <3>1 DEF IInv, ClientInv, Pairs
    <3>3. active' = active \cup {<<Client, server_ws>>} /\ UNCHANGED <<ready, ended>>
      BY <2>3, <3>1 DEF TakeServer
    <3>4. "client" \in ready /\ "server" \in ready
      BY <1>2, <2>3, <3>1 DEF IInv, ReadyInv
    <3>5. ready \subseteq {"client", "server"}
      BY <1>2 DEF IInv, TypeOK
    <3>6. ready = {"client", "server"}
      BY <3>4, <3>5
    <3>7. QED
      BY <3>2, <3>3, <3>6 DEF Lifecycle!Activate, phase
  <2>4. ASSUME ForwardEnds
        PROVE  Lifecycle!Close
    <3>1. PICK p \in active : active' = active \ {p} /\ ended' = ended \cup {p}
                              /\ UNCHANGED ready
      BY <2>4 DEF ForwardEnds
    <3>2. active' = {}
      BY <1>2, <3>1 DEF IInv, PairInv, Pairs
    <3>3. QED
      BY <3>1, <3>2 DEF Lifecycle!Close, phase
  <2>5. QED
    <3>1. CASE Finished \/ UNCHANGED vars
      BY <3>1, <2>1 DEF Finished, vars
    <3>2. CASE CreateTunnel \/ NotifyServer \/ SendAck \/ ConnectBails
               \/ ConnectReturns \/ RunRemover
      BY <3>2, <2>1 DEF CreateTunnel, NotifyServer, SendAck, ConnectBails,
         ConnectReturns, RunRemover
    <3>3. ASSUME NEW s \in Requests,
                 LookupTunnel(s) \/ VerifyServerSecret(s) \/ TunnelBails(s)
          PROVE  UNCHANGED <<ready, active, ended>>
      BY <3>3 DEF LookupTunnel, VerifyServerSecret, TunnelBails
    <3>4. ASSUME NEW h \in Handlers, RecvReady(h) \/ Timeout(h) \/ HandlerStep(h),
                 ~MarkReady(h), ~(TakeServer(h) /\ server_ws # NoSocket)
          PROVE  UNCHANGED <<ready, active, ended>>
      BY <3>4 DEF HandlerStep, RecvReady, Timeout, NotifyReady, PutSocket, NotifyPut,
         TakeClient, TakeServer, RestoreClient, StartWait, CheckActive, ExpireCheck,
         TakeOwn, RemoveTunnel
    <3>5. QED
      BY <1>2, <2>1, <2>2, <2>3, <2>4, <3>1, <3>2, <3>3, <3>4 DEF Next, HandlerStep
<1>3. QED
  BY <1>1, <1>2, Invariance, PTL DEF Spec, ImplementsLifecycle, Lifecycle!Spec
=============================================================================
