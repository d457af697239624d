------------------------ MODULE RelayRegistryProofs ------------------------
(***************************************************************************)
(* Proofs about RelayRegistry, for any number of registrations, clients,   *)
(* keys and tokens and any capacity of the control channel.                *)
(***************************************************************************)
EXTENDS RelayRegistry, SequenceTheorems, TLAPS

(***************************************************************************)
(* What a connect handler knows between its await points: it has cloned a  *)
(* registration, and once it is about to send, its token was checked       *)
(* against the key of that very registration.                              *)
(***************************************************************************)
Cloned ==
    \A c \in Clients :
        /\ cpc[c] \in {"verify", "send"} => target[c] \in Regs
        /\ cpc[c] = "send" => TokenGrants(token[c], key[target[c]], c)

Safe == TypeOK /\ EntryHasReceiver /\ Cloned /\ CommandsAreVouched

\* What append and tail do to the commands on a channel.
LEMMA CommandsAppended ==
    ASSUME NEW s \in Seq(Clients), NEW c \in Clients
    PROVE  /\ Append(s, c) \in Seq(Clients)
           /\ Len(Append(s, c)) = Len(s) + 1
           /\ {Append(s, c)[i] : i \in 1..Len(Append(s, c))}
                 \subseteq {s[i] : i \in 1..Len(s)} \cup {c}
<1>1. /\ Append(s, c) \in Seq(Clients)
      /\ Len(Append(s, c)) = Len(s) + 1
      /\ \A i \in 1..Len(s) : Append(s, c)[i] = s[i]
      /\ Append(s, c)[Len(s) + 1] = c
  BY AppendProperties
<1>2. Len(s) \in Nat
  BY LenProperties
<1>3. ASSUME NEW i \in 1..(Len(s) + 1)
      PROVE  Append(s, c)[i] \in {s[j] : j \in 1..Len(s)} \cup {c}
  <2>1. CASE i = Len(s) + 1
    BY <1>1, <2>1
  <2>2. CASE i # Len(s) + 1
    <3>1. i \in 1..Len(s)
      BY <1>2, <2>2
    <3> QED BY <1>1, <3>1
  <2> QED BY <2>1, <2>2
<1> QED BY <1>1, <1>3

\* The head and the tail of a channel hold nothing that was not on it.
LEMMA CommandsTaken ==
    ASSUME NEW s \in Seq(Clients), s # <<>>
    PROVE  /\ Tail(s) \in Seq(Clients)
           /\ Len(Tail(s)) <= Len(s)
           /\ Head(s) \in {s[i] : i \in 1..Len(s)}
           /\ {Tail(s)[i] : i \in 1..Len(Tail(s))} \subseteq {s[i] : i \in 1..Len(s)}
<1>1. /\ Head(s) = s[1]
      /\ Tail(s) \in Seq(Clients)
      /\ Len(Tail(s)) = Len(s) - 1
      /\ \A i \in 1..Len(Tail(s)) : Tail(s)[i] = s[i + 1]
  BY HeadTailProperties
<1>2. Len(s) \in Nat /\ Len(s) # 0
  BY LenProperties, EmptySeq
<1>3. 1 \in 1..Len(s) /\ \A i \in 1..Len(Tail(s)) : i + 1 \in 1..Len(s)
  BY <1>1, <1>2
<1> QED BY <1>1, <1>2, <1>3

\* The initial states.
LEMMA InitSafe == Init => Safe
<1> SUFFICES ASSUME Init PROVE Safe
  OBVIOUS
<1>1. \A r \in Regs : queue[r] = <<>> /\ Len(queue[r]) = 0 /\ queue[r] \in Seq(Clients)
  BY DEF Init
<1>2. TypeOK
  <2>1. queue \in [Regs -> Seq(Clients)]
    BY DEF Init
  <2>2. \A r \in Regs : Len(queue[r]) <= QueueCap
    BY <1>1, RegistryAssumption
  <2> QED BY <2>1, <2>2 DEF Init, TypeOK
<1>3. EntryHasReceiver
  BY DEF Init, EntryHasReceiver
<1>4. Cloned
  BY DEF Init, Cloned
<1>5. \A r \in Regs : Commanded(r) = {}
  BY <1>1 DEF Init, Commanded
<1>6. CommandsAreVouched
  BY <1>5 DEF CommandsAreVouched
<1> QED BY <1>2, <1>3, <1>4, <1>6 DEF Safe

\* A step that puts no new command on a control connection keeps the
\* commands vouched for.
LEMMA VouchedKept ==
    ASSUME Safe, UNCHANGED <<token, key>>,
           \A r \in Regs : Commanded(r)' \subseteq Commanded(r)
    PROVE  CommandsAreVouched'
<1> SUFFICES ASSUME NEW r \in Regs, NEW c \in Commanded(r)'
             PROVE  /\ token'[c].key = key'[r]
                    /\ token'[c].sub = c
                    /\ token'[c].server = Server /\ token'[c].audience = Server
                    /\ token'[c].connect
  BY DEF CommandsAreVouched
<1>1. c \in Commanded(r)
  OBVIOUS
<1> QED BY <1>1 DEF Safe, CommandsAreVouched

\* Every step keeps the invariant.
LEMMA NextSafe == Safe /\ [Next]_vars => Safe'
<1> SUFFICES ASSUME Safe, [Next]_vars PROVE Safe'
  OBVIOUS
<1> USE DEF Safe
<1>1. ASSUME NEW r \in Regs, Dial(r) PROVE Safe'
  <2>1. TypeOK' /\ EntryHasReceiver' /\ Cloned'
    BY <1>1 DEF Dial, TypeOK, EntryHasReceiver, Cloned, TokenGrants, Regs, NoReg
  <2>2. \A q \in Regs : Commanded(q)' \subseteq Commanded(q)
    BY <1>1 DEF Dial, Commanded
  <2> QED BY <1>1, <2>1, <2>2, VouchedKept DEF Dial
<1>2. ASSUME NEW r \in Regs, Upsert(r) PROVE Safe'
  <2>1. TypeOK' /\ EntryHasReceiver' /\ Cloned'
    <3>1. Cloned'
      BY <1>2 DEF Upsert, Cloned, TokenGrants
    <3>2. CASE entry' = r /\ rpc' = [rpc EXCEPT ![r] = "loop"]
      <4>1. TypeOK'
        BY <1>2, <3>2 DEF Upsert, TypeOK
      <4>2. EntryHasReceiver'
        BY <3>2 DEF TypeOK, EntryHasReceiver
      <4> QED BY <3>1, <4>1, <4>2
    <3>3. CASE UNCHANGED entry /\ rpc' = [rpc EXCEPT ![r] = "done"]
      <4>1. TypeOK'
        BY <1>2, <3>3 DEF Upsert, TypeOK
      <4>2. EntryHasReceiver'
        BY <1>2, <3>3 DEF Upsert, TypeOK, EntryHasReceiver
      <4> QED BY <3>1, <4>1, <4>2
    <3> QED BY <1>2, <3>2, <3>3 DEF Upsert
  <2>2. \A q \in Regs : Commanded(q)' \subseteq Commanded(q)
    BY <1>2 DEF Upsert, Commanded
  <2> QED BY <1>2, <2>1, <2>2, VouchedKept DEF Upsert
<1>3. ASSUME NEW r \in Regs, Dispatch(r) PROVE Safe'
  <2>1. /\ queue[r] \in Seq(Clients) /\ queue[r] # <<>>
        /\ Len(queue[r]) \in Nat /\ Len(Tail(queue[r])) \in Nat
        /\ Tail(queue[r]) \in Seq(Clients)
        /\ Len(Tail(queue[r])) <= Len(queue[r])
    BY <1>3, CommandsTaken, LenProperties DEF Dispatch, TypeOK
  <2>2. Head(queue[r]) \in {queue[r][i] : i \in 1..Len(queue[r])}
    BY <2>1, CommandsTaken
  <2>3. {Tail(queue[r])[i] : i \in 1..Len(Tail(queue[r]))}
           \subseteq {queue[r][i] : i \in 1..Len(queue[r])}
    BY <2>1, CommandsTaken
  <2>4. Head(queue[r]) \in Clients
    BY <2>1
  <2>5. queue' = [queue EXCEPT ![r] = Tail(queue[r])]
    BY <1>3 DEF Dispatch
  <2>6. queue' \in [Regs -> Seq(Clients)] /\ \A q \in Regs : Len(queue'[q]) <= QueueCap
    <3>1. queue' \in [Regs -> Seq(Clients)]
      BY <2>1, <2>5 DEF TypeOK
    <3>2. ASSUME NEW q \in Regs PROVE Len(queue'[q]) <= QueueCap
      BY <2>1, <2>5, RegistryAssumption DEF TypeOK
    <3> QED BY <3>1, <3>2
  <2>7. opened' \in [Regs -> SUBSET Clients]
    <3>1. opened[r] \cup {Head(queue[r])} \in SUBSET Clients
      BY <2>4 DEF TypeOK
    <3>2. CASE opened' = [opened EXCEPT ![r] = opened[r] \cup {Head(queue[r])}]
      BY <3>1, <3>2 DEF TypeOK
    <3>3. CASE UNCHANGED opened
      BY <3>3 DEF TypeOK
    <3> QED BY <1>3, <3>2, <3>3 DEF Dispatch
  <2>8. TypeOK'
    BY <1>3, <2>6, <2>7 DEF Dispatch, TypeOK
  <2>9. EntryHasReceiver' /\ Cloned'
    BY <1>3, ZenonT(60) DEF Dispatch, TypeOK, EntryHasReceiver, Cloned, TokenGrants, Regs, NoReg
  <2>10. ASSUME NEW q \in Regs PROVE Commanded(q)' \subseteq Commanded(q)
    <3>1. CASE q = r
      <4>1. queue'[q] = Tail(queue[r]) /\ opened'[q] \subseteq opened[r] \cup {Head(queue[r])}
        BY <1>3, <2>5, <3>1 DEF Dispatch, TypeOK
      <4> QED BY <2>2, <2>3, <3>1, <4>1 DEF Commanded
    <3>2. CASE q # r
      <4>1. queue'[q] = queue[q] /\ opened'[q] = opened[q]
        BY <1>3, <2>5, <3>2 DEF Dispatch, TypeOK
      <4> QED BY <4>1 DEF Commanded
    <3> QED BY <3>1, <3>2
  <2> QED BY <1>3, <2>8, <2>9, <2>10, VouchedKept DEF Dispatch
<1>4. ASSUME NEW r \in Regs, RecvClose(r) PROVE Safe'
  <2>1. TypeOK' /\ EntryHasReceiver' /\ Cloned'
    BY <1>4 DEF RecvClose, TypeOK, EntryHasReceiver, Cloned, TokenGrants, Regs, NoReg
  <2>2. \A q \in Regs : Commanded(q)' \subseteq Commanded(q)
    BY <1>4 DEF RecvClose, Commanded
  <2> QED BY <1>4, <2>1, <2>2, VouchedKept DEF RecvClose
<1>5. ASSUME NEW r \in Regs, RemoveServerIfCurrent(r) PROVE Safe'
  <2>1. queue' = [queue EXCEPT ![r] = <<>>] /\ Len(<<>>) = 0 /\ <<>> \in Seq(Clients)
    BY <1>5 DEF RemoveServerIfCurrent
  <2>2. queue' \in [Regs -> Seq(Clients)] /\ \A q \in Regs : Len(queue'[q]) <= QueueCap
    <3>1. queue' \in [Regs -> Seq(Clients)]
      BY <2>1 DEF TypeOK
    <3>2. ASSUME NEW q \in Regs PROVE Len(queue'[q]) <= QueueCap
      BY <2>1, RegistryAssumption DEF TypeOK
    <3> QED BY <3>1, <3>2
  <2>3. TypeOK' /\ EntryHasReceiver' /\ Cloned'
    BY <1>5, <2>2 DEF RemoveServerIfCurrent, TypeOK, EntryHasReceiver, Cloned,
       TokenGrants, Regs, NoReg
  <2>4. ASSUME NEW q \in Regs PROVE Commanded(q)' \subseteq Commanded(q)
    <3>1. opened'[q] = opened[q] /\ (queue'[q] = queue[q] \/ queue'[q] = <<>>)
      BY <1>5, <2>1 DEF RemoveServerIfCurrent, TypeOK
    <3> QED BY <2>1, <3>1 DEF Commanded
  <2> QED BY <1>5, <2>3, <2>4, VouchedKept DEF RemoveServerIfCurrent
<1>6. ASSUME NEW r \in Regs, Disconnect(r) PROVE Safe'
  <2>1. TypeOK' /\ EntryHasReceiver' /\ Cloned'
    BY <1>6 DEF Disconnect, TypeOK, EntryHasReceiver, Cloned, TokenGrants, Regs, NoReg
  <2>2. \A q \in Regs : Commanded(q)' \subseteq Commanded(q)
    BY <1>6 DEF Disconnect, Commanded
  <2> QED BY <1>6, <2>1, <2>2, VouchedKept DEF Disconnect
<1>7. ASSUME NEW c \in Clients, LookupServer(c) PROVE Safe'
  <2>1. TypeOK' /\ EntryHasReceiver' /\ Cloned'
    BY <1>7 DEF LookupServer, regVars, TypeOK, EntryHasReceiver, Cloned, TokenGrants,
       Regs, NoReg
  <2>2. \A q \in Regs : Commanded(q)' \subseteq Commanded(q)
    BY <1>7 DEF LookupServer, regVars, Commanded
  <2> QED BY <1>7, <2>1, <2>2, VouchedKept DEF LookupServer, regVars
<1>8. ASSUME NEW c \in Clients, ValidateToken(c) PROVE Safe'
  <2>1. TypeOK' /\ EntryHasReceiver'
    BY <1>8 DEF ValidateToken, regVars, TypeOK, EntryHasReceiver
  <2>2. Cloned'
    BY <1>8 DEF ValidateToken, regVars, TypeOK, Cloned, TokenGrants
  <2>3. \A q \in Regs : Commanded(q)' \subseteq Commanded(q)
    BY <1>8 DEF ValidateToken, regVars, Commanded
  <2> QED BY <1>8, <2>1, <2>2, <2>3, VouchedKept DEF ValidateToken, regVars
<1>9. ASSUME NEW c \in Clients, SendCommand(c) PROVE Safe'
  <2> DEFINE r == target[c]
  <2>1. r \in Regs /\ TokenGrants(token[c], key[r], c)
    BY <1>9 DEF SendCommand, Cloned
  <2>2. EntryHasReceiver' /\ Cloned'
    BY <1>9 DEF SendCommand, regVars, TypeOK, EntryHasReceiver, Cloned, TokenGrants
  <2>3. CASE UNCHANGED queue
    <3>1. TypeOK'
      <4>1. cpc' \in [Clients -> {"start", "verify", "send", "sent", "rejected"}]
        BY <1>9 DEF SendCommand, TypeOK
      <4> QED BY <1>9, <2>3, <4>1 DEF SendCommand, regVars, TypeOK
    <3>2. \A q \in Regs : Commanded(q)' \subseteq Commanded(q)
      BY <1>9, <2>3 DEF SendCommand, regVars, Commanded
    <3> QED BY <1>9, <2>2, <3>1, <3>2, VouchedKept DEF SendCommand, regVars
  <2>4. CASE /\ queue' = [queue EXCEPT ![r] = Append(queue[r], c)]
             /\ Len(queue[r]) < QueueCap
    <3>1. /\ queue[r] \in Seq(Clients) /\ Len(queue[r]) \in Nat
          /\ Append(queue[r], c) \in Seq(Clients)
          /\ Len(Append(queue[r], c)) = Len(queue[r]) + 1
      BY <2>1, CommandsAppended, LenProperties DEF TypeOK
    <3>2. {Append(queue[r], c)[i] : i \in 1..Len(Append(queue[r], c))}
             \subseteq {queue[r][i] : i \in 1..Len(queue[r])} \cup {c}
      BY <3>1, CommandsAppended
    <3>3. queue' \in [Regs -> Seq(Clients)]
      BY <2>1, <2>4, <3>1 DEF TypeOK
    <3>4. ASSUME NEW q \in Regs PROVE Len(queue'[q]) <= QueueCap
      BY <2>1, <2>4, <3>1, RegistryAssumption DEF TypeOK
    <3>5. TypeOK'
      <4>1. UNCHANGED <<entry, rpc, alive, silent, key, opened, token, target>>
        BY <1>9 DEF SendCommand, regVars
      <4>2. cpc' \in [Clients -> {"start", "verify", "send", "sent", "rejected"}]
        BY <1>9 DEF SendCommand, TypeOK
      <4> QED BY <3>3, <3>4, <4>1, <4>2 DEF TypeOK
    <3>6. ASSUME NEW q \in Regs, NEW d \in Commanded(q)'
          PROVE  d \in Commanded(q) \/ (d = c /\ q = r)
      <4>1. CASE q = r
        <5>1. queue'[q] = Append(queue[r], c) /\ opened'[q] = opened[r]
          BY <1>9, <2>1, <2>4, <4>1 DEF SendCommand, TypeOK
        <5> QED BY <3>2, <4>1, <5>1 DEF Commanded
      <4>2. CASE q # r
        <5>1. queue'[q] = queue[q] /\ opened'[q] = opened[q]
          BY <1>9, <2>4, <4>2 DEF SendCommand, TypeOK
        <5> QED BY <5>1 DEF Commanded
      <4> QED BY <4>1, <4>2
    <3>7. UNCHANGED <<token, key>>
      BY <1>9 DEF SendCommand, regVars
    <3>8. CommandsAreVouched'
      <4> SUFFICES ASSUME NEW q \in Regs, NEW d \in Commanded(q)'
                   PROVE  /\ token[d].key = key[q]
                          /\ token[d].sub = d
                          /\ token[d].server = Server /\ token[d].audience = Server
                          /\ token[d].connect
        BY <3>7 DEF CommandsAreVouched
      <4>1. CASE d \in Commanded(q)
        BY <4>1 DEF CommandsAreVouched
      <4>2. CASE d = c /\ q = r
        BY <2>1, <4>2 DEF TokenGrants
      <4> QED BY <3>6, <4>1, <4>2
    <3> QED BY <2>2, <3>5, <3>8
  <2> QED BY <1>9, <2>3, <2>4 DEF SendCommand
<1>10. CASE UNCHANGED vars
  <2>1. TypeOK' /\ EntryHasReceiver' /\ Cloned'
    BY <1>10 DEF vars, TypeOK, EntryHasReceiver, Cloned, TokenGrants
  <2>2. \A q \in Regs : Commanded(q)' \subseteq Commanded(q)
    BY <1>10 DEF vars, Commanded
  <2> QED BY <1>10, <2>1, <2>2, VouchedKept DEF vars
<1> QED BY <1>1, <1>2, <1>3, <1>4, <1>5, <1>6, <1>7, <1>8, <1>9, <1>10
        DEF Next, RegStep, ConnStep

\* The invariant holds in every reachable state.
LEMMA AlwaysSafe == Spec => []Safe
BY InitSafe, NextSafe, PTL DEF Spec

(***************************************************************************)
(* The registry stays within its types and every control channel within    *)
(* its capacity, however many registrations and connect requests there are *)
(***************************************************************************)
THEOREM RegistryTyped == Spec => []TypeOK
<1>1. Safe => TypeOK
  BY DEF Safe
<1> QED BY <1>1, AlwaysSafe, PTL

(***************************************************************************)
(* server_entry never hands out a registration whose handler has returned. *)
(***************************************************************************)
THEOREM LookupsFindReceivers == Spec => []EntryHasReceiver
<1>1. Safe => EntryHasReceiver
  BY DEF Safe
<1> QED BY <1>1, AlwaysSafe, PTL

(***************************************************************************)
(* An OpenTunnel command only reaches the control connection whose key     *)
(* verified the token of the client that asked for it.                     *)
(***************************************************************************)
THEOREM TokenBinding == Spec => []CommandsAreVouched
<1>1. Safe => CommandsAreVouched
  BY DEF Safe
<1> QED BY <1>1, AlwaysSafe, PTL

(***************************************************************************)
(* Only the registration that is listed removes the entry, and only when   *)
(* its own loop has ended.                                                 *)
(***************************************************************************)
THEOREM RemovalByOwner == Spec => OwnerUnlists
<1>1. [Next]_vars => [entry # NoReg /\ entry' = NoReg => rpc[entry] = "closing"]_vars
  BY DEF Next, RegStep, ConnStep, Dial, Upsert, Dispatch, RecvClose,
     RemoveServerIfCurrent, Disconnect, LookupServer, ValidateToken, SendCommand,
     regVars, vars, Regs, NoReg
<1> QED BY <1>1, PTL DEF Spec, OwnerUnlists
=============================================================================
