---------------------------- MODULE ShellProofs ----------------------------
(***************************************************************************)
(* Proofs about ShellInteractive, for any amount of output and input and   *)
(* any capacity of the PTY and the channels.                               *)
(***************************************************************************)
EXTENDS ShellInteractive, SequenceTheorems, FiniteSetTheorems, TLAPS

Events == [kind : {"ready", "output", "ack", "exit", "timeout", "closed"}, n : Nat]
Ends == {"exit", "timeout"}

Typed ==
    /\ outbound \in Seq(Events) /\ delivered \in Seq(Events)
    /\ ptyOut \in Seq(Nat) /\ written \in Nat /\ chunk \in Nat
    /\ reader \in {"none", "read", "send", "done"}
    /\ pc \in {"spawn", "ready"} => reader = "none"
    /\ meta \in {"none", "idle", "max"} \cup CloseEvents

\* The chunks that have been sent, and the one in the reader's hand.
Passed == Cardinality(Kinds({"output"}))
Held == IF reader = "send" THEN 1 ELSE 0

\* What the shell has written is what was sent, then what the reader holds,
\* then what the PTY holds: the reader takes up where the channel leaves off.
Pipeline ==
    reader # "done" =>
        /\ reader = "send" => chunk = Passed + 1
        /\ \A i \in 1..Len(ptyOut) : ptyOut[i] = Passed + Held + i
        /\ Passed + Held + Len(ptyOut) = written

\* Where the main loop is says what it has sent of the end.
MainLoop ==
    /\ pc \notin {"close", "join", "done"} => Kinds(Ends) = {}
    /\ pc \in {"close", "join", "done"} => Kinds(Ends) # {}
    /\ pc \notin {"join", "done"} => Kinds({"closed"}) = {}
    /\ pc \in {"exit", "close", "join", "done"} => shell = "reaped"

EndInv == Typed /\ MainLoop /\ EndIsTrue
PipeInv == Typed /\ Pipeline /\ OutputIsPrefix

-----------------------------------------------------------------------------
(* What the two ends of the outbound channel do to the events sent.        *)

\* A sender appends to them.
LEMMA ConcatAppend ==
    ASSUME NEW S, NEW d \in Seq(S), NEW o \in Seq(S), NEW e \in S
    PROVE  d \o Append(o, e) = Append(d \o o, e)
OBVIOUS

\* The event loop only moves the border between delivered and outbound.
LEMMA ConcatMove ==
    ASSUME NEW S, NEW d \in Seq(S), NEW o \in Seq(S), o # <<>>
    PROVE  Append(d, Head(o)) \o Tail(o) = d \o o
OBVIOUS

\* A send puts one event at the end of everything sent.
LEMMA SentAppends ==
    ASSUME Typed, NEW e \in Events, outbound' = Append(outbound, e), delivered' = delivered
    PROVE  /\ outbound' \in Seq(Events)
           /\ Len(Sent) \in Nat
           /\ DOMAIN Sent = 1..Len(Sent) /\ DOMAIN Sent' = 1..(Len(Sent) + 1)
           /\ \A i \in 1..Len(Sent) : Sent'[i] = Sent[i]
           /\ Sent'[Len(Sent) + 1] = e
<1>1. outbound \in Seq(Events) /\ delivered \in Seq(Events)
  BY DEF Typed
<1>2. Sent' = Append(Sent, e)
  BY <1>1, ConcatAppend DEF Sent
<1>3. Sent \in Seq(Events)
  BY <1>1, ConcatProperties DEF Sent
<1>4. outbound' \in Seq(Events)
  BY <1>1, AppendProperties
<1> QED BY <1>2, <1>3, <1>4, AppendProperties, LenProperties

\* The session taking an event changes nothing in what was sent.
LEMMA SentMoves ==
    ASSUME Typed, TakeEvent
    PROVE  Sent' = Sent /\ outbound' \in Seq(Events) /\ delivered' \in Seq(Events)
<1>1. outbound \in Seq(Events) /\ delivered \in Seq(Events) /\ outbound # <<>>
  BY DEF Typed, TakeEvent
<1>2. delivered' = Append(delivered, Head(outbound)) /\ outbound' = Tail(outbound)
  BY DEF TakeEvent
<1>3. Sent' = Sent
  BY <1>1, <1>2, ConcatMove DEF Sent
<1> QED BY <1>1, <1>2, <1>3, HeadTailProperties, AppendProperties

\* So the positions of a kind of event gain the new one at most.
LEMMA KindsGrow ==
    ASSUME Typed, NEW e \in Events, outbound' = Append(outbound, e), delivered' = delivered,
           NEW ks
    PROVE  Kinds(ks)' = Kinds(ks) \cup (IF e.kind \in ks THEN {Len(Sent) + 1} ELSE {})
<1>1. /\ Len(Sent) \in Nat
      /\ DOMAIN Sent = 1..Len(Sent) /\ DOMAIN Sent' = 1..(Len(Sent) + 1)
      /\ \A i \in 1..Len(Sent) : Sent'[i] = Sent[i]
      /\ Sent'[Len(Sent) + 1] = e
  BY SentAppends
<1>2. 1..(Len(Sent) + 1) = (1..Len(Sent)) \cup {Len(Sent) + 1}
  BY <1>1
<1> QED BY <1>1, <1>2 DEF Kinds

\* They are finitely many, at or below the last.
LEMMA KindsFinite ==
    ASSUME Typed, NEW ks
    PROVE  /\ IsFiniteSet(Kinds(ks)) /\ Cardinality(Kinds(ks)) \in Nat
           /\ Len(Sent) \in Nat /\ Kinds(ks) \subseteq 1..Len(Sent)
<1>1. Len(Sent) \in Nat /\ DOMAIN Sent = 1..Len(Sent)
  <2>1. Sent \in Seq(Events)
    BY ConcatProperties DEF Typed, Sent
  <2> QED BY <2>1, LenProperties
<1>2. Kinds(ks) \subseteq 1..Len(Sent)
  BY <1>1 DEF Kinds
<1>3. IsFiniteSet(1..Len(Sent))
  BY <1>1, FS_Interval
<1> QED BY <1>1, <1>2, <1>3, FS_Subset, FS_CardinalityType

\* The event loop has ended only if Closed has been sent.
LEMMA LoopEndedByClosed ==
    ASSUME Typed, LoopEnded
    PROVE  Kinds({"closed"}) # {}
<1>1. PICK i \in DOMAIN delivered : delivered[i] = Closed
  BY DEF LoopEnded, ToSet
<1>2. /\ Len(delivered) \in Nat /\ Len(outbound) \in Nat /\ i \in 1..Len(delivered)
      /\ Sent \in Seq(Events) /\ Len(Sent) = Len(delivered) + Len(outbound)
      /\ \A k \in 1..(Len(delivered) + Len(outbound)) :
            Sent[k] = IF k <= Len(delivered) THEN delivered[k] ELSE outbound[k - Len(delivered)]
  BY <1>1, LenProperties, ConcatProperties DEF Typed, Sent
<1>3. i \in DOMAIN Sent /\ Sent[i] = Closed
  BY <1>1, <1>2, LenProperties
<1> QED BY <1>3 DEF Kinds, Closed, Event

-----------------------------------------------------------------------------
(* The types.                                                              *)

\* Every step keeps them.
LEMMA TypedStep == Typed /\ [Next]_vars => Typed'
<1> SUFFICES ASSUME Typed, [Next]_vars PROVE Typed'
  OBVIOUS
<1> USE DEF Typed, os, client, main, copying, channel
<1>1. ASSUME NEW e \in Events, Send(e), delivered' = delivered
      PROVE  outbound' \in Seq(Events) /\ delivered' \in Seq(Events)
  <2>1. CASE UNCHANGED outbound
    BY <1>1, <2>1
  <2>2. CASE outbound' = Append(outbound, e)
    BY <1>1, <2>2, SentAppends
  <2> QED BY <1>1, <2>1, <2>2 DEF Send
<1>2. /\ Event("ready", 0) \in Events /\ Event("ack", 0) \in Events
      /\ Event("exit", 0) \in Events /\ Event("timeout", 0) \in Events
      /\ Closed \in Events /\ Event("output", chunk) \in Events
  BY DEF Events, Event, Closed
<1>3. CASE UNCHANGED vars
  BY <1>3 DEF vars
<1>4. CASE ShellReads \/ ShellExits \/ JobStarts \/ JobEnds \/ ClientSends \/ UserDetaches \/ Spawn \/ Reap
  BY <1>4 DEF ShellReads, ShellExits, JobStarts, JobEnds, ClientSends, UserDetaches, Spawn, Reap
<1>5. CASE ShellWrites
  <2>1. written' \in Nat /\ ptyOut' \in Seq(Nat)
    BY <1>5, AppendProperties DEF ShellWrites
  <2> QED BY <1>5, <2>1 DEF ShellWrites
<1>6. CASE TakeEvent
  BY <1>6, SentMoves DEF TakeEvent
<1>7. CASE SendReady
  BY <1>7, <1>1, <1>2 DEF SendReady
<1>8. CASE RecvClose \/ RecvInput \/ RecvHeartbeat
  BY <1>8 DEF RecvClose, RecvInput, RecvHeartbeat, TerminateChild
<1>9. CASE RecvExit \/ PtyWrite \/ Join
  BY <1>9 DEF RecvExit, PtyWrite, Join
<1>10. CASE SendAck
  BY <1>10, <1>1, <1>2 DEF SendAck
<1>11. CASE SendExit
  BY <1>11, <1>1, <1>2 DEF SendExit
<1>12. CASE SendClosed
  BY <1>12, <1>1, <1>2 DEF SendClosed
<1>13. CASE \E d \in {"idle", "max"} : Deadline(d)
  BY <1>13 DEF Deadline
<1>14. CASE ReaderReads
  <2>1. chunk' \in Nat /\ ptyOut' \in Seq(Nat)
    BY <1>14, HeadTailProperties DEF ReaderReads
  <2> QED BY <1>14, <2>1 DEF ReaderReads
<1>15. CASE ReaderSends
  <2>1. outbound' \in Seq(Events)
    BY <1>15, <1>2, SentAppends DEF ReaderSends
  <2> QED BY <1>15, <2>1 DEF ReaderSends
<1>16. CASE ReaderEnds
  BY <1>16 DEF ReaderEnds
<1> QED
  BY <1>3, <1>4, <1>5, <1>6, <1>7, <1>8, <1>9, <1>10, <1>11, <1>12, <1>13, <1>14,
     <1>15, <1>16 DEF Next, Receive, Report, ReaderStep

-----------------------------------------------------------------------------
(* The end of a session.                                                   *)

\* The initial state.
LEMMA EndInit == Init => EndInv
<1> SUFFICES ASSUME Init PROVE EndInv
  OBVIOUS
<1>1. Typed
  BY EmptySeq DEF Init, Typed
<1>2. Sent = <<>>
  BY ConcatEmptySeq, EmptySeq DEF Init, Sent
<1>3. DOMAIN Sent = {}
  BY <1>2
<1>4. \A ks : Kinds(ks) = {}
  BY <1>3 DEF Kinds
<1>5. MainLoop
  BY <1>4 DEF Init, MainLoop
<1>6. EndIsTrue
  BY <1>4, FS_EmptySet DEF EndIsTrue
<1> QED BY <1>1, <1>5, <1>6 DEF EndInv

\* A step that sends nothing leaves what was sent alone.
LEMMA QuietKinds ==
    ASSUME UNCHANGED channel
    PROVE  Sent' = Sent /\ \A ks : Kinds(ks)' = Kinds(ks)
BY DEF channel, Sent, Kinds

\* An event that says nothing of the end says nothing of it.
LEMMA OtherEventSent ==
    ASSUME EndInv, NEW e \in Events, e.kind \notin Ends \cup {"closed"},
           Send(e) \/ outbound' = Append(outbound, e), delivered' = delivered,
           pc' = pc \/ (pc \in {"ready", "ack"} /\ pc' = "select"),
           UNCHANGED <<shell, meta>>
    PROVE  MainLoop' /\ EndIsTrue'
<1>1. CASE UNCHANGED outbound
  <2>1. \A ks : Kinds(ks)' = Kinds(ks)
    BY <1>1, QuietKinds DEF channel
  <2> QED BY <2>1 DEF EndInv, MainLoop, EndIsTrue
<1>2. CASE outbound' = Append(outbound, e)
  <2>1. \A ks : Kinds(ks)' = Kinds(ks) \cup (IF e.kind \in ks THEN {Len(Sent) + 1} ELSE {})
    BY <1>2, KindsGrow DEF EndInv
  <2>2. /\ Kinds(Ends)' = Kinds(Ends) /\ Kinds({"closed"})' = Kinds({"closed"})
        /\ Kinds({"timeout"})' = Kinds({"timeout"}) /\ Kinds({"exit"})' = Kinds({"exit"})
        /\ Kinds({"exit", "timeout"})' = Kinds({"exit", "timeout"})
    BY <2>1 DEF Ends
  <2> QED BY <2>2 DEF EndInv, MainLoop, EndIsTrue
<1> QED BY <1>1, <1>2 DEF Send

\* Every step keeps the invariant.
LEMMA EndStep == EndInv /\ [Next]_vars => EndInv'
<1> SUFFICES ASSUME EndInv, [Next]_vars PROVE EndInv'
  OBVIOUS
<1>1. Typed' /\ Typed
  BY TypedStep DEF EndInv
<1> SUFFICES MainLoop' /\ EndIsTrue'
  BY <1>1 DEF EndInv
<1> USE DEF os, client, main, copying, channel
<1>2. ASSUME UNCHANGED channel,
             pc' \in {"close", "join", "done"} <=> pc \in {"close", "join", "done"},
             pc' \in {"join", "done"} <=> pc \in {"join", "done"},
             pc' \in {"exit", "close", "join", "done"} => shell' = "reaped",
             pc = "spawn" \/ (shell = "reaped" => shell' = "reaped"),
             pc = "select" \/ meta' = meta
      PROVE  MainLoop' /\ EndIsTrue'
  <2>1. \A ks : Kinds(ks)' = Kinds(ks)
    BY <1>2, QuietKinds
  <2>2. MainLoop'
    BY <2>1, <1>2 DEF EndInv, MainLoop
  <2>3. pc = "select" => Kinds({"exit", "timeout"}) = {}
    BY DEF EndInv, MainLoop, Ends
  <2>4. pc = "select" => Kinds({"exit"}) = {} /\ Kinds({"timeout"}) = {}
    BY <2>3 DEF Kinds
  <2>5. pc = "spawn" => Kinds({"exit", "timeout"}) = {}
    BY DEF EndInv, MainLoop, Ends
  <2> QED BY <2>1, <2>2, <2>3, <2>4, <2>5, <1>2 DEF EndInv, EndIsTrue
<1>3. /\ Event("ready", 0) \in Events /\ Event("ready", 0).kind = "ready"
      /\ Event("ack", 0) \in Events /\ Event("ack", 0).kind = "ack"
      /\ Event("exit", 0) \in Events /\ Event("exit", 0).kind = "exit"
      /\ Event("timeout", 0) \in Events /\ Event("timeout", 0).kind = "timeout"
      /\ Closed \in Events /\ Closed.kind = "closed"
      /\ Event("output", chunk) \in Events /\ Event("output", chunk).kind = "output"
  BY <1>1 DEF Events, Event, Closed, Typed
<1>4. CASE UNCHANGED vars
  BY <1>4, <1>2 DEF vars, EndInv, MainLoop
<1>5. CASE ShellReads \/ ShellWrites \/ ShellExits \/ JobStarts \/ JobEnds \/ ClientSends \/ UserDetaches \/ Reap
  BY <1>5, <1>2 DEF ShellReads, ShellWrites, ShellExits, JobStarts, JobEnds, ClientSends, UserDetaches, Reap,
     EndInv, MainLoop
<1>6. CASE TakeEvent
  <2>1. Sent' = Sent
    BY <1>1, <1>6, SentMoves
  <2>2. \A ks : Kinds(ks)' = Kinds(ks)
    BY <2>1 DEF Kinds
  <2> QED BY <2>2, <1>6 DEF TakeEvent, EndInv, MainLoop, EndIsTrue
<1>7. CASE Spawn
  BY <1>7, <1>2 DEF Spawn, EndInv, MainLoop
<1>8. CASE SendReady
  BY <1>8, <1>3, OtherEventSent DEF SendReady, Ends
<1>9. CASE SendAck
  BY <1>9, <1>3, OtherEventSent DEF SendAck, Ends
<1>10. CASE RecvClose \/ RecvInput \/ RecvHeartbeat
  BY <1>10, <1>2 DEF RecvClose, RecvInput, RecvHeartbeat, TerminateChild, EndInv, MainLoop
<1>11. CASE RecvExit \/ PtyWrite \/ Join
  BY <1>11, <1>2 DEF RecvExit, PtyWrite, Join, EndInv, MainLoop
<1>12. CASE \E d \in {"idle", "max"} : Deadline(d)
  BY <1>12, <1>2 DEF Deadline, EndInv, MainLoop
<1>13. CASE ReaderReads \/ ReaderEnds
  BY <1>13, <1>2 DEF ReaderReads, ReaderEnds, EndInv, MainLoop
<1>14. CASE ReaderSends
  <2>1. CASE LoopEnded
    BY <1>14, <2>1, <1>2 DEF ReaderSends, EndInv, MainLoop
  <2>2. CASE ~LoopEnded
    BY <1>14, <2>2, <1>3, OtherEventSent DEF ReaderSends, Ends
  <2> QED BY <2>1, <2>2
<1>15. CASE SendExit
  <2> DEFINE e == Event(IF meta \in {"idle", "max"} THEN "timeout" ELSE "exit", 0)
  <2>1. /\ e \in Events /\ Send(e) /\ pc = "exit" /\ pc' = "close"
        /\ delivered' = delivered /\ UNCHANGED <<shell, meta>>
        /\ e.kind = IF meta \in {"idle", "max"} THEN "timeout" ELSE "exit"
    BY <1>15, <1>3 DEF SendExit, Event
  <2> HIDE DEF e
  <2>2. Kinds({"closed"}) = {} /\ Kinds({"exit", "timeout"}) = {} /\ shell = "reaped"
    BY <2>1 DEF EndInv, MainLoop, Ends
  <2>3. outbound' = Append(outbound, e)
    BY <1>1, <2>1, <2>2, LoopEndedByClosed DEF Send
  <2>4. \A ks : Kinds(ks)' = Kinds(ks) \cup (IF e.kind \in ks THEN {Len(Sent) + 1} ELSE {})
    BY <1>1, <2>1, <2>3, KindsGrow
  <2>5. Kinds({"exit"}) = {} /\ Kinds({"timeout"}) = {}
    BY <2>2 DEF Kinds
  <2>6. /\ Kinds({"exit", "timeout"})' = {Len(Sent) + 1} /\ Kinds({"closed"})' = {}
        /\ Kinds({"timeout"})' # {} => meta' \in {"idle", "max"}
        /\ Kinds({"exit"})' # {} => meta' \notin {"idle", "max"}
    BY <2>1, <2>2, <2>4, <2>5
  <2>7. meta' \in {"none", "idle", "max"} \cup CloseEvents
    BY <1>1 DEF Typed
  <2>8. Cardinality(Kinds({"exit", "timeout"}))' = 1
    BY <2>6, FS_Singleton
  <2>9. MainLoop'
    BY <2>1, <2>2, <2>6 DEF MainLoop, Ends
  <2>10. EndIsTrue'
    <3>1. Kinds({"exit"})' # {} => meta' \in {"none"} \cup CloseEvents
      BY <2>6, <2>7
    <3>2. Cardinality(Kinds({"exit", "timeout"}))' <= 1
      BY <2>8
    <3>3. shell' = "reaped" /\ Kinds({"closed"})' = {}
      BY <2>1, <2>2, <2>6
    <3> QED BY <2>6, <3>1, <3>2, <3>3, Zenon DEF EndIsTrue
  <2> QED BY <2>9, <2>10
<1>16. CASE SendClosed
  <2>1. /\ Send(Closed) /\ pc = "close" /\ pc' = "join"
        /\ delivered' = delivered /\ UNCHANGED <<shell, meta>>
    BY <1>16 DEF SendClosed
  <2>2. Kinds({"closed"}) = {} /\ Kinds({"exit", "timeout"}) # {} /\ shell = "reaped"
    BY <2>1 DEF EndInv, MainLoop, Ends
  <2>3. outbound' = Append(outbound, Closed)
    BY <1>1, <2>1, <2>2, LoopEndedByClosed DEF Send
  <2>4. \A ks : Kinds(ks)' = Kinds(ks) \cup (IF "closed" \in ks THEN {Len(Sent) + 1} ELSE {})
    BY <1>1, <1>3, <2>3, <2>1, KindsGrow
  <2>5. /\ Kinds({"exit", "timeout"})' = Kinds({"exit", "timeout"})
        /\ Kinds({"timeout"})' = Kinds({"timeout"}) /\ Kinds({"exit"})' = Kinds({"exit"})
        /\ Kinds({"closed"})' = {Len(Sent) + 1}
    BY <2>2, <2>4
  <2>6. \A j \in Kinds({"exit", "timeout"}) : j < Len(Sent) + 1
    BY <1>1, KindsFinite
  <2>7. MainLoop'
    BY <2>1, <2>2, <2>5 DEF MainLoop, Ends
  <2>8. EndIsTrue'
    BY <2>1, <2>2, <2>5, <2>6 DEF EndInv, EndIsTrue
  <2> QED BY <2>7, <2>8
<1> QED
  BY <1>4, <1>5, <1>6, <1>7, <1>8, <1>9, <1>10, <1>11, <1>12, <1>13, <1>14, <1>15,
     <1>16 DEF Next, Receive, Report, ReaderStep

(***************************************************************************)
(* A session reports its end once, after its shell has been reaped, and    *)
(* blames a timeout exactly if a deadline was the last to ask for the end, *)
(* whatever the client, the shell, the deadlines and the reader do.        *)
(***************************************************************************)
THEOREM TrueEnd == Spec => []EndIsTrue
<1>1. EndInv => EndIsTrue
  BY DEF EndInv
<1> QED BY <1>1, EndInit, EndStep, PTL DEF Spec

-----------------------------------------------------------------------------
(* The output.                                                             *)

\* The initial state.
LEMMA PipeInit == Init => PipeInv
<1> SUFFICES ASSUME Init PROVE PipeInv
  OBVIOUS
<1>1. Typed
  BY EmptySeq DEF Init, Typed
<1>2. Sent = <<>>
  BY ConcatEmptySeq, EmptySeq DEF Init, Sent
<1>3. DOMAIN Sent = {}
  BY <1>2
<1>4. Kinds({"output"}) = {}
  BY <1>3 DEF Kinds
<1>5. Passed = 0
  BY <1>4, FS_EmptySet DEF Passed
<1>6. Pipeline
  BY <1>5 DEF Init, Pipeline, Held
<1> QED BY <1>1, <1>4, <1>6 DEF PipeInv, OutputIsPrefix

\* The positions of the output, and so the order of the output, change only
\* when output is sent.
LEMMA OutputKept ==
    ASSUME PipeInv,
           \/ Sent' = Sent
           \/ /\ delivered' = delivered
              /\ \E e \in Events : e.kind # "output" /\ outbound' = Append(outbound, e)
    PROVE  Passed' = Passed /\ OutputIsPrefix'
<1>1. CASE Sent' = Sent
  BY <1>1 DEF PipeInv, OutputIsPrefix, Passed, Kinds
<1>2. ASSUME NEW e \in Events, e.kind # "output", outbound' = Append(outbound, e),
             delivered' = delivered
      PROVE  Passed' = Passed /\ OutputIsPrefix'
  <2>1. Kinds({"output"})' = Kinds({"output"})
    <3>1. \A ks : Kinds(ks)' = Kinds(ks) \cup (IF e.kind \in ks THEN {Len(Sent) + 1} ELSE {})
      BY <1>2, KindsGrow DEF PipeInv
    <3> QED BY <1>2, <3>1
  <2>2. \A i \in Kinds({"output"}) : Sent'[i] = Sent[i]
    BY <1>2, SentAppends, KindsFinite DEF PipeInv
  <2> QED BY <2>1, <2>2 DEF PipeInv, OutputIsPrefix, Passed
<1> QED BY <1>1, <1>2

\* The reader sends the chunk it holds.
LEMMA OutputSent ==
    ASSUME PipeInv, reader = "send", reader' = "read", UNCHANGED <<os, delivered>>,
           outbound' = Append(outbound, Event("output", chunk))
    PROVE  Pipeline' /\ OutputIsPrefix'
<1> DEFINE e == Event("output", chunk)
           K == Kinds({"output"})
           n == Len(Sent) + 1
<1>1. Typed /\ e \in Events /\ e.kind = "output" /\ e.n = chunk
  BY DEF PipeInv, Typed, Events, Event
<1>2. /\ Kinds({"output"})' = K \cup {n}
      /\ \A i \in 1..Len(Sent) : Sent'[i] = Sent[i]
      /\ Sent'[n] = e
  BY <1>1, KindsGrow, SentAppends
<1>3. IsFiniteSet(K) /\ Cardinality(K) \in Nat /\ Len(Sent) \in Nat /\ K \subseteq 1..Len(Sent)
  BY <1>1, KindsFinite
<1>4. n \notin K
  BY <1>3
<1>5. Cardinality(K \cup {n}) = Cardinality(K) + 1
  BY <1>3, <1>4, FS_AddElement
<1>6. Passed = Cardinality(K) /\ Passed' = Passed + 1 /\ Passed \in Nat
  BY <1>2, <1>3, <1>5 DEF Passed
<1>7. chunk = Passed + 1 /\ Held = 1 /\ Held' = 0
  BY DEF PipeInv, Pipeline, Held
<1>8. Pipeline'
  <2>1. /\ \A i \in 1..Len(ptyOut) : ptyOut[i] = Passed + 1 + i
        /\ Passed + 1 + Len(ptyOut) = written
    BY <1>7 DEF PipeInv, Pipeline
  <2>2. ptyOut' = ptyOut /\ written' = written
    BY DEF os
  <2>3. Len(ptyOut) \in Nat
    BY <1>1, LenProperties DEF Typed
  <2> QED BY <1>6, <1>7, <2>1, <2>2, <2>3 DEF Pipeline
<1>9. ASSUME NEW i \in K \cup {n}
      PROVE  Sent'[i].n = Cardinality({j \in K \cup {n} : j <= i})
  <2>1. CASE i = n
    <3>1. {j \in K \cup {n} : j <= i} = K \cup {n}
      BY <1>3, <2>1
    <3> QED BY <1>1, <1>2, <1>5, <1>6, <1>7, <2>1, <3>1
  <2>2. CASE i \in K
    <3>1. {j \in K \cup {n} : j <= i} = {j \in K : j <= i}
      BY <1>3, <2>2
    <3>2. Sent'[i] = Sent[i]
      BY <1>2, <1>3, <2>2
    <3>3. Sent[i].n = Cardinality({j \in K : j <= i})
      BY <2>2 DEF PipeInv, OutputIsPrefix
    <3> QED BY <3>1, <3>2, <3>3
  <2> QED BY <2>1, <2>2
<1>10. OutputIsPrefix'
  BY <1>2, <1>9 DEF OutputIsPrefix
<1> QED BY <1>8, <1>10

\* Every step keeps the invariant.
LEMMA PipeStep == PipeInv /\ [Next]_vars => PipeInv'
<1> SUFFICES ASSUME PipeInv, [Next]_vars PROVE PipeInv'
  OBVIOUS
<1>1. Typed' /\ Typed
  BY TypedStep DEF PipeInv
<1> SUFFICES Pipeline' /\ OutputIsPrefix'
  BY <1>1 DEF PipeInv
<1> USE DEF os, client, main, copying, channel
<1>2. Passed \in Nat /\ Len(ptyOut) \in Nat
  BY <1>1, KindsFinite, LenProperties DEF Passed, Typed
<1>3. ASSUME UNCHANGED channel PROVE Passed' = Passed /\ OutputIsPrefix'
  BY <1>3, QuietKinds, OutputKept
<1>4. ASSUME NEW k \in {"ready", "ack", "exit", "timeout", "closed"}, Send(Event(k, 0)),
             delivered' = delivered
      PROVE  Passed' = Passed /\ OutputIsPrefix'
  <2>1. Event(k, 0) \in Events /\ Event(k, 0).kind # "output"
    BY DEF Event, Events
  <2> QED BY <1>3, <1>4, <2>1, OutputKept DEF Send
<1>5. ASSUME Passed' = Passed, UNCHANGED <<ptyOut, written, chunk>>,
             reader' = reader \/ (reader = "none" /\ reader' = "read") \/ reader' = "done"
      PROVE  Pipeline'
  <2>1. reader' # "done" => Held' = Held
    BY <1>5 DEF Held
  <2> QED BY <1>5, <2>1 DEF PipeInv, Pipeline
<1>6. CASE UNCHANGED vars
  BY <1>6, <1>3, <1>5 DEF vars
<1>7. CASE ShellReads \/ ShellExits \/ JobStarts \/ JobEnds \/ ClientSends \/ UserDetaches \/ Spawn \/ Reap
  BY <1>7, <1>3, <1>5 DEF ShellReads, ShellExits, JobStarts, JobEnds, ClientSends, UserDetaches, Spawn, Reap
<1>8. CASE RecvClose \/ RecvInput \/ RecvHeartbeat \/ RecvExit \/ PtyWrite \/ Join
  BY <1>8, <1>3, <1>5 DEF RecvClose, RecvInput, RecvHeartbeat, RecvExit, PtyWrite, Join
<1>9. CASE \E d \in {"idle", "max"} : Deadline(d)
  BY <1>9, <1>3, <1>5 DEF Deadline
<1>10. CASE ReaderEnds
  BY <1>10, <1>3, <1>5 DEF ReaderEnds
<1>11. CASE TakeEvent
  <2>1. Passed' = Passed /\ OutputIsPrefix'
    BY <1>1, <1>11, SentMoves, OutputKept
  <2> QED BY <1>11, <2>1, <1>5 DEF TakeEvent
<1>12. CASE SendReady
  <2>1. reader = "none" /\ reader' = "read"
    BY <1>1, <1>12 DEF SendReady, Typed
  <2> QED BY <1>12, <2>1, <1>4, <1>5 DEF SendReady
<1>13. CASE SendAck
  BY <1>13, <1>4, <1>5 DEF SendAck
<1>14. CASE SendExit
  BY <1>14, <1>4, <1>5 DEF SendExit
<1>15. CASE SendClosed
  BY <1>15, <1>4, <1>5 DEF SendClosed, Closed
<1>16. CASE ShellWrites
  <2>1. Passed' = Passed /\ OutputIsPrefix' /\ Held' = Held
    BY <1>16, <1>3 DEF ShellWrites, Held
  <2>2. /\ Len(ptyOut') = Len(ptyOut) + 1
        /\ \A i \in 1..Len(ptyOut) : ptyOut'[i] = ptyOut[i]
        /\ ptyOut'[Len(ptyOut) + 1] = written + 1
    BY <1>1, <1>16, AppendProperties DEF ShellWrites, Typed
  <2>3. written' = written + 1 /\ written \in Nat /\ UNCHANGED <<reader, chunk>>
    BY <1>1, <1>16 DEF ShellWrites, Typed
  <2>4. Held \in Nat
    BY DEF Held
  <2>5. Pipeline'
    <3> SUFFICES ASSUME reader # "done" PROVE Pipeline'
      BY <2>3 DEF Pipeline
    <3>1. /\ reader = "send" => chunk = Passed + 1
          /\ \A i \in 1..Len(ptyOut) : ptyOut[i] = Passed + Held + i
          /\ Passed + Held + Len(ptyOut) = written
      BY DEF PipeInv, Pipeline
    <3>2. \A i \in 1..(Len(ptyOut) + 1) : ptyOut'[i] = Passed + Held + i
      BY <1>2, <2>2, <2>4, <3>1
    <3>3. Passed + Held + (Len(ptyOut) + 1) = written + 1
      BY <1>2, <2>4, <3>1
    <3> HIDE DEF Held
    <3> QED BY <2>1, <2>2, <2>3, <3>1, <3>2, <3>3 DEF Pipeline
  <2> QED BY <2>1, <2>5
<1>17. CASE ReaderReads
  <2>1. Passed' = Passed /\ OutputIsPrefix' /\ Held = 0 /\ Held' = 1
    BY <1>17, <1>3 DEF ReaderReads, Held
  <2>2. /\ ptyOut' = Tail(ptyOut) /\ chunk' = Head(ptyOut) /\ written' = written
        /\ reader = "read" /\ reader' = "send" /\ ptyOut # <<>>
    BY <1>17 DEF ReaderReads
  <2>3. /\ Len(ptyOut') = Len(ptyOut) - 1 /\ Len(ptyOut) \in Nat \ {0}
        /\ \A i \in 1..Len(ptyOut') : ptyOut'[i] = ptyOut[i + 1]
        /\ chunk' = ptyOut[1]
    BY <1>1, <2>2, HeadTailProperties, EmptySeq DEF Typed
  <2>4. /\ \A i \in 1..Len(ptyOut) : ptyOut[i] = Passed + i
        /\ Passed + Len(ptyOut) = written
    BY <1>2, <2>1, <2>2 DEF PipeInv, Pipeline
  <2>5. chunk' = Passed + 1
    BY <2>3, <2>4
  <2>6. \A i \in 1..Len(ptyOut') : ptyOut'[i] = Passed + 1 + i
    BY <1>2, <2>3, <2>4
  <2>7. Passed + 1 + Len(ptyOut') = written
    BY <1>2, <2>3, <2>4
  <2>8. Pipeline'
    BY <2>1, <2>2, <2>5, <2>6, <2>7 DEF Pipeline
  <2> QED BY <2>1, <2>8
<1>18. CASE ReaderSends
  <2>1. CASE LoopEnded
    BY <1>18, <2>1, <1>3, <1>5 DEF ReaderSends
  <2>2. CASE ~LoopEnded
    BY <1>18, <2>2, OutputSent DEF ReaderSends
  <2> QED BY <2>1, <2>2
<1> QED
  BY <1>6, <1>7, <1>8, <1>9, <1>10, <1>11, <1>12, <1>13, <1>14, <1>15, <1>16, <1>17,
     <1>18 DEF Next, Receive, Report, ReaderStep

(***************************************************************************)
(* The client gets the shell's output in order, each chunk once and none   *)
(* skipped, although two tasks write to the channel and the event loop may *)
(* stop taking from it at any time.                                        *)
(***************************************************************************)
THEOREM OutputInOrder == Spec => []OutputIsPrefix
<1>1. PipeInv => OutputIsPrefix
  BY DEF PipeInv
<1> QED BY <1>1, PipeInit, PipeStep, PTL DEF Spec
=============================================================================
