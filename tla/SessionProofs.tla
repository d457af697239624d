--------------------------- MODULE SessionProofs ---------------------------
(***************************************************************************)
(* Proofs about Session, for any number of resumes, any capacities and any *)
(* amount of output, and about its composition with the processes of a     *)
(* command line client (ClientSession).                                    *)
(***************************************************************************)
EXTENDS ClientSession, SequenceTheorems, FiniteSetTheorems, TLAPS

-----------------------------------------------------------------------------
(* The attachment.  AttachmentIsOwned is not inductive: it needs to know   *)
(* that a task which has not been spawned cannot run, and that a session   *)
(* nobody opened has neither an owner nor an event.                        *)

PcLabels == {"start", "attach", "query", "spawn", "replay", "streaming", "failed"}

AttachTypeOK ==
    /\ listed \in {"new", "live", "removed"}
    /\ attachment \in Attempts \cup {NoOne}
    /\ pc \in [Attempts -> PcLabels]
    /\ uplink \in [Attempts -> {"none", "run", "done"}]

AttachInv ==
    /\ AttachTypeOK
    /\ AttachmentIsOwned
    /\ \A a \in Attempts :
          pc[a] \in {"start", "attach", "query", "spawn"} => uplink[a] = "none"
    /\ pc[Opener] = "start" <=> listed = "new"
    /\ listed = "new" => /\ attachment = NoOne
                         /\ \A a \in Attempts : pc[a] = "start"
    /\ listed = "new" => current = Nothing /\ loop = "idle"

attachVars == <<listed, attachment, pc, uplink, current, loop>>

\* A session that has just been opened is attached to its opener.
LEMMA AttachInit == Init => AttachInv
  BY AttemptAssumption
     DEF Init, AttachInv, AttachTypeOK, AttachmentIsOwned, Owns, PcLabels, Attempts

\* Attach, detach and the removal of the session, one case per handler.
LEMMA AttachStep == AttachInv /\ [Next]_vars => AttachInv'
<1> SUFFICES ASSUME AttachInv, [Next]_vars PROVE AttachInv'
  OBVIOUS
<1> USE AttemptAssumption DEF AttachInv, AttachTypeOK, AttachmentIsOwned, Owns,
        PcLabels, Attempts, Goto
<1>1. CASE UNCHANGED attachVars
  BY <1>1 DEF attachVars
<1>2. CASE OpenSession
  BY <1>2 DEF OpenSession, events
<1>3. CASE Attach
  BY <1>3 DEF Attach, events
<1>4. CASE RemoveSession
  BY <1>4 DEF RemoveSession, request
<1>5. CASE RecvOutput \/ RecvClosed \/ RecvNone \/ Broadcast
  BY <1>5 DEF RecvOutput, RecvClosed, RecvNone, Broadcast, state, request
<1>6. ASSUME NEW a \in Resumers, ResumeStep(a) PROVE AttachInv'
  <2>1. CASE \E c : ResumeSubscribe(a, c)
    BY <2>1 DEF ResumeSubscribe, state, events
  <2>2. CASE \E t : AttachWithToken(a, t)
    BY <2>2 DEF AttachWithToken, events
  <2>3. CASE QueryBuffer(a)
    BY <2>3 DEF QueryBuffer, state, events
  <2>4. CASE SpawnForwarders(a)
    BY <2>4 DEF SpawnForwarders, state, events
  <2>5. CASE SendReplay(a)
    BY <2>5, <1>1 DEF SendReplay, ReplayReady, state, events, attachVars
  <2>6. CASE SendAck(a) \/ DropHandler(a)
    BY <2>6 DEF SendAck, AckReady, DropHandler, Dropped, state, events
  <2>7. QED
    BY <1>6, <2>1, <2>2, <2>3, <2>4, <2>5, <2>6 DEF ResumeStep, HandlerStep
<1>7. ASSUME NEW a \in Attempts, Detach(a) PROVE AttachInv'
  BY <1>7 DEF Detach, events, request
<1>8. QED
  <2>1. ASSUME NEW a \in Attempts, ForwarderStep(a) \/ Deliver(a) \/ Disconnect(a)
        PROVE  UNCHANGED attachVars
    BY <2>1 DEF ForwarderStep, ForwardRecv, EventReady, ForwardSend, SendReady, Received,
       ForwardClosed, EventsOver, Deliver, Deliverable, Disconnect, attachVars, state, events,
       request
  <2>2. UNCHANGED vars => UNCHANGED attachVars
    BY DEF attachVars, vars, state, events, request
  <2>3. QED
    BY <1>1, <1>2, <1>3, <1>4, <1>5, <1>6, <1>7, <2>1, <2>2 DEF Next, LoopStep

(***************************************************************************)
(* Exactly one live forward_client_events task, or handler about to spawn  *)
(* one, owns the attachment: detach never releases somebody else's.        *)
(***************************************************************************)
THEOREM AttachmentOwnership == Spec => []AttachmentIsOwned
<1>1. AttachInv => AttachmentIsOwned
  BY DEF AttachInv
<1>2. QED
  BY <1>1, AttachInit, AttachStep, PTL DEF Spec

-----------------------------------------------------------------------------
(* The output buffer, element by element: SubSeq and the capacity are      *)
(* unfolded into an index shift.                                           *)

BufferInv ==
    /\ buffer \in Seq(Frames) /\ recorded \in Seq(Frames)
    /\ next \in [Streams -> Nat]
    /\ Len(buffer) = IF Len(recorded) < BufferCapacity
                     THEN Len(recorded) ELSE BufferCapacity
    /\ \A i \in 1..Len(buffer) :
          buffer[i] = recorded[Len(recorded) - Len(buffer) + i]

\* PushFrame keeps the window full and slides it by one.
LEMMA PushFrameLemma ==
    ASSUME NEW buf \in Seq(Frames), NEW f \in Frames, Len(buf) <= BufferCapacity
    PROVE  /\ PushFrame(buf, f) \in Seq(Frames)
           /\ Len(buf) < BufferCapacity => PushFrame(buf, f) = Append(buf, f)
           /\ Len(buf) = BufferCapacity =>
                 /\ Len(PushFrame(buf, f)) = BufferCapacity
                 /\ \A i \in 1..BufferCapacity :
                       PushFrame(buf, f)[i] = Append(buf, f)[i + 1]
<1> USE CapacityAssumption DEF PushFrame
<1>1. Append(buf, f) \in Seq(Frames) /\ Len(Append(buf, f)) = Len(buf) + 1
  OBVIOUS
<1>2. CASE Len(buf) < BufferCapacity
  BY <1>1, <1>2
<1>3. CASE Len(buf) = BufferCapacity
  <2>1. PushFrame(buf, f) = Tail(Append(buf, f))
    BY <1>1, <1>3
  <2>2. Append(buf, f) # <<>>
    OBVIOUS
  <2>3. QED
    BY <1>1, <1>3, <2>1, <2>2
<1>4. QED
  BY <1>2, <1>3

\* Only record_output moves the window, and PushFrameLemma says how.
LEMMA BufferStep == BufferInv /\ [Next]_vars => BufferInv'
<1> SUFFICES ASSUME BufferInv, [Next]_vars PROVE BufferInv'
  OBVIOUS
<1>1. CASE UNCHANGED <<next, buffer, recorded>>
  BY <1>1 DEF BufferInv
<1>2. ASSUME NEW st \in Streams, RecordOutput(st) PROVE BufferInv'
  <2> DEFINE f == Frame(st, next[st])
             n == Len(recorded)
             m == Len(buffer)
  <2>1. /\ f \in Frames /\ next' \in [Streams -> Nat]
        /\ buffer' = PushFrame(buffer, f) /\ recorded' = Append(recorded, f)
    BY <1>2 DEF RecordOutput, BufferInv, Frame, Frames
  <2> HIDE DEF f
  <2>2. /\ n \in Nat /\ m \in Nat /\ m <= BufferCapacity /\ m <= n
        /\ recorded' \in Seq(Frames) /\ Len(recorded') = n + 1
        /\ \A i \in 1..n : recorded'[i] = recorded[i]
        /\ recorded'[n + 1] = f
        /\ \A i \in 1..m : Append(buffer, f)[i] = buffer[i]
        /\ Append(buffer, f)[m + 1] = f
    BY <2>1, CapacityAssumption DEF BufferInv
  <2>3. CASE m < BufferCapacity
    <3>0. m = n /\ buffer \in Seq(Frames) /\ m <= BufferCapacity
      BY <2>2, <2>3, CapacityAssumption DEF BufferInv
    <3>1. buffer' = Append(buffer, f) /\ m = n
      BY <2>1, <2>3, <3>0, PushFrameLemma
    <3>2. /\ buffer' \in Seq(Frames) /\ Len(buffer') = m + 1
      BY <2>1, <3>1 DEF BufferInv
    <3>3. \A i \in 1..(m + 1) : buffer'[i] = recorded'[i]
      BY <2>2, <3>1 DEF BufferInv
    <3>4. QED
      BY <2>1, <2>2, <2>3, <3>1, <3>2, <3>3, CapacityAssumption DEF BufferInv
  <2>4. CASE m = BufferCapacity
    <3>1. /\ buffer' \in Seq(Frames) /\ Len(buffer') = m
          /\ \A i \in 1..m : buffer'[i] = Append(buffer, f)[i + 1]
      BY <2>1, <2>2, <2>4, PushFrameLemma DEF BufferInv
    <3>2. \A i \in 1..m : buffer'[i] = recorded'[n + 1 - m + i]
      <4> SUFFICES ASSUME NEW i \in 1..m PROVE buffer'[i] = recorded'[n + 1 - m + i]
        OBVIOUS
      <4>1. CASE i = m
        BY <2>2, <3>1, <4>1
      <4>2. CASE i < m
        <5>1. /\ i + 1 \in 1..m /\ n - m + (i + 1) \in 1..n
              /\ n - m + (i + 1) = n + 1 - m + i
          BY <2>2, <4>2
        <5>2. buffer[i + 1] = recorded[n - m + (i + 1)]
          BY <5>1 DEF BufferInv
        <5>3. QED
          BY <2>2, <3>1, <5>1, <5>2
      <4>3. QED
        BY <2>2, <4>1, <4>2
    <3>3. Len(buffer') = IF Len(recorded') < BufferCapacity
                         THEN Len(recorded') ELSE BufferCapacity
      BY <2>2, <2>4, <3>1, CapacityAssumption
    <3>4. \A i \in 1..Len(buffer') :
             buffer'[i] = recorded'[Len(recorded') - Len(buffer') + i]
      BY <2>2, <3>1, <3>2
    <3>5. QED
      BY <2>1, <2>2, <3>1, <3>3, <3>4 DEF BufferInv
  <2>5. QED
    BY <2>2, <2>3, <2>4, CapacityAssumption
<1>3. CASE RecvOutput
  BY <1>2, <1>3 DEF RecvOutput
<1>4. QED
  <2>1. ASSUME Next, ~RecvOutput PROVE UNCHANGED <<next, buffer, recorded>>
    BY <2>1 DEF Next, OpenSession, Attach, RecvClosed, RecvNone, LoopStep, Broadcast, RemoveSession,
       ResumeStep, HandlerStep, ResumeSubscribe, AttachWithToken, QueryBuffer, SpawnForwarders,
       SendReplay, ReplayReady, SendAck, AckReady, DropHandler, Dropped, ForwarderStep, ForwardRecv,
       EventReady, ForwardSend, SendReady, Received, ForwardClosed, EventsOver, Deliver,
       Deliverable, Detach, Disconnect, state
  <2>2. QED
    BY <1>1, <1>3, <2>1 DEF vars, state

(***************************************************************************)
(* output_buffer is always the last BufferCapacity frames written, in      *)
(* order, whatever the capacity and however long the session runs.         *)
(***************************************************************************)
THEOREM BufferWindow == Spec => []BufferIsSuffix
<1>1. Init => BufferInv
  BY CapacityAssumption DEF Init, BufferInv, Frames
<1>2. BufferInv => BufferIsSuffix
  <2> SUFFICES ASSUME BufferInv PROVE BufferIsSuffix
    OBVIOUS
  <2> DEFINE n == Len(recorded)
             m == IF n < BufferCapacity THEN n ELSE BufferCapacity
  <2>1. n \in Nat /\ m \in Nat /\ m <= n /\ m = Len(buffer)
    <3>1. n \in Nat
      BY DEF BufferInv
    <3>2. QED
      BY <3>1, CapacityAssumption DEF BufferInv
  <2>2. /\ Last(recorded, m) \in Seq(Frames) /\ Len(Last(recorded, m)) = m
        /\ \A i \in 1..m : Last(recorded, m)[i] = recorded[n - m + i]
    BY <2>1 DEF BufferInv, Last
  <2>3. buffer = Last(recorded, m)
    <3>1. \A i \in 1..Len(buffer) : buffer[i] = Last(recorded, m)[i]
      BY <2>1, <2>2 DEF BufferInv
    <3>2. buffer \in Seq(Frames)
      BY DEF BufferInv
    <3> HIDE DEF m
    <3>3. QED
      BY <2>1, <2>2, <3>1, <3>2, SeqEqual
  <2>4. QED
    BY <2>3 DEF BufferIsSuffix
<1>3. QED
  BY <1>1, <1>2, BufferStep, PTL DEF Spec

-----------------------------------------------------------------------------
(* What a sequence holds.                                                  *)

\* An append adds its element, ...
LEMMA ItemsAppend ==
    ASSUME NEW S, NEW s \in Seq(S), NEW e \in S
    PROVE  Append(s, e) \in Seq(S) /\ Items(Append(s, e)) = Items(s) \cup {e}
<1>1. /\ Append(s, e) \in Seq(S) /\ Len(s) \in Nat
      /\ DOMAIN s = 1..Len(s) /\ DOMAIN Append(s, e) = 1..(Len(s) + 1)
      /\ \A i \in 1..Len(s) : Append(s, e)[i] = s[i]
      /\ Append(s, e)[Len(s) + 1] = e
  BY AppendProperties, LenProperties
<1>2. 1..(Len(s) + 1) = (1..Len(s)) \cup {Len(s) + 1}
  BY <1>1
<1> QED BY <1>1, <1>2 DEF Items

\* ... and a sequence that is not empty holds its head and its tail.
LEMMA ItemsTail ==
    ASSUME NEW S, NEW s \in Seq(S), s # <<>>
    PROVE  /\ Head(s) \in S /\ Tail(s) \in Seq(S)
           /\ Items(s) = {Head(s)} \cup Items(Tail(s))
<1>1. /\ Head(s) \in S /\ Head(s) = s[1] /\ Tail(s) \in Seq(S)
      /\ Len(Tail(s)) = Len(s) - 1 /\ Len(s) \in Nat \ {0}
      /\ DOMAIN s = 1..Len(s) /\ DOMAIN Tail(s) = 1..(Len(s) - 1)
      /\ \A i \in 1..(Len(s) - 1) : Tail(s)[i] = s[i + 1]
  BY HeadTailProperties, LenProperties, EmptySeq
<1>2. \A i \in 1..Len(s) : i = 1 \/ i - 1 \in 1..(Len(s) - 1)
  BY <1>1
<1>3. \A i \in 1..(Len(s) - 1) : i + 1 \in 1..Len(s)
  BY <1>1
<1>4. ASSUME NEW i \in 1..Len(s) PROVE s[i] \in {Head(s)} \cup Items(Tail(s))
  <2>1. CASE i = 1
    BY <1>1, <2>1
  <2>2. CASE i - 1 \in 1..(Len(s) - 1)
    <3>1. Tail(s)[i - 1] = s[i]
      BY <1>1, <2>2
    <3> QED BY <1>1, <2>2, <3>1 DEF Items
  <2> QED BY <1>2, <2>1, <2>2
<1>5. ASSUME NEW x \in {Head(s)} \cup Items(Tail(s)) PROVE x \in Items(s)
  <2>1. CASE x = Head(s)
    BY <1>1, <2>1 DEF Items
  <2>2. CASE x \in Items(Tail(s))
    BY <1>1, <1>3, <2>2 DEF Items
  <2> QED BY <1>5, <2>1, <2>2
<1> QED BY <1>1, <1>4, <1>5 DEF Items

\* It is a sequence over what it holds.
LEMMA ItemsSeq ==
    ASSUME NEW S, NEW s \in Seq(S)
    PROVE  s \in Seq(Items(s)) /\ Items(s) \subseteq S
<1>1. Len(s) \in Nat /\ s \in [1..Len(s) -> S] /\ DOMAIN s = 1..Len(s)
  BY LenProperties
<1>2. s \in [1..Len(s) -> Items(s)]
  BY <1>1 DEF Items
<1>3. s \in Seq(Items(s))
  BY <1>1, <1>2, SeqDef
<1>4. Items(s) \subseteq S
  BY <1>1 DEF Items
<1> QED BY <1>3, <1>4

\* outputs_since keeps every buffered frame past the cursors, and no other.
LEMMA OutputsSinceSelects ==
    ASSUME NEW S, NEW buf \in Seq(S), NEW c
    PROVE  /\ OutputsSince(buf, c) \in Seq(S)
           /\ Items(OutputsSince(buf, c)) =
                 {f \in Items(buf) : f.seq > c[f.stream]}
<1> DEFINE after == {i \in DOMAIN buf : buf[i].seq > c[buf[i].stream]}
           rank(i) == Cardinality({j \in after : j <= i})
           n == Cardinality(after)
           r == [i \in after |-> rank(i)]
           at(k) == CHOOSE i \in after : rank(i) = k
           out == [k \in 1..n |-> buf[at(k)]]
<1>1. DOMAIN buf = 1..Len(buf) /\ Len(buf) \in Nat
  BY LenProperties
<1>2. after \subseteq 1..Len(buf) /\ IsFiniteSet(after) /\ n \in Nat
  <2>1. after \in SUBSET (1..Len(buf))
    BY <1>1
  <2>2. IsFiniteSet(1..Len(buf))
    BY <1>1, FS_Interval
  <2> HIDE DEF after
  <2>3. IsFiniteSet(after)
    BY <2>1, <2>2, FS_Subset
  <2> QED BY <2>1, <2>3, FS_CardinalityType
<1>3. \A i \in after : IsFiniteSet({j \in after : j <= i})
  <2> TAKE i \in after
  <2>1. {j \in after : j <= i} \in SUBSET after
    OBVIOUS
  <2> HIDE DEF after
  <2> QED BY <1>2, <2>1, FS_Subset
<1>4. ASSUME NEW i \in after PROVE rank(i) \in 1..n
  <2>1. rank(i) \in Nat /\ rank(i) <= n
    BY <1>2, <1>3, FS_Subset, FS_CardinalityType
  <2>2. i \in {j \in after : j <= i}
    BY <1>2
  <2>3. rank(i) # 0
    BY <1>3, <2>2, FS_EmptySet
  <2> QED BY <1>2, <2>1, <2>3
<1>5. ASSUME NEW i \in after, NEW k \in after, i < k PROVE rank(i) # rank(k)
  <2>1. {j \in after : j <= i} \subseteq {j \in after : j <= k}
    BY <1>2, <1>5
  <2>2. k \in {j \in after : j <= k} /\ k \notin {j \in after : j <= i}
    BY <1>2, <1>5
  <2> QED BY <1>3, <2>1, <2>2, FS_Subset
<1>6. \A i, k \in after : rank(i) = rank(k) => i = k
  <2> SUFFICES ASSUME NEW i \in after, NEW k \in after, i # k PROVE rank(i) # rank(k)
    OBVIOUS
  <2>1. i < k \/ k < i
    BY <1>2
  <2> QED BY <1>5, <2>1
<1> HIDE DEF after, rank
<1>7. r \in Injection(after, 1..n)
  BY <1>4, <1>6 DEF Injection, IsInjective
<1>8. IsFiniteSet(1..n) /\ Cardinality(1..n) = n
  BY <1>2, FS_Interval
<1>9. r \in Surjection(after, 1..n)
  BY <1>7, <1>8, FS_Injection
<1>10. \A k \in 1..n : \E i \in after : rank(i) = k
  BY <1>9 DEF Surjection
<1>11. \A k \in 1..n : at(k) \in after /\ rank(at(k)) = k
  BY <1>10
<1>12. \A i \in after : at(rank(i)) = i
  BY <1>4, <1>6, <1>11
<1> HIDE DEF at
<1>13. \A k \in 1..n : buf[at(k)] \in S
  BY <1>1, <1>2, <1>11, ElementOfSeq
<1>14. out \in Seq(S) /\ Len(out) = n /\ DOMAIN out = 1..n
  BY <1>2, <1>13, SeqDef
<1>15. OutputsSince(buf, c) = out
  BY DEF OutputsSince, after, rank, at
<1>16. \A k \in 1..n : out[k] = buf[at(k)]
  OBVIOUS
<1>17. Items(out) = {buf[i] : i \in after}
  BY <1>4, <1>11, <1>12, <1>14, <1>16 DEF Items
<1>18. {buf[i] : i \in after} = {f \in Items(buf) : f.seq > c[f.stream]}
  BY DEF after, Items
<1> QED BY <1>14, <1>15, <1>17, <1>18

-----------------------------------------------------------------------------
(* The way of a frame from the event loop to a client.                     *)

\* What can be on it: recorded frames, the end of the session, and nothing.
Known == Items(recorded) \cup {Closed, Nothing}
Replies == [src : {"replay", "live", "ack"}, msg : Known]

FlowType ==
    /\ recorded \in Seq(Frames) /\ buffer \in Seq(Items(recorded))
    /\ current \in Known
    /\ sub \in [Attempts -> Seq(Known)]
    /\ hand \in [Attempts -> Known]
    /\ replay \in [Attempts -> Seq(Items(recorded))]
    /\ reply \in [Attempts -> Seq(Replies)]
    /\ conn \in [Attempts -> BOOLEAN]
    /\ forwarder \in [Attempts -> {"none", "run", "done"}]
    /\ pc \in [Attempts -> PcLabels]
    /\ DOMAIN cursor = Attempts /\ DOMAIN missed = Attempts
    /\ lagged \subseteq Attempts

\* A forwarder runs from its spawn until its client has gone or the session is
\* over, and nothing is recorded before the session is open or broadcast
\* after it is over.
Running ==
    /\ \A a \in Attempts :
          /\ pc[a] \in {"start", "attach", "query", "spawn"} => forwarder[a] = "none"
          /\ pc[a] \in {"replay", "streaming"} /\ conn[a] /\ forwarder[a] # "run" =>
                loop = "done"
    /\ loop # "idle" => current = Nothing
    /\ pc[Opener] \notin {"query", "spawn", "replay"}
    /\ listed = "new" => recorded = <<>> /\ loop = "idle" /\ current = Nothing
    /\ pc[Opener] = "start" <=> listed = "new"

\* The attempt has read the buffer, or opened the session, and its client is
\* there.
Past(a) ==
    \/ a = Opener /\ pc[a] = "attach"
    \/ pc[a] = "spawn"
    \/ pc[a] \in {"replay", "streaming"} /\ conn[a]

\* NoGap from the moment on at which it starts to hold.
NoGapFor(a) ==
    Past(a) /\ a \notin lagged =>
        \A f \in Items(recorded) :
            f.seq > cursor[a][f.stream] => f \in InFlight(a) \cup missed[a]

FlowInv == BufferInv /\ FlowType /\ Running /\ \A a \in Attempts : NoGapFor(a)

\* The three kinds of messages are told apart by their kind.
LEMMA MessageKinds ==
    ASSUME recorded \in Seq(Frames)
    PROVE  /\ Closed # Nothing /\ Closed.kind = "closed" /\ Nothing.kind = "none"
           /\ \A f \in Items(recorded) : f \in Frames /\ f.kind = "output"
           /\ Closed \notin Items(recorded) /\ Nothing \notin Items(recorded)
<1>1. Items(recorded) \subseteq Frames
  BY ItemsSeq
<1>2. /\ Closed.kind = "closed" /\ Nothing.kind = "none"
      /\ \A f \in Frames : f.kind = "output"
  BY DEF Closed, Nothing, Frames
<1> QED BY <1>1, <1>2

\* A step that records nothing and loses nothing on the way to an attempt
\* leaves no gap.
LEMMA NoGapKept ==
    ASSUME FlowInv, NEW a \in Attempts, recorded' = recorded,
           Past(a)' /\ a \notin lagged' =>
               /\ Past(a) /\ a \notin lagged
               /\ cursor'[a] = cursor[a] /\ missed'[a] = missed[a]
               /\ InFlight(a) \subseteq InFlight(a)' \cup {Nothing}
    PROVE  NoGapFor(a)'
<1> SUFFICES ASSUME Past(a)', a \notin lagged', NEW f \in Items(recorded),
                    f.seq > cursor[a][f.stream]
             PROVE  f \in InFlight(a)' \cup missed'[a]
  BY DEF NoGapFor
<1>1. f # Nothing
  BY MessageKinds DEF FlowInv, FlowType
<1>2. f \in InFlight(a) \cup missed[a]
  BY DEF FlowInv, NoGapFor
<1> QED BY <1>1, <1>2

\* The initial state.
LEMMA FlowInit == Init => FlowInv
<1> SUFFICES ASSUME Init PROVE FlowInv
  OBVIOUS
<1>1. BufferInv
  BY CapacityAssumption, EmptySeq DEF Init, BufferInv
<1>2. FlowType
  BY EmptySeq DEF Init, FlowType, Known, PcLabels
<1>3. Running
  BY DEF Init, Running, Attempts
<1>4. \A a \in Attempts : NoGapFor(a)
  BY DEF Init, NoGapFor, Past
<1> QED BY <1>1, <1>2, <1>3, <1>4 DEF FlowInv

\* What is recorded joins what is known; nothing that was known is forgotten.
LEMMA RecordType ==
    ASSUME FlowType, NEW f \in Frames, recorded' = Append(recorded, f),
           buffer' = PushFrame(buffer, f), current' = f,
           UNCHANGED <<sub, hand, replay, reply, conn, forwarder, pc, cursor, missed, lagged>>
    PROVE  FlowType' /\ Items(recorded') = Items(recorded) \cup {f}
<1>1. recorded' \in Seq(Frames) /\ Items(recorded') = Items(recorded) \cup {f}
  BY ItemsAppend DEF FlowType
<1>2. Known \subseteq Known' /\ f \in Known' /\ Replies \subseteq Replies'
      /\ Items(recorded) \subseteq Items(recorded')
  BY <1>1 DEF Known, Replies
<1>3. buffer' \in Seq(Items(recorded'))
  <2>1. buffer \in Seq(Items(recorded'))
    BY <1>2, SeqMonotonic DEF FlowType
  <2>2. Append(buffer, f) \in Seq(Items(recorded')) /\ Append(buffer, f) # <<>>
    BY <1>1, <2>1, AppendProperties
  <2>3. Tail(Append(buffer, f)) \in Seq(Items(recorded'))
    BY <2>2, HeadTailProperties
  <2> QED BY <2>2, <2>3 DEF PushFrame
<1>4. \A a \in Attempts : /\ sub[a] \in Seq(Known') /\ hand[a] \in Known'
                          /\ replay[a] \in Seq(Items(recorded')) /\ reply[a] \in Seq(Replies')
  BY <1>2, SeqMonotonic DEF FlowType
<1>5. /\ sub' \in [Attempts -> Seq(Known')] /\ hand' \in [Attempts -> Known']
      /\ replay' \in [Attempts -> Seq(Items(recorded'))]
      /\ reply' \in [Attempts -> Seq(Replies')]
  BY <1>4 DEF FlowType
<1> QED BY <1>1, <1>2, <1>3, <1>5 DEF FlowType

\* A step that records nothing keeps the sets, so that only what it changes
\* has to be looked at.
LEMMA KnownKept ==
    ASSUME UNCHANGED recorded
    PROVE  Known' = Known /\ Replies' = Replies
BY DEF Known, Replies

\* The steps of the event loop.
LEMMA LoopType ==
    ASSUME FlowType, BufferInv, RecvOutput \/ RecvClosed \/ RecvNone \/ LoopStep
    PROVE  FlowType'
<1> USE DEF downlink, answer, request, state
<1>1. CASE RecvOutput
  <2>1. PICK st \in Streams : RecordOutput(st)
    BY <1>1 DEF RecvOutput
  <2>2. Frame(st, next[st]) \in Frames
    BY DEF BufferInv, Frame, Frames
  <2> QED BY <1>1, <2>1, <2>2, RecordType DEF RecvOutput, RecordOutput
<1>2. CASE RecvClosed
  BY <1>2, KnownKept DEF RecvClosed, FlowType, Known
<1>3. CASE RecvNone
  BY <1>3, KnownKept DEF RecvNone, FlowType
<1>4. CASE RemoveSession
  BY <1>4, KnownKept DEF RemoveSession, FlowType
<1>5. CASE Broadcast
  <2>1. Known' = Known /\ Replies' = Replies
    BY <1>5, KnownKept DEF Broadcast
  <2>2. current' = Nothing /\ Nothing \in Known /\ lagged' \subseteq Attempts
    BY <1>5 DEF Broadcast, Known, FlowType, Subscribers
  <2>3. ASSUME NEW a \in Attempts
        PROVE  /\ Append(sub[a], current) \in Seq(Known)
               /\ Len(sub[a]) = EventCapacity => Append(Tail(sub[a]), current) \in Seq(Known)
    <3>1. sub[a] \in Seq(Known) /\ current \in Known
      BY DEF FlowType
    <3>2. Len(sub[a]) = EventCapacity => sub[a] # <<>>
      BY CapacityAssumption, EmptySeq
    <3> QED BY <3>1, <3>2, AppendProperties, HeadTailProperties
  <2>4. sub' \in [Attempts -> Seq(Known)]
    BY <1>5, <2>3 DEF Broadcast, FlowType
  <2> QED BY <1>5, <2>1, <2>2, <2>4 DEF Broadcast, FlowType
<1> QED BY <1>1, <1>2, <1>3, <1>4, <1>5 DEF LoopStep

\* The steps of the handlers.
LEMMA HandlerType ==
    ASSUME FlowType, BufferInv,
           OpenSession \/ Attach \/ (\E a \in Resumers : ResumeStep(a))
    PROVE  FlowType'
<1> USE DEF downlink, answer, request, state, events, PcLabels, Goto, Attempts
<1>1. CASE OpenSession
  BY <1>1, KnownKept DEF OpenSession, FlowType
<1>2. CASE Attach
  BY <1>2, KnownKept DEF Attach, FlowType
<1>3. ASSUME NEW a \in Resumers, ResumeStep(a) PROVE FlowType'
  <2>1. CASE \E c : ResumeSubscribe(a, c)
    BY <2>1, KnownKept DEF ResumeSubscribe, FlowType
  <2>2. CASE \E t : AttachWithToken(a, t)
    BY <2>2, KnownKept DEF AttachWithToken, FlowType
  <2>3. CASE QueryBuffer(a)
    <3>1. OutputsSince(buffer, cursor[a]) \in Seq(Items(recorded))
      BY OutputsSinceSelects DEF FlowType
    <3>2. UNCHANGED <<recorded, buffer, current, sub, hand, reply, conn, forwarder, cursor, lagged>>
      BY <2>3 DEF QueryBuffer
    <3>3. replay' \in [Attempts -> Seq(Items(recorded))] /\ DOMAIN missed' = Attempts
      <4>1. CASE listed = "live"
        <5>1. /\ replay' = [replay EXCEPT ![a] = OutputsSince(buffer, cursor[a])]
              /\ missed' = [missed EXCEPT ![a] = Items(recorded) \ Items(buffer)]
          BY <2>3, <4>1 DEF QueryBuffer
        <5> QED BY <3>1, <5>1 DEF FlowType
      <4>2. CASE listed # "live"
        BY <2>3, <4>2 DEF QueryBuffer, FlowType
      <4> QED BY <4>1, <4>2
    <3>4. pc' \in [Attempts -> PcLabels]
      BY <2>3 DEF QueryBuffer, FlowType
    <3> QED BY <3>2, <3>3, <3>4, KnownKept DEF FlowType
  <2>4. CASE SpawnForwarders(a)
    BY <2>4, KnownKept DEF SpawnForwarders, FlowType
  <2>5. CASE SendReplay(a)
    <3>1. /\ Head(replay[a]) \in Items(recorded) /\ Tail(replay[a]) \in Seq(Items(recorded))
      BY <2>5, ItemsTail DEF SendReplay, ReplayReady, FlowType
    <3>2. Reply("replay", Head(replay[a])) \in Replies
      BY <3>1 DEF Reply, Replies, Known
    <3>3. Append(reply[a], Reply("replay", Head(replay[a]))) \in Seq(Replies)
      BY <3>2, AppendProperties DEF FlowType
    <3> QED BY <2>5, <3>1, <3>3, KnownKept DEF SendReplay, ReplayReady, Send, FlowType
  <2>6. CASE SendAck(a)
    <3>1. Reply("ack", Nothing) \in Replies
      BY DEF Reply, Replies, Known
    <3>2. Append(reply[a], Reply("ack", Nothing)) \in Seq(Replies)
      BY <3>1, AppendProperties DEF FlowType
    <3> QED BY <2>6, <3>2, KnownKept DEF SendAck, AckReady, Send, FlowType
  <2>7. CASE DropHandler(a)
    BY <2>7, KnownKept DEF DropHandler, Dropped, FlowType
  <2> QED BY <1>3, <2>1, <2>2, <2>3, <2>4, <2>5, <2>6, <2>7 DEF ResumeStep, HandlerStep
<1> QED BY <1>1, <1>2, <1>3

\* The steps of the forwarding tasks and the transport.
LEMMA ForwardType ==
    ASSUME FlowType, NEW a \in Attempts, ForwarderStep(a) \/ Deliver(a) \/ Detach(a) \/ Disconnect(a)
    PROVE  FlowType'
<1> USE DEF downlink, answer, request, state, events
<1>1. CASE ForwardRecv(a)
  <2>1. Head(sub[a]) \in Known /\ Tail(sub[a]) \in Seq(Known)
    BY <1>1, ItemsTail DEF ForwardRecv, EventReady, FlowType
  <2> QED BY <1>1, <2>1, KnownKept DEF ForwardRecv, EventReady, FlowType
<1>2. CASE ForwardSend(a)
  <2>1. Reply("live", hand[a]) \in Replies
    BY DEF Reply, Replies, FlowType
  <2>2. Append(reply[a], Reply("live", hand[a])) \in Seq(Replies)
    BY <2>1, AppendProperties DEF FlowType
  <2>3. Nothing \in Known
    BY DEF Known
  <2>4. UNCHANGED <<recorded, buffer, current, sub, replay, conn, pc, cursor, missed, lagged>>
    BY <1>2 DEF ForwardSend, SendReady, Received
  <2>5. reply' \in [Attempts -> Seq(Replies)] /\ hand' \in [Attempts -> Known]
        /\ forwarder' \in [Attempts -> {"none", "run", "done"}]
    BY <1>2, <2>2, <2>3 DEF ForwardSend, SendReady, Received, Send, FlowType
  <2> QED BY <2>4, <2>5, KnownKept DEF FlowType
<1>3. CASE ForwardClosed(a) \/ Deliver(a) \/ Detach(a) \/ Disconnect(a)
  BY <1>3, KnownKept DEF ForwardClosed, EventsOver, Deliver, Deliverable, Detach, Disconnect,
     FlowType
<1> QED BY <1>1, <1>2, <1>3 DEF ForwarderStep

\* Forwarders run when they should.
LEMMA RunningStep == FlowType /\ Running /\ Next => Running'
<1> SUFFICES ASSUME FlowType, Running, Next PROVE Running'
  OBVIOUS
<1> USE DEF downlink, answer, request, state, events, Goto
<1>0. Opener \in Attempts
  BY DEF Attempts
<1>1. CASE OpenSession
  BY <1>0, <1>1 DEF OpenSession, FlowType, Running
<1>2. CASE Attach
  BY <1>0, <1>2, ZenonT(60) DEF Attach, FlowType, Running
<1>3. CASE RecvOutput
  BY <1>3 DEF RecvOutput, RecordOutput, FlowType, Running
<1>4. CASE RecvClosed \/ RecvNone
  BY <1>4 DEF RecvClosed, RecvNone, FlowType, Running
<1>5. CASE Broadcast
  BY <1>5 DEF Broadcast, FlowType, Running
<1>6. CASE RemoveSession
  BY <1>6 DEF RemoveSession, FlowType, Running
<1>7. ASSUME NEW a \in Resumers, ResumeStep(a) PROVE Running'
  <2>1. a \in Attempts /\ a # Opener /\ Opener \in Attempts
    BY AttemptAssumption DEF Attempts
  <2>2. CASE \E c : ResumeSubscribe(a, c)
    BY <2>1, <2>2 DEF ResumeSubscribe, FlowType, Running
  <2>3. CASE \E t : AttachWithToken(a, t)
    BY <2>1, <2>3 DEF AttachWithToken, FlowType, Running
  <2>4. CASE QueryBuffer(a)
    BY <2>1, <2>4 DEF QueryBuffer, FlowType, Running
  <2>5. CASE SpawnForwarders(a)
    BY <2>1, <2>5 DEF SpawnForwarders, FlowType, Running
  <2>6. CASE SendReplay(a) \/ SendAck(a) \/ DropHandler(a)
    BY <2>1, <2>6 DEF SendReplay, ReplayReady, SendAck, AckReady, DropHandler, Dropped, FlowType,
       Running
  <2> QED BY <1>7, <2>2, <2>3, <2>4, <2>5, <2>6 DEF ResumeStep, HandlerStep
<1>8. ASSUME NEW a \in Attempts, ForwarderStep(a) \/ Deliver(a) \/ Detach(a) \/ Disconnect(a)
      PROVE  Running'
  <2>1. CASE ForwardSend(a)
    BY <2>1 DEF ForwardSend, SendReady, Received, FlowType, Running
  <2>2. CASE ForwardRecv(a) \/ ForwardClosed(a)
    BY <2>2 DEF ForwardRecv, EventReady, ForwardClosed, EventsOver, FlowType, Running
  <2>3. CASE Deliver(a) \/ Detach(a) \/ Disconnect(a)
    BY <2>3 DEF Deliver, Deliverable, Detach, Disconnect, FlowType, Running
  <2> QED BY <1>8, <2>1, <2>2, <2>3 DEF ForwarderStep
<1> QED BY <1>1, <1>2, <1>3, <1>4, <1>5, <1>6, <1>7, <1>8 DEF Next, LoopStep

\* The event loop: a frame is in its hand, then with every subscriber.
LEMMA LoopNoGap ==
    ASSUME FlowInv, FlowType', RecvOutput \/ RecvClosed \/ RecvNone \/ LoopStep,
           NEW a \in Attempts
    PROVE  NoGapFor(a)'
<1> USE DEF downlink, answer, request, state, events
<1>1. CASE RecvOutput
  <2>1. PICK st \in Streams : RecordOutput(st)
    BY <1>1 DEF RecvOutput
  <2> DEFINE f == Frame(st, next[st])
  <2>2. /\ f \in Frames /\ recorded' = Append(recorded, f) /\ current' = f /\ current = Nothing
        /\ UNCHANGED <<sub, hand, replay, reply, cursor, missed, lagged, pc, conn>>
    BY <1>1, <2>1 DEF RecvOutput, RecordOutput, FlowInv, BufferInv, Frame, Frames
  <2> HIDE DEF f
  <2>3. Items(recorded') = Items(recorded) \cup {f}
    BY <2>2, ItemsAppend DEF FlowInv, FlowType
  <2>4. InFlight(a) \subseteq InFlight(a)' \cup {Nothing} /\ f \in InFlight(a)'
    BY <2>2 DEF InFlight, Sent
  <2>5. ASSUME NEW g \in Items(recorded), Past(a), a \notin lagged,
               g.seq > cursor[a][g.stream]
        PROVE  g \in InFlight(a)' \cup missed[a]
    <3>1. g # Nothing
      BY MessageKinds DEF FlowInv, FlowType
    <3>2. g \in InFlight(a) \cup missed[a]
      BY <2>5 DEF FlowInv, NoGapFor
    <3> QED BY <2>4, <3>1, <3>2
  <2>6. Past(a)' <=> Past(a)
    BY <2>2 DEF Past
  <2> QED BY <2>2, <2>3, <2>4, <2>5, <2>6 DEF NoGapFor
<1>2. CASE RecvClosed \/ RecvNone \/ RemoveSession
  <2>1. /\ UNCHANGED <<recorded, sub, hand, replay, reply, cursor, missed, lagged, pc, conn>>
        /\ current' = current \/ current = Nothing
    BY <1>2 DEF RecvClosed, RecvNone, RemoveSession
  <2>2. InFlight(a) \subseteq InFlight(a)' \cup {Nothing} /\ (Past(a)' <=> Past(a))
    BY <2>1 DEF InFlight, Sent, Past
  <2> QED BY <2>1, <2>2, NoGapKept
<1>3. CASE Broadcast
  <2>1. UNCHANGED <<recorded, hand, replay, reply, cursor, missed, pc, conn>> /\ current # Nothing
        /\ lagged \subseteq lagged'
    BY <1>3 DEF Broadcast
  <2>2. ASSUME Past(a), a \notin lagged' PROVE Items(sub[a]) \cup {current} \subseteq Items(sub'[a])
    <3>1. loop = "idle"
      BY <2>1 DEF FlowInv, Running
    <3>2. a \in Subscribers
      BY <2>2, <3>1 DEF FlowInv, Running, Past, Subscribers
    <3>3. sub'[a] = Append(sub[a], current)
      BY <1>3, <2>2, <3>2 DEF Broadcast
    <3>4. sub[a] \in Seq(Known) /\ current \in Known
      BY DEF FlowInv, FlowType
    <3> QED BY <3>3, <3>4, ItemsAppend
  <2>3. (Past(a)' <=> Past(a)) /\ recorded' = recorded
    BY <2>1 DEF Past
  <2>4. ASSUME Past(a)', a \notin lagged'
        PROVE  InFlight(a) \subseteq InFlight(a)' \cup {Nothing}
    BY <2>1, <2>2, <2>3, <2>4 DEF InFlight, Sent
  <2> QED BY <2>1, <2>3, <2>4, NoGapKept
<1> QED BY <1>1, <1>2, <1>3 DEF LoopStep

\* The handlers: reading the buffer closes the gap, sending moves frames on.
LEMMA HandlerNoGap ==
    ASSUME FlowInv, FlowType',
           OpenSession \/ Attach \/ (\E a \in Resumers : ResumeStep(a)),
           NEW b \in Attempts
    PROVE  NoGapFor(b)'
<1> USE DEF downlink, answer, request, state, events, Goto
<1>1. CASE OpenSession
  <2>1. CASE b = Opener
    <3>1. Items(recorded') = {}
      BY <1>1 DEF OpenSession, FlowInv, Running, Items
    <3> QED BY <3>1 DEF NoGapFor
  <2>2. CASE b # Opener
    <3>1. (Past(b)' <=> Past(b)) /\ InFlight(b)' = InFlight(b)
      BY <1>1, <2>2 DEF OpenSession, Past, InFlight, Sent, FlowInv, FlowType
    <3> QED BY <1>1, <3>1, NoGapKept DEF OpenSession
  <2> QED BY <2>1, <2>2
<1>2. CASE Attach
  <2>1. (Past(b)' => Past(b)) /\ InFlight(b)' = InFlight(b)
    BY <1>2 DEF Attach, Past, InFlight, Sent, FlowInv, FlowType
  <2> QED BY <1>2, <2>1, NoGapKept DEF Attach
<1>3. ASSUME NEW a \in Resumers, ResumeStep(a) PROVE NoGapFor(b)'
  <2>1. a \in Attempts /\ a # Opener
    BY AttemptAssumption DEF Attempts
  <2>2. CASE (\E c : ResumeSubscribe(a, c)) \/ (\E t : AttachWithToken(a, t))
    <3>1. /\ UNCHANGED <<recorded, current, sub, hand, replay, reply, missed, lagged, conn>>
          /\ \A x \in Attempts \ {a} : pc'[x] = pc[x] /\ cursor'[x] = cursor[x]
          /\ pc'[a] \in {"attach", "query", "failed"}
      BY <2>1, <2>2 DEF ResumeSubscribe, AttachWithToken, FlowInv, FlowType
    <3>2. (Past(b)' => Past(b) /\ cursor'[b] = cursor[b]) /\ InFlight(b)' = InFlight(b)
      BY <2>1, <3>1 DEF Past, InFlight, Sent
    <3> QED BY <3>1, <3>2, NoGapKept
  <2>3. CASE QueryBuffer(a)
    <3>1. CASE b = a /\ listed = "live"
      <4>1. /\ replay'[a] = OutputsSince(buffer, cursor[a])
            /\ missed'[a] = Items(recorded) \ Items(buffer)
            /\ UNCHANGED <<recorded, cursor>>
        BY <2>1, <2>3, <3>1 DEF QueryBuffer, FlowInv, FlowType
      <4>2. Items(replay'[a]) = {f \in Items(buffer) : f.seq > cursor[a][f.stream]}
        <5>1. buffer \in Seq(Items(recorded))
          BY DEF FlowInv, FlowType
        <5>2. Items(OutputsSince(buffer, cursor[a]))
                 = {f \in Items(buffer) : f.seq > cursor[a][f.stream]}
          BY <5>1, OutputsSinceSelects, ZenonT(40)
        <5> QED BY <4>1, <5>2, Zenon
      <4>3. Items(replay'[a]) \subseteq InFlight(a)'
        BY DEF InFlight
      <4> QED BY <3>1, <4>1, <4>2, <4>3 DEF NoGapFor
    <3>2. CASE ~(b = a /\ listed = "live")
      <4>1. /\ UNCHANGED <<recorded, current, sub, hand, reply, cursor, lagged, conn>>
            /\ \A x \in Attempts \ {a} :
                  pc'[x] = pc[x] /\ replay'[x] = replay[x] /\ missed'[x] = missed[x]
            /\ listed # "live" => pc'[a] = "failed"
        BY <2>1, <2>3 DEF QueryBuffer, FlowInv, FlowType
      <4>2. Past(b)' => Past(b) /\ InFlight(b)' = InFlight(b) /\ missed'[b] = missed[b]
        BY <2>1, <3>2, <4>1 DEF Past, InFlight, Sent
      <4> QED BY <4>1, <4>2, NoGapKept
    <3> QED BY <3>1, <3>2
  <2>4. CASE SpawnForwarders(a) \/ DropHandler(a)
    <3>1. (Past(b)' => Past(b)) /\ InFlight(b)' = InFlight(b)
      BY <2>1, <2>4 DEF SpawnForwarders, DropHandler, Dropped, Past, InFlight, Sent, FlowInv,
         FlowType
    <3> QED BY <2>4, <3>1, NoGapKept DEF SpawnForwarders, DropHandler, Dropped
  <2>5. CASE SendReplay(a)
    <3>1. /\ reply' = [reply EXCEPT ![a] = Append(@, Reply("replay", Head(replay[a])))]
          /\ replay' = [replay EXCEPT ![a] = Tail(@)] /\ replay[a] # <<>>
          /\ UNCHANGED <<recorded, current, sub, hand, cursor, missed, lagged, conn, pc>>
      BY <2>5 DEF SendReplay, ReplayReady, Send
    <3>2. /\ Items(replay[a]) = {Head(replay[a])} \cup Items(Tail(replay[a]))
          /\ Head(replay[a]) \in Items(recorded)
      BY <2>1, <3>1, ItemsTail DEF FlowInv, FlowType
    <3>3. /\ Reply("replay", Head(replay[a])) \in Replies
          /\ Reply("replay", Head(replay[a])).msg = Head(replay[a])
      BY <3>2 DEF Reply, Replies, Known
    <3>4. Items(Append(reply[a], Reply("replay", Head(replay[a]))))
             = Items(reply[a]) \cup {Reply("replay", Head(replay[a]))}
      BY <2>1, <3>3, ItemsAppend DEF FlowInv, FlowType
    <3>5. InFlight(b) \subseteq InFlight(b)'
      BY <2>1, <3>1, <3>2, <3>3, <3>4 DEF InFlight, Sent, FlowInv, FlowType
    <3>6. Past(b)' <=> Past(b)
      BY <3>1 DEF Past
    <3> QED BY <3>1, <3>5, <3>6, NoGapKept
  <2>6. CASE SendAck(a)
    <3>1. /\ reply' = [reply EXCEPT ![a] = Append(@, Reply("ack", Nothing))]
          /\ UNCHANGED <<recorded, current, sub, hand, replay, cursor, missed, lagged, conn>>
      BY <2>6 DEF SendAck, AckReady, Send
    <3>2. Reply("ack", Nothing) \in Replies
      BY DEF Reply, Replies, Known
    <3>3. Items(Append(reply[a], Reply("ack", Nothing))) = Items(reply[a]) \cup {Reply("ack", Nothing)}
      BY <2>1, <3>2, ItemsAppend DEF FlowInv, FlowType
    <3>4. InFlight(b) \subseteq InFlight(b)'
      BY <2>1, <3>1, <3>3 DEF InFlight, Sent, FlowInv, FlowType
    <3>5. Past(b)' => Past(b)
      BY <2>1, <2>6 DEF SendAck, AckReady, Past, FlowInv, FlowType
    <3> QED BY <3>1, <3>4, <3>5, NoGapKept
  <2> QED BY <1>3, <2>2, <2>3, <2>4, <2>5, <2>6 DEF ResumeStep, HandlerStep
<1> QED BY <1>1, <1>2, <1>3

\* The forwarding tasks: a frame is lost only with its client.
LEMMA ForwardNoGap ==
    ASSUME FlowInv, FlowType', NEW a \in Attempts,
           ForwarderStep(a) \/ Deliver(a) \/ Detach(a) \/ Disconnect(a), NEW b \in Attempts
    PROVE  NoGapFor(b)'
<1> USE DEF downlink, answer, request, state, events
<1>1. CASE ForwardRecv(a)
  <2>1. /\ hand[a] = Nothing /\ sub[a] # <<>>
        /\ hand' = [hand EXCEPT ![a] = Head(sub[a])] /\ sub' = [sub EXCEPT ![a] = Tail(@)]
        /\ UNCHANGED <<recorded, current, replay, reply, cursor, missed, lagged, conn, pc>>
    BY <1>1 DEF ForwardRecv, EventReady
  <2>2. Items(sub[a]) = {Head(sub[a])} \cup Items(Tail(sub[a]))
    BY <2>1, ItemsTail DEF FlowInv, FlowType
  <2>3. InFlight(b) \subseteq InFlight(b)' \cup {Nothing} /\ (Past(b)' <=> Past(b))
    BY <2>1, <2>2 DEF InFlight, Sent, Past, FlowInv, FlowType
  <2> QED BY <2>1, <2>3, NoGapKept
<1>2. CASE ForwardSend(a)
  <2>1. /\ hand[a] # Nothing /\ forwarder[a] = "run" /\ hand' = [hand EXCEPT ![a] = Nothing]
        /\ UNCHANGED <<recorded, current, sub, replay, cursor, missed, lagged, conn, pc>>
    BY <1>2 DEF ForwardSend, SendReady, Received
  <2>2. CASE pc[a] \in {"replay", "streaming"} /\ conn[a]
    <3>1. reply' = [reply EXCEPT ![a] = Append(@, Reply("live", hand[a]))]
      BY <1>2, <2>2 DEF ForwardSend, SendReady, Received, Send
    <3>2. Reply("live", hand[a]) \in Replies /\ Reply("live", hand[a]).msg = hand[a]
      BY DEF Reply, Replies, FlowInv, FlowType
    <3>3. Items(Append(reply[a], Reply("live", hand[a]))) = Items(reply[a]) \cup {Reply("live", hand[a])}
      BY <3>2, ItemsAppend DEF FlowInv, FlowType
    <3>4. InFlight(b) \subseteq InFlight(b)' /\ (Past(b)' <=> Past(b))
      BY <2>1, <3>1, <3>2, <3>3 DEF InFlight, Sent, Past, FlowInv, FlowType
    <3> QED BY <2>1, <3>4, NoGapKept
  <2>3. CASE ~(pc[a] \in {"replay", "streaming"} /\ conn[a])
    <3>1. reply' = reply
      BY <1>2, <2>3 DEF ForwardSend, SendReady, Received
    <3>2. ~Past(a) /\ (Past(b)' <=> Past(b))
      BY <2>1, <2>3 DEF Past, FlowInv, Running
    <3>3. b # a => InFlight(b)' = InFlight(b)
      BY <2>1, <3>1 DEF InFlight, Sent, FlowInv, FlowType
    <3> QED BY <2>1, <3>2, <3>3, NoGapKept
  <2> QED BY <2>2, <2>3
<1>3. CASE ForwardClosed(a) \/ Deliver(a) \/ Detach(a) \/ Disconnect(a)
  <2>1. (Past(b)' => Past(b)) /\ InFlight(b)' = InFlight(b)
    BY <1>3 DEF ForwardClosed, EventsOver, Deliver, Deliverable, Detach, Disconnect, Past, InFlight,
       Sent, FlowInv, FlowType
  <2> QED BY <1>3, <2>1, NoGapKept DEF ForwardClosed, EventsOver, Deliver, Deliverable, Detach,
     Disconnect
<1> QED BY <1>1, <1>2, <1>3 DEF ForwarderStep

\* Every step keeps the invariant.
LEMMA FlowStep == FlowInv /\ [Next]_vars => FlowInv'
<1> SUFFICES ASSUME FlowInv, [Next]_vars PROVE FlowInv'
  OBVIOUS
<1>1. CASE UNCHANGED vars
  BY <1>1 DEF vars, state, events, downlink, answer, request, FlowInv, BufferInv, FlowType,
     Running, NoGapFor, Past, InFlight, Sent, Known, Replies
<1>2. CASE Next
  <2>1. BufferInv'
    BY BufferStep DEF FlowInv
  <2>2. FlowType'
    BY <1>2, LoopType, HandlerType, ForwardType DEF FlowInv, Next
  <2>3. Running'
    BY <1>2, RunningStep DEF FlowInv
  <2>4. \A a \in Attempts : NoGapFor(a)'
    BY <1>2, <2>2, LoopNoGap, HandlerNoGap, ForwardNoGap DEF Next
  <2> QED BY <2>1, <2>2, <2>3, <2>4 DEF FlowInv
<1> QED BY <1>1, <1>2

(***************************************************************************)
(* A resumed client misses nothing that was buffered or came later, unless *)
(* its receiver lagged: for any number of resumes that race each other,    *)
(* the event loop and the connections, whatever cursors they present.      *)
(***************************************************************************)
THEOREM ResumeLeavesNoGap == Spec => []NoGap
<1>1. FlowInv => NoGap
  BY DEF FlowInv, NoGap, NoGapFor, Past
<1> QED BY <1>1, FlowInit, FlowStep, PTL DEF Spec

-----------------------------------------------------------------------------
(* The client.  Session has its properties for clients that may present    *)
(* anything; here: the command line client is one of them, so that the     *)
(* session it talks to has these properties too.                           *)

\* A process that reads a stream reads the stream of an attempt.
ReadsAttempt ==
    cli \in {"open", "drive", "interrupted", "handshake"} => mine \in Attempts

\* A process reads the stream of the attempt it made.
LEMMA ReadsAttemptStep == ReadsAttempt /\ [Next2]_allVars => ReadsAttempt'
<1> SUFFICES ASSUME ReadsAttempt, [Next2]_allVars PROVE ReadsAttempt'
  OBVIOUS
<1> USE DEF ReadsAttempt
<1>1. CASE UNCHANGED clientVars
  BY <1>1 DEF clientVars, process
<1>2. CASE UNCHANGED allVars
  BY <1>1, <1>2 DEF allVars
<1>3. CASE Exec
  BY <1>3 DEF Exec, Attempts
<1>4. CASE ListSessions \/ Leave
  BY <1>4 DEF ListSessions, Leave, Exits
<1>5. CASE ProcessStep
  <2>1. CASE OpenReturns \/ StreamError \/ StreamCloses \/ ResumeRefused
    BY <2>1 DEF OpenReturns, Opened, OpenFailed, StreamError, StreamStops, StreamCloses,
       ResumeRefused, Exits
  <2>2. CASE ShowPending
    BY <2>2 DEF ShowPending
  <2>3. CASE DriveRecv \/ HandshakeRecv
    BY <2>3 DEF DriveRecv, HandshakeRecv, Exits
  <2>4. CASE \E a \in Resumers : AutoResume(a) \/ ResumeCommand(a)
    BY <2>4 DEF AutoResume, ResumeCommand, Resume, Attempts
  <2>5. QED
    BY <1>5, <2>1, <2>2, <2>3, <2>4 DEF ProcessStep
<1>6. CASE \/ CapabilityStep \/ ServerStep
           \/ \E a \in Resumers : AttachResumer(a)
           \/ \E a \in Attempts : DetachClient(a) \/ LoseConnection(a)
  BY <1>1, <1>6 DEF CapabilityStep, ServerStep, AttachResumer, DetachClient, LoseConnection
<1>7. QED
  BY <1>2, <1>3, <1>4, <1>5, <1>6 DEF Next2

\* Every step of the composition is a step of the session, or none of its
\* business.
LEMMA ClientStep == ReadsAttempt /\ [Next2]_allVars => [Next]_vars
<1> SUFFICES ASSUME ReadsAttempt, [Next2]_allVars PROVE [Next]_vars
  OBVIOUS
<1>1. CASE UNCHANGED allVars
  BY <1>1 DEF allVars
<1>2. CASE Exec
  BY <1>2 DEF Exec, Next
<1>3. CASE ListSessions \/ Leave
  BY <1>3 DEF ListSessions, Leave
<1>4. CASE CapabilityStep
  BY <1>4 DEF CapabilityStep, Next
<1>5. CASE ProcessStep
  <2>1. CASE \E a \in Resumers : AutoResume(a) \/ ResumeCommand(a)
    <3>1. PICK a \in Resumers : Resume(a)
      BY <2>1 DEF AutoResume, ResumeCommand
    <3>2. ResumeStep(a)
      BY <3>1 DEF Resume, ResumeStep
    <3>3. QED
      BY <3>2 DEF Next
  <2>2. CASE DriveRecv \/ HandshakeRecv
    <3>1. mine \in Attempts /\ Deliver(mine)
      BY <2>2 DEF DriveRecv, HandshakeRecv, ReadsAttempt
    <3>2. QED
      BY <3>1 DEF Next
  <2>3. CASE OpenReturns \/ ShowPending \/ StreamError \/ StreamCloses \/ ResumeRefused
    BY <2>3 DEF OpenReturns, Opened, OpenFailed, ShowPending, StreamError, StreamStops,
       StreamCloses, ResumeRefused
  <2>4. QED
    BY <1>5, <2>1, <2>2, <2>3 DEF ProcessStep
<1>6. CASE ServerStep
  BY <1>6 DEF ServerStep, Next, ResumeStep
<1>7. CASE \E a \in Resumers : AttachResumer(a)
  <2>1. PICK a \in Resumers : AttachWithToken(a, presented[a])
    BY <1>7 DEF AttachResumer
  <2>2. ResumeStep(a)
    BY <2>1 DEF ResumeStep
  <2>3. QED
    BY <2>2 DEF Next
<1>8. CASE \E a \in Attempts : DetachClient(a) \/ LoseConnection(a)
  BY <1>8 DEF DetachClient, LoseConnection, Next
<1>9. QED
  BY <1>1, <1>2, <1>3, <1>4, <1>5, <1>6, <1>7, <1>8 DEF Next2

(***************************************************************************)
(* The session behind the command line client is a session of module       *)
(* Session: whatever the CLI, its resumes and its crashes do, is covered   *)
(* by what is proved there.                                                *)
(***************************************************************************)
THEOREM ClientImplementsSession == Spec2 => Spec
<1>1. Init2 => Init /\ ReadsAttempt
  BY DEF Init2, ReadsAttempt
<1>2. QED
  BY <1>1, ReadsAttemptStep, ClientStep, PTL DEF Spec2, Spec

(***************************************************************************)
(* Behind the CLI, too, detach never releases somebody else's attachment,  *)
(* output_buffer is the end of what the capability wrote, and a resume     *)
(* leaves no gap.                                                          *)
(***************************************************************************)
THEOREM ClientSessionSafety == Spec2 => [](AttachmentIsOwned /\ BufferIsSuffix /\ NoGap)
<1>1. QED
  BY ClientImplementsSession, AttachmentOwnership, BufferWindow, ResumeLeavesNoGap, PTL

-----------------------------------------------------------------------------
(* The resume token.                                                       *)

\* Nobody but the process that opened the session knows of it until a resume
\* has begun.
FirstProcess == cli \in {"start", "open"} \/ (cli \in {"drive", "interrupted"} /\ mine = Opener)

TokenInv ==
    /\ ReadsAttempt
    /\ pc \in [Attempts -> PcLabels] /\ DOMAIN presented = Attempts
    /\ cli = "open" => mine = Opener
    /\ cli = "handshake" => mine \in Resumers
    /\ FirstProcess => token = 1 /\ \A a \in Resumers : pc[a] = "start"
    /\ \A a \in Resumers : attachment = a => token = presented[a] + 1 /\ pc[a] # "start"
    /\ cli = "drive" => tok = IF mine = Opener THEN 1 ELSE presented[mine] + 1

\* Every step keeps the invariant.
LEMMA TokenStep == TokenInv /\ [Next2]_allVars => TokenInv'
<1> SUFFICES ASSUME TokenInv, [Next2]_allVars PROVE TokenInv'
  OBVIOUS
<1>0. ReadsAttempt'
  BY ReadsAttemptStep DEF TokenInv
<1>1. \A a \in Resumers : a \in Attempts /\ a # Opener /\ a # NoOne
  BY AttemptAssumption DEF Attempts
<1>2. Opener \in Attempts /\ Opener # NoOne
  BY AttemptAssumption DEF Attempts
<1> USE <1>0, <1>1, <1>2 DEF TokenInv, FirstProcess, state, request, Goto, PcLabels
<1>3. CASE UNCHANGED <<clientVars, token, attachment, pc>>
  BY <1>3 DEF clientVars, process, resumeState, ReadsAttempt
<1>4. CASE Exec
  BY <1>4 DEF Exec, OpenSession, resumeState
<1>5. CASE ListSessions
  BY <1>5 DEF ListSessions, vars
<1>6. CASE Leave \/ StreamError \/ ResumeRefused
  BY <1>6 DEF Leave, StreamError, StreamStops, ResumeRefused, Exits, vars
<1>7. CASE OpenReturns
  BY <1>7 DEF OpenReturns, Opened, OpenFailed, Exits, vars
<1>8. CASE ShowPending \/ StreamCloses
  BY <1>8 DEF ShowPending, StreamCloses, resumeState, vars
<1>9. CASE DriveRecv
  BY <1>9 DEF DriveRecv, Deliver, Deliverable, Exits
<1>10. CASE HandshakeRecv
  BY <1>10 DEF HandshakeRecv, Deliver, Deliverable, Exits
<1>11. ASSUME NEW a \in Resumers, AutoResume(a) \/ ResumeCommand(a) PROVE TokenInv'
  BY <1>11 DEF AutoResume, ResumeCommand, Resume, ResumeSubscribe, resumeState
<1>12. CASE CapabilityStep
  <2>1. UNCHANGED <<clientVars, token, attachment, pc>>
    BY <1>12 DEF CapabilityStep, RecvOutput, RecvClosed, RecvNone
  <2> QED BY <1>3, <2>1
<1>13. ASSUME NEW a \in Resumers, AttachResumer(a) PROVE TokenInv'
  <2>1. AttachWithToken(a, presented[a]) /\ UNCHANGED clientVars
    BY <1>13 DEF AttachResumer
  <2>2. ~FirstProcess
    BY <2>1 DEF AttachWithToken
  <2> QED BY <2>1, <2>2 DEF AttachWithToken, clientVars, process, resumeState
<1>14. ASSUME NEW a \in Attempts, DetachClient(a) \/ LoseConnection(a) PROVE TokenInv'
  BY <1>14 DEF DetachClient, LoseConnection, Detach, Disconnect, clientVars, process, resumeState
<1>15. CASE ServerStep
  <2>1. UNCHANGED clientVars
    BY <1>15 DEF ServerStep
  <2>2. CASE Attach
    BY <2>1, <2>2 DEF Attach, clientVars, process, resumeState
  <2>3. CASE LoopStep
    BY <2>1, <2>3 DEF LoopStep, Broadcast, RemoveSession, clientVars, process, resumeState
  <2>4. ASSUME NEW a \in Resumers, HandlerStep(a) PROVE TokenInv'
    <3>1. /\ pc[a] # "start" /\ UNCHANGED <<token, attachment>>
          /\ \E l \in PcLabels \ {"start"} : pc' = [pc EXCEPT ![a] = l]
      BY <2>4 DEF HandlerStep, QueryBuffer, SpawnForwarders, SendReplay, ReplayReady, SendAck,
         AckReady, DropHandler, Dropped
    <3> QED BY <2>1, <3>1 DEF clientVars, process, resumeState
  <2>5. ASSUME NEW a \in Attempts, ForwarderStep(a) PROVE TokenInv'
    BY <1>3, <2>1, <2>5 DEF ForwarderStep, ForwardRecv, EventReady, ForwardSend, SendReady,
       Received, ForwardClosed, EventsOver
  <2> QED BY <1>15, <2>2, <2>3, <2>4, <2>5 DEF ServerStep
<1>16. CASE UNCHANGED allVars
  BY <1>3, <1>16 DEF allVars, vars
<1> QED BY <1>4, <1>5, <1>6, <1>7, <1>8, <1>9, <1>10, <1>11, <1>12, <1>13, <1>14, <1>15, <1>16
        DEF Next2, ProcessStep

(***************************************************************************)
(* The rotation of attach_with_token is never ahead of the client: a       *)
(* process whose stream owns the attachment holds the token the server     *)
(* will ask for next, whatever processes came before it.                   *)
(***************************************************************************)
THEOREM ClientHoldsToken == Spec2 => []TokenIsCurrent
<1>1. Init2 => TokenInv
  BY AttemptAssumption DEF Init2, Init, TokenInv, ReadsAttempt, FirstProcess, PcLabels, Attempts
<1>2. TokenInv => TokenIsCurrent
  <2> SUFFICES ASSUME TokenInv, cli = "drive", attachment = mine PROVE tok = token
    BY DEF TokenIsCurrent
  <2>1. mine \in Attempts
    BY DEF TokenInv, ReadsAttempt
  <2>2. CASE mine = Opener
    BY <2>2 DEF TokenInv, FirstProcess
  <2>3. CASE mine \in Resumers
    BY <2>3, AttemptAssumption DEF TokenInv
  <2> QED BY <2>1, <2>2, <2>3 DEF Attempts
<1> QED BY <1>1, <1>2, TokenStep, PTL DEF Spec2

-----------------------------------------------------------------------------
(* The cursors.  What the process has taken over is below its cursors only *)
(* if everything before it is accounted for, so the invariant follows the  *)
(* whole way of a frame: whatever is under way to the process has all      *)
(* earlier frames of its stream ahead of it, or they are replayed, or out  *)
(* of the buffer, or already with the process.                             *)

Unread(a) == (read[a] + 1)..Len(reply[a])
UnreadMsgs(a) == {reply[a][i].msg : i \in Unread(a)}
Ahead(a, i) == {reply[a][j].msg : j \in (read[a] + 1)..(i - 1)}
Replayed(a) ==
    Items(replay[a]) \cup
        {reply[a][i].msg : i \in {j \in Unread(a) : reply[a][j].src = "replay"}}

\* What the process has had, what it is not going to get, and what is replayed.
Seen == shown \cup Items(pending) \cup skipped
Covered(a) == Seen \cup missed[a] \cup Replayed(a)
Lost == Items(recorded) \ Items(buffer)

\* Every frame in R of f's stream before f is in S.
Led(f, S, R) ==
    f.kind = "output" => \A g \in R : g.stream = f.stream /\ g.seq < f.seq => g \in S

\* The way to a process that is past reading the buffer, from its end on.
RepliesLed(a) ==
    \A i \in Unread(a) :
        reply[a][i].src = "live" =>
            Led(reply[a][i].msg, Covered(a) \cup Ahead(a, i), Items(recorded))
HandLed(a) == Led(hand[a], Covered(a) \cup UnreadMsgs(a), Items(recorded))
Taken(a) == Covered(a) \cup UnreadMsgs(a) \cup {hand[a]}
SubLed(a) ==
    \A k \in DOMAIN sub[a] :
        Led(sub[a][k], Taken(a) \cup {sub[a][j] : j \in 1..(k - 1)}, Items(recorded))
CurrentLed(a) == Led(current, Taken(a) \cup Items(sub[a]), Items(recorded))
AllUnderWay(a) == Items(recorded) \subseteq Taken(a) \cup Items(sub[a]) \cup {current}
ReplayLed(a) == \A f \in Replayed(a) : Led(f, Covered(a), Items(recorded))
Line(a) == /\ RepliesLed(a) /\ HandLed(a) /\ SubLed(a) /\ CurrentLed(a)
           /\ AllUnderWay(a) /\ ReplayLed(a)

\* The process reads the stream of a, and its cursors count for it, or have
\* yet to be used.
Reads(a) == mine = a /\ cli \in {"open", "drive", "interrupted", "handshake"}
Counts(a) ==
    Reads(a) /\ (cli = "handshake" => pc[a] \in {"spawn", "replay", "streaming"})
Presents(a) == Reads(a) /\ cli = "handshake" /\ pc[a] \in {"attach", "query"}

\* Every frame at or below the cursors is in S.
Below(S) == \A g \in Items(recorded) : g.seq <= cur[g.stream] => g \in S

LineLed == \A a \in Attempts : Reads(a) /\ Past(a) => Line(a)
CursorsCovered ==
    /\ \A a \in Attempts : Counts(a) => Below(Covered(a))
    /\ cli = "listed" \/ (\E a \in Attempts : Presents(a)) => Below(Seen \cup Lost)

\* The numbers and the histories.
CursorType ==
    /\ cur \in [Streams -> Nat] /\ next \in [Streams -> Nat]
    /\ \A st \in Streams : cur[st] < next[st]
    /\ \A f \in Items(recorded) : 1 <= f.seq /\ f.seq < next[f.stream]
    /\ pending \in Seq(Items(recorded))
    /\ read \in [Attempts -> Nat] /\ \A a \in Attempts : read[a] <= Len(reply[a])
    /\ \A a \in Attempts : missed[a] \subseteq Lost

\* The order in which a handler sends: nothing replayed comes after the ack.
SendOrder ==
    /\ \A a \in Attempts : pc[a] = "streaming" => replay[a] = <<>>
    /\ \A a \in Attempts : \A i \in DOMAIN reply[a] :
          reply[a][i].src = "ack" =>
              /\ pc[a] = "streaming" /\ reply[a][i].msg = Nothing
              /\ \A j \in DOMAIN reply[a] : j > i => reply[a][j].src = "live"
    /\ replay[Opener] = <<>>
    /\ \A i \in DOMAIN reply[Opener] : reply[Opener][i].src = "live"

\* Where the process is and where its handler is.
Paired ==
    /\ ReadsAttempt
    /\ cli = "open" => mine = Opener
    /\ cli = "handshake" => mine \in Resumers /\ pc[mine] # "start"
    /\ \A a \in Attempts : Presents(a) => cursor[a] = cur
    /\ cli \in {"drive", "interrupted"} =>
          /\ pc[mine] = "streaming"
          /\ \A i \in Unread(mine) : reply[mine][i].src = "live"

CursorInv ==
    /\ FlowInv /\ CursorType /\ SendOrder /\ Paired
    /\ lagged = {} => LineLed /\ CursorsCovered

\* A frame that is recorded is later than the others of its stream, and what
\* has left the buffer does not come back.
LEMMA RecordedLater ==
    ASSUME FlowInv, CursorType, RecvOutput
    PROVE  \E f \in Frames :
              /\ f.kind = "output" /\ f.stream \in Streams /\ f.seq = next[f.stream]
              /\ next' = [next EXCEPT ![f.stream] = @ + 1]
              /\ Items(recorded') = Items(recorded) \cup {f}
              /\ \A g \in Items(recorded) : g.stream = f.stream => g.seq < f.seq
              /\ Lost \subseteq Lost' /\ f \notin Items(recorded) /\ current' = f
              /\ current = Nothing
<1>1. PICK st \in Streams : RecordOutput(st)
  BY DEF RecvOutput
<1> DEFINE f == Frame(st, next[st])
<1>2. f \in Frames /\ f.kind = "output" /\ f.stream = st /\ f.seq = next[st]
  BY DEF CursorType, Frame, Frames
<1>3. /\ next' = [next EXCEPT ![st] = @ + 1] /\ recorded' = Append(recorded, f)
      /\ buffer' = PushFrame(buffer, f) /\ current' = f /\ current = Nothing
  BY <1>1 DEF RecordOutput, RecvOutput
<1> HIDE DEF f
<1>4. Items(recorded') = Items(recorded) \cup {f}
  BY <1>2, <1>3, ItemsAppend DEF FlowInv, FlowType
<1>5. \A g \in Items(recorded) : g.stream = f.stream => g.seq < f.seq
  BY <1>2 DEF CursorType
<1>6. f \notin Items(recorded)
  BY <1>2, <1>5 DEF CursorType
<1>7. Items(buffer') \subseteq Items(buffer) \cup {f}
  <2>1. buffer \in Seq(Frames)
    BY DEF FlowInv, BufferInv
  <2>2. Append(buffer, f) \in Seq(Frames) /\ Items(Append(buffer, f)) = Items(buffer) \cup {f}
    BY <1>2, <2>1, ItemsAppend
  <2>3. Append(buffer, f) # <<>>
    BY <1>2, <2>1, AppendProperties
  <2>4. Items(Tail(Append(buffer, f))) \subseteq Items(Append(buffer, f))
    BY <2>2, <2>3, ItemsTail
  <2> QED BY <1>3, <2>2, <2>4 DEF PushFrame
<1>8. Lost \subseteq Lost'
  BY <1>4, <1>6, <1>7 DEF Lost
<1> QED BY <1>2, <1>3, <1>4, <1>5, <1>6, <1>8

\* What the process takes off its stream.
LEMMA Delivered ==
    ASSUME FlowInv, CursorType, mine \in Attempts, Deliver(mine)
    PROVE  /\ Incoming \in Replies /\ read[mine] + 1 \in DOMAIN reply[mine]
           /\ Incoming.msg.kind = "output" => Incoming.msg \in Items(recorded)
           /\ read' \in [Attempts -> Nat] /\ \A a \in Attempts : read'[a] <= Len(reply[a])
           /\ read'[mine] = read[mine] + 1 /\ reply' = reply
           /\ \A i : i \in Unread(mine)
                        <=> i = read[mine] + 1 \/ i \in (read'[mine] + 1)..Len(reply[mine])
<1>1. /\ read[mine] < Len(reply[mine]) /\ read' = [read EXCEPT ![mine] = @ + 1]
      /\ reply' = reply /\ recorded' = recorded
  BY DEF Deliver, Deliverable, answer, state
<1>2. /\ read \in [Attempts -> Nat] /\ \A a \in Attempts : read[a] <= Len(reply[a])
      /\ reply[mine] \in Seq(Replies) /\ \A a \in Attempts : Len(reply[a]) \in Nat
  BY LenProperties DEF FlowInv, FlowType, CursorType
<1>3. DOMAIN reply[mine] = 1..Len(reply[mine])
  BY <1>2, LenProperties
<1>4. read[mine] + 1 \in DOMAIN reply[mine]
  BY <1>1, <1>2, <1>3
<1>5. Incoming \in Replies
  BY <1>2, <1>3, <1>4, ElementOfSeq DEF Incoming
<1>6. Incoming.msg.kind = "output" => Incoming.msg \in Items(recorded)
  BY <1>5, MessageKinds DEF Replies, Known, FlowInv, FlowType
<1>7. /\ read' \in [Attempts -> Nat] /\ \A a \in Attempts : read'[a] <= Len(reply[a])
      /\ read'[mine] = read[mine] + 1
  BY <1>1, <1>2
<1>8. \A i : i \in Unread(mine)
                <=> i = read[mine] + 1 \/ i \in (read'[mine] + 1)..Len(reply[mine])
  BY <1>1, <1>2, <1>7 DEF Unread
<1> QED BY <1>1, <1>4, <1>5, <1>6, <1>7, <1>8

\* What is sent comes last.
LEMMA Appended ==
    ASSUME FlowType, NEW a \in Attempts, NEW r \in Replies, Send(a, r)
    PROVE  /\ \A b \in Attempts \ {a} : reply'[b] = reply[b]
           /\ Len(reply[a]) \in Nat /\ Len(reply'[a]) = Len(reply[a]) + 1
           /\ DOMAIN reply[a] = 1..Len(reply[a]) /\ DOMAIN reply'[a] = 1..(Len(reply[a]) + 1)
           /\ \A i \in 1..Len(reply[a]) : reply'[a][i] = reply[a][i]
           /\ reply'[a][Len(reply[a]) + 1] = r
<1>1. reply[a] \in Seq(Replies) /\ reply' = [reply EXCEPT ![a] = Append(@, r)]
      /\ DOMAIN reply = Attempts
  BY DEF FlowType, Send
<1>2. reply'[a] = Append(reply[a], r) /\ \A b \in Attempts \ {a} : reply'[b] = reply[b]
  BY <1>1
<1> QED BY <1>1, <1>2, AppendProperties, LenProperties

\* The steps of the server that touch neither what is recorded nor a stream.
Quiet ==
    UNCHANGED <<next, recorded, buffer, reply, read, missed, replay, cursor>>

\* Every step but a delivery, a replay and a record is quiet.
LEMMA QuietSteps ==
    ASSUME \/ RecvClosed \/ RecvNone \/ LoopStep \/ Attach
           \/ \E a \in Resumers : SpawnForwarders(a) \/ DropHandler(a) \/ AttachResumer(a)
           \/ \E a \in Attempts : ForwardRecv(a) \/ ForwardClosed(a) \/ DetachClient(a)
                                  \/ LoseConnection(a)
    PROVE  Quiet
BY DEF Quiet, RecvClosed, RecvNone, LoopStep, Broadcast, RemoveSession, Attach, SpawnForwarders,
   DropHandler, Dropped, AttachResumer, AttachWithToken, ForwardRecv, EventReady, ForwardClosed,
   EventsOver, DetachClient, LoseConnection, Detach, Disconnect, state, answer, request

\* The numbers and the histories keep their types.
LEMMA CursorTypeStep ==
    ASSUME FlowInv, CursorType, Paired, [Next2]_allVars
    PROVE  CursorType'
<1> USE DEF clientVars, process, resumeState
<1>1. ASSUME Quiet, UNCHANGED <<cur, pending>> PROVE CursorType'
  BY <1>1 DEF Quiet, CursorType, Lost
<1>2. ASSUME UNCHANGED <<next, recorded, buffer, reply, read, missed>>,
             cur' \in [Streams -> Nat], \A st \in Streams : cur'[st] < next[st],
             pending' \in Seq(Items(recorded))
      PROVE  CursorType'
  BY <1>2 DEF CursorType, Lost
<1>3. CASE Exec \/ UNCHANGED allVars
  BY <1>3, <1>1 DEF Exec, OpenSession, Quiet, answer, request, allVars, vars, state
<1>4. CASE ListSessions
  <2>1. \A st \in Streams : next[st] \in Nat \ {0}
    BY DEF CursorType
  <2>2. cur' = [st \in Streams |-> next[st] - 1]
    BY <1>4 DEF ListSessions
  <2>3. cur' \in [Streams -> Nat] /\ \A st \in Streams : cur'[st] < next[st]
    BY <2>1, <2>2
  <2> QED BY <1>2, <1>4, <2>3 DEF ListSessions, vars, state, answer, request, CursorType
<1>5. CASE Leave \/ StreamError \/ ResumeRefused \/ OpenReturns \/ StreamCloses
  <2>1. UNCHANGED <<vars, cur>> /\ pending' \in {pending, <<>>}
    BY <1>5 DEF Leave, StreamError, StreamStops, ResumeRefused, OpenReturns, Opened, OpenFailed,
       StreamCloses, Exits
  <2>2. pending' \in Seq(Items(recorded))
    BY <2>1, EmptySeq DEF CursorType
  <2> QED BY <1>2, <2>1, <2>2 DEF vars, state, answer, request, CursorType
<1>6. CASE ShowPending
  <2>1. pending' \in Seq(Items(recorded))
    BY <1>6, HeadTailProperties, EmptySeq DEF ShowPending, CursorType
  <2> QED BY <1>2, <1>6, <2>1 DEF ShowPending, vars, state, answer, request, CursorType
<1>7. CASE DriveRecv \/ HandshakeRecv
  <2>1. mine \in Attempts /\ Deliver(mine)
    BY <1>7 DEF DriveRecv, HandshakeRecv, Paired, ReadsAttempt
  <2>2. /\ Incoming.msg.kind = "output" => Incoming.msg \in Items(recorded)
        /\ read' \in [Attempts -> Nat] /\ \A a \in Attempts : read'[a] <= Len(reply'[a])
        /\ UNCHANGED <<next, recorded, buffer, reply, missed>>
    BY <2>1, Delivered DEF Deliver, Deliverable, state, request
  <2>3. /\ cur' \in [Streams -> Nat] /\ \A st \in Streams : cur'[st] < next[st]
    <3>1. CASE cur' = cur
      BY <3>1 DEF CursorType
    <3>2. CASE Incoming.msg.kind = "output" /\ Saw(Incoming.msg)
      <4>1. Incoming.msg \in Frames
        BY <2>2, <3>2, MessageKinds DEF FlowInv, FlowType
      <4>2. Incoming.msg.stream \in Streams /\ Incoming.msg.seq \in Nat
        BY <4>1 DEF Frames
      <4>3. Incoming.msg.seq < next[Incoming.msg.stream]
        BY <2>2, <3>2 DEF CursorType
      <4> QED BY <3>2, <4>2, <4>3 DEF Saw, CursorType
    <3> QED BY <1>7, <3>1, <3>2 DEF DriveRecv, HandshakeRecv, Exits
  <2>4. pending' \in Seq(Items(recorded))
    <3>1. CASE pending' \in {pending, <<>>}
      BY <3>1, EmptySeq DEF CursorType
    <3>2. CASE Incoming.msg.kind = "output" /\ pending' = Append(pending, Incoming.msg)
      BY <2>2, <3>2, AppendProperties DEF CursorType
    <3> QED BY <1>7, <3>1, <3>2 DEF DriveRecv, HandshakeRecv, Exits
  <2> QED BY <2>2, <2>3, <2>4 DEF CursorType, Lost
<1>8. CASE \E a \in Resumers : AutoResume(a) \/ ResumeCommand(a)
  BY <1>2, <1>8 DEF AutoResume, ResumeCommand, Resume, ResumeSubscribe, state, answer, CursorType
<1>9. CASE RecvOutput /\ UNCHANGED clientVars
  <2>1. PICK f \in Frames :
           /\ f.kind = "output" /\ f.stream \in Streams /\ f.seq = next[f.stream]
           /\ next' = [next EXCEPT ![f.stream] = @ + 1]
           /\ Items(recorded') = Items(recorded) \cup {f} /\ Lost \subseteq Lost'
    BY <1>9, RecordedLater
  <2>2. next' \in [Streams -> Nat] /\ \A st \in Streams : next[st] <= next'[st]
    BY <2>1 DEF CursorType
  <2>3. /\ cur' = cur /\ pending' = pending /\ reply' = reply /\ read' = read /\ missed' = missed
    BY <1>9 DEF RecvOutput, answer, request
  <2>4. \A st \in Streams : cur[st] < next'[st]
    BY <2>2 DEF CursorType
  <2>5. \A g \in Items(recorded') : 1 <= g.seq /\ g.seq < next'[g.stream]
    <3> SUFFICES ASSUME NEW g \in Items(recorded') PROVE 1 <= g.seq /\ g.seq < next'[g.stream]
      OBVIOUS
    <3>1. CASE g = f
      BY <2>1, <3>1 DEF CursorType
    <3>2. CASE g \in Items(recorded)
      <4>1. g \in Frames
        BY <3>2, MessageKinds DEF FlowInv, FlowType
      <4> QED BY <2>1, <2>2, <3>2, <4>1 DEF CursorType, Frames
    <3> QED BY <2>1, <3>1, <3>2
  <2>6. pending' \in Seq(Items(recorded'))
    BY <2>1, <2>3, SeqMonotonic DEF CursorType
  <2>7. \A a \in Attempts : missed'[a] \subseteq Lost'
    BY <2>1, <2>3 DEF CursorType
  <2> QED BY <2>2, <2>3, <2>4, <2>5, <2>6, <2>7 DEF CursorType
<1>10. ASSUME NEW a \in Attempts, NEW r \in Replies, Send(a, r), UNCHANGED clientVars,
              UNCHANGED <<next, recorded, buffer, read, missed>>
       PROVE  CursorType'
  <2>1. \A b \in Attempts : Len(reply[b]) <= Len(reply'[b]) /\ Len(reply[b]) \in Nat
                            /\ Len(reply'[b]) \in Nat
    <3>1. /\ Len(reply[a]) \in Nat /\ Len(reply'[a]) = Len(reply[a]) + 1
          /\ \A b \in Attempts \ {a} : reply'[b] = reply[b]
      BY <1>10, Appended DEF FlowInv
    <3>2. \A b \in Attempts : Len(reply[b]) \in Nat
      BY LenProperties DEF FlowInv, FlowType
    <3> QED BY <3>1, <3>2
  <2> QED BY <1>10, <2>1 DEF CursorType, Lost
<1>11. ASSUME NEW a \in Resumers, HandlerStep(a), UNCHANGED clientVars PROVE CursorType'
  <2>0. a \in Attempts
    BY DEF Attempts
  <2>1. CASE QueryBuffer(a)
    <3>1. UNCHANGED <<next, recorded, buffer, reply, read>>
      BY <2>1 DEF QueryBuffer, state, answer
    <3>2. \A b \in Attempts : missed'[b] \subseteq Lost
      BY <2>0, <2>1 DEF QueryBuffer, CursorType, Lost, FlowInv, FlowType
    <3> QED BY <1>11, <3>1, <3>2 DEF CursorType, Lost
  <2>2. CASE SpawnForwarders(a) \/ DropHandler(a)
    BY <1>1, <1>11, <2>2, QuietSteps
  <2>3. CASE SendReplay(a)
    <3>1. Head(replay[a]) \in Items(recorded)
      BY <2>0, <2>3, ItemsTail DEF SendReplay, ReplayReady, FlowInv, FlowType
    <3>2. Reply("replay", Head(replay[a])) \in Replies
      BY <3>1 DEF Reply, Replies, Known
    <3> QED BY <1>10, <1>11, <2>0, <2>3, <3>2 DEF SendReplay, ReplayReady, state
  <2>4. CASE SendAck(a)
    <3>1. Reply("ack", Nothing) \in Replies
      BY DEF Reply, Replies, Known
    <3> QED BY <1>10, <1>11, <2>0, <2>4, <3>1 DEF SendAck, AckReady, state
  <2> QED BY <1>11, <2>1, <2>2, <2>3, <2>4 DEF HandlerStep
<1>12. ASSUME NEW a \in Attempts, ForwarderStep(a), UNCHANGED clientVars PROVE CursorType'
  <2>1. CASE ForwardSend(a)
    <3>1. Reply("live", hand[a]) \in Replies
      BY DEF Reply, Replies, FlowInv, FlowType
    <3>2. CASE pc[a] \in {"replay", "streaming"} /\ conn[a]
      BY <1>10, <1>12, <2>1, <3>1, <3>2 DEF ForwardSend, SendReady, Received, state, request
    <3>3. CASE ~(pc[a] \in {"replay", "streaming"} /\ conn[a])
      BY <1>1, <1>12, <2>1, <3>3 DEF ForwardSend, SendReady, Received, state, request, Quiet
    <3> QED BY <3>2, <3>3
  <2> QED BY <1>1, <1>12, <2>1, QuietSteps DEF ForwarderStep
<1>13. CASE \/ \E a \in Resumers : AttachResumer(a)
            \/ \E a \in Attempts : DetachClient(a) \/ LoseConnection(a)
  BY <1>1, <1>13, QuietSteps DEF AttachResumer, DetachClient, LoseConnection
<1>14. CASE CapabilityStep
  BY <1>1, <1>9, <1>14, QuietSteps DEF CapabilityStep
<1>15. CASE ServerStep
  BY <1>1, <1>11, <1>12, <1>15, QuietSteps DEF ServerStep
<1> QED BY <1>3, <1>4, <1>5, <1>6, <1>7, <1>8, <1>13, <1>14, <1>15 DEF Next2, ProcessStep

\* The replayed frames are sent before the ack, and live ones only after it.
LEMMA SendOrderStep ==
    ASSUME FlowInv, CursorType, SendOrder, Paired, [Next2]_allVars
    PROVE  SendOrder'
<1> USE DEF state, answer, request, events, downlink, Goto
<1>0. Opener \in Attempts /\ \A a \in Resumers : a \in Attempts /\ a # Opener
  BY AttemptAssumption DEF Attempts
<1>1. ASSUME UNCHANGED <<reply, replay>>,
             \A a \in Attempts : pc'[a] = "streaming" <=> pc[a] = "streaming"
      PROVE  SendOrder'
  BY <1>1 DEF SendOrder
<1>2. CASE \/ Exec \/ ListSessions \/ Leave \/ UNCHANGED allVars
           \/ CapabilityStep \/ \E a \in Resumers : AttachResumer(a)
  <2>1. /\ UNCHANGED <<reply, replay>>
        /\ \A a \in Attempts : pc'[a] = "streaming" <=> pc[a] = "streaming"
    BY <1>0, <1>2 DEF Exec, OpenSession, ListSessions, Leave, allVars, vars, CapabilityStep,
       RecvOutput, RecvClosed, RecvNone, AttachResumer, AttachWithToken, FlowInv, FlowType
  <2> QED BY <1>1, <2>1
<1>3. CASE \E a \in Attempts : DetachClient(a) \/ LoseConnection(a)
  BY <1>1, <1>3 DEF DetachClient, LoseConnection, Detach, Disconnect
<1>4. CASE ProcessStep
  <2>1. CASE \E a \in Resumers : AutoResume(a) \/ ResumeCommand(a)
    BY <1>0, <1>1, <2>1 DEF AutoResume, ResumeCommand, Resume, ResumeSubscribe, FlowInv, FlowType
  <2>2. CASE ~\E a \in Resumers : AutoResume(a) \/ ResumeCommand(a)
    BY <1>1, <1>4, <2>2 DEF ProcessStep, OpenReturns, Opened, OpenFailed, ShowPending, DriveRecv,
       HandshakeRecv, StreamError, StreamStops, StreamCloses, ResumeRefused, Deliver, Deliverable,
       vars
  <2> QED BY <2>1, <2>2
<1>5. CASE ServerStep
  <2>1. CASE Attach
    <3>1. UNCHANGED <<reply, replay>> /\ \A a \in Attempts \ {Opener} : pc'[a] = pc[a]
          /\ pc[Opener] = "attach"
      BY <2>1 DEF Attach, FlowInv, FlowType
    <3> QED BY <1>0, <3>1 DEF SendOrder
  <2>2. CASE LoopStep
    BY <1>1, <2>2 DEF LoopStep, Broadcast, RemoveSession
  <2>3. ASSUME NEW a \in Resumers, HandlerStep(a) PROVE SendOrder'
    <3>0. a \in Attempts /\ a # Opener
      BY <1>0
    <3>1. CASE QueryBuffer(a)
      <4>1. /\ reply' = reply /\ pc[a] = "query" /\ pc'[a] \in {"spawn", "failed"}
            /\ \A b \in Attempts \ {a} : pc'[b] = pc[b] /\ replay'[b] = replay[b]
        BY <3>0, <3>1 DEF QueryBuffer, FlowInv, FlowType
      <4> QED BY <1>0, <3>0, <4>1 DEF SendOrder
    <3>2. CASE SpawnForwarders(a) \/ DropHandler(a)
      BY <1>1, <3>0, <3>2 DEF SpawnForwarders, DropHandler, Dropped, FlowInv, FlowType
    <3>3. CASE SendReplay(a)
      <4>1. Head(replay[a]) \in Items(recorded)
        BY <3>0, <3>3, ItemsTail DEF SendReplay, ReplayReady, FlowInv, FlowType
      <4> DEFINE r == Reply("replay", Head(replay[a]))
                 n == Len(reply[a])
      <4>2. r \in Replies /\ Send(a, r) /\ pc[a] = "replay" /\ pc' = pc
        BY <3>3, <4>1 DEF SendReplay, ReplayReady, Reply, Replies, Known
      <4>3. \A b \in Attempts \ {a} : replay'[b] = replay[b]
        BY <3>3 DEF SendReplay, ReplayReady, FlowInv, FlowType
      <4>4. r.src = "replay"
        BY DEF Reply
      <4> HIDE DEF r
      <4>5. /\ \A b \in Attempts \ {a} : reply'[b] = reply[b]
            /\ n \in Nat /\ DOMAIN reply[a] = 1..n /\ DOMAIN reply'[a] = 1..(n + 1)
            /\ \A i \in 1..n : reply'[a][i] = reply[a][i]
            /\ reply'[a][n + 1] = r
        BY <3>0, <4>2, Appended DEF FlowInv
      <4>6. \A i \in DOMAIN reply[a] : reply[a][i].src # "ack"
        BY <3>0, <4>2 DEF SendOrder
      <4>7. \A i \in DOMAIN reply'[a] : reply'[a][i].src # "ack"
        BY <4>4, <4>5, <4>6
      <4> HIDE DEF n
      <4> QED BY <1>0, <3>0, <4>2, <4>3, <4>5, <4>7 DEF SendOrder
    <3>4. CASE SendAck(a)
      <4> DEFINE r == Reply("ack", Nothing)
                 n == Len(reply[a])
      <4>2. /\ r \in Replies /\ Send(a, r) /\ pc[a] = "replay" /\ replay[a] = <<>>
            /\ replay' = replay /\ pc'[a] = "streaming" /\ \A b \in Attempts \ {a} : pc'[b] = pc[b]
            /\ r.msg = Nothing
        BY <3>0, <3>4 DEF SendAck, AckReady, Reply, Replies, Known, FlowInv, FlowType
      <4> HIDE DEF r
      <4>5. /\ \A b \in Attempts \ {a} : reply'[b] = reply[b]
            /\ n \in Nat /\ DOMAIN reply[a] = 1..n /\ DOMAIN reply'[a] = 1..(n + 1)
            /\ \A i \in 1..n : reply'[a][i] = reply[a][i]
            /\ reply'[a][n + 1].msg = Nothing
        BY <3>0, <4>2, Appended DEF FlowInv
      <4>6. \A i \in DOMAIN reply[a] : reply[a][i].src # "ack"
        BY <3>0, <4>2 DEF SendOrder
      <4>7. \A i \in DOMAIN reply'[a] : reply'[a][i].src = "ack" => i = n + 1
        BY <4>5, <4>6
      <4>8. \A i \in DOMAIN reply'[a] : reply'[a][i].src = "ack" =>
               reply'[a][i].msg = Nothing /\ \A j \in DOMAIN reply'[a] : j > i => reply'[a][j].src = "live"
        BY <4>5, <4>7
      <4> HIDE DEF n
      <4> QED BY <1>0, <3>0, <4>2, <4>5, <4>8 DEF SendOrder
    <3> QED BY <2>3, <3>1, <3>2, <3>3, <3>4 DEF HandlerStep
  <2>4. ASSUME NEW a \in Attempts, ForwarderStep(a) PROVE SendOrder'
    <3>1. CASE ForwardSend(a) /\ pc[a] \in {"replay", "streaming"} /\ conn[a]
      <4> DEFINE r == Reply("live", hand[a])
                 n == Len(reply[a])
      <4>2. r \in Replies /\ Send(a, r) /\ UNCHANGED <<pc, replay>> /\ r.src = "live"
        BY <3>1 DEF ForwardSend, SendReady, Received, Reply, Replies, FlowInv, FlowType
      <4> HIDE DEF r
      <4>5. /\ \A b \in Attempts \ {a} : reply'[b] = reply[b]
            /\ n \in Nat /\ DOMAIN reply[a] = 1..n /\ DOMAIN reply'[a] = 1..(n + 1)
            /\ \A i \in 1..n : reply'[a][i] = reply[a][i]
            /\ reply'[a][n + 1] = r
        BY <4>2, Appended DEF FlowInv
      <4>6. \A i \in DOMAIN reply'[a] :
               (i \in DOMAIN reply[a] /\ reply'[a][i] = reply[a][i]) \/ reply'[a][i].src = "live"
        BY <4>2, <4>5
      <4>7. \A i \in DOMAIN reply'[a] : reply'[a][i].src = "ack" =>
               /\ pc[a] = "streaming" /\ reply'[a][i].msg = Nothing
               /\ \A j \in DOMAIN reply'[a] : j > i => reply'[a][j].src = "live"
        BY <4>6 DEF SendOrder
      <4>8. a = Opener => \A i \in DOMAIN reply'[a] : reply'[a][i].src = "live"
        BY <4>6 DEF SendOrder
      <4> HIDE DEF n
      <4> QED BY <1>0, <4>2, <4>5, <4>7, <4>8 DEF SendOrder
    <3>2. CASE ~(ForwardSend(a) /\ pc[a] \in {"replay", "streaming"} /\ conn[a])
      BY <1>1, <2>4, <3>2 DEF ForwarderStep, ForwardRecv, EventReady, ForwardSend, SendReady,
         Received, ForwardClosed, EventsOver
    <3> QED BY <3>1, <3>2
  <2> QED BY <1>5, <2>1, <2>2, <2>3, <2>4 DEF ServerStep
<1> QED BY <1>2, <1>3, <1>4, <1>5 DEF Next2

\* The process and its handler stay together.
LEMMA PairedStep ==
    ASSUME FlowInv, CursorType, SendOrder, Paired, [Next2]_allVars
    PROVE  Paired'
<1> USE DEF state, answer, request, events, downlink, Goto, clientVars, process, resumeState,
            Presents, Reads
<1>0. /\ Opener \in Attempts /\ \A a \in Resumers : a \in Attempts /\ a # Opener
      /\ ReadsAttempt'
  BY AttemptAssumption, ReadsAttemptStep DEF Attempts, Paired
<1>1. ASSUME NEW a \in Attempts PROVE Unread(a) \subseteq DOMAIN reply[a]
  BY LenProperties DEF Unread, CursorType, FlowInv, FlowType
<1>2. ASSUME UNCHANGED <<cli, mine, cur, cursor, pc, reply, read>> PROVE Paired'
  BY <1>0, <1>2 DEF Paired, Unread
<1>3. CASE Exec
  BY <1>0, <1>3 DEF Exec, Paired
<1>4. CASE ListSessions \/ Leave \/ StreamError \/ ResumeRefused
  BY <1>0, <1>4 DEF ListSessions, Leave, StreamError, StreamStops, ResumeRefused, Exits, Paired
<1>5. CASE OpenReturns
  <2>1. CASE cli' = "drive"
    <3>1. /\ mine = Opener /\ mine' = mine /\ pc[Opener] = "streaming"
          /\ UNCHANGED <<pc, reply, read>>
      BY <1>5, <2>1 DEF OpenReturns, Opened, OpenFailed, Exits, vars, Paired
    <3>2. \A i \in Unread(Opener) : reply[Opener][i].src = "live"
      BY <1>0, <1>1 DEF SendOrder
    <3> QED BY <1>0, <2>1, <3>1, <3>2 DEF Paired, Unread
  <2>2. CASE cli' = "off"
    BY <1>0, <2>2 DEF Paired
  <2> QED BY <1>5, <2>1, <2>2 DEF OpenReturns, Opened, OpenFailed, Exits
<1>6. CASE UNCHANGED allVars
  BY <1>2, <1>6 DEF vars, allVars
<1>7. CASE StreamCloses \/ ShowPending
  BY <1>0, <1>7 DEF StreamCloses, ShowPending, vars, Paired, Unread
<1>8. CASE DriveRecv \/ HandshakeRecv
  <2>1. /\ mine \in Attempts /\ Deliver(mine) /\ UNCHANGED <<pc, reply>> /\ pc[mine] = "streaming"
    BY <1>8 DEF DriveRecv, HandshakeRecv, Deliver, Deliverable, Paired, ReadsAttempt
  <2>2. /\ read[mine] + 1 \in DOMAIN reply[mine]
        /\ \A i \in (read'[mine] + 1)..Len(reply[mine]) : i \in Unread(mine) /\ i > read[mine] + 1
    BY <2>1, Delivered DEF CursorType
  <2>3. CASE cli' = "off"
    BY <1>0, <2>3 DEF Paired
  <2>4. CASE cli = "drive" /\ cli' \in {"drive", "interrupted"} /\ mine' = mine
    BY <1>0, <2>1, <2>2, <2>4 DEF Paired, Unread
  <2>5. CASE cli = "handshake" /\ cli' = "handshake" /\ mine' = mine
    BY <1>0, <2>1, <2>5 DEF Paired
  <2>6. CASE cli' = "drive" /\ mine' = mine /\ Incoming.src = "ack"
    <3>1. \A j \in DOMAIN reply[mine] : j > read[mine] + 1 => reply[mine][j].src = "live"
      BY <2>1, <2>2, <2>6 DEF SendOrder, Incoming
    <3>2. \A j \in (read'[mine] + 1)..Len(reply[mine]) : reply[mine][j].src = "live"
      BY <1>1, <2>1, <2>2, <3>1
    <3> QED BY <1>0, <2>1, <2>6, <3>2 DEF Paired, Unread
  <2> QED BY <1>8, <2>3, <2>4, <2>5, <2>6 DEF DriveRecv, HandshakeRecv, Exits
<1>9. ASSUME NEW a \in Resumers, AutoResume(a) \/ ResumeCommand(a) PROVE Paired'
  <2>1. /\ cli' = "handshake" /\ mine' = a /\ cur' = cur /\ pc'[a] \in {"attach", "failed"}
        /\ pc'[a] = "attach" => cursor'[a] = cur
    BY <1>0, <1>9 DEF AutoResume, ResumeCommand, Resume, ResumeSubscribe, FlowInv, FlowType
  <2> QED BY <1>0, <1>9, <2>1 DEF Paired
\* The server: a handler that streams does so for good.
<1>10. ASSUME UNCHANGED <<cli, mine, cur, cursor, read>>,
              \A a \in Attempts : pc[a] = "streaming" => pc'[a] = "streaming",
              \A a \in Resumers : /\ pc[a] # "start" => pc'[a] # "start"
                                  /\ pc'[a] \in {"attach", "query"} =>
                                        pc[a] \in {"start", "attach", "query"},
              \A a \in Attempts : pc[a] = "streaming" =>
                  \A i \in DOMAIN reply'[a] :
                      \/ i \in DOMAIN reply[a] /\ reply'[a][i] = reply[a][i]
                      \/ reply'[a][i].src = "live",
              reply' \in [Attempts -> Seq(Replies')]
       PROVE  Paired'
  <2>1. cli \in {"drive", "interrupted"} =>
           /\ pc'[mine] = "streaming"
           /\ \A i \in (read[mine] + 1)..Len(reply'[mine]) : reply'[mine][i].src = "live"
    <3> SUFFICES ASSUME cli \in {"drive", "interrupted"},
                        NEW i \in (read[mine] + 1)..Len(reply'[mine])
                 PROVE  pc'[mine] = "streaming" /\ reply'[mine][i].src = "live"
      BY <1>10 DEF Paired, ReadsAttempt
    <3>1. mine \in Attempts /\ pc[mine] = "streaming"
      BY DEF Paired, ReadsAttempt
    <3>2. read[mine] \in Nat /\ reply'[mine] \in Seq(Replies') /\ reply[mine] \in Seq(Replies)
      BY <1>10, <3>1 DEF CursorType, FlowInv, FlowType
    <3>3. i \in DOMAIN reply'[mine] /\ DOMAIN reply[mine] = 1..Len(reply[mine])
      BY <3>2, LenProperties
    <3>4. i \in DOMAIN reply[mine] => i \in Unread(mine)
      BY <3>2, <3>3 DEF Unread
    <3> QED BY <1>10, <3>1, <3>3, <3>4 DEF Paired
  <2>2. cli = "handshake" => mine \in Resumers /\ pc'[mine] # "start"
    BY <1>10 DEF Paired
  <2>3. \A a \in Attempts : Presents(a)' => cursor'[a] = cur'
    BY <1>10 DEF Paired
  <2> QED BY <1>0, <1>10, <2>1, <2>2, <2>3 DEF Paired, Unread
<1>11. FlowType'
  BY ClientStep, FlowStep DEF Paired, FlowInv
<1>12. CASE CapabilityStep
  BY <1>2, <1>12 DEF CapabilityStep, RecvOutput, RecvClosed, RecvNone
<1>13. CASE \E a \in Attempts : DetachClient(a) \/ LoseConnection(a)
  BY <1>2, <1>13 DEF DetachClient, LoseConnection, Detach, Disconnect
<1>14. CASE \E a \in Resumers : AttachResumer(a)
  BY <1>0, <1>10, <1>11, <1>14 DEF AttachResumer, AttachWithToken, FlowInv, FlowType
<1>15. CASE ServerStep
  <2>1. CASE Attach
    BY <1>0, <1>10, <1>11, <1>15, <2>1 DEF ServerStep, Attach, FlowInv, FlowType
  <2>2. CASE LoopStep
    BY <1>2, <1>15, <2>2 DEF ServerStep, LoopStep, Broadcast, RemoveSession
  <2>3. ASSUME NEW a \in Resumers, HandlerStep(a) PROVE Paired'
    <3>1. /\ UNCHANGED <<cursor, read, cli, mine, cur>> /\ pc[a] \in {"query", "spawn", "replay"}
          /\ pc'[a] \in {"spawn", "replay", "streaming", "failed"}
          /\ \A b \in Attempts \ {a} : pc'[b] = pc[b] /\ reply'[b] = reply[b]
      BY <1>0, <1>15, <2>3 DEF HandlerStep, QueryBuffer, SpawnForwarders, SendReplay, ReplayReady,
         SendAck, AckReady, DropHandler, Dropped, Send, ServerStep, FlowInv, FlowType
    <3> QED BY <1>0, <1>10, <1>11, <3>1 DEF FlowType
  <2>4. ASSUME NEW a \in Attempts, ForwarderStep(a) PROVE Paired'
    <3>1. CASE ForwardSend(a) /\ pc[a] \in {"replay", "streaming"} /\ conn[a]
      <4> DEFINE r == Reply("live", hand[a])
                 n == Len(reply[a])
      <4>1. /\ r \in Replies /\ Send(a, r) /\ UNCHANGED <<pc, cursor, read, cli, mine, cur>>
            /\ r.src = "live"
        BY <1>15, <3>1 DEF ForwardSend, SendReady, Received, Reply, Replies, FlowInv, FlowType,
           ServerStep
      <4> HIDE DEF r
      <4>2. /\ \A b \in Attempts \ {a} : reply'[b] = reply[b]
            /\ n \in Nat /\ DOMAIN reply[a] = 1..n /\ DOMAIN reply'[a] = 1..(n + 1)
            /\ \A i \in 1..n : reply'[a][i] = reply[a][i]
            /\ reply'[a][n + 1] = r
        BY <4>1, Appended DEF FlowInv
      <4>3. \A i \in DOMAIN reply'[a] :
               (i \in DOMAIN reply[a] /\ reply'[a][i] = reply[a][i]) \/ reply'[a][i].src = "live"
        BY <4>1, <4>2
      <4> HIDE DEF n
      <4>4. \A b \in Attempts : \A i \in DOMAIN reply'[b] :
               (i \in DOMAIN reply[b] /\ reply'[b][i] = reply[b][i]) \/ reply'[b][i].src = "live"
        BY <4>2, <4>3
      <4> QED BY <1>10, <1>11, <4>1, <4>4 DEF FlowType
    <3>2. CASE ~(ForwardSend(a) /\ pc[a] \in {"replay", "streaming"} /\ conn[a])
      BY <1>2, <1>15, <2>4, <3>2 DEF ServerStep, ForwarderStep, ForwardRecv, EventReady,
         ForwardSend, SendReady, Received, ForwardClosed, EventsOver
    <3> QED BY <3>1, <3>2
  <2> QED BY <1>15, <2>1, <2>2, <2>3, <2>4 DEF ServerStep
<1> QED BY <1>3, <1>4, <1>5, <1>6, <1>7, <1>8, <1>9, <1>12, <1>13, <1>14, <1>15
        DEF Next2, ProcessStep

\* A larger set leads as well, and so does the same one when a later frame is
\* recorded.
LEMMA LedMore ==
    ASSUME NEW f, NEW S, NEW T, NEW R, Led(f, S, R), S \cap R \subseteq T
    PROVE  Led(f, T, R)
BY DEF Led

\* A frame recorded later leads nothing before it.
LEMMA LedLater ==
    ASSUME NEW f, NEW S, NEW R, NEW h, Led(f, S, R),
           f.kind = "output" /\ h.stream = f.stream => ~(h.seq < f.seq)
    PROVE  Led(f, S, R \cup {h})
BY DEF Led

\* What is at the end of the line stays led while the beginning moves on.
LEMMA LineGrows ==
    ASSUME NEW a \in Attempts, Line(a), UNCHANGED <<recorded, current>>, sub'[a] = sub[a],
           Covered(a) \cap Items(recorded) \subseteq Covered(a)',
           Taken(a) \cap Items(recorded) \subseteq Taken(a)',
           Replayed(a)' \subseteq Replayed(a), RepliesLed(a)', HandLed(a)'
    PROVE  Line(a)'
<1> DEFINE R == Items(recorded)
<1>0. R' = R
  OBVIOUS
<1>1. SubLed(a)'
  <2> SUFFICES ASSUME NEW k \in DOMAIN sub[a]
               PROVE  Led(sub[a][k], Taken(a)' \cup {sub[a][j] : j \in 1..(k - 1)}, R)
    BY DEF SubLed
  <2>1. Led(sub[a][k], Taken(a) \cup {sub[a][j] : j \in 1..(k - 1)}, R)
    BY DEF Line, SubLed
  <2> QED BY <2>1, LedMore
<1>2. CurrentLed(a)'
  <2>1. Led(current, Taken(a) \cup Items(sub[a]), R)
    BY DEF Line, CurrentLed
  <2>2. Led(current, Taken(a)' \cup Items(sub[a]), R)
    BY <2>1, LedMore
  <2> QED BY <2>2 DEF CurrentLed
<1>3. AllUnderWay(a)'
  BY DEF Line, AllUnderWay
<1>4. ReplayLed(a)'
  <2> SUFFICES ASSUME NEW f \in Replayed(a) PROVE Led(f, Covered(a)', R)
    BY DEF ReplayLed
  <2>1. Led(f, Covered(a), R)
    BY DEF Line, ReplayLed
  <2> QED BY <2>1, LedMore
<1> QED BY <1>1, <1>2, <1>3, <1>4 DEF Line

\* Nothing moves: the process may only have got more.
LEMMA LineKept ==
    ASSUME NEW a \in Attempts, Line(a), UNCHANGED <<recorded, current>>,
           reply'[a] = reply[a], read'[a] = read[a], hand'[a] = hand[a], sub'[a] = sub[a],
           missed'[a] = missed[a], replay'[a] = replay[a], Seen \subseteq Seen'
    PROVE  Line(a)'
<1> DEFINE R == Items(recorded)
<1>1. /\ Unread(a)' = Unread(a) /\ UnreadMsgs(a)' = UnreadMsgs(a) /\ Replayed(a)' = Replayed(a)
      /\ \A i : Ahead(a, i)' = Ahead(a, i)
  BY DEF Unread, UnreadMsgs, Replayed, Ahead
<1>2. Covered(a) \subseteq Covered(a)' /\ Taken(a) \subseteq Taken(a)'
  BY <1>1 DEF Covered, Taken
<1>3. RepliesLed(a)'
  <2> SUFFICES ASSUME NEW i \in Unread(a), reply[a][i].src = "live"
               PROVE  Led(reply[a][i].msg, Covered(a)' \cup Ahead(a, i), R)
    BY <1>1 DEF RepliesLed
  <2>1. Led(reply[a][i].msg, Covered(a) \cup Ahead(a, i), R)
    BY DEF Line, RepliesLed
  <2> QED BY <1>2, <2>1, LedMore
<1>4. HandLed(a)'
  <2>1. Led(hand[a], Covered(a) \cup UnreadMsgs(a), R)
    BY DEF Line, HandLed
  <2>2. Led(hand[a], Covered(a)' \cup UnreadMsgs(a), R)
    BY <1>2, <2>1, LedMore
  <2> QED BY <1>1, <2>2 DEF HandLed
<1> QED BY <1>1, <1>2, <1>3, <1>4, LineGrows

\* Something is sent: it comes after what has not been read.
LEMMA SentUnread ==
    ASSUME FlowType, CursorType, NEW a \in Attempts, NEW r \in Replies, Send(a, r),
           read'[a] = read[a]
    PROVE  /\ UnreadMsgs(a)' = UnreadMsgs(a) \cup {r.msg}
           /\ \A x : x \in Replayed(a)' <=> \/ x \in Items(replay'[a])
                                            \/ x = r.msg /\ r.src = "replay"
                                            \/ \E i \in Unread(a) : /\ reply[a][i].src = "replay"
                                                                    /\ x = reply[a][i].msg
           /\ \A i \in Unread(a)' :
                 \/ /\ i \in Unread(a) /\ reply'[a][i] = reply[a][i]
                    /\ Ahead(a, i)' = Ahead(a, i)
                 \/ reply'[a][i] = r /\ Ahead(a, i)' = UnreadMsgs(a)
<1>0. PICK n \in Nat : n = Len(reply[a])
  BY Appended
<1>1. /\ n \in Nat /\ Len(reply'[a]) = n + 1
      /\ \A i \in 1..n : reply'[a][i] = reply[a][i]
      /\ reply'[a][n + 1] = r
      /\ read[a] \in Nat /\ read[a] <= n
  BY <1>0, Appended DEF CursorType
<1>2. /\ Unread(a) = (read[a] + 1)..n /\ Unread(a)' = (read[a] + 1)..(n + 1)
  BY <1>0, <1>1 DEF Unread
<1>3. Unread(a)' = Unread(a) \cup {n + 1}
  BY <1>1, <1>2
<1>4. \A i \in Unread(a) : i \in 1..n /\ reply'[a][i] = reply[a][i]
  BY <1>1, <1>2
<1>5. UnreadMsgs(a)' = UnreadMsgs(a) \cup {r.msg}
  BY <1>1, <1>3, <1>4 DEF UnreadMsgs
<1>6. \A x : x \in Replayed(a)' <=> \/ x \in Items(replay'[a])
                                    \/ x = r.msg /\ r.src = "replay"
                                    \/ \E i \in Unread(a) : /\ reply[a][i].src = "replay"
                                                            /\ x = reply[a][i].msg
  BY <1>1, <1>3, <1>4 DEF Replayed
<1>7. ASSUME NEW i \in Unread(a) PROVE Ahead(a, i)' = Ahead(a, i)
  <2>1. \A j \in (read[a] + 1)..(i - 1) : j \in Unread(a)
    BY <1>1, <1>2
  <2> QED BY <1>4, <2>1 DEF Ahead
<1>8. Ahead(a, n + 1)' = UnreadMsgs(a)
  <2>1. (read[a] + 1)..((n + 1) - 1) = Unread(a)
    BY <1>1, <1>2
  <2> QED BY <1>4, <2>1 DEF Ahead, UnreadMsgs
<1> QED BY <1>1, <1>3, <1>4, <1>5, <1>6, <1>7, <1>8

\* What is under way is known.
LEMMA LineKnown ==
    ASSUME FlowInv, CursorType, NEW a \in Attempts
    PROVE  /\ hand[a] \in Known /\ current \in Known
           /\ \A i \in Unread(a) : i \in DOMAIN reply[a] /\ reply[a][i].msg \in Known
           /\ \A k \in DOMAIN sub[a] : sub[a][k] \in Known
           /\ Replayed(a) \subseteq Known
<1>1. /\ reply[a] \in Seq(Replies) /\ sub[a] \in Seq(Known) /\ replay[a] \in Seq(Items(recorded))
      /\ hand[a] \in Known /\ current \in Known /\ read[a] \in Nat
  BY DEF FlowInv, FlowType, CursorType
<1>2. ASSUME NEW i \in Unread(a) PROVE i \in DOMAIN reply[a] /\ reply[a][i].msg \in Known
  <2>1. i \in DOMAIN reply[a]
    BY <1>1, LenProperties DEF Unread
  <2>2. reply[a][i] \in Replies
    BY <1>1, <2>1, LenProperties, ElementOfSeq
  <2> QED BY <2>1, <2>2 DEF Replies
<1>3. \A k \in DOMAIN sub[a] : sub[a][k] \in Known
  BY <1>1, LenProperties, ElementOfSeq
<1>4. Items(replay[a]) \subseteq Known
  BY <1>1, ItemsSeq DEF Known
<1>5. Replayed(a) \subseteq Known
  BY <1>2, <1>4 DEF Replayed
<1> QED BY <1>1, <1>2, <1>3, <1>5

\* A frame is recorded: all the others of its stream are under way.
LEMMA LineRecorded ==
    ASSUME FlowInv, CursorType, RecvOutput, UNCHANGED clientVars, NEW a \in Attempts, Line(a)
    PROVE  Line(a)'
<1>1. PICK f \in Frames :
         /\ f.kind = "output" /\ Items(recorded') = Items(recorded) \cup {f}
         /\ \A g \in Items(recorded) : g.stream = f.stream => g.seq < f.seq
         /\ f \notin Items(recorded) /\ current' = f /\ current = Nothing
  BY RecordedLater
<1> DEFINE R == Items(recorded)
<1>2. UNCHANGED <<sub, hand, reply, read, replay, missed, shown, skipped, pending>>
  BY DEF RecvOutput, downlink, answer, request, clientVars, process, resumeState
<1>3. /\ Unread(a)' = Unread(a) /\ UnreadMsgs(a)' = UnreadMsgs(a) /\ Replayed(a)' = Replayed(a)
      /\ \A i : Ahead(a, i)' = Ahead(a, i)
      /\ Covered(a)' = Covered(a) /\ Taken(a)' = Taken(a)
  BY <1>2 DEF Unread, UnreadMsgs, Replayed, Ahead, Covered, Taken, Seen
<1>4. ASSUME NEW x \in Known, NEW S, Led(x, S, R) PROVE Led(x, S, R \cup {f})
  <2>1. x.kind = "output" => x \in R
    BY MessageKinds DEF Known, FlowInv, FlowType
  <2>2. x.kind = "output" /\ f.stream = x.stream => ~(f.seq < x.seq)
    <3> SUFFICES ASSUME x \in R, f.stream = x.stream PROVE ~(f.seq < x.seq)
      BY <2>1
    <3>1. x \in Frames
      BY MessageKinds DEF FlowInv, FlowType
    <3> QED BY <1>1, <3>1 DEF Frames
  <2> QED BY <1>4, <2>2, LedLater
<1>5. RepliesLed(a)' /\ HandLed(a)' /\ SubLed(a)' /\ ReplayLed(a)'
  <2>1. RepliesLed(a)'
    <3> SUFFICES ASSUME NEW i \in Unread(a), reply[a][i].src = "live"
                 PROVE  Led(reply[a][i].msg, Covered(a) \cup Ahead(a, i), R \cup {f})
      BY <1>1, <1>2, <1>3 DEF RepliesLed
    <3>1. Led(reply[a][i].msg, Covered(a) \cup Ahead(a, i), R)
      BY DEF Line, RepliesLed
    <3> QED BY <1>4, <3>1, LineKnown
  <2>2. HandLed(a)'
    <3>1. Led(hand[a], Covered(a) \cup UnreadMsgs(a), R)
      BY DEF Line, HandLed
    <3>2. Led(hand[a], Covered(a) \cup UnreadMsgs(a), R \cup {f})
      BY <1>4, <3>1, LineKnown
    <3> QED BY <1>1, <1>2, <1>3, <3>2 DEF HandLed
  <2>3. SubLed(a)'
    <3> SUFFICES ASSUME NEW k \in DOMAIN sub[a]
                 PROVE  Led(sub[a][k], Taken(a) \cup {sub[a][j] : j \in 1..(k - 1)}, R \cup {f})
      BY <1>1, <1>2, <1>3 DEF SubLed
    <3>1. Led(sub[a][k], Taken(a) \cup {sub[a][j] : j \in 1..(k - 1)}, R)
      BY DEF Line, SubLed
    <3> QED BY <1>4, <3>1, LineKnown
  <2>4. ReplayLed(a)'
    <3> SUFFICES ASSUME NEW x \in Replayed(a) PROVE Led(x, Covered(a), R \cup {f})
      BY <1>1, <1>3 DEF ReplayLed
    <3>1. Led(x, Covered(a), R)
      BY DEF Line, ReplayLed
    <3> QED BY <1>4, <3>1, LineKnown
  <2> QED BY <2>1, <2>2, <2>3, <2>4
<1>6. R \subseteq Taken(a) \cup Items(sub[a])
  <2>1. Nothing \notin R
    BY MessageKinds DEF FlowInv, FlowType
  <2> QED BY <1>1, <2>1 DEF Line, AllUnderWay
<1>7. CurrentLed(a)'
  <2>1. f \in Frames /\ ~(f.seq < f.seq)
    BY DEF Frames
  <2>2. Led(f, Taken(a) \cup Items(sub[a]), R \cup {f})
    BY <1>6, <2>1 DEF Led
  <2> QED BY <1>1, <1>2, <1>3, <2>2 DEF CurrentLed
<1>8. AllUnderWay(a)'
  BY <1>1, <1>2, <1>3, <1>6 DEF AllUnderWay
<1> QED BY <1>5, <1>7, <1>8 DEF Line

\* A frame is broadcast: it joins the end of the receiver.
LEMMA LineBroadcast ==
    ASSUME FlowInv, CursorType, Broadcast, UNCHANGED clientVars, lagged' = {},
           NEW a \in Attempts, Past(a), Line(a)
    PROVE  Line(a)'
<1> DEFINE R == Items(recorded)
           n == Len(sub[a])
<1>1. /\ UNCHANGED <<recorded, hand, reply, read, replay, missed, shown, skipped, pending>>
      /\ current' = Nothing /\ current # Nothing
  BY DEF Broadcast, state, answer, request, clientVars, process, resumeState
<1>2. /\ Unread(a)' = Unread(a) /\ UnreadMsgs(a)' = UnreadMsgs(a) /\ Replayed(a)' = Replayed(a)
      /\ \A i : Ahead(a, i)' = Ahead(a, i)
      /\ Covered(a)' = Covered(a) /\ Taken(a)' = Taken(a)
  BY <1>1 DEF Unread, UnreadMsgs, Replayed, Ahead, Covered, Taken, Seen
<1>3. sub'[a] = Append(sub[a], current)
  <2>1. loop = "idle"
    BY <1>1 DEF FlowInv, Running
  <2>2. a \in Subscribers
    BY <2>1 DEF FlowInv, Running, Past, Subscribers
  <2>3. Len(sub[a]) # EventCapacity
    BY <2>2 DEF Broadcast
  <2> QED BY <2>2, <2>3 DEF Broadcast
<1>4. sub[a] \in Seq(Known) /\ current \in Known
  BY DEF FlowInv, FlowType
<1>5. /\ n \in Nat /\ DOMAIN sub[a] = 1..n /\ DOMAIN sub'[a] = 1..(n + 1)
      /\ \A k \in 1..n : sub'[a][k] = sub[a][k]
      /\ sub'[a][n + 1] = current
  BY <1>3, <1>4, AppendProperties, LenProperties
<1>6. Items(sub'[a]) = Items(sub[a]) \cup {current}
  BY <1>3, <1>4, ItemsAppend
<1>7. SubLed(a)'
  <2> SUFFICES ASSUME NEW k \in 1..(n + 1)
               PROVE  Led(sub'[a][k], Taken(a) \cup {sub'[a][j] : j \in 1..(k - 1)}, R)
    BY <1>1, <1>2, <1>5 DEF SubLed
  <2>0. \A j \in 1..(k - 1) : j \in 1..n /\ sub'[a][j] = sub[a][j]
    BY <1>5
  <2>1. {sub'[a][j] : j \in 1..(k - 1)} = {sub[a][j] : j \in 1..(k - 1)}
    BY <2>0
  <2>2. CASE k \in 1..n
    <3>1. Led(sub[a][k], Taken(a) \cup {sub[a][j] : j \in 1..(k - 1)}, R)
      BY <1>5, <2>2 DEF Line, SubLed
    <3> QED BY <1>5, <2>1, <2>2, <3>1
  <2>3. CASE k = n + 1
    <3>1. Led(current, Taken(a) \cup Items(sub[a]), R)
      BY DEF Line, CurrentLed
    <3>2. 1..(k - 1) = DOMAIN sub[a]
      BY <1>5, <2>3
    <3>3. {sub[a][j] : j \in 1..(k - 1)} = Items(sub[a])
      BY <3>2 DEF Items
    <3> QED BY <1>5, <2>1, <2>3, <3>1, <3>3
  <2> QED BY <1>5, <2>2, <2>3
<1>8. RepliesLed(a)' /\ HandLed(a)' /\ ReplayLed(a)'
  BY <1>1, <1>2 DEF Line, RepliesLed, HandLed, ReplayLed
<1>9. CurrentLed(a)'
  BY <1>1 DEF CurrentLed, Led, Nothing
<1>10. AllUnderWay(a)'
  BY <1>1, <1>2, <1>6 DEF Line, AllUnderWay
<1> QED BY <1>7, <1>8, <1>9, <1>10 DEF Line

\* The handler reads the buffer: every frame is with the process, replayed or
\* out of the buffer, because the process presented its cursors.
LEMMA QueryCovers ==
    ASSUME FlowInv, UNCHANGED clientVars, NEW a \in Attempts, QueryBuffer(a), pc'[a] = "spawn",
           cursor[a] = cur, Below(Seen \cup Lost), CursorType
    PROVE  Items(recorded) \subseteq Covered(a)'
<1>1. listed = "live"
  BY DEF QueryBuffer, Goto, FlowInv, FlowType
<1>2. /\ replay'[a] = OutputsSince(buffer, cur) /\ missed'[a] = Lost
      /\ UNCHANGED <<shown, pending, skipped>>
  BY <1>1 DEF QueryBuffer, Lost, FlowInv, FlowType, clientVars, process, resumeState
<1>3. Items(replay'[a]) = {f \in Items(buffer) : f.seq > cur[f.stream]}
  <2>1. buffer \in Seq(Items(recorded))
    BY DEF FlowInv, FlowType
  <2>2. ASSUME NEW c
        PROVE  Items(OutputsSince(buffer, c)) = {f \in Items(buffer) : f.seq > c[f.stream]}
    BY <2>1, OutputsSinceSelects, ZenonT(40)
  <2> QED BY <1>2, <2>2
<1>4. ASSUME NEW g \in Items(recorded) PROVE g \in Seen \cup Lost \cup Items(replay'[a])
  <2>1. CASE g.seq <= cur[g.stream]
    BY <2>1 DEF Below
  <2>2. CASE ~(g.seq <= cur[g.stream])
    <3>1. g \in Frames
      BY MessageKinds DEF FlowInv, FlowType
    <3>2. g.seq > cur[g.stream]
      BY <2>2, <3>1 DEF CursorType, Frames
    <3> QED BY <1>3, <3>2 DEF Lost
  <2> QED BY <2>1, <2>2
<1> QED BY <1>2, <1>4 DEF Covered, Replayed, Seen

\* A reply is sent: replayed frames are led anyway, the ack leads nothing.
LEMMA LineSent ==
    ASSUME FlowInv, CursorType, UNCHANGED clientVars, NEW a \in Attempts, Line(a),
           SendReplay(a) \/ SendAck(a)
    PROVE  Line(a)' /\ Covered(a)' = Covered(a)
<1> DEFINE R == Items(recorded)
<1>1. PICK r \in Replies :
         /\ Send(a, r) /\ r.src # "live"
         /\ \/ /\ replay[a] # <<>> /\ r.src = "replay" /\ r.msg = Head(replay[a])
               /\ replay'[a] = Tail(replay[a])
            \/ replay'[a] = replay[a] /\ r.src # "replay" /\ r.msg = Nothing
  <2>1. CASE SendReplay(a)
    <3>1. Head(replay[a]) \in Items(recorded)
      BY <2>1, ItemsTail DEF SendReplay, ReplayReady, FlowInv, FlowType
    <3>2. /\ Reply("replay", Head(replay[a])) \in Replies
          /\ Reply("replay", Head(replay[a])).src = "replay"
          /\ Reply("replay", Head(replay[a])).msg = Head(replay[a])
      BY <3>1 DEF Reply, Replies, Known
    <3> QED BY <2>1, <3>2 DEF SendReplay, ReplayReady, FlowInv, FlowType
  <2>2. CASE SendAck(a)
    <3>1. /\ Reply("ack", Nothing) \in Replies /\ Reply("ack", Nothing).src = "ack"
          /\ Reply("ack", Nothing).msg = Nothing
      BY DEF Reply, Replies, Known
    <3> QED BY <2>2, <3>1 DEF SendAck, AckReady
  <2> QED BY <2>1, <2>2
<1>2. UNCHANGED <<recorded, current, sub, hand, read, missed, shown, skipped, pending>>
  BY DEF SendReplay, ReplayReady, SendAck, AckReady, state, events, downlink, clientVars, process,
     resumeState
<1>3. /\ UnreadMsgs(a)' = UnreadMsgs(a) \cup {r.msg}
      /\ \A x : x \in Replayed(a)' <=> \/ x \in Items(replay'[a])
                                       \/ x = r.msg /\ r.src = "replay"
                                       \/ \E i \in Unread(a) : /\ reply[a][i].src = "replay"
                                                               /\ x = reply[a][i].msg
      /\ \A i \in Unread(a)' :
            \/ i \in Unread(a) /\ reply'[a][i] = reply[a][i] /\ Ahead(a, i)' = Ahead(a, i)
            \/ reply'[a][i] = r
  BY <1>1, <1>2, SentUnread DEF FlowInv
<1>4. replay[a] # <<>> => Items(replay[a]) = {Head(replay[a])} \cup Items(Tail(replay[a]))
  BY ItemsTail DEF FlowInv, FlowType
<1>5. Replayed(a)' = Replayed(a)
  <2>1. \A x : x \in Replayed(a) <=> \/ x \in Items(replay[a])
                                     \/ \E i \in Unread(a) : /\ reply[a][i].src = "replay"
                                                             /\ x = reply[a][i].msg
    BY DEF Replayed
  <2> QED BY <1>1, <1>3, <1>4, <2>1
<1>6. Covered(a)' = Covered(a) /\ Taken(a) \subseteq Taken(a)'
  BY <1>2, <1>3, <1>5 DEF Covered, Taken, Seen
<1>7. RepliesLed(a)'
  BY <1>1, <1>2, <1>3, <1>6 DEF Line, RepliesLed
<1>8. HandLed(a)'
  <2>1. Led(hand[a], Covered(a) \cup UnreadMsgs(a), R)
    BY DEF Line, HandLed
  <2>2. Led(hand[a], Covered(a) \cup (UnreadMsgs(a) \cup {r.msg}), R)
    BY <2>1, LedMore
  <2> QED BY <1>2, <1>3, <1>6, <2>2 DEF HandLed
<1> QED BY <1>2, <1>5, <1>6, <1>7, <1>8, LineGrows

\* The forwarder sends what is in its hand.
LEMMA LineForwarded ==
    ASSUME FlowInv, CursorType, UNCHANGED clientVars, NEW a \in Attempts, Line(a),
           ForwardSend(a), pc[a] \in {"replay", "streaming"}, conn[a]
    PROVE  Line(a)' /\ Covered(a)' = Covered(a)
<1> DEFINE R == Items(recorded)
           r == Reply("live", hand[a])
<1>1. r \in Replies /\ Send(a, r) /\ r.src = "live" /\ r.msg = hand[a]
  BY DEF ForwardSend, SendReady, Received, Reply, Replies, FlowInv, FlowType
<1>2. /\ UNCHANGED <<recorded, current, sub, read, missed, replay, shown, skipped, pending>>
      /\ hand'[a] = Nothing
  BY DEF ForwardSend, SendReady, Received, state, events, request, clientVars, process, resumeState,
     FlowInv, FlowType
<1> HIDE DEF r
<1>3. /\ UnreadMsgs(a)' = UnreadMsgs(a) \cup {hand[a]}
      /\ \A x : x \in Replayed(a)' <=> \/ x \in Items(replay'[a])
                                       \/ x = r.msg /\ r.src = "replay"
                                       \/ \E i \in Unread(a) : /\ reply[a][i].src = "replay"
                                                               /\ x = reply[a][i].msg
      /\ \A i \in Unread(a)' :
            \/ i \in Unread(a) /\ reply'[a][i] = reply[a][i] /\ Ahead(a, i)' = Ahead(a, i)
            \/ reply'[a][i] = r /\ Ahead(a, i)' = UnreadMsgs(a)
  BY <1>1, <1>2, SentUnread DEF FlowInv
<1>4. Replayed(a)' = Replayed(a)
  <2>1. \A x : x \in Replayed(a) <=> \/ x \in Items(replay[a])
                                     \/ \E i \in Unread(a) : /\ reply[a][i].src = "replay"
                                                             /\ x = reply[a][i].msg
    BY DEF Replayed
  <2>2. \A x : x \in Replayed(a)' <=> x \in Replayed(a)
    BY <1>1, <1>2, <1>3, <2>1
  <2> QED BY <2>2
<1>5. Covered(a)' = Covered(a)
  BY <1>2, <1>4 DEF Covered, Seen
<1>6. Taken(a) \subseteq Taken(a)'
  BY <1>3, <1>5 DEF Taken
<1>7. RepliesLed(a)'
  <2> SUFFICES ASSUME NEW i \in Unread(a)', reply'[a][i].src = "live"
               PROVE  Led(reply'[a][i].msg, Covered(a) \cup Ahead(a, i)', R)
    BY <1>2, <1>5 DEF RepliesLed
  <2>1. Led(hand[a], Covered(a) \cup UnreadMsgs(a), R)
    BY DEF Line, HandLed
  <2> QED BY <1>1, <1>3, <2>1 DEF Line, RepliesLed
<1>8. HandLed(a)'
  BY <1>2 DEF HandLed, Led, Nothing
<1> QED BY <1>2, <1>4, <1>5, <1>6, <1>7, <1>8, LineGrows

\* The forwarder takes the head of its receiver.
LEMMA LineReceived ==
    ASSUME FlowInv, UNCHANGED clientVars, NEW a \in Attempts, Line(a), ForwardRecv(a)
    PROVE  Line(a)'
<1> DEFINE R == Items(recorded)
           n == Len(sub[a])
<1>1. /\ UNCHANGED <<recorded, current, reply, read, missed, replay, shown, skipped, pending>>
      /\ hand[a] = Nothing /\ sub[a] # <<>>
      /\ hand'[a] = Head(sub[a]) /\ sub'[a] = Tail(sub[a])
  BY DEF ForwardRecv, EventReady, state, events, answer, request, clientVars, process, resumeState,
     FlowInv, FlowType
<1>2. sub[a] \in Seq(Known) /\ Nothing \notin R
  BY MessageKinds DEF FlowInv, FlowType
<1>3. /\ n \in Nat /\ n > 0 /\ DOMAIN sub[a] = 1..n /\ DOMAIN sub'[a] = 1..(n - 1)
      /\ hand'[a] = sub[a][1] /\ \A k \in 1..(n - 1) : sub'[a][k] = sub[a][k + 1]
  BY <1>1, <1>2, HeadTailProperties, LenProperties, EmptySeq
<1>4. Items(sub[a]) = {hand'[a]} \cup Items(sub'[a])
  BY <1>1, <1>2, ItemsTail
<1>5. /\ Unread(a)' = Unread(a) /\ UnreadMsgs(a)' = UnreadMsgs(a) /\ Replayed(a)' = Replayed(a)
      /\ \A i : Ahead(a, i)' = Ahead(a, i)
      /\ Covered(a)' = Covered(a)
  BY <1>1 DEF Unread, UnreadMsgs, Replayed, Ahead, Covered, Seen
<1> DEFINE T == Covered(a) \cup UnreadMsgs(a)
<1>6. Taken(a) = T \cup {Nothing} /\ Taken(a)' = T \cup {hand'[a]}
  BY <1>1, <1>5 DEF Taken
<1> HIDE DEF T, n
<1>7. RepliesLed(a)' /\ ReplayLed(a)'
  BY <1>1, <1>5 DEF Line, RepliesLed, ReplayLed
<1>8. HandLed(a)'
  <2>0. 1 \in DOMAIN sub[a]
    BY <1>3
  <2>1. Led(sub[a][1], Taken(a) \cup {sub[a][j] : j \in 1..(1 - 1)}, R)
    BY <2>0, Zenon DEF Line, SubLed
  <2>2. {sub[a][j] : j \in 1..(1 - 1)} = {}
    OBVIOUS
  <2>3. Led(sub[a][1], T, R)
    BY <1>2, <1>6, <2>1, <2>2, LedMore
  <2> QED BY <1>1, <1>3, <1>5, <2>3 DEF HandLed, T
<1>9. SubLed(a)'
  <2> SUFFICES ASSUME NEW k \in 1..(n - 1)
               PROVE  Led(sub'[a][k], Taken(a)' \cup {sub'[a][j] : j \in 1..(k - 1)}, R)
    BY <1>1, <1>3 DEF SubLed
  <2>0. k + 1 \in DOMAIN sub[a]
    BY <1>3
  <2>1. Led(sub[a][k + 1], Taken(a) \cup {sub[a][j] : j \in 1..((k + 1) - 1)}, R)
    BY <2>0, Zenon DEF Line, SubLed
  <2>2. ASSUME NEW j \in 1..((k + 1) - 1)
        PROVE  sub[a][j] \in {hand'[a]} \cup {sub'[a][i] : i \in 1..(k - 1)}
    <3>1. CASE j = 1
      BY <1>3, <3>1
    <3>2. CASE j # 1
      <4>1. j - 1 \in 1..(k - 1) /\ j - 1 \in 1..(n - 1) /\ (j - 1) + 1 = j
        BY <1>3, <3>2
      <4>2. sub'[a][j - 1] = sub[a][j]
        BY <1>3, <4>1
      <4> QED BY <4>1, <4>2
    <3> QED BY <3>1, <3>2
  <2>3. Led(sub[a][k + 1], Taken(a)' \cup {sub'[a][j] : j \in 1..(k - 1)}, R)
    <3>1. (Taken(a) \cup {sub[a][j] : j \in 1..((k + 1) - 1)}) \cap R
             \subseteq Taken(a)' \cup {sub'[a][j] : j \in 1..(k - 1)}
      BY <1>2, <1>6, <2>2
    <3> QED BY <2>1, <3>1, LedMore
  <2> QED BY <1>3, <2>3
<1>10. CurrentLed(a)'
  <2>1. Led(current, Taken(a) \cup Items(sub[a]), R)
    BY DEF Line, CurrentLed
  <2>2. (Taken(a) \cup Items(sub[a])) \cap R \subseteq Taken(a)' \cup Items(sub'[a])
    BY <1>2, <1>4, <1>6
  <2>3. Led(current, Taken(a)' \cup Items(sub'[a]), R)
    BY <2>1, <2>2, LedMore
  <2> QED BY <1>1, <2>3 DEF CurrentLed
<1>11. AllUnderWay(a)'
  BY <1>1, <1>2, <1>4, <1>6 DEF Line, AllUnderWay
<1> QED BY <1>7, <1>8, <1>9, <1>10, <1>11 DEF Line

\* The process takes a message: all that was before it is covered, and so the
\* cursors may follow it.
LEMMA LineDelivered ==
    ASSUME FlowInv, CursorType, SendOrder, Paired, NEW a \in Attempts, mine = a, cli' # "off",
           DriveRecv \/ HandshakeRecv, Line(a), Below(Covered(a))
    PROVE  Line(a)' /\ Below(Covered(a))'
<1> DEFINE R == Items(recorded)
<1>1. Deliver(a)
  BY DEF DriveRecv, HandshakeRecv
<1>2. PICK x : x = Incoming.msg
  OBVIOUS
<1>3. PICK p \in Nat : p = read[a] + 1
  BY DEF CursorType
<1>4. /\ UNCHANGED <<recorded, current, sub, hand, missed, replay>>
  BY <1>1 DEF Deliver, Deliverable, state, events, downlink, request
<1>5. /\ Incoming = reply[a][p] /\ Incoming \in Replies /\ p \in DOMAIN reply[a] /\ p \in Unread(a)
      /\ x.kind = "output" => x \in R
      /\ read'[a] = p /\ reply' = reply
      /\ \A i : i \in Unread(a) <=> i = p \/ i \in Unread(a)'
  <2>1. /\ Incoming \in Replies /\ p \in DOMAIN reply[a]
        /\ x.kind = "output" => x \in R
        /\ read'[a] = p /\ reply' = reply
        /\ \A i : i \in Unread(a) <=> i = p \/ i \in (p + 1)..Len(reply[a])
    BY <1>1, <1>2, <1>3, Delivered
  <2>2. Unread(a)' = (p + 1)..Len(reply[a])
    BY <2>1 DEF Unread
  <2> QED BY <1>3, <2>1, <2>2 DEF Incoming
<1>6. \/ /\ x.kind = "output" /\ Seen' = Seen \cup {x}
         /\ cur' = [cur EXCEPT ![x.stream] = x.seq]
      \/ x \notin R /\ Seen' = Seen /\ cur' = cur
  <2>1. CASE Incoming.msg.kind = "output" /\ Saw(Incoming.msg)
    <3>1. CASE DriveRecv
      BY <1>2, <2>1, <3>1 DEF DriveRecv, Saw, Seen, Exits
    <3>2. CASE HandshakeRecv
      <4>1. Incoming.src # "ack"
        BY <1>5, <2>1, <1>1 DEF SendOrder, Nothing
      <4>2. pending' = Append(pending, x) /\ UNCHANGED <<shown, skipped>>
        BY <1>2, <3>2, <4>1 DEF HandshakeRecv, Exits
      <4>3. Items(pending') = Items(pending) \cup {x}
        BY <1>2, <1>5, <2>1, <4>2, ItemsAppend DEF CursorType
      <4> QED BY <1>2, <2>1, <4>2, <4>3 DEF Saw, Seen
    <3> QED BY <3>1, <3>2
  <2>2. CASE Incoming.src = "ack" /\ HandshakeRecv
    <3>1. x = Nothing
      BY <1>1, <1>2, <1>5, <2>2 DEF SendOrder
    <3>2. x \notin R /\ x.kind # "output"
      BY <3>1, MessageKinds DEF FlowInv, FlowType
    <3> QED BY <1>2, <2>2, <3>2 DEF HandshakeRecv, Seen, Exits
  <2> QED BY <2>1, <2>2 DEF DriveRecv, HandshakeRecv, Exits
<1>7. /\ Seen \cup ({x} \cap R) \subseteq Seen'
  BY <1>6
<1>8. UnreadMsgs(a) \subseteq UnreadMsgs(a)' \cup {x}
  BY <1>2, <1>5 DEF UnreadMsgs
<1>9. /\ Replayed(a) \subseteq Replayed(a)' \cup {x} /\ Replayed(a)' \subseteq Replayed(a)
  BY <1>2, <1>4, <1>5 DEF Replayed
<1>10. Covered(a) \cap R \subseteq Covered(a)' /\ {x} \cap R \subseteq Covered(a)'
  BY <1>4, <1>7, <1>9 DEF Covered
<1>11. Taken(a) \cap R \subseteq Taken(a)'
  BY <1>4, <1>8, <1>10 DEF Taken
<1>12. RepliesLed(a)'
  <2> SUFFICES ASSUME NEW i \in Unread(a)', reply[a][i].src = "live"
               PROVE  Led(reply[a][i].msg, Covered(a)' \cup Ahead(a, i)', R)
    BY <1>4, <1>5 DEF RepliesLed
  <2>1. Led(reply[a][i].msg, Covered(a) \cup Ahead(a, i), R)
    BY <1>5 DEF Line, RepliesLed
  <2>2. ASSUME NEW j \in (read[a] + 1)..(i - 1)
        PROVE  reply[a][j].msg \in Ahead(a, i)' \cup {x}
    <3>1. CASE j = p
      BY <1>2, <1>5, <3>1
    <3>2. CASE j # p
      <4>1. j \in (read'[a] + 1)..(i - 1)
        BY <1>3, <1>5, <3>2
      <4> QED BY <1>5, <4>1 DEF Ahead
    <3> QED BY <3>1, <3>2
  <2>3. (Covered(a) \cup Ahead(a, i)) \cap R \subseteq Covered(a)' \cup Ahead(a, i)'
    BY <1>10, <2>2 DEF Ahead
  <2> QED BY <2>1, <2>3, LedMore
<1>13. HandLed(a)'
  <2>1. Led(hand[a], Covered(a) \cup UnreadMsgs(a), R)
    BY DEF Line, HandLed
  <2>2. (Covered(a) \cup UnreadMsgs(a)) \cap R \subseteq Covered(a)' \cup UnreadMsgs(a)'
    BY <1>8, <1>10
  <2>3. Led(hand[a], Covered(a)' \cup UnreadMsgs(a)', R)
    BY <2>1, <2>2, LedMore
  <2> QED BY <1>4, <2>3 DEF HandLed
<1>14. Line(a)'
  BY <1>4, <1>9, <1>10, <1>11, <1>12, <1>13, LineGrows
<1>15. x.kind = "output" => Led(x, Covered(a), R)
  <2> SUFFICES ASSUME x.kind = "output" PROVE Led(x, Covered(a), R)
    OBVIOUS
  <2>1. CASE reply[a][p].src = "live"
    <3>1. Led(x, Covered(a) \cup Ahead(a, p), R)
      BY <1>2, <1>5, <2>1 DEF Line, RepliesLed
    <3>2. Ahead(a, p) = {}
      BY <1>3 DEF Ahead, CursorType
    <3> QED BY <3>1, <3>2
  <2>2. CASE reply[a][p].src = "replay"
    <3>1. x \in Replayed(a)
      BY <1>2, <1>5, <2>2 DEF Replayed
    <3> QED BY <3>1 DEF Line, ReplayLed
  <2>3. CASE reply[a][p].src = "ack"
    <3>1. x = Nothing
      BY <1>2, <1>5, <2>3 DEF SendOrder
    <3> QED BY <3>1 DEF Nothing
  <2> QED BY <1>5, <2>1, <2>2, <2>3 DEF Replies
<1>16. Below(Covered(a))'
  <2> SUFFICES ASSUME NEW g \in R, g.seq <= cur'[g.stream] PROVE g \in Covered(a)'
    BY <1>4 DEF Below
  <2>1. CASE cur' = cur
    BY <1>10, <2>1 DEF Below
  <2>2. CASE x.kind = "output" /\ cur' = [cur EXCEPT ![x.stream] = x.seq]
    <3>1. g \in Frames /\ x \in Frames /\ x \in R
      BY <1>5, <2>2, MessageKinds DEF FlowInv, FlowType
    <3>2. g.stream \in Streams /\ x.stream \in Streams /\ g.seq \in Nat /\ x.seq \in Nat
      BY <3>1 DEF Frames
    <3>3. CASE g.stream # x.stream
      BY <1>10, <2>2, <3>2, <3>3 DEF Below, CursorType
    <3>4. CASE g.stream = x.stream
      <4>1. g.seq <= x.seq
        BY <2>2, <3>2, <3>4 DEF CursorType
      <4>2. CASE g.seq = x.seq
        <5>1. g = x
          BY <3>1, <3>4, <4>2 DEF Frames
        <5> QED BY <1>10, <5>1
      <4>3. CASE g.seq < x.seq
        BY <1>10, <1>15, <2>2, <3>4, <4>3 DEF Led
      <4> QED BY <3>2, <4>1, <4>2, <4>3
    <3> QED BY <3>3, <3>4
  <2> QED BY <1>6, <2>1, <2>2
<1> QED BY <1>14, <1>16

\* A step of the server that concerns the attempt b keeps what it keeps for b.
LEMMA OneAttempt ==
    ASSUME Paired, LineLed, CursorsCovered, UNCHANGED <<clientVars, recorded, buffer, current>>,
           NEW b \in Attempts,
           \A a \in Attempts \ {b} :
              /\ reply'[a] = reply[a] /\ read'[a] = read[a] /\ hand'[a] = hand[a]
              /\ sub'[a] = sub[a] /\ missed'[a] = missed[a] /\ replay'[a] = replay[a]
              /\ pc'[a] = pc[a] /\ conn'[a] = conn[a],
           Reads(b) /\ Past(b)' => Line(b)',
           Counts(b)' => Below(Covered(b))',
           Presents(b)' => Presents(b)
    PROVE  LineLed' /\ CursorsCovered'
<1> USE DEF clientVars, process, resumeState
<1>1. UNCHANGED <<cli, mine, cur, pending, shown, skipped>> /\ Seen' = Seen /\ Lost' = Lost
  BY DEF Seen, Lost
<1>2. ASSUME NEW a \in Attempts, a # b
      PROVE  /\ Reads(a)' = Reads(a) /\ Past(a)' = Past(a) /\ Counts(a)' = Counts(a)
             /\ Presents(a)' = Presents(a) /\ Covered(a)' = Covered(a)
  BY <1>1, <1>2 DEF Reads, Past, Counts, Presents, Covered, Replayed, Unread
<1>3. LineLed'
  <2> SUFFICES ASSUME NEW a \in Attempts, Reads(a)', Past(a)' PROVE Line(a)'
    BY DEF LineLed
  <2>1. CASE a = b
    BY <1>1, <2>1 DEF Reads
  <2>2. CASE a # b
    <3>1. Line(a)
      BY <1>2, <2>2 DEF LineLed
    <3> QED BY <1>1, <2>2, <3>1, LineKept
  <2> QED BY <2>1, <2>2
<1>4. ASSUME NEW a \in Attempts, Counts(a)' PROVE Below(Covered(a))'
  <2>1. CASE a = b
    BY <1>4, <2>1
  <2>2. CASE a # b
    <3>1. Below(Covered(a))
      BY <1>2, <1>4, <2>2 DEF CursorsCovered
    <3> QED BY <1>1, <1>2, <2>2, <3>1 DEF Below
  <2> QED BY <2>1, <2>2
<1>5. ASSUME cli' = "listed" \/ (\E a \in Attempts : Presents(a)') PROVE Below(Seen \cup Lost)'
  <2>1. cli = "listed" \/ \E a \in Attempts : Presents(a)
    BY <1>1, <1>2, <1>5
  <2>2. Below(Seen \cup Lost)
    BY <2>1 DEF CursorsCovered
  <2> QED BY <1>1, <2>2 DEF Below
<1> QED BY <1>3, <1>4, <1>5 DEF CursorsCovered

\* The event loop keeps the cursors covered.
LEMMA LoopCursors ==
    ASSUME FlowInv, CursorType, Paired, LineLed, CursorsCovered, UNCHANGED clientVars,
           lagged' = {}, RecvOutput \/ RecvClosed \/ RecvNone \/ LoopStep
    PROVE  LineLed' /\ CursorsCovered'
<1> USE DEF clientVars, process, resumeState
<1>1. UNCHANGED <<cli, mine, cur, pending, shown, skipped>> /\ Seen' = Seen
  BY DEF Seen
<1>2. UNCHANGED <<pc, conn, reply, read, replay, missed, hand>>
  BY DEF RecvOutput, RecvClosed, RecvNone, LoopStep, Broadcast, RemoveSession, answer, request,
     downlink
<1>3. ASSUME NEW a \in Attempts
      PROVE  /\ Reads(a)' = Reads(a) /\ Past(a)' = Past(a) /\ Counts(a)' = Counts(a)
             /\ Presents(a)' = Presents(a) /\ Covered(a)' = Covered(a)
  BY <1>1, <1>2 DEF Reads, Past, Counts, Presents, Covered, Replayed, Unread
<1>4. CASE RecvOutput
  <2>1. LineLed'
    BY <1>3, <1>4, LineRecorded DEF LineLed
  <2>2. PICK f \in Frames :
           /\ f.stream \in Streams /\ f.seq = next[f.stream]
           /\ Items(recorded') = Items(recorded) \cup {f} /\ Lost \subseteq Lost'
    BY <1>4, RecordedLater
  <2>3. ~(f.seq <= cur[f.stream])
    BY <2>2 DEF CursorType
  <2>4. ASSUME NEW S, NEW T, S \subseteq T,
               \A g \in Items(recorded) : g.seq <= cur[g.stream] => g \in S
        PROVE  \A g \in Items(recorded') : g.seq <= cur'[g.stream] => g \in T
    BY <1>1, <2>2, <2>3, <2>4
  <2>5. ASSUME NEW a \in Attempts, Counts(a)' PROVE Below(Covered(a))'
    BY <1>3, <2>4, <2>5 DEF CursorsCovered, Below
  <2>6. ASSUME cli' = "listed" \/ (\E a \in Attempts : Presents(a)') PROVE Below(Seen \cup Lost)'
    <3>1. Below(Seen \cup Lost)
      BY <1>1, <1>3, <2>6 DEF CursorsCovered
    <3>2. Seen \cup Lost \subseteq Seen' \cup Lost'
      BY <1>1, <2>2
    <3> QED BY <2>4, <3>1, <3>2 DEF Below
  <2> QED BY <2>1, <2>5, <2>6 DEF CursorsCovered
<1>5. CASE ~RecvOutput
  <2>1. UNCHANGED <<recorded, buffer>> /\ Lost' = Lost
    BY <1>5 DEF RecvClosed, RecvNone, LoopStep, Broadcast, RemoveSession, state, Lost
  <2>2. CursorsCovered'
    BY <1>1, <1>3, <2>1 DEF CursorsCovered, Below
  <2>3. ASSUME NEW a \in Attempts, Past(a), Line(a) PROVE Line(a)'
    <3>1. CASE RecvClosed
      <4>1. current = Nothing /\ current' = Closed /\ UNCHANGED sub
        BY <3>1 DEF RecvClosed, downlink
      <4>2. Taken(a)' = Taken(a) /\ UnreadMsgs(a)' = UnreadMsgs(a) /\ Replayed(a)' = Replayed(a)
            /\ Unread(a)' = Unread(a) /\ \A i : Ahead(a, i)' = Ahead(a, i)
        BY <1>2, <1>3 DEF Taken, UnreadMsgs, Unread, Ahead, Replayed
      <4>3. RepliesLed(a)' /\ HandLed(a)' /\ SubLed(a)' /\ ReplayLed(a)'
        BY <1>2, <1>3, <2>1, <2>3, <4>1, <4>2 DEF Line, RepliesLed, HandLed, SubLed, ReplayLed
      <4>4. CurrentLed(a)'
        BY <4>1 DEF CurrentLed, Led, Closed
      <4>5. AllUnderWay(a)'
        BY <2>1, <2>3, <4>1, <4>2, MessageKinds DEF Line, AllUnderWay, FlowInv, FlowType
      <4> QED BY <4>3, <4>4, <4>5 DEF Line
    <3>2. CASE RecvNone \/ RemoveSession
      BY <1>1, <1>2, <2>1, <2>3, <3>2, LineKept DEF RecvNone, RemoveSession, downlink, events
    <3>3. CASE Broadcast
      BY <2>3, <3>3, LineBroadcast
    <3> QED BY <1>5, <3>1, <3>2, <3>3 DEF LoopStep
  <2>4. LineLed'
    BY <1>3, <2>3 DEF LineLed
  <2> QED BY <2>2, <2>4
<1> QED BY <1>4, <1>5

\* Handlers, forwarders and connections keep the cursors covered.
LEMMA TaskCursors ==
    ASSUME FlowInv, CursorType, SendOrder, Paired, LineLed, CursorsCovered,
           UNCHANGED clientVars, NEW b \in Attempts,
           \/ b = Opener /\ Attach
           \/ b \in Resumers /\ (HandlerStep(b) \/ AttachResumer(b))
           \/ ForwarderStep(b) \/ DetachClient(b) \/ LoseConnection(b)
    PROVE  LineLed' /\ CursorsCovered'
<1> USE DEF clientVars, process, resumeState
<1>1. /\ UNCHANGED <<cli, mine, cur, pending, shown, skipped>> /\ Seen' = Seen
      /\ Reads(b)' = Reads(b)
  BY DEF Seen, Reads
<1>2. UNCHANGED <<recorded, buffer, current>>
  BY DEF Attach, HandlerStep, QueryBuffer, SpawnForwarders, SendReplay, ReplayReady, SendAck,
     AckReady, DropHandler, Dropped, AttachResumer, AttachWithToken, ForwarderStep, ForwardRecv,
     EventReady, ForwardSend, SendReady, Received, ForwardClosed, EventsOver, DetachClient, Detach,
     LoseConnection, Disconnect, state, events
<1>3. \A a \in Attempts \ {b} :
         /\ reply'[a] = reply[a] /\ read'[a] = read[a] /\ hand'[a] = hand[a]
         /\ sub'[a] = sub[a] /\ missed'[a] = missed[a] /\ replay'[a] = replay[a]
         /\ pc'[a] = pc[a] /\ conn'[a] = conn[a]
  <2>1. CASE (b = Opener /\ Attach) \/ AttachResumer(b) \/ DetachClient(b) \/ LoseConnection(b)
    BY <2>1 DEF Attach, AttachResumer, AttachWithToken, DetachClient, Detach, LoseConnection,
       Disconnect, downlink, answer, request, Goto, FlowInv, FlowType
  <2>2. CASE HandlerStep(b)
    BY <2>2 DEF HandlerStep, QueryBuffer, SpawnForwarders, SendReplay, ReplayReady, SendAck,
       AckReady, DropHandler, Dropped, downlink, answer, request, Goto, Send, FlowInv, FlowType
  <2>3. CASE ForwarderStep(b)
    BY <2>3 DEF ForwarderStep, ForwardRecv, EventReady, ForwardSend, SendReady, Received,
       ForwardClosed, EventsOver, downlink, answer, request, Send, FlowInv, FlowType
  <2> QED BY <2>1, <2>2, <2>3
<1>4. ASSUME Reads(b) /\ Past(b)' => Line(b)', Counts(b)' => Below(Covered(b))',
             Presents(b)' => Presents(b)
      PROVE  LineLed' /\ CursorsCovered'
  BY <1>2, <1>3, <1>4, OneAttempt
\* What is under way to b stays where it is.
<1>5. ASSUME reply'[b] = reply[b], read'[b] = read[b], hand'[b] = hand[b], sub'[b] = sub[b],
             missed'[b] = missed[b], replay'[b] = replay[b],
             Past(b)' => Past(b), Counts(b)' => Counts(b), Presents(b)' => Presents(b)
      PROVE  LineLed' /\ CursorsCovered'
  <2>1. Reads(b) /\ Past(b)' => Line(b)'
    BY <1>1, <1>2, <1>5, LineKept DEF LineLed
  <2>2. Covered(b)' = Covered(b)
    BY <1>1, <1>5 DEF Covered, Replayed, Unread
  <2>3. Counts(b)' => Below(Covered(b))'
    BY <1>1, <1>2, <1>5, <2>2 DEF CursorsCovered, Below
  <2> QED BY <1>4, <1>5, <2>1, <2>3
\* The line moves, with what it covers unchanged.
<1>6. ASSUME pc'[b] = pc[b] \/ (pc[b] = "replay" /\ pc'[b] = "streaming"),
             Past(b)' => Past(b),
             Reads(b) /\ Past(b) /\ Line(b) => Line(b)',
             Reads(b) => Covered(b)' = Covered(b)
      PROVE  LineLed' /\ CursorsCovered'
  <2>1. Reads(b) /\ Past(b)' => Line(b)'
    BY <1>6 DEF LineLed
  <2>2. Counts(b)' => Counts(b) /\ Covered(b)' = Covered(b)
    BY <1>1, <1>6 DEF Counts, Reads
  <2>3. Counts(b)' => Below(Covered(b))'
    BY <1>1, <1>2, <2>2 DEF CursorsCovered, Below
  <2>4. Presents(b)' => Presents(b)
    BY <1>1, <1>6 DEF Presents
  <2> QED BY <1>4, <2>1, <2>3, <2>4
<1>7. CASE b = Opener /\ Attach
  <2>1. /\ UNCHANGED <<reply, read, hand, sub, missed, replay, conn>>
        /\ pc[b] = "attach" /\ pc'[b] \in {"streaming", "failed"}
    BY <1>7 DEF Attach, answer, Goto, FlowInv, FlowType
  <2>2. b \notin Resumers
    BY <1>7, AttemptAssumption
  <2>3. Reads(b) => cli # "handshake"
    BY <2>2 DEF Reads, Paired
  <2> QED BY <1>1, <1>5, <1>7, <2>1, <2>3 DEF Past, Counts, Presents
<1>8. CASE b \in Resumers /\ AttachResumer(b)
  <2>1. /\ UNCHANGED <<reply, read, hand, sub, missed, replay, conn>>
        /\ pc[b] = "attach" /\ pc'[b] \in {"query", "failed"} /\ b # Opener
    BY <1>8, AttemptAssumption
       DEF AttachResumer, AttachWithToken, downlink, answer, Goto, FlowInv, FlowType
  <2> QED BY <1>1, <1>5, <2>1 DEF Past, Counts, Presents
<1>9. CASE DetachClient(b) \/ LoseConnection(b)
  <2>1. /\ UNCHANGED <<reply, read, hand, sub, missed, replay, pc>>
        /\ conn' = conn \/ conn' = [conn EXCEPT ![b] = FALSE]
    BY <1>9 DEF DetachClient, Detach, LoseConnection, Disconnect, downlink, answer, request
  <2>2. conn'[b] => conn[b]
    BY <2>1 DEF FlowInv, FlowType
  <2> QED BY <1>1, <1>5, <2>1, <2>2 DEF Past, Counts, Presents
<1>10. CASE b \in Resumers /\ HandlerStep(b)
  <2>0. b # Opener
    BY <1>10, AttemptAssumption
  <2>1. CASE SpawnForwarders(b) \/ DropHandler(b)
    <3>1. /\ UNCHANGED <<reply, read, hand, sub, missed, replay, conn>>
          /\ \/ pc[b] = "spawn" /\ pc'[b] = "replay"
             \/ pc[b] = "replay" /\ pc'[b] = "failed"
      BY <2>1 DEF SpawnForwarders, DropHandler, Dropped, downlink, answer, Goto, FlowInv, FlowType
    <3> QED BY <1>1, <1>5, <2>0, <3>1 DEF Past, Counts, Presents
  <2>2. CASE SendReplay(b) \/ SendAck(b)
    <3>1. /\ pc[b] = "replay" /\ conn[b] /\ pc'[b] \in {"replay", "streaming"} /\ UNCHANGED conn
      BY <2>2 DEF SendReplay, ReplayReady, SendAck, AckReady, Goto, FlowInv, FlowType
    <3>2. Past(b)
      BY <3>1 DEF Past
    <3>3. Reads(b) => Line(b)
      BY <3>2 DEF LineLed
    <3>4. Reads(b) => Line(b)' /\ Covered(b)' = Covered(b)
      BY <2>2, <3>3, LineSent
    <3> QED BY <1>6, <3>1, <3>2, <3>4
  <2>3. CASE QueryBuffer(b)
    <3>1. pc[b] = "query" /\ pc'[b] \in {"spawn", "failed"}
      BY <2>3 DEF QueryBuffer, Goto, FlowInv, FlowType
    <3>2. Reads(b) => Presents(b)
      BY <2>0, <3>1 DEF Reads, Presents, Paired
    <3>3. Reads(b) /\ pc'[b] = "spawn" => Items(recorded) \subseteq Covered(b)'
      BY <2>3, <3>2, QueryCovers DEF CursorsCovered, Paired
    <3>4. Reads(b) /\ Past(b)' => Line(b)'
      <4>1. Past(b)' => pc'[b] = "spawn"
        BY <2>0, <3>1 DEF Past
      <4>2. ASSUME Items(recorded)' \subseteq Covered(b)' PROVE Line(b)'
        BY <4>2 DEF Line, RepliesLed, HandLed, SubLed, CurrentLed, AllUnderWay, ReplayLed, Led,
           Taken
      <4> QED BY <1>2, <3>3, <4>1, <4>2
    <3>5. Counts(b)' => Below(Covered(b))'
      <4>1. Counts(b)' => Reads(b) /\ pc'[b] = "spawn"
        BY <1>1, <3>1, <3>2 DEF Counts, Presents
      <4> QED BY <1>2, <3>3, <4>1 DEF Below
    <3>6. ~Presents(b)'
      BY <3>1 DEF Presents
    <3> QED BY <1>4, <3>4, <3>5, <3>6
  <2> QED BY <1>10, <2>1, <2>2, <2>3 DEF HandlerStep
<1>11. CASE ForwarderStep(b)
  <2>1. UNCHANGED <<pc, conn, missed, replay, read>> /\ Past(b)' = Past(b)
    BY <1>11 DEF ForwarderStep, ForwardRecv, EventReady, ForwardSend, SendReady, Received,
       ForwardClosed, EventsOver, request, answer, Past
  <2>2. CASE ForwardRecv(b)
    <3>1. reply' = reply
      BY <2>2 DEF ForwardRecv, EventReady, answer
    <3>2. Covered(b)' = Covered(b)
      BY <1>1, <2>1, <3>1 DEF Covered, Replayed, Unread
    <3>3. Line(b) => Line(b)'
      BY <2>2, LineReceived
    <3> QED BY <1>6, <2>1, <3>2, <3>3
  <2>3. CASE ForwardClosed(b)
    <3>1. UNCHANGED <<reply, hand, sub>>
      BY <2>3 DEF ForwardClosed, EventsOver, answer
    <3> QED BY <1>1, <1>5, <2>1, <3>1 DEF Counts, Presents
  <2>4. CASE ForwardSend(b) /\ pc[b] \in {"replay", "streaming"} /\ conn[b]
    <3>1. Past(b)
      BY <2>4 DEF Past
    <3>2. Reads(b) => Line(b)
      BY <3>1 DEF LineLed
    <3>3. Reads(b) => Line(b)' /\ Covered(b)' = Covered(b)
      BY <2>4, <3>2, LineForwarded
    <3> QED BY <1>6, <2>1, <3>1, <3>3
  <2>5. CASE ForwardSend(b) /\ ~(pc[b] \in {"replay", "streaming"} /\ conn[b])
    <3>1. reply' = reply /\ forwarder[b] = "run"
      BY <2>5 DEF ForwardSend, SendReady, Received
    <3>2. Covered(b)' = Covered(b)
      BY <1>1, <2>1, <3>1 DEF Covered, Replayed, Unread
    <3>3. ~Past(b)
      BY <2>5, <3>1 DEF Past, FlowInv, Running
    <3> QED BY <1>6, <2>1, <3>2, <3>3
  <2> QED BY <1>11, <2>2, <2>3, <2>4, <2>5 DEF ForwarderStep
<1> QED BY <1>7, <1>8, <1>9, <1>10, <1>11

\* So does the process, whose cursors follow what it takes.
LEMMA ProcessCursors ==
    ASSUME FlowInv, CursorType, SendOrder, Paired, LineLed, CursorsCovered,
           \/ Exec \/ ListSessions \/ Leave \/ ProcessStep
    PROVE  LineLed' /\ CursorsCovered'
<1> USE DEF resumeState
<1>1. ASSUME cli' = "off" PROVE LineLed' /\ CursorsCovered'
  BY <1>1 DEF LineLed, CursorsCovered, Reads, Counts, Presents
<1>2. CASE Exec
  <2>1. recorded = <<>> /\ recorded' = recorded /\ cli' = "open"
    BY <1>2 DEF Exec, OpenSession, FlowInv, Running
  <2>2. Items(recorded') = {}
    BY <2>1 DEF Items
  <2>3. ASSUME NEW a \in Attempts PROVE Line(a)' /\ Below(Covered(a))'
    BY <2>2 DEF Line, RepliesLed, HandLed, SubLed, CurrentLed, AllUnderWay, ReplayLed, Led, Below
  <2>4. Below(Seen \cup Lost)'
    BY <2>2 DEF Below
  <2> QED BY <2>3, <2>4 DEF LineLed, CursorsCovered
<1>3. CASE ListSessions
  <2>1. cli' = "listed" /\ skipped' = Items(recorded) /\ recorded' = recorded
    BY <1>3 DEF ListSessions, vars, state
  <2>2. Below(Seen \cup Lost)'
    BY <2>1 DEF Below, Seen
  <2>3. \A a \in Attempts : ~Reads(a)'
    BY <2>1 DEF Reads
  <2> QED BY <2>2, <2>3 DEF LineLed, CursorsCovered, Counts
<1>4. CASE Leave \/ StreamError \/ ResumeRefused
  BY <1>1, <1>4 DEF Leave, StreamError, StreamStops, ResumeRefused, Exits
<1>5. CASE ShowPending \/ StreamCloses \/ (OpenReturns /\ cli' = "drive")
  <2>1. /\ UNCHANGED <<vars, mine, cur>> /\ cli' \in {"drive", "interrupted"}
        /\ cli \in {"drive", "open"}
    BY <1>5 DEF ShowPending, StreamCloses, OpenReturns, Opened, OpenFailed, Exits
  <2>2. Seen' = Seen
    <3>1. CASE ShowPending
      <4>1. Items(pending) = {Head(pending)} \cup Items(Tail(pending))
        BY <3>1, ItemsTail DEF ShowPending, CursorType
      <4>2. Items(<<>>) = {}
        BY DEF Items
      <4> QED BY <3>1, <4>1, <4>2 DEF ShowPending, Seen
    <3>2. CASE StreamCloses \/ (OpenReturns /\ cli' = "drive")
      BY <3>2 DEF StreamCloses, OpenReturns, Opened, OpenFailed, Exits, Seen
    <3> QED BY <1>5, <3>1, <3>2
  <2>3. UNCHANGED <<recorded, current, reply, read, hand, sub, missed, replay, pc, conn>>
    BY <2>1 DEF vars, state, events, downlink, answer, request
  <2>4. ASSUME NEW a \in Attempts, Reads(a)'
        PROVE  /\ Counts(a) /\ Past(a)' = Past(a) /\ Covered(a)' = Covered(a) /\ ~Presents(a)'
               /\ Line(a) => Line(a)'
    <3>1. Counts(a) /\ ~Presents(a)'
      BY <2>1, <2>4 DEF Reads, Counts, Presents
    <3>2. Past(a)' = Past(a) /\ Covered(a)' = Covered(a)
      BY <2>2, <2>3 DEF Past, Covered, Replayed, Unread
    <3>3. Line(a) => Line(a)'
      BY <2>2, <2>3, LineKept
    <3> QED BY <3>1, <3>2, <3>3
  <2>5. LineLed'
    BY <2>4 DEF LineLed, Counts
  <2>6. ASSUME NEW a \in Attempts, Counts(a)' PROVE Below(Covered(a))'
    <3>1. Below(Covered(a)) /\ Covered(a)' = Covered(a)
      BY <2>4, <2>6 DEF CursorsCovered, Counts
    <3> QED BY <2>1, <2>3, <3>1 DEF Below
  <2>7. ~(cli' = "listed" \/ \E a \in Attempts : Presents(a)')
    BY <2>1 DEF Presents
  <2> QED BY <2>5, <2>6, <2>7 DEF CursorsCovered
<1>6. CASE OpenReturns /\ cli' # "drive"
  BY <1>1, <1>6 DEF OpenReturns, Opened, OpenFailed, Exits
<1>7. CASE DriveRecv \/ HandshakeRecv
  <2>1. CASE cli' # "off"
    <3>1. /\ mine \in Attempts /\ Deliver(mine) /\ cli \in {"drive", "handshake"} /\ mine' = mine
          /\ cli' \in {"drive", "interrupted", "handshake"}
      BY <1>7, <2>1 DEF DriveRecv, HandshakeRecv, Exits, Paired, ReadsAttempt
    <3>2. pc[mine] = "streaming" /\ conn[mine] /\ UNCHANGED pc
      BY <3>1 DEF Deliver, Deliverable, request
    <3>3. ASSUME NEW a \in Attempts, Reads(a)' PROVE Line(a)' /\ Below(Covered(a))' /\ ~Presents(a)'
      <4>1. mine = a /\ Reads(a) /\ Past(a) /\ Counts(a) /\ ~Presents(a)'
        BY <3>1, <3>2, <3>3 DEF Reads, Past, Counts, Presents
      <4>2. Line(a) /\ Below(Covered(a))
        BY <4>1 DEF LineLed, CursorsCovered
      <4> QED BY <1>7, <2>1, <4>1, <4>2, LineDelivered
    <3> QED BY <3>1, <3>3 DEF LineLed, CursorsCovered, Counts, Presents
  <2> QED BY <1>1, <2>1
<1>8. ASSUME NEW b \in Resumers, AutoResume(b) \/ ResumeCommand(b)
      PROVE  LineLed' /\ CursorsCovered'
  <2>1. /\ cli' = "handshake" /\ mine' = b /\ pc'[b] \in {"attach", "failed"}
        /\ UNCHANGED <<recorded, buffer, cur, pending, shown, skipped>> /\ b # Opener /\ b \in Attempts
    BY <1>8, AttemptAssumption
       DEF AutoResume, ResumeCommand, Resume, ResumeSubscribe, Goto, state, Attempts, FlowInv, FlowType
  <2>2. \A a \in Attempts : ~(Reads(a)' /\ Past(a)') /\ ~Counts(a)'
    BY <2>1 DEF Reads, Past, Counts
  <2>3. Below(Seen \cup Lost)
    <3>1. CASE cli = "listed"
      BY <3>1 DEF CursorsCovered
    <3>2. CASE cli = "interrupted"
      <4>1. PICK a \in Attempts : mine = a
        BY <3>2 DEF Paired, ReadsAttempt
      <4>2. Below(Covered(a))
        BY <3>2, <4>1 DEF CursorsCovered, Counts, Reads
      <4>3. pc[a] = "streaming" /\ \A i \in Unread(a) : reply[a][i].src = "live"
        BY <3>2, <4>1 DEF Paired
      <4>4. Items(replay[a]) = {}
        BY <4>3 DEF SendOrder, Items
      <4>5. Covered(a) \subseteq Seen \cup Lost
        BY <4>3, <4>4 DEF Covered, Replayed, CursorType
      <4> QED BY <4>2, <4>5 DEF Below
    <3> QED BY <1>8, <3>1, <3>2 DEF AutoResume, ResumeCommand
  <2>4. Below(Seen \cup Lost)'
    BY <2>1, <2>3 DEF Below, Seen, Lost
  <2> QED BY <2>2, <2>4 DEF LineLed, CursorsCovered
<1> QED BY <1>2, <1>3, <1>4, <1>5, <1>6, <1>7, <1>8 DEF ProcessStep

\* Every step keeps the invariant.
LEMMA CursorStep == CursorInv /\ [Next2]_allVars => CursorInv'
<1> SUFFICES ASSUME CursorInv, [Next2]_allVars PROVE CursorInv'
  OBVIOUS
<1>1. FlowInv /\ CursorType /\ SendOrder /\ Paired /\ ReadsAttempt
  BY DEF CursorInv, Paired
<1>2. FlowInv' /\ CursorType' /\ SendOrder' /\ Paired'
  BY <1>1, ClientStep, FlowStep, CursorTypeStep, SendOrderStep, PairedStep
<1>3. ASSUME lagged' = {} PROVE LineLed' /\ CursorsCovered'
  <2>1. lagged = {}
    <3>1. lagged \subseteq lagged'
      <4>1. CASE Next
        BY <4>1 DEF Next, OpenSession, Attach, RecvOutput, RecvClosed, RecvNone, LoopStep,
           Broadcast, RemoveSession, ResumeStep, HandlerStep, ResumeSubscribe, AttachWithToken,
           QueryBuffer, SpawnForwarders, SendReplay, ReplayReady, SendAck, AckReady, DropHandler,
           Dropped, ForwarderStep, ForwardRecv, EventReady, ForwardSend, SendReady, Received,
           ForwardClosed, EventsOver, Deliver, Deliverable, Detach, Disconnect, downlink
      <4>2. CASE UNCHANGED vars
        BY <4>2 DEF vars, downlink
      <4> QED BY <1>1, <4>1, <4>2, ClientStep
    <3> QED BY <1>3, <3>1
  <2>2. LineLed /\ CursorsCovered
    BY <2>1 DEF CursorInv
  <2>3. CASE Exec \/ ListSessions \/ Leave \/ ProcessStep
    BY <1>1, <2>2, <2>3, ProcessCursors
  <2>4. CASE CapabilityStep
    BY <1>1, <1>3, <2>2, <2>4, LoopCursors DEF CapabilityStep
  <2>5. CASE ServerStep
    <3>1. UNCHANGED clientVars
      BY <2>5 DEF ServerStep
    <3>2. CASE LoopStep
      BY <1>1, <1>3, <2>2, <3>1, <3>2, LoopCursors
    <3>3. CASE Attach
      BY <1>1, <2>2, <3>1, <3>3, TaskCursors DEF Attempts
    <3>4. ASSUME NEW a \in Resumers, HandlerStep(a) PROVE LineLed' /\ CursorsCovered'
      BY <1>1, <2>2, <3>1, <3>4, TaskCursors DEF Attempts
    <3>5. ASSUME NEW a \in Attempts, ForwarderStep(a) PROVE LineLed' /\ CursorsCovered'
      BY <1>1, <2>2, <3>1, <3>5, TaskCursors
    <3> QED BY <2>5, <3>2, <3>3, <3>4, <3>5 DEF ServerStep
  <2>6. ASSUME NEW a \in Resumers, AttachResumer(a) PROVE LineLed' /\ CursorsCovered'
    BY <1>1, <2>2, <2>6, TaskCursors DEF Attempts, AttachResumer
  <2>7. ASSUME NEW a \in Attempts, DetachClient(a) \/ LoseConnection(a)
        PROVE  LineLed' /\ CursorsCovered'
    BY <1>1, <2>2, <2>7, TaskCursors DEF DetachClient, LoseConnection
  <2>8. CASE UNCHANGED allVars
    <3>1. UNCHANGED <<recorded, buffer, current, reply, read, hand, sub, missed, replay, pc, conn,
                      cli, mine, cur, pending, shown, skipped>>
      BY <2>8 DEF allVars, vars, state, events, downlink, answer, request, clientVars, process,
         resumeState
    <3>2. Seen' = Seen /\ Lost' = Lost
      BY <3>1 DEF Seen, Lost
    <3>3. ASSUME NEW a \in Attempts
          PROVE  /\ Reads(a)' = Reads(a) /\ Past(a)' = Past(a) /\ Counts(a)' = Counts(a)
                 /\ Presents(a)' = Presents(a) /\ Covered(a)' = Covered(a)
      BY <3>1 DEF Reads, Past, Counts, Presents, Covered, Seen, Replayed, Unread
    <3>4. LineLed'
      BY <2>2, <3>1, <3>2, <3>3, LineKept DEF LineLed
    <3>5. CursorsCovered'
      BY <2>2, <3>1, <3>2, <3>3 DEF CursorsCovered, Below
    <3> QED BY <3>4, <3>5
  <2> QED BY <2>3, <2>4, <2>5, <2>6, <2>7, <2>8 DEF Next2
<1> QED BY <1>2, <1>3 DEF CursorInv

\* The invariant holds at first.
LEMMA CursorInit == Init2 => CursorInv
<1> SUFFICES ASSUME Init2 PROVE CursorInv
  OBVIOUS
<1>1. Init /\ FlowInv
  BY FlowInit DEF Init2
<1>2. Items(recorded) = {}
  BY <1>1 DEF Init, Items
<1>3. CursorType
  BY <1>1, <1>2, EmptySeq DEF Init, Init2, CursorType
<1>4. SendOrder
  BY <1>1, EmptySeq DEF Init, SendOrder, Attempts
<1>5. Paired /\ LineLed /\ CursorsCovered
  BY DEF Init2, Paired, ReadsAttempt, LineLed, CursorsCovered, Reads, Counts, Presents
<1> QED BY <1>1, <1>3, <1>4, <1>5 DEF CursorInv

(***************************************************************************)
(* The cursors a process would resume with are safe, as long as no         *)
(* broadcast receiver has lagged: for any number of resumes, any           *)
(* capacities, and however live frames overtake the replayed ones between  *)
(* buffered_output_since and the ack.                                      *)
(***************************************************************************)
THEOREM CursorsAreSafe == Spec2 => []CursorIsSafe
<1>1. CursorInv => CursorIsSafe
  <2> SUFFICES ASSUME CursorInv, cli \in {"drive", "interrupted"}, lagged = {},
                      NEW f \in Items(recorded), f.seq <= cur[f.stream]
               PROVE  f \in shown \cup Items(pending) \cup skipped \cup missed[mine]
    BY DEF CursorIsSafe
  <2>1. PICK a \in Attempts : mine = a
    BY DEF CursorInv, Paired, ReadsAttempt
  <2>2. f \in Covered(a)
    BY <2>1 DEF CursorInv, CursorsCovered, Counts, Reads, Below
  <2>3. pc[a] = "streaming" /\ \A i \in Unread(a) : reply[a][i].src = "live"
    BY <2>1 DEF CursorInv, Paired
  <2>4. Replayed(a) = {}
    BY <2>3 DEF CursorInv, SendOrder, Replayed, Items
  <2> QED BY <2>1, <2>2, <2>4 DEF Covered, Seen
<1> QED BY <1>1, CursorInit, CursorStep, PTL DEF Spec2

-----------------------------------------------------------------------------
(* What is left to do.  A state in which the capability is gone, or a      *)
(* resume was accepted, is not one in which everyone waits: the argument   *)
(* goes through every place at which a handler, a forwarder and the        *)
(* process can be, and needs to know what each of them waits for.          *)

\* The server: the response channel is not over its capacity, what was sent
\* means something to the client, a stream has a forwarder, and the session
\* has left the map when the event loop is over.
Served ==
    /\ loop = "done" => listed = "removed"
    /\ \A a \in Attempts :
          /\ pc[a] \in {"replay", "streaming"} => forwarder[a] # "none"
          /\ Len(reply[a]) <= read[a] + ReplyCapacity
          /\ \A i \in DOMAIN reply[a] : reply[a][i].src = "ack" \/ reply[a][i].msg # Nothing

\* The process: it opens the session first, and a `resume` that has its list
\* is one that can still be sent.
Waits ==
    /\ cli \in {"start", "open", "drive", "interrupted", "handshake", "listed", "off"}
    /\ cli = "start" => listed = "new"
    /\ cli = "listed" => \E a \in Resumers : pc[a] = "start"

RestInv == CursorInv /\ Served /\ Waits

\* What a step that leaves the streams alone has to keep.
LEMMA ServedKept ==
    ASSUME FlowType, Served, UNCHANGED reply,
           \A a \in Attempts : read'[a] = read[a],
           loop' = "done" => listed' = "removed",
           \A a \in Attempts : pc'[a] \in {"replay", "streaming"} => forwarder'[a] # "none"
    PROVE  Served'
BY DEF Served

\* What is sent has room, and is not nothing unless it is the ack.
LEMMA ServedSent ==
    ASSUME FlowType, CursorType, Served, NEW a \in Attempts, NEW r \in Replies, Send(a, r),
           Room(a), r.src = "ack" \/ r.msg # Nothing, UNCHANGED <<read, listed, loop>>,
           \A b \in Attempts : pc'[b] \in {"replay", "streaming"} => forwarder'[b] # "none"
    PROVE  Served'
<1>1. /\ \A b \in Attempts \ {a} : reply'[b] = reply[b]
      /\ Len(reply[a]) \in Nat /\ Len(reply'[a]) = Len(reply[a]) + 1
      /\ DOMAIN reply[a] = 1..Len(reply[a]) /\ DOMAIN reply'[a] = 1..(Len(reply[a]) + 1)
      /\ \A i \in 1..Len(reply[a]) : reply'[a][i] = reply[a][i]
      /\ reply'[a][Len(reply[a]) + 1] = r
  BY Appended
<1>2. read[a] \in Nat /\ ReplyCapacity \in Nat
  BY CapacityAssumption DEF CursorType
<1>3. Len(reply'[a]) <= read[a] + ReplyCapacity
  BY <1>1, <1>2 DEF Room
<1>4. \A i \in DOMAIN reply'[a] : reply'[a][i].src = "ack" \/ reply'[a][i].msg # Nothing
  <2> SUFFICES ASSUME NEW i \in DOMAIN reply'[a]
               PROVE  reply'[a][i].src = "ack" \/ reply'[a][i].msg # Nothing
    OBVIOUS
  <2>1. i \in 1..Len(reply[a]) \/ i = Len(reply[a]) + 1
    BY <1>1
  <2> QED BY <1>1, <2>1 DEF Served
<1> QED BY <1>1, <1>3, <1>4 DEF Served, Nothing

\* Every step of the session keeps its part of the invariant.
LEMMA ServedStep ==
    ASSUME FlowInv, CursorType, Served, [Next]_vars
    PROVE  Served'
<1> USE DEF downlink, answer, request, state, events, Goto
<1>0. /\ FlowType /\ Running /\ Opener \in Attempts
      /\ \A a \in Resumers : a \in Attempts /\ a # Opener
  BY AttemptAssumption DEF FlowInv, Attempts
<1>1. CASE UNCHANGED vars
  BY <1>0, <1>1, ServedKept DEF vars, Served
<1>2. CASE OpenSession
  BY <1>0, <1>2, ServedKept DEF OpenSession, Served, Running, FlowType
<1>3. CASE Attach
  BY <1>0, <1>3, ServedKept DEF Attach, Served, FlowType
<1>4. CASE RecvOutput \/ RecvClosed \/ RecvNone
  BY <1>0, <1>4, ServedKept DEF RecvOutput, RecordOutput, RecvClosed, RecvNone, Served
<1>5. CASE LoopStep
  BY <1>0, <1>5, ServedKept DEF LoopStep, Broadcast, RemoveSession, Served
<1>6. ASSUME NEW a \in Resumers, ResumeStep(a) PROVE Served'
  <2>1. CASE \E c : ResumeSubscribe(a, c)
    BY <1>0, <2>1, ServedKept DEF ResumeSubscribe, Served, FlowType
  <2>2. CASE \E t : AttachWithToken(a, t)
    BY <1>0, <2>2, ServedKept DEF AttachWithToken, Served, FlowType
  <2>3. CASE QueryBuffer(a)
    BY <1>0, <2>3, ServedKept DEF QueryBuffer, Served, FlowType
  <2>4. CASE SpawnForwarders(a)
    BY <1>0, <2>4, ServedKept DEF SpawnForwarders, Served, FlowType
  <2>5. CASE DropHandler(a)
    BY <1>0, <2>5, ServedKept DEF DropHandler, Dropped, Served, FlowType
  <2>6. CASE SendReplay(a)
    <3> DEFINE r == Reply("replay", Head(replay[a]))
    <3>1. replay[a] \in Seq(Items(recorded)) /\ replay[a] # <<>>
      BY <1>0, <2>6 DEF SendReplay, ReplayReady, FlowType
    <3>2. Head(replay[a]) \in Items(recorded)
      BY <3>1, HeadTailProperties
    <3>3. Head(replay[a]) # Nothing
      BY <1>0, <3>2, MessageKinds DEF FlowType
    <3>4. r \in Replies /\ r.msg # Nothing
      BY <3>2, <3>3 DEF Reply, Replies, Known
    <3>5. /\ Send(a, r) /\ Room(a)
          /\ UNCHANGED <<read, listed, loop, pc, forwarder>>
      BY <2>6 DEF SendReplay, ReplayReady
    <3> HIDE DEF r
    <3> QED BY <1>0, <3>4, <3>5, ServedSent DEF Served
  <2>7. CASE SendAck(a)
    <3> DEFINE r == Reply("ack", Nothing)
    <3>1. r \in Replies /\ r.src = "ack"
      BY DEF Reply, Replies, Known
    <3>2. /\ Send(a, r) /\ Room(a) /\ UNCHANGED <<read, listed, loop, forwarder>>
          /\ pc[a] = "replay" /\ pc' = [pc EXCEPT ![a] = "streaming"]
      BY <2>7 DEF SendAck, AckReady
    <3>3. \A b \in Attempts : pc'[b] \in {"replay", "streaming"} => forwarder'[b] # "none"
      BY <1>0, <3>2 DEF Served, FlowType
    <3> HIDE DEF r
    <3> QED BY <1>0, <3>1, <3>2, <3>3, ServedSent
  <2> QED BY <1>6, <2>1, <2>2, <2>3, <2>4, <2>5, <2>6, <2>7 DEF ResumeStep, HandlerStep
<1>7. ASSUME NEW a \in Attempts, ForwarderStep(a) PROVE Served'
  <2>1. CASE ForwardRecv(a) \/ ForwardClosed(a)
    BY <1>0, <2>1, ServedKept DEF ForwardRecv, EventReady, ForwardClosed, EventsOver, Served,
       FlowType
  <2>2. CASE ForwardSend(a) /\ ~Received(a)
    BY <1>0, <2>2, ServedKept DEF ForwardSend, Served, FlowType
  <2>3. CASE ForwardSend(a) /\ Received(a)
    <3> DEFINE r == Reply("live", hand[a])
    <3>1. r \in Replies /\ r.msg # Nothing
      BY <1>0, <2>3 DEF ForwardSend, SendReady, Reply, Replies, FlowType
    <3>2. Send(a, r) /\ Room(a) /\ UNCHANGED <<read, listed, loop, pc, forwarder>>
      BY <2>3 DEF ForwardSend, SendReady
    <3> HIDE DEF r
    <3> QED BY <1>0, <3>1, <3>2, ServedSent DEF Served
  <2> QED BY <1>7, <2>1, <2>2, <2>3 DEF ForwarderStep
<1>8. ASSUME NEW a \in Attempts, Deliver(a) PROVE Served'
  <2>1. /\ UNCHANGED <<reply, listed, loop, pc, forwarder>>
        /\ read' = [read EXCEPT ![a] = @ + 1] /\ read \in [Attempts -> Nat]
    BY <1>8 DEF Deliver, CursorType
  <2>2. \A b \in Attempts : /\ read'[b] \in Nat /\ read[b] \in Nat /\ read[b] <= read'[b]
                            /\ Len(reply[b]) \in Nat /\ ReplyCapacity \in Nat
    BY <1>0, <2>1, LenProperties, CapacityAssumption DEF FlowType
  <2>3. \A b \in Attempts : Len(reply[b]) <= read'[b] + ReplyCapacity
    BY <2>2 DEF Served
  <2> QED BY <2>1, <2>3 DEF Served, Nothing
<1>9. ASSUME NEW a \in Attempts, Detach(a) \/ Disconnect(a) PROVE Served'
  BY <1>0, <1>9, ServedKept DEF Detach, Disconnect, Served
<1> QED BY <1>1, <1>2, <1>3, <1>4, <1>5, <1>6, <1>7, <1>8, <1>9 DEF Next

\* Every step keeps the process's part of it.
LEMMA WaitsStep ==
    ASSUME FlowInv, Waits, [Next2]_allVars
    PROVE  Waits'
<1> USE DEF clientVars, process, resumeState, state, request, Goto, Waits
<1>0. /\ FlowType /\ Running /\ \A a \in Resumers : a \in Attempts /\ a # Opener
      /\ Opener \in Attempts
  BY AttemptAssumption DEF FlowInv, Attempts
<1>1. CASE Exec
  BY <1>1 DEF Exec
<1>2. CASE ListSessions
  BY <1>2 DEF ListSessions, vars
<1>3. CASE Leave \/ StreamError \/ ResumeRefused
  BY <1>3 DEF Leave, StreamError, ResumeRefused, Exits
<1>4. CASE OpenReturns
  BY <1>4 DEF OpenReturns, Exits
<1>5. CASE DriveRecv \/ HandshakeRecv
  BY <1>5 DEF DriveRecv, HandshakeRecv, Exits
<1>6. CASE ShowPending \/ StreamCloses \/ UNCHANGED allVars
  BY <1>6 DEF ShowPending, StreamCloses, allVars, vars
<1>7. ASSUME NEW a \in Resumers, AutoResume(a) \/ ResumeCommand(a) PROVE Waits'
  BY <1>7 DEF AutoResume, ResumeCommand, Resume
\* The server moves no attempt away from its start, and removes no session
\* that is not open.
<1>8. ASSUME UNCHANGED cli, listed = "new" => listed' = "new",
             \A a \in Resumers : pc[a] = "start" => pc'[a] = "start"
      PROVE  Waits'
  BY <1>8
<1>9. CASE CapabilityStep
  BY <1>8, <1>9 DEF CapabilityStep, RecvOutput, RecvClosed, RecvNone
<1>10. CASE \E a \in Attempts : DetachClient(a) \/ LoseConnection(a)
  BY <1>8, <1>10 DEF DetachClient, LoseConnection, Detach, Disconnect
<1>11. CASE \E a \in Resumers : AttachResumer(a)
  BY <1>0, <1>8, <1>11 DEF AttachResumer, AttachWithToken, FlowType
<1>12. CASE ServerStep
  <2>1. UNCHANGED cli
    BY <1>12 DEF ServerStep
  <2>2. CASE Attach
    BY <1>0, <1>8, <2>1, <2>2 DEF Attach, FlowType
  <2>3. CASE LoopStep
    BY <1>0, <1>8, <2>1, <2>3 DEF LoopStep, Broadcast, RemoveSession, Running
  <2>4. ASSUME NEW a \in Resumers, HandlerStep(a) PROVE Waits'
    <3>1. /\ UNCHANGED listed /\ pc[a] \in {"query", "spawn", "replay"}
          /\ \A b \in Attempts \ {a} : pc'[b] = pc[b]
      BY <1>0, <2>4 DEF HandlerStep, QueryBuffer, SpawnForwarders, SendReplay, ReplayReady,
         SendAck, AckReady, DropHandler, Dropped, FlowType
    <3> QED BY <1>0, <1>8, <2>1, <3>1
  <2>5. ASSUME NEW a \in Attempts, ForwarderStep(a) PROVE Waits'
    BY <1>8, <2>1, <2>5 DEF ForwarderStep, ForwardRecv, ForwardSend, ForwardClosed
  <2> QED BY <1>12, <2>2, <2>3, <2>4, <2>5 DEF ServerStep
<1> QED BY <1>1, <1>2, <1>3, <1>4, <1>5, <1>6, <1>7, <1>9, <1>10, <1>11, <1>12
        DEF Next2, ProcessStep

\* The invariant holds throughout.
LEMMA RestInvariant == Spec2 => []RestInv
<1>1. Init2 => RestInv
  <2> SUFFICES ASSUME Init2 PROVE RestInv
    OBVIOUS
  <2>1. Init
    BY DEF Init2
  <2>2. Served
    BY <2>1, CapacityAssumption, EmptySeq DEF Init, Served
  <2>3. Waits
    BY <2>1 DEF Init, Init2, Waits
  <2> QED BY <2>2, <2>3, CursorInit DEF RestInv
<1>2. RestInv /\ [Next2]_allVars => RestInv'
  <2> SUFFICES ASSUME RestInv, [Next2]_allVars PROVE RestInv'
    OBVIOUS
  <2>1. CursorInv /\ FlowInv /\ CursorType /\ ReadsAttempt /\ Served /\ Waits
    BY DEF RestInv, CursorInv, Paired
  <2> QED BY <2>1, CursorStep, ClientStep, ServedStep, WaitsStep DEF RestInv
<1> QED BY <1>1, <1>2, PTL DEF Spec2

\* A handler that is to send and has room can.
LEMMA ReplayMoves ==
    ASSUME RestInv, NEW a \in Resumers, pc[a] = "replay", ~Stalled(a)
    PROVE  ReplayReady(a) \/ AckReady(a) \/ Dropped(a)
<1>1. /\ Len(reply[a]) \in Nat /\ read[a] \in Nat /\ ReplyCapacity \in Nat
      /\ Len(reply[a]) <= read[a] + ReplyCapacity /\ conn[a] \in BOOLEAN
  BY LenProperties, CapacityAssumption
     DEF RestInv, CursorInv, FlowInv, FlowType, CursorType, Served, Attempts
<1>2. Room(a)
  BY <1>1 DEF Stalled, Room
<1> QED BY <1>1, <1>2 DEF ReplayReady, AckReady, Dropped

\* A stream of a session that is over brings a message, an error or its end,
\* or its forwarder has something to do.
LEMMA StreamMoves ==
    ASSUME RestInv, loop = "done", mine \in Attempts, pc[mine] = "streaming"
    PROVE  \/ Deliverable(mine) /\ (Incoming.src = "ack" \/ Incoming.msg # Nothing)
           \/ StreamFailed \/ StreamEnded
           \/ EventReady(mine) \/ SendReady(mine) \/ EventsOver(mine)
<1>1. /\ reply[mine] \in Seq(Replies) /\ read[mine] \in Nat /\ read[mine] <= Len(reply[mine])
      /\ ReplyCapacity \in Nat \ {0}
      /\ forwarder[mine] \in {"run", "done"}
  BY CapacityAssumption DEF RestInv, CursorInv, FlowInv, FlowType, CursorType, Served
<1>2. Len(reply[mine]) \in Nat /\ DOMAIN reply[mine] = 1..Len(reply[mine])
  BY <1>1, LenProperties
<1>3. CASE ~conn[mine]
  BY <1>3 DEF StreamFailed
<1>4. CASE conn[mine] /\ read[mine] < Len(reply[mine])
  <2>1. read[mine] + 1 \in DOMAIN reply[mine]
    BY <1>1, <1>2, <1>4
  <2>2. Incoming.src = "ack" \/ Incoming.msg # Nothing
    BY <2>1 DEF RestInv, Served, Incoming
  <2> QED BY <1>4, <2>2 DEF Deliverable
<1>5. CASE conn[mine] /\ ~(read[mine] < Len(reply[mine]))
  <2>1. read[mine] = Len(reply[mine])
    BY <1>1, <1>2, <1>5
  <2>2. Room(mine)
    BY <1>1, <1>2, <2>1 DEF Room
  <2> QED BY <1>1, <1>5, <2>1, <2>2 DEF StreamEnded, EventReady, SendReady, EventsOver
<1> QED BY <1>3, <1>4, <1>5

(***************************************************************************)
(* When the capability is gone nobody waits for somebody else for good:    *)
(* whatever the command line process is at (open_capability_session,       *)
(* drive_session, the handshake of a resume, or between two of them), it   *)
(* or a task of the server it waits for can take a step until the session  *)
(* has left the map and the process has ended.  For any capacities and any *)
(* number of resumes; a stalled resume is the only exception.              *)
(***************************************************************************)
THEOREM ClosedEnds == Spec2 => []ClosedSessionEnds
<1>1. RestInv => ClosedSessionEnds
  <2> SUFFICES ASSUME RestInv,
                      \/ current = Closed \/ loop = "closing"
                      \/ loop = "done" /\ cli # "off" /\ ~(cli = "handshake" /\ Stalled(mine))
               PROVE  Moving
    BY DEF ClosedSessionEnds
  <2>1. CASE current = Closed
    BY <2>1, MessageKinds DEF Moving, RestInv, CursorInv, FlowInv, FlowType
  <2>2. CASE loop = "closing"
    BY <2>2 DEF Moving
  <2>3. CASE loop = "done" /\ cli # "off" /\ ~(cli = "handshake" /\ Stalled(mine))
    <3>1. /\ listed = "removed" /\ Running /\ Paired /\ ReadsAttempt /\ Waits
          /\ pc \in [Attempts -> PcLabels] /\ Opener \in Attempts
      BY <2>3 DEF RestInv, Served, CursorInv, FlowInv, FlowType, Paired, Attempts
    <3>2. CASE cli = "start"
      BY <3>1, <3>2 DEF Waits
    <3>3. CASE cli = "open"
      <4>1. pc[Opener] \in {"attach", "streaming", "failed"}
        BY <3>1 DEF Running, PcLabels
      <4> QED BY <3>3, <4>1 DEF Moving, ProcessMoves, Opened, OpenFailed
    <3>4. ASSUME mine \in Attempts, pc[mine] = "streaming",
                 cli = "handshake" \/ (cli = "drive" /\ pending = <<>>),
                 cli = "drive" => \A i \in Unread(mine) : reply[mine][i].src = "live"
          PROVE  Moving
      <4>1. CASE EventReady(mine) \/ SendReady(mine) \/ EventsOver(mine)
        BY <3>4, <4>1 DEF Moving
      <4>2. CASE StreamFailed \/ StreamEnded
        BY <3>4, <4>2 DEF Moving, ProcessMoves, StreamStops
      <4>3. CASE Deliverable(mine) /\ (Incoming.src = "ack" \/ Incoming.msg # Nothing)
        <5>1. cli = "drive" => Incoming.src = "live"
          <6>1. /\ reply[mine] \in Seq(Replies) /\ read[mine] \in Nat
                /\ read[mine] < Len(reply[mine])
            BY <3>4, <4>3
               DEF Deliverable, RestInv, CursorInv, FlowInv, FlowType, CursorType
          <6>2. read[mine] + 1 \in Unread(mine)
            BY <6>1, LenProperties DEF Unread
          <6> QED BY <3>4, <6>2 DEF Incoming
        <5>2. Understood
          BY <3>4, <4>3, <5>1 DEF Understood
        <5> QED BY <3>4, <4>3, <5>2 DEF Moving, ProcessMoves
      <4> QED BY <2>3, <3>4, <4>1, <4>2, <4>3, StreamMoves
    <3>5. CASE cli = "drive"
      <4>1. CASE pending # <<>>
        BY <3>5, <4>1 DEF Moving, ProcessMoves
      <4>2. CASE pending = <<>>
        BY <3>1, <3>4, <3>5, <4>2 DEF Paired, ReadsAttempt
      <4> QED BY <4>1, <4>2
    <3>6. CASE cli = "interrupted"
      BY <3>1, <3>6 DEF Moving, ProcessMoves
    <3>7. CASE cli = "handshake"
      <4>1. mine \in Resumers /\ mine \in Attempts /\ pc[mine] \in PcLabels \ {"start"}
        BY <3>1, <3>7 DEF Paired, ReadsAttempt
      <4>2. CASE pc[mine] \in {"attach", "query", "spawn"}
        BY <4>1, <4>2 DEF Moving
      <4>3. CASE pc[mine] = "replay"
        BY <2>3, <3>7, <4>1, <4>3, ReplayMoves DEF Moving
      <4>4. CASE pc[mine] = "failed"
        BY <3>7, <4>4 DEF Moving, ProcessMoves, StreamStops, StreamFailed
      <4>5. CASE pc[mine] = "streaming"
        BY <3>4, <3>7, <4>1, <4>5
      <4> QED BY <4>1, <4>2, <4>3, <4>4, <4>5 DEF PcLabels
    <3>8. CASE cli = "listed"
      BY <3>1, <3>8 DEF Waits, Moving, ProcessMoves
    <3> QED BY <2>3, <3>1, <3>2, <3>3, <3>5, <3>6, <3>7, <3>8 DEF Waits
  <2> QED BY <2>1, <2>2, <2>3
<1> QED BY <1>1, RestInvariant, PTL
=============================================================================
