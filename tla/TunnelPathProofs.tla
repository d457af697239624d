-------------------------- MODULE TunnelPathProofs --------------------------
(***************************************************************************)
(* TunnelPath implements one TunnelStream for each direction, for any      *)
(* number of chunks.  At the end RelayClient, the control channel of the   *)
(* server whose tunnels these are, for any limit of the delay.             *)
(***************************************************************************)
EXTENDS TunnelPath, RelayClient, SequenceTheorems, TLAPS

Chunk == Nat \ {CloseFrame}

\* A Close frame is the last on its way.
CloseIsLast(s) == \A i \in 1..(Len(s) - 1) : s[i] \in Chunk
Closing(s) == s # <<>> /\ Last(s) = CloseFrame

Typed ==
    /\ wrote \in [Ends -> Nat] /\ got \in [Ends -> Seq(Nat)] /\ up \in [Ends -> Seq(Chunk)]
    /\ closed \in [Ends -> BOOLEAN] /\ eof \in [Ends -> BOOLEAN] /\ faulty \in [Ends -> BOOLEAN]
    /\ inbound \in [Ends -> Seq(Nat)] /\ out \in [Ends -> Seq(Nat)]
    /\ link \in [Ends -> {"open", "gone"}] /\ task \in [Ends -> {"run", "ended", "failed"}]
    /\ uplink \in {"run", "done"} /\ downlink \in {"run", "done", "closed"}

FramesEnd == \A p \in Ends : CloseIsLast(inbound[p]) /\ CloseIsLast(out[p])

\* An end has gone when its connection broke or its application has closed its
\* stream or was told of its end.
Gone(p) == faulty[p] \/ eof[p] \/ closed[p]

\* Everything p wrote has been sent, and it writes no more.
Drained(p) == StreamCut(p) \/ (closed[p] /\ up[p] = <<>>)

\* The client's two tasks: what their ends say of both streams.
ClientEnd ==
    /\ downlink = "run" => ~eof["client"]
    /\ downlink # "run" => eof["client"] \/ closed["client"]
    /\ downlink = "closed" => StreamCut("client")
    /\ link["client"] = "gone" => faulty["client"] \/ (uplink # "run" /\ downlink # "run")
    /\ uplink # "run" => Drained("client")
    /\ Closing(inbound["client"]) => uplink # "run" /\ closed["client"]

\* handle_tunnel: it sends no Close frame, and takes its connection with it.
ServerEnd ==
    /\ server # "done" => ~eof["server"]
    /\ link["server"] = "gone" => faulty["server"] \/ server = "done"
    /\ server = "done" => Gone("server")
    /\ ~Closing(inbound["server"])

\* A forwarding task fails when the other end has gone, and ends when it has
\* sent on all that its own end had to send.
RelayTasks ==
    \A p \in Ends :
       /\ task[p] = "failed" => Gone(Other(p))
       /\ task[p] = "ended" => Gone(p) /\ Drained(p)
       /\ Closing(out[p]) => relay = "gaveup" \/ task[Other(p)] = "ended"

\* A connection that broke is gone, and a client that was told of the end of
\* its stream sends nothing that could still arrive.
LinksEnd ==
    /\ \A p \in Ends : faulty[p] => link[p] = "gone"
    /\ relay = "removed" => \A p \in Ends : task[p] # "run"
    /\ downlink = "done" /\ eof["client"] => link["client"] = "gone" \/ relay \in {"removed", "gaveup"}

PathInv == Typed /\ FramesEnd /\ ClientEnd /\ ServerEnd /\ RelayTasks

-----------------------------------------------------------------------------
(* Frames on their way.                                                    *)

\* A sequence without its last element.
LEMMA FrontElements ==
    ASSUME NEW s \in Seq(Nat), s # <<>>
    PROVE  /\ Front(s) \in Seq(Nat) /\ Len(Front(s)) = Len(s) - 1
           /\ \A i \in 1..(Len(s) - 1) : Front(s)[i] = s[i]
<1> DEFINE n == Len(s) - 1
<1>1. n \in Nat /\ n \in Int /\ 1 \in Int /\ n - 1 + 1 = n
  BY EmptySeq
<1>2. \A i \in 1..n : s[i] \in Nat
  BY EmptySeq
<1>3. 1 <= n \/ n = 0
  BY <1>1
<1> HIDE DEF n
<1>4. /\ SubSeq(s, 1, n) \in Seq(Nat)
      /\ Len(SubSeq(s, 1, n)) = IF 1 <= n THEN n - 1 + 1 ELSE 0
      /\ \A i \in 1..(n - 1 + 1) : SubSeq(s, 1, n)[i] = s[1 + i - 1]
  BY <1>1, <1>2, SubSeqProperties
<1>5. Len(SubSeq(s, 1, n)) = n
  BY <1>1, <1>3, <1>4
<1>6. \A i \in 1..n : SubSeq(s, 1, n)[i] = s[i]
  BY <1>1, <1>4
<1>7. Front(s) = SubSeq(s, 1, n)
  BY DEF Front, n
<1> QED BY <1>4, <1>5, <1>6, <1>7 DEF n

\* A frame is put at the end of a way on which no Close frame was sent.
LEMMA FrameAppended ==
    ASSUME NEW s \in Seq(Nat), CloseIsLast(s), ~Closing(s), NEW f \in Nat
    PROVE  /\ Append(s, f) \in Seq(Nat) /\ CloseIsLast(Append(s, f))
           /\ Closing(Append(s, f)) <=> f = CloseFrame
           /\ Chunks(s) = s
           /\ Chunks(Append(s, f)) = IF f = CloseFrame THEN s ELSE Append(s, f)
<1> DEFINE t == Append(s, f)
           n == Len(s)
<1>1. /\ n \in Nat /\ \A i \in 1..n : s[i] \in Nat
      /\ t \in Seq(Nat) /\ Len(t) = n + 1 /\ t # <<>> /\ (s = <<>> <=> n = 0)
      /\ \A i \in 1..n : t[i] = s[i]
      /\ t[n + 1] = f
  BY AppendProperties, LenProperties, EmptySeq
<1>2. n = Len(s)
  OBVIOUS
<1> HIDE DEF t, n
<1>3. n + 1 - 1 = n
  BY <1>1
<1>4. \A i \in 1..n : s[i] \in Chunk
  BY <1>1, <1>2 DEF CloseIsLast, Closing, Chunk, Last
<1>5. CloseIsLast(t) /\ (Closing(t) <=> f = CloseFrame)
  <2>1. Len(t) - 1 = n /\ \A i \in 1..n : t[i] \in Chunk
    BY <1>1, <1>4
  <2>2. Last(t) = f
    BY <1>1, Zenon DEF Last
  <2>3. CloseIsLast(t)
    BY <2>1, Zenon DEF CloseIsLast
  <2> QED BY <1>1, <2>2, <2>3, Zenon DEF Closing
<1>6. Front(t) = s
  <2>1. Front(t) \in Seq(Nat) /\ Len(Front(t)) = n /\ \A i \in 1..n : Front(t)[i] = t[i]
    <3>1. Len(t) - 1 = n
      BY <1>1
    <3> QED BY <1>1, <3>1, FrontElements, Zenon
  <2>2. \A i \in 1..n : Front(t)[i] = s[i]
    BY <1>1, <2>1, Zenon
  <2> QED BY <1>2, <2>1, <2>2, SeqEqual, Zenon
<1>7. Chunks(s) = s /\ Chunks(t) = IF f = CloseFrame THEN s ELSE t
  BY <1>1, <1>5, <1>6, Zenon DEF Chunks, Closing
<1> QED BY <1>1, <1>5, <1>7 DEF t

\* The first frame is taken: a chunk, or the Close frame, which is alone.
LEMMA FrameTaken ==
    ASSUME NEW s \in Seq(Nat), CloseIsLast(s), s # <<>>
    PROVE  /\ Tail(s) \in Seq(Nat) /\ CloseIsLast(Tail(s)) /\ Head(s) \in Nat
           /\ Closing(Tail(s)) => Closing(s)
           /\ IsData(Head(s)) => /\ Head(s) \in Chunk /\ Chunks(s) # <<>>
                                 /\ Head(Chunks(s)) = Head(s) /\ Chunks(Tail(s)) = Tail(Chunks(s))
           /\ ~IsData(Head(s)) => Closing(s) /\ Chunks(s) = <<>> /\ Tail(s) = <<>>
<1> DEFINE t == Tail(s)
           r == Front(s)
           n == Len(s) - 1
<1>1. /\ n \in Nat /\ Len(s) = n + 1 /\ Head(s) = s[1] /\ \A i \in 1..(n + 1) : s[i] \in Nat
      /\ t \in Seq(Nat) /\ Len(t) = n /\ \A i \in 1..n : t[i] = s[i + 1]
      /\ t = <<>> <=> n = 0
  <2>1. Len(s) \in Nat \ {0} /\ \A i \in 1..Len(s) : s[i] \in Nat
    BY EmptySeq, LenProperties
  <2>2. t \in Seq(Nat) /\ Len(t) = n /\ \A i \in 1..Len(t) : t[i] = s[i + 1]
    BY HeadTailProperties
  <2>3. t = <<>> <=> Len(t) = 0
    BY <2>2, EmptySeq
  <2> QED BY <2>1, <2>2, <2>3
<1>2. /\ r \in Seq(Nat) /\ Len(r) = n /\ \A i \in 1..n : r[i] = s[i]
      /\ r = <<>> <=> n = 0
  <2>1. r \in Seq(Nat) /\ Len(r) = n /\ \A i \in 1..n : r[i] = s[i]
    BY FrontElements
  <2> QED BY <2>1, EmptySeq
<1> HIDE DEF t, r, n
<1>3. Last(s) = s[n + 1] /\ Last(t) = t[n] /\ (n > 0 => Last(t) = s[n + 1])
  BY <1>1 DEF Last
<1>4. \A i \in 1..n : s[i] \in Chunk
  BY <1>1 DEF CloseIsLast
<1>5. CloseIsLast(t)
  BY <1>1, <1>4 DEF CloseIsLast
<1>6. Closing(t) => Closing(s)
  BY <1>1, <1>3 DEF Closing
<1>7. CASE ~IsData(Head(s))
  <2>1. n = 0 /\ Last(s) = CloseFrame
    BY <1>1, <1>3, <1>4, <1>7 DEF IsData, Chunk
  <2>2. Chunks(s) = r
    BY <2>1 DEF Chunks, r
  <2> QED BY <1>1, <1>2, <1>5, <1>6, <1>7, <2>1, <2>2 DEF Closing, t
<1>8. CASE IsData(Head(s))
  <2>1. Head(s) \in Chunk /\ Head(s) \in Nat
    BY <1>1, <1>8 DEF IsData, Chunk
  <2>2. /\ Chunks(s) # <<>> /\ Head(Chunks(s)) = Head(s)
        /\ Chunks(t) = Tail(Chunks(s))
    <3>1. CASE Last(s) # CloseFrame
      <4>1. Chunks(s) = s /\ Chunks(t) = t
        BY <1>1, <1>3, <3>1 DEF Chunks
      <4> QED BY <4>1, Zenon DEF t
    <3>2. CASE Last(s) = CloseFrame
      <4>1. n > 0
        <5>1. n = 0 => s[n + 1] = Head(s)
          BY <1>1
        <5> QED BY <1>1, <1>3, <1>8, <3>2, <5>1 DEF IsData
      <4>2. Chunks(s) = r /\ Chunks(t) = Front(t) /\ r # <<>> /\ t # <<>>
        BY <1>1, <1>2, <1>3, <3>2, <4>1 DEF Chunks, r
      <4>3. /\ Front(t) \in Seq(Nat) /\ Len(Front(t)) = n - 1
            /\ \A i \in 1..(n - 1) : Front(t)[i] = t[i]
        BY <1>1, <4>2, FrontElements, Zenon
      <4>4. /\ Tail(r) \in Seq(Nat) /\ Len(Tail(r)) = n - 1
            /\ \A i \in 1..Len(Tail(r)) : Tail(r)[i] = r[i + 1]
        BY <1>2, <4>2, HeadTailProperties, Zenon
      <4>5. Head(r) = r[1] /\ r[1] = s[1]
        BY <1>2, <4>1
      <4>6. \A i \in 1..(n - 1) : i \in 1..n /\ i + 1 \in 1..n
        BY <1>1
      <4>7. \A i \in 1..(n - 1) : Front(t)[i] = Tail(r)[i]
        BY <1>1, <1>2, <4>3, <4>4, <4>6, Zenon
      <4>8. Front(t) = Tail(r)
        BY <4>3, <4>4, <4>7, SeqEqual, Zenon
      <4> QED BY <1>1, <4>2, <4>5, <4>8, Zenon
    <3> QED BY <3>1, <3>2
  <2> QED BY <1>1, <1>5, <1>6, <1>8, <2>1, <2>2, Zenon DEF t
<1> QED BY <1>7, <1>8

\* What a cut leaves of the chunks in flight.
Remains(g, f) == \E k \in 0..Len(f) : g = SubSeq(f, 1, k)

\* A beginning of a sequence, element by element.
LEMMA BeginningElements ==
    ASSUME NEW f \in Seq(Nat), NEW k \in 0..Len(f)
    PROVE  /\ SubSeq(f, 1, k) \in Seq(Nat) /\ Len(SubSeq(f, 1, k)) = k
           /\ \A i \in 1..k : SubSeq(f, 1, k)[i] = f[i]
<1> DEFINE n == Len(f)
<1>1. n \in Nat /\ k \in 0..n /\ \A i \in 1..n : f[i] \in Nat
  BY LenProperties
<1> HIDE DEF n
<1>2. k \in Nat /\ k \in Int /\ 1 \in Int /\ k - 1 + 1 = k /\ (\A i \in 1..k : f[i] \in Nat) /\ (1 <= k \/ k = 0)
  BY <1>1
<1>3. /\ SubSeq(f, 1, k) \in Seq(Nat)
      /\ Len(SubSeq(f, 1, k)) = IF 1 <= k THEN k - 1 + 1 ELSE 0
      /\ \A i \in 1..(k - 1 + 1) : SubSeq(f, 1, k)[i] = f[1 + i - 1]
  BY <1>2, SubSeqProperties
<1>4. Len(SubSeq(f, 1, k)) = k
  BY <1>2, <1>3
<1>5. \A i \in 1..k : 1 + i - 1 = i
  BY <1>2
<1>6. \A i \in 1..k : SubSeq(f, 1, k)[i] = f[i]
  BY <1>2, <1>3, <1>5
<1> QED BY <1>3, <1>4, <1>6, Zenon

\* A remainder agrees with the whole as far as it goes.
LEMMA RemainsElements ==
    ASSUME NEW f \in Seq(Nat), NEW g \in Seq(Nat)
    PROVE  Remains(g, f) <=> Len(g) <= Len(f) /\ \A i \in 1..Len(g) : g[i] = f[i]
<1>1. Len(f) \in Nat /\ Len(g) \in Nat
  BY LenProperties
<1>2. ASSUME Remains(g, f) PROVE Len(g) <= Len(f) /\ \A i \in 1..Len(g) : g[i] = f[i]
  <2>1. PICK k \in 0..Len(f) : g = SubSeq(f, 1, k)
    BY <1>2, Zenon DEF Remains
  <2>2. Len(g) = k /\ \A i \in 1..k : g[i] = f[i]
    BY <2>1, BeginningElements, Zenon
  <2>3. Len(g) <= Len(f)
    BY <1>1, <2>1, <2>2
  <2> QED BY <2>2, <2>3, Zenon
<1>3. ASSUME Len(g) <= Len(f), \A i \in 1..Len(g) : g[i] = f[i] PROVE Remains(g, f)
  <2> DEFINE k == Len(g)
             h == SubSeq(f, 1, k)
  <2>1. k \in 0..Len(f)
    BY <1>1, <1>3
  <2>2. h \in Seq(Nat) /\ Len(h) = k /\ \A i \in 1..k : h[i] = f[i]
    BY <2>1, BeginningElements, Zenon
  <2>3. \A i \in 1..k : g[i] = h[i]
    BY <1>3, <2>2, Zenon
  <2>4. g = h
    <3> HIDE DEF h
    <3> QED BY <2>2, <2>3, SeqEqual, Zenon
  <2> QED BY <2>1, <2>4, Zenon DEF Remains
<1> QED BY <1>2, <1>3

\* A cut loses an end of what is in flight.
LEMMA RemainsOfWay ==
    ASSUME NEW x \in Seq(Nat), NEW y \in Seq(Nat), NEW z \in Seq(Nat)
    PROVE  /\ Remains(x, x) /\ Remains(<<>>, x) /\ Remains(x, x \o y)
           /\ Remains(y, z) => Remains(x \o y, x \o z)
           /\ Remains(x, y) => Remains(x, y \o z)
<1> DEFINE a == Len(x)
           b == Len(y)
           c == Len(z)
           xy == x \o y
           xz == x \o z
           yz == y \o z
<1>1. a \in Nat /\ b \in Nat /\ c \in Nat /\ <<>> \in Seq(Nat) /\ Len(<<>>) = 0
  BY LenProperties, EmptySeq
<1>2. /\ xy \in Seq(Nat) /\ Len(xy) = a + b
      /\ \A i \in 1..(a + b) : xy[i] = IF i <= a THEN x[i] ELSE y[i - a]
  BY ConcatProperties, Zenon
<1>3. /\ xz \in Seq(Nat) /\ Len(xz) = a + c
      /\ \A i \in 1..(a + c) : xz[i] = IF i <= a THEN x[i] ELSE z[i - a]
  BY ConcatProperties, Zenon
<1>4. /\ yz \in Seq(Nat) /\ Len(yz) = b + c
      /\ \A i \in 1..(b + c) : yz[i] = IF i <= b THEN y[i] ELSE z[i - b]
  BY ConcatProperties, Zenon
<1>5. a = Len(x) /\ b = Len(y) /\ c = Len(z)
  BY Zenon
<1> HIDE DEF a, b, c, xy, xz, yz
<1>6. Remains(x, x)
  <2>1. a <= a /\ \A i \in 1..a : x[i] = x[i]
    BY <1>1
  <2> QED BY <1>5, <2>1, RemainsElements, Zenon
<1>7. Remains(<<>>, x)
  <2> DEFINE e == <<>>
  <2>1. 0 <= a /\ \A i \in 1..0 : e[i] = x[i]
    BY <1>1
  <2> QED BY <1>1, <1>5, <2>1, RemainsElements, Zenon
<1>8. Remains(x, xy)
  <2>1. a <= a + b /\ \A i \in 1..a : x[i] = xy[i]
    BY <1>1, <1>2
  <2> QED BY <1>2, <1>5, <2>1, RemainsElements, Zenon
<1>9. ASSUME Remains(y, z) PROVE Remains(xy, xz)
  <2>1. b <= c /\ \A i \in 1..b : y[i] = z[i]
    BY <1>5, <1>9, RemainsElements, Zenon
  <2>2. /\ a + b <= a + c
        /\ \A i \in 1..(a + b) : i \in 1..(a + c) /\ (i <= a \/ i - a \in 1..b)
    BY <1>1, <2>1
  <2>3. \A i \in 1..(a + b) : xy[i] = xz[i]
    BY <1>2, <1>3, <2>1, <2>2, Zenon
  <2> QED BY <1>2, <1>3, <2>2, <2>3, RemainsElements, Zenon
<1>10. ASSUME Remains(x, y) PROVE Remains(x, yz)
  <2>1. a <= b /\ \A i \in 1..a : x[i] = y[i]
    BY <1>5, <1>10, RemainsElements, Zenon
  <2>2. a <= b + c /\ \A i \in 1..a : i \in 1..b /\ i \in 1..(b + c) /\ i <= b
    BY <1>1, <2>1
  <2>3. \A i \in 1..a : x[i] = yz[i]
    BY <1>4, <2>1, <2>2, Zenon
  <2> QED BY <1>4, <1>5, <2>2, <2>3, RemainsElements, Zenon
<1> QED BY <1>6, <1>7, <1>8, <1>9, <1>10, Zenon DEF xy, xz, yz

\* A connection breaks: an end of the frames on their way is lost.
LEMMA FramesLost ==
    ASSUME NEW s \in Seq(Nat), CloseIsLast(s), NEW k \in 0..Len(s)
    PROVE  /\ SubSeq(s, 1, k) \in Seq(Nat) /\ CloseIsLast(SubSeq(s, 1, k))
           /\ Closing(SubSeq(s, 1, k)) => Closing(s)
           /\ Chunks(s) \in Seq(Nat) /\ Chunks(SubSeq(s, 1, k)) \in Seq(Nat)
           /\ Remains(Chunks(SubSeq(s, 1, k)), Chunks(s))
<1> DEFINE t == SubSeq(s, 1, k)
           r == Chunks(s)
           n == Len(s)
<1>1. /\ n \in Nat /\ k \in 0..n /\ \A i \in 1..(n - 1) : s[i] \in Chunk
      /\ t \in Seq(Nat) /\ Len(t) = k /\ \A i \in 1..k : t[i] = s[i]
  BY LenProperties, BeginningElements DEF CloseIsLast
<1>2. /\ r \in Seq(Nat) /\ Len(r) \in Nat /\ n - 1 <= Len(r)
      /\ \A i \in 1..Len(r) : r[i] = s[i]
  <2>1. CASE r = s
    BY <1>1, <2>1
  <2>2. CASE s # <<>> /\ r = Front(s)
    <3>1. r \in Seq(Nat) /\ Len(r) = n - 1 /\ \A i \in 1..(n - 1) : r[i] = s[i]
      BY <2>2, FrontElements, Zenon
    <3>2. Len(r) \in Nat
      BY <3>1, LenProperties, Zenon
    <3> HIDE DEF n, r
    <3> QED BY <1>1, <3>1, <3>2
  <2> QED BY <2>1, <2>2, Zenon DEF Chunks
<1>3. CASE k = n
  <2>1. t = s
    BY <1>3, SubSeqFull, Zenon
  <2> QED BY <1>1, <1>2, <2>1, RemainsOfWay, Zenon
<1>4. CASE k < n
  <2> HIDE DEF t, r, n
  <2>1. \A i \in 1..k : t[i] \in Chunk
    <3>1. \A i \in 1..k : i \in 1..(n - 1)
      BY <1>1, <1>4
    <3> QED BY <1>1, <3>1, Zenon
  <2>2. CloseIsLast(t)
    BY <1>1, <2>1 DEF CloseIsLast
  <2>3. ~Closing(t)
    BY <1>1, <2>1, EmptySeq DEF Closing, Last, Chunk
  <2>4. Chunks(t) = t
    BY <2>3, Zenon DEF Chunks, Closing
  <2>5. k <= Len(r) /\ \A i \in 1..k : t[i] = r[i]
    <3> DEFINE m == Len(r)
    <3>1. m \in Nat /\ n - 1 <= m
      BY <1>2
    <3> HIDE DEF m
    <3>2. k <= m /\ \A i \in 1..k : i \in 1..m
      BY <1>1, <1>4, <3>1
    <3> QED BY <1>1, <1>2, <3>2, Zenon DEF m
  <2>6. Remains(t, r)
    BY <1>1, <1>2, <2>5, RemainsElements, Zenon
  <2> QED BY <1>1, <1>2, <2>2, <2>3, <2>4, <2>6, Zenon DEF t, r
<1> QED BY <1>1, <1>3, <1>4

\* The stages of the way, from left to right.
LEMMA WayAssociative ==
    \A x \in Seq(Nat), y \in Seq(Nat), z \in Seq(Nat) : (x \o y) \o z = x \o (y \o z)
<1> TAKE x \in Seq(Nat), y \in Seq(Nat), z \in Seq(Nat)
<1> QED BY ConcatAssociative, SMTT(60)

\* A chunk is written, or handed on to the next stage of the way.
LEMMA WayExtended ==
    ASSUME NEW x \in Seq(Nat), NEW y \in Seq(Nat), NEW w \in Nat
    PROVE  /\ x \o y \in Seq(Nat)
           /\ Append(x \o y, w) = x \o Append(y, w)
           /\ y # <<>> => Append(x, Head(y)) \o Tail(y) = x \o y
<1>1. /\ x \o y \in Seq(Nat) /\ <<w>> \in Seq(Nat)
  BY ConcatProperties, AppendProperties, EmptySeq
<1>2. Append(x \o y, w) = (x \o y) \o <<w>> /\ Append(y, w) = y \o <<w>>
  BY <1>1, AppendIsConcat, Zenon
<1>3. (x \o y) \o <<w>> = x \o (y \o <<w>>)
  <2> DEFINE e == <<w>>
  <2>1. e \in Seq(Nat)
    BY <1>1
  <2> HIDE DEF e
  <2>2. (x \o y) \o e = x \o (y \o e)
    BY <2>1, WayAssociative, Zenon
  <2> QED BY <2>2, Zenon DEF e
<1>4. ASSUME y # <<>> PROVE Append(x, Head(y)) \o Tail(y) = x \o y
  <2> DEFINE h == Head(y)
             t == Tail(y)
             e == <<h>>
  <2>1. h \in Nat /\ t \in Seq(Nat) /\ e \in Seq(Nat)
    BY <1>4, HeadTailProperties
  <2>2. y = e \o t
    <3> DEFINE n == Len(y)
               z == e \o t
    <3>1. /\ n \in Nat /\ n > 0 /\ h = y[1]
          /\ Len(t) = n - 1 /\ \A i \in 1..(n - 1) : t[i] = y[i + 1]
      BY <1>4, LenProperties, EmptySeq, HeadTailProperties
    <3>2. Len(e) = 1 /\ e[1] = h
      OBVIOUS
    <3>3. /\ z \in Seq(Nat) /\ Len(z) = Len(e) + Len(t)
          /\ \A i \in 1..(Len(e) + Len(t)) : z[i] = IF i <= Len(e) THEN e[i] ELSE t[i - Len(e)]
      BY <2>1, ConcatProperties, Zenon
    <3> HIDE DEF h, t, e, n, z
    <3>4. 1 + (n - 1) = n /\ \A i \in 1..n : i = 1 \/ (~(i <= 1) /\ i - 1 \in 1..(n - 1) /\ (i - 1) + 1 = i)
      BY <3>1
    <3>5. Len(z) = n /\ \A i \in 1..n : z[i] = IF i <= 1 THEN e[i] ELSE t[i - 1]
      BY <3>1, <3>2, <3>3, <3>4
    <3>6. 1 <= 1
      OBVIOUS
    <3>7. \A i \in 1..n : z[i] = y[i]
      <4> TAKE i \in 1..n
      <4>1. CASE i = 1
        BY <3>1, <3>2, <3>5, <3>6, <4>1, Zenon
      <4>2. CASE ~(i <= 1) /\ i - 1 \in 1..(n - 1) /\ (i - 1) + 1 = i
        <5>1. z[i] = t[i - 1] /\ t[i - 1] = y[(i - 1) + 1]
          BY <3>1, <3>5, <4>2, Zenon
        <5> QED BY <4>2, <5>1, Zenon
      <4> QED BY <3>4, <4>1, <4>2, Zenon
    <3>8. Len(y) = n
      BY DEF n
    <3>9. z = y
      BY <3>3, <3>5, <3>7, <3>8, SeqEqual, Zenon
    <3> QED BY <3>9, Zenon DEF z
  <2>3. Append(x, h) = x \o e
    BY <2>1, AppendIsConcat, Zenon
  <2>4. (x \o e) \o t = x \o (e \o t)
    <3> HIDE DEF e, t
    <3> QED BY <2>1, WayAssociative, Zenon
  <2> QED BY <2>2, <2>3, <2>4, Zenon
<1> QED BY <1>1, <1>2, <1>3, <1>4, Zenon

\* The first chunk of the way is delivered.
LEMMA WayShortened ==
    ASSUME NEW x \in Seq(Nat), NEW y \in Seq(Nat), x # <<>>
    PROVE  x \o y # <<>> /\ Head(x \o y) = Head(x) /\ Tail(x \o y) = Tail(x) \o y
<1> DEFINE h == Head(x)
           t == Tail(x)
           e == <<h>>
<1>1. h \in Nat /\ t \in Seq(Nat) /\ e \in Seq(Nat) /\ e # <<>>
  BY HeadTailProperties
<1>2. Append(<<>>, h) \o t = <<>> \o x /\ <<>> \o x = x /\ Append(<<>>, h) = e
  BY WayExtended, ConcatEmptySeq, EmptySeq
<1>3. x = e \o t
  BY <1>2
<1>4. (e \o t) \o y = e \o (t \o y)
  <2> HIDE DEF e, t
  <2> QED BY <1>1, WayAssociative, Zenon
<1> DEFINE z == t \o y
           ez == e \o z
           n == Len(z)
<1>5. z \in Seq(Nat) /\ n \in Nat
  BY <1>1, ConcatProperties, LenProperties
<1>6. Len(e) = 1 /\ e[1] = h
  OBVIOUS
<1>7. /\ ez \in Seq(Nat) /\ Len(ez) = Len(e) + n
      /\ \A i \in 1..(Len(e) + n) : ez[i] = IF i <= Len(e) THEN e[i] ELSE z[i - Len(e)]
  <2> HIDE DEF z
  <2> QED BY <1>1, <1>5, ConcatProperties, Zenon
<1>8. x \o y = ez
  BY <1>3, <1>4
<1> HIDE DEF h, t, e, z, ez, n
<1>9. Len(ez) = n + 1 /\ ez[1] = h /\ ez # <<>>
  BY <1>5, <1>6, <1>7, EmptySeq
<1>10. Head(ez) = h
  BY <1>7, <1>9
<1>11. Tail(ez) = z
  <2>1. Tail(ez) \in Seq(Nat) /\ Len(Tail(ez)) = Len(ez) - 1 /\ \A i \in 1..Len(Tail(ez)) : Tail(ez)[i] = ez[i + 1]
    BY <1>7, <1>9, HeadTailProperties, Zenon
  <2>2. Len(ez) - 1 = n
    BY <1>5, <1>9
  <2>3. \A i \in 1..n : i + 1 \in 1..(1 + n) /\ ~(i + 1 <= 1) /\ (i + 1) - 1 = i
    BY <1>5
  <2>4. \A i \in 1..n : Tail(ez)[i] = z[i]
    <3> TAKE i \in 1..n
    <3>1. Tail(ez)[i] = ez[i + 1]
      BY <2>1, <2>2, Zenon
    <3>2. ez[i + 1] = z[(i + 1) - 1]
      BY <1>6, <1>7, <2>3, ZenonT(40)
    <3> QED BY <2>3, <3>1, <3>2, Zenon
  <2> QED BY <1>5, <2>1, <2>2, <2>4, SeqEqual, Zenon DEF n
<1> QED BY <1>8, <1>9, <1>10, <1>11, Zenon DEF h, t, z

-----------------------------------------------------------------------------
(* The invariant.                                                          *)

\* What has happened to a stream stays so.
Lasts ==
    /\ relay = "gaveup" => relay' = "gaveup"
    /\ \A p \in Ends : /\ closed[p] => closed'[p]
                       /\ eof[p] => eof'[p]
                       /\ faulty[p] => faulty'[p]
                       /\ Gone(p) => Gone(p)'
                       /\ StreamCut(p) => StreamCut(p)'
                       /\ Drained(p) => Drained(p)'

\* The applications and a breaking connection undo nothing of it.
LEMMA AppsLast ==
    ASSUME PathInv, NEW p \in Ends, AppWrites(p) \/ AppCloses(p) \/ Break(p) PROVE Lasts
<1> USE DEF PathInv, Typed, Lasts, Gone, StreamCut, Drained, Other, Ends, appVars, clientVars, relayVars, wireVars
<1>1. CASE AppWrites(p)
  BY <1>1 DEF AppWrites, HasStream
<1>2. CASE AppCloses(p)
  BY <1>2 DEF AppCloses, HasStream
<1>3. CASE Break(p)
  BY <1>3 DEF Break
<1> QED BY <1>1, <1>2, <1>3

\* establish_relay_tunnel and its two tasks undo nothing of it: the downlink
\* task reports the end of the stream once.
LEMMA ClientLasts ==
    ASSUME PathInv, Establish \/ Uplink \/ Downlink PROVE Lasts
<1> USE DEF PathInv, Typed, ClientEnd, Lasts, Gone, StreamCut, Drained, Other, Ends, appVars, clientVars, relayVars, wireVars
<1>1. CASE Establish
  BY <1>1 DEF Establish, Dial, Redial, ConnectAck
<1>2. CASE UplinkForwards
  BY <1>2 DEF UplinkForwards
<1>3. CASE UplinkEnds
  BY <1>3 DEF UplinkEnds
<1>4. CASE DownlinkReads
  BY <1>4 DEF DownlinkReads, DownlinkStops
<1>5. CASE DownlinkEnds
  BY <1>5 DEF DownlinkEnds, DownlinkStops
<1> QED BY <1>1, <1>2, <1>3, <1>4, <1>5 DEF Uplink, Downlink

\* handle_tunnel undoes nothing of it: it reports the end of the stream once.
LEMMA ServerLasts ==
    ASSUME PathInv, Bridge PROVE Lasts
<1> USE DEF PathInv, Typed, ServerEnd, Lasts, Gone, StreamCut, Drained, Other, Ends, appVars, clientVars, relayVars, wireVars
<1>1. CASE ServerDials
  BY <1>1 DEF ServerDials
<1>2. CASE ServerConnects
  BY <1>2 DEF ServerConnects
<1>3. CASE ServerReads
  BY <1>3 DEF ServerReads, BridgeStops, BridgeGoesOn
<1>4. CASE ServerSends
  BY <1>4 DEF ServerSends, BridgeStops, BridgeGoesOn
<1>5. CASE ServerEnds
  BY <1>5 DEF ServerEnds, BridgeStops
<1> QED BY <1>1, <1>2, <1>3, <1>4, <1>5 DEF Bridge

\* The relay undoes nothing of it.
LEMMA RelayLasts ==
    ASSUME PathInv, Pairing \/ RemoveTunnel \/ \E p \in Ends : Forward(p) PROVE Lasts
<1> USE DEF PathInv, Typed, Lasts, Gone, StreamCut, Drained, Other, Ends, appVars, clientVars, relayVars, wireVars
<1>1. CASE Pairing \/ RemoveTunnel
  BY <1>1 DEF Pairing, RelayPairs, RelayGivesUp, RemoveTunnel
<1>2. CASE \E p \in Ends : Forward(p)
  <2>1. UNCHANGED <<wrote, closed, got, eof, up, server, relay, faulty>>
    BY <1>2 DEF Forward, ForwardData, ForwardClose, StreamEnds
  <2> QED BY <2>1
<1> QED BY <1>1, <1>2

\* The ways of frames after the sequence operations of the actions.
LEMMA WaysTyped ==
    ASSUME Typed, FramesEnd, NEW p \in Ends
    PROVE  /\ inbound[p] \in Seq(Nat) /\ out[p] \in Seq(Nat) /\ up[p] \in Seq(Chunk) /\ up[p] \in Seq(Nat)
           /\ CloseIsLast(inbound[p]) /\ CloseIsLast(out[p])
           /\ got[p] \in Seq(Nat) /\ wrote[p] \in Nat /\ wrote[p] + 1 \in Chunk
           /\ up[p] # <<>> => Head(up[p]) \in Chunk /\ Tail(up[p]) \in Seq(Chunk)
<1>1. /\ inbound[p] \in Seq(Nat) /\ out[p] \in Seq(Nat) /\ up[p] \in Seq(Chunk)
      /\ CloseIsLast(inbound[p]) /\ CloseIsLast(out[p])
      /\ got[p] \in Seq(Nat) /\ wrote[p] \in Nat
  BY DEF Typed, FramesEnd
<1>2. up[p] \in Seq(Nat)
  <2> DEFINE u == up[p]
  <2>1. u \in Seq(Chunk)
    BY <1>1
  <2>2. Chunk \subseteq Nat
    BY DEF Chunk
  <2> HIDE DEF u
  <2>3. u \in Seq(Nat)
    BY <2>1, <2>2, SeqMonotonic, Zenon
  <2> QED BY <2>3 DEF u
<1>3. wrote[p] + 1 \in Chunk
  BY <1>1 DEF Chunk, CloseFrame
<1>4. up[p] # <<>> => Head(up[p]) \in Chunk /\ Tail(up[p]) \in Seq(Chunk)
  BY <1>1, HeadTailProperties
<1> QED BY <1>1, <1>2, <1>3, <1>4

\* The initial state, with nothing on its way.
LEMMA InitPath == Init => PathInv
<1> SUFFICES ASSUME Init PROVE PathInv
  OBVIOUS
<1>1. <<>> \in Seq(Nat) /\ <<>> \in Seq(Chunk) /\ CloseIsLast(<<>>) /\ ~Closing(<<>>)
  BY EmptySeq DEF CloseIsLast, Closing
<1>2. Typed
  BY <1>1 DEF Init, Typed
<1>3. FramesEnd
  BY <1>1 DEF Init, FramesEnd
<1>4. ClientEnd /\ ServerEnd /\ RelayTasks
  BY <1>1 DEF Init, ClientEnd, ServerEnd, RelayTasks, Ends, Other
<1> QED BY <1>2, <1>3, <1>4 DEF PathInv

\* An application writes a chunk.
LEMMA AppWritesInv == ASSUME PathInv, NEW p \in Ends, AppWrites(p) PROVE PathInv'
<1> USE DEF Ends
<1>1. Lasts
  BY AppsLast
<1>2. Typed' /\ FramesEnd'
  <2>1. Append(up[p], wrote[p] + 1) \in Seq(Chunk)
    BY WaysTyped, AppendProperties DEF PathInv
  <2> QED BY <2>1 DEF PathInv, Typed, FramesEnd, AppWrites, clientVars, relayVars, wireVars
<1>3. ClientEnd' /\ ServerEnd'
  BY <1>1 DEF PathInv, ClientEnd, ServerEnd, AppWrites, Lasts, clientVars, wireVars, relayVars, HasStream, Gone
<1>4. RelayTasks'
  BY <1>1 DEF PathInv, RelayTasks, AppWrites, Lasts, clientVars, wireVars, relayVars, Other
<1> QED BY <1>2, <1>3, <1>4 DEF PathInv

\* An application drops its stream.
LEMMA AppClosesInv == ASSUME PathInv, NEW p \in Ends, AppCloses(p) PROVE PathInv'
<1> USE DEF Ends
<1>1. Lasts
  BY AppsLast
<1>2. Typed' /\ FramesEnd'
  BY DEF PathInv, Typed, FramesEnd, AppCloses, clientVars, relayVars, wireVars
<1>3. ClientEnd' /\ ServerEnd'
  BY <1>1 DEF PathInv, ClientEnd, ServerEnd, AppCloses, Lasts, clientVars, wireVars, relayVars, HasStream, Gone
<1>4. RelayTasks'
  BY <1>1 DEF PathInv, RelayTasks, AppCloses, Lasts, clientVars, wireVars, relayVars, Other
<1> QED BY <1>2, <1>3, <1>4 DEF PathInv

\* A websocket breaks and loses the end of what was on its way.
LEMMA BreakInv == ASSUME PathInv, NEW p \in Ends, Break(p) PROVE PathInv'
<1> USE DEF Ends
<1>1. Lasts
  BY AppsLast
<1>2. PICK i \in 0..Len(inbound[p]), j \in 0..Len(out[p]) :
          /\ inbound' = [inbound EXCEPT ![p] = SubSeq(@, 1, i)]
          /\ out' = [out EXCEPT ![p] = SubSeq(@, 1, j)]
  BY DEF Break
<1> DEFINE a == SubSeq(inbound[p], 1, i)
           b == SubSeq(out[p], 1, j)
<1>3. /\ a \in Seq(Nat) /\ CloseIsLast(a) /\ (Closing(a) => Closing(inbound[p]))
      /\ b \in Seq(Nat) /\ CloseIsLast(b) /\ (Closing(b) => Closing(out[p]))
  BY WaysTyped, FramesLost DEF PathInv
<1>4. inbound' = [inbound EXCEPT ![p] = a] /\ out' = [out EXCEPT ![p] = b]
  BY <1>2
<1> HIDE DEF a, b
<1>5. Typed' /\ FramesEnd'
  BY <1>3, <1>4 DEF PathInv, Typed, FramesEnd, Break, appVars, clientVars, relayVars, wireVars
<1>6. ClientEnd' /\ ServerEnd'
  BY <1>1, <1>3, <1>4 DEF PathInv, Typed, ClientEnd, ServerEnd, Break, Lasts, appVars, clientVars, wireVars, relayVars
<1>7. RelayTasks'
  BY <1>1, <1>3, <1>4 DEF PathInv, Typed, RelayTasks, Break, Lasts, clientVars, wireVars, relayVars, Other
<1> QED BY <1>5, <1>6, <1>7 DEF PathInv

\* The client dials, or reads connect_ack.
LEMMA EstablishInv == ASSUME PathInv, Establish PROVE PathInv'
<1>1. /\ client' # client => UNCHANGED <<wrote, closed, got, eof, up, uplink, downlink, server>>
      /\ UNCHANGED <<wrote, closed, got, eof, up, uplink, downlink, server,
                     link, inbound, out, task, relay, faulty>>
  BY DEF Establish, Dial, Redial, ConnectAck, appVars, wireVars, relayVars
<1> QED BY <1>1 DEF PathInv, Typed, FramesEnd, ClientEnd, ServerEnd, RelayTasks, StreamCut, Drained, Gone

\* The uplink task sends a chunk, or ends because it cannot.
LEMMA UplinkForwardsInv == ASSUME PathInv, UplinkForwards PROVE PathInv'
<1> USE DEF Ends
<1> DEFINE q == "client"
           t == Tail(up[q])
           s == Append(inbound[q], Head(up[q]))
<1>1. Lasts
  BY ClientLasts DEF Uplink
<1>2. /\ t \in Seq(Chunk) /\ s \in Seq(Nat) /\ CloseIsLast(s) /\ ~Closing(s)
      /\ up' = [up EXCEPT ![q] = t]
      /\ inbound' = inbound \/ inbound' = [inbound EXCEPT ![q] = s]
  <2>1. up[q] # <<>> /\ ~Closing(inbound[q])
    BY DEF UplinkForwards, PathInv, ClientEnd
  <2>2. t \in Seq(Chunk) /\ Head(up[q]) \in Nat /\ Head(up[q]) # CloseFrame
    BY <2>1, WaysTyped DEF PathInv, Chunk
  <2>3. s \in Seq(Nat) /\ CloseIsLast(s) /\ ~Closing(s)
    BY <2>1, <2>2, WaysTyped, FrameAppended DEF PathInv
  <2> QED BY <2>2, <2>3 DEF UplinkForwards
<1> HIDE DEF t, s
<1>3. Typed' /\ FramesEnd'
  <2>1. /\ UNCHANGED <<wrote, closed, got, eof, out, task, faulty, downlink>>
        /\ uplink' \in {"run", "done"}
        /\ link' = link \/ link' = [link EXCEPT !["client"] = "gone"]
    BY DEF UplinkForwards, EndTasks, appVars, relayVars
  <2>2. Typed'
    BY <1>2, <2>1 DEF PathInv, Typed
  <2>3. FramesEnd'
    BY <1>2, <2>1 DEF PathInv, Typed, FramesEnd
  <2> QED BY <2>2, <2>3
<1>4. ClientEnd' /\ ServerEnd'
  <2>1. Closing(inbound'[q]) => Closing(inbound[q])
    BY <1>2 DEF PathInv, Typed
  <2>2. inbound'["server"] = inbound["server"]
    BY <1>2 DEF PathInv, Typed
  <2>3. uplink' # "run" => Drained("client")
    BY DEF PathInv, Typed, ClientEnd, UplinkForwards, EndTasks, Drained, StreamCut
  <2> QED BY <1>1, <1>2, <2>1, <2>2, <2>3
          DEF PathInv, Typed, ClientEnd, ServerEnd, UplinkForwards, EndTasks, Lasts, appVars, relayVars
<1>5. RelayTasks'
  BY <1>1 DEF PathInv, RelayTasks, UplinkForwards, Lasts, appVars, relayVars, Other
<1> QED BY <1>3, <1>4, <1>5 DEF PathInv

\* The uplink task sends its Close frame, the only one it sends.
LEMMA UplinkEndsInv == ASSUME PathInv, UplinkEnds PROVE PathInv'
<1> USE DEF Ends
<1> DEFINE q == "client"
           s == Append(inbound[q], CloseFrame)
<1>1. Lasts
  BY ClientLasts DEF Uplink
<1>2. /\ s \in Seq(Nat) /\ CloseIsLast(s)
      /\ inbound' = inbound \/ inbound' = [inbound EXCEPT ![q] = s]
  <2>1. ~Closing(inbound[q])
    BY DEF UplinkEnds, PathInv, ClientEnd
  <2>2. s \in Seq(Nat) /\ CloseIsLast(s)
    BY <2>1, WaysTyped, FrameAppended DEF PathInv, CloseFrame
  <2> QED BY <2>2 DEF UplinkEnds
<1> HIDE DEF s
<1>3. Typed' /\ FramesEnd'
  BY <1>2 DEF PathInv, Typed, FramesEnd, UplinkEnds, EndTasks, appVars, clientVars, relayVars, wireVars
<1>4. ClientEnd' /\ ServerEnd'
  <2>1. inbound'["server"] = inbound["server"]
    BY <1>2 DEF PathInv, Typed
  <2> QED BY <1>1, <1>2, <2>1
          DEF PathInv, Typed, ClientEnd, ServerEnd, UplinkEnds, EndTasks, Lasts, Drained, appVars, relayVars
<1>5. RelayTasks'
  BY <1>1 DEF PathInv, RelayTasks, UplinkEnds, Lasts, appVars, relayVars, Other
<1> QED BY <1>3, <1>4, <1>5 DEF PathInv

\* The downlink task takes a frame: a Close frame says that the stream is cut.
LEMMA DownlinkReadsInv == ASSUME PathInv, DownlinkReads PROVE PathInv'
<1> USE DEF Ends
<1> DEFINE q == "client"
           f == Head(out[q])
           t == Tail(out[q])
           g == Append(got[q], f)
<1>1. Lasts
  BY ClientLasts DEF Downlink
<1>2. /\ t \in Seq(Nat) /\ CloseIsLast(t) /\ (Closing(t) => Closing(out[q])) /\ g \in Seq(Nat)
      /\ f = CloseFrame => Closing(out[q])
  BY WaysTyped, FrameTaken, AppendProperties DEF PathInv, DownlinkReads, IsData
<1>3. out' = [out EXCEPT ![q] = t] /\ (got' = got \/ got' = [got EXCEPT ![q] = g])
  BY DEF DownlinkReads
<1>4. /\ uplink' = uplink
      /\ \/ downlink' = downlink /\ link' = link /\ eof' = eof
         \/ /\ downlink' \in {"done", "closed"} /\ (downlink' = "closed" => f = CloseFrame)
            /\ link' = IF uplink # "run" THEN [link EXCEPT ![q] = "gone"] ELSE link
            /\ eof' = [eof EXCEPT ![q] = ~closed[q]]
  BY DEF DownlinkReads, DownlinkStops, EndTasks, IsData
<1> HIDE DEF f, t, g
<1>5. Typed' /\ FramesEnd'
  <2>1. UNCHANGED <<wrote, closed, up, inbound, task, faulty>>
    BY DEF DownlinkReads, relayVars
  <2>2. Typed'
    <3>1. got' \in [Ends -> Seq(Nat)] /\ out' \in [Ends -> Seq(Nat)]
      BY <1>2, <1>3 DEF PathInv, Typed
    <3>2. eof' \in [Ends -> BOOLEAN]
      BY <1>4 DEF PathInv, Typed
    <3>3. link' \in [Ends -> {"open", "gone"}]
      BY <1>4 DEF PathInv, Typed
    <3> QED BY <1>4, <2>1, <3>1, <3>2, <3>3 DEF PathInv, Typed
  <2>3. FramesEnd'
    BY <1>2, <1>3, <2>1 DEF PathInv, Typed, FramesEnd
  <2> QED BY <2>2, <2>3
<1>6. f = CloseFrame => StreamCut("client")
  BY <1>2 DEF PathInv, RelayTasks, Other, StreamCut, Gone
<1>7. ClientEnd' /\ ServerEnd'
  BY <1>1, <1>4, <1>6 DEF PathInv, Typed, ClientEnd, ServerEnd, DownlinkReads, Lasts, relayVars
<1>8. RelayTasks'
  BY <1>1, <1>2, <1>3 DEF PathInv, Typed, RelayTasks, DownlinkReads, Lasts, relayVars, Other
<1> QED BY <1>5, <1>7, <1>8 DEF PathInv

\* The downlink task finds its websocket at its end.
LEMMA DownlinkEndsInv == ASSUME PathInv, DownlinkEnds PROVE PathInv'
<1> USE DEF Ends
<1>1. Lasts
  BY ClientLasts DEF Downlink
<1>2. Typed' /\ FramesEnd'
  BY DEF PathInv, Typed, FramesEnd, DownlinkEnds, DownlinkStops, EndTasks, relayVars
<1>3. ClientEnd' /\ ServerEnd'
  BY <1>1 DEF PathInv, Typed, ClientEnd, ServerEnd, DownlinkEnds, DownlinkStops, EndTasks, Lasts, relayVars
<1>4. RelayTasks'
  BY <1>1 DEF PathInv, RelayTasks, DownlinkEnds, Lasts, relayVars, Other
<1> QED BY <1>2, <1>3, <1>4 DEF PathInv

\* handle_tunnel dials the relay and the local port.
LEMMA ServerDialsInv == ASSUME PathInv, ServerDials \/ ServerConnects PROVE PathInv'
<1> USE DEF Ends
<1>1. Lasts
  BY ServerLasts DEF Bridge
<1>2. /\ UNCHANGED <<wrote, closed, got, eof, up, uplink, downlink, inbound, out, task, relay>>
      /\ server # "done"
      /\ \/ server' # "done" /\ link' = link /\ faulty' = faulty
         \/ /\ server' = "done" /\ link' = [link EXCEPT !["server"] = "gone"]
            /\ faulty' = [faulty EXCEPT !["server"] = TRUE]
  BY DEF ServerDials, ServerConnects, appVars, clientVars, relayVars, wireVars
<1>3. Typed' /\ FramesEnd'
  <2>1. faulty' \in [Ends -> BOOLEAN]
    BY <1>2 DEF PathInv, Typed
  <2>2. link' \in [Ends -> {"open", "gone"}]
    BY <1>2 DEF PathInv, Typed
  <2> QED BY <1>2, <2>1, <2>2 DEF PathInv, Typed, FramesEnd
<1>4. ClientEnd' /\ ServerEnd'
  BY <1>1, <1>2 DEF PathInv, Typed, ClientEnd, ServerEnd, Lasts, Gone
<1>5. RelayTasks'
  BY <1>1, <1>2 DEF PathInv, RelayTasks, Lasts, Other
<1> QED BY <1>3, <1>4, <1>5 DEF PathInv

\* ws_to_local takes a frame.
LEMMA ServerReadsInv == ASSUME PathInv, ServerReads PROVE PathInv'
<1> USE DEF Ends
<1> DEFINE q == "server"
           t == Tail(out[q])
           g == Append(got[q], Head(out[q]))
<1>1. Lasts
  BY ServerLasts DEF Bridge
<1>2. t \in Seq(Nat) /\ CloseIsLast(t) /\ (Closing(t) => Closing(out[q])) /\ g \in Seq(Nat)
  BY WaysTyped, FrameTaken, AppendProperties DEF PathInv, ServerReads
<1>3. /\ out' = [out EXCEPT ![q] = t] /\ (got' = got \/ got' = [got EXCEPT ![q] = g])
      /\ UNCHANGED <<wrote, closed, up, uplink, downlink, inbound, task, relay, faulty>>
      /\ \/ server' = server /\ link' = link /\ eof' = eof
         \/ /\ server' = "done" /\ link' = [link EXCEPT ![q] = "gone"]
            /\ eof' = [eof EXCEPT ![q] = ~closed[q]]
  BY DEF ServerReads, BridgeGoesOn, BridgeStops, clientVars, relayVars
<1> HIDE DEF t, g
<1>4. Typed'
  <2>1. got' \in [Ends -> Seq(Nat)] /\ out' \in [Ends -> Seq(Nat)]
    BY <1>2, <1>3 DEF PathInv, Typed
  <2>2. eof' \in [Ends -> BOOLEAN]
    <3> DEFINE b == ~closed[q]
    <3>1. eof \in [Ends -> BOOLEAN] /\ q \in Ends
      BY DEF PathInv, Typed
    <3>2. b \in BOOLEAN
      BY Zenon
    <3>3. eof' = eof \/ eof' = [eof EXCEPT ![q] = b]
      BY <1>3, Zenon
    <3> HIDE DEF b
    <3> QED BY <3>1, <3>2, <3>3
  <2>3. link' \in [Ends -> {"open", "gone"}]
    BY <1>3 DEF PathInv, Typed
  <2> QED BY <1>3, <2>1, <2>2, <2>3 DEF PathInv, Typed
<1>5. FramesEnd'
  BY <1>2, <1>3 DEF PathInv, Typed, FramesEnd
<1>6. ClientEnd' /\ ServerEnd'
  BY <1>1, <1>3 DEF PathInv, Typed, ClientEnd, ServerEnd, Lasts, Gone
<1>7. RelayTasks'
  BY <1>1, <1>2, <1>3 DEF PathInv, Typed, RelayTasks, Lasts, Other
<1> QED BY <1>4, <1>5, <1>6, <1>7 DEF PathInv

\* local_to_ws sends a chunk.
LEMMA ServerSendsInv == ASSUME PathInv, ServerSends PROVE PathInv'
<1> USE DEF Ends
<1> DEFINE q == "server"
           t == Tail(up[q])
           s == Append(inbound[q], Head(up[q]))
<1>1. Lasts
  BY ServerLasts DEF Bridge
<1>2. t \in Seq(Chunk) /\ s \in Seq(Nat) /\ CloseIsLast(s) /\ ~Closing(s)
  <2>1. up[q] # <<>> /\ ~Closing(inbound[q])
    BY DEF ServerSends, PathInv, ServerEnd
  <2>2. t \in Seq(Chunk) /\ Head(up[q]) \in Nat /\ Head(up[q]) # CloseFrame
    BY <2>1, WaysTyped DEF PathInv, Chunk
  <2>3. s \in Seq(Nat) /\ CloseIsLast(s) /\ ~Closing(s)
    BY <2>1, <2>2, WaysTyped, FrameAppended DEF PathInv
  <2> QED BY <2>2, <2>3
<1>3. /\ up' = [up EXCEPT ![q] = t] /\ (inbound' = inbound \/ inbound' = [inbound EXCEPT ![q] = s])
      /\ UNCHANGED <<wrote, closed, got, uplink, downlink, out, task, relay, faulty>>
      /\ \/ server' = server /\ link' = link /\ eof' = eof
         \/ /\ server' = "done" /\ link' = [link EXCEPT ![q] = "gone"]
            /\ eof' = [eof EXCEPT ![q] = ~closed[q]]
  BY DEF ServerSends, BridgeGoesOn, BridgeStops, clientVars, relayVars
<1> HIDE DEF t, s
<1>4. Typed'
  <2>1. up' \in [Ends -> Seq(Chunk)] /\ inbound' \in [Ends -> Seq(Nat)]
    BY <1>2, <1>3 DEF PathInv, Typed
  <2>2. eof' \in [Ends -> BOOLEAN]
    <3> DEFINE b == ~closed[q]
    <3>1. eof \in [Ends -> BOOLEAN] /\ q \in Ends
      BY DEF PathInv, Typed
    <3>2. b \in BOOLEAN
      BY Zenon
    <3>3. eof' = eof \/ eof' = [eof EXCEPT ![q] = b]
      BY <1>3, Zenon
    <3> HIDE DEF b
    <3> QED BY <3>1, <3>2, <3>3
  <2>3. link' \in [Ends -> {"open", "gone"}]
    BY <1>3 DEF PathInv, Typed
  <2> QED BY <1>3, <2>1, <2>2, <2>3 DEF PathInv, Typed
<1>5. FramesEnd'
  BY <1>2, <1>3 DEF PathInv, Typed, FramesEnd
<1>6. ClientEnd' /\ ServerEnd'
  <2>1. inbound'["client"] = inbound["client"] /\ ~Closing(inbound'["server"])
    BY <1>2, <1>3 DEF PathInv, Typed, ServerEnd
  <2> QED BY <1>1, <1>3, <2>1 DEF PathInv, Typed, ClientEnd, ServerEnd, Lasts, Gone
<1>7. RelayTasks'
  BY <1>1, <1>3 DEF PathInv, RelayTasks, Lasts, Other
<1> QED BY <1>4, <1>5, <1>6, <1>7 DEF PathInv

\* One arm of the select! ends.
LEMMA ServerEndsInv == ASSUME PathInv, ServerEnds PROVE PathInv'
<1> USE DEF Ends
<1>1. Lasts
  BY ServerLasts DEF Bridge
<1>2. /\ UNCHANGED <<wrote, closed, got, up, uplink, downlink, inbound, out, task, relay, faulty>>
      /\ server' = "done" /\ link' = [link EXCEPT !["server"] = "gone"]
      /\ eof' = [eof EXCEPT !["server"] = ~closed["server"]]
  BY DEF ServerEnds, BridgeStops, clientVars, relayVars
<1>3. Typed' /\ FramesEnd'
  BY <1>2 DEF PathInv, Typed, FramesEnd
<1>4. ClientEnd' /\ ServerEnd'
  BY <1>1, <1>2 DEF PathInv, Typed, ClientEnd, ServerEnd, Lasts, Gone
<1>5. RelayTasks'
  BY <1>1, <1>2 DEF PathInv, RelayTasks, Lasts, Other
<1> QED BY <1>3, <1>4, <1>5 DEF PathInv

\* The relay pairs the websockets, gives up or removes the tunnel.
LEMMA PairingInv == ASSUME PathInv, Pairing \/ RemoveTunnel PROVE PathInv'
<1> USE DEF Ends
<1> DEFINE c == <<CloseFrame>>
<1>1. Lasts
  BY RelayLasts
<1>2. c \in Seq(Nat) /\ CloseIsLast(c)
  BY DEF CloseIsLast, CloseFrame
<1>3. /\ UNCHANGED <<wrote, closed, got, eof, up, uplink, downlink, server, link, inbound, task, faulty>>
      /\ \/ out' = out /\ relay' # "gaveup" /\ relay # "gaveup"
         \/ relay' = "gaveup" /\ out' = [p \in Ends |-> IF Ready(p) /\ link[p] = "open" THEN c ELSE out[p]]
  BY DEF Pairing, RelayPairs, RelayGivesUp, RemoveTunnel, appVars, clientVars, wireVars
<1> HIDE DEF c
<1>4. Typed' /\ FramesEnd'
  BY <1>2, <1>3 DEF PathInv, Typed, FramesEnd
<1>5. ClientEnd' /\ ServerEnd'
  BY <1>1, <1>3 DEF PathInv, ClientEnd, ServerEnd, Lasts
<1>6. RelayTasks'
  BY <1>1, <1>3 DEF PathInv, RelayTasks, Lasts, Other
<1> QED BY <1>4, <1>5, <1>6 DEF PathInv

\* An end whose connection has gone has gone itself, and has sent all it had
\* to send or was cut off.
LEMMA GoneWithLink ==
    ASSUME PathInv, NEW p \in Ends, link[p] = "gone" PROVE Gone(p) /\ Drained(p)
<1> USE DEF Ends, PathInv, Typed, Gone, Drained, StreamCut, Other
<1>1. CASE p = "client"
  BY <1>1 DEF ClientEnd
<1>2. CASE p = "server"
  BY <1>2 DEF ServerEnd
<1> QED BY <1>1, <1>2

\* The forwarding task that reads from p sends f on to the other end.
LEMMA FrameSent ==
    ASSUME PathInv, NEW p \in Ends, TaskReads(p), NEW f \in Nat,
           Write(Other(p), f) \/ UNCHANGED out
    PROVE  /\ out' \in [Ends -> Seq(Nat)] /\ \A q \in Ends : CloseIsLast(out'[q])
           /\ \A q \in Ends : Closing(out'[q]) => \/ Closing(out[q])
                                                  \/ q = Other(p) /\ f = CloseFrame
<1> USE DEF Ends
<1> DEFINE q == Other(p)
           s == Append(out[q], f)
<1>1. q \in Ends /\ Other(q) = p
  BY DEF Other
<1>2. ~Closing(out[q])
  BY <1>1 DEF PathInv, RelayTasks, TaskReads
<1>3. s \in Seq(Nat) /\ CloseIsLast(s) /\ (Closing(s) <=> f = CloseFrame)
  <2> HIDE DEF q
  <2> QED BY <1>1, <1>2, WaysTyped, FrameAppended DEF PathInv
<1>4. out' = out \/ out' = [out EXCEPT ![q] = s]
  BY DEF Write
<1> HIDE DEF q, s
<1>5. out \in [Ends -> Seq(Nat)] /\ \A r \in Ends : CloseIsLast(out[r])
  BY DEF PathInv, Typed, FramesEnd
<1> QED BY <1>1, <1>3, <1>4, <1>5 DEF q

\* A frame is taken by the task that reads from p.
LEMMA FrameRead ==
    ASSUME PathInv, NEW p \in Ends, inbound[p] # <<>>,
           inbound' = [inbound EXCEPT ![p] = Tail(@)]
    PROVE  /\ inbound' \in [Ends -> Seq(Nat)] /\ \A q \in Ends : CloseIsLast(inbound'[q])
           /\ \A q \in Ends : Closing(inbound'[q]) => Closing(inbound[q])
           /\ Head(inbound[p]) \in Nat
           /\ ~IsData(Head(inbound[p])) => Closing(inbound[p])
<1> DEFINE s == inbound[p]
           t == Tail(s)
<1>1. /\ t \in Seq(Nat) /\ CloseIsLast(t) /\ (Closing(t) => Closing(s))
      /\ Head(s) \in Nat /\ (~IsData(Head(s)) => Closing(s))
  BY WaysTyped, FrameTaken DEF PathInv
<1>2. inbound' = [inbound EXCEPT ![p] = t]
  OBVIOUS
<1> HIDE DEF t
<1>3. inbound \in [Ends -> Seq(Nat)] /\ \A r \in Ends : CloseIsLast(inbound[r])
  BY DEF PathInv, Typed, FramesEnd
<1>4. inbound' \in [Ends -> Seq(Nat)]
  BY <1>1, <1>2, <1>3
<1>5. \A q \in Ends : inbound'[q] = IF q = p THEN t ELSE inbound[q]
  BY <1>2, <1>3
<1> QED BY <1>1, <1>3, <1>4, <1>5

\* forward_stream sends a frame on, fails or ends.
LEMMA ForwardInv == ASSUME PathInv, NEW p \in Ends, Forward(p) PROVE PathInv'
<1> USE DEF Ends
<1> DEFINE q == Other(p)
<1>0. q \in Ends /\ Other(q) = p /\ q # p
  BY DEF Other
<1>1. Lasts
  BY RelayLasts
<1>2. /\ UNCHANGED <<wrote, closed, got, eof, up, uplink, downlink, server, link, relay, faulty>>
      /\ TaskReads(p)
  BY DEF Forward, ForwardData, ForwardClose, StreamEnds, appVars, clientVars
<1>3. /\ inbound' \in [Ends -> Seq(Nat)] /\ \A r \in Ends : CloseIsLast(inbound'[r])
      /\ \A r \in Ends : Closing(inbound'[r]) => Closing(inbound[r])
  <2>1. CASE inbound' = inbound
    BY <2>1 DEF PathInv, Typed, FramesEnd
  <2>2. CASE inbound[p] # <<>> /\ inbound' = [inbound EXCEPT ![p] = Tail(@)]
    BY <2>2, FrameRead
  <2> QED BY <2>1, <2>2 DEF Forward, ForwardData, ForwardClose, StreamEnds
<1>4. CASE ForwardData(p)
  <2>1. Head(inbound[p]) \in Nat /\ Head(inbound[p]) # CloseFrame
    BY <1>4, FrameRead DEF ForwardData, IsData
  <2>2. /\ out' \in [Ends -> Seq(Nat)] /\ \A r \in Ends : CloseIsLast(out'[r])
        /\ \A r \in Ends : Closing(out'[r]) => Closing(out[r])
    BY <1>4, <2>1, FrameSent DEF ForwardData
  <2>3. task' = task \/ (task' = [task EXCEPT ![p] = "failed"] /\ Gone(q))
    <3>1. WriteFails(q) => Gone(q)
      BY <1>0, GoneWithLink DEF WriteFails, PathInv, RelayTasks
    <3> QED BY <1>4, <3>1 DEF ForwardData
  <2>4. Typed' /\ FramesEnd'
    BY <1>2, <1>3, <2>2, <2>3 DEF PathInv, Typed, FramesEnd
  <2>5. ClientEnd' /\ ServerEnd'
    BY <1>1, <1>2, <1>3 DEF PathInv, ClientEnd, ServerEnd, Lasts
  <2>6. RelayTasks'
    BY <1>1, <1>2, <2>2, <2>3 DEF PathInv, Typed, RelayTasks, Lasts, Other, TaskReads
  <2> QED BY <2>4, <2>5, <2>6 DEF PathInv
<1>5. CASE ForwardClose(p) \/ StreamEnds(p)
  <2>1. task' = [task EXCEPT ![p] = "ended"] /\ Gone(p) /\ Drained(p)
    <3>1. CASE ForwardClose(p)
      <4>1. Closing(inbound[p])
        BY <3>1, FrameRead DEF ForwardClose
      <4>2. p = "client" /\ closed[p] /\ Drained(p)
        BY <4>1 DEF PathInv, ClientEnd, ServerEnd
      <4> QED BY <3>1, <4>2 DEF ForwardClose, Gone
    <3>2. CASE StreamEnds(p)
      BY <3>2, GoneWithLink DEF StreamEnds
    <3> QED BY <1>5, <3>1, <3>2
  <2>2. /\ out' \in [Ends -> Seq(Nat)] /\ \A r \in Ends : CloseIsLast(out'[r])
        /\ \A r \in Ends : Closing(out'[r]) => Closing(out[r]) \/ r = q
    <3>1. CloseFrame \in Nat
      BY DEF CloseFrame
    <3>2. Write(Other(p), CloseFrame) \/ UNCHANGED out
      BY <1>5 DEF ForwardClose, StreamEnds
    <3> QED BY <1>2, <3>1, <3>2, FrameSent
  <2>3. Typed' /\ FramesEnd'
    BY <1>2, <1>3, <2>1, <2>2 DEF PathInv, Typed, FramesEnd
  <2>4. ClientEnd' /\ ServerEnd'
    BY <1>1, <1>2, <1>3 DEF PathInv, ClientEnd, ServerEnd, Lasts
  <2>5. RelayTasks'
    BY <1>1, <1>2, <2>1, <2>2 DEF PathInv, Typed, RelayTasks, Lasts, Other, TaskReads
  <2> QED BY <2>3, <2>4, <2>5 DEF PathInv
<1> QED BY <1>4, <1>5 DEF Forward

\* Every step keeps the invariant.
LEMMA PathInvStep == PathInv /\ [Next]_vars => PathInv'
<1> SUFFICES ASSUME PathInv, [Next]_vars PROVE PathInv'
  OBVIOUS
<1>1. CASE UNCHANGED vars
  BY <1>1 DEF vars, appVars, clientVars, relayVars, wireVars, PathInv, Typed, FramesEnd,
              ClientEnd, ServerEnd, RelayTasks, StreamCut, Drained, Gone
<1>2. CASE Next
  BY <1>2, AppWritesInv, AppClosesInv, BreakInv, EstablishInv, UplinkForwardsInv, UplinkEndsInv,
     DownlinkReadsInv, DownlinkEndsInv, ServerDialsInv, ServerReadsInv, ServerSendsInv,
     ServerEndsInv, PairingInv, ForwardInv
     DEF Next, Uplink, Downlink, Bridge
<1> QED BY <1>1, <1>2

\* Every step keeps what is said of connections that have ended.
LEMMA LinksEndStep == PathInv /\ LinksEnd /\ [Next]_vars => LinksEnd'
<1> SUFFICES ASSUME PathInv, LinksEnd, [Next]_vars PROVE LinksEnd'
  OBVIOUS
<1> USE DEF PathInv, Typed, LinksEnd, Ends, appVars, clientVars, relayVars, wireVars
<1>1. CASE UNCHANGED vars
  BY <1>1 DEF vars
<1>2. CASE \E p \in Ends : AppWrites(p) \/ AppCloses(p)
  BY <1>2 DEF AppWrites, AppCloses
<1>3. CASE \E p \in Ends : Break(p)
  BY <1>3 DEF Break
<1>4. CASE Establish
  BY <1>4 DEF Establish, Dial, Redial, ConnectAck
<1>5. CASE Uplink
  BY <1>5 DEF Uplink, UplinkForwards, UplinkEnds, EndTasks
<1>6. CASE DownlinkReads
  BY <1>6 DEF DownlinkReads, DownlinkStops, EndTasks, ClientEnd
<1>7. CASE DownlinkEnds
  BY <1>7 DEF DownlinkEnds, DownlinkStops, EndTasks, ClientEnd, StreamOver
<1>8. CASE ServerDials \/ ServerConnects
  BY <1>8 DEF ServerDials, ServerConnects
<1>9. CASE ServerReads
  BY <1>9 DEF ServerReads, BridgeStops, BridgeGoesOn
<1>10. CASE ServerSends \/ ServerEnds
  BY <1>10 DEF ServerSends, ServerEnds, BridgeStops, BridgeGoesOn
<1>11. CASE Pairing \/ RemoveTunnel
  BY <1>11 DEF Pairing, RelayPairs, RelayGivesUp, RemoveTunnel
<1>12. CASE \E p \in Ends : Forward(p)
  BY <1>12 DEF Forward, ForwardData, ForwardClose, StreamEnds, TaskReads
<1> QED BY <1>1, <1>2, <1>3, <1>4, <1>5, <1>6, <1>7, <1>8, <1>9, <1>10, <1>11, <1>12 DEF Next, Downlink, Bridge

\* What the ends of the five tasks of the three programs say of each other, in
\* every reachable state.
THEOREM PathInvariant == Spec => [](PathInv /\ LinksEnd)
<1>1. Init => LinksEnd
  BY DEF Init, LinksEnd
<1> QED BY <1>1, InitPath, PathInvStep, LinksEndStep, PTL DEF Spec

-----------------------------------------------------------------------------
(* The refinement.                                                         *)

\* The stream that p writes and the other end reads.
Stream(p) == INSTANCE TunnelStream
               WITH wrote <- wrote[p], flight <- Flight(p), got <- got[Other(p)],
                    closed <- closed[p], cut <- StreamCut(p), ended <- eof[Other(p)]

StreamMoves(p) == [Stream(p)!Next]_(Stream(p)!streamVars)

\* The writer's side of the stream is as it was.
Quiet(p) == wrote'[p] = wrote[p] /\ closed'[p] = closed[p]
\* Nobody has received anything from p.
Silent(p) == Quiet(p) /\ got'[Other(p)] = got[Other(p)] /\ eof'[Other(p)] = eof[Other(p)]

\* Each step of a stream, from what is seen of it.
LEMMA StreamSteps ==
    ASSUME NEW p \in Ends
    PROVE  /\ Silent(p) /\ Flight(p)' = Flight(p) /\ (StreamCut(p)' <=> StreamCut(p)) => StreamMoves(p)
           /\ Silent(p) /\ Remains(Flight(p)', Flight(p)) /\ StreamCut(p)' => StreamMoves(p)
           /\ /\ Quiet(p) /\ got'[Other(p)] = got[Other(p)]
              /\ ~eof[Other(p)] /\ eof'[Other(p)] = TRUE /\ Flight(p)' = <<>> /\ StreamCut(p)'
              /\ StreamCut(p) \/ (closed[p] /\ Flight(p) = <<>>)
              => StreamMoves(p)
           /\ /\ Quiet(p) /\ eof'[Other(p)] = eof[Other(p)] /\ ~eof[Other(p)]
              /\ Flight(p) # <<>> /\ Flight(p)' = Tail(Flight(p))
              /\ got'[Other(p)] = Append(got[Other(p)], Head(Flight(p)))
              /\ StreamCut(p)' <=> StreamCut(p)
              => StreamMoves(p)
<1>1. ASSUME Silent(p), Flight(p)' = Flight(p), StreamCut(p)' <=> StreamCut(p) PROVE StreamMoves(p)
  <2>1. StreamCut(p)' = StreamCut(p)
    BY <1>1 DEF StreamCut
  <2>2. UNCHANGED Stream(p)!streamVars
    BY <1>1, <2>1 DEF Stream!streamVars, Silent, Quiet
  <2> QED BY <2>2 DEF StreamMoves
<1>2. ASSUME Silent(p), Remains(Flight(p)', Flight(p)), StreamCut(p)' PROVE StreamMoves(p)
  <2>1. Stream(p)!Cut
    BY <1>2 DEF Stream!Cut, Silent, Quiet, Remains
  <2> QED BY <2>1 DEF StreamMoves, Stream!Next
<1>3. ASSUME Quiet(p), got'[Other(p)] = got[Other(p)],
             ~eof[Other(p)], eof'[Other(p)] = TRUE, Flight(p)' = <<>>, StreamCut(p)',
             StreamCut(p) \/ (closed[p] /\ Flight(p) = <<>>)
      PROVE  StreamMoves(p)
  <2>1. Stream(p)!End
    BY <1>3 DEF Stream!End, Quiet
  <2> QED BY <2>1 DEF StreamMoves, Stream!Next
<1>4. ASSUME Quiet(p), eof'[Other(p)] = eof[Other(p)], ~eof[Other(p)],
             Flight(p) # <<>>, Flight(p)' = Tail(Flight(p)),
             got'[Other(p)] = Append(got[Other(p)], Head(Flight(p))),
             StreamCut(p)' <=> StreamCut(p)
      PROVE  StreamMoves(p)
  <2>1. StreamCut(p)' = StreamCut(p)
    BY <1>4 DEF StreamCut
  <2>2. Stream(p)!Deliver
    BY <1>4, <2>1 DEF Stream!Deliver, Quiet
  <2> QED BY <2>2 DEF StreamMoves, Stream!Next
<1> QED BY <1>1, <1>2, <1>3, <1>4

\* The parts of a way that a cut leaves.
LEMMA WayCut ==
    ASSUME NEW x \in Seq(Nat), NEW y \in Seq(Nat), NEW z \in Seq(Nat)
    PROVE  /\ Remains(<<>>, (x \o y) \o z)
           /\ Remains((x \o y) \o <<>>, (x \o y) \o z)
           /\ \A v \in Seq(Nat) : /\ Remains(v, x) => Remains((v \o <<>>) \o <<>>, (x \o y) \o z)
                                  /\ Remains(v, y) => Remains((x \o v) \o <<>>, (x \o y) \o z)
<1>1. x \o y \in Seq(Nat) /\ (x \o y) \o z \in Seq(Nat) /\ <<>> \in Seq(Nat)
  BY ConcatProperties, EmptySeq
<1>2. Remains(<<>>, (x \o y) \o z)
  BY <1>1, RemainsOfWay, Zenon
<1>3. (x \o y) \o <<>> = x \o y /\ Remains(x \o y, (x \o y) \o z)
  BY <1>1, RemainsOfWay, ConcatEmptySeq, Zenon
<1>4. ASSUME NEW v \in Seq(Nat), Remains(v, x) PROVE Remains((v \o <<>>) \o <<>>, (x \o y) \o z)
  <2>1. v \o <<>> = v
    BY ConcatEmptySeq, Zenon
  <2>2. Remains(v, x \o y)
    BY <1>4, RemainsOfWay, Zenon
  <2>3. Remains(v, (x \o y) \o z)
    BY <1>1, <2>2, RemainsOfWay, Zenon
  <2> QED BY <2>1, <2>3, Zenon
<1>5. ASSUME NEW v \in Seq(Nat), Remains(v, y) PROVE Remains((x \o v) \o <<>>, (x \o y) \o z)
  <2>1. x \o v \in Seq(Nat)
    BY ConcatProperties, Zenon
  <2>2. (x \o v) \o <<>> = x \o v
    BY <2>1, ConcatEmptySeq, Zenon
  <2>3. Remains(x \o v, x \o y)
    BY <1>5, RemainsOfWay, Zenon
  <2>4. Remains(x \o v, (x \o y) \o z)
    BY <1>1, <2>1, <2>3, RemainsOfWay, Zenon
  <2> QED BY <2>2, <2>4, Zenon
<1> QED BY <1>2, <1>3, <1>4, <1>5, Zenon

\* The three stages of a way hold chunks.
LEMMA FlightTyped ==
    ASSUME PathInv, NEW p \in Ends
    PROVE  /\ Other(p) \in Ends /\ Other(Other(p)) = p
           /\ Chunks(out[Other(p)]) \in Seq(Nat) /\ Chunks(inbound[p]) \in Seq(Nat)
           /\ OnWay(p) \in Seq(Nat) /\ Kept(p) \in Seq(Nat) /\ Flight(p) \in Seq(Nat)
<1>1. Other(p) \in Ends /\ Other(Other(p)) = p
  BY DEF Ends, Other
<1>2. \A s \in Seq(Nat) : CloseIsLast(s) => Chunks(s) \in Seq(Nat)
  <2> SUFFICES ASSUME NEW s \in Seq(Nat), CloseIsLast(s) PROVE Chunks(s) \in Seq(Nat)
    OBVIOUS
  <2>1. 0 \in 0..Len(s)
    BY LenProperties
  <2> QED BY <2>1, FramesLost
<1>3. Chunks(out[Other(p)]) \in Seq(Nat) /\ Chunks(inbound[p]) \in Seq(Nat) /\ up[p] \in Seq(Nat)
  BY <1>1, <1>2, WaysTyped DEF PathInv
<1>4. <<>> \in Seq(Nat)
  BY EmptySeq
<1>5. OnWay(p) \in Seq(Nat) /\ Kept(p) \in Seq(Nat)
  BY <1>3, <1>4, Zenon DEF OnWay, Kept
<1>6. (Chunks(out[Other(p)]) \o OnWay(p)) \o Kept(p) \in Seq(Nat)
  BY <1>3, <1>5, WayExtended, Zenon
<1> QED BY <1>1, <1>3, <1>4, <1>5, <1>6, Zenon DEF Flight

\* Writing and closing are steps of the stream of the one who does it; a reader
\* that closes its end cuts the stream towards it.
LEMMA AppWritesStream ==
    ASSUME PathInv, NEW p \in Ends, AppWrites(p), NEW r \in Ends PROVE StreamMoves(r)
<1> DEFINE q == Other(r)
           w == wrote[r] + 1
<1>1. /\ wrote' = [wrote EXCEPT ![p] = @ + 1] /\ up' = [up EXCEPT ![p] = Append(@, wrote[p] + 1)]
      /\ ~closed[p] /\ (p = "server" => server = "run")
      /\ UNCHANGED <<closed, got, eof, server, link, inbound, out, task, relay, faulty>>
  BY DEF AppWrites, HasStream, Ends, wireVars, relayVars
<1>2. StreamCut(r)' <=> StreamCut(r)
  BY <1>1 DEF StreamCut, PathInv, Typed, Ends, Other
<1>3. OnWay(r)' = OnWay(r) /\ Chunks(out[q])' = Chunks(out[q])
  BY <1>1 DEF OnWay, Chunks
<1>4. CASE r # p
  <2>1. wrote'[r] = wrote[r] /\ up'[r] = up[r]
    BY <1>1, <1>4 DEF PathInv, Typed
  <2>2. Kept(r)' = Kept(r)
    BY <1>2, <2>1 DEF Kept
  <2>3. Flight(r)' = Flight(r)
    BY <1>1, <1>3, <2>2 DEF Flight
  <2> QED BY <1>1, <1>2, <2>1, <2>3, StreamSteps DEF Silent, Quiet
<1>5. CASE r = p
  <2>1. wrote'[r] = w /\ up'[r] = Append(up[r], w) /\ w \in Nat
    BY <1>1, <1>5 DEF PathInv, Typed
  <2>2. Flight(r)' = IF StreamCut(r) THEN Flight(r) ELSE Append(Flight(r), w)
    <3>1. CASE StreamCut(r)
      BY <1>1, <1>2, <1>3, <3>1 DEF Flight, Kept
    <3>2. CASE ~StreamCut(r)
      <4>1. ~eof[q] /\ ~closed[q]
        BY <3>2 DEF StreamCut
      <4>2. Kept(r) = up[r] /\ Kept(r)' = Append(up[r], w)
        BY <1>2, <2>1, <3>2 DEF Kept
      <4> DEFINE x == Chunks(out[q]) \o OnWay(r)
      <4>3. x \in Seq(Nat) /\ up[r] \in Seq(Nat)
        BY <4>2, FlightTyped, WayExtended
      <4>4. Flight(r) = x \o up[r] /\ Flight(r)' = x \o Append(up[r], w)
        BY <1>1, <1>3, <4>1, <4>2 DEF Flight
      <4> HIDE DEF x
      <4>5. Append(x \o up[r], w) = x \o Append(up[r], w)
        BY <2>1, <4>3, WayExtended, Zenon
      <4> QED BY <3>2, <4>4, <4>5, Zenon
    <3> QED BY <3>1, <3>2
  <2>3. StreamCut(r)' = StreamCut(r)
    BY <1>2 DEF StreamCut
  <2>4. Stream(r)!Write
    <3> HIDE DEF w
    <3> QED BY <1>1, <1>5, <2>1, <2>2, <2>3 DEF Stream!Write, w
  <2> QED BY <2>4 DEF StreamMoves, Stream!Next
<1> QED BY <1>4, <1>5

\* Dropping the stream closes the one direction and cuts the other.
LEMMA AppClosesStream ==
    ASSUME PathInv, NEW p \in Ends, AppCloses(p), NEW r \in Ends PROVE StreamMoves(r)
<1> DEFINE q == Other(r)
<1>1. /\ closed' = [closed EXCEPT ![p] = TRUE] /\ ~closed[p]
      /\ UNCHANGED <<wrote, got, eof, up, server, link, inbound, out, task, relay, faulty>>
  BY DEF AppCloses, wireVars, relayVars
<1>2. CASE r = p
  <2>1. q # r /\ q \in Ends
    BY DEF Other, Ends
  <2>2. closed'[q] = closed[q] /\ closed'[r] = TRUE
    BY <1>1, <1>2, <2>1 DEF PathInv, Typed
  <2>3. StreamCut(r)' = StreamCut(r)
    BY <1>1, <2>2 DEF StreamCut
  <2>4. Flight(r)' = Flight(r)
    BY <1>1, <2>2, <2>3 DEF Flight, OnWay, Kept, Chunks
  <2>5. Stream(r)!Close
    BY <1>1, <1>2, <2>2, <2>3, <2>4 DEF Stream!Close
  <2> QED BY <2>5 DEF StreamMoves, Stream!Next
<1>3. CASE r # p
  <2>1. q = p
    BY <1>3 DEF Other, Ends
  <2>2. closed'[q] /\ closed'[r] = closed[r]
    BY <1>1, <1>3, <2>1 DEF PathInv, Typed
  <2>3. StreamCut(r)' /\ Flight(r)' = <<>>
    BY <2>2 DEF StreamCut, Flight
  <2>4. Remains(<<>>, Flight(r))
    BY FlightTyped, RemainsOfWay, Zenon
  <2> QED BY <1>1, <2>2, <2>3, <2>4, StreamSteps DEF Silent, Quiet
<1> QED BY <1>2, <1>3

\* A connection that breaks cuts both streams.
LEMMA BreakStream ==
    ASSUME PathInv, NEW p \in Ends, Break(p), NEW r \in Ends PROVE StreamMoves(r)
<1> DEFINE q == Other(r)
<1>1. /\ link' = [link EXCEPT ![p] = "gone"] /\ faulty' = [faulty EXCEPT ![p] = TRUE]
      /\ UNCHANGED <<wrote, closed, got, eof, up, server, task, relay>>
  BY DEF Break, appVars, relayVars
<1>2. StreamCut(r)' /\ Kept(r)' = <<>>
  <2>1. faulty'[r] \/ faulty'[q]
    BY <1>1 DEF PathInv, Typed, Ends, Other
  <2> QED BY <2>1 DEF StreamCut, Kept
<1>3. PICK i \in 0..Len(inbound[p]), j \in 0..Len(out[p]) :
          /\ inbound' = [inbound EXCEPT ![p] = SubSeq(@, 1, i)]
          /\ out' = [out EXCEPT ![p] = SubSeq(@, 1, j)]
  BY DEF Break
<1> DEFINE a == SubSeq(inbound[p], 1, i)
           b == SubSeq(out[p], 1, j)
<1>4. /\ Chunks(a) \in Seq(Nat) /\ Remains(Chunks(a), Chunks(inbound[p]))
      /\ Chunks(b) \in Seq(Nat) /\ Remains(Chunks(b), Chunks(out[p]))
  BY WaysTyped, FramesLost DEF PathInv
<1>5. inbound' = [inbound EXCEPT ![p] = a] /\ out' = [out EXCEPT ![p] = b]
  BY <1>3
<1> HIDE DEF a, b
<1>6. Chunks(out[q]) \in Seq(Nat) /\ OnWay(r) \in Seq(Nat) /\ Kept(r) \in Seq(Nat) /\ <<>> \in Seq(Nat)
  BY FlightTyped, EmptySeq
<1>7. Remains(Flight(r)', Flight(r))
  <2>1. CASE eof[q] \/ closed[q]
    <3>1. Flight(r)' = <<>> /\ Flight(r) = <<>>
      BY <1>1, <2>1 DEF Flight
    <3> QED BY <1>6, <3>1, RemainsOfWay
  <2>2. CASE ~(eof[q] \/ closed[q])
    <3>1. /\ Flight(r) = (Chunks(out[q]) \o OnWay(r)) \o Kept(r)
          /\ Flight(r)' = (Chunks(out'[q]) \o OnWay(r)') \o <<>>
      BY <1>1, <1>2, <2>2 DEF Flight
    <3>2. CASE r = p
      <4>1. out'[q] = out[q] /\ inbound'[r] = a /\ link'[q] = link[q]
        BY <1>1, <1>5, <3>2 DEF PathInv, Typed, Ends, Other
      <4>2. OnWay(r)' \in Seq(Nat) /\ Remains(OnWay(r)', OnWay(r))
        <5>1. OnWay(r)' = <<>> \/ (OnWay(r)' = Chunks(a) /\ OnWay(r) = Chunks(inbound[p]))
          BY <1>1, <3>2, <4>1 DEF OnWay
        <5> QED BY <1>4, <1>6, <5>1, RemainsOfWay, Zenon
      <4> QED BY <1>6, <3>1, <4>1, <4>2, WayCut, Zenon
    <3>3. CASE r # p
      <4>1. q = p
        BY <3>3 DEF Ends, Other
      <4>2. out'[q] = b /\ link'[q] = "gone"
        BY <1>1, <1>5, <4>1 DEF PathInv, Typed
      <4>3. OnWay(r)' = <<>>
        BY <4>2 DEF OnWay
      <4> QED BY <1>4, <1>6, <3>1, <4>1, <4>2, <4>3, WayCut, Zenon
    <3> QED BY <3>2, <3>3
  <2> QED BY <2>1, <2>2
<1>8. Silent(r)
  BY <1>1 DEF Silent, Quiet
<1> QED BY <1>2, <1>7, <1>8, StreamSteps

\* A step that touches none of this changes no stream.
LEMMA UntouchedStream ==
    ASSUME NEW r \in Ends,
           UNCHANGED <<wrote, closed, got, eof, up, inbound, out, task, link, faulty>>,
           relay' = "gaveup" <=> relay = "gaveup",
           server' = "done" <=> server = "done"
    PROVE  StreamMoves(r)
<1>1. StreamCut(r)' <=> StreamCut(r)
  BY DEF StreamCut
<1>2. Flight(r)' = Flight(r)
  BY <1>1 DEF Flight, OnWay, Kept, Chunks
<1> QED BY <1>1, <1>2, StreamSteps DEF Silent, Quiet

\* Setting the tunnel up and removing it changes no stream.
LEMMA EstablishStream ==
    ASSUME Establish \/ RelayPairs \/ RemoveTunnel \/ ServerDials, NEW r \in Ends PROVE StreamMoves(r)
<1>1. /\ UNCHANGED <<wrote, closed, got, eof, up, inbound, out, task, link, faulty>>
      /\ relay' = "gaveup" <=> relay = "gaveup"
      /\ server' = "done" <=> server = "done"
  BY DEF Establish, Dial, Redial, ConnectAck, RelayPairs, RemoveTunnel, ServerDials,
         appVars, clientVars, wireVars, relayVars
<1> QED BY <1>1, UntouchedStream

\* A chunk goes from the application of p to its connection: it stays in flight,
\* or it was lost already.
LEMMA HandedOn ==
    ASSUME PathInv, LinksEnd, NEW p \in Ends, up[p] # <<>>, ~Closing(inbound[p]),
           link[p] = "open", eof[p] => relay \in {"removed", "gaveup"}, p = "server" => server = "run",
           up' = [up EXCEPT ![p] = Tail(@)],
           inbound' = [inbound EXCEPT ![p] = Append(@, Head(up[p]))],
           UNCHANGED <<closed, eof, out, task, link, faulty, relay, server>>
    PROVE  Flight(p)' = Flight(p) /\ (StreamCut(p)' <=> StreamCut(p))
<1> DEFINE q == Other(p)
           h == Head(up[p])
           t == Tail(up[p])
           s == Append(inbound[p], h)
<1>1. StreamCut(p)' <=> StreamCut(p)
  BY DEF StreamCut
<1>2. /\ inbound[p] \in Seq(Nat) /\ CloseIsLast(inbound[p]) /\ up[p] \in Seq(Nat)
      /\ h \in Chunk /\ h \in Nat /\ h # CloseFrame
  BY WaysTyped DEF PathInv, Chunk
<1>3. Chunks(inbound[p]) = inbound[p] /\ Chunks(s) = s
  BY <1>2, FrameAppended
<1>4. inbound'[p] = s /\ up'[p] = t
  BY DEF PathInv, Typed
<1>5. q \in Ends /\ Chunks(out[q]) \in Seq(Nat) /\ OnWay(p) \in Seq(Nat)
  BY FlightTyped
<1>6. CASE eof[q] \/ closed[q]
  BY <1>1, <1>6 DEF Flight
<1>7. CASE ~(eof[q] \/ closed[q]) /\ (task[p] # "run" \/ link[q] = "gone" \/ relay = "gaveup")
  <2>1. StreamCut(p)
    <3>1. Gone(q) => StreamCut(p)
      BY DEF Gone, StreamCut
    <3>2. link[q] = "gone" => Gone(q)
      BY <1>5, GoneWithLink
    <3>3. task[p] # "run" => Gone(q) \/ Drained(p)
      BY DEF PathInv, Typed, RelayTasks
    <3>4. Drained(p) => StreamCut(p)
      BY DEF Drained
    <3>5. relay = "gaveup" => StreamCut(p)
      BY DEF StreamCut
    <3> QED BY <1>7, <3>1, <3>2, <3>3, <3>4, <3>5
  <2>2. OnWay(p) = <<>> /\ OnWay(p)' = <<>> /\ Kept(p) = <<>> /\ Kept(p)' = <<>>
    BY <1>1, <1>7, <2>1 DEF OnWay, Kept
  <2> QED BY <1>1, <2>2 DEF Flight
<1>8. CASE ~(eof[q] \/ closed[q]) /\ ~(task[p] # "run" \/ link[q] = "gone" \/ relay = "gaveup")
  <2>1. ~StreamCut(p)
    BY <1>5, <1>8 DEF StreamCut, LinksEnd, PathInv, Typed
  <2>2. OnWay(p) = inbound[p] /\ OnWay(p)' = s /\ Kept(p) = up[p] /\ Kept(p)' = t
    BY <1>1, <1>3, <1>4, <1>8, <2>1 DEF OnWay, Kept
  <2> DEFINE x == Chunks(out[q])
  <2>3. Flight(p) = (x \o inbound[p]) \o up[p] /\ Flight(p)' = (x \o s) \o t
    BY <1>8, <2>2 DEF Flight
  <2>4. x \in Seq(Nat) /\ x \o inbound[p] \in Seq(Nat)
    BY <1>2, <1>5, WayExtended, Zenon
  <2> HIDE DEF x
  <2>5. Append(x \o inbound[p], h) \o t = (x \o inbound[p]) \o up[p]
    BY <1>2, <2>4, WayExtended, Zenon
  <2>6. Append(x \o inbound[p], h) = x \o s
    <3>1. Append(x \o inbound[p], h) = x \o Append(inbound[p], h)
      <4> DEFINE y == inbound[p]
      <4>1. x \in Seq(Nat) /\ y \in Seq(Nat) /\ h \in Nat
        BY <1>2, <2>4
      <4> HIDE DEF h, y
      <4>2. Append(x \o y, h) = x \o Append(y, h)
        BY <4>1, WayExtended, Zenon
      <4> QED BY <4>2, Zenon DEF y
    <3> QED BY <3>1, Zenon
  <2> QED BY <1>1, <2>3, <2>5, <2>6, Zenon
<1> QED BY <1>6, <1>7, <1>8

\* The uplink task sends a chunk, or ends and takes the connection with it when
\* the downlink has ended: then nobody is left to read the other stream.
LEMMA UplinkForwardsStream ==
    ASSUME PathInv, LinksEnd, UplinkForwards, NEW r \in Ends PROVE StreamMoves(r)
<1> USE DEF Ends
<1>1. /\ UNCHANGED <<wrote, closed, got, eof, out, task, relay, faulty, server>>
      /\ up["client"] # <<>> /\ uplink = "run" /\ up' = [up EXCEPT !["client"] = Tail(@)]
  BY DEF UplinkForwards, appVars, relayVars
<1>2. \A p \in Ends : Silent(p)
  BY <1>1 DEF Silent, Quiet
<1>3. CASE r = "server"
  <2>1. inbound'[r] = inbound[r] /\ up'[r] = up[r]
    BY <1>1, <1>3 DEF UplinkForwards, PathInv, Typed
  <2>2. StreamCut(r)' <=> StreamCut(r)
    BY <1>1, <2>1 DEF StreamCut
  <2>3. link'["client"] = link["client"] \/ eof["client"] \/ closed["client"]
    BY DEF UplinkForwards, EndTasks, PathInv, ClientEnd
  <2>4. Flight(r)' = Flight(r)
    BY <1>1, <1>3, <2>1, <2>2, <2>3 DEF Flight, OnWay, Kept, Chunks, Other
  <2> QED BY <1>2, <2>2, <2>4, StreamSteps
<1>4. CASE r = "client"
  <2>1. Other(r) = "server"
    BY <1>4 DEF Other
  <2>2. CASE inbound' = inbound /\ (downlink = "closed" \/ link["client"] = "gone")
    <3>1. StreamCut(r)
      BY <1>1, <1>4, <2>2 DEF PathInv, ClientEnd, StreamCut
    <3>2. StreamCut(r)'
      BY <1>1, <1>4, <3>1 DEF StreamCut
    <3>3. link'["server"] = link["server"]
      BY DEF UplinkForwards, EndTasks, PathInv, Typed
    <3>4. Flight(r)' = Flight(r)
      BY <1>1, <2>1, <2>2, <3>1, <3>2, <3>3 DEF Flight, OnWay, Kept, Chunks
    <3> QED BY <1>2, <3>1, <3>2, <3>4, StreamSteps
  <2>3. CASE /\ downlink # "closed" /\ link["client"] # "gone" /\ link' = link
             /\ inbound' = [inbound EXCEPT !["client"] = Append(@, Head(up["client"]))]
    <3>1. ~Closing(inbound["client"]) /\ link["client"] = "open"
      BY <1>1, <2>3 DEF PathInv, Typed, ClientEnd
    <3>2. eof["client"] => relay \in {"removed", "gaveup"}
      BY <2>3 DEF LinksEnd, PathInv, Typed, ClientEnd
    <3>3. Flight(r)' = Flight(r) /\ (StreamCut(r)' <=> StreamCut(r))
      BY <1>1, <1>4, <2>3, <3>1, <3>2, HandedOn
    <3> QED BY <1>2, <3>3, StreamSteps
  <2> QED BY <2>2, <2>3 DEF UplinkForwards
<1> QED BY <1>3, <1>4

\* The Close frame carries nothing.
LEMMA UplinkEndsStream ==
    ASSUME PathInv, UplinkEnds, NEW r \in Ends PROVE StreamMoves(r)
<1> USE DEF Ends
<1> DEFINE s == Append(inbound["client"], CloseFrame)
<1>1. /\ UNCHANGED <<wrote, closed, got, eof, up, out, task, relay, faulty, server>>
      /\ inbound' = inbound \/ inbound' = [inbound EXCEPT !["client"] = s]
      /\ ~Closing(inbound["client"])
  BY DEF UplinkEnds, PathInv, ClientEnd, appVars, relayVars
<1>2. Chunks(s) = Chunks(inbound["client"])
  <2>1. CloseFrame \in Nat
    BY DEF CloseFrame
  <2> QED BY <1>1, <2>1, WaysTyped, FrameAppended DEF PathInv
<1> HIDE DEF s
<1>3. StreamCut(r)' <=> StreamCut(r)
  BY <1>1 DEF StreamCut
<1>4. Kept(r)' = Kept(r)
  BY <1>1, <1>3 DEF Kept
<1>5. Chunks(inbound'[r]) = Chunks(inbound[r])
  BY <1>1, <1>2 DEF PathInv, Typed
<1>6. Flight(r)' = Flight(r)
  <2>1. CASE eof[Other(r)] \/ closed[Other(r)]
    BY <1>1, <2>1 DEF Flight
  <2>2. CASE ~(eof[Other(r)] \/ closed[Other(r)])
    <3>1. link'[Other(r)] = link[Other(r)]
      BY <2>2 DEF UplinkEnds, EndTasks, PathInv, Typed, ClientEnd, Other
    <3>2. OnWay(r)' = OnWay(r)
      BY <1>1, <1>5, <3>1 DEF OnWay
    <3>3. Chunks(out[Other(r)])' = Chunks(out[Other(r)])
      BY <1>1 DEF Chunks
    <3> QED BY <1>1, <1>4, <3>2, <3>3 DEF Flight
  <2> QED BY <2>1, <2>2
<1> QED BY <1>1, <1>3, <1>6, StreamSteps DEF Silent, Quiet

\* What a cut leaves when no frame that has reached the relay's far side is lost.
LEMMA LessInFlight ==
    ASSUME PathInv, NEW p \in Ends, StreamCut(p)',
           closed'[Other(p)] = closed[Other(p)], eof'[Other(p)] = eof[Other(p)],
           \/ out'[Other(p)] = out[Other(p)] /\ (OnWay(p)' = OnWay(p) \/ OnWay(p)' = <<>>)
           \/ Chunks(out'[Other(p)]) = <<>> /\ OnWay(p)' = <<>>
    PROVE  Remains(Flight(p)', Flight(p))
<1> DEFINE q == Other(p)
           x == Chunks(out[q])
           y == OnWay(p)
           z == Kept(p)
<1>1. x \in Seq(Nat) /\ y \in Seq(Nat) /\ z \in Seq(Nat) /\ <<>> \in Seq(Nat)
  BY FlightTyped, EmptySeq
<1>2. Kept(p)' = <<>>
  BY DEF Kept
<1>3. CASE eof[q] \/ closed[q]
  <2>1. Flight(p) = <<>> /\ Flight(p)' = <<>>
    BY <1>3 DEF Flight
  <2> QED BY <1>1, <2>1, RemainsOfWay
<1>4. CASE ~(eof[q] \/ closed[q])
  <2>1. /\ Flight(p) = (x \o y) \o z
        /\ Flight(p)' = (Chunks(out'[q]) \o OnWay(p)') \o <<>>
    BY <1>2, <1>4 DEF Flight
  <2>2. Chunks(out'[q]) = x \/ (Chunks(out'[q]) = <<>> /\ OnWay(p)' = <<>>)
    BY DEF Chunks
  <2> HIDE DEF x, y, z
  <2>3. Remains((x \o y) \o <<>>, (x \o y) \o z)
    BY <1>1, WayCut
  <2>4. Remains((x \o <<>>) \o <<>>, (x \o y) \o z) /\ Remains((<<>> \o <<>>) \o <<>>, (x \o y) \o z)
    BY <1>1, WayCut, RemainsOfWay
  <2>5. OnWay(p)' = y \/ OnWay(p)' = <<>>
    BY DEF y
  <2> QED BY <2>1, <2>2, <2>3, <2>4, <2>5, Zenon
<1> QED BY <1>3, <1>4

\* The reader has seen the last frame, or its stream is over: everything has
\* arrived, or the stream was cut.
LEMMA EndReached ==
    ASSUME PathInv, NEW p \in Ends, ~eof[Other(p)], ~closed[Other(p)], Chunks(out[Other(p)]) = <<>>,
           relay = "gaveup" \/ task[p] # "run" \/ link[Other(p)] = "gone"
    PROVE  StreamCut(p) \/ (closed[p] /\ Flight(p) = <<>>)
<1> DEFINE q == Other(p)
<1>1. q \in Ends
  BY FlightTyped
<1>2. Gone(q) => StreamCut(p)
  BY DEF Gone, StreamCut
<1>3. CASE relay = "gaveup"
  BY <1>3 DEF StreamCut
<1>4. CASE link[q] = "gone"
  BY <1>1, <1>2, <1>4, GoneWithLink
<1>5. CASE task[p] # "run"
  <2>1. Gone(q) \/ Drained(p)
    BY <1>5 DEF PathInv, Typed, RelayTasks
  <2>2. Drained(p) => StreamCut(p) \/ (closed[p] /\ Kept(p) = <<>>)
    BY DEF Drained, Kept
  <2>3. OnWay(p) = <<>>
    BY <1>5 DEF OnWay
  <2>4. (<<>> \o <<>>) \o <<>> = <<>>
    OBVIOUS
  <2>5. Kept(p) = <<>> => Flight(p) = <<>>
    BY <2>3, <2>4 DEF Flight
  <2> QED BY <1>2, <2>1, <2>2, <2>5
<1> QED BY <1>3, <1>4, <1>5

\* The first frame on the way to q is a chunk, and its application takes it.
LEMMA DeliveredStream ==
    ASSUME PathInv, NEW p \in Ends, ~eof[Other(p)], ~closed[Other(p)],
           out[Other(p)] # <<>>, IsData(Head(out[Other(p)])),
           out' = [out EXCEPT ![Other(p)] = Tail(@)],
           got' = [got EXCEPT ![Other(p)] = Append(@, Head(out[Other(p)]))],
           UNCHANGED <<wrote, closed, eof, up, inbound, task, link, faulty, relay, server>>,
           NEW r \in Ends
    PROVE  StreamMoves(r)
<1> DEFINE q == Other(p)
<1>1. q \in Ends /\ Other(q) = p /\ q # p
  BY FlightTyped DEF Other, Ends
<1>2. StreamCut(r)' <=> StreamCut(r)
  BY DEF StreamCut
<1>3. Kept(r)' = Kept(r) /\ OnWay(r)' = OnWay(r)
  BY <1>2 DEF Kept, OnWay, Chunks
<1>4. CASE r = p
  <2> DEFINE x == Chunks(out[q])
             y == OnWay(p)
             z == Kept(p)
  <2>1. out'[q] = Tail(out[q]) /\ got'[q] = Append(got[q], Head(out[q]))
    BY <1>1 DEF PathInv, Typed
  <2>2. x # <<>> /\ Head(x) = Head(out[q]) /\ Chunks(Tail(out[q])) = Tail(x)
    BY <1>1, WaysTyped, FrameTaken DEF PathInv
  <2>3. x \in Seq(Nat) /\ y \in Seq(Nat) /\ z \in Seq(Nat)
    BY FlightTyped
  <2>4. Flight(p) = (x \o y) \o z /\ Flight(p)' = (Tail(x) \o y) \o z
    BY <1>3, <1>4, <2>1, <2>2 DEF Flight
  <2> HIDE DEF x, y, z
  <2>5. x \o y \in Seq(Nat) /\ x \o y # <<>> /\ Head(x \o y) = Head(x) /\ Tail(x \o y) = Tail(x) \o y
    BY <2>2, <2>3, WayShortened, WayExtended, Zenon
  <2>6. (x \o y) \o z # <<>> /\ Head((x \o y) \o z) = Head(x) /\ Tail((x \o y) \o z) = (Tail(x) \o y) \o z
    <3> DEFINE v == x \o y
    <3>1. v \in Seq(Nat) /\ v # <<>> /\ Head(v) = Head(x) /\ Tail(v) = Tail(x) \o y
      BY <2>5
    <3> HIDE DEF v
    <3>2. v \o z # <<>> /\ Head(v \o z) = Head(v) /\ Tail(v \o z) = Tail(v) \o z
      BY <2>3, <3>1, WayShortened, Zenon
    <3>3. v \o z # <<>> /\ Head(v \o z) = Head(x) /\ Tail(v \o z) = (Tail(x) \o y) \o z
      BY <3>1, <3>2, Zenon
    <3> QED BY <3>3, Zenon DEF v
  <2>7. Flight(p) # <<>> /\ Flight(p)' = Tail(Flight(p)) /\ got'[q] = Append(got[q], Head(Flight(p)))
    BY <2>1, <2>2, <2>4, <2>6, Zenon
  <2> QED BY <1>2, <1>4, <2>7, StreamSteps DEF Quiet
<1>5. CASE r = q
  <2>1. out'[p] = out[p] /\ got'[p] = got[p]
    BY <1>1 DEF PathInv, Typed
  <2>2. Flight(r)' = Flight(r)
    BY <1>1, <1>3, <1>5, <2>1 DEF Flight, Chunks
  <2> QED BY <1>1, <1>2, <1>5, <2>1, <2>2, StreamSteps DEF Silent, Quiet
<1> QED BY <1>1, <1>4, <1>5 DEF Ends

\* The bridge of q stops reading: its application is told of the end of the
\* stream that p writes, unless it has gone.
LEMMA ReaderStops ==
    ASSUME PathInv, NEW p \in Ends, ~eof[Other(p)],
           eof' = [eof EXCEPT ![Other(p)] = ~closed[Other(p)]],
           ~closed[Other(p)] => StreamCut(p) \/ (closed[p] /\ Flight(p) = <<>>),
           UNCHANGED <<wrote, closed, got>>
    PROVE  StreamMoves(p)
<1> DEFINE q == Other(p)
<1>1. q \in Ends /\ eof'[q] = ~closed[q] /\ eof[q] \in BOOLEAN
  BY FlightTyped DEF PathInv, Typed
<1>2. Flight(p)' = <<>> /\ StreamCut(p)'
  BY <1>1 DEF Flight, StreamCut
<1>3. CASE closed[q]
  <2>1. Flight(p) = <<>> /\ StreamCut(p)
    BY <1>3 DEF Flight, StreamCut
  <2>2. eof'[q] = eof[q]
    BY <1>1, <1>3
  <2> QED BY <1>2, <2>1, <2>2, StreamSteps DEF Silent, Quiet
<1>4. CASE ~closed[q]
  <2>1. eof'[q] = TRUE
    BY <1>1, <1>4
  <2> QED BY <1>2, <1>4, <2>1, StreamSteps DEF Quiet
<1> QED BY <1>3, <1>4

\* With it stops the stream that q itself writes: what q had still to send is
\* lost, if there was any.
LEMMA WriterStops ==
    ASSUME PathInv, Lasts, NEW q \in Ends,
           eof' = [eof EXCEPT ![q] = ~closed[q]],
           up' = up \/ (StreamCut(q) /\ up'[q] \in Seq(Nat)),
           UNCHANGED <<wrote, closed, got, inbound, task, relay>>,
           out'[Other(q)] = out[Other(q)], link'[Other(q)] = link[Other(q)]
    PROVE  StreamMoves(q)
<1> DEFINE p == Other(q)
<1>1. p \in Ends /\ p # q /\ eof'[p] = eof[p]
  BY FlightTyped DEF PathInv, Typed, Other, Ends
<1>2. OnWay(q)' = OnWay(q)
  BY DEF OnWay, Chunks
<1>3. Silent(q)
  BY <1>1 DEF Silent, Quiet
<1>4. CASE StreamCut(q)'
  <2>1. Remains(Flight(q)', Flight(q))
    BY <1>1, <1>2, <1>4, LessInFlight
  <2> QED BY <1>3, <1>4, <2>1, StreamSteps
<1>5. CASE ~StreamCut(q)'
  <2>1. ~StreamCut(q)
    BY <1>5 DEF Lasts
  <2>2. Kept(q)' = Kept(q)
    BY <1>5, <2>1 DEF Kept
  <2>3. Flight(q)' = Flight(q)
    BY <1>1, <1>2, <2>2 DEF Flight, Chunks
  <2> QED BY <1>3, <1>5, <2>1, <2>3, StreamSteps
<1> QED BY <1>4, <1>5

\* The downlink task delivers a chunk, or ends: the client reads the end of the
\* stream towards it, and the other stream is cut.
LEMMA DownlinkReadsStream ==
    ASSUME PathInv, DownlinkReads, NEW r \in Ends PROVE StreamMoves(r)
<1> USE DEF Ends
<1> DEFINE f == Head(out["client"])
<1>1. /\ UNCHANGED <<wrote, closed, up, inbound, server, task, relay, faulty>>
      /\ out["client"] # <<>> /\ out' = [out EXCEPT !["client"] = Tail(@)]
      /\ ~eof["client"] /\ Other("server") = "client" /\ Other("client") = "server"
  BY DEF DownlinkReads, PathInv, ClientEnd, relayVars, Other
<1>2. CASE /\ IsData(f) /\ ~closed["client"] /\ UNCHANGED <<uplink, downlink, link, eof>>
           /\ got' = [got EXCEPT !["client"] = Append(@, f)]
  BY <1>1, <1>2, DeliveredStream
<1>3. CASE (closed["client"] \/ ~IsData(f)) /\ got' = got /\ \E d \in {"closed", "done"} : DownlinkStops(d)
  <2>1. /\ eof' = [eof EXCEPT !["client"] = ~closed["client"]]
        /\ link' = link \/ link' = [link EXCEPT !["client"] = "gone"]
    BY <1>3 DEF DownlinkStops, EndTasks
  <2>2. link'["server"] = link["server"] /\ out'["server"] = out["server"]
    BY <1>1, <2>1 DEF PathInv, Typed
  <2>3. Lasts
    BY ClientLasts DEF Downlink
  <2>4. CASE r = "client"
    BY <1>1, <1>3, <2>1, <2>2, <2>3, <2>4, WriterStops
  <2>5. CASE r = "server"
    <3>1. ~closed["client"] => StreamCut("server") \/ (closed["server"] /\ Flight("server") = <<>>)
      <4> SUFFICES ASSUME ~closed["client"]
                   PROVE  StreamCut("server") \/ (closed["server"] /\ Flight("server") = <<>>)
        OBVIOUS
      <4>1. Closing(out["client"]) /\ Chunks(out["client"]) = <<>>
        BY <1>1, <1>3, WaysTyped, FrameTaken DEF PathInv
      <4>2. relay = "gaveup" \/ task["server"] # "run"
        BY <1>1, <4>1 DEF PathInv, RelayTasks
      <4> QED BY <1>1, <4>1, <4>2, EndReached
    <3> QED BY <1>1, <1>3, <2>1, <2>5, <3>1, ReaderStops
  <2> QED BY <2>4, <2>5
<1> QED BY <1>2, <1>3 DEF DownlinkReads

\* The same when its websocket is at its end.
LEMMA DownlinkEndsStream ==
    ASSUME PathInv, LinksEnd, DownlinkEnds, NEW r \in Ends PROVE StreamMoves(r)
<1> USE DEF Ends
<1>1. /\ UNCHANGED <<wrote, closed, got, up, inbound, out, server, task, relay, faulty>>
      /\ ~eof["client"] /\ Other("server") = "client" /\ Other("client") = "server"
      /\ eof' = [eof EXCEPT !["client"] = ~closed["client"]]
      /\ link' = link \/ link' = [link EXCEPT !["client"] = "gone"]
  BY DEF DownlinkEnds, DownlinkStops, EndTasks, PathInv, ClientEnd, relayVars, Other
<1>2. link'["server"] = link["server"]
  BY <1>1 DEF PathInv, Typed
<1>3. Lasts
  BY ClientLasts DEF Downlink
<1>4. CASE r = "client"
  BY <1>1, <1>2, <1>3, <1>4, WriterStops
<1>5. CASE r = "server"
  <2>1. ~closed["client"] => StreamCut("server") \/ (closed["server"] /\ Flight("server") = <<>>)
    <3>1. Chunks(out["client"]) = <<>>
      BY DEF DownlinkEnds, StreamOver, Chunks
    <3>2. relay = "gaveup" \/ task["server"] # "run" \/ link["client"] = "gone"
      BY DEF DownlinkEnds, StreamOver, LinksEnd
    <3> QED BY <1>1, <3>1, <3>2, EndReached
  <2> QED BY <1>1, <1>5, <2>1, ReaderStops
<1> QED BY <1>4, <1>5

\* A local port that refuses cuts both streams.
LEMMA ServerConnectsStream ==
    ASSUME PathInv, ServerConnects, NEW r \in Ends PROVE StreamMoves(r)
<1> USE DEF Ends
<1>1. UNCHANGED <<wrote, closed, got, eof, up, inbound, out, task, relay>> /\ server = "local"
  BY DEF ServerConnects, appVars, relayVars
<1>2. CASE server' = "run" /\ UNCHANGED <<link, faulty>>
  BY <1>1, <1>2, UntouchedStream
<1>3. CASE /\ server' = "done" /\ link' = [link EXCEPT !["server"] = "gone"]
           /\ faulty' = [faulty EXCEPT !["server"] = TRUE]
  <2>1. faulty'["server"] /\ link'["client"] = link["client"] /\ link'["server"] = "gone"
    BY <1>3 DEF PathInv, Typed
  <2>2. StreamCut(r)'
    BY <2>1 DEF StreamCut, Other
  <2>3. OnWay(r)' = OnWay(r) \/ OnWay(r)' = <<>>
    BY <1>1, <2>1 DEF OnWay, Chunks, Other
  <2>4. Remains(Flight(r)', Flight(r))
    BY <1>1, <2>2, <2>3, LessInFlight
  <2> QED BY <1>1, <2>2, <2>4, StreamSteps DEF Silent, Quiet
<1> QED BY <1>2, <1>3 DEF ServerConnects

\* ws_to_local delivers a chunk, or ends handle_tunnel.
LEMMA ServerReadsStream ==
    ASSUME PathInv, ServerReads, NEW r \in Ends PROVE StreamMoves(r)
<1> USE DEF Ends
<1> DEFINE f == Head(out["server"])
<1>1. /\ UNCHANGED <<wrote, closed, up, inbound, task, relay, faulty>>
      /\ server = "run" /\ out["server"] # <<>> /\ out' = [out EXCEPT !["server"] = Tail(@)]
      /\ ~eof["server"] /\ Other("server") = "client" /\ Other("client") = "server"
  BY DEF ServerReads, PathInv, ServerEnd, relayVars, Other
<1>2. link'["client"] = link["client"] /\ out'["client"] = out["client"]
  BY <1>1 DEF ServerReads, BridgeGoesOn, BridgeStops, PathInv, Typed
<1>3. CASE IsData(f) /\ UNCHANGED <<server, link, eof>> /\ ~closed["server"]
           /\ got' = [got EXCEPT !["server"] = Append(@, f)]
  BY <1>1, <1>3, DeliveredStream
<1>4. CASE UNCHANGED <<server, link, eof, got>> /\ closed["server"]
  <2>1. StreamCut(r)' <=> StreamCut(r)
    BY <1>1, <1>4 DEF StreamCut
  <2>2. Flight(r)' = Flight(r)
    BY <1>1, <1>2, <1>4, <2>1 DEF Flight, OnWay, Kept, Chunks, Other
  <2> QED BY <1>1, <1>4, <2>1, <2>2, StreamSteps DEF Silent, Quiet
<1>5. CASE (~IsData(f) \/ closed["server"]) /\ BridgeStops /\ got' = got
  <2>1. eof' = [eof EXCEPT !["server"] = ~closed["server"]]
    BY <1>5 DEF BridgeStops
  <2>2. Lasts
    BY ServerLasts DEF Bridge
  <2>3. CASE r = "server"
    BY <1>1, <1>2, <1>5, <2>1, <2>2, <2>3, WriterStops
  <2>4. CASE r = "client"
    <3>1. ~closed["server"] => StreamCut("client") \/ (closed["client"] /\ Flight("client") = <<>>)
      <4> SUFFICES ASSUME ~closed["server"]
                   PROVE  StreamCut("client") \/ (closed["client"] /\ Flight("client") = <<>>)
        OBVIOUS
      <4>1. Closing(out["server"]) /\ Chunks(out["server"]) = <<>>
        BY <1>1, <1>5, WaysTyped, FrameTaken DEF PathInv
      <4>2. relay = "gaveup" \/ task["client"] # "run"
        BY <1>1, <4>1 DEF PathInv, RelayTasks
      <4> QED BY <1>1, <4>1, <4>2, EndReached
    <3> QED BY <1>1, <1>5, <2>1, <2>4, <3>1, ReaderStops
  <2> QED BY <2>3, <2>4
<1> QED BY <1>3, <1>4, <1>5 DEF ServerReads, BridgeGoesOn

\* local_to_ws sends a chunk, or ends handle_tunnel.
LEMMA ServerSendsStream ==
    ASSUME PathInv, LinksEnd, ServerSends, NEW r \in Ends PROVE StreamMoves(r)
<1> USE DEF Ends
<1>1. /\ UNCHANGED <<wrote, closed, got, out, task, relay, faulty>>
      /\ server = "run" /\ up["server"] # <<>> /\ up' = [up EXCEPT !["server"] = Tail(@)]
      /\ ~eof["server"] /\ Other("server") = "client" /\ Other("client") = "server"
      /\ link["server"] = "gone" => faulty["server"]
      /\ ~Closing(inbound["server"])
  BY DEF ServerSends, PathInv, ServerEnd, clientVars, relayVars, Other
<1>2. up'["server"] \in Seq(Nat)
  BY <1>1, WaysTyped, HeadTailProperties DEF PathInv, Typed
<1>3. CASE link["server"] = "open" /\ UNCHANGED <<server, link, eof>>
           /\ inbound' = [inbound EXCEPT !["server"] = Append(@, Head(up["server"]))]
  <2>1. CASE r = "server"
    <3>1. Flight(r)' = Flight(r) /\ (StreamCut(r)' <=> StreamCut(r))
      BY <1>1, <1>3, <2>1, HandedOn
    <3> QED BY <1>1, <1>3, <3>1, StreamSteps DEF Silent, Quiet
  <2>2. CASE r = "client"
    <3>1. up'[r] = up[r] /\ inbound'[r] = inbound[r]
      BY <1>1, <1>3, <2>2 DEF PathInv, Typed
    <3>2. StreamCut(r)' <=> StreamCut(r)
      BY <1>1, <1>3, <3>1 DEF StreamCut
    <3>3. OnWay(r)' = OnWay(r) /\ Kept(r)' = Kept(r) /\ Chunks(out[Other(r)])' = Chunks(out[Other(r)])
      BY <1>1, <1>3, <3>1, <3>2 DEF OnWay, Kept
    <3>4. Flight(r)' = Flight(r)
      BY <1>1, <1>3, <3>3 DEF Flight
    <3> QED BY <1>1, <1>3, <3>2, <3>4, StreamSteps DEF Silent, Quiet
  <2> QED BY <2>1, <2>2
<1>4. CASE link["server"] = "gone" /\ inbound' = inbound /\ UNCHANGED <<server, link, eof>>
  <2>1. StreamCut(r) /\ StreamCut(r)'
    BY <1>1, <1>4 DEF StreamCut, Other
  <2>2. Flight(r)' = Flight(r)
    BY <1>1, <1>4, <2>1 DEF Flight, OnWay, Kept, Chunks
  <2> QED BY <1>1, <1>4, <2>1, <2>2, StreamSteps DEF Silent, Quiet
<1>5. CASE link["server"] = "gone" /\ BridgeStops /\ inbound' = inbound
  <2>1. /\ eof' = [eof EXCEPT !["server"] = ~closed["server"]]
        /\ link'["client"] = link["client"]
    BY <1>5 DEF BridgeStops, PathInv, Typed
  <2>2. Lasts
    BY ServerLasts DEF Bridge
  <2>3. StreamCut(r)
    BY <1>1, <1>5 DEF StreamCut, Other
  <2>4. CASE r = "server"
    BY <1>1, <1>2, <1>5, <2>1, <2>2, <2>3, <2>4, WriterStops
  <2>5. CASE r = "client"
    BY <1>1, <2>1, <2>3, <2>5, ReaderStops
  <2> QED BY <2>4, <2>5
<1>6. link["server"] \in {"open", "gone"}
  BY DEF PathInv, Typed
<1> QED BY <1>3, <1>4, <1>5, <1>6 DEF ServerSends, BridgeGoesOn

\* handle_tunnel ends: what the server had still to send is lost.
LEMMA ServerEndsStream ==
    ASSUME PathInv, LinksEnd, ServerEnds, NEW r \in Ends PROVE StreamMoves(r)
<1> USE DEF Ends
<1>1. /\ UNCHANGED <<wrote, closed, got, up, inbound, out, task, relay, faulty>>
      /\ ~eof["server"] /\ Other("server") = "client" /\ Other("client") = "server"
      /\ eof' = [eof EXCEPT !["server"] = ~closed["server"]]
      /\ link' = [link EXCEPT !["server"] = "gone"]
  BY DEF ServerEnds, BridgeStops, PathInv, ServerEnd, clientVars, relayVars, Other
<1>2. link'["client"] = link["client"]
  BY <1>1 DEF PathInv, Typed
<1>3. Lasts
  BY ServerLasts DEF Bridge
<1>4. CASE r = "server"
  BY <1>1, <1>2, <1>3, <1>4, WriterStops
<1>5. CASE r = "client"
  <2>1. ~closed["server"] => StreamCut("client") \/ (closed["client"] /\ Flight("client") = <<>>)
    <3> SUFFICES ASSUME ~closed["server"]
                 PROVE  StreamCut("client") \/ (closed["client"] /\ Flight("client") = <<>>)
      OBVIOUS
    <3>1. Chunks(out["server"]) = <<>>
      BY DEF ServerEnds, StreamOver, Chunks
    <3>2. relay = "gaveup" \/ task["client"] # "run" \/ link["server"] = "gone"
      BY DEF ServerEnds, StreamOver, LinksEnd
    <3> QED BY <1>1, <3>1, <3>2, EndReached
  <2> QED BY <1>1, <1>5, <2>1, ReaderStops
<1> QED BY <1>4, <1>5

\* A relay that gives up cuts both streams.
LEMMA RelayGivesUpStream ==
    ASSUME PathInv, RelayGivesUp, NEW r \in Ends PROVE StreamMoves(r)
<1>1. /\ UNCHANGED <<wrote, closed, got, eof, up, inbound, task, link, faulty>> /\ relay' = "gaveup"
      /\ out' = [p \in Ends |-> IF Ready(p) /\ link[p] = "open" THEN <<CloseFrame>> ELSE out[p]]
  BY DEF RelayGivesUp, appVars
<1>2. StreamCut(r)' /\ OnWay(r)' = <<>>
  BY <1>1 DEF StreamCut, OnWay
<1>3. Chunks(<<CloseFrame>>) = <<>>
  <2> DEFINE s == <<CloseFrame>>
  <2>1. s \in Seq(Nat) /\ s # <<>> /\ Head(s) = CloseFrame /\ Len(s) - 1 = 0
    BY DEF CloseFrame
  <2> HIDE DEF s
  <2>2. CloseIsLast(s)
    <3>1. \A i \in 1..0 : s[i] \in Chunk
      OBVIOUS
    <3> QED BY <2>1, <3>1, Zenon DEF CloseIsLast
  <2>3. Chunks(s) = <<>>
    BY <2>1, <2>2, FrameTaken, Zenon DEF IsData
  <2> QED BY <2>3, Zenon DEF s
<1>4. out'[Other(r)] = out[Other(r)] \/ Chunks(out'[Other(r)]) = <<>>
  BY <1>1, <1>3, FlightTyped
<1>5. Remains(Flight(r)', Flight(r))
  BY <1>1, <1>2, <1>4, LessInFlight
<1> QED BY <1>1, <1>2, <1>5, StreamSteps DEF Silent, Quiet

\* The task that reads from p does not touch the stream towards p.
LEMMA ForwardOther ==
    ASSUME PathInv, NEW p \in Ends, Forward(p) PROVE StreamMoves(Other(p))
<1> DEFINE q == Other(p)
<1>1. q \in Ends /\ Other(q) = p /\ q # p
  BY FlightTyped DEF Other, Ends
<1>2. UNCHANGED <<wrote, closed, got, eof, up, server, link, relay, faulty>>
  BY DEF Forward, ForwardData, ForwardClose, StreamEnds, appVars
<1>3. inbound'[q] = inbound[q] /\ task'[q] = task[q] /\ out'[p] = out[p]
  BY <1>1 DEF Forward, ForwardData, ForwardClose, StreamEnds, Write, PathInv, Typed
<1>4. StreamCut(q)' <=> StreamCut(q)
  BY <1>2 DEF StreamCut
<1>5. OnWay(q)' = OnWay(q) /\ Kept(q)' = Kept(q) /\ Chunks(out[p])' = Chunks(out[p])
  BY <1>1, <1>2, <1>3, <1>4 DEF OnWay, Kept
<1>6. Flight(q)' = Flight(q)
  BY <1>1, <1>2, <1>5 DEF Flight
<1> QED BY <1>1, <1>2, <1>4, <1>6, StreamSteps DEF Silent, Quiet

\* A chunk that is sent on stays in flight; one that cannot be sent on was lost
\* when the other end went.
LEMMA ForwardDataStream ==
    ASSUME PathInv, LinksEnd, NEW p \in Ends, ForwardData(p) PROVE StreamMoves(p)
<1> DEFINE q == Other(p)
           s == inbound[p]
           h == Head(s)
<1>1. q \in Ends /\ Other(q) = p /\ q # p
  BY FlightTyped DEF Other, Ends
<1>2. /\ UNCHANGED <<wrote, closed, got, eof, up, server, link, relay, faulty>>
      /\ inbound' = [inbound EXCEPT ![p] = Tail(@)]
      /\ relay = "forward" /\ task[p] = "run" /\ s # <<>> /\ IsData(h)
  BY DEF ForwardData, TaskReads, appVars
<1>3. StreamCut(p)' <=> StreamCut(p)
  BY <1>2 DEF StreamCut
<1>4. Kept(p)' = Kept(p) /\ Silent(p)
  BY <1>2, <1>3 DEF Kept, Silent, Quiet
<1>5. CASE eof[q] \/ closed[q]
  <2>1. Flight(p)' = Flight(p)
    BY <1>2, <1>5 DEF Flight
  <2> QED BY <1>3, <1>4, <2>1, StreamSteps
<1>6. CASE link[q] = "gone"
  <2>1. out' = out
    BY <1>6 DEF ForwardData, Write
  <2>2. OnWay(p) = <<>> /\ OnWay(p)' = <<>> /\ Chunks(out[q])' = Chunks(out[q])
    BY <1>2, <1>6, <2>1 DEF OnWay
  <2>3. Flight(p)' = Flight(p)
    BY <1>2, <1>4, <2>2 DEF Flight
  <2> QED BY <1>3, <1>4, <2>3, StreamSteps
<1>7. CASE ~eof[q] /\ ~closed[q] /\ link[q] # "gone"
  <2>1. out' = [out EXCEPT ![q] = Append(@, h)] /\ task' = task
    <3>1. ~WriteFails(q)
      BY <1>1, <1>7 DEF WriteFails, PathInv, RelayTasks, LinksEnd, Gone
    <3> QED BY <1>7, <3>1 DEF ForwardData, Write
  <2> DEFINE o == out[q]
             y == Chunks(s)
  <2>2. ~Closing(o)
    BY <1>1, <1>2 DEF PathInv, RelayTasks
  <2>3. o \in Seq(Nat) /\ CloseIsLast(o) /\ s \in Seq(Nat) /\ CloseIsLast(s)
    BY <1>1, WaysTyped DEF PathInv
  <2>4. h \in Nat /\ h # CloseFrame /\ y # <<>> /\ Head(y) = h /\ Chunks(Tail(s)) = Tail(y)
    BY <1>2, <2>3, FrameTaken DEF IsData
  <2>5. Chunks(o) = o /\ Chunks(Append(o, h)) = Append(o, h)
    <3> HIDE DEF h, o
    <3> QED BY <2>2, <2>3, <2>4, FrameAppended
  <2>6. out'[q] = Append(o, h) /\ inbound'[p] = Tail(s)
    BY <1>1, <1>2, <2>1 DEF PathInv, Typed
  <2>7. OnWay(p) = y /\ OnWay(p)' = Tail(y)
    BY <1>2, <1>7, <2>1, <2>4, <2>6 DEF OnWay
  <2>8. y \in Seq(Nat)
    BY FlightTyped
  <2> DEFINE z == Kept(p)
  <2>9. Flight(p) = (o \o y) \o z /\ Flight(p)' = (Append(o, h) \o Tail(y)) \o z
    <3> HIDE DEF h, o, y, z
    <3>1. Chunks(out[q]) = o /\ Chunks(out[q])' = Append(o, h)
      BY <2>5, <2>6, Zenon DEF o
    <3> QED BY <1>2, <1>4, <1>7, <2>7, <3>1 DEF Flight, z
  <2>10. Append(o, h) \o Tail(y) = o \o y
    <3>1. Append(o, Head(y)) \o Tail(y) = o \o y
      <4> HIDE DEF o, y, h
      <4> QED BY <2>3, <2>4, <2>8, WayExtended
    <3> QED BY <2>4, <3>1, Zenon
  <2>11. Flight(p)' = Flight(p)
    BY <2>9, <2>10, Zenon
  <2> QED BY <1>3, <1>4, <2>11, StreamSteps
<1> QED BY <1>5, <1>6, <1>7

\* The end of what comes from p: nothing was left to be sent on.
LEMMA ForwardCloseStream ==
    ASSUME PathInv, NEW p \in Ends, ForwardClose(p) \/ StreamEnds(p) PROVE StreamMoves(p)
<1> DEFINE q == Other(p)
<1>1. q \in Ends /\ Other(q) = p /\ q # p
  BY FlightTyped DEF Other, Ends
<1>2. /\ UNCHANGED <<wrote, closed, got, eof, up, server, link, relay, faulty>>
      /\ relay = "forward" /\ task[p] = "run" /\ task' = [task EXCEPT ![p] = "ended"]
      /\ Write(q, CloseFrame) \/ out' = out
  BY DEF ForwardClose, StreamEnds, TaskReads, appVars
<1>3. StreamCut(p)' <=> StreamCut(p)
  BY <1>2 DEF StreamCut
<1>4. Kept(p)' = Kept(p) /\ Silent(p)
  BY <1>2, <1>3 DEF Kept, Silent, Quiet
<1>5. OnWay(p) = <<>> /\ OnWay(p)' = <<>>
  <2>1. Chunks(inbound[p]) = <<>>
    <3>1. CASE inbound[p] = <<>>
      BY <3>1 DEF Chunks
    <3>2. CASE inbound[p] # <<>> /\ ~IsData(Head(inbound[p]))
      BY <3>2, WaysTyped, FrameTaken DEF PathInv
    <3> QED BY <3>1, <3>2 DEF ForwardClose, StreamEnds
  <2>2. task'[p] = "ended"
    BY <1>2 DEF PathInv, Typed
  <2> QED BY <2>1, <2>2 DEF OnWay
<1>6. Chunks(out'[q]) = Chunks(out[q])
  <2>1. CASE out' = out
    BY <2>1
  <2>2. CASE out' = [out EXCEPT ![q] = Append(@, CloseFrame)]
    <3>1. ~Closing(out[q])
      BY <1>1, <1>2 DEF PathInv, RelayTasks
    <3>2. CloseFrame \in Nat
      BY DEF CloseFrame
    <3>3. Chunks(Append(out[q], CloseFrame)) = Chunks(out[q])
      <4> HIDE DEF q
      <4> QED BY <1>1, <3>1, <3>2, WaysTyped, FrameAppended DEF PathInv
    <3>4. out'[q] = Append(out[q], CloseFrame)
      BY <1>1, <2>2 DEF PathInv, Typed
    <3> QED BY <3>3, <3>4, Zenon
  <2> QED BY <1>2, <2>1, <2>2 DEF Write
<1>7. Flight(p)' = Flight(p)
  BY <1>2, <1>4, <1>5, <1>6 DEF Flight
<1> QED BY <1>3, <1>4, <1>7, StreamSteps

\* Every step of the tunnel is a step of each stream, or changes nothing of it.
LEMMA StreamStep ==
    ASSUME PathInv, LinksEnd, [Next]_vars, NEW r \in Ends PROVE StreamMoves(r)
<1>1. CASE UNCHANGED vars
  BY <1>1, UntouchedStream DEF vars, appVars, wireVars, relayVars
<1>2. CASE \E p \in Ends : AppWrites(p) \/ AppCloses(p) \/ Break(p)
  BY <1>2, AppWritesStream, AppClosesStream, BreakStream
<1>3. CASE \E p \in Ends : Forward(p)
  <2>1. PICK p \in Ends : Forward(p)
    BY <1>3
  <2>2. CASE r = p
    BY <2>1, <2>2, ForwardDataStream, ForwardCloseStream DEF Forward
  <2>3. CASE r # p
    <3>1. r = Other(p)
      BY <2>3 DEF Other, Ends
    <3> QED BY <2>1, <3>1, ForwardOther
  <2> QED BY <2>2, <2>3
<1>4. CASE Establish \/ Uplink \/ Downlink \/ Bridge \/ Pairing \/ RemoveTunnel
  BY <1>4, EstablishStream, UplinkForwardsStream, UplinkEndsStream, DownlinkReadsStream,
     DownlinkEndsStream, ServerConnectsStream, ServerReadsStream, ServerSendsStream,
     ServerEndsStream, RelayGivesUpStream
     DEF Uplink, Downlink, Bridge, Pairing
<1> QED BY <1>1, <1>2, <1>3, <1>4 DEF Next

\* Nothing is in flight before anything was written.
LEMMA StreamInit == ASSUME Init, NEW r \in Ends PROVE Stream(r)!Init
<1>1. Other(r) \in Ends
  BY DEF Other, Ends
<1>2. StreamCut(r) = FALSE
  BY <1>1 DEF Init, StreamCut
<1>3. Flight(r) = <<>>
  <2>1. Chunks(<<>>) = <<>> /\ (<<>> \o <<>>) \o <<>> = <<>>
    BY DEF Chunks
  <2>2. Chunks(out[Other(r)]) = <<>> /\ OnWay(r) = <<>> /\ Kept(r) = <<>>
    BY <1>1, <2>1 DEF Init, OnWay, Kept
  <2> QED BY <2>1, <2>2 DEF Flight
<1> QED BY <1>1, <1>2, <1>3 DEF Init, Stream!Init

\* Each direction of the tunnel, through the uplink task, forward_stream and
\* handle_tunnel, or back through the downlink task, is a stream: for every
\* number of chunks none is lost in the middle, repeated or out of order, and
\* the end is not reported before the last chunk unless the stream was cut.
THEOREM Implementation == Spec => ImplementsStream
<1>1. "client" \in Ends /\ "server" \in Ends /\ Other("client") = "server" /\ Other("server") = "client"
  BY DEF Ends, Other
<1>2. Init => ToServer!Init /\ ToClient!Init
  BY <1>1, StreamInit DEF Stream!Init, ToServer!Init, ToClient!Init
<1>3. PathInv /\ LinksEnd /\ [Next]_vars => [ToServer!Next]_(ToServer!streamVars)
  <2> SUFFICES ASSUME PathInv, LinksEnd, [Next]_vars PROVE [ToServer!Next]_(ToServer!streamVars)
    OBVIOUS
  <2>1. StreamMoves("client")
    BY <1>1, StreamStep
  <2> QED BY <1>1, <2>1
          DEF StreamMoves, Stream!Next, Stream!streamVars, Stream!Write, Stream!Deliver, Stream!Close,
              Stream!Cut, Stream!End, ToServer!Next, ToServer!streamVars, ToServer!Write,
              ToServer!Deliver, ToServer!Close, ToServer!Cut, ToServer!End
<1>4. PathInv /\ LinksEnd /\ [Next]_vars => [ToClient!Next]_(ToClient!streamVars)
  <2> SUFFICES ASSUME PathInv, LinksEnd, [Next]_vars PROVE [ToClient!Next]_(ToClient!streamVars)
    OBVIOUS
  <2>1. StreamMoves("server")
    BY <1>1, StreamStep
  <2> QED BY <1>1, <2>1
          DEF StreamMoves, Stream!Next, Stream!streamVars, Stream!Write, Stream!Deliver, Stream!Close,
              Stream!Cut, Stream!End, ToClient!Next, ToClient!streamVars, ToClient!Write,
              ToClient!Deliver, ToClient!Close, ToClient!Cut, ToClient!End
<1> QED BY <1>2, <1>3, <1>4, PathInvariant, PTL
        DEF Spec, ImplementsStream, ToServer!Spec, ToClient!Spec

-----------------------------------------------------------------------------
(* The server's control connection.                                        *)

(***************************************************************************)
(* What start can tell from the state and the result: the state is         *)
(* Connected from the acknowledgement until start overwrites it, and the   *)
(* result is Ok only after an acknowledgement.                             *)
(***************************************************************************)
StateTellsAcked ==
    /\ pc \in {"connect", "register", "await"} => state = "Connecting" /\ ~acked
    /\ pc \in {"listen", "ok"} => state = "Connected" /\ acked
    /\ pc = "err" => (state = "Connected" <=> acked)
    /\ pc \in {"start", "sleep", "stopped"} => state # "Connected"
    /\ pc = "sleep" => (reset <=> acked) /\ (reset => delay = 1)

ControlTyped ==
    /\ delay \in 1..MaxDelay
    /\ autoConnect \in BOOLEAN /\ reset \in BOOLEAN /\ acked \in BOOLEAN
    /\ pc \in {"start", "connect", "register", "await", "listen", "ok", "err", "sleep", "stopped"}

BackoffInv == ControlTyped /\ StateTellsAcked

\* The next delay is within the limit.
LEMMA NextDelay ==
    ASSUME NEW d \in 1..MaxDelay
    PROVE  Min({d * 2, MaxDelay}) \in 1..MaxDelay
<1>1. d * 2 \in Nat \ {0} /\ (d * 2 <= MaxDelay \/ MaxDelay <= d * 2)
  BY RelayClientAssumption
<1>2. \E x \in {d * 2, MaxDelay} : \A y \in {d * 2, MaxDelay} : x <= y
  BY <1>1, RelayClientAssumption
<1>3. /\ Min({d * 2, MaxDelay}) \in {d * 2, MaxDelay}
      /\ \A y \in {d * 2, MaxDelay} : Min({d * 2, MaxDelay}) <= y
  BY <1>2 DEF Min
<1> QED BY <1>1, <1>3, RelayClientAssumption

\* The initial state of the relay client.
LEMMA BackoffInit == ControlInit => BackoffInv
<1> SUFFICES ASSUME ControlInit PROVE BackoffInv
  OBVIOUS
<1>1. 1 \in 1..MaxDelay
  BY RelayClientAssumption
<1>2. ControlTyped
  BY <1>1, Zenon DEF ControlInit, ControlTyped
<1>3. StateTellsAcked
  BY DEF ControlInit, StateTellsAcked
<1> QED BY <1>2, <1>3 DEF BackoffInv

\* Every step of the relay client keeps the invariant.
LEMMA BackoffStep == BackoffInv /\ [ControlNext]_controlVars => BackoffInv'
<1> SUFFICES ASSUME BackoffInv, [ControlNext]_controlVars PROVE BackoffInv'
  OBVIOUS
<1> USE DEF BackoffInv, ControlTyped, StateTellsAcked, retry, network
<1>1. CASE UNCHANGED controlVars
  BY <1>1 DEF controlVars
<1>2. CASE \/ RelayAnswers \/ RelaySends \/ LinkEnds
           \/ LinkDies \/ TunnelEnds \/ Ping
  BY <1>2 DEF RelayAnswers, RelaySends, LinkEnds,
              LinkDies, TunnelEnds, Ping
<1>3. CASE Connecting
  BY <1>3 DEF Connecting
<1>4. CASE Connect \/ SendRegister
  BY <1>4 DEF Connect, SendRegister
<1>5. CASE RecvAck
  <2>1. ControlTyped'
    BY <1>5, Zenon DEF RecvAck
  <2>2. StateTellsAcked'
    BY <1>5 DEF RecvAck
  <2> QED BY <2>1, <2>2
<1>6. CASE Listen \/ ListenEnds
  BY <1>6 DEF Listen, ListenEnds
<1>7. CASE ClosedGracefully
  BY <1>7, RelayClientAssumption DEF ClosedGracefully, Settle
<1>8. CASE Failed
  BY <1>8, RelayClientAssumption DEF Failed, Settle
<1>9. CASE Sleep
  <2>1. delay' \in 1..MaxDelay
    BY <1>9, NextDelay DEF Sleep
  <2> QED BY <1>9, <2>1 DEF Sleep
<1> QED BY <1>1, <1>2, <1>3, <1>4, <1>5, <1>6, <1>7, <1>8, <1>9 DEF ControlNext, ClientStep

\* start waits one second exactly after a connection that had been registered,
\* although it learns of that from a state it overwrites, and its delay never
\* leaves the configured range (validation refuses a limit of 0).
THEOREM Backoff == ControlSpec => []BackoffFollowsRegistration
<1>1. BackoffInv => BackoffFollowsRegistration
  BY DEF BackoffInv, ControlTyped, StateTellsAcked, BackoffFollowsRegistration
<1> QED BY <1>1, BackoffInit, BackoffStep, PTL DEF ControlSpec
=============================================================================
