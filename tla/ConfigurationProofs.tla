------------------------ MODULE ConfigurationProofs ------------------------
(***************************************************************************)
(* Proofs about what depends on the configuration file.                    *)
(*   - ShellScript: a request runs what was asked, the client's check and  *)
(*     the server's agree, and the session that comes of it is well-formed *)
(*     (for any capabilities, inputs, reloads, output and channel).        *)
(*   - ConfigReload: versions and notifications of a reload (for any       *)
(*     files, clients, Enroll calls, edits and restarts).                  *)
(* The first needs what the loop of substitute_parameters computes.        *)
(***************************************************************************)
EXTENDS ShellScript, ConfigReload, WellFoundedInduction, SequenceTheorems, TLAPS

-----------------------------------------------------------------------------
(* Induction.  The library's rules take a predicate as a parameter, which  *)
(* the provers cannot instantiate; a set of numbers they can.              *)

\* Every set of naturals that is not empty has a least element.
LEMMA Least ==
    ASSUME NEW T, T \subseteq Nat, T # {}
    PROVE  \E x \in T : \A y \in T : x <= y
<1> DEFINE R == {p \in Nat \X Nat : p[1] < p[2]}
<1>1. IsWellFoundedOn(R, Nat)
  <2>1. OpToRel(<, Nat) = R
    BY DEF OpToRel
  <2> QED BY <2>1, NatLessThanWellFounded
<1>2. \E x \in T : \A y \in T : ~ (<<y, x>> \in R)
  BY <1>1, WFMin
<1>3. ASSUME NEW x \in T, NEW y \in T, ~ (<<y, x>> \in R)
      PROVE  x <= y
  BY <1>3
<1> HIDE DEF R
<1> QED BY <1>2, <1>3

\* A set with 0 and all successors of its numbers holds all naturals.
LEMMA Induction ==
    ASSUME NEW S, 0 \in S, \A n \in Nat : n \in S => n + 1 \in S
    PROVE  \A n \in Nat : n \in S
<1> SUFFICES ASSUME NEW n \in Nat, n \notin S
             PROVE  FALSE
  OBVIOUS
<1>1. PICK m \in Nat \ S : \A y \in Nat \ S : m <= y
  <2>1. Nat \ S \subseteq Nat /\ Nat \ S # {}
    OBVIOUS
  <2> QED BY <2>1, Least
<1>2. m # 0 /\ m - 1 \in Nat /\ m - 1 \in S
  BY <1>1
<1> QED BY <1>1, <1>2

\* The same for sequences, which grow at their end.
LEMMA SequenceInduction ==
    ASSUME NEW A, NEW T, <<>> \in T,
           \A s \in Seq(A), e \in A : s \in T => Append(s, e) \in T
    PROVE  \A s \in Seq(A) : s \in T
<1> DEFINE S == {n \in Nat : \A s \in Seq(A) : Len(s) = n => s \in T}
<1>1. 0 \in S
  BY EmptySeq
<1>2. ASSUME NEW n \in Nat, n \in S
      PROVE  n + 1 \in S
  <2>1. ASSUME NEW s \in Seq(A), Len(s) = n + 1
        PROVE  s \in T
    <3>1. s # <<>>
      BY <2>1, EmptySeq
    <3>2. PICK t \in Seq(A), e \in A : s = Append(t, e)
      BY <3>1, SequenceEmptyOrAppend
    <3>3. Len(t) \in Nat /\ Len(s) = Len(t) + 1
      BY <3>2, AppendProperties, LenProperties
    <3>4. t \in T
      BY <1>2, <2>1, <3>3
    <3> QED BY <3>2, <3>4
  <2> QED BY <2>1
<1> HIDE DEF S
<1>3. \A n \in Nat : n \in S
  BY <1>1, <1>2, Induction
<1> QED BY <1>3, LenProperties DEF S

\* A set of positions that is not empty has a first and a last one.
LEMMA FirstAndLast ==
    ASSUME NEW n \in Nat, NEW T, T \subseteq 1..n, T # {}
    PROVE  /\ Min(T) \in T /\ \A i \in T : Min(T) <= i
           /\ Max(T) \in T /\ \A i \in T : i <= Max(T)
<1>1. \E x \in T : \A y \in T : x <= y
  <2>1. T \subseteq Nat
    OBVIOUS
  <2> QED BY <2>1, Least
<1>2. \E x \in T : \A y \in T : x >= y
  <2> DEFINE U == {u \in Nat : n - u \in T}
  <2>0. \A i \in T : i \in Int /\ i <= n
    OBVIOUS
  <2>1. U \subseteq Nat /\ U # {}
    <3>1. PICK i \in T : TRUE
      OBVIOUS
    <3>2. n - i \in Nat /\ n - (n - i) = i
      BY <2>0
    <3> QED BY <3>2
  <2>2. PICK u \in U : \A y \in U : u <= y
    <3> HIDE DEF U
    <3> QED BY <2>1, Least
  <2>3. \A y \in T : n - y \in U
    BY <2>0
  <2>4. n - u \in T /\ \A y \in T : u <= n - y
    BY <2>2, <2>3
  <2> QED BY <2>0, <2>4
<1>3. Min(T) \in T /\ \A i \in T : Min(T) <= i
  BY <1>1 DEF Min
<1>4. Max(T) \in T /\ \A i \in T : Max(T) >= i
  BY <1>2 DEF Max
<1> QED BY <1>3, <1>4

-----------------------------------------------------------------------------
(* FlattenSeq, which the text of a command is put together with.           *)

\* What the definition of FlattenSeq says of its local function.
Flat(ss, g) ==
    g = [i \in 1..Len(ss) |-> IF i = 1 THEN ss[i] ELSE g[i - 1] \o ss[i]]

\* The same, value by value.
LEMMA FlatAt ==
    ASSUME NEW A, NEW ss \in Seq(Seq(A)), NEW g, Flat(ss, g)
    PROVE  /\ Len(ss) # 0 => g[1] = ss[1]
           /\ \A n \in Nat : n # 0 /\ n + 1 <= Len(ss) => g[n + 1] = g[n] \o ss[n + 1]
           /\ g = [i \in 1..Len(ss) |-> g[i]]
<1> DEFINE f == [i \in 1..Len(ss) |-> IF i = 1 THEN ss[i] ELSE g[i - 1] \o ss[i]]
<1>0. Len(ss) \in Nat
  BY LenProperties
<1>1. g = f
  BY DEF Flat
<1>2. Len(ss) # 0 => f[1] = ss[1]
  BY <1>0
<1>3. ASSUME NEW n \in Nat, n # 0, n + 1 <= Len(ss)
      PROVE  f[n + 1] = g[n] \o ss[n + 1]
  <2>1. n + 1 \in 1..Len(ss) /\ n + 1 # 1 /\ (n + 1) - 1 = n
    BY <1>0, <1>3
  <2>2. f[n + 1] = g[(n + 1) - 1] \o ss[n + 1]
    BY <2>1
  <2> QED BY <2>1, <2>2
<1>4. f = [i \in 1..Len(ss) |-> f[i]]
  OBVIOUS
<1> HIDE DEF f
<1> QED BY <1>1, <1>2, <1>3, <1>4

\* Its values are sequences.
LEMMA FlatType ==
    ASSUME NEW A, NEW ss \in Seq(Seq(A)), NEW g, Flat(ss, g)
    PROVE  \A i \in 1..Len(ss) : g[i] \in Seq(A)
<1> DEFINE S == {n \in Nat : n \in 1..Len(ss) => g[n] \in Seq(A)}
<1>0. Len(ss) \in Nat /\ \A i \in 1..Len(ss) : ss[i] \in Seq(A)
  BY LenProperties, ElementOfSeq
<1>f. /\ Len(ss) # 0 => g[1] = ss[1]
      /\ \A n \in Nat : n # 0 /\ n + 1 <= Len(ss) => g[n + 1] = g[n] \o ss[n + 1]
  BY FlatAt, Zenon
<1>1. 0 \in S
  OBVIOUS
<1>2. ASSUME NEW n \in Nat, n \in S
      PROVE  n + 1 \in S
  <2>1. CASE n = 0
    <3>1. n + 1 \in 1..Len(ss) => g[n + 1] = ss[n + 1]
      BY <1>0, <2>1, <1>f
    <3> QED BY <1>0, <3>1
  <2>2. CASE n # 0 /\ n + 1 \in 1..Len(ss)
    <3>1. g[n + 1] = g[n] \o ss[n + 1]
      <4>1. n # 0 /\ n + 1 <= Len(ss)
        BY <1>0, <2>2
      <4> QED BY <1>f, <4>1, Zenon
    <3>2. g[n] \in Seq(A)
      BY <1>2, <2>2, <1>0
    <3>3. g[n] \o ss[n + 1] \in Seq(A)
      BY <1>0, <3>2, <2>2, ConcatProperties
    <3>4. g[n + 1] \in Seq(A)
      BY <3>1, <3>3, Zenon
    <3> QED BY <3>4
  <2> QED BY <2>1, <2>2
<1> HIDE DEF S
<1>3. \A n \in Nat : n \in S
  BY <1>1, <1>2, Induction
<1> QED BY <1>3, <1>0 DEF S

\* There is only one such function.
LEMMA FlatUnique ==
    ASSUME NEW A, NEW ss \in Seq(Seq(A)), NEW g, NEW h, Flat(ss, g), Flat(ss, h)
    PROVE  g = h
<1> DEFINE S == {n \in Nat : n \in 1..Len(ss) => g[n] = h[n]}
<1>0. Len(ss) \in Nat
  BY LenProperties
<1>f. /\ Len(ss) # 0 => g[1] = ss[1] /\ h[1] = ss[1]
      /\ \A n \in Nat : n # 0 /\ n + 1 <= Len(ss) => g[n + 1] = g[n] \o ss[n + 1]
      /\ \A n \in Nat : n # 0 /\ n + 1 <= Len(ss) => h[n + 1] = h[n] \o ss[n + 1]
  BY FlatAt, Zenon
<1>1. 0 \in S
  OBVIOUS
<1>2. ASSUME NEW n \in Nat, n \in S
      PROVE  n + 1 \in S
  <2>1. CASE n = 0
    BY <1>0, <2>1, <1>f
  <2>2. CASE n # 0 /\ n + 1 \in 1..Len(ss)
    <3>1. g[n + 1] = g[n] \o ss[n + 1] /\ h[n + 1] = h[n] \o ss[n + 1]
      <4>1. n # 0 /\ n + 1 <= Len(ss)
        BY <1>0, <2>2
      <4> QED BY <1>f, <4>1, Zenon
    <3>2. g[n] = h[n]
      BY <1>2, <2>2, <1>0
    <3>3. g[n + 1] = h[n + 1]
      BY <3>1, <3>2, Zenon
    <3> QED BY <3>3
  <2> QED BY <2>1, <2>2
<1> HIDE DEF S
<1>3. \A n \in Nat : n \in S
  BY <1>1, <1>2, Induction
<1>4. \A i \in 1..Len(ss) : g[i] = h[i]
  BY <1>3, <1>0 DEF S
<1>5. /\ g = [i \in 1..Len(ss) |-> g[i]]
      /\ h = [i \in 1..Len(ss) |-> h[i]]
  BY FlatAt
<1> QED BY <1>4, <1>5

\* The function of a longer sequence begins with the function of the shorter.
LEMMA FlatGrows ==
    ASSUME NEW A, NEW ss \in Seq(Seq(A)), NEW s \in Seq(A), NEW g, Flat(ss, g)
    PROVE  LET n == Len(ss)
               h == [i \in 1..(n + 1) |->
                       IF i = n + 1 THEN IF n = 0 THEN s ELSE g[n] \o s ELSE g[i]]
           IN  Flat(Append(ss, s), h)
<1> DEFINE n == Len(ss)
           last == IF n = 0 THEN s ELSE g[n] \o s
           h == [i \in 1..(n + 1) |-> IF i = n + 1 THEN last ELSE g[i]]
           tt == Append(ss, s)
           F(i) == IF i = 1 THEN tt[i] ELSE h[i - 1] \o tt[i]
<1>0. n \in Nat
  BY LenProperties
<1>f. /\ n # 0 => g[1] = ss[1]
      /\ \A m \in Nat : m # 0 /\ m + 1 <= n => g[m + 1] = g[m] \o ss[m + 1]
  BY FlatAt, Zenon
<1>1. Len(tt) = n + 1 /\ tt[n + 1] = s /\ \A i \in 1..n : tt[i] = ss[i]
  BY AppendProperties
<1>2. h[n + 1] = last /\ \A i \in 1..n : h[i] = g[i]
  BY <1>0
<1> HIDE DEF h, tt
<1>3. ASSUME NEW i \in 1..(n + 1)
      PROVE  h[i] = F(i)
  <2>1. CASE i = 1 /\ n = 0
    BY <2>1, <1>1, <1>2
  <2>2. CASE i = 1 /\ n # 0
    <3>1. i \in 1..n
      BY <1>0, <2>2
    <3> QED BY <1>1, <1>2, <1>f, <2>2, <3>1, Zenon
  <2>3. CASE i # 1
    <3>1. PICK m \in Nat : i = m + 1 /\ m # 0 /\ i - 1 = m /\ m \in 1..n
      <4>1. i - 1 \in Nat /\ i = (i - 1) + 1 /\ i - 1 # 0 /\ i - 1 \in 1..n
        BY <1>0, <2>3
      <4> QED BY <4>1
    <3>2. h[i - 1] = g[m]
      BY <1>2, <3>1
    <3>3. F(i) = g[m] \o tt[i]
      BY <2>3, <3>2, Zenon
    <3>4. CASE i = n + 1
      <4>1. n # 0 /\ m = n
        BY <1>0, <3>1, <3>4
      <4>2. h[i] = g[m] \o s /\ tt[i] = s
        BY <1>1, <1>2, <3>4, <4>1, Zenon
      <4> QED BY <3>3, <4>2, Zenon
    <3>5. CASE i # n + 1
      <4>1. i \in 1..n /\ m + 1 <= n
        BY <1>0, <3>1, <3>5
      <4>2. h[i] = g[i] /\ tt[i] = ss[i]
        BY <1>1, <1>2, <4>1
      <4>3. g[i] = g[m] \o ss[i]
        BY <1>f, <3>1, <4>1, Zenon
      <4> QED BY <3>3, <4>2, <4>3, Zenon
    <3> QED BY <3>4, <3>5
  <2> QED BY <2>1, <2>2, <2>3
<1>4. h = [i \in 1..(n + 1) |-> F(i)]
  <2>1. h = [i \in 1..(n + 1) |-> h[i]]
    BY DEF h
  <2> HIDE DEF F
  <2> QED BY <1>3, <2>1
<1>5. Flat(tt, h)
  BY <1>1, <1>4 DEF Flat
<1> QED BY <1>5 DEF h, tt

\* There always is one.
LEMMA FlatExists ==
    ASSUME NEW A
    PROVE  \A ss \in Seq(Seq(A)) : \E g : Flat(ss, g)
<1> DEFINE T == {ss \in Seq(Seq(A)) : \E g : Flat(ss, g)}
<1>1. <<>> \in T
  <2>1. <<>> \in Seq(Seq(A)) /\ Len(<<>>) = 0
    BY EmptySeq
  <2> DEFINE g == [i \in 1..0 |-> 0]
  <2>2. Flat(<<>>, g)
    BY <2>1 DEF Flat
  <2> QED BY <2>1, <2>2
<1>2. ASSUME NEW ss \in Seq(Seq(A)), NEW s \in Seq(A), ss \in T
      PROVE  Append(ss, s) \in T
  <2>1. PICK g : Flat(ss, g)
    BY <1>2
  <2>2. \E h : Flat(Append(ss, s), h)
    BY <2>1, FlatGrows
  <2> QED BY <2>2, AppendProperties
<1> HIDE DEF T
<1>3. \A ss \in Seq(Seq(A)) : ss \in T
  BY <1>1, <1>2, SequenceInduction
<1> QED BY <1>3 DEF T

\* FlattenSeq is the last value of that function.
LEMMA FlattenIsFlat ==
    ASSUME NEW A, NEW ss \in Seq(Seq(A)), ss # <<>>, NEW g, Flat(ss, g)
    PROVE  FlattenSeq(ss) = g[Len(ss)]
<1>1. Len(ss) # 0
  BY EmptySeq
<1> DEFINE f == CHOOSE f : f = [i \in 1..Len(ss) |-> IF i = 1 THEN ss[i] ELSE f[i - 1] \o ss[i]]
<1>2. FlattenSeq(ss) = f[Len(ss)]
  BY <1>1, Zenon DEF FlattenSeq
<1>3. f = CHOOSE h : Flat(ss, h)
  BY Zenon DEF Flat
<1>4. Flat(ss, f)
  BY <1>3, Zenon
<1>5. f = g
  <2> HIDE DEF f
  <2> QED BY <1>4, FlatUnique, Zenon
<1> QED BY <1>2, <1>5, Zenon

\* Nothing flattened is nothing.
LEMMA FlattenEmpty == FlattenSeq(<<>>) = <<>>
BY EmptySeq DEF FlattenSeq

\* A sequence of sequences is flattened from left to right.
LEMMA FlattenAppend ==
    ASSUME NEW A, NEW ss \in Seq(Seq(A)), NEW s \in Seq(A)
    PROVE  /\ FlattenSeq(ss) \in Seq(A)
           /\ FlattenSeq(Append(ss, s)) = FlattenSeq(ss) \o s
<1>0. Len(ss) \in Nat
  BY LenProperties
<1>1. PICK g : Flat(ss, g)
  BY FlatExists
<1> DEFINE n == Len(ss)
           last == IF n = 0 THEN s ELSE g[n] \o s
           h == [i \in 1..(n + 1) |-> IF i = n + 1 THEN last ELSE g[i]]
<1>2. Flat(Append(ss, s), h)
  BY <1>1, FlatGrows, Zenon
<1>3. Append(ss, s) \in Seq(Seq(A)) /\ Append(ss, s) # <<>> /\ Len(Append(ss, s)) = n + 1
  BY AppendProperties
<1>4. h[n + 1] = last
  BY <1>0
<1> HIDE DEF h
<1>5. FlattenSeq(Append(ss, s)) = last
  BY <1>2, <1>3, <1>4, FlattenIsFlat, Zenon
<1>6. CASE ss = <<>>
  <2>1. FlattenSeq(ss) = <<>> /\ n = 0
    BY <1>6, FlattenEmpty, EmptySeq
  <2> QED BY <1>5, <2>1, EmptySeq, ConcatEmptySeq
<1>7. CASE ss # <<>>
  <2>1. n # 0 /\ n \in 1..n
    BY <1>0, <1>7, EmptySeq
  <2>2. FlattenSeq(ss) = g[n]
    BY <1>1, <1>7, FlattenIsFlat, Zenon
  <2>3. g[n] \in Seq(A)
    BY <1>1, <2>1, FlatType
  <2> QED BY <1>5, <2>1, <2>2, <2>3, Zenon
<1> QED BY <1>6, <1>7

\* Two sequences of sequences can be flattened apart.
LEMMA FlattenConcat ==
    ASSUME NEW A, NEW ss \in Seq(Seq(A))
    PROVE  \A tt \in Seq(Seq(A)) : FlattenSeq(ss \o tt) = FlattenSeq(ss) \o FlattenSeq(tt)
<1> DEFINE T == {tt \in Seq(Seq(A)) : FlattenSeq(ss \o tt) = FlattenSeq(ss) \o FlattenSeq(tt)}
<1>0. \A tt \in Seq(Seq(A)) : FlattenSeq(tt) \in Seq(A)
  BY FlattenAppend, EmptySeq
<1>1. <<>> \in T
  <2>1. ss \o <<>> = ss /\ FlattenSeq(ss) \o <<>> = FlattenSeq(ss)
    BY <1>0, ConcatEmptySeq
  <2> QED BY <2>1, FlattenEmpty, EmptySeq
<1>2. ASSUME NEW tt \in Seq(Seq(A)), NEW s \in Seq(A), tt \in T
      PROVE  Append(tt, s) \in T
  <2>1. ss \o Append(tt, s) = Append(ss \o tt, s)
    OBVIOUS
  <2>2. ss \o tt \in Seq(Seq(A)) /\ Append(tt, s) \in Seq(Seq(A))
    BY ConcatProperties, AppendProperties
  <2>3. FlattenSeq(Append(ss \o tt, s)) = FlattenSeq(ss \o tt) \o s
    BY <2>2, FlattenAppend
  <2>4. FlattenSeq(Append(tt, s)) = FlattenSeq(tt) \o s
    BY FlattenAppend
  <2>5. FlattenSeq(ss \o tt) = FlattenSeq(ss) \o FlattenSeq(tt)
    BY <1>2
  <2>6. (FlattenSeq(ss) \o FlattenSeq(tt)) \o s = FlattenSeq(ss) \o (FlattenSeq(tt) \o s)
    BY <1>0, ConcatAssociative
  <2>7. FlattenSeq(ss \o Append(tt, s)) = FlattenSeq(ss) \o FlattenSeq(Append(tt, s))
    BY <2>1, <2>3, <2>4, <2>5, <2>6, Zenon
  <2> QED BY <2>2, <2>7
<1> HIDE DEF T
<1>3. \A tt \in Seq(Seq(A)) : tt \in T
  BY <1>1, <1>2, SequenceInduction
<1> QED BY <1>3 DEF T

\* A sequence of sequences of length one is the sequence of their elements.
LEMMA FlattenSingletons ==
    ASSUME NEW A
    PROVE  \A s \in Seq(A) : FlattenSeq([i \in DOMAIN s |-> <<s[i]>>]) = s
<1> DEFINE M(s) == [i \in DOMAIN s |-> <<s[i]>>]
           T == {s \in Seq(A) : FlattenSeq(M(s)) = s}
<1>0. ASSUME NEW s \in Seq(A) PROVE M(s) \in Seq(Seq(A))
  <2>1. Len(s) \in Nat /\ DOMAIN s = 1..Len(s)
    BY LenProperties
  <2>2. \A i \in 1..Len(s) : <<s[i]>> \in Seq(A)
    BY ElementOfSeq
  <2> QED BY <2>1, <2>2, SeqDef
<1>1. <<>> \in T
  <2>1. M(<<>>) = <<>>
    OBVIOUS
  <2> QED BY <2>1, FlattenEmpty, EmptySeq
<1>2. ASSUME NEW s \in Seq(A), NEW e \in A, s \in T
      PROVE  Append(s, e) \in T
  <2>1. M(Append(s, e)) = Append(M(s), <<e>>)
    OBVIOUS
  <2>2. <<e>> \in Seq(A)
    OBVIOUS
  <2>3. FlattenSeq(Append(M(s), <<e>>)) = FlattenSeq(M(s)) \o <<e>>
    BY <1>0, <2>2, FlattenAppend
  <2>4. s \o <<e>> = Append(s, e) /\ Append(s, e) \in Seq(A)
    BY AppendIsConcat, AppendProperties
  <2>5. FlattenSeq(M(Append(s, e))) = Append(s, e)
    <3> HIDE DEF M
    <3>1. FlattenSeq(M(s)) = s
      BY <1>2
    <3> QED BY <2>1, <2>3, <2>4, <3>1, Zenon
  <2> QED BY <2>4, <2>5
<1> HIDE DEF T
<1>3. \A s \in Seq(A) : s \in T
  BY <1>1, <1>2, SequenceInduction
<1> QED BY <1>3 DEF T

-----------------------------------------------------------------------------
(* substitute_parameters.                                                  *)

\* The provers do not know that a literal is a STRING, so the words that the
\* conversions write are added to the tokens by hand.
Symbol == Token \cup {Quote} \cup {Word(w) : w \in {"true", "false", "0", "1", "50"}}
Line == Seq(Symbol)

\* What a text is mapped to before it is flattened again.
Mapped(text, n, v) == [i \in DOMAIN text |-> IF text[i] = Hole(n) THEN v ELSE <<text[i]>>]

\* Mapping gives texts.
LEMMA MappedProperties ==
    ASSUME NEW s \in Line, NEW n, NEW v \in Line
    PROVE  /\ Mapped(s, n, v) \in Seq(Line) /\ Len(Mapped(s, n, v)) = Len(s)
           /\ ReplaceHole(s, n, v) = FlattenSeq(Mapped(s, n, v))
           /\ ReplaceHole(s, n, v) \in Line
<1>1. Len(s) \in Nat /\ DOMAIN s = 1..Len(s)
  BY LenProperties DEF Line
<1>2. \A i \in 1..Len(s) : <<s[i]>> \in Line
  BY ElementOfSeq DEF Line
<1>3. Mapped(s, n, v) \in [1..Len(s) -> Line]
  BY <1>1, <1>2 DEF Mapped
<1>4. Mapped(s, n, v) \in Seq(Line) /\ Len(Mapped(s, n, v)) = Len(s)
  BY <1>1, <1>3, SeqDef
<1>5. ReplaceHole(s, n, v) = FlattenSeq(Mapped(s, n, v))
  BY DEF ReplaceHole, Mapped
<1>6. ReplaceHole(s, n, v) \in Line
  BY <1>4, <1>5, FlattenAppend DEF Line
<1> QED BY <1>4, <1>5, <1>6

\* Two texts can be mapped apart.
LEMMA MappedConcat ==
    ASSUME NEW s \in Line, NEW t \in Line, NEW n, NEW v \in Line
    PROVE  Mapped(s \o t, n, v) = Mapped(s, n, v) \o Mapped(t, n, v)
<1> DEFINE a == Mapped(s, n, v)
           b == Mapped(t, n, v)
           c == Mapped(s \o t, n, v)
<1>1. /\ s \o t \in Line /\ Len(s \o t) = Len(s) + Len(t) /\ Len(s) \in Nat /\ Len(t) \in Nat
      /\ \A i \in 1..(Len(s) + Len(t)) :
            (s \o t)[i] = IF i <= Len(s) THEN s[i] ELSE t[i - Len(s)]
  BY ConcatProperties, LenProperties DEF Line
<1>2. /\ a \in Seq(Line) /\ Len(a) = Len(s)
      /\ b \in Seq(Line) /\ Len(b) = Len(t)
      /\ c \in Seq(Line) /\ Len(c) = Len(s) + Len(t)
  BY <1>1, MappedProperties
<1>3. a \o b \in Seq(Line) /\ Len(a \o b) = Len(a) + Len(b)
  <2> HIDE DEF a, b, c
  <2> QED BY <1>2, ConcatProperties
<1>4. ASSUME NEW i \in 1..(Len(a) + Len(b))
      PROVE  (a \o b)[i] = IF i <= Len(a) THEN a[i] ELSE b[i - Len(a)]
  <2> HIDE DEF a, b, c
  <2> QED BY <1>2, ConcatProperties
<1>5. ASSUME NEW i \in 1..Len(c)
      PROVE  c[i] = (a \o b)[i]
  <2>1. c[i] = IF (s \o t)[i] = Hole(n) THEN v ELSE <<(s \o t)[i]>>
    <3>1. DOMAIN (s \o t) = 1..Len(c)
      BY <1>1, <1>2, LenProperties DEF Line
    <3> QED BY <3>1 DEF Mapped
  <2>2. CASE i <= Len(s)
    <3>1. i \in DOMAIN s /\ (s \o t)[i] = s[i] /\ (a \o b)[i] = a[i]
      BY <1>1, <1>2, <1>4, <2>2, LenProperties DEF Line
    <3> HIDE DEF c
    <3> QED BY <2>1, <3>1 DEF Mapped
  <2>3. CASE ~(i <= Len(s))
    <3> DEFINE j == i - Len(s)
    <3>1. j \in DOMAIN t /\ (s \o t)[i] = t[j] /\ (a \o b)[i] = b[j]
      <4>1. j \in 1..Len(t) /\ i \in 1..(Len(s) + Len(t)) /\ i \in 1..(Len(a) + Len(b))
        BY <1>1, <1>2, <2>3
      <4>2. ~(i <= Len(a)) /\ i - Len(a) = j
        BY <1>2, <2>3
      <4>3. (a \o b)[i] = b[j]
        <5> HIDE DEF a, b, c, j
        <5> QED BY <1>4, <4>1, <4>2, Zenon
      <4>4. (s \o t)[i] = t[j]
        BY <1>1, <2>3, <4>1
      <4>5. DOMAIN t = 1..Len(t)
        BY LenProperties DEF Line
      <4> QED BY <4>1, <4>3, <4>4, <4>5
    <3> HIDE DEF c, j
    <3> QED BY <2>1, <3>1 DEF Mapped
  <2> QED BY <2>2, <2>3
<1> HIDE DEF a, b, c
<1>6. c = a \o b
  BY <1>2, <1>3, <1>5, SeqEqual
<1> QED BY <1>6 DEF a, b, c

\* Two texts can be replaced in apart.
LEMMA ReplaceConcat ==
    ASSUME NEW s \in Line, NEW t \in Line, NEW n, NEW v \in Line
    PROVE  ReplaceHole(s \o t, n, v) = ReplaceHole(s, n, v) \o ReplaceHole(t, n, v)
<1>1. s \o t \in Line
  BY ConcatProperties DEF Line
<1>2. ReplaceHole(s \o t, n, v) = FlattenSeq(Mapped(s, n, v) \o Mapped(t, n, v))
  <2>1. ReplaceHole(s \o t, n, v) = FlattenSeq(Mapped(s \o t, n, v))
    BY <1>1, MappedProperties
  <2>2. Mapped(s \o t, n, v) = Mapped(s, n, v) \o Mapped(t, n, v)
    BY MappedConcat
  <2> QED BY <2>1, <2>2, Zenon
<1>3. Mapped(s, n, v) \in Seq(Line) /\ Mapped(t, n, v) \in Seq(Line)
  BY MappedProperties
<1>4. FlattenSeq(Mapped(s, n, v) \o Mapped(t, n, v))
        = FlattenSeq(Mapped(s, n, v)) \o FlattenSeq(Mapped(t, n, v))
  BY <1>3, FlattenConcat DEF Line
<1>5. /\ ReplaceHole(s, n, v) = FlattenSeq(Mapped(s, n, v))
      /\ ReplaceHole(t, n, v) = FlattenSeq(Mapped(t, n, v))
  BY MappedProperties
<1> QED BY <1>2, <1>4, <1>5, Zenon

\* A text without the placeholder stays as it is.
LEMMA ReplaceNone ==
    ASSUME NEW s \in Line, NEW n, NEW v \in Line, \A i \in DOMAIN s : s[i] # Hole(n)
    PROVE  ReplaceHole(s, n, v) = s
<1>1. Mapped(s, n, v) = [i \in DOMAIN s |-> <<s[i]>>]
  BY DEF Mapped
<1>2. ReplaceHole(s, n, v) = FlattenSeq(Mapped(s, n, v))
  BY MappedProperties
<1>3. FlattenSeq([i \in DOMAIN s |-> <<s[i]>>]) = s
  BY FlattenSingletons DEF Line
<1> QED BY <1>1, <1>2, <1>3, Zenon

\* The placeholder alone becomes the value.
LEMMA ReplaceOne ==
    ASSUME NEW n, Hole(n) \in Symbol, NEW v \in Line
    PROVE  ReplaceHole(<<Hole(n)>>, n, v) = v
<1> DEFINE s == <<Hole(n)>>
<1>1. s \in Line
  <2> HIDE DEF Hole
  <2> QED BY DEF Line
<1>2. Mapped(s, n, v) = <<v>>
  BY DEF Mapped
<1>3. <<v>> = Append(<<>>, v) /\ <<>> \in Seq(Line)
  BY EmptySeq
<1>4. FlattenSeq(Append(<<>>, v)) = FlattenSeq(<<>>) \o v
  BY <1>3, FlattenAppend DEF Line
<1>5. <<>> \o v = v
  BY ConcatEmptySeq DEF Line
<1>6. ReplaceHole(s, n, v) = FlattenSeq(Mapped(s, n, v))
  BY <1>1, MappedProperties
<1> HIDE DEF s
<1>7. ReplaceHole(s, n, v) = v
  BY <1>2, <1>3, <1>4, <1>5, <1>6, FlattenEmpty, Zenon
<1> QED BY <1>7 DEF s

\* Replacing in a text that was put together from pieces is replacing in the
\* pieces.
LEMMA ReplaceFlatten ==
    ASSUME NEW n, NEW v \in Line
    PROVE  \A ss \in Seq(Line) :
              ReplaceHole(FlattenSeq(ss), n, v)
                = FlattenSeq([i \in DOMAIN ss |-> ReplaceHole(ss[i], n, v)])
<1> DEFINE M(ss) == [i \in DOMAIN ss |-> ReplaceHole(ss[i], n, v)]
           T == {ss \in Seq(Line) : ReplaceHole(FlattenSeq(ss), n, v) = FlattenSeq(M(ss))}
<1>0. ASSUME NEW ss \in Seq(Line)
      PROVE  M(ss) \in Seq(Line) /\ FlattenSeq(ss) \in Line
  <2>1. Len(ss) \in Nat /\ DOMAIN ss = 1..Len(ss)
    BY LenProperties
  <2>2. \A i \in 1..Len(ss) : ReplaceHole(ss[i], n, v) \in Line
    BY ElementOfSeq, MappedProperties
  <2>3. M(ss) \in [1..Len(ss) -> Line]
    BY <2>1, <2>2
  <2>4. M(ss) \in Seq(Line)
    BY <2>1, <2>3, SeqDef
  <2> QED BY <2>4, FlattenAppend, EmptySeq DEF Line
<1>1. <<>> \in T
  <2>1. M(<<>>) = <<>> /\ <<>> \in Seq(Line) /\ <<>> \in Line
    BY EmptySeq DEF Line
  <2>2. ReplaceHole(<<>>, n, v) = <<>>
    BY <2>1, ReplaceNone
  <2> QED BY <2>1, <2>2, FlattenEmpty
<1>2. ASSUME NEW ss \in Seq(Line), NEW s \in Line, ss \in T
      PROVE  Append(ss, s) \in T
  <2>0. Append(ss, s) \in Seq(Line)
    BY AppendProperties
  <2>1. M(Append(ss, s)) = Append(M(ss), ReplaceHole(s, n, v))
    <3> DEFINE tt == Append(ss, s)
               m == Len(ss)
               r == ReplaceHole(s, n, v)
    <3>1. /\ Len(tt) = m + 1 /\ tt[m + 1] = s /\ \A i \in 1..m : tt[i] = ss[i]
          /\ DOMAIN tt = 1..(m + 1) /\ DOMAIN ss = 1..m /\ m \in Nat
      BY <2>0, AppendProperties, LenProperties
    <3>2. /\ DOMAIN M(ss) = 1..m /\ Len(M(ss)) = m
          /\ \A i \in 1..m : M(ss)[i] = ReplaceHole(ss[i], n, v)
      BY <1>0, <3>1, LenProperties
    <3>3. /\ DOMAIN M(tt) = 1..(m + 1) /\ M(tt) \in Seq(Line) /\ Len(M(tt)) = m + 1
          /\ \A i \in 1..(m + 1) : M(tt)[i] = ReplaceHole(tt[i], n, v)
      <4>1. DOMAIN M(tt) = 1..(m + 1) /\ \A i \in 1..(m + 1) : M(tt)[i] = ReplaceHole(tt[i], n, v)
        <5> HIDE DEF tt
        <5> QED BY <3>1
      <4>2. M(tt) \in Seq(Line)
        BY <1>0, <2>0
      <4> HIDE DEF M, tt
      <4> QED BY <3>1, <4>1, <4>2, LenProperties
    <3>4. r \in Line /\ M(ss) \in Seq(Line)
      BY <1>0, MappedProperties
    <3> HIDE DEF M, tt, r
    <3>5. /\ Append(M(ss), r) \in Seq(Line) /\ Len(Append(M(ss), r)) = m + 1
          /\ Append(M(ss), r)[m + 1] = r /\ \A i \in 1..m : Append(M(ss), r)[i] = M(ss)[i]
      BY <3>2, <3>4, AppendProperties
    <3>6. ASSUME NEW i \in 1..(m + 1)
          PROVE  M(tt)[i] = Append(M(ss), r)[i]
      <4>1. CASE i = m + 1
        BY <3>1, <3>3, <3>5, <4>1 DEF r
      <4>2. CASE i # m + 1
        <5>1. i \in 1..m
          BY <3>1, <4>2
        <5> QED BY <3>1, <3>2, <3>3, <3>5, <5>1
      <4> QED BY <4>1, <4>2
    <3>7. M(tt) = Append(M(ss), r)
      BY <3>3, <3>5, <3>6, SeqEqual
    <3> QED BY <3>7 DEF tt, r
  <2> HIDE DEF M
  <2>2. FlattenSeq(Append(ss, s)) = FlattenSeq(ss) \o s
    BY FlattenAppend DEF Line
  <2>3. ReplaceHole(FlattenSeq(ss) \o s, n, v)
          = ReplaceHole(FlattenSeq(ss), n, v) \o ReplaceHole(s, n, v)
    BY <1>0, ReplaceConcat
  <2>4. FlattenSeq(Append(M(ss), ReplaceHole(s, n, v))) = FlattenSeq(M(ss)) \o ReplaceHole(s, n, v)
    <3>1. M(ss) \in Seq(Line) /\ ReplaceHole(s, n, v) \in Line
      BY <1>0, MappedProperties
    <3> QED BY <3>1, FlattenAppend DEF Line
  <2>5. ReplaceHole(FlattenSeq(ss), n, v) = FlattenSeq(M(ss))
    BY <1>2
  <2>6. ReplaceHole(FlattenSeq(Append(ss, s)), n, v) = FlattenSeq(M(Append(ss, s)))
    BY <2>1, <2>2, <2>3, <2>4, <2>5, Zenon
  <2> QED BY <2>0, <2>6
<1> HIDE DEF T
<1>3. \A ss \in Seq(Line) : ss \in T
  BY <1>1, <1>2, SequenceInduction
<1> QED BY <1>3 DEF T

\* What the loop of substitute_parameters has made of the command.
Loop(command, values, g) ==
    g = [k \in 0..Len(command) |->
            IF k = 0 THEN command
            ELSE IF command[k] \in Captures(command)
                 THEN ReplaceHole(g[k - 1], command[k].t, Escape(values[command[k].t]))
                 ELSE g[k - 1]]

\* There is only one such function.
LEMMA LoopUnique ==
    ASSUME NEW command \in Line, NEW values, NEW g, NEW h,
           Loop(command, values, g), Loop(command, values, h)
    PROVE  g = h
<1> DEFINE N == Len(command)
           F(x, k) == IF command[k] \in Captures(command)
                      THEN ReplaceHole(x, command[k].t, Escape(values[command[k].t])) ELSE x
           S == {n \in Nat : n \in 0..N => g[n] = h[n]}
<1>0. N \in Nat
  BY LenProperties DEF Line
<1>1. /\ g = [k \in 0..N |-> IF k = 0 THEN command ELSE F(g[k - 1], k)]
      /\ h = [k \in 0..N |-> IF k = 0 THEN command ELSE F(h[k - 1], k)]
  BY Zenon DEF Loop
<1> HIDE DEF F
<1>2. 0 \in S
  BY <1>0, <1>1
<1>3. ASSUME NEW n \in Nat, n \in S
      PROVE  n + 1 \in S
  <2>1. SUFFICES ASSUME n + 1 \in 0..N PROVE g[n + 1] = h[n + 1]
    OBVIOUS
  <2>2. n + 1 # 0 /\ (n + 1) - 1 = n /\ n \in 0..N
    BY <1>0, <2>1
  <2>3. g[n + 1] = F(g[(n + 1) - 1], n + 1)
    BY <1>1, <2>1, <2>2, Zenon
  <2>4. h[n + 1] = F(h[(n + 1) - 1], n + 1)
    BY <1>1, <2>1, <2>2, Zenon
  <2>5. g[n] = h[n]
    BY <1>3, <2>2
  <2> QED BY <2>2, <2>3, <2>4, <2>5, Zenon
<1> HIDE DEF S
<1>4. \A n \in Nat : n \in S
  BY <1>2, <1>3, Induction
<1>5. \A k \in 0..N : g[k] = h[k]
  BY <1>0, <1>4 DEF S
<1>6. g = [k \in 0..N |-> g[k]] /\ h = [k \in 0..N |-> h[k]]
  <2> DEFINE G == [k \in 0..N |-> IF k = 0 THEN command ELSE F(g[k - 1], k)]
             H == [k \in 0..N |-> IF k = 0 THEN command ELSE F(h[k - 1], k)]
  <2>1. G = [k \in 0..N |-> G[k]] /\ H = [k \in 0..N |-> H[k]]
    OBVIOUS
  <2>2. g = G /\ h = H
    BY <1>1
  <2> HIDE DEF G, H
  <2> QED BY <2>1, <2>2
<1> QED BY <1>5, <1>6

\* Escaping a text without placeholders gives one.
LEMMA EscapePlain ==
    ASSUME NEW v \in Line
    PROVE  /\ Escape(v) \in Line
           /\ (\A i \in DOMAIN v : ~v[i].hole) => \A i \in DOMAIN Escape(v) : ~Escape(v)[i].hole
<1>1. <<Quote>> \in Line /\ ~Quote.hole
  <2>0. ~Quote.hole
    BY DEF Quote, Word
  <2>1. Quote \in Symbol
    BY DEF Symbol
  <2> HIDE DEF Quote
  <2> QED BY <2>0, <2>1 DEF Line
<1> DEFINE w == <<Quote>> \o v \o <<Quote>>
<1>2. w \in Line
  BY <1>1, ConcatProperties DEF Line
<1>3. ASSUME \A i \in DOMAIN v : ~v[i].hole
      PROVE  \A i \in DOMAIN w : ~w[i].hole
  <2> SUFFICES ASSUME NEW i \in DOMAIN w PROVE ~w[i].hole
    OBVIOUS
  <2>1. w[i] = Quote \/ \E j \in DOMAIN v : w[i] = v[j]
    BY <1>1 DEF Line
  <2> QED BY <1>1, <1>3, <2>1
<1> QED BY <1>2, <1>3 DEF Escape

\* One placeholder after the other or all at once: as long as no value holds a
\* placeholder itself, the loop gives the command with its placeholders
\* replaced and nothing else.
LEMMA SubstituteAtOnce ==
    ASSUME NEW command \in Line, NEW values,
           \A tok \in Captures(command) :
              values[tok.t] \in Line /\ \A i \in DOMAIN values[tok.t] : ~values[tok.t][i].hole
    PROVE  Substitute(command, values)
             = FlattenSeq([i \in DOMAIN command |->
                             IF command[i] \in Captures(command)
                             THEN Escape(values[command[i].t]) ELSE <<command[i]>>])
<1> DEFINE N == Len(command)
           C == Captures(command)
           V(tok) == Escape(values[tok.t])
           Done(k, i) == command[i] \in C /\ \E j \in 1..k : command[j] = command[i]
           Piece(k, i) == IF Done(k, i) THEN V(command[i]) ELSE <<command[i]>>
           Pieces(k) == [i \in 1..N |-> Piece(k, i)]
           g == [k \in 0..N |-> FlattenSeq(Pieces(k))]
<1>0. N \in Nat /\ DOMAIN command = 1..N /\ \A i \in 1..N : command[i] \in Symbol
  BY LenProperties, ElementOfSeq DEF Line
<1>1. \A tok \in C : tok \in Symbol /\ tok = Hole(tok.t)
  BY <1>0 DEF Captures, ToSet, Symbol, Token, Quote, Word, Hole
<1>2. \A tok \in C : V(tok) \in Line /\ \A i \in DOMAIN V(tok) : ~V(tok)[i].hole
  BY EscapePlain
<1>3. \A i \in 1..N : <<command[i]>> \in Line
  BY <1>0 DEF Line
<1> HIDE DEF C, V
<1>4. \A k : Pieces(k) \in Seq(Line)
  <2>1. [1..N -> Line] \subseteq Seq(Line)
    BY <1>0, SeqDef
  <2>2. ASSUME NEW k PROVE Pieces(k) \in [1..N -> Line]
    BY <1>2, <1>3
  <2> QED BY <2>1, <2>2
<1>5. g[0] = command
  <2>1. Pieces(0) = [i \in DOMAIN command |-> <<command[i]>>]
    BY <1>0
  <2>2. FlattenSeq([i \in DOMAIN command |-> <<command[i]>>]) = command
    BY FlattenSingletons DEF Line
  <2>3. g[0] = FlattenSeq(Pieces(0))
    BY <1>0
  <2> HIDE DEF g, Pieces
  <2> QED BY <2>1, <2>2, <2>3, Zenon
<1>6. ASSUME NEW k \in 1..N, command[k] \notin C
      PROVE  g[k] = g[k - 1]
  <2>1. k \in 0..N /\ k - 1 \in 0..N /\ \A j \in 1..k : j = k \/ j \in 1..(k - 1)
    BY <1>0
  <2>2. \A i \in 1..N : Done(k, i) <=> Done(k - 1, i)
    BY <1>0, <1>6, <2>1
  <2>3. Pieces(k) = Pieces(k - 1)
    <3> HIDE DEF Done
    <3> QED BY <2>2
  <2>4. g[k] = FlattenSeq(Pieces(k)) /\ g[k - 1] = FlattenSeq(Pieces(k - 1))
    BY <2>1
  <2> HIDE DEF g, Pieces
  <2> QED BY <2>3, <2>4, Zenon
<1>7. ASSUME NEW k \in 1..N, command[k] \in C
      PROVE  g[k] = ReplaceHole(g[k - 1], command[k].t, V(command[k]))
  <2> DEFINE n == command[k].t
             v == V(command[k])
  <2>1. k \in 0..N /\ k - 1 \in 0..N /\ \A j \in 1..k : j = k \/ j \in 1..(k - 1)
    BY <1>0
  <2>2. command[k] = Hole(n) /\ Hole(n) \in Symbol /\ v \in Line
    BY <1>1, <1>2, <1>7
  <2>3. ASSUME NEW i \in 1..N
        PROVE  ReplaceHole(Piece(k - 1, i), n, v) = Piece(k, i)
    <3>1. CASE Done(k - 1, i)
      <4>1. Done(k, i)
        BY <1>0, <3>1, <2>1
      <4>2. Piece(k - 1, i) = V(command[i]) /\ Piece(k, i) = V(command[i])
        <5> HIDE DEF Done
        <5> QED BY <3>1, <4>1
      <4>3. V(command[i]) \in Line /\ \A m \in DOMAIN V(command[i]) : V(command[i])[m] # Hole(n)
        BY <1>2, <3>1 DEF Hole
      <4>4. ReplaceHole(V(command[i]), n, v) = V(command[i])
        BY <2>2, <4>3, ReplaceNone
      <4> HIDE DEF Piece
      <4> QED BY <4>2, <4>4, Zenon
    <3>2. CASE ~Done(k - 1, i) /\ command[i] = command[k]
      <4>1. Done(k, i)
        BY <1>0, <1>7, <3>2
      <4>2. Piece(k - 1, i) = <<Hole(n)>> /\ Piece(k, i) = v
        <5> HIDE DEF Done
        <5> QED BY <2>2, <3>2, <4>1
      <4>3. ReplaceHole(<<Hole(n)>>, n, v) = v
        BY <2>2, ReplaceOne
      <4> HIDE DEF Piece
      <4> QED BY <4>2, <4>3, Zenon
    <3>3. CASE ~Done(k - 1, i) /\ command[i] # command[k]
      <4>1. ~Done(k, i)
        BY <1>0, <3>3, <2>1
      <4>2. Piece(k - 1, i) = <<command[i]>> /\ Piece(k, i) = <<command[i]>>
        <5> HIDE DEF Done
        <5> QED BY <3>3, <4>1
      <4>3. \A m \in DOMAIN <<command[i]>> : <<command[i]>>[m] # Hole(n)
        BY <2>2, <3>3
      <4>4. ReplaceHole(<<command[i]>>, n, v) = <<command[i]>>
        BY <1>3, <2>2, <4>3, ReplaceNone
      <4> HIDE DEF Piece
      <4> QED BY <4>2, <4>4, Zenon
    <3> QED BY <3>1, <3>2, <3>3
  <2>4. [i \in DOMAIN Pieces(k - 1) |-> ReplaceHole(Pieces(k - 1)[i], n, v)] = Pieces(k)
    <3> HIDE DEF Piece, n, v
    <3> QED BY <2>3
  <2>5. ReplaceHole(FlattenSeq(Pieces(k - 1)), n, v)
          = FlattenSeq([i \in DOMAIN Pieces(k - 1) |-> ReplaceHole(Pieces(k - 1)[i], n, v)])
    <3> HIDE DEF Pieces, n, v
    <3> QED BY <1>4, <2>2, ReplaceFlatten
  <2>6. g[k] = FlattenSeq(Pieces(k)) /\ g[k - 1] = FlattenSeq(Pieces(k - 1))
    BY <2>1
  <2> HIDE DEF g, Pieces
  <2> QED BY <2>4, <2>5, <2>6, Zenon
<1>8. Loop(command, values, g)
  <2> DEFINE F(k) == IF k = 0 THEN command
                     ELSE IF command[k] \in C
                          THEN ReplaceHole(g[k - 1], command[k].t, V(command[k]))
                          ELSE g[k - 1]
  <2>1. ASSUME NEW k \in 0..N PROVE g[k] = F(k)
    <3>1. k = 0 \/ k \in 1..N
      BY <1>0
    <3> HIDE DEF g
    <3> QED BY <1>5, <1>6, <1>7, <3>1
  <2>2. g = [k \in 0..N |-> g[k]]
    OBVIOUS
  <2>3. g = [k \in 0..N |-> F(k)]
    <3> HIDE DEF F, g
    <3> QED BY <2>1, <2>2
  <2> HIDE DEF g
  <2> QED BY <2>3, Zenon DEF Loop, C, V
<1>9. Substitute(command, values) = g[N]
  <2> DEFINE f == CHOOSE f : Loop(command, values, f)
  <2>1. Substitute(command, values) = f[N]
    BY Zenon DEF Substitute, Loop
  <2> HIDE DEF g
  <2>2. Loop(command, values, f)
    BY <1>8, Zenon
  <2>3. f = g
    <3> HIDE DEF f
    <3> QED BY <1>8, <2>2, LoopUnique
  <2> QED BY <2>1, <2>3, Zenon
<1>10. g[N] = FlattenSeq(Pieces(N))
  BY <1>0
<1>11. Pieces(N) = [i \in DOMAIN command |-> IF command[i] \in C THEN V(command[i]) ELSE <<command[i]>>]
  <2>1. \A i \in 1..N : Done(N, i) <=> command[i] \in C
    OBVIOUS
  <2> HIDE DEF Done
  <2> QED BY <1>0, <2>1
<1> HIDE DEF g, Pieces
<1> QED BY <1>9, <1>10, <1>11, Zenon DEF C, V

-----------------------------------------------------------------------------
(* The conversions of values.                                              *)

\* The numerals of the model and what str::parse and to_string make of them.
LEMMA Numerals ==
    /\ DOMAIN Number = {"0", "1", "+1", "50"}
    /\ Number["0"] = 0 /\ Number["1"] = 1 /\ Number["+1"] = 1 /\ Number["50"] = 50
    /\ Numeral[0] = "0" /\ Numeral[1] = "1" /\ Numeral[50] = "50"
BY DEF Number, Numeral

\* The words of parse_bool, and the case they are folded to.
LEMMA Truths ==
    /\ DOMAIN Truth = {"true", "yes", "1", "false", "0"} /\ DOMAIN Lower = {"High", "Yes"}
    /\ Truth["true"] = TRUE /\ Truth["yes"] = TRUE /\ Truth["1"] = TRUE
    /\ Truth["false"] = FALSE /\ Truth["0"] = FALSE
<1>1. DOMAIN Truth = {"true", "yes", "1", "false", "0"} /\ DOMAIN Lower = {"High", "Yes"}
  BY DEF Truth, Lower
<1>2. \A w \in {"true", "yes", "1", "false", "0"} : Truth[w] = (w \in {"true", "yes", "1"})
  BY Zenon DEF Truth
<1>3. "false" \notin {"true", "yes", "1"} /\ "0" \notin {"true", "yes", "1"}
  OBVIOUS
<1>4. Truth["true"] = TRUE /\ Truth["yes"] = TRUE /\ Truth["1"] = TRUE
  BY <1>2, Zenon
<1>5. Truth["false"] = FALSE
  <2>1. Truth["false"] = ("false" \in {"true", "yes", "1"})
    BY <1>2, Zenon
  <2>2. ("false" \in {"true", "yes", "1"}) = FALSE
    BY <1>3
  <2> QED BY <2>1, <2>2, Zenon
<1>6. Truth["0"] = FALSE
  <2>1. Truth["0"] = ("0" \in {"true", "yes", "1"})
    BY <1>2, Zenon
  <2>2. ("0" \in {"true", "yes", "1"}) = FALSE
    BY <1>3
  <2> QED BY <2>1, <2>2, Zenon
<1> QED BY <1>1, <1>4, <1>5, <1>6, Zenon

\* A text that str::parse reads is one word, a numeral.
LEMMA ParsedInt ==
    ASSUME NEW v \in Line
    PROVE  /\ \A n \in ParseInt(v) :
                  /\ ParseInt(v) = {n} /\ n \in {0, 1, 50}
                  /\ Len(v) = 1 /\ ~v[1].hole /\ v[1].t \in DOMAIN Number
           /\ \A n \in {0, 1, 50} : ParseInt(<<Word(Numeral[n])>>) = {n}
<1>1. ASSUME NEW n \in ParseInt(v)
      PROVE  /\ ParseInt(v) = {n} /\ n \in {0, 1, 50}
             /\ Len(v) = 1 /\ ~v[1].hole /\ v[1].t \in DOMAIN Number
  BY <1>1, Numerals DEF ParseInt, WordsOf
<1>2. ASSUME NEW n \in {0, 1, 50}
      PROVE  ParseInt(<<Word(Numeral[n])>>) = {n}
  <2>1. Numeral[n] \in DOMAIN Number /\ Number[Numeral[n]] = n
    BY Numerals
  <2>2. WordsOf(<<Word(Numeral[n])>>) = {Numeral[n]}
    BY DEF WordsOf, Word
  <2> QED BY <2>1, <2>2 DEF ParseInt
<1> QED BY <1>1, <1>2

\* What parse_bool reads, and what the client writes for it.
LEMMA ParsedBool ==
    /\ \A v : \A b \in ParseBool(v) : b \in BOOLEAN /\ ParseBool(v) = {b}
    /\ ParseBool(<<Word("true")>>) = {TRUE} /\ ParseBool(<<Word("false")>>) = {FALSE}
<1>1. ASSUME NEW v, NEW b \in ParseBool(v)
      PROVE  b \in BOOLEAN /\ ParseBool(v) = {b}
  <2> DEFINE w == ToLower(v)
  <2>1. ParseBool(v) = {Truth[x] : x \in WordsOf(w) \cap DOMAIN Truth}
    BY DEF ParseBool
  <2>2. WordsOf(w) = {} \/ WordsOf(w) = {w[1].t}
    BY DEF WordsOf
  <2>3. \A x \in DOMAIN Truth : Truth[x] \in BOOLEAN
    BY Truths
  <2> HIDE DEF w
  <2> QED BY <1>1, <2>1, <2>2, <2>3
<1>2. ASSUME NEW x \in {"true", "false"}
      PROVE  ParseBool(<<Word(x)>>) = {Truth[x]}
  <2>1. ToLower(<<Word(x)>>) = <<Word(x)>>
    BY Truths DEF ToLower, Word
  <2>2. WordsOf(<<Word(x)>>) = {x}
    BY DEF WordsOf, Word
  <2>3. x \in DOMAIN Truth
    BY Truths
  <2> QED BY <2>1, <2>2, <2>3 DEF ParseBool
<1> QED BY <1>1, <1>2, Truths

\* Trimming gives a text, and leaves one word that is not blank as it is.
LEMMA Trimmed ==
    ASSUME NEW s \in Line
    PROVE  /\ Trim(s) \in Line
           /\ Len(s) = 1 /\ s[1] # Blank => Trim(s) = s
<1> DEFINE solid == {i \in DOMAIN s : s[i] # Blank}
<1>0. Len(s) \in Nat /\ DOMAIN s = 1..Len(s) /\ \A i \in 1..Len(s) : s[i] \in Symbol
  BY LenProperties, ElementOfSeq DEF Line
<1>1. CASE solid = {}
  <2>1. Trim(s) = <<>>
    BY <1>1 DEF Trim
  <2>2. ~(Len(s) = 1 /\ s[1] # Blank)
    BY <1>0, <1>1
  <2> QED BY <2>1, <2>2, EmptySeq DEF Line
<1>2. CASE solid # {}
  <2>1. Min(solid) \in solid /\ Max(solid) \in solid
    <3>1. solid \subseteq 1..Len(s)
      BY <1>0
    <3> HIDE DEF solid
    <3> QED BY <1>0, <1>2, <3>1, FirstAndLast
  <2>2. Min(solid) \in 1..Len(s) /\ Max(solid) \in 1..Len(s)
    BY <1>0, <2>1
  <2>3. Trim(s) = SubSeq(s, Min(solid), Max(solid))
    BY <1>2 DEF Trim
  <2> HIDE DEF solid
  <2>4. SubSeq(s, Min(solid), Max(solid)) \in Seq(Symbol)
    <3>1. \A i \in Min(solid)..Max(solid) : s[i] \in Symbol
      BY <1>0, <2>2
    <3> QED BY <2>2, <3>1, SubSeqProperties
  <2>5. Len(s) = 1 => SubSeq(s, Min(solid), Max(solid)) = s
    <3>1. Len(s) = 1 => Min(solid) = 1 /\ Max(solid) = Len(s)
      BY <2>2
    <3>2. SubSeq(s, 1, Len(s)) = s
      BY SubSeqFull DEF Line
    <3> QED BY <3>1, <3>2
  <2> QED BY <2>3, <2>4, <2>5 DEF Line
<1> QED BY <1>1, <1>2

\* A text is a line.
LEMMA TextIsLine == Text \subseteq Line
<1> SUFFICES ASSUME NEW s \in Text PROVE s \in Line
  OBVIOUS
<1>1. s \in Seq(Token)
  BY DEF Text
<1>2. Token \subseteq Symbol
  BY DEF Symbol
<1> HIDE DEF Symbol, Token
<1> QED BY <1>1, <1>2 DEF Line

\* What the client sends for a value says what the user said, and is a value
\* the parameter admits on the server.
LEMMA SentValue ==
    ASSUME NEW p \in Parameter, p.type \in Types, NEW raw \in Line, NEW v \in ClientValue(p, raw)
    PROVE  v \in Line /\ Says(p, raw, v) /\ ValidValue(p, v)
<1> DEFINE text == Trim(raw)
<1>0. text \in Line
  BY Trimmed
<1>1. CASE p.type = "slider"
  <2>1. PICK n \in ParseInt(text) : Within(p, n) /\ v = <<Word(Numeral[n])>>
    <3>1. ClientValue(p, raw) = {<<Word(Numeral[n])>> : n \in {m \in ParseInt(text) : Within(p, m)}}
      BY <1>1 DEF ClientValue
    <3> HIDE DEF text
    <3> QED BY <3>1
  <2> HIDE DEF text
  <2>2. ParseInt(text) = {n} /\ n \in {0, 1, 50}
    BY <1>0, <2>1, ParsedInt
  <2>3. ParseInt(v) = {n}
    BY <1>0, <2>1, <2>2, ParsedInt
  <2>4. Word(Numeral[n]) \in Symbol
    <3>1. Numeral[n] \in {"true", "false", "0", "1", "50"}
      BY <2>2, Numerals
    <3> QED BY <3>1, Zenon DEF Symbol
  <2>5. v \in Line
    <3> HIDE DEF Word, Symbol
    <3> QED BY <2>1, <2>4 DEF Line
  <2>6. Says(p, raw, v)
    BY <1>1, <2>2, <2>3 DEF Says, text
  <2>7. ValidValue(p, v)
    BY <1>1, <2>1, <2>3 DEF ValidValue
  <2> QED BY <2>5, <2>6, <2>7
<1>2. CASE p.type = "toggle"
  <2>1. PICK b \in ParseBool(text) : v = <<Word(IF b THEN "true" ELSE "false")>>
    <3>1. ClientValue(p, raw) = {<<Word(IF b THEN "true" ELSE "false")>> : b \in ParseBool(text)}
      BY <1>2 DEF ClientValue
    <3> HIDE DEF text
    <3> QED BY <3>1
  <2> HIDE DEF text
  <2>2. ParseBool(text) = {b} /\ (b = TRUE \/ b = FALSE)
    BY <2>1, ParsedBool
  <2>3. \/ b = TRUE /\ v = <<Word("true")>>
        \/ b = FALSE /\ v = <<Word("false")>>
    BY <2>1, <2>2, Zenon
  <2>4. ParseBool(v) = {b}
    BY <2>3, ParsedBool, Zenon
  <2>5. PICK w \in {"true", "false"} : v = <<Word(w)>>
    BY <2>3, Zenon
  <2>6. v \in Line
    <3>1. Word(w) \in Symbol
      BY Zenon DEF Symbol
    <3> HIDE DEF Word, Symbol
    <3> QED BY <2>5, <3>1 DEF Line
  <2>7. Says(p, raw, v)
    <3>1. ParseBool(v) = ParseBool(Trim(raw))
      BY <2>2, <2>4, Zenon DEF text
    <3> QED BY <1>2, <3>1 DEF Says
  <2>8. ValidValue(p, v)
    <3>1. WordsOf(v) = {w}
      BY <2>5 DEF WordsOf, Word
    <3> QED BY <1>2, <3>1 DEF ValidValue
  <2> QED BY <2>6, <2>7, <2>8
<1>3. CASE p.type = "dropdown"
  <2>1. PICK i \in DOMAIN p.options : v = p.options[i] /\ ToLower(p.options[i]) = ToLower(text)
    <3> DEFINE same == {i \in DOMAIN p.options : ToLower(p.options[i]) = ToLower(text)}
    <3>1. ClientValue(p, raw) = {p.options[i] : i \in {j \in same : \A k \in same : j <= k}}
      BY <1>3 DEF ClientValue
    <3>2. PICK i \in same : v = p.options[i]
      <4> HIDE DEF same
      <4> QED BY <3>1
    <3> QED BY <3>2
  <2>2. v \in Line
    <3>1. p.options \in Seq(Text)
      BY DEF Parameter
    <3> QED BY <2>1, <3>1, TextIsLine
  <2>3. Says(p, raw, v)
    BY <1>3, <2>1, Zenon DEF Says
  <2>4. ValidValue(p, v)
    BY <1>3, <2>1 DEF ValidValue, ToSet
  <2> QED BY <2>2, <2>3, <2>4
<1>4. CASE p.type = "text"
  <2>1. v = text /\ Matches(p, text)
    BY <1>4 DEF ClientValue
  <2>2. Says(p, raw, v) /\ ValidValue(p, v)
    BY <1>4, <2>1 DEF Says, ValidValue
  <2> QED BY <1>0, <2>1, <2>2
<1> QED BY <1>1, <1>2, <1>3, <1>4 DEF Types

\* The client sends something for every value the server would have taken
\* from the user, unless trimming changes it.
LEMMA TakenValue ==
    ASSUME NEW p \in Parameter, p.type \in Types, NEW raw \in Line, ValidValue(p, raw),
           p.type \in {"text", "dropdown"} => Trim(raw) = raw
    PROVE  ClientValue(p, raw) # {}
<1>0. Blank.t = " "
  BY DEF Blank, Word
<1>1. CASE p.type = "slider"
  <2>1. PICK n \in ParseInt(raw) : Within(p, n)
    BY <1>1 DEF ValidValue
  <2>2. Len(raw) = 1 /\ raw[1].t \in DOMAIN Number
    BY <2>1, ParsedInt
  <2>3. raw[1] # Blank
    BY <1>0, <2>2, Numerals
  <2>4. Trim(raw) = raw
    BY <2>2, <2>3, Trimmed
  <2>5. ClientValue(p, raw) = {<<Word(Numeral[m])>> : m \in {k \in ParseInt(raw) : Within(p, k)}}
    BY <1>1, <2>4 DEF ClientValue
  <2> QED BY <2>1, <2>5
<1>2. CASE p.type = "toggle"
  <2>1. PICK w \in WordsOf(raw) : w \in {"true", "false", "1", "0"}
    BY <1>2 DEF ValidValue
  <2>2. Len(raw) = 1 /\ ~raw[1].hole /\ raw[1].t = w
    BY <2>1 DEF WordsOf
  <2>3. raw[1] # Blank
    BY <1>0, <2>1, <2>2
  <2>4. Trim(raw) = raw
    BY <2>2, <2>3, Trimmed
  <2>5. DOMAIN raw = {1}
    BY <2>2, LenProperties DEF Line
  <2>6. Len(ToLower(raw)) = 1 /\ ToLower(raw)[1] = raw[1]
    <3>1. w \notin DOMAIN Lower
      BY <2>1, Truths
    <3>2. ToLower(raw)[1] = raw[1]
      BY <2>2, <2>5, <3>1 DEF ToLower
    <3>3. ToLower(raw) \in [1..1 -> {raw[1]}] /\ 1..1 = {1}
      BY <2>2, <2>5, <3>1 DEF ToLower
    <3>4. Len(ToLower(raw)) = 1
      BY <3>3
    <3> QED BY <3>2, <3>4
  <2>7. WordsOf(ToLower(raw)) = {w}
    BY <2>2, <2>6 DEF WordsOf
  <2>8. ParseBool(raw) # {}
    <3>1. w \in DOMAIN Truth
      BY <2>1, Truths
    <3>2. w \in WordsOf(ToLower(raw)) \cap DOMAIN Truth
      BY <2>7, <3>1
    <3> QED BY <3>2, Zenon DEF ParseBool
  <2>9. ClientValue(p, raw) = {<<Word(IF b THEN "true" ELSE "false")>> : b \in ParseBool(raw)}
    BY <1>2, <2>4 DEF ClientValue
  <2> DEFINE F(b) == <<Word(IF b THEN "true" ELSE "false")>>
  <2>10. ClientValue(p, raw) = {F(b) : b \in ParseBool(raw)}
    BY <2>9, Zenon
  <2> HIDE DEF F
  <2> QED BY <2>8, <2>10
<1>3. CASE p.type = "dropdown"
  <2> DEFINE same == {i \in DOMAIN p.options : ToLower(p.options[i]) = ToLower(raw)}
  <2>1. ClientValue(p, raw) = {p.options[i] : i \in {j \in same : \A k \in same : j <= k}}
    BY <1>3 DEF ClientValue
  <2>2. raw \in ToSet(p.options)
    BY <1>3 DEF ValidValue
  <2>3. same # {}
    BY <2>2, Zenon DEF ToSet
  <2>4. same \subseteq Nat
    BY DEF Parameter
  <2>5. PICK j \in same : \A k \in same : j <= k
    <3> HIDE DEF same
    <3> QED BY <2>3, <2>4, Least
  <2> HIDE DEF same
  <2> QED BY <2>1, <2>5
<1>4. CASE p.type = "text"
  BY <1>4 DEF ValidValue, ClientValue
<1> QED BY <1>1, <1>2, <1>3, <1>4 DEF Types

-----------------------------------------------------------------------------
(* What the client sends and what the server makes of it, name by name.    *)

TypesKnown(params) == \A i \in DOMAIN params : params[i].type \in Types
DefaultsOptional(params) == \A i \in DOMAIN params : Optional(params[i].default)

\* The last parameter of a name is one of the parameters.
LEMMA LastIsThere ==
    ASSUME NEW params \in Seq(Parameter), NEW n \in NamesOf(params)
    PROVE  \E m \in DOMAIN params : LastOf(params, n) = params[m] /\ params[m].name = n
<1> DEFINE at == {i \in DOMAIN params : params[i].name = n}
<1>1. at # {}
  BY DEF NamesOf
<1>2. at \subseteq 1..Len(params) /\ Len(params) \in Nat
  BY LenProperties
<1>3. Max(at) \in at
  <2> HIDE DEF at
  <2> QED BY <1>1, <1>2, FirstAndLast
<1>4. LastOf(params, n) = params[Max(at)]
  BY DEF LastOf
<1>5. Max(at) \in DOMAIN params /\ params[Max(at)].name = n
  BY <1>3
<1> QED BY <1>4, <1>5

\* The client's list keeps everything of a parameter but an empty default.
LEMMA ListKeeps ==
    ASSUME NEW params \in Seq(Parameter)
    PROVE  /\ FromProto(params) \in Seq(Parameter)
           /\ NamesOf(FromProto(params)) = NamesOf(params)
           /\ DOMAIN FromProto(params) = DOMAIN params
           /\ \A i \in DOMAIN params :
                 /\ FromProto(params)[i] \in Parameter
                 /\ FromProto(params)[i].name = params[i].name
                 /\ FromProto(params)[i].type = params[i].type
                 /\ FromProto(params)[i].default = params[i].default \ {<<>>}
                 /\ \A v : ValidValue(FromProto(params)[i], v) <=> ValidValue(params[i], v)
<1> DEFINE L(p) == [p EXCEPT !.default = @ \ {<<>>}]
<1>1. FromProto(params) = [i \in DOMAIN params |-> L(params[i])]
  BY DEF FromProto
<1>2. ASSUME NEW p \in Parameter
      PROVE  /\ L(p) \in Parameter /\ L(p).name = p.name /\ L(p).type = p.type
             /\ L(p).default = p.default \ {<<>>} /\ L(p).options = p.options
             /\ L(p).min = p.min /\ L(p).max = p.max /\ L(p).validation = p.validation
  BY DEF Parameter
<1> HIDE DEF L
<1>3. ASSUME NEW p \in Parameter, NEW v
      PROVE  ValidValue(L(p), v) <=> ValidValue(p, v)
  BY <1>2 DEF ValidValue, Within, Matches
<1>4. \A i \in DOMAIN params : params[i] \in Parameter
  OBVIOUS
<1>5. FromProto(params) \in Seq(Parameter)
  <2>1. Len(params) \in Nat /\ DOMAIN params = 1..Len(params)
    OBVIOUS
  <2> HIDE DEF Parameter
  <2> QED BY <1>1, <1>2, <1>4, <2>1
<1>6. NamesOf(FromProto(params)) = NamesOf(params)
  <2>1. DOMAIN FromProto(params) = DOMAIN params
    BY <1>1
  <2>2. \A i \in DOMAIN params : FromProto(params)[i].name = params[i].name
    BY <1>1, <1>2, <1>4
  <2> QED BY <2>1, <2>2 DEF NamesOf
<1> HIDE DEF Parameter
<1> QED BY <1>1, <1>2, <1>3, <1>4, <1>5, <1>6

\* Every value the client sends says what the user said to the last
\* parameter of its name, which would take it.
LEMMA SanitizedSays ==
    ASSUME NEW params \in Seq(Parameter), TypesKnown(params), NEW given \in Inputs,
           ClientAccepts(params, given), NEW n \in DOMAIN given
    PROVE  /\ n \in NamesOf(params) /\ Sanitized(params, given)[n] \in Line
           /\ Says(LastOf(params, n), given[n], Sanitized(params, given)[n])
           /\ ValidValue(LastOf(params, n), Sanitized(params, given)[n])
<1>1. n \in NamesOf(params)
  BY DEF ClientAccepts
<1>2. PICK m \in DOMAIN params : LastOf(params, n) = params[m] /\ params[m].name = n
  BY <1>1, LastIsThere
<1>3. given[n] \in Line
  BY ScriptAssumption, TextIsLine
<1>4. params[m] \in Parameter /\ params[m].type \in Types
  BY DEF TypesKnown
<1>5. ClientValue(params[m], given[n]) # {}
  BY <1>2 DEF ClientAccepts
<1>6. Sanitized(params, given)[n] = CHOOSE v \in ClientValue(params[m], given[n]) : TRUE
  BY <1>2 DEF Sanitized
<1>7. Sanitized(params, given)[n] \in ClientValue(params[m], given[n])
  BY <1>5, <1>6
<1> QED BY <1>1, <1>2, <1>3, <1>4, <1>7, SentValue

\* Every value the server uses was sent or is the default of the last
\* parameter of its name, which takes it.
LEMMA ValidatedValue ==
    ASSUME NEW params \in Seq(Parameter), DefaultsOptional(params), NEW sent,
           ServerAccepts(params, sent), NEW n \in NamesOf(params)
    PROVE  /\ ValidValue(LastOf(params, n), Validated(params, sent)[n])
           /\ n \in DOMAIN sent => Validated(params, sent)[n] = sent[n]
           /\ n \notin DOMAIN sent =>
                 /\ Validated(params, sent)[n] \in LastOf(params, n).default
                 /\ Validated(params, sent)[n] \in Line
<1>1. PICK m \in DOMAIN params : LastOf(params, n) = params[m] /\ params[m].name = n
  BY LastIsThere
<1>2. PICK v \in Given(params[m], sent) : ValidValue(params[m], v)
  BY DEF ServerAccepts
<1>3. \A x, y \in Given(params[m], sent) : x = y
  BY DEF Given, DefaultsOptional, Optional
<1>4. Validated(params, sent)[n] = CHOOSE x \in Given(params[m], sent) : TRUE
  BY <1>1 DEF Validated
<1>5. Validated(params, sent)[n] = v
  BY <1>2, <1>3, <1>4
<1>6. n \in DOMAIN sent => v = sent[n]
  BY <1>1, <1>2 DEF Given
<1>7. n \notin DOMAIN sent => v \in params[m].default
  BY <1>1, <1>2 DEF Given
<1>8. params[m].default \subseteq Line
  <2>1. params[m] \in Parameter
    OBVIOUS
  <2> QED BY <2>1, TextIsLine DEF Parameter
<1> QED BY <1>1, <1>2, <1>5, <1>6, <1>7, <1>8

-----------------------------------------------------------------------------
(* The request, from the list to the run or the refusal.                   *)

Asking == {"list", "check", "open", "ready", "clientRefused", "serverRefused"}
RequestKept ==
    /\ DOMAIN req = {"config", "reloads", "listed", "given", "sent", "command"}
    /\ req.config \in Capabilities
ListHeld == req.listed \in Seq(Parameter) /\ TypesKnown(req.listed)
AskedInv ==
    /\ pc \in Asking => RequestKept
    /\ pc \in Asking \ {"list"} => ListHeld
    /\ pc \in Asking \ {"list", "check"} => req.given \in Inputs
    /\ pc = "clientRefused" => ~ClientAccepts(req.listed, req.given)
    /\ pc \in {"open", "ready", "serverRefused"} =>
          ClientAccepts(req.listed, req.given) /\ req.sent = Sanitized(req.listed, req.given)
    /\ pc = "serverRefused" => ~ServerRuns(req.config, req.sent)
    /\ pc = "ready" =>
          /\ ServerRuns(req.config, req.sent)
          /\ req.command = Substitute(req.config.command, Validated(req.config.parameters, req.sent))

\* The configuration in force has typed parameters with at most one default.
LEMMA InForce ==
    ASSUME NEW c \in Capabilities
    PROVE  /\ c.parameters \in Seq(Parameter) /\ DefaultsOptional(c.parameters)
           /\ c.command \in Text
BY ScriptAssumption DEF Capability, DefaultsOptional

\* The request starts in the list.
LEMMA AskedInit == Init => AskedInv
BY DEF Init, AskedInv, Asking, RequestKept

\* No step runs or refuses a request other than as the checks say.
LEMMA AskedStep == AskedInv /\ [Next]_vars => AskedInv'
<1> SUFFICES ASSUME AskedInv, [Next]_vars
             PROVE  AskedInv'
  OBVIOUS
<1>1. CASE ListCommands
  <2>1. RequestKept
    BY <1>1 DEF ListCommands, AskedInv, Asking
  <2>2. CASE Listable(req.config.parameters)
    <3>1. pc' = "check" /\ req' = [req EXCEPT !.listed = FromProto(req.config.parameters)]
      BY <1>1, <2>2 DEF ListCommands
    <3>2. RequestKept'
      BY <2>1, <3>1 DEF RequestKept
    <3>3. req'.listed = FromProto(req.config.parameters)
      BY <2>1, <3>1 DEF RequestKept
    <3>4. FromProto(req.config.parameters) \in Seq(Parameter)
          /\ TypesKnown(FromProto(req.config.parameters))
      <4>1. req.config.parameters \in Seq(Parameter)
        BY <2>1, InForce DEF RequestKept
      <4> QED BY <2>2, <4>1, ListKeeps DEF Listable, TypesKnown
    <3> QED BY <3>1, <3>2, <3>3, <3>4 DEF AskedInv, Asking, ListHeld
  <2>3. CASE ~Listable(req.config.parameters)
    BY <1>1, <2>3 DEF ListCommands, AskedInv, Asking
  <2> QED BY <2>2, <2>3
<1>2. CASE ReloadConfig
  <2>1. RequestKept /\ pc' = pc /\ pc \in {"list", "check", "open"}
    BY <1>2 DEF ReloadConfig, AskedInv, Asking
  <2>2. PICK c \in Capabilities : req' = [req EXCEPT !.config = c, !.reloads = @ + 1]
    BY <1>2 DEF ReloadConfig
  <2>3. RequestKept' /\ req'.listed = req.listed /\ req'.given = req.given /\ req'.sent = req.sent
    BY <2>1, <2>2 DEF RequestKept
  <2> QED BY <2>1, <2>3 DEF AskedInv, Asking, ListHeld
<1>3. CASE ClientValidates
  <2>1. RequestKept /\ ListHeld /\ pc = "check"
    BY <1>3 DEF ClientValidates, AskedInv, Asking
  <2>2. PICK given \in Inputs :
           IF ClientAccepts(req.listed, given)
           THEN /\ req' = [req EXCEPT !.given = given, !.sent = Sanitized(req.listed, given)]
                /\ pc' = "open"
           ELSE req' = [req EXCEPT !.given = given] /\ pc' = "clientRefused"
    BY <1>3 DEF ClientValidates
  <2>3. RequestKept' /\ req'.listed = req.listed /\ req'.given = given
    BY <2>1, <2>2 DEF RequestKept
  <2>4. CASE ClientAccepts(req.listed, given)
    <3>1. req'.sent = Sanitized(req.listed, given) /\ pc' = "open"
      BY <2>1, <2>2, <2>4 DEF RequestKept
    <3> QED BY <2>1, <2>3, <2>4, <3>1 DEF AskedInv, Asking, ListHeld
  <2>5. CASE ~ClientAccepts(req.listed, given)
    <3>1. pc' = "clientRefused"
      BY <2>2, <2>5
    <3> QED BY <2>1, <2>3, <2>5, <3>1 DEF AskedInv, Asking, ListHeld
  <2> QED BY <2>4, <2>5
<1>4. CASE OpenSession
  <2>1. RequestKept /\ ListHeld /\ pc = "open"
    BY <1>4 DEF OpenSession, AskedInv, Asking
  <2> DEFINE run == Substitute(req.config.command, Validated(req.config.parameters, req.sent))
  <2>2. CASE ServerRuns(req.config, req.sent)
    <3>1. pc' = "ready" /\ req' = [req EXCEPT !.command = run]
      BY <1>4, <2>2 DEF OpenSession
    <3> HIDE DEF run
    <3>2. /\ RequestKept' /\ req'.listed = req.listed /\ req'.given = req.given
          /\ req'.sent = req.sent /\ req'.config = req.config /\ req'.command = run
      BY <2>1, <3>1 DEF RequestKept
    <3> USE DEF run
    <3> QED BY <2>1, <2>2, <3>1, <3>2 DEF AskedInv, Asking, ListHeld
  <2>3. CASE ~ServerRuns(req.config, req.sent)
    <3>1. pc' = "serverRefused" /\ req' = req
      BY <1>4, <2>3 DEF OpenSession
    <3> QED BY <2>1, <2>3, <3>1 DEF AskedInv, Asking, ListHeld, RequestKept
  <2> QED BY <2>2, <2>3
<1>5. CASE TaskStep \/ WaitFails \/ Timeout
  <2>1. pc' \notin Asking
    BY <1>5 DEF TaskStep, SendReady, Spawn, SendLine, WaitChild, Kill, SendExit, SendError,
                SendClosed, NextLine, SendThen, WaitFails, Timeout, Asking
  <2> QED BY <2>1 DEF AskedInv, Asking
<1>6. CASE TakeEvent \/ Exits \/ (\E st \in Streams : WriteLine(st)) \/ UNCHANGED vars
  <2>1. pc' = pc /\ req' = req
    BY <1>6 DEF TakeEvent, Exits, WriteLine, vars, task, process
  <2> QED BY <2>1 DEF AskedInv, ListHeld, RequestKept
<1> QED BY <1>1, <1>2, <1>3, <1>4, <1>5, <1>6 DEF Next, RequestStep

\* The invariant holds in every reachable state.
LEMMA AskedAlways == Spec => []AskedInv
BY AskedInit, AskedStep, PTL DEF Spec

\* What the checks let through is what was asked.
LEMMA AskedMeans == AskedInv => RunsWhatWasAsked
<1> DEFINE params == req.config.parameters
           values == Validated(params, req.sent)
           command == req.config.command
           plain == \A n \in DOMAIN values : \A i \in DOMAIN values[n] : ~values[n][i].hole
           AtOnce(tok) == IF tok \in Captures(command) THEN Escape(values[tok.t]) ELSE <<tok>>
           once == FlattenSeq([i \in DOMAIN command |-> AtOnce(command[i])])
<1> SUFFICES ASSUME AskedInv, pc = "ready"
             PROVE  /\ \A n \in NamesOf(params) : ValidValue(LastOf(params, n), values[n])
                    /\ \A n \in DOMAIN req.given :
                          Says(LastOf(req.listed, n), req.given[n], values[n])
                    /\ \A n \in NamesOf(params) \ DOMAIN req.given :
                          values[n] \in LastOf(params, n).default
                    /\ plain => req.command = once
  BY Zenon DEF RunsWhatWasAsked
<1>1. /\ RequestKept /\ ListHeld /\ req.given \in Inputs
      /\ ClientAccepts(req.listed, req.given) /\ req.sent = Sanitized(req.listed, req.given)
      /\ ServerRuns(req.config, req.sent)
      /\ req.command = Substitute(command, values)
  BY DEF AskedInv, Asking
<1>2. /\ params \in Seq(Parameter) /\ DefaultsOptional(params)
      /\ command \in Line
  BY <1>1, InForce, TextIsLine DEF RequestKept
<1>3. ServerAccepts(params, req.sent) /\ AllProvided(command, values)
  BY <1>1 DEF ServerRuns
<1>4. DOMAIN req.sent = DOMAIN req.given /\ DOMAIN values = NamesOf(params)
  BY <1>1 DEF Sanitized, Validated
<1>5. \A n \in DOMAIN req.given :
         /\ n \in NamesOf(params) /\ req.sent[n] \in Line
         /\ Says(LastOf(req.listed, n), req.given[n], req.sent[n])
  <2>1. \A n \in DOMAIN req.given : n \in NamesOf(params)
    BY <1>3, <1>4 DEF ServerAccepts
  <2> QED BY <1>1, <2>1, SanitizedSays DEF ListHeld
<1>6. \A n \in NamesOf(params) :
         /\ ValidValue(LastOf(params, n), values[n])
         /\ n \in DOMAIN req.sent => values[n] = req.sent[n]
         /\ n \notin DOMAIN req.sent => values[n] \in LastOf(params, n).default /\ values[n] \in Line
  BY <1>2, <1>3, ValidatedValue
<1> HIDE DEF values, params, command
<1>7. \A n \in NamesOf(params) : values[n] \in Line
  BY <1>4, <1>5, <1>6
<1>8. plain => req.command = once
  <2> SUFFICES ASSUME plain PROVE req.command = once
    OBVIOUS
  <2>1. \A tok \in Captures(command) :
           values[tok.t] \in Line /\ \A i \in DOMAIN values[tok.t] : ~values[tok.t][i].hole
    BY <1>3, <1>4, <1>7, Zenon DEF AllProvided
  <2>2. Substitute(command, values)
          = FlattenSeq([i \in DOMAIN command |->
                          IF command[i] \in Captures(command)
                          THEN Escape(values[command[i].t]) ELSE <<command[i]>>])
    BY <1>2, <2>1, SubstituteAtOnce
  <2> QED BY <1>1, <2>2, Zenon
<1> QED BY <1>4, <1>5, <1>6, <1>8

\* ShellScript: the command that runs is the configured one with every
\* placeholder replaced by what the user asked for, or else by the default,
\* for every capability, every input and any number of reloads.
THEOREM AskedIsRun == Spec => []RunsWhatWasAsked
BY AskedAlways, AskedMeans, PTL

\* What one check refuses, the other refuses.
LEMMA ChecksMean == AskedInv => ClientAndServerAgree
<1> DEFINE c == req.config
           params == c.parameters
           Strange(i) == params[i].name \notin DOMAIN req.given
                         /\ \E d \in params[i].default : d = <<>> \/ ~ValidValue(params[i], d)
<1> SUFFICES ASSUME AskedInv, pc \in {"clientRefused", "serverRefused"},
                    req.listed = FromProto(params), ValidateCapability(c), ~OddConfig
             PROVE  pc = "clientRefused" /\ (TrimmedValue \/ ~ServerRuns(c, req.given))
  BY Zenon DEF ClientAndServerAgree
<1>1. RequestKept /\ ListHeld /\ req.given \in Inputs
  BY DEF AskedInv, Asking
<1>2. params \in Seq(Parameter)
  BY <1>1, InForce DEF RequestKept
<1>3. /\ c.mode = "one_shot"
      /\ \A tok \in ToSet(c.command) : tok.hole => tok.t \notin Dashed \ NamesOf(params)
      /\ \A i \in DOMAIN params : ~Strange(i)
  BY Zenon DEF OddConfig
<1>4. /\ \A i, j \in DOMAIN params : params[i].name = params[j].name => i = j
      /\ PlaceholdersDefined(c.command, params)
  BY <1>3 DEF ValidateCapability
<1>5. /\ req.listed \in Seq(Parameter) /\ TypesKnown(req.listed)
      /\ NamesOf(req.listed) = NamesOf(params) /\ DOMAIN req.listed = DOMAIN params
      /\ \A i \in DOMAIN params :
            /\ req.listed[i] \in Parameter
            /\ req.listed[i].name = params[i].name
            /\ req.listed[i].type \in Types
            /\ req.listed[i].default = params[i].default \ {<<>>}
            /\ \A v : ValidValue(req.listed[i], v) <=> ValidValue(params[i], v)
  BY <1>1, <1>2, ListKeeps DEF ListHeld, TypesKnown
<1>6. \A n \in DOMAIN req.given : req.given[n] \in Line
  BY <1>1, ScriptAssumption, TextIsLine
<1>7. CASE pc = "serverRefused"
  <2>1. /\ ClientAccepts(req.listed, req.given) /\ req.sent = Sanitized(req.listed, req.given)
        /\ ~ServerRuns(c, req.sent)
    BY <1>7 DEF AskedInv
  <2>2. DOMAIN req.sent = DOMAIN req.given
    BY <2>1 DEF Sanitized
  <2>3. ASSUME NEW i \in DOMAIN params
        PROVE  \E v \in Given(params[i], req.sent) : ValidValue(params[i], v)
    <3>1. CASE params[i].name \in DOMAIN req.given
      <4> DEFINE n == params[i].name
      <4>1. n \in NamesOf(req.listed)
        BY <1>5 DEF NamesOf
      <4>2. PICK m \in DOMAIN req.listed : LastOf(req.listed, n) = req.listed[m] /\ req.listed[m].name = n
        <5> HIDE DEF n
        <5> QED BY <1>5, <4>1, LastIsThere
      <4>3. m = i
        BY <1>4, <1>5, <4>2
      <4>4. ValidValue(LastOf(req.listed, n), req.sent[n])
        BY <1>1, <1>5, <2>1, <3>1, SanitizedSays
      <4>5. ValidValue(params[i], req.sent[n])
        BY <1>5, <4>2, <4>3, <4>4
      <4> QED BY <2>2, <3>1, <4>5 DEF Given
    <3>2. CASE params[i].name \notin DOMAIN req.given
      <4>1. req.listed[i].default # {}
        BY <1>5, <2>1, <3>2 DEF ClientAccepts
      <4>2. PICK d \in params[i].default : TRUE
        BY <1>5, <4>1
      <4>3. ValidValue(params[i], d)
        BY <1>3, <3>2
      <4> QED BY <2>2, <3>2, <4>3 DEF Given
    <3> QED BY <3>1, <3>2
  <2>4. ServerAccepts(params, req.sent)
    BY <1>5, <2>1, <2>2, <2>3 DEF ServerAccepts, ClientAccepts
  <2>5. AllProvided(c.command, Validated(params, req.sent))
    <3>1. DOMAIN Validated(params, req.sent) = NamesOf(params)
      BY DEF Validated
    <3>2. ASSUME NEW tok \in Captures(c.command) PROVE tok.t \in NamesOf(params)
      <4>1. tok \in ToSet(c.command) /\ tok.hole
        BY DEF Captures
      <4>2. tok.t \notin Dashed => tok.t \in NamesOf(params)
        BY <1>4, <4>1, Zenon DEF PlaceholdersDefined
      <4> QED BY <1>3, <4>1, <4>2
    <3> QED BY <3>1, <3>2, Zenon DEF AllProvided
  <2> QED BY <1>3, <2>1, <2>4, <2>5 DEF ServerRuns
<1>8. CASE pc = "clientRefused"
  <2> SUFFICES ASSUME ~TrimmedValue, ServerRuns(c, req.given)
               PROVE  FALSE
    BY <1>8
  <2>1. ~ClientAccepts(req.listed, req.given)
    BY <1>8 DEF AskedInv
  <2>2. ServerAccepts(params, req.given)
    BY DEF ServerRuns
  <2>3. ASSUME NEW i \in DOMAIN req.listed, req.listed[i].name \in DOMAIN req.given
        PROVE  ClientValue(req.listed[i], req.given[req.listed[i].name]) # {}
    <3> DEFINE raw == req.given[req.listed[i].name]
    <3>1. ValidValue(params[i], raw)
      BY <1>5, <2>2, <2>3 DEF ServerAccepts, Given
    <3>2. req.listed[i].type \in {"text", "dropdown"} => Trim(raw) = raw
      BY <2>3, Zenon DEF TrimmedValue
    <3>3. raw \in Line
      BY <1>6, <2>3
    <3> HIDE DEF raw
    <3>4. ClientValue(req.listed[i], raw) # {}
      BY <1>5, <3>1, <3>2, <3>3, TakenValue
    <3> QED BY <3>4 DEF raw
  <2>4. ASSUME NEW i \in DOMAIN req.listed, req.listed[i].name \notin DOMAIN req.given
        PROVE  req.listed[i].default # {}
    <3>1. PICK d \in params[i].default : TRUE
      BY <1>5, <2>2, <2>4 DEF ServerAccepts, Given
    <3>2. d # <<>>
      BY <1>3, <1>5, <2>4
    <3> QED BY <1>5, <3>1, <3>2
  <2>5. DOMAIN req.given \subseteq NamesOf(req.listed)
    BY <1>5, <2>2 DEF ServerAccepts
  <2> QED BY <2>1, <2>3, <2>4, <2>5 DEF ClientAccepts
<1> QED BY <1>7, <1>8

\* ShellScript: while the configuration stays what the client listed, the
\* client and the server refuse the same requests, up to the named exceptions,
\* for every capability, every input and any number of reloads.
THEOREM ChecksAgree == Spec => []ClientAndServerAgree
BY AskedAlways, ChecksMean, PTL

-----------------------------------------------------------------------------
(* The session of a run: what the task around the command sends.           *)

\* A sender appends to the events sent.
LEMMA ConcatAppend ==
    ASSUME NEW S, NEW d \in Seq(S), NEW o \in Seq(S), NEW e \in S
    PROVE  d \o Append(o, e) = Append(d \o o, e)
OBVIOUS

\* The event loop only moves the border between delivered and outbound.
LEMMA ConcatMove ==
    ASSUME NEW S, NEW d \in Seq(S), NEW o \in Seq(S), o # <<>>
    PROVE  Append(d, Head(o)) \o Tail(o) = d \o o
OBVIOUS

ScriptEvents ==
    [kind : {"ready", "output", "exit", "timeout", "error", "closed"},
     stream : Streams \cup {"none"}, n : Nat]

ScriptTyped ==
    /\ outbound \in Seq(ScriptEvents) /\ delivered \in Seq(ScriptEvents)
    /\ taken \in [Streams -> Nat]

\* Where the task is before Ready, between Ready and the end, and then.
Early == {"list", "unlisted", "check", "clientRefused", "open", "serverRefused", "ready"}
Working == {"spawn", "select", "send", "kill", "exit", "error", "waitError"}

\* How far the task is says what it has sent.
Stage ==
    /\ pc \in Early \cup Working \cup {"close", "done"}
    /\ pc \in Early <=> Sent = <<>>
    /\ pc \in Working =>
          \A i \in DOMAIN Sent : Sent[i].kind \in {"ready", "output"}
    /\ pc = "close" => Sent[Len(Sent)].kind \in Ends
    /\ pc # "done" => \A i \in DOMAIN Sent : Sent[i].kind # "closed"

\* The process is started once, and the task leaves its loop for the exit only
\* when it has ended or timed out.
ChildIsThere ==
    /\ pc \in Early \cup {"spawn"} => child = "none"
    /\ pc \in {"select", "send", "kill"} => child \in {"running", "exited", "killed"}
    /\ pc = "exit" => timedOut \/ child = "exited"

\* The line in hand is the last one taken, and none after it has been sent.
LineInHand ==
    pc = "send" =>
        /\ showOutput
        /\ \E st \in Streams :
              /\ line = Output(st, taken[st])
              /\ \A i \in LinesOf(st) : Sent[i].n < taken[st]

ScriptInv == ScriptTyped /\ Stage /\ ChildIsThere /\ LineInHand /\ WellFormedSession

\* The task's sends reach the channel: the event loop is there until Closed.
LEMMA ScriptSends ==
    ASSUME ScriptTyped, Stage, pc # "done", NEW e \in ScriptEvents, NEW l,
           SendThen(e, l), delivered' = delivered
    PROVE  /\ outbound' \in Seq(ScriptEvents) /\ pc' = l
           /\ Len(Sent) \in Nat
           /\ DOMAIN Sent = 1..Len(Sent)
           /\ Len(Sent') = Len(Sent) + 1
           /\ DOMAIN Sent' = 1..(Len(Sent) + 1)
           /\ \A i \in 1..Len(Sent) : Sent'[i] = Sent[i]
           /\ Sent'[Len(Sent) + 1] = e
<1>1. outbound \in Seq(ScriptEvents) /\ delivered \in Seq(ScriptEvents)
  BY DEF ScriptTyped
<1>2. ~LoopEnded
  <2>1. SUFFICES ASSUME NEW i \in DOMAIN delivered, delivered[i] = Closed
                 PROVE  FALSE
    BY DEF LoopEnded, ToSet
  <2>2. i \in DOMAIN Sent /\ Sent[i] = delivered[i]
    BY <1>1, ConcatProperties, LenProperties DEF Sent
  <2> QED BY <2>1, <2>2 DEF Stage, Closed, Event
<1>3. outbound' = Append(outbound, e) /\ pc' = l
  BY <1>2 DEF SendThen
<1>4. Sent' = Append(Sent, e)
  BY <1>1, <1>3, ConcatAppend DEF Sent
<1>5. Sent \in Seq(ScriptEvents)
  BY <1>1, ConcatProperties DEF Sent
<1> QED BY <1>1, <1>3, <1>4, <1>5, AppendProperties, LenProperties

\* What may be sent next, and that the session is then still well-formed.
LEMMA ScriptAppends ==
    ASSUME ScriptInv, pc # "done", NEW e \in ScriptEvents, NEW l,
           SendThen(e, l), UNCHANGED <<delivered, taken, showOutput, child>>,
           e.kind = "ready" <=> pc \in Early,
           e.kind \in Ends => pc \in Working,
           e.kind = "closed" => pc = "close",
           e.kind = "output" =>
               /\ showOutput
               /\ e.stream \in Streams => e.n <= taken[e.stream]
               /\ \A i \in LinesOf(e.stream) : Sent[i].n < e.n,
           e.kind = "exit" => child = "exited"
    PROVE  ScriptTyped' /\ WellFormedSession'
<1> DEFINE n == Len(Sent)
<1>1. /\ outbound' \in Seq(ScriptEvents) /\ pc' = l
      /\ n \in Nat /\ DOMAIN Sent = 1..n
      /\ Len(Sent') = n + 1 /\ DOMAIN Sent' = 1..(n + 1)
      /\ \A i \in 1..n : Sent'[i] = Sent[i]
      /\ Sent'[n + 1] = e
  BY ScriptSends DEF ScriptInv
<1> HIDE DEF n
<1>2. ScriptTyped'
  BY <1>1 DEF ScriptInv, ScriptTyped
<1>3. n = 0 <=> pc \in Early
  <2>1. delivered \o outbound \in Seq(ScriptEvents)
    BY ConcatProperties DEF ScriptInv, ScriptTyped
  <2> QED BY <1>1, <2>1, EmptySeq DEF ScriptInv, Stage, Sent, n
<1>4. \A i \in 1..n : Sent[i].kind # "closed"
  BY <1>1 DEF ScriptInv, Stage
<1>5. EventsInOrder'
  <2> SUFFICES ASSUME NEW i \in 1..(n + 1)
               PROVE  /\ (Sent'[i].kind = "ready") <=> (i = 1)
                      /\ Sent'[i].kind \in Ends =>
                            \A j \in 1..(i - 1) : Sent'[j].kind \in {"ready", "output"}
                      /\ Sent'[i].kind = "closed" =>
                            i = n + 1 /\ Sent'[i - 1].kind \in Ends
                      /\ Sent'[i].kind = "output" => showOutput
    BY <1>1 DEF EventsInOrder, Ends
  <2>1. CASE i \in 1..n
    <3>1. Sent'[i] = Sent[i] /\ \A j \in 1..(i - 1) : Sent'[j] = Sent[j]
      BY <1>1, <2>1
    <3>2. /\ (Sent[i].kind = "ready") <=> (i = 1)
          /\ Sent[i].kind \in Ends =>
                \A j \in 1..(i - 1) : Sent[j].kind \in {"ready", "output"}
          /\ Sent[i].kind = "output" => showOutput
      BY <1>1, <2>1 DEF ScriptInv, WellFormedSession, EventsInOrder
    <3> QED BY <1>4, <2>1, <3>1, <3>2
  <2>2. CASE i = n + 1
    <3>1. e.kind = "ready" <=> i = 1
      BY <1>1, <1>3, <2>2
    <3>2. e.kind \in Ends =>
             \A j \in 1..n : Sent[j].kind \in {"ready", "output"}
      BY <1>1 DEF ScriptInv, Stage
    <3>3. e.kind = "closed" => n \in 1..n /\ Sent[n].kind \in Ends
      BY <1>1, <1>3 DEF ScriptInv, Stage, Early, n
    <3>4. i - 1 = n
      BY <1>1, <2>2
    <3> QED BY <1>1, <2>2, <3>1, <3>2, <3>3, <3>4
  <2> QED BY <1>1, <2>1, <2>2
<1>6. ASSUME NEW st \in Streams PROVE LinesInOrder(st)'
  <2>1. /\ \A i, j \in LinesOf(st) : i < j => Sent[i].n < Sent[j].n
        /\ \A i \in LinesOf(st) : Sent[i].n <= taken[st]
    BY DEF ScriptInv, WellFormedSession, LinesInOrder
  <2>2. \A i \in LinesOf(st)' :
           \/ i \in LinesOf(st) /\ i \in 1..n
           \/ i = n + 1 /\ e.kind = "output" /\ e.stream = st
    BY <1>1 DEF LinesOf
  <2>3. \A i \in LinesOf(st)' : Sent'[i].n <= taken'[st]
    BY <1>1, <1>6, <2>1, <2>2
  <2>4. ASSUME NEW i \in LinesOf(st)', NEW j \in LinesOf(st)', i < j
        PROVE  Sent'[i].n < Sent'[j].n
    <3>1. i \in LinesOf(st) /\ i \in 1..n
      BY <1>1, <2>2, <2>4
    <3> QED BY <1>1, <2>1, <2>2, <2>4, <3>1
  <2> QED BY <2>3, <2>4 DEF LinesInOrder
<1>7. ExitIsTrue'
  BY <1>1 DEF ScriptInv, WellFormedSession, ExitIsTrue
<1> QED BY <1>2, <1>5, <1>6, <1>7 DEF WellFormedSession

\* Nothing has been sent when a run begins.
LEMMA ScriptInit == Init => ScriptInv
<1> SUFFICES ASSUME Init PROVE ScriptInv
  OBVIOUS
<1>1. /\ outbound = <<>> /\ delivered = <<>> /\ pc = "list" /\ child = "none"
      /\ taken = [st \in Streams |-> 0]
  BY DEF Init
<1>2. Sent = <<>> /\ DOMAIN Sent = {}
  BY <1>1 DEF Sent
<1>3. ScriptTyped
  BY <1>1, EmptySeq DEF ScriptTyped
<1>4. Stage /\ ChildIsThere /\ LineInHand
  BY <1>1, <1>2 DEF Stage, ChildIsThere, LineInHand, Early, Working
<1>5. WellFormedSession
  BY <1>2 DEF WellFormedSession, EventsInOrder, LinesInOrder,
     LinesOf, ExitIsTrue
<1> QED BY <1>3, <1>4, <1>5 DEF ScriptInv

\* Steps that send nothing: the list, the two checks, the spawn, the wait, the
\* kill, and the command's own steps.  A process that has ended stays dead.
LEMMA ScriptSilent ==
    ASSUME ScriptInv, UNCHANGED <<outbound, delivered, showOutput>>,
           \A st \in Streams : taken[st] <= taken'[st],
           taken' \in [Streams -> Nat],
           child \in {"exited", "killed"} => child' = child,
           child = "running" => child' \in {"running", "exited", "killed"},
           pc' \in Early \cup Working \cup {"close", "done"},
           pc' \in Early <=> pc \in Early,
           pc' \in Working <=> pc \in Working,
           pc' = "close" <=> pc = "close",
           pc' \in Early \cup {"spawn"} => pc \in Early \cup {"spawn"} /\ child' = child,
           pc' \in {"select", "send", "kill"} => pc \in {"select", "send", "kill"} \/ child' = "running",
           pc' = "exit" => timedOut' \/ child' = "exited",
           LineInHand'
    PROVE  ScriptInv'
<1>1. Sent' = Sent /\ \A st : LinesOf(st)' = LinesOf(st)
  BY DEF Sent, LinesOf
<1>2. ScriptTyped' /\ ChildIsThere'
  BY DEF ScriptInv, ScriptTyped, ChildIsThere
<1>3. Stage'
  BY <1>1 DEF ScriptInv, Stage, Early, Working
<1>4. EventsInOrder' /\ ExitIsTrue'
  BY <1>1 DEF ScriptInv, WellFormedSession, EventsInOrder, ExitIsTrue
<1>5. ASSUME NEW st \in Streams PROVE LinesInOrder(st)'
  <2>1. \A i \in LinesOf(st) :
           i \in DOMAIN Sent /\ Sent[i].n \in Nat
    <3>1. Sent \in Seq(ScriptEvents)
      BY ConcatProperties DEF ScriptInv, ScriptTyped, Sent
    <3>2. \A i \in DOMAIN Sent : Sent[i] \in ScriptEvents
      BY <3>1
    <3> QED BY <3>2 DEF LinesOf, ScriptEvents
  <2>2. taken[st] \in Nat /\ taken'[st] \in Nat /\ taken[st] <= taken'[st]
    BY <1>5 DEF ScriptInv, ScriptTyped
  <2>3. \A i \in LinesOf(st) : Sent[i].n <= taken'[st]
    BY <1>5, <2>1, <2>2 DEF ScriptInv, WellFormedSession, LinesInOrder
  <2> QED BY <1>1, <1>5, <2>3 DEF ScriptInv, WellFormedSession, LinesInOrder
<1> QED BY <1>2, <1>3, <1>4, <1>5 DEF ScriptInv, WellFormedSession

\* What the task sends.
LEMMA ScriptSendSteps ==
    ASSUME ScriptInv, SendReady \/ SendLine \/ SendExit
                      \/ SendError \/ SendClosed
    PROVE  ScriptInv'
<1>0. UNCHANGED <<delivered, taken, showOutput, child, line, timedOut>>
  BY DEF SendReady, SendLine, SendExit, SendError,
     SendClosed, process
<1>1. ASSUME NEW e \in ScriptEvents, NEW l, SendThen(e, l), pc # "done",
             ScriptTyped', WellFormedSession',
             l \in {"spawn", "select", "close", "done"},
             l = "spawn" => pc \in Early,
             l \in {"spawn", "select"} =>
                e.kind \in {"ready", "output"} /\ pc \in Working \cup {"ready"},
             l = "select" => child \in {"running", "exited", "killed"},
             l = "close" => e.kind \in Ends,
             l # "done" => e.kind # "closed"
      PROVE  ScriptInv'
  <2> DEFINE n == Len(Sent)
  <2>1. /\ pc' = l /\ n \in Nat /\ DOMAIN Sent = 1..n
        /\ Len(Sent') = n + 1 /\ DOMAIN Sent' = 1..(n + 1)
        /\ \A i \in 1..n : Sent'[i] = Sent[i]
        /\ Sent'[n + 1] = e
    BY <1>0, <1>1, ScriptSends DEF ScriptInv
  <2> HIDE DEF n
  <2>2. \A i \in 1..n : Sent[i].kind # "closed"
    BY <1>1, <2>1 DEF ScriptInv, Stage
  <2>3. pc \in Working \cup {"ready"} =>
           \A i \in 1..n : Sent[i].kind \in {"ready", "output"}
    BY <2>1 DEF ScriptInv, Stage, Early
  <2>4. Sent' # <<>>
    BY <2>1
  <2>5. Stage'
    <3>1. pc' \in Early \cup Working \cup {"close", "done"} /\ pc' \notin Early
      BY <1>1, <2>1 DEF Early, Working
    <3>2. pc' \in Working =>
             \A i \in DOMAIN Sent' : Sent'[i].kind \in {"ready", "output"}
      BY <1>1, <2>1, <2>3 DEF Working
    <3>3. pc' = "close" => Sent'[Len(Sent')].kind \in Ends
      BY <1>1, <2>1
    <3>4. pc' # "done" => \A i \in DOMAIN Sent' : Sent'[i].kind # "closed"
      BY <1>1, <2>1, <2>2
    <3> QED BY <2>4, <3>1, <3>2, <3>3, <3>4 DEF Stage, Ends
  <2>6. ChildIsThere' /\ LineInHand'
    BY <1>0, <1>1, <2>1 DEF ScriptInv, ChildIsThere, LineInHand, Early
  <2> QED BY <1>1, <2>5, <2>6 DEF ScriptInv
<1> USE DEF Early, Working, Ends, Event, ScriptEvents, Streams
<1>2. CASE SendReady
  <2>1. pc = "ready" /\ SendThen(Ready, "spawn")
    BY <1>2 DEF SendReady
  <2>2. Ready \in ScriptEvents /\ Ready.kind = "ready"
    BY DEF Ready
  <2>3. ScriptTyped' /\ WellFormedSession'
    BY <1>0, <2>1, <2>2, ScriptAppends
  <2> QED BY <1>1, <2>1, <2>2, <2>3
<1>3. CASE SendLine
  <2>1. pc = "send" /\ SendThen(line, "select")
    BY <1>3 DEF SendLine
  <2>2. PICK st \in Streams :
           /\ line = Output(st, taken[st])
           /\ \A i \in LinesOf(st) : Sent[i].n < taken[st]
    BY <2>1 DEF ScriptInv, LineInHand
  <2>3. showOutput /\ taken[st] \in Nat /\ child \in {"running", "exited", "killed"}
    BY <2>1 DEF ScriptInv, LineInHand, ScriptTyped, ChildIsThere
  <2>4. /\ line \in ScriptEvents /\ line.kind = "output" /\ line.stream = st
        /\ line.n = taken[st]
    BY <2>2, <2>3 DEF Output
  <2>5. ScriptTyped' /\ WellFormedSession'
    BY <1>0, <2>1, <2>2, <2>3, <2>4, ScriptAppends
  <2> QED BY <1>1, <2>1, <2>3, <2>4, <2>5
<1>4. CASE SendExit
  <2>1. pc = "exit" /\ SendThen(Exit(timedOut), "close")
    BY <1>4 DEF SendExit
  <2>2. Exit(timedOut) \in ScriptEvents /\ Exit(timedOut).kind \in {"exit", "timeout"}
    BY DEF Exit
  <2>3. Exit(timedOut).kind = "exit" => child = "exited"
    BY <2>1 DEF ScriptInv, ChildIsThere, Exit
  <2>4. ScriptTyped' /\ WellFormedSession'
    BY <1>0, <2>1, <2>2, <2>3, ScriptAppends
  <2> QED BY <1>1, <2>1, <2>2, <2>4
<1>5. CASE SendError
  <2>1. pc \in {"error", "waitError"} /\ SendThen(Error, "close")
    BY <1>5 DEF SendError
  <2>2. Error \in ScriptEvents /\ Error.kind = "error"
    BY DEF Error
  <2>3. ScriptTyped' /\ WellFormedSession'
    BY <1>0, <2>1, <2>2, ScriptAppends
  <2> QED BY <1>1, <2>1, <2>2, <2>3
<1>6. CASE SendClosed
  <2>1. pc = "close" /\ SendThen(Closed, "done")
    BY <1>6 DEF SendClosed
  <2>2. Closed \in ScriptEvents /\ Closed.kind = "closed"
    BY DEF Closed
  <2>3. ScriptTyped' /\ WellFormedSession'
    BY <1>0, <2>1, <2>2, ScriptAppends
  <2> QED BY <1>1, <2>1, <2>2, <2>3
<1> QED BY <1>2, <1>3, <1>4, <1>5, <1>6

\* The event loop taking an event leaves what was sent as it is.
LEMMA ScriptTakes == ASSUME ScriptInv, TakeEvent PROVE ScriptInv'
<1>1. /\ outbound \in Seq(ScriptEvents) /\ delivered \in Seq(ScriptEvents) /\ outbound # <<>>
      /\ delivered' = Append(delivered, Head(outbound)) /\ outbound' = Tail(outbound)
      /\ UNCHANGED <<taken, pc, child, showOutput, line, timedOut>>
  BY DEF ScriptInv, ScriptTyped, TakeEvent, process, task
<1>2. Sent' = Sent
  BY <1>1, ConcatMove DEF Sent
<1>3. ScriptTyped'
  BY <1>1, HeadTailProperties, AppendProperties DEF ScriptInv, ScriptTyped
<1>4. Stage' /\ ChildIsThere'
  BY <1>1, <1>2 DEF ScriptInv, Stage, ChildIsThere
<1>5. \A st : LinesOf(st)' = LinesOf(st)
  BY <1>2 DEF LinesOf
<1>6. LineInHand'
  BY <1>1, <1>2, <1>5 DEF ScriptInv, LineInHand, Output, Event
<1>7. WellFormedSession'
  BY <1>1, <1>2, <1>5 DEF ScriptInv, WellFormedSession, EventsInOrder,
     LinesInOrder, ExitIsTrue
<1> QED BY <1>3, <1>4, <1>6, <1>7 DEF ScriptInv

\* Every step of a run keeps the invariant.
LEMMA ScriptStep == ScriptInv /\ [Next]_vars => ScriptInv'
<1> SUFFICES ASSUME ScriptInv, [Next]_vars PROVE ScriptInv'
  OBVIOUS
<1>0. /\ taken \in [Streams -> Nat]
      /\ \A st \in Streams : taken[st] <= taken[st]
      /\ pc \in Early \cup Working \cup {"close", "done"}
  BY DEF ScriptInv, ScriptTyped, Stage
<1> USE DEF Early, Working
<1>1. CASE RequestStep
  <2>1. /\ UNCHANGED <<outbound, delivered, showOutput, taken, child>>
        /\ pc \in Early /\ pc' \in Early
    BY <1>1, Zenon DEF RequestStep, ListCommands, ReloadConfig,
       ClientValidates, OpenSession, process
  <2>2. LineInHand'
    BY <2>1 DEF LineInHand
  <2> QED BY <1>0, <2>1, <2>2, ScriptSilent
<1>2. CASE Spawn \/ WaitChild \/ WaitFails \/ Timeout \/ Kill
  <2>1. /\ UNCHANGED <<outbound, delivered, showOutput, taken>>
        /\ pc \in Working /\ pc' \in Working \ {"send"}
    BY <1>2 DEF Spawn, WaitChild, WaitFails, Timeout, Kill
  <2>2. /\ child \in {"exited", "killed"} => child' = child
        /\ pc' # "spawn"
        /\ child = "running" => child' \in {"running", "exited", "killed"}
        /\ pc' \in {"select", "send", "kill"} =>
              pc \in {"select", "send", "kill"} \/ child' = "running"
        /\ pc' = "exit" => timedOut' \/ child' = "exited"
    BY <1>2 DEF Spawn, WaitChild, WaitFails, Timeout, Kill,
       process, ScriptInv, ChildIsThere
  <2>3. LineInHand'
    BY <2>1 DEF LineInHand
  <2> QED BY <1>0, <2>1, <2>2, <2>3, ScriptSilent
<1>3. CASE \E st \in Streams : NextLine(st)
  <2>1. PICK st \in Streams : NextLine(st)
    BY <1>3
  <2>2. /\ UNCHANGED <<outbound, delivered, showOutput, child>>
        /\ pc = "select" /\ pc' \in {"select", "send"}
        /\ taken' = [taken EXCEPT ![st] = @ + 1]
        /\ pc' = "send" => showOutput /\ line' = Output(st, taken'[st])
    BY <2>1 DEF NextLine, process
  <2>3. /\ taken' \in [Streams -> Nat] /\ taken'[st] = taken[st] + 1
        /\ \A t \in Streams : taken[t] <= taken'[t]
    BY <1>0, <2>2
  <2>4. LinesOf(st)' = LinesOf(st) /\ Sent' = Sent
    BY <2>2 DEF LinesOf, Sent
  <2>5. \A i \in LinesOf(st) : Sent[i].n \in Nat
    <3>1. Sent \in Seq(ScriptEvents)
      BY ConcatProperties DEF ScriptInv, ScriptTyped, Sent
    <3>2. \A i \in DOMAIN Sent : Sent[i] \in ScriptEvents
      BY <3>1
    <3> QED BY <3>2 DEF LinesOf, ScriptEvents
  <2>6. \A i \in LinesOf(st) : Sent[i].n < taken'[st]
    BY <1>0, <2>3, <2>5 DEF ScriptInv, WellFormedSession, LinesInOrder
  <2>7. LineInHand'
    BY <2>2, <2>4, <2>6 DEF LineInHand, Output, Event
  <2> QED BY <1>0, <2>2, <2>3, <2>7, ScriptSilent
<1>4. CASE Exits \/ (\E st \in Streams : WriteLine(st)) \/ UNCHANGED vars
  <2>1. /\ UNCHANGED <<outbound, delivered, showOutput, taken, pc, line, timedOut>>
        /\ child' = child \/ (child = "running" /\ child' = "exited")
    BY <1>4 DEF Exits, WriteLine, vars, task, process
  <2>2. Sent' = Sent /\ \A st : LinesOf(st)' = LinesOf(st)
    BY <2>1 DEF Sent, LinesOf
  <2>3. LineInHand'
    BY <2>1, <2>2 DEF ScriptInv, LineInHand, Output, Event
  <2> QED BY <1>0, <2>1, <2>3, ScriptSilent DEF ScriptInv, ChildIsThere
<1> QED BY <1>1, <1>2, <1>3, <1>4, ScriptTakes, ScriptSendSteps DEF Next, TaskStep

(***************************************************************************)
(* The client of a script sees Ready, then the lines of each stream in     *)
(* order and at most once, then one end, then Closed; and an Exit without  *)
(* a timeout says that the shell has ended: run_shell_command and the task *)
(* around it, for any script, any amount of output and any timeout, also   *)
(* when the kill fails.                                                    *)
(***************************************************************************)
THEOREM ScriptSessionWellFormed == Spec => []WellFormedSession
<1>1. ScriptInv => WellFormedSession
  BY DEF ScriptInv
<1> QED BY <1>1, ScriptInit, ScriptStep, PTL DEF Spec

-----------------------------------------------------------------------------
(* Reloads of the configuration.                                           *)

ReloadTyped ==
    /\ version \in Nat \ {0}
    /\ label \in [Clients -> Nat]
    /\ DOMAIN shown = Clients
    /\ cpc \in [Clients -> {"off", "lock", "read", "idle"}]
    /\ backlog \in [Clients -> Seq(Nat)]

\* A process that is not up serves nobody.
DownServesNobody == wpc \in {"boot", "exited"} => \A c \in Clients : cpc[c] = "off"

\* A call of list_capabilities that built its answer still holds the guard, so
\* that the version it is about to load belongs to what it shows.
ReadersHold ==
    \A c \in Clients : cpc[c] = "read" =>
        c \in readers /\ (Listed => shown[c] = config.n)

\* SameVersionSameConfig wherever a connected client is, and no client is
\* ahead of the server.
LabelsAreTrue ==
    \A c \in Clients : cpc[c] # "off" =>
        /\ label[c] <= version
        /\ label[c] = version /\ wpc # "bump" => shown[c] = config.n

ReloadInv == ReloadTyped /\ DownServesNobody /\ ReadersHold /\ LabelsAreTrue /\ NewestIsNotified

\* What a lagging stream keeps: whatever was lost, the newest is at its end.
LEMMA NewestIsKept ==
    ASSUME NEW s \in Seq(Nat), NEW v \in Nat, NEW i \in 1..Capacity
    PROVE  /\ KeepNewest(s, v, i) \in Seq(Nat)
           /\ KeepNewest(s, v, i) # <<>>
           /\ KeepNewest(s, v, i)[Len(KeepNewest(s, v, i))] = v
<1>1. ASSUME NEW t \in Seq(Nat)
      PROVE  Append(t, v) \in Seq(Nat) /\ Append(t, v) # <<>>
             /\ Append(t, v)[Len(Append(t, v))] = v
  BY AppendProperties
<1>2. CASE Len(s) < Capacity
  BY <1>1, <1>2 DEF KeepNewest
<1>3. CASE ~(Len(s) < Capacity)
  <2>1. Len(s) \in Nat /\ Capacity \in Nat /\ i \in 1..Len(s)
    BY <1>3, LenProperties, ReloadAssumption
  <2>2. \A j \in 1..(i - 1) : s[j] \in Nat
    BY <2>1, ElementOfSeq
  <2>3. \A j \in (i + 1)..Len(s) : s[j] \in Nat
    BY <2>1, ElementOfSeq
  <2>4. SubSeq(s, 1, i - 1) \in Seq(Nat) /\ SubSeq(s, i + 1, Len(s)) \in Seq(Nat)
    BY <2>1, <2>2, <2>3, SubSeqProperties
  <2>5. RemoveAt(s, i) \in Seq(Nat)
    BY <2>4, ConcatProperties DEF RemoveAt
  <2> QED BY <1>1, <1>3, <2>5 DEF KeepNewest
<1> QED BY <1>2, <1>3

\* A configuration that can be listed can be registered.
LEMMA ListingRegisters == Listing \subseteq Registering
BY DEF Listing, Registering, ListsAll

\* The initial states: nobody is connected.
LEMMA ReloadInvInit == ReloadInit => ReloadInv
BY EmptySeq DEF ReloadInit, ReloadInv, ReloadTyped, DownServesNobody, ReadersHold, LabelsAreTrue,
   NewestIsNotified

\* The steps of the user, the start and the watcher that leave clients alone.
LEMMA QuietSteps ==
    ASSUME ReloadInv,
           EditFile \/ Watch \/ RecvEvent \/ Tick \/ WaitForReaders \/ (\E e \in Enrolls : EnrollStep(e))
    PROVE  ReloadInv'
<1> USE DEF ReloadInv, ReloadTyped, DownServesNobody, ReadersHold, LabelsAreTrue,
        NewestIsNotified, Listed, clients, watcher
<1>1. CASE EditFile
  BY <1>1 DEF EditFile
<1>2. CASE Watch
  BY <1>2 DEF Watch
<1>3. CASE RecvEvent
  BY <1>3 DEF RecvEvent
<1>4. CASE Tick
  BY <1>4 DEF Tick
<1>5. CASE WaitForReaders
  BY <1>5 DEF WaitForReaders
<1>6. ASSUME NEW e \in Enrolls, EnrollStep(e) PROVE ReloadInv'
  BY <1>6, ReloadAssumption DEF EnrollStep, EnrollRefused, EnrollLocks, EnrollReadsAgain
<1> QED BY <1>1, <1>2, <1>3, <1>4, <1>5, <1>6

\* The start, a restart and the three steps of a reload.
LEMMA ServerSteps ==
    ASSUME ReloadInv, Boot \/ Restart \/ SwapConfig \/ BumpVersion \/ Broadcast
    PROVE  ReloadInv'
<1> USE DEF ReloadInv, ReloadTyped, DownServesNobody, ReadersHold, LabelsAreTrue,
        NewestIsNotified, Listed, clients
<1>1. CASE Boot
  BY <1>1 DEF Boot
<1>2. CASE Restart
  BY <1>2, EmptySeq DEF Restart
<1>3. CASE SwapConfig
  BY <1>3 DEF SwapConfig
<1>4. CASE BumpVersion
  BY <1>4 DEF BumpVersion
<1>5. CASE Broadcast
  <2>1. PICK i \in [Clients -> 1..Capacity] :
          backlog' = [c \in Clients |-> IF cpc[c] = "off" THEN backlog[c]
                                       ELSE KeepNewest(backlog[c], version, i[c])]
    BY <1>5 DEF Broadcast
  <2>2. /\ wpc' = "idle"
        /\ UNCHANGED <<config, version, readers, cpc, shown, label>>
    BY <1>5 DEF Broadcast
  <2>3. wpc = "broadcast"
    BY <1>5 DEF Broadcast
  <2>4. \A c \in Clients :
          LET s == KeepNewest(backlog[c], version, i[c])
          IN  s \in Seq(Nat) /\ s # <<>> /\ s[Len(s)] = version
    <3> TAKE c \in Clients
    <3>1. backlog[c] \in Seq(Nat) /\ version \in Nat /\ i[c] \in 1..Capacity
      BY <2>1
    <3> HIDE DEF ReloadInv, ReloadTyped, NewestIsNotified
    <3> QED BY <3>1, NewestIsKept
  <2>5. ReloadTyped'
    BY <2>1, <2>2, <2>4
  <2>6. NewestIsNotified'
    BY <2>1, <2>2, <2>4
  <2> QED BY <2>2, <2>3, <2>5, <2>6
<1> QED BY <1>1, <1>2, <1>3, <1>4, <1>5

\* The steps of one client and the handlers that serve it.
LEMMA ClientSteps ==
    ASSUME ReloadInv, NEW c \in Clients, ClientStep(c) \/ Connect(c) \/ Disconnect(c)
    PROVE  ReloadInv'
<1> USE DEF ReloadInv, ReloadTyped, DownServesNobody, ReadersHold, LabelsAreTrue,
        NewestIsNotified, Listed, watcher, CanRead
<1>1. CASE Connect(c)
  BY <1>1, EmptySeq DEF Connect
<1>2. CASE Disconnect(c)
  BY <1>2, EmptySeq DEF Disconnect
<1>3. CASE Notified(c)
  <2>1. Tail(backlog[c]) \in Seq(Nat)
    BY <1>3, HeadTailProperties DEF Notified
  <2> QED BY <1>3, <2>1 DEF Notified
<1>4. CASE Poll(c)
  BY <1>4 DEF Poll
<1>5. CASE ListFails(c)
  BY <1>5, ListingRegisters DEF ListFails
<1>6. CASE ListLocks(c)
  BY <1>6 DEF ListLocks
<1>7. CASE ListAnswers(c)
  BY <1>7 DEF ListAnswers
<1> QED BY <1>1, <1>2, <1>3, <1>4, <1>5, <1>6, <1>7 DEF ClientStep

\* Every step keeps the invariant.
LEMMA ReloadStep == ReloadInv /\ [ReloadNext]_reloadVars => ReloadInv'
<1> SUFFICES ASSUME ReloadInv, [ReloadNext]_reloadVars PROVE ReloadInv'
  OBVIOUS
<1>1. CASE UNCHANGED reloadVars
  BY <1>1 DEF reloadVars, watcher, clients, ReloadInv, ReloadTyped, DownServesNobody, ReadersHold,
     LabelsAreTrue, NewestIsNotified, Listed
<1>2. CASE ReloadNext
  BY <1>2, QuietSteps, ServerSteps, ClientSteps DEF ReloadNext, WatcherStep
<1> QED BY <1>1, <1>2

\* A client whose version is the server's has the server's configuration,
\* although the swap and the increment of a reload are two steps and
\* list_capabilities builds its answer and loads the version in two.
THEOREM VersionNamesConfig == ReloadSpec => []SameVersionSameConfig
<1>1. ReloadInv => SameVersionSameConfig
  BY DEF ReloadInv, ReloadTyped, LabelsAreTrue, SameVersionSameConfig
<1> QED BY <1>1, ReloadInvInit, ReloadStep, PTL DEF ReloadSpec

\* However far a stream of watch_config_updates lags, the notification of the
\* last reload is on it until its client lists again.
THEOREM LastReloadIsNotified == ReloadSpec => []NewestIsNotified
<1>1. ReloadInv => NewestIsNotified
  BY DEF ReloadInv
<1> QED BY <1>1, ReloadInvInit, ReloadStep, PTL DEF ReloadSpec
=============================================================================
