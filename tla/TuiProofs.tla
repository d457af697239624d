----------------------------- MODULE TuiProofs -----------------------------
(***************************************************************************)
(* Proofs about Tui, for any servers, command lists, filters and number of *)
(* tasks.                                                                  *)
(***************************************************************************)
EXTENDS Tui, SequenceTheorems, FiniteSetTheorems, TLAPS

\* The shapes of the records, and an index that points into the list.
Shaped ==
    /\ DOMAIN list = {"server", "cmds", "selected", "filter", "loading"}
    /\ loads \in Seq(Servers)
    /\ sel \in 0 .. Len(Items(registry, discovered))
    /\ DOMAIN etask = {"server", "step", "copy"}
    /\ overlay.kind = "run" => DOMAIN overlay = {"kind", "server", "cmd", "n", "running", "output"}
    /\ overlay.kind = "enroll" => DOMAIN overlay = {"kind", "server", "step", "of"}
    /\ overlay.kind = "form" => DOMAIN overlay = {"kind", "server", "cmd", "editing"}
    /\ \A r \in runs : DOMAIN r = {"n", "server", "cmd", "started"}
    /\ waiting \in Nat
    /\ waiting > 0 => DOMAIN key = {"seen", "fresh"}

\* A command runs behind its overlay, which cannot be closed meanwhile; so
\* there is one at a time.
RunIsShown ==
    /\ \A r \in runs : IsFor(r) /\ overlay.n = r.n /\ overlay.running
    /\ \A r, q \in runs : r = q

\* While an enrollment runs, no overlay is opened for another server.
EnrollmentIsShown ==
    overlay.kind = "enroll" /\ etask # NoTask => etask.server = overlay.server

\* What the first key that waits was meant for is still there.
KeySeesScreen ==
    waiting > 0 =>
        /\ overlay.kind \in {"prompt", "form"} => key.seen = overlay
        /\ overlay.kind = "none" =>
              /\ key.seen.kind = "none"
              /\ key.fresh => key.seen.server = list.server /\ key.seen.cmd = Selected(list)

\* A removal is of the server of the prompt, and the key that confirmed it is
\* the one being handled.
RemovalIsShown ==
    removal # None => /\ waiting > 0 /\ overlay.kind = "prompt"
                      /\ removal.server = overlay.server

TuiInv ==
    /\ Shaped /\ BusyHasTask /\ RunIsShown /\ EnrollmentIsShown /\ ShowsItsOwnTask
    /\ KeySeesScreen /\ RemovalIsShown

-----------------------------------------------------------------------------
(* The server pane.                                                        *)

\* In a set of positions each one has its rank, and each rank its position.
Rank(S, i) == Cardinality({j \in S : j <= i})

\* The rank is a bijection from the positions to 1 .. Cardinality(S).
LEMMA Ranks ==
    ASSUME NEW n \in Nat, NEW S \in SUBSET (1 .. n)
    PROVE  /\ Cardinality(S) \in Nat
           /\ \A k \in 1 .. Cardinality(S) : \E i \in S : Rank(S, i) = k
           /\ \A i \in S : Rank(S, i) \in 1 .. Cardinality(S)
           /\ \A i, k \in S : Rank(S, i) = Rank(S, k) => i = k
<1> DEFINE r == [i \in S |-> Rank(S, i)]
           c == Cardinality(S)
<1>0. \A i \in S : i \in Int
  OBVIOUS
<1>1. IsFiniteSet(S) /\ c \in Nat
  <2>1. IsFiniteSet(1 .. n)
    BY FS_Interval
  <2>2. IsFiniteSet(S)
    BY <2>1, FS_Subset
  <2> QED BY <2>2, FS_CardinalityType
<1>2. \A i \in S : IsFiniteSet({j \in S : j <= i})
  <2> TAKE i \in S
  <2>1. {j \in S : j <= i} \in SUBSET S
    OBVIOUS
  <2> QED BY <1>1, <2>1, FS_Subset
<1>3. ASSUME NEW i \in S PROVE Rank(S, i) \in 1 .. c
  <2>1. Rank(S, i) \in Nat /\ Rank(S, i) <= c
    BY <1>1, <1>2, FS_Subset, FS_CardinalityType DEF Rank
  <2>2. i \in {j \in S : j <= i}
    BY <1>0
  <2>3. Rank(S, i) # 0
    BY <1>2, <2>2, FS_EmptySet DEF Rank
  <2> QED BY <1>1, <2>1, <2>3
<1>4. ASSUME NEW i \in S, NEW k \in S, i < k PROVE Rank(S, i) # Rank(S, k)
  <2>1. {j \in S : j <= i} \subseteq {j \in S : j <= k}
    <3> SUFFICES ASSUME NEW j \in S, j <= i PROVE j <= k
      OBVIOUS
    <3>1. i \in Int /\ j \in Int /\ k \in Int
      BY <1>0
    <3> QED BY <1>4, <3>1
  <2>2. k \in {j \in S : j <= k} /\ k \notin {j \in S : j <= i}
    BY <1>0, <1>4
  <2> QED BY <1>2, <2>1, <2>2, FS_Subset DEF Rank
<1>5. \A i, k \in S : Rank(S, i) = Rank(S, k) => i = k
  <2> SUFFICES ASSUME NEW i \in S, NEW k \in S, i # k PROVE Rank(S, i) # Rank(S, k)
    OBVIOUS
  <2>1. i < k \/ k < i
    BY <1>0
  <2> QED BY <1>4, <2>1
<1>6. r \in Injection(S, 1 .. c)
  BY <1>3, <1>5 DEF Injection, IsInjective
<1>7. IsFiniteSet(1 .. c) /\ Cardinality(1 .. c) = c
  BY <1>1, FS_Interval
<1>8. r \in Surjection(S, 1 .. c)
  BY <1>1, <1>6, <1>7, FS_Injection
<1>9. \A k \in 1 .. c : \E i \in S : Rank(S, i) = k
  BY <1>8 DEF Surjection
<1> QED BY <1>1, <1>3, <1>5, <1>9

\* A set of positions has a first one.
LEMMA FirstPosition ==
    ASSUME NEW n \in Nat, NEW S \in SUBSET (1 .. n), S # {}
    PROVE  \E i \in S : \A j \in S : i <= j
<1>1. PICK x \in S : TRUE
  OBVIOUS
<1>2. Cardinality(S) \in Nat /\ Rank(S, x) \in 1 .. Cardinality(S)
  BY Ranks
<1>3. PICK i \in S : Rank(S, i) = 1
  <2>1. 1 \in 1 .. Cardinality(S)
    BY <1>2
  <2>2. \A k \in 1 .. Cardinality(S) : \E i \in S : Rank(S, i) = k
    BY Ranks
  <2> QED BY <2>1, <2>2
<1>4. ASSUME NEW j \in S PROVE i <= j
  <2> SUFFICES ASSUME j < i PROVE FALSE
    OBVIOUS
  <2>1. IsFiniteSet({k \in S : k <= i})
    <3>1. IsFiniteSet(1 .. n)
      BY FS_Interval
    <3>2. {k \in S : k <= i} \in SUBSET (1 .. n)
      OBVIOUS
    <3> QED BY <3>1, <3>2, FS_Subset
  <2>2. PICK x0 : {k \in S : k <= i} = {x0}
    BY <1>3, <2>1, FS_Singleton DEF Rank
  <2> QED BY <2>2
<1> QED BY <1>4

Item2 == [server : Servers, enrolled : BOOLEAN]

\* The pane is a sequence of servers, each enrolled or not.
LEMMA ItemsTyped ==
    ASSUME NEW reg, NEW disc
    PROVE  Items(reg, disc) \in Seq(Item2)
<1> DEFINE Shown(i) == IF i.enrolled THEN i.server \in reg
                       ELSE i.server \in disc /\ (i.server \in reg => i.server \in Unmatched)
           shown == {k \in DOMAIN Places : Shown(Places[k])}
           c == Cardinality(shown)
           at(m) == CHOOSE k \in shown : Rank(shown, k) = m
<1>1. Len(Order) \in Nat /\ DOMAIN Order = 1 .. Len(Order)
  BY TuiAssumption, LenProperties
<1>2. \A k \in 1 .. 2 * Len(Order) : (k + 1) \div 2 \in 1 .. Len(Order)
  BY <1>1
<1>3. \A k \in 1 .. 2 * Len(Order) : Order[(k + 1) \div 2] \in Servers
  BY <1>1, <1>2, TuiAssumption, ElementOfSeq
<1>4. DOMAIN Places = 1 .. 2 * Len(Order) /\ \A k \in DOMAIN Places : Places[k] \in Item2
  BY <1>3 DEF Places, Item2
<1>5. 2 * Len(Order) \in Nat /\ shown \in SUBSET (1 .. 2 * Len(Order))
  BY <1>1, <1>4
<1>6. Items(reg, disc) = [m \in 1 .. c |-> Places[at(m)]]
  BY DEF Items, Rank
<1> HIDE DEF shown, Places
<1>7. c \in Nat /\ \A m \in 1 .. c : at(m) \in shown
  BY <1>5, Ranks
<1> HIDE DEF at
<1>8. \A m \in 1 .. c : Places[at(m)] \in Item2
  BY <1>4, <1>5, <1>7
<1> QED BY <1>6, <1>7, <1>8, SeqDef

\* When something is enrolled, the list is not empty.
LEMMA ItemsOfEnrolled ==
    ASSUME NEW reg \in SUBSET Servers, reg # {}
    PROVE  Len(Items(reg, {})) >= 1
<1> DEFINE Shown(i) == IF i.enrolled THEN i.server \in reg
                       ELSE i.server \in {} /\ (i.server \in reg => i.server \in Unmatched)
           shown == {k \in DOMAIN Places : Shown(Places[k])}
           c == Cardinality(shown)
<1>1. Len(Order) \in Nat /\ DOMAIN Order = 1 .. Len(Order)
  BY TuiAssumption, LenProperties
<1>2. PICK x \in 1 .. Len(Order) : Order[x] \in reg
  BY <1>1 DEF Servers, ToSet
<1>3. /\ 2 * x - 1 \in 1 .. 2 * Len(Order) /\ ((2 * x - 1) + 1) \div 2 = x
      /\ (2 * x - 1) % 2 = 1
  BY <1>1
<1>4. 2 * x - 1 \in shown
  BY <1>2, <1>3 DEF Places
<1>5. 2 * Len(Order) \in Nat /\ shown \in SUBSET (1 .. 2 * Len(Order))
  BY <1>1 DEF Places
<1>6. DOMAIN Items(reg, {}) = 1 .. c
  BY DEF Items
<1> HIDE DEF shown
<1>7. c \in Nat /\ Rank(shown, 2 * x - 1) \in 1 .. c
  BY <1>4, <1>5, Ranks
<1>8. Items(reg, {}) \in Seq(Item2)
  BY ItemsTyped
<1> QED BY <1>6, <1>7, <1>8, LenProperties

\* Wherever the list changes, the index is brought back into it.
LEMMA ReselectInside ==
    ASSUME NEW reg, NEW disc, Shaped
    PROVE  Reselect(Items(reg, disc)) \in 0 .. Len(Items(reg, disc))
BY ItemsTyped, EmptySeq DEF Reselect

\* The selection after a refresh is a row of the pane, or none.
LEMMA FindInside ==
    ASSUME NEW s
    PROVE  Find(s) \in 0 .. Len(Items(registry, discovered))
<1> DEFINE items == Items(registry, discovered)
           found == {i \in DOMAIN items : items[i].server = s
                        /\ (items[i].enrolled \/ s \notin Anonymous)}
<1>1. Len(items) \in Nat /\ DOMAIN items = 1 .. Len(items)
  BY ItemsTyped, LenProperties
<1>2. found \in SUBSET (1 .. Len(items))
  BY <1>1
<1>3. Find(s) = IF found = {} THEN 0 ELSE CHOOSE i \in found : \A j \in found : i <= j
  BY DEF Find
<1> HIDE DEF items, found
<1>4. found # {} => \E i \in found : \A j \in found : i <= j
  BY <1>1, <1>2, FirstPosition
<1>5. Find(s) = 0 \/ Find(s) \in found
  BY <1>3, <1>4
<1>6. \A i \in found : i \in 0 .. Len(items)
  BY <1>1, <1>2
<1>7. 0 \in 0 .. Len(items)
  BY <1>1
<1> QED BY <1>5, <1>6, <1>7 DEF items

\* An enrolled selection is a server of the registry.
LEMMA ItemIsListed ==
    ASSUME Shaped, Item.enrolled
    PROVE  Item.server \in Servers
<1>1. Items(registry, discovered) \in Seq(Item2)
  BY ItemsTyped
<1>2. sel # 0
  BY DEF Item
<1>3. sel \in 1 .. Len(Items(registry, discovered))
  BY <1>1, <1>2, LenProperties DEF Shaped
<1>4. Items(registry, discovered)[sel] \in Item2
  BY <1>1, <1>3, ElementOfSeq
<1> QED BY <1>2, <1>4 DEF Item, Item2

\* The program starts idle, with nothing on the way.
LEMMA TuiInit == Init => TuiInv
<1> SUFFICES ASSUME Init PROVE TuiInv
  OBVIOUS
<1> USE TuiAssumption DEF Init
<1>1. Shaped
  <2>1. sel \in 0 .. Len(Items(registry, discovered))
    <3>1. Items(stored, {}) \in Seq(Item2)
      BY ItemsTyped
    <3>2. stored # {} => Len(Items(stored, {})) >= 1
      BY ItemsOfEnrolled
    <3> QED BY <3>1, <3>2, LenProperties
  <2>2. loads \in Seq(Servers)
    BY EmptySeq
  <2>3. DOMAIN list = {"server", "cmds", "selected", "filter", "loading"}
    BY DEF EmptyList
  <2>4. DOMAIN etask = {"server", "step", "copy"} /\ overlay.kind = "none"
    BY DEF NoTask, Closed
  <2> QED BY <2>1, <2>2, <2>3, <2>4 DEF Shaped
<1>2. BusyHasTask
  BY DEF BusyHasTask, EmptyList
<1>3. RunIsShown /\ EnrollmentIsShown /\ ShowsItsOwnTask /\ KeySeesScreen /\ RemovalIsShown
  BY DEF RunIsShown, EnrollmentIsShown, ShowsItsOwnTask, KeySeesScreen, RemovalIsShown, Closed
<1> QED BY <1>1, <1>2, <1>3 DEF TuiInv

-----------------------------------------------------------------------------
(* The events of the tasks.                                                *)

LEMMA DiscoveryFinishedStep == ASSUME TuiInv, DiscoveryFinished PROVE TuiInv'
<1> USE DEF TuiInv, DiscoveryFinished, typed
<1>1. sel' \in 0 .. Len(Items(registry, discovered))'
  BY ReselectInside DEF Rebuild, Shaped
<1>2. Shaped'
  BY <1>1 DEF Shaped, commands
<1>3. BusyHasTask' /\ RemovalIsShown'
  BY DEF BusyHasTask, RemovalIsShown, commands
<1>4. RunIsShown' /\ EnrollmentIsShown' /\ ShowsItsOwnTask' /\ KeySeesScreen'
  BY DEF RunIsShown, IsFor, EnrollmentIsShown, ShowsItsOwnTask, KeySeesScreen, commands
<1> QED BY <1>2, <1>3, <1>4

\* An answer leaves the queue, the others stay in their order.
LEMMA AnswerLeaves ==
    ASSUME NEW s \in Seq(Servers), NEW i \in DOMAIN s
    PROVE  /\ RemoveAt(s, i) \in Seq(Servers)
           /\ Len(RemoveAt(s, i)) = Len(s) - 1
           /\ \A j \in 1 .. Len(s) - 1 :
                 RemoveAt(s, i)[j] = IF j < i THEN s[j] ELSE s[j + 1]
<1>1. i \in 1 .. Len(s) /\ Len(s) \in Nat
  BY LenProperties
<1> DEFINE front == SubSeq(s, 1, i - 1)
           back == SubSeq(s, i + 1, Len(s))
<1>2. /\ front \in Seq(Servers) /\ Len(front) = i - 1
      /\ \A j \in 1 .. i - 1 : front[j] = s[j]
  <2>1. \A j \in 1 .. i - 1 : s[j] \in Servers
    BY <1>1
  <2> QED BY <1>1, <2>1, SubSeqProperties
<1>3. /\ back \in Seq(Servers) /\ Len(back) = Len(s) - i
      /\ \A j \in 1 .. Len(s) - i : back[j] = s[i + j]
  <2>1. \A j \in i + 1 .. Len(s) : s[j] \in Servers
    BY <1>1
  <2> QED BY <1>1, <2>1, SubSeqProperties
<1> HIDE DEF front, back
<1>4. RemoveAt(s, i) = front \o back
  BY DEF RemoveAt, front, back
<1>5. /\ front \o back \in Seq(Servers)
      /\ Len(front \o back) = Len(s) - 1
      /\ \A j \in 1 .. Len(s) - 1 : (front \o back)[j] =
            IF j <= i - 1 THEN front[j] ELSE back[j - (i - 1)]
  <2>1. /\ front \o back \in Seq(Servers)
        /\ Len(front \o back) = Len(front) + Len(back)
        /\ \A j \in 1 .. Len(front) + Len(back) : (front \o back)[j] =
              IF j <= Len(front) THEN front[j] ELSE back[j - Len(front)]
    BY <1>2, <1>3, ConcatProperties
  <2>2. Len(front) + Len(back) = Len(s) - 1
    BY <1>1, <1>2, <1>3
  <2> QED BY <1>2, <2>1, <2>2
<1>6. ASSUME NEW j \in 1 .. Len(s) - 1
      PROVE  (front \o back)[j] = IF j < i THEN s[j] ELSE s[j + 1]
  <2>1. CASE j < i
    BY <1>1, <1>2, <1>5, <2>1
  <2>2. CASE ~(j < i)
    <3>1. j - (i - 1) \in 1 .. Len(s) - i /\ i + (j - (i - 1)) = j + 1
      BY <1>1, <2>2
    <3>2. back[j - (i - 1)] = s[i + (j - (i - 1))]
      BY <1>3, <3>1
    <3>3. ~(j <= i - 1)
      BY <1>1, <2>2
    <3>4. (front \o back)[j] = back[j - (i - 1)]
      BY <1>5, <3>3
    <3> QED BY <2>2, <3>1, <3>2, <3>4
  <2> QED BY <2>1, <2>2
<1> QED BY <1>4, <1>5, <1>6

\* A command list arrives: taken when it answers the request on record.
LEMMA ListAnsweredStep == ASSUME TuiInv, ListAnswered PROVE TuiInv'
<1> USE DEF TuiInv
<1>1. PICK i \in DOMAIN loads :
        /\ loads' = RemoveAt(loads, i)
        /\ IF AnswerIgnored(loads[i]) THEN UNCHANGED <<list, pending, sel, focus, typed>>
           ELSE (\E cs \in Lists : ListLoaded(loads[i], cs)) \/ ListFailed
  BY DEF ListAnswered
<1>2. UNCHANGED <<registry, discovered, removal, overlay, enrolling, etask, runs>>
  BY DEF ListAnswered, tasks
<1>3. Len(loads) \in Nat /\ DOMAIN loads = 1 .. Len(loads) /\ i \in 1 .. Len(loads)
  BY LenProperties DEF Shaped
<1>4. /\ loads' \in Seq(Servers) /\ DOMAIN loads' = 1 .. Len(loads) - 1
      /\ \A j \in 1 .. Len(loads) - 1 : loads'[j] = IF j < i THEN loads[j] ELSE loads[j + 1]
  <2>1. loads \in Seq(Servers)
    BY DEF Shaped
  <2> QED BY <1>1, <1>3, <2>1, AnswerLeaves, LenProperties
<1>5. RunIsShown' /\ EnrollmentIsShown' /\ ShowsItsOwnTask'
  BY <1>2 DEF RunIsShown, IsFor, EnrollmentIsShown, ShowsItsOwnTask
<1>6. CASE UNCHANGED <<list, pending, sel, focus, typed>> /\ AnswerIgnored(loads[i])
  <2>1. Shaped' /\ KeySeesScreen' /\ RemovalIsShown'
    BY <1>2, <1>4, <1>6 DEF Shaped, KeySeesScreen, RemovalIsShown, typed
  <2>2. pending # None => \E j \in DOMAIN loads' : loads'[j] = pending
    <3> SUFFICES ASSUME pending # None PROVE \E j \in DOMAIN loads' : loads'[j] = pending
      OBVIOUS
    <3>1. PICK k \in 1 .. Len(loads) : loads[k] = pending /\ k # i
      BY <1>3, <1>6 DEF BusyHasTask, AnswerIgnored, ToSet
    <3>2. CASE k < i
      BY <1>3, <1>4, <3>1, <3>2
    <3>3. CASE k > i
      <4>1. k - 1 \in 1 .. Len(loads) - 1 /\ ~(k - 1 < i) /\ (k - 1) + 1 = k
        BY <1>3, <3>3
      <4>2. loads'[k - 1] = loads[k]
        BY <1>4, <4>1
      <4> QED BY <1>4, <3>1, <4>1, <4>2
    <3> QED BY <1>3, <3>1, <3>2, <3>3
  <2>3. BusyHasTask'
    BY <1>2, <1>6, <2>2 DEF BusyHasTask, ToSet
  <2> QED BY <1>5, <2>1, <2>3
<1>7. ASSUME NEW cs \in Lists, ListLoaded(loads[i], cs) PROVE TuiInv'
  <2>1. DOMAIN list' = DOMAIN list /\ list'.loading = FALSE /\ pending' = None
    <3>1. list' = SetCommandList(list, loads[i], cs) /\ pending' = None
      BY <1>7 DEF ListLoaded
    <3>2. DOMAIN list' = DOMAIN list /\ list'.loading = FALSE
      BY <3>1 DEF SetCommandList, ReapplyFilters, Shaped
    <3> QED BY <3>1, <3>2
  <2>2. BusyHasTask'
    BY <1>2, <2>1 DEF BusyHasTask
  <2>3. /\ waiting' = waiting /\ waiting \in Nat
        /\ waiting > 0 => /\ DOMAIN key' = {"seen", "fresh"} /\ key'.seen = key.seen
                          /\ key'.fresh = FALSE
    BY <1>7 DEF ListLoaded, NotFresh, Shaped
  <2>4. sel' \in 0 .. Len(Items(registry, discovered))
    BY <1>7, FindInside DEF ListLoaded, Shaped
  <2>5. Shaped'
    BY <1>2, <1>4, <2>1, <2>3, <2>4 DEF Shaped
  <2>6. KeySeesScreen' /\ RemovalIsShown'
    BY <1>2, <2>3 DEF KeySeesScreen, RemovalIsShown
  <2> QED BY <1>5, <2>2, <2>5, <2>6
<1>8. CASE ListFailed
  <2>1. /\ DOMAIN list' = DOMAIN list /\ list'.loading = FALSE
        /\ list'.server = list.server /\ Selected(list') = Selected(list)
        /\ pending' = None /\ UNCHANGED <<sel, waiting, key>>
    BY <1>8 DEF ListFailed, Selected, Shaped, typed
  <2>2. BusyHasTask'
    BY <1>2, <2>1 DEF BusyHasTask
  <2>3. Shaped'
    BY <1>2, <1>4, <2>1 DEF Shaped
  <2>4. KeySeesScreen' /\ RemovalIsShown'
    BY <1>2, <2>1 DEF KeySeesScreen, RemovalIsShown
  <2> QED BY <1>5, <2>2, <2>3, <2>4
<1> QED BY <1>1, <1>6, <1>7, <1>8

\* An event of the running command reaches the overlay opened for it.
LEMMA RunEventStep ==
    ASSUME TuiInv, RunStarted \/ RunOutput \/ RunFinished
    PROVE  TuiInv'
<1> USE DEF TuiInv
<1>1. UNCHANGED <<list, pending, loads, registry, discovered, sel, removal, enrolling, etask,
                  waiting, key>>
  BY DEF RunStarted, RunOutput, RunFinished, commands, servers, tasks, typed
<1>2. PICK r \in runs :
        \/ /\ runs' = (runs \ {r}) \cup {[r EXCEPT !.started = TRUE]}
           /\ overlay' = [overlay EXCEPT !.running = TRUE, !.output = {}]
        \/ runs' = runs /\ overlay' = [overlay EXCEPT !.output = @ \cup {r.n}]
        \/ runs' = runs \ {r} /\ overlay' = [overlay EXCEPT !.running = FALSE, !.output = @ \cup {r.n}]
  BY DEF RunStarted, RunOutput, RunFinished, RunIsShown, tasks
<1>3. overlay.kind = "run" /\ overlay.n = r.n /\ overlay.running /\ runs = {r}
  BY DEF RunIsShown, IsFor
<1>4. /\ DOMAIN overlay' = DOMAIN overlay /\ overlay'.kind = "run" /\ overlay'.n = overlay.n
      /\ overlay'.server = overlay.server /\ overlay'.cmd = overlay.cmd
      /\ overlay'.output \subseteq {overlay.n}
  <2>1. overlay.output \subseteq {overlay.n}
    BY <1>3 DEF ShowsItsOwnTask
  <2>2. DOMAIN overlay = {"kind", "server", "cmd", "n", "running", "output"}
    BY <1>3 DEF Shaped
  <2>3. \/ \E b \in BOOLEAN : overlay' = [overlay EXCEPT !.running = b, !.output = {}]
        \/ \E b \in BOOLEAN : overlay' = [overlay EXCEPT !.running = b, !.output = @ \cup {r.n}]
        \/ overlay' = [overlay EXCEPT !.output = @ \cup {r.n}]
    BY <1>2
  <2> QED BY <1>3, <2>1, <2>2, <2>3
<1>5. \/ runs' = {} /\ ~overlay'.running
      \/ /\ overlay'.running
         /\ \E q : /\ runs' = {q} /\ DOMAIN q = DOMAIN r
                   /\ q.n = r.n /\ q.server = r.server /\ q.cmd = r.cmd
  <2>1. /\ DOMAIN r = {"n", "server", "cmd", "started"}
        /\ DOMAIN overlay = {"kind", "server", "cmd", "n", "running", "output"}
    BY <1>3 DEF Shaped
  <2>2. CASE /\ runs' = (runs \ {r}) \cup {[r EXCEPT !.started = TRUE]}
             /\ overlay' = [overlay EXCEPT !.running = TRUE, !.output = {}]
    <3>1. runs' = {[r EXCEPT !.started = TRUE]}
      BY <1>3, <2>2
    <3> DEFINE q == [r EXCEPT !.started = TRUE]
    <3>2. DOMAIN q = DOMAIN r /\ q.n = r.n /\ q.server = r.server /\ q.cmd = r.cmd
      BY <2>1
    <3>3. overlay'.running
      BY <2>1, <2>2
    <3> HIDE DEF q
    <3> QED BY <3>1, <3>2, <3>3 DEF q
  <2>3. CASE runs' = runs /\ overlay' = [overlay EXCEPT !.output = @ \cup {r.n}]
    <3>1. overlay'.running
      BY <1>3, <2>1, <2>3
    <3> QED BY <1>3, <2>3, <3>1
  <2>4. CASE /\ runs' = runs \ {r}
             /\ overlay' = [overlay EXCEPT !.running = FALSE, !.output = @ \cup {r.n}]
    BY <1>3, <2>1, <2>4
  <2> QED BY <1>2, <2>2, <2>3, <2>4
<1>6. Shaped'
  BY <1>1, <1>3, <1>4, <1>5 DEF Shaped
<1>7. RunIsShown' /\ ShowsItsOwnTask'
  BY <1>3, <1>4, <1>5 DEF RunIsShown, IsFor, ShowsItsOwnTask
<1>8. BusyHasTask'
  BY <1>1 DEF BusyHasTask
<1>9. EnrollmentIsShown' /\ KeySeesScreen' /\ RemovalIsShown'
  BY <1>1, <1>3, <1>4 DEF EnrollmentIsShown, KeySeesScreen, RemovalIsShown
<1> QED BY <1>6, <1>7, <1>8, <1>9

\* The events of an enrollment: the overlay that takes them is its own.
LEMMA EnrollmentEventStep ==
    ASSUME TuiInv,
           \/ EnrollmentProgress \/ EnrollmentLoads \/ EnrollmentSaves
           \/ EnrollmentCompleted \/ EnrollmentFailed
    PROVE  TuiInv'
<1> USE DEF TuiInv
<1>1. UNCHANGED <<list, pending, loads, runs, removal, waiting, key>>
  BY DEF EnrollmentProgress, EnrollmentLoads, EnrollmentSaves, EnrollmentCompleted,
     EnrollmentFailed, commands, servers, typed
<1>2. /\ registry' \in {registry, stored} /\ discovered' = discovered
      /\ sel' \in 0 .. Len(Items(registry, discovered))'
  <2>1. CASE EnrollmentCompleted
    BY <2>1, ReselectInside DEF EnrollmentCompleted, Rebuild, Shaped
  <2>2. CASE EnrollmentProgress \/ EnrollmentLoads \/ EnrollmentSaves \/ EnrollmentFailed
    BY <2>2 DEF EnrollmentProgress, EnrollmentLoads, EnrollmentSaves, EnrollmentFailed, servers,
       Shaped
  <2> QED BY <2>1, <2>2
<1>3. \/ /\ enrolling' = enrolling
         /\ \E step \in {"started", "coded", "loaded", "done", "broken"} :
               \/ etask' = [etask EXCEPT !.step = step]
               \/ \E c : etask' = [etask EXCEPT !.step = step, !.copy = c]
      \/ enrolling' = FALSE /\ etask' = NoTask
  <2>1. CASE EnrollmentProgress
    BY <2>1 DEF EnrollmentProgress
  <2>2. CASE EnrollmentLoads
    BY <2>2 DEF EnrollmentLoads
  <2>3. CASE EnrollmentSaves
    BY <2>3 DEF EnrollmentSaves
  <2>4. CASE EnrollmentCompleted \/ EnrollmentFailed
    BY <2>4 DEF EnrollmentCompleted, EnrollmentFailed
  <2> QED BY <2>1, <2>2, <2>3, <2>4
<1>4. etask # NoTask
  <2>1. etask.step \in {"spawned", "started", "coded", "submitted", "loaded", "done", "broken"}
    BY DEF EnrollmentProgress, EnrollmentLoads, EnrollmentSaves, EnrollmentCompleted,
       EnrollmentFailed
  <2>2. NoTask.step = "none"
    BY DEF NoTask
  <2> QED BY <2>1, <2>2
<1>5. /\ DOMAIN etask' = {"server", "step", "copy"}
      /\ etask' # NoTask => etask'.server = etask.server
      /\ enrolling' <=> etask' # NoTask
  <2>1. DOMAIN etask = {"server", "step", "copy"} /\ enrolling
    BY <1>4 DEF Shaped, BusyHasTask
  <2>2. ASSUME NEW step \in {"started", "coded", "loaded", "done", "broken"}, NEW c,
               \/ etask' = [etask EXCEPT !.step = step]
               \/ etask' = [etask EXCEPT !.step = step, !.copy = c]
        PROVE  /\ DOMAIN etask' = {"server", "step", "copy"} /\ etask'.server = etask.server
               /\ etask'.step = step
    BY <2>1, <2>2
  <2>3. \A step \in {"started", "coded", "loaded", "done", "broken"} :
          etask'.step = step => etask' # NoTask
    BY DEF NoTask
  <2>4. CASE enrolling' = FALSE /\ etask' = NoTask
    BY <2>4 DEF NoTask
  <2> QED BY <1>3, <2>1, <2>2, <2>3, <2>4
<1>6. \/ overlay' = overlay
      \/ /\ overlay.kind = "enroll"
         /\ \E step : overlay' = [overlay EXCEPT !.step = step, !.of = @ \cup {etask.server}]
  BY DEF EnrollmentProgress, EnrollmentLoads, EnrollmentSaves, EnrollmentCompleted,
     EnrollmentFailed, ShowEnrollment
<1>7. \/ overlay' = overlay
      \/ /\ overlay.kind = "enroll" /\ overlay'.kind = "enroll" /\ DOMAIN overlay' = DOMAIN overlay
         /\ overlay'.server = overlay.server /\ overlay'.of \subseteq {overlay.server}
  BY <1>4, <1>6 DEF Shaped, EnrollmentIsShown, ShowsItsOwnTask
<1>8. Shaped'
  BY <1>1, <1>2, <1>5, <1>7 DEF Shaped
<1>9. BusyHasTask'
  BY <1>1, <1>5 DEF BusyHasTask
<1>10. RunIsShown' /\ EnrollmentIsShown' /\ ShowsItsOwnTask'
  BY <1>1, <1>4, <1>5, <1>7 DEF RunIsShown, IsFor, EnrollmentIsShown, ShowsItsOwnTask
<1>11. KeySeesScreen' /\ RemovalIsShown'
  BY <1>1, <1>7 DEF KeySeesScreen, RemovalIsShown
<1> QED BY <1>8, <1>9, <1>10, <1>11

\* A key is pressed and waits, together with the screen it was pressed on.
LEMMA PressStep == ASSUME TuiInv, Press PROVE TuiInv'
<1> USE DEF TuiInv
<1>1. /\ UNCHANGED <<servers, overlay, commands, tasks>>
      /\ waiting \in Nat /\ waiting' = waiting + 1
      /\ key' = IF waiting = 0 THEN [seen |-> Screen, fresh |-> TRUE] ELSE key
  BY DEF Press, Shaped
<1>2. Shaped' /\ BusyHasTask'
  BY <1>1 DEF Shaped, BusyHasTask, servers, commands, tasks
<1>3. RunIsShown' /\ EnrollmentIsShown' /\ ShowsItsOwnTask' /\ RemovalIsShown'
  BY <1>1 DEF RunIsShown, IsFor, EnrollmentIsShown, ShowsItsOwnTask, RemovalIsShown, tasks, servers
<1>4. KeySeesScreen'
  BY <1>1 DEF KeySeesScreen, Screen, commands, Selected
<1> QED BY <1>2, <1>3, <1>4

-----------------------------------------------------------------------------
(* The keys.                                                               *)

\* A key has been handled, and the next one is meant for what it leaves.
KeyMoved ==
    /\ removal' = None
    /\ waiting' \in Nat
    /\ waiting' > 0 => key' = [seen |-> Screen', fresh |-> TRUE]

\* So the next key sees the screen.
LEMMA NextKeySees ==
    ASSUME KeyMoved
    PROVE  /\ KeySeesScreen' /\ RemovalIsShown' /\ waiting' \in Nat
           /\ waiting' > 0 => DOMAIN key' = {"seen", "fresh"}
BY DEF KeyMoved, KeySeesScreen, RemovalIsShown, Screen

\* The overlay a key is handled with: the one on the screen, or what a held
\* back Esc makes of it.
Handled(o) ==
    \/ o = overlay
    \/ runs = {} /\ o = Closed
    \/ runs = {} /\ overlay.kind = "form" /\ o = [overlay EXCEPT !.editing = FALSE]

\* A held back Esc leaves an overlay the next key can be handled with.
LEMMA EscLeaves == ASSUME TuiInv PROVE Handled(AfterEsc(overlay))
<1>1. runs # {} => overlay.kind = "run" /\ overlay.running
  BY DEF TuiInv, RunIsShown, IsFor
<1>2. CASE overlay.kind = "form" /\ overlay.editing
  BY <1>1, <1>2 DEF AfterEsc, Handled
<1>3. CASE overlay.kind = "run" /\ overlay.running
  BY <1>3 DEF AfterEsc, Handled
<1>4. CASE ~(overlay.kind = "form" /\ overlay.editing) /\ ~(overlay.kind = "run" /\ overlay.running)
  BY <1>1, <1>4 DEF AfterEsc, Handled
<1> QED BY <1>2, <1>3, <1>4

\* A key that is not for the overlay of a command finds no command running.
LEMMA HandledOverlay ==
    ASSUME TuiInv, NEW o, Handled(o)
    PROVE  /\ o.kind # "run" => runs = {}
           /\ o.kind \in {"run", "enroll", "prompt"} => o = overlay
           /\ o.kind = "form" => /\ DOMAIN o = {"kind", "server", "cmd", "editing"}
                                 /\ overlay.kind = "form"
BY DEF TuiInv, Handled, Shaped, RunIsShown, IsFor, Closed

\* What is left to show when a key was handled and no command is running.
LEMMA AfterKey ==
    ASSUME TuiInv, KeyMoved, runs' = {},
           DOMAIN list' = DOMAIN list, loads' \in Seq(Servers),
           sel' \in 0 .. Len(Items(registry, discovered))',
           DOMAIN etask' = {"server", "step", "copy"},
           overlay'.kind # "run",
           overlay'.kind = "enroll" => /\ DOMAIN overlay' = {"kind", "server", "step", "of"}
                                       /\ overlay'.of \subseteq {overlay'.server}
                                       /\ etask' # NoTask => etask'.server = overlay'.server,
           overlay'.kind = "form" => DOMAIN overlay' = {"kind", "server", "cmd", "editing"},
           BusyHasTask'
    PROVE  TuiInv'
<1>1. Shaped'
  BY NextKeySees DEF TuiInv, Shaped
<1>2. RunIsShown' /\ EnrollmentIsShown' /\ ShowsItsOwnTask'
  BY DEF RunIsShown, EnrollmentIsShown, ShowsItsOwnTask
<1> QED BY <1>1, <1>2, NextKeySees DEF TuiInv

\* The same when the requests and the tasks are left alone.
LEMMA AfterQuietKey ==
    ASSUME TuiInv, KeyMoved, runs = {}, UNCHANGED <<pending, loads, enrolling, etask, runs>>,
           DOMAIN list' = DOMAIN list, list'.loading = list.loading,
           sel' \in 0 .. Len(Items(registry, discovered))',
           overlay'.kind # "run",
           overlay'.kind = "enroll" => /\ DOMAIN overlay' = {"kind", "server", "step", "of"}
                                       /\ overlay'.of \subseteq {overlay'.server}
                                       /\ etask # NoTask => etask.server = overlay'.server,
           overlay'.kind = "form" => DOMAIN overlay' = {"kind", "server", "cmd", "editing"}
    PROVE  TuiInv'
<1>1. BusyHasTask'
  BY DEF TuiInv, BusyHasTask
<1>2. loads' \in Seq(Servers) /\ DOMAIN etask' = {"server", "step", "copy"} /\ runs' = {}
  BY DEF TuiInv, Shaped
<1> QED BY <1>1, <1>2, AfterKey

\* A key that only moves within the overlay or the panes.
LEMMA StaysStep ==
    ASSUME TuiInv, NEW o, Handled(o), Stays(o), KeyMoved
    PROVE  TuiInv'
<1>1. /\ overlay' = o /\ UNCHANGED <<list, pending, loads, enrolling, etask, runs>>
      /\ sel' \in 0 .. Len(Items(registry, discovered))'
  BY DEF Stays, servers, commands, tasks, TuiInv, Shaped
<1>2. CASE o = overlay
  <2> USE <1>1, <1>2 DEF TuiInv
  <2>1. Shaped'
    BY NextKeySees DEF Shaped
  <2>2. BusyHasTask'
    BY DEF BusyHasTask
  <2>3. RunIsShown' /\ EnrollmentIsShown' /\ ShowsItsOwnTask'
    BY DEF RunIsShown, IsFor, EnrollmentIsShown, ShowsItsOwnTask
  <2> QED BY <2>1, <2>2, <2>3, NextKeySees
<1>3. CASE o # overlay
  <2>1. runs = {} /\ o.kind \notin {"run", "enroll"}
    BY <1>3, HandledOverlay DEF Handled
  <2>2. o.kind = "form" => DOMAIN o = {"kind", "server", "cmd", "editing"}
    BY HandledOverlay
  <2> QED BY <1>1, <2>1, <2>2, AfterQuietKey
<1> QED BY <1>2, <1>3

\* Leaving the program.
LEMMA ExitStep == ASSUME TuiInv, Exit, KeyMoved PROVE TuiInv'
<1>1. /\ list' = EmptyList /\ pending' = None /\ loads' = <<>> /\ enrolling' = FALSE
      /\ etask' = NoTask /\ runs' = {} /\ overlay'.kind = "none" /\ sel' = 0
  BY DEF Exit, Closed
<1>2. sel' \in 0 .. Len(Items(registry, discovered))'
  <2>1. Items(registry', discovered') \in Seq(Item2)
    BY ItemsTyped
  <2> QED BY <1>1, <2>1, LenProperties
<1>3. /\ DOMAIN list' = DOMAIN list /\ loads' \in Seq(Servers)
      /\ DOMAIN etask' = {"server", "step", "copy"}
  BY <1>1, EmptySeq DEF EmptyList, NoTask, TuiInv, Shaped
<1>4. BusyHasTask'
  BY <1>1 DEF BusyHasTask, EmptyList
<1> QED BY <1>1, <1>2, <1>3, <1>4, AfterKey

\* A request for the commands of the selected server replaces the one before.
LEMMA LoadCommandsStep ==
    ASSUME TuiInv, runs = {}, LoadCommands, overlay' = Closed, KeyMoved
    PROVE  TuiInv'
<1> USE DEF TuiInv
<1>1. /\ Item.enrolled /\ list' = [list EXCEPT !.loading = TRUE] /\ pending' = Item.server
      /\ loads' = Append(loads, Item.server)
      /\ UNCHANGED <<registry, discovered, sel, enrolling, etask, runs>>
  BY DEF LoadCommands, servers, tasks
<1>2. Item.server \in Servers
  BY <1>1, ItemIsListed
<1>3. /\ loads' \in Seq(Servers) /\ Len(loads) \in Nat /\ Len(loads') = Len(loads) + 1
      /\ loads'[Len(loads) + 1] = Item.server
  BY <1>1, <1>2, AppendProperties, LenProperties DEF Shaped
<1>4. Len(loads) + 1 \in DOMAIN loads'
  BY <1>3, LenProperties
<1>5. BusyHasTask'
  <2>1. list'.loading = TRUE /\ pending' # None
    BY <1>1, <1>2, TuiAssumption DEF Shaped
  <2>2. pending' \in ToSet(loads')
    BY <1>1, <1>3, <1>4 DEF ToSet
  <2> QED BY <1>1, <2>1, <2>2 DEF BusyHasTask
<1>6. /\ DOMAIN list' = DOMAIN list /\ DOMAIN etask' = {"server", "step", "copy"}
      /\ sel' \in 0 .. Len(Items(registry, discovered))' /\ runs' = {}
      /\ overlay'.kind = "none"
  BY <1>1 DEF Shaped, Closed
<1> QED BY <1>3, <1>5, <1>6, AfterKey

\* A command that is started gets its overlay.
LEMMA BeginExecutionStep ==
    ASSUME TuiInv, runs = {}, NEW s, NEW c, BeginExecution(s, c), KeyMoved
    PROVE  TuiInv'
<1> USE DEF TuiInv
<1>1. PICK n : /\ runs' = {[n |-> n, server |-> s, cmd |-> c, started |-> FALSE]}
               /\ overlay' = [kind |-> "run", server |-> s, cmd |-> c, n |-> n,
                              running |-> TRUE, output |-> {}]
  BY DEF BeginExecution
<1>2. UNCHANGED <<list, pending, loads, registry, discovered, sel, enrolling, etask>>
  BY DEF BeginExecution, servers, commands
<1>3. Shaped'
  BY <1>1, <1>2, NextKeySees DEF Shaped
<1>4. BusyHasTask'
  BY <1>2 DEF BusyHasTask
<1>5. RunIsShown' /\ ShowsItsOwnTask' /\ EnrollmentIsShown'
  BY <1>1 DEF RunIsShown, IsFor, ShowsItsOwnTask, EnrollmentIsShown
<1> QED BY <1>3, <1>4, <1>5, NextKeySees

\* Enter on a command: a form is opened, or a run is started.
LEMMA ActivateCommandStep ==
    ASSUME TuiInv, runs = {}, ActivateCommand, KeyMoved
    PROVE  TuiInv'
<1>1. CASE BeginExecution(list.server, Selected(list))
  BY <1>1, BeginExecutionStep
<1>2. CASE /\ overlay' = [kind |-> "form", server |-> list.server, cmd |-> Selected(list),
                          editing |-> FALSE]
           /\ UNCHANGED <<quit, servers, focus, commands, tasks>>
  <2>1. /\ UNCHANGED <<list, pending, loads, enrolling, etask, runs>>
        /\ sel' \in 0 .. Len(Items(registry, discovered))'
    BY <1>2 DEF servers, commands, tasks, TuiInv, Shaped
  <2>2. overlay'.kind = "form" /\ DOMAIN overlay' = {"kind", "server", "cmd", "editing"}
    BY <1>2
  <2> QED BY <2>1, <2>2, AfterQuietKey
<1> QED BY <1>1, <1>2 DEF ActivateCommand

\* The arrows move one of the two selections.
LEMMA MoveStep ==
    ASSUME TuiInv, runs = {}, NEW k, Move(k), overlay' = Closed, KeyMoved
    PROVE  TuiInv'
<1>1. UNCHANGED <<registry, discovered, pending, loads, enrolling, etask, runs>>
  BY DEF Move, tasks
<1>2. /\ DOMAIN list' = DOMAIN list /\ list'.loading = list.loading
  BY DEF Move, SelectNext, SelectPrevious, TuiInv, Shaped
<1>3. sel' \in 0 .. Len(Items(registry, discovered))'
  <2>1. Len(Items(registry, discovered)) \in Nat
    BY ItemsTyped, LenProperties
  <2>2. sel' \in 0 .. Len(Items(registry, discovered))
    BY <2>1 DEF Move, TuiInv, Shaped
  <2> QED BY <1>1, <2>2
<1>4. overlay'.kind = "none"
  BY DEF Closed
<1> QED BY <1>1, <1>2, <1>3, <1>4, AfterQuietKey

\* The keys of the main screen.
LEMMA MainKeyStep ==
    ASSUME TuiInv, runs = {}, NEW k, MainKey(k), KeyMoved
    PROVE  TuiInv'
<1>1. CASE Exit
  BY <1>1, ExitStep
<1>2. CASE LoadCommands /\ overlay' = Closed
  BY <1>2, LoadCommandsStep
<1>3. CASE ActivateCommand
  BY <1>3, ActivateCommandStep
<1>4. CASE Move(k) /\ overlay' = Closed
  BY <1>4, MoveStep
<1>5. CASE /\ UNCHANGED <<servers, commands, enrolling, etask, runs>>
           /\ \/ overlay' = Closed \/ OpenEnrollment \/ OpenPrompt
              \/ overlay' = [kind |-> "search"] \/ overlay' = [kind |-> "tags"]
  <2>1. /\ UNCHANGED <<list, pending, loads, enrolling, etask, runs>>
        /\ sel' \in 0 .. Len(Items(registry, discovered))'
    BY <1>5 DEF servers, commands, TuiInv, Shaped
  <2>2. \/ overlay'.kind \in {"none", "prompt", "search", "tags"}
        \/ /\ overlay'.kind = "enroll" /\ DOMAIN overlay' = {"kind", "server", "step", "of"}
           /\ overlay'.of = {} /\ etask = NoTask
    BY <1>5 DEF Closed, OpenEnrollment, OpenPrompt, TuiInv, BusyHasTask
  <2> QED BY <2>1, <2>2, AfterQuietKey
<1> QED BY <1>1, <1>2, <1>3, <1>4, <1>5 DEF MainKey, tasks

\* A removal gives up the wait for a list.
LEMMA RemovalSavesStep == ASSUME TuiInv, RemovalSaves PROVE TuiInv'
<1> USE DEF TuiInv
<1>1. removal # None /\ waiting > 0 /\ runs = {} /\ removal' = None
  BY DEF RemovalSaves, RemovalIsShown, RunIsShown, IsFor, Exit
<1>2. KeyMoved
  BY <1>1 DEF RemovalSaves, TakeKey, KeyMoved, Shaped
<1>3. CASE Exit
  BY <1>2, <1>3, ExitStep
<1>4. CASE ~Exit
  <2>1. /\ list' = EmptyList /\ pending' = None /\ overlay' = Closed
        /\ UNCHANGED <<loads, enrolling, etask, runs>>
    BY <1>4 DEF RemovalSaves, tasks
  <2>2. sel' \in 0 .. Len(Items(registry, discovered))'
    BY <1>4, ReselectInside DEF RemovalSaves, Rebuild
  <2>3. BusyHasTask'
    BY <2>1 DEF BusyHasTask, EmptyList
  <2>4. /\ DOMAIN list' = DOMAIN list /\ DOMAIN etask' = {"server", "step", "copy"}
        /\ runs' = {} /\ loads' \in Seq(Servers) /\ overlay'.kind = "none"
    BY <1>1, <2>1 DEF Shaped, EmptyList, Closed
  <2> QED BY <1>2, <2>2, <2>3, <2>4, AfterKey
<1> QED BY <1>3, <1>4

\* A removal begins with the prompt on the screen.
LEMMA RemovalLoadsStep == ASSUME TuiInv, RemovalLoads PROVE TuiInv'
<1> USE DEF TuiInv
<1>1. /\ removal' = [server |-> overlay.server, read |-> stored]
      /\ waiting > 0 /\ overlay.kind = "prompt"
      /\ UNCHANGED <<registry, discovered, sel, overlay, list, pending, loads, enrolling, etask,
                     runs, waiting, key>>
  BY DEF RemovalLoads, commands, tasks, typed
<1>2. Shaped' /\ BusyHasTask' /\ KeySeesScreen'
  BY <1>1 DEF Shaped, BusyHasTask, KeySeesScreen
<1>3. RunIsShown' /\ EnrollmentIsShown' /\ ShowsItsOwnTask'
  BY <1>1 DEF RunIsShown, IsFor, EnrollmentIsShown, ShowsItsOwnTask
<1>4. RemovalIsShown'
  BY <1>1 DEF RemovalIsShown
<1> QED BY <1>2, <1>3, <1>4

\* The keys of the filter line.
LEMMA FilterKeyStep ==
    ASSUME TuiInv, runs = {}, NEW k, NEW o, FilterKey(k, o), KeyMoved
    PROVE  TuiInv'
<1>1. /\ UNCHANGED <<registry, discovered, sel, pending, loads, enrolling, etask, runs>>
      /\ overlay'.kind = "none"
  BY DEF FilterKey, servers, tasks, Closed
<1>2. DOMAIN list' = DOMAIN list /\ list'.loading = list.loading
  BY DEF FilterKey, ReapplyFilters, TuiInv, Shaped
<1>3. sel' \in 0 .. Len(Items(registry, discovered))'
  BY <1>1 DEF TuiInv, Shaped
<1> QED BY <1>1, <1>2, <1>3, AfterQuietKey

\* The keys of the parameter form.
LEMMA FormKeyStep ==
    ASSUME TuiInv, NEW k, NEW o, Handled(o), o.kind = "form", FormKey(k, o), KeyMoved
    PROVE  TuiInv'
<1>1. runs = {} /\ DOMAIN o = {"kind", "server", "cmd", "editing"}
  BY HandledOverlay
<1>2. CASE BeginExecution(o.server, o.cmd)
  BY <1>1, <1>2, BeginExecutionStep
<1>3. CASE /\ \E b : overlay' = [o EXCEPT !.editing = b]
           /\ UNCHANGED <<quit, servers, focus, commands, tasks>>
  <2>1. /\ UNCHANGED <<list, pending, loads, enrolling, etask, runs>>
        /\ sel' \in 0 .. Len(Items(registry, discovered))'
    BY <1>3 DEF servers, commands, tasks, TuiInv, Shaped
  <2>2. overlay'.kind = "form" /\ DOMAIN overlay' = {"kind", "server", "cmd", "editing"}
    BY <1>1, <1>3
  <2> QED BY <1>1, <2>1, <2>2, AfterQuietKey
<1> QED BY <1>2, <1>3 DEF FormKey

\* The keys of the enrollment overlay.
LEMMA EnrollKeyStep ==
    ASSUME TuiInv, NEW k, NEW o, Handled(o), o.kind = "enroll", EnrollKey(k, o), KeyMoved
    PROVE  TuiInv'
<1> USE DEF TuiInv
<1>1. runs = {} /\ o = overlay /\ DOMAIN o = {"kind", "server", "step", "of"}
  BY HandledOverlay DEF Shaped
<1>2. o.of \subseteq {o.server} /\ (etask # NoTask => etask.server = o.server)
  BY <1>1 DEF ShowsItsOwnTask, EnrollmentIsShown
<1>3. CASE \E step, task \in {"approval", "progress", "spawned", "submitted"} :
             StartEnrollment(o, step, task)
  <2>1. PICK step, task \in {"approval", "progress", "spawned", "submitted"} :
          StartEnrollment(o, step, task)
    BY <1>3
  <2>2. /\ enrolling' = TRUE /\ etask' = [server |-> o.server, step |-> task, copy |-> {}]
        /\ overlay' = [o EXCEPT !.step = step]
        /\ UNCHANGED <<list, pending, loads, registry, discovered, sel, runs>>
    BY <2>1 DEF StartEnrollment, servers, commands
  <2>3. etask' # NoTask
    BY <2>2 DEF NoTask
  <2>4. BusyHasTask'
    BY <2>2, <2>3 DEF BusyHasTask
  <2>5. /\ overlay'.kind = "enroll" /\ DOMAIN overlay' = {"kind", "server", "step", "of"}
        /\ overlay'.of \subseteq {overlay'.server} /\ etask'.server = overlay'.server
    BY <1>1, <1>2, <2>2
  <2>6. /\ DOMAIN list' = DOMAIN list /\ loads' \in Seq(Servers) /\ runs' = {}
        /\ sel' \in 0 .. Len(Items(registry, discovered))' /\ DOMAIN etask' = {"server", "step", "copy"}
    BY <1>1, <2>2 DEF Shaped
  <2> QED BY <2>4, <2>5, <2>6, AfterKey
<1>4. CASE /\ overlay' = [o EXCEPT !.step = "qr"] \/ overlay' = Closed
           /\ UNCHANGED <<quit, servers, focus, commands, tasks>>
  <2>1. /\ UNCHANGED <<list, pending, loads, enrolling, etask, runs>>
        /\ sel' \in 0 .. Len(Items(registry, discovered))'
    BY <1>4 DEF servers, commands, tasks, Shaped
  <2>2. \/ overlay'.kind = "none"
        \/ /\ overlay'.kind = "enroll" /\ DOMAIN overlay' = {"kind", "server", "step", "of"}
           /\ overlay'.of = o.of /\ overlay'.server = o.server
    BY <1>1, <1>4 DEF Closed
  <2> QED BY <1>1, <1>2, <2>1, <2>2, AfterQuietKey
<1> QED BY <1>3, <1>4 DEF EnrollKey

\* One key, whichever overlay it is handled with.
LEMMA HandleKeyStep ==
    ASSUME TuiInv, NEW k, NEW o, Handled(o), HandleKey(k, o), KeyMoved
    PROVE  TuiInv'
<1>1. o.kind # "run" => runs = {}
  BY HandledOverlay
<1>2. CASE Exit
  BY <1>2, ExitStep
<1>3. CASE o.kind = "none" /\ MainKey(k)
  BY <1>1, <1>3, MainKeyStep
<1>4. CASE o.kind = "prompt" /\ PromptKey(k, o)
  <2>1. CASE Exit
    BY <2>1, ExitStep
  <2>2. CASE overlay' = Closed /\ UNCHANGED <<quit, servers, focus, commands, tasks>>
    <3>1. /\ UNCHANGED <<list, pending, loads, enrolling, etask, runs>>
          /\ sel' \in 0 .. Len(Items(registry, discovered))' /\ overlay'.kind = "none"
      BY <2>2 DEF servers, commands, tasks, TuiInv, Shaped, Closed
    <3> QED BY <1>1, <1>4, <3>1, AfterQuietKey
  <2> QED BY <1>4, <2>1, <2>2 DEF PromptKey
<1>5. CASE o.kind \in {"search", "tags"} /\ FilterKey(k, o)
  BY <1>1, <1>5, FilterKeyStep
<1>6. CASE o.kind = "form" /\ FormKey(k, o)
  BY <1>6, FormKeyStep
<1>7. CASE o.kind = "enroll" /\ EnrollKey(k, o)
  BY <1>7, EnrollKeyStep
<1> QED BY <1>2, <1>3, <1>4, <1>5, <1>6, <1>7 DEF HandleKey

\* No key but the one that confirms a removal touches the file.
LEMMA KeyActs ==
    ASSUME NEW k, NEW o, HandleKey(k, o), removal = None
    PROVE  /\ stored' = stored /\ removal' = None
           /\ \/ runs' \ runs = {}
              \/ o.kind = "form" /\ overlay'.server = o.server /\ overlay'.cmd = o.cmd
              \/ /\ o.kind = "none"
                 /\ overlay'.server = list.server /\ overlay'.cmd = Selected(list)
<1>1. CASE Exit /\ UNCHANGED stored
  BY <1>1 DEF Exit
<1>2. CASE o.kind = "none" /\ MainKey(k)
  <2>1. ASSUME ActivateCommand
        PROVE  /\ stored' = stored /\ removal' = None
               /\ \/ runs' = runs
                  \/ overlay'.server = list.server /\ overlay'.cmd = Selected(list)
    BY <2>1 DEF ActivateCommand, BeginExecution, servers, tasks
  <2>2. CASE ~ActivateCommand
    BY <1>1, <1>2, <2>2 DEF MainKey, LoadCommands, Move, servers, tasks
  <2> QED BY <1>2, <2>1, <2>2
<1>3. CASE o.kind = "prompt" /\ PromptKey(k, o)
  BY <1>1, <1>3 DEF PromptKey, servers, tasks
<1>4. CASE o.kind \in {"search", "tags"} /\ FilterKey(k, o)
  BY <1>4 DEF FilterKey, servers, tasks
<1>5. CASE o.kind = "form" /\ FormKey(k, o)
  BY <1>5 DEF FormKey, BeginExecution, servers, tasks
<1>6. CASE o.kind = "enroll" /\ EnrollKey(k, o)
  BY <1>6 DEF EnrollKey, StartEnrollment, servers, tasks
<1> QED BY <1>1, <1>2, <1>3, <1>4, <1>5, <1>6 DEF HandleKey

\* What a key is handled with, and that it is the screen's when no Esc waits.
LEMMA InputHandles ==
    ASSUME TuiInv, Input
    PROVE  /\ removal = None /\ waiting > 0 /\ TakeKey
           /\ \E o \in {overlay, AfterEsc(overlay)} :
                 \/ Stays(o)
                 \/ \E k \in Keys : HandleKey(k, o) /\ (esc = "none" => o = overlay)
BY DEF Input, Idle, Keys, Arrows

\* Reading a key, Esc held back or released.
LEMMA InputStep == ASSUME TuiInv, Input PROVE TuiInv'
<1>1. removal = None /\ waiting > 0 /\ TakeKey
  BY InputHandles
<1>2. removal' = None => KeyMoved
  BY <1>1 DEF TakeKey, KeyMoved, TuiInv, Shaped
<1>3. \A o \in {overlay, AfterEsc(overlay)} : Handled(o)
  BY EscLeaves DEF Handled
<1>4. ASSUME NEW o \in {overlay, AfterEsc(overlay)}, Stays(o) PROVE TuiInv'
  <2>1. removal' = None
    BY <1>1, <1>4 DEF Stays, servers
  <2> QED BY <1>2, <1>3, <1>4, <2>1, StaysStep
<1>5. ASSUME NEW k \in Keys, NEW o \in {overlay, AfterEsc(overlay)}, HandleKey(k, o)
      PROVE  TuiInv'
  <2>1. removal' = None
    BY <1>1, <1>5, KeyActs
  <2> QED BY <1>2, <1>3, <1>5, <2>1, HandleKeyStep
<1> QED BY <1>4, <1>5, InputHandles

\* Every step of the program and of its tasks keeps the invariant.
LEMMA TuiNext == TuiInv /\ [Next]_vars => TuiInv'
<1> SUFFICES ASSUME TuiInv, [Next]_vars PROVE TuiInv'
  OBVIOUS
<1>1. CASE UNCHANGED vars
  <2> USE <1>1 DEF TuiInv, vars, servers, commands, tasks, typed
  <2>1. Shaped' /\ BusyHasTask' /\ RemovalIsShown'
    BY DEF Shaped, BusyHasTask, RemovalIsShown
  <2>2. RunIsShown' /\ EnrollmentIsShown' /\ ShowsItsOwnTask' /\ KeySeesScreen'
    BY DEF RunIsShown, IsFor, EnrollmentIsShown, ShowsItsOwnTask, KeySeesScreen
  <2> QED BY <2>1, <2>2
<1> QED BY <1>1, DiscoveryFinishedStep, ListAnsweredStep, RunEventStep, EnrollmentEventStep,
        PressStep, InputStep, RemovalLoadsStep, RemovalSavesStep DEF Next

\* The invariant holds in every state.
LEMMA TuiAlways == Spec => []TuiInv
BY TuiInit, TuiNext, PTL DEF Spec

(***************************************************************************)
(* A flag that makes the App refuse the next enrollment or the next        *)
(* request for commands has a task behind it that will clear it, for any   *)
(* servers, lists and number of tasks.                                     *)
(***************************************************************************)
THEOREM NeverStuckBusy == Spec => []BusyHasTask
BY TuiAlways, PTL DEF TuiInv

(***************************************************************************)
(* The output and the end shown are of the run the overlay was opened for, *)
(* the steps of an enrollment of its own server, although the events carry *)
(* no number: a run keeps its overlay open, and an enrollment keeps others *)
(* from being opened.                                                      *)
(***************************************************************************)
THEOREM EventsReachTheirOverlay == Spec => []ShowsItsOwnTask
BY TuiAlways, PTL DEF TuiInv

-----------------------------------------------------------------------------
(* What a key acts on.                                                     *)

\* One step of ActsOnWhatIsShown.
ActsOnShown ==
    waiting' < waiting =>
        /\ removal # None /\ ~quit' =>
              removal.read \ stored' = {key.seen.server} \cap removal.read
        /\ removal = None => stored' = stored
        /\ runs' \ runs # {} /\ esc = "none" /\ (key.fresh \/ key.seen.kind = "form") =>
              overlay'.server = key.seen.server /\ overlay'.cmd = key.seen.cmd

\* Every step is a step of ActsOnWhatIsShown.
LEMMA ActsStep == ASSUME TuiInv, Next PROVE ActsOnShown
<1>0. waiting \in Nat
  BY DEF TuiInv, Shaped
<1>1. CASE UNCHANGED waiting
  BY <1>0, <1>1 DEF ActsOnShown
<1>2. CASE Input
  <2>1. removal = None /\ waiting > 0
    BY <1>2, InputHandles
  <2>2. ASSUME NEW o, Stays(o) PROVE ActsOnShown
    BY <2>1, <2>2 DEF Stays, servers, tasks, ActsOnShown
  <2>3. ASSUME NEW k \in Keys, NEW o \in {overlay, AfterEsc(overlay)}, HandleKey(k, o),
               esc = "none" => o = overlay
        PROVE  ActsOnShown
    <3>1. /\ o = overlay /\ o.kind = "form" => key.seen = overlay
          /\ o = overlay /\ o.kind = "none" =>
                /\ key.seen.kind = "none"
                /\ key.fresh => key.seen.server = list.server /\ key.seen.cmd = Selected(list)
      BY <2>1 DEF TuiInv, KeySeesScreen
    <3> QED BY <2>1, <2>3, <3>1, KeyActs DEF ActsOnShown
  <2> QED BY <1>2, <2>2, <2>3, InputHandles
<1>3. CASE RemovalSaves
  <2>1. /\ removal # None /\ waiting > 0 /\ overlay.kind = "prompt" /\ runs = {}
        /\ removal.server = key.seen.server
    BY <1>3 DEF RemovalSaves, TuiInv, RemovalIsShown, KeySeesScreen, RunIsShown, IsFor
  <2>2. runs' \ runs = {} /\ (~quit' => stored' = removal.read \ {removal.server})
    BY <1>3, <2>1 DEF RemovalSaves, Exit, tasks
  <2> QED BY <2>1, <2>2 DEF ActsOnShown
<1>4. CASE Press
  BY <1>0, <1>4 DEF Press, ActsOnShown
<1>5. CASE ListAnswered
  BY <1>1, <1>5 DEF ListAnswered, ListLoaded, ListFailed, NotFresh, typed
<1>6. CASE DiscoveryFinished \/ RunStarted \/ RunOutput \/ RunFinished \/ RemovalLoads
  BY <1>1, <1>6 DEF DiscoveryFinished, RunStarted, RunOutput, RunFinished, RemovalLoads, typed
<1>7. CASE \/ EnrollmentProgress \/ EnrollmentLoads \/ EnrollmentSaves
           \/ EnrollmentCompleted \/ EnrollmentFailed
  BY <1>1, <1>7 DEF EnrollmentProgress, EnrollmentLoads, EnrollmentSaves, EnrollmentCompleted,
     EnrollmentFailed, typed
<1> QED BY <1>2, <1>3, <1>4, <1>5, <1>6, <1>7 DEF Next

(***************************************************************************)
(* A key removes the server and starts the command it was meant for,       *)
(* whatever events were handled between the press, or the key before it,   *)
(* and the key, and however many keys were typed ahead.                    *)
(***************************************************************************)
THEOREM KeysActOnScreen == Spec => ActsOnWhatIsShown
<1>1. TuiInv /\ [Next]_vars => [ActsOnShown]_vars
  BY ActsStep
<1>2. Spec => [][ActsOnShown]_vars
  BY <1>1, TuiAlways, PTL DEF Spec
<1> QED BY <1>2 DEF ActsOnWhatIsShown, ActsOnShown

-----------------------------------------------------------------------------
(* What the command pane shows while it waits.                             *)

\* One step of PaneKeepsUntilAnswer.
PaneKeeps ==
    pending # None /\ ~quit' =>
        \/ UNCHANGED <<pending, list.server, list.cmds>>
        \/ removal # None
        \/ /\ \E i \in DOMAIN loads : loads[i] = pending /\ loads' = RemoveAt(loads, i)
           /\ pending' = None
           /\ list'.server = pending \/ UNCHANGED <<list.server, list.cmds>>

\* While a list is awaited no key asks for another one or changes it.
LEMMA KeyKeepsPane ==
    ASSUME TuiInv, NEW k, NEW o, HandleKey(k, o), pending # None, ~quit'
    PROVE  UNCHANGED <<pending, list.server, list.cmds>>
<1> USE DEF Exit
<1>1. list.loading
  BY DEF TuiInv, BusyHasTask
<1>2. DOMAIN list = {"server", "cmds", "selected", "filter", "loading"}
  BY DEF TuiInv, Shaped
<1>3. CASE o.kind = "none" /\ MainKey(k)
  <2>1. CASE Move(k)
    BY <1>2, <2>1 DEF Move, SelectNext, SelectPrevious
  <2>2. CASE ActivateCommand
    BY <2>2 DEF ActivateCommand, BeginExecution, commands
  <2>3. CASE UNCHANGED commands
    BY <2>3 DEF commands
  <2> QED BY <1>1, <1>3, <2>1, <2>2, <2>3 DEF MainKey, LoadCommands
<1>4. CASE o.kind = "prompt" /\ PromptKey(k, o)
  BY <1>4 DEF PromptKey, commands
<1>5. CASE FilterKey(k, o)
  BY <1>2, <1>5 DEF FilterKey, ReapplyFilters
<1>6. CASE o.kind = "form" /\ FormKey(k, o)
  BY <1>6 DEF FormKey, BeginExecution, commands
<1>7. CASE o.kind = "enroll" /\ EnrollKey(k, o)
  BY <1>7 DEF EnrollKey, StartEnrollment, commands
<1> QED BY <1>3, <1>4, <1>5, <1>6, <1>7 DEF HandleKey

\* Every step is a step of PaneKeepsUntilAnswer.
LEMMA PaneStep == ASSUME TuiInv, Next PROVE PaneKeeps
<1>1. CASE UNCHANGED commands
  BY <1>1 DEF commands, PaneKeeps
<1>2. CASE Input
  <2>1. ASSUME NEW o, Stays(o) PROVE PaneKeeps
    BY <1>1, <2>1 DEF Stays
  <2>2. ASSUME NEW k, NEW o, HandleKey(k, o) PROVE PaneKeeps
    BY <2>2, KeyKeepsPane DEF PaneKeeps
  <2> QED BY <1>2, <2>1, <2>2, InputHandles
<1>3. CASE RemovalSaves
  BY <1>3 DEF RemovalSaves, PaneKeeps
<1>4. CASE ListAnswered
  <2> SUFFICES ASSUME pending # None PROVE PaneKeeps
    BY DEF PaneKeeps
  <2>1. PICK i \in DOMAIN loads :
          /\ loads' = RemoveAt(loads, i)
          /\ IF AnswerIgnored(loads[i]) THEN UNCHANGED <<list, pending, sel, focus, typed>>
             ELSE (\E cs \in Lists : ListLoaded(loads[i], cs)) \/ ListFailed
    BY <1>4 DEF ListAnswered
  <2>2. CASE AnswerIgnored(loads[i])
    BY <2>1, <2>2 DEF PaneKeeps
  <2>3. CASE ~AnswerIgnored(loads[i])
    <3>1. loads[i] = pending
      BY <2>3 DEF AnswerIgnored
    <3>2. DOMAIN list = {"server", "cmds", "selected", "filter", "loading"}
      BY DEF TuiInv, Shaped
    <3>3. ASSUME NEW cs \in Lists, ListLoaded(loads[i], cs)
          PROVE  list'.server = pending /\ pending' = None
      BY <3>1, <3>2, <3>3 DEF ListLoaded, SetCommandList, ReapplyFilters
    <3>4. CASE ListFailed
      BY <2>1, <3>1, <3>2, <3>4 DEF ListFailed, PaneKeeps
    <3> QED BY <2>1, <2>3, <3>1, <3>3, <3>4 DEF PaneKeeps
  <2> QED BY <2>2, <2>3
<1>5. CASE DiscoveryFinished \/ RunStarted \/ RunOutput \/ RunFinished \/ RemovalLoads \/ Press
  BY <1>1, <1>5 DEF DiscoveryFinished, RunStarted, RunOutput, RunFinished, RemovalLoads, Press
<1>6. CASE \/ EnrollmentProgress \/ EnrollmentLoads \/ EnrollmentSaves
           \/ EnrollmentCompleted \/ EnrollmentFailed
  BY <1>1, <1>6 DEF EnrollmentProgress, EnrollmentLoads, EnrollmentSaves, EnrollmentCompleted,
     EnrollmentFailed
<1> QED BY <1>2, <1>3, <1>4, <1>5, <1>6 DEF Next

(***************************************************************************)
(* While the commands of a server are awaited the pane keeps its list, and *)
(* only that server's answer ends the wait, however many requests that     *)
(* removals forgot are still answered, and in whatever order.              *)
(***************************************************************************)
THEOREM PaneWaitsForItsAnswer == Spec => PaneKeepsUntilAnswer
<1>1. TuiInv /\ [Next]_vars => [PaneKeeps]_vars
  BY PaneStep
<1>2. Spec => [][PaneKeeps]_vars
  BY <1>1, TuiAlways, PTL DEF Spec
<1> QED BY <1>2 DEF PaneKeepsUntilAnswer, PaneKeeps
=============================================================================
