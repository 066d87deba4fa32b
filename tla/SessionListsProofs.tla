------------------------- MODULE SessionListsProofs -------------------------
(***************************************************************************)
(* What filtering and sorting a list of sessions yields, whatever the list *)
(* and the keys: each chosen element once, in the order of the keys and,   *)
(* among equals, of the list.  Every fact rests on one about ranks: those  *)
(* of a finite set are the numbers below its size, each once.              *)
(***************************************************************************)
EXTENDS SessionLists, FiniteSetTheorems, SequenceTheorems, TLAPS

\* A key orders the positions of a list totally, equals by position.
LEMMA BeforeOrders ==
  ASSUME NEW at \in SUBSET Nat, NEW key, \A i \in at : key[i] \in Int
  PROVE  /\ \A i \in at : ~Before(key, i, i)
         /\ \A i, j \in at : i # j => Before(key, i, j) \/ Before(key, j, i)
         /\ \A h, i, j \in at : Before(key, h, i) /\ Before(key, i, j) => Before(key, h, j)
<1>1. \A i \in at : i \in Nat
  OBVIOUS
<1>2. QED
  BY <1>1 DEF Before

\* Ranks of a finite set of positions are the numbers below its size, each
\* once, in the order of the key.
LEMMA RanksOnce ==
  ASSUME NEW at \in SUBSET Nat, IsFiniteSet(at), NEW key, \A i \in at : key[i] \in Int
  PROVE  /\ \A i \in at : Rank(at, key, i) \in 0 .. (Cardinality(at) - 1)
         /\ \A i, j \in at : Before(key, i, j) => Rank(at, key, i) < Rank(at, key, j)
         /\ \A i, j \in at : Rank(at, key, i) = Rank(at, key, j) => i = j
         /\ \A n \in 0 .. (Cardinality(at) - 1) : \E i \in at : Rank(at, key, i) = n
<1> DEFINE Ahead(i) == {j \in at : Before(key, j, i)}
           R(i) == Rank(at, key, i)
           size == Cardinality(at)
           f == [i \in at |-> R(i)]
<1>1. size \in Nat
  BY FS_CardinalityType
<1>2. ASSUME NEW i \in at
      PROVE  IsFiniteSet(Ahead(i)) /\ R(i) \in Nat /\ R(i) = Cardinality(Ahead(i))
  <2>1. Ahead(i) \in SUBSET at
    OBVIOUS
  <2>2. IsFiniteSet(Ahead(i))
    BY <2>1, FS_Subset
  <2>3. QED
    BY <2>2, FS_CardinalityType DEF Rank
<1>3. ASSUME NEW i \in at, NEW T \in SUBSET at, Ahead(i) \cup {i} \subseteq T
      PROVE  R(i) + 1 <= Cardinality(T)
  <2>1. Cardinality(Ahead(i) \cup {i}) = R(i) + 1
    <3>1. i \notin Ahead(i)
      BY BeforeOrders
    <3>2. QED
      BY <1>2, <3>1, FS_AddElement
  <2>2. IsFiniteSet(T)
    BY FS_Subset
  <2>3. Cardinality(Ahead(i) \cup {i}) <= Cardinality(T)
    BY <1>3, <2>2, FS_Subset
  <2>4. QED
    BY <2>1, <2>3
<1>4. ASSUME NEW i \in at PROVE R(i) \in 0 .. (size - 1)
  <2>1. R(i) + 1 <= size /\ R(i) \in Nat
    BY <1>2, <1>3
  <2> HIDE DEF size, R
  <2>2. QED
    BY <1>1, <2>1
<1>5. ASSUME NEW i \in at, NEW j \in at, Before(key, i, j) PROVE R(i) < R(j)
  <2>1. Ahead(i) \cup {i} \subseteq Ahead(j)
    BY <1>5, BeforeOrders
  <2>2. R(i) + 1 <= Cardinality(Ahead(j))
    <3>1. Ahead(j) \in SUBSET at
      OBVIOUS
    <3>2. QED
      BY <1>3, <2>1, <3>1
  <2>3. R(i) \in Nat /\ R(j) \in Nat /\ R(j) = Cardinality(Ahead(j))
    BY <1>2
  <2> HIDE DEF R, Ahead
  <2>4. QED
    BY <2>2, <2>3
<1>6. ASSUME NEW i \in at, NEW j \in at, R(i) = R(j) PROVE i = j
  <2>1. R(i) \in Nat
    BY <1>2
  <2>2. ~(R(i) < R(j)) /\ ~(R(j) < R(i))
    <3> HIDE DEF R
    <3>1. QED
      BY <1>6, <2>1
  <2>3. ~Before(key, i, j) /\ ~Before(key, j, i)
    BY <1>5, <2>2
  <2>4. QED
    BY <2>3, BeforeOrders
<1>7. f \in Injection(at, 0 .. (size - 1))
  <2>1. f \in [at -> 0 .. (size - 1)]
    BY <1>4
  <2>2. \A i, j \in at : f[i] = f[j] => i = j
    BY <1>6
  <2>3. QED
    BY <2>1, <2>2 DEF Injection, IsInjective
<1>8. IsFiniteSet(0 .. (size - 1)) /\ Cardinality(0 .. (size - 1)) = size
  <2> HIDE DEF size
  <2>1. size - 1 \in Int /\ (size - 1) - 0 + 1 = size /\ (0 > size - 1 => size = 0)
    BY <1>1
  <2>2. QED
    BY <2>1, FS_Interval
<1>9. f \in Surjection(at, 0 .. (size - 1))
  BY <1>7, <1>8, FS_Injection
<1>10. ASSUME NEW n \in 0 .. (size - 1) PROVE \E i \in at : R(i) = n
  BY <1>9 DEF Surjection
<1>11. QED
  BY <1>4, <1>5, <1>6, <1>10

\* The elements of a list at some positions, each once, in the order of a key.
EachOnce(result, S, list, at, key) ==
  /\ result \in Seq(S) /\ Len(result) \in Nat /\ DOMAIN result = 1 .. Len(result)
  /\ \E pos \in [1 .. Len(result) -> at] :
       /\ \A n \in 1 .. Len(result) : result[n] = list[pos[n]]
       /\ \A i \in at : \E n \in 1 .. Len(result) : pos[n] = i
       /\ \A m, n \in 1 .. Len(result) : m < n => Before(key, pos[m], pos[n])

\* An arranged list has each chosen element once, in the order of the key.
THEOREM ArrangedOnce ==
  ASSUME NEW S, NEW list, NEW at, NEW key, at \in SUBSET Nat, IsFiniteSet(at),
         \A i \in at : list[i] \in S, \A i \in at : key[i] \in Int
  PROVE  EachOnce(Arrange(list, at, key), S, list, at, key)
<1> DEFINE size == Cardinality(at)
           Place(n) == CHOOSE i \in at : Rank(at, key, i) = n - 1
           pos == [n \in 1 .. size |-> Place(n)]
           result == Arrange(list, at, key)
<1>1. size \in Nat
  BY FS_CardinalityType
<1>2. result = [n \in 1 .. size |-> list[Place(n)]]
  BY DEF Arrange
<1>3. /\ \A i \in at : Rank(at, key, i) \in 0 .. (size - 1)
      /\ \A i, j \in at : Before(key, i, j) => Rank(at, key, i) < Rank(at, key, j)
      /\ \A i, j \in at : Rank(at, key, i) = Rank(at, key, j) => i = j
      /\ \A n \in 0 .. (size - 1) : \E i \in at : Rank(at, key, i) = n
  BY RanksOnce
<1> HIDE DEF size, result
<1>4. ASSUME NEW n \in 1 .. size PROVE Place(n) \in at /\ Rank(at, key, Place(n)) = n - 1
  <2>1. n - 1 \in 0 .. (size - 1)
    BY <1>1
  <2>2. \E i \in at : Rank(at, key, i) = n - 1
    BY <1>3, <2>1
  <2>3. QED
    BY <2>2
<1> HIDE DEF Place
<1>5. pos \in [1 .. size -> at] /\ \A n \in 1 .. size : result[n] = list[pos[n]]
  BY <1>2, <1>4
<1>6. ASSUME NEW i \in at PROVE \E n \in 1 .. size : pos[n] = i
  <2>1. Rank(at, key, i) + 1 \in 1 .. size /\ (Rank(at, key, i) + 1) - 1 = Rank(at, key, i)
    BY <1>1, <1>3
  <2>2. Place(Rank(at, key, i) + 1) = i
    BY <1>3, <1>4, <2>1
  <2>3. QED
    BY <2>1, <2>2
<1>7. ASSUME NEW m \in 1 .. size, NEW n \in 1 .. size, m < n PROVE Before(key, pos[m], pos[n])
  <2>1. Rank(at, key, pos[m]) = m - 1 /\ Rank(at, key, pos[n]) = n - 1 /\ pos[m] \in at /\ pos[n] \in at
    BY <1>4
  <2>2. pos[m] # pos[n] /\ ~(Rank(at, key, pos[n]) < Rank(at, key, pos[m]))
    BY <1>7, <2>1
  <2>3. QED
    BY <1>3, <2>1, <2>2, BeforeOrders
<1>8. result \in Seq(S) /\ Len(result) = size /\ DOMAIN result = 1 .. size
  <2>1. result \in [1 .. size -> S]
    BY <1>2, <1>4
  <2>2. QED
    BY <1>1, <2>1, LenProperties, SeqDef
<1>9. EachOnce(result, S, list, at, key)
  BY <1>1, <1>5, <1>6, <1>7, <1>8 DEF EachOnce
<1>10. QED
  BY <1>9 DEF result

\* Positions of a list are a finite set of numbers, and so is any part of it.
LEMMA Positions ==
  ASSUME NEW S, NEW list \in Seq(S), NEW at, at \subseteq DOMAIN list
  PROVE  /\ DOMAIN list = 1 .. Len(list) /\ Len(list) \in Nat
         /\ at \in SUBSET Nat /\ IsFiniteSet(at)
         /\ \A i \in at : list[i] \in S
<1>1. DOMAIN list = 1 .. Len(list) /\ Len(list) \in Nat /\ \A i \in 1 .. Len(list) : list[i] \in S
  BY LenProperties
<1>2. IsFiniteSet(DOMAIN list)
  BY <1>1, FS_Interval
<1>3. at \in SUBSET (DOMAIN list)
  OBVIOUS
<1>4. IsFiniteSet(at)
  BY <1>2, <1>3, FS_Subset
<1>5. QED
  BY <1>1, <1>4

-----------------------------------------------------------------------------
\* The sessions that a view shows, each once, by name if the server sorts by
\* name, otherwise in the server's order.
ViewOnce(shown, S, sessions, settings, view) ==
  /\ shown \in Seq(S)
  /\ \E pos \in [1 .. Len(shown) -> DOMAIN sessions] :
       /\ \A n \in 1 .. Len(shown) :
            shown[n] = sessions[pos[n]] /\ Shows(settings, view, shown[n])
       /\ \A i \in DOMAIN sessions :
            Shows(settings, view, sessions[i]) => \E n \in 1 .. Len(shown) : pos[n] = i
       /\ \A m, n \in 1 .. Len(shown) : m < n =>
            \/ settings.alphabetical /\ shown[m].name < shown[n].name
            \/ /\ settings.alphabetical => shown[m].name = shown[n].name
               /\ pos[m] < pos[n]

\* resolve_view lists what a view shows, once each and in order.
THEOREM ViewResolved ==
  ASSUME NEW S, NEW sessions, NEW settings, NEW view,
         sessions \in Seq(S), \A s \in S : s.name \in Nat
  PROVE  ViewOnce(ResolveView(sessions, settings, view), S, sessions, settings, view)
<1> DEFINE at == {i \in DOMAIN sessions : Shows(settings, view, sessions[i])}
           key == IF settings.alphabetical THEN ByName(sessions) ELSE Same(sessions)
           shown == ResolveView(sessions, settings, view)
<1>1. shown = Arrange(sessions, at, key)
  BY DEF ResolveView
<1>2. /\ at \in SUBSET Nat /\ IsFiniteSet(at) /\ at \subseteq DOMAIN sessions
      /\ \A i \in at : sessions[i] \in S
  BY Positions
<1>3. \A i \in at : key[i] = IF settings.alphabetical THEN sessions[i].name ELSE 0
  BY DEF ByName, Same
<1>4. \A i \in at : key[i] \in Int
  BY <1>2, <1>3
<1>5. \A i \in at : Shows(settings, view, sessions[i])
  OBVIOUS
<1>6. \A i \in DOMAIN sessions : Shows(settings, view, sessions[i]) => i \in at
  OBVIOUS
<1> HIDE DEF at, key, shown
<1>7. EachOnce(shown, S, sessions, at, key)
  BY <1>1, <1>2, <1>4, ArrangedOnce, Zenon
<1>8. PICK pos \in [1 .. Len(shown) -> at] :
        /\ \A n \in 1 .. Len(shown) : shown[n] = sessions[pos[n]]
        /\ \A i \in at : \E n \in 1 .. Len(shown) : pos[n] = i
        /\ \A m, n \in 1 .. Len(shown) : m < n => Before(key, pos[m], pos[n])
  BY <1>7 DEF EachOnce
<1>9. ASSUME NEW m \in 1 .. Len(shown), NEW n \in 1 .. Len(shown), m < n
      PROVE  \/ settings.alphabetical /\ shown[m].name < shown[n].name
             \/ /\ settings.alphabetical => shown[m].name = shown[n].name
                /\ pos[m] < pos[n]
  <2>1. Before(key, pos[m], pos[n]) /\ pos[m] \in at /\ pos[n] \in at
    BY <1>8, <1>9
  <2>2. CASE settings.alphabetical
    BY <1>3, <1>8, <2>1, <2>2 DEF Before
  <2>3. CASE ~settings.alphabetical
    <3>1. key[pos[m]] = 0 /\ key[pos[n]] = 0
      BY <1>3, <2>1, <2>3
    <3>2. pos[m] < pos[n]
      BY <2>1, <3>1 DEF Before
    <3>3. QED
      BY <2>3, <3>2
  <2>4. QED
    BY <2>2, <2>3
<1>10. pos \in [1 .. Len(shown) -> DOMAIN sessions]
  BY <1>2
<1>11. \A n \in 1 .. Len(shown) : shown[n] = sessions[pos[n]] /\ Shows(settings, view, shown[n])
  BY <1>5, <1>8
<1>12. \A i \in DOMAIN sessions : Shows(settings, view, sessions[i]) => \E n \in 1 .. Len(shown) : pos[n] = i
  BY <1>6, <1>8
<1>13. shown \in Seq(S)
  BY <1>7 DEF EachOnce
<1>14. QED
  BY <1>9, <1>10, <1>11, <1>12, <1>13 DEF shown, ViewOnce

-----------------------------------------------------------------------------
\* One tier: the sessions at some positions, the last bell first.
LEMMA Tier ==
  ASSUME NEW S, NEW sessions \in Seq(S), \A s \in S : s.fired \in Nat,
         NEW at, at \subseteq DOMAIN sessions
  PROVE  LET tier == Arrange(sessions, at, ByBell(sessions)) IN
         /\ tier \in Seq(S)
         /\ \E pos \in [1 .. Len(tier) -> at] :
              /\ \A n \in 1 .. Len(tier) : tier[n] = sessions[pos[n]]
              /\ \A i \in at : \E n \in 1 .. Len(tier) : pos[n] = i
              /\ \A m, n \in 1 .. Len(tier) : m < n =>
                   \/ tier[m].fired > tier[n].fired
                   \/ tier[m].fired = tier[n].fired /\ pos[m] < pos[n]
<1> DEFINE key == ByBell(sessions)
           tier == Arrange(sessions, at, key)
<1>1. /\ at \in SUBSET Nat /\ IsFiniteSet(at)
      /\ \A i \in at : sessions[i] \in S
  BY Positions
<1>2. \A i \in at : key[i] = -sessions[i].fired
  BY DEF ByBell
<1> HIDE DEF key
<1>3. /\ \A i \in at : key[i] \in Int
      /\ \A i \in at : sessions[i].fired \in Nat
  BY <1>1, <1>2
<1>4. \A i, j \in at : Before(key, i, j) =>
        \/ sessions[i].fired > sessions[j].fired
        \/ sessions[i].fired = sessions[j].fired /\ i < j
  BY <1>2, <1>3 DEF Before
<1>5. tier = Arrange(sessions, at, key)
  OBVIOUS
<1> HIDE DEF tier
<1>6. EachOnce(tier, S, sessions, at, key)
  BY <1>1, <1>3, <1>5, ArrangedOnce, Zenon
<1>7. PICK pos \in [1 .. Len(tier) -> at] :
        /\ \A n \in 1 .. Len(tier) : tier[n] = sessions[pos[n]]
        /\ \A i \in at : \E n \in 1 .. Len(tier) : pos[n] = i
        /\ \A m, n \in 1 .. Len(tier) : m < n => Before(key, pos[m], pos[n])
  BY <1>6 DEF EachOnce
<1>8. ASSUME NEW m \in 1 .. Len(tier), NEW n \in 1 .. Len(tier), m < n
      PROVE  \/ tier[m].fired > tier[n].fired
             \/ tier[m].fired = tier[n].fired /\ pos[m] < pos[n]
  <2>1. pos[m] \in at /\ pos[n] \in at /\ Before(key, pos[m], pos[n])
    BY <1>7, <1>8
  <2>2. QED
    BY <1>4, <1>7, <2>1
<1>9. tier \in Seq(S)
  BY <1>6 DEF EachOnce
<1>10. QED
  BY <1>7, <1>8, <1>9 DEF tier, key

\* Each session once, except a quiet namesake of one that needs attention;
\* those that need it first, then the last bell, equals in their old order.
Remains(sessions, i) ==
  sessions[i].needs \/ ~\E j \in DOMAIN sessions :
                         sessions[j].needs /\ sessions[j].name = sessions[i].name
AttentionOnce(sorted, S, sessions) ==
  /\ sorted \in Seq(S)
  /\ \E pos \in [1 .. Len(sorted) -> DOMAIN sessions] :
       /\ \A n \in 1 .. Len(sorted) : sorted[n] = sessions[pos[n]] /\ Remains(sessions, pos[n])
       /\ \A i \in DOMAIN sessions : Remains(sessions, i) => \E n \in 1 .. Len(sorted) : pos[n] = i
       /\ \A m, n \in 1 .. Len(sorted) : m < n =>
            \/ sorted[m].needs /\ ~sorted[n].needs
            \/ /\ sorted[m].needs <=> sorted[n].needs
               /\ \/ sorted[m].fired > sorted[n].fired
                  \/ sorted[m].fired = sorted[n].fired /\ pos[m] < pos[n]

\* apply_attention_sort keeps each session once, with that exception, and in
\* that order.
THEOREM AttentionSorted ==
  ASSUME NEW S, NEW sessions, sessions \in Seq(S),
         \A s \in S : s.needs \in BOOLEAN /\ s.fired \in Nat
  PROVE  AttentionOnce(AttentionSort(sessions), S, sessions)
<1> DEFINE needing == Needing(sessions)
           rest == {i \in DOMAIN sessions : sessions[i].name \notin {sessions[j].name : j \in needing}}
           tier1 == Arrange(sessions, needing, ByBell(sessions))
           tier2 == Arrange(sessions, rest, ByBell(sessions))
           sorted == AttentionSort(sessions)
           a == Len(tier1)
           b == Len(tier2)
<1>1. sorted = tier1 \o tier2
  BY DEF AttentionSort
<1>2. /\ needing \subseteq DOMAIN sessions /\ rest \subseteq DOMAIN sessions
      /\ \A i \in needing : sessions[i].needs
      /\ \A i \in rest : ~sessions[i].needs
      /\ \A i \in DOMAIN sessions : Remains(sessions, i) <=> i \in needing \/ i \in rest
  BY Zenon DEF Needing, Remains
<1> HIDE DEF needing, rest
<1>3. /\ tier1 \in Seq(S)
      /\ \E pos \in [1 .. a -> needing] :
           /\ \A n \in 1 .. a : tier1[n] = sessions[pos[n]]
           /\ \A i \in needing : \E n \in 1 .. a : pos[n] = i
           /\ \A m, n \in 1 .. a : m < n =>
                \/ tier1[m].fired > tier1[n].fired
                \/ tier1[m].fired = tier1[n].fired /\ pos[m] < pos[n]
  BY <1>2, Tier
<1>4. /\ tier2 \in Seq(S)
      /\ \E pos \in [1 .. b -> rest] :
           /\ \A n \in 1 .. b : tier2[n] = sessions[pos[n]]
           /\ \A i \in rest : \E n \in 1 .. b : pos[n] = i
           /\ \A m, n \in 1 .. b : m < n =>
                \/ tier2[m].fired > tier2[n].fired
                \/ tier2[m].fired = tier2[n].fired /\ pos[m] < pos[n]
  BY <1>2, Tier
<1> HIDE DEF tier1, tier2, sorted
<1>5. /\ a \in Nat /\ b \in Nat
      /\ sorted \in Seq(S) /\ Len(sorted) = a + b
      /\ \A n \in 1 .. a + b : sorted[n] = IF n <= a THEN tier1[n] ELSE tier2[n - a]
  <2>1. a \in Nat /\ b \in Nat
    BY <1>3, <1>4, LenProperties
  <2>2. QED
    BY <1>1, <1>3, <1>4, <2>1, ConcatProperties
<1> HIDE DEF a, b
<1>6. PICK pos1 \in [1 .. a -> needing] :
        /\ \A n \in 1 .. a : tier1[n] = sessions[pos1[n]]
        /\ \A i \in needing : \E n \in 1 .. a : pos1[n] = i
        /\ \A m, n \in 1 .. a : m < n =>
             \/ tier1[m].fired > tier1[n].fired
             \/ tier1[m].fired = tier1[n].fired /\ pos1[m] < pos1[n]
  BY <1>3
<1>7. PICK pos2 \in [1 .. b -> rest] :
        /\ \A n \in 1 .. b : tier2[n] = sessions[pos2[n]]
        /\ \A i \in rest : \E n \in 1 .. b : pos2[n] = i
        /\ \A m, n \in 1 .. b : m < n =>
             \/ tier2[m].fired > tier2[n].fired
             \/ tier2[m].fired = tier2[n].fired /\ pos2[m] < pos2[n]
  BY <1>4
<1> DEFINE pos == [n \in 1 .. a + b |-> IF n <= a THEN pos1[n] ELSE pos2[n - a]]
<1>8. \A n \in 1 .. a + b :
        \/ n \in 1 .. a
        \/ ~(n <= a) /\ n - a \in 1 .. b
  BY <1>5
<1>9. ASSUME NEW n \in 1 .. a + b
      PROVE  /\ sorted[n] = sessions[pos[n]]
             /\ n \in 1 .. a => pos[n] = pos1[n] /\ sorted[n] = tier1[n] /\ pos[n] \in needing
             /\ ~(n <= a) => pos[n] = pos2[n - a] /\ sorted[n] = tier2[n - a] /\ pos[n] \in rest
  <2>1. CASE n \in 1 .. a
    BY <1>5, <1>6, <2>1
  <2>2. CASE ~(n <= a) /\ n - a \in 1 .. b
    BY <1>5, <1>7, <2>2
  <2>3. QED
    BY <1>8, <2>1, <2>2
<1>10. ASSUME NEW i \in DOMAIN sessions, Remains(sessions, i) PROVE \E n \in 1 .. a + b : pos[n] = i
  <2>1. CASE i \in needing
    <3>1. PICK n \in 1 .. a : pos1[n] = i
      BY <1>6, <2>1
    <3>2. n \in 1 .. a + b
      BY <1>5
    <3>3. QED
      BY <1>9, <3>1, <3>2
  <2>2. CASE i \in rest
    <3>1. PICK n \in 1 .. b : pos2[n] = i
      BY <1>7, <2>2
    <3>2. n + a \in 1 .. a + b /\ ~(n + a <= a) /\ (n + a) - a = n
      BY <1>5
    <3>3. QED
      BY <1>9, <3>1, <3>2
  <2>3. QED
    BY <1>2, <1>10, <2>1, <2>2
<1>11. ASSUME NEW m \in 1 .. a + b, NEW n \in 1 .. a + b, m < n
       PROVE  \/ sorted[m].needs /\ ~sorted[n].needs
              \/ /\ sorted[m].needs <=> sorted[n].needs
                 /\ \/ sorted[m].fired > sorted[n].fired
                    \/ sorted[m].fired = sorted[n].fired /\ pos[m] < pos[n]
  <2>1. CASE m \in 1 .. a /\ n \in 1 .. a
    <3>1. sorted[m].needs /\ sorted[n].needs
      BY <1>2, <1>9, <2>1
    <3>2. \/ sorted[m].fired > sorted[n].fired
          \/ sorted[m].fired = sorted[n].fired /\ pos[m] < pos[n]
      BY <1>6, <1>9, <1>11, <2>1
    <3>3. QED
      BY <3>1, <3>2, Zenon
  <2>2. CASE m \in 1 .. a /\ ~(n <= a)
    <3>1. sorted[m].needs /\ ~sorted[n].needs
      BY <1>2, <1>9, <2>2
    <3>2. QED
      BY <3>1, Zenon
  <2>3. CASE ~(m <= a) /\ ~(n <= a)
    <3>1. ~sorted[m].needs /\ ~sorted[n].needs
      BY <1>2, <1>9, <2>3
    <3>2. m - a \in 1 .. b /\ n - a \in 1 .. b /\ m - a < n - a
      BY <1>5, <1>11, <2>3
    <3>3. \/ sorted[m].fired > sorted[n].fired
          \/ sorted[m].fired = sorted[n].fired /\ pos[m] < pos[n]
      BY <1>7, <1>9, <2>3, <3>2
    <3>4. QED
      BY <3>1, <3>3, Zenon
  <2>4. QED
    BY <1>5, <1>11, <2>1, <2>2, <2>3
<1>12. ASSUME NEW n \in 1 .. a + b
       PROVE  pos[n] \in DOMAIN sessions /\ sorted[n] = sessions[pos[n]] /\ Remains(sessions, pos[n])
  BY <1>2, <1>8, <1>9
<1>13. pos \in [1 .. Len(sorted) -> DOMAIN sessions]
  BY <1>5, <1>12
<1> HIDE DEF pos
<1>14. \E p \in [1 .. Len(sorted) -> DOMAIN sessions] :
         /\ \A n \in 1 .. Len(sorted) : sorted[n] = sessions[p[n]] /\ Remains(sessions, p[n])
         /\ \A i \in DOMAIN sessions : Remains(sessions, i) => \E n \in 1 .. Len(sorted) : p[n] = i
         /\ \A m, n \in 1 .. Len(sorted) : m < n =>
              \/ sorted[m].needs /\ ~sorted[n].needs
              \/ /\ sorted[m].needs <=> sorted[n].needs
                 /\ \/ sorted[m].fired > sorted[n].fired
                    \/ sorted[m].fired = sorted[n].fired /\ p[m] < p[n]
  <2>1. Len(sorted) = a + b
    BY <1>5
  <2> SUFFICES /\ \A n \in 1 .. Len(sorted) : sorted[n] = sessions[pos[n]] /\ Remains(sessions, pos[n])
               /\ \A i \in DOMAIN sessions : Remains(sessions, i) => \E n \in 1 .. Len(sorted) : pos[n] = i
               /\ \A m, n \in 1 .. Len(sorted) : m < n =>
                    \/ sorted[m].needs /\ ~sorted[n].needs
                    \/ /\ sorted[m].needs <=> sorted[n].needs
                       /\ \/ sorted[m].fired > sorted[n].fired
                          \/ sorted[m].fired = sorted[n].fired /\ pos[m] < pos[n]
    BY <1>13, Zenon
  <2>2. \A n \in 1 .. Len(sorted) : sorted[n] = sessions[pos[n]] /\ Remains(sessions, pos[n])
    BY <1>12, <2>1
  <2>3. \A i \in DOMAIN sessions : Remains(sessions, i) => \E n \in 1 .. Len(sorted) : pos[n] = i
    BY <1>10, <2>1
  <2>4. \A m, n \in 1 .. Len(sorted) : m < n =>
          \/ sorted[m].needs /\ ~sorted[n].needs
          \/ /\ sorted[m].needs <=> sorted[n].needs
             /\ \/ sorted[m].fired > sorted[n].fired
                \/ sorted[m].fired = sorted[n].fired /\ pos[m] < pos[n]
    BY <1>11, <2>1, Zenon
  <2>5. QED
    BY <2>2, <2>3, <2>4, Zenon
<1>15. QED
  BY <1>5, <1>14, Zenon DEF sorted, AttentionOnce
=============================================================================
