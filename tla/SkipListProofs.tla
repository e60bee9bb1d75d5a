--------------------------- MODULE SkipListProofs ---------------------------
(***************************************************************************)
(* The skip list is a map, and its levels are chains: for any finite set   *)
(* of keys, any number of levels, and whatever heights are drawn.          *)
(***************************************************************************)
EXTENDS SkipList, FiniteSetTheorems, WellFoundedInduction, TLAPS

\* Where nodes are in the order of the keys: the header is first.
Places == Key \cup {Header}
Pos(n) == IF n = Header THEN -1 ELSE n

\* What follows node n among the nodes S of a level.
Follows(S, n, next) ==
  /\ next = Null => \A m \in S : Pos(m) <= Pos(n)
  /\ next # Null => /\ next \in S /\ Pos(n) < Pos(next)
                    /\ \A m \in S : Pos(m) <= Pos(n) \/ Pos(next) <= Pos(m)

\* The nodes of a list: the header has all levels, a node as many as its height, and none
\* more than the levels in use.
HasNodes(l) ==
  /\ Nodes(l) \subseteq Places /\ Header \in Nodes(l)
  /\ DOMAIN l.forward[Header] = 0 .. MaxLevel
  /\ l.level \in 0 .. MaxLevel
  /\ \A n \in Nodes(l) \ {Header} : \E h \in 1 .. MaxLevel :
        h <= l.level /\ DOMAIN l.forward[n] = 0 .. h

\* Every pointer leads to what follows on its level.
Linked(l) ==
  \A i \in 0 .. MaxLevel : \A n \in OnLevel(l, i) : Follows(OnLevel(l, i), n, l.forward[n][i])

\* The members agree with the nodes.
Counted(l) ==
  /\ l.level > 0 => OnLevel(l, l.level) # {Header}
  /\ l.count = Cardinality(Nodes(l) \ {Header})
  /\ DOMAIN l.value = Nodes(l) \ {Header}
  /\ \A k \in DOMAIN l.value : l.value[k] \in Value

Good(l) == HasNodes(l) /\ Linked(l) /\ Counted(l)
ListInv == Good(list)

-----------------------------------------------------------------------------
(* Order *)

\* Places are ordered as numbers, the header before all keys, and the null pointer is none.
LEMMA PlaceFacts ==
  /\ \A n \in Places : Pos(n) \in Int /\ -1 <= Pos(n) /\ n # Null
  /\ Header \in Places /\ Pos(Header) = -1
  /\ \A k \in Key : k \in Places /\ Pos(k) = k /\ k \in Nat /\ k # Header /\ k # Null
  /\ \A n \in Places : n = Header \/ n \in Key
  /\ \A m, n \in Places : Pos(m) = Pos(n) => m = n
BY KeyAssumption DEF Places, Pos

LEMMA FinitePlaces ==
  ASSUME NEW S \in SUBSET Places PROVE IsFiniteSet(S)
BY KeyAssumption, FS_AddElement, FS_Subset DEF Places

\* A set of numbers has a least.
LEMMA LeastOf ==
  ASSUME NEW S \in SUBSET Nat, S # {}
  PROVE  \E m \in S : \A n \in S : m <= n
<1>. DEFINE R == OpToRel(<, Nat)
<1>1. IsWellFoundedOn(R, Nat)
  BY NatLessThanWellFounded
<1>2. \A m, n \in Nat : m < n => <<m, n>> \in R
  BY DEF OpToRel
<1>. HIDE DEF R
<1>3. \E m \in S : \A n \in S : ~(<<n, m>> \in R)
  BY <1>1, WFMin
<1>4. PICK m \in S : \A n \in S : ~(<<n, m>> \in R)
  BY <1>3
<1>5. \A n \in S : ~(n < m)
  BY <1>2, <1>4
<1>. QED  BY <1>4, <1>5

\* A set of places has a last: the one with the fewest after it.
LEMMA LastOf ==
  ASSUME NEW S \in SUBSET Places, S # {}
  PROVE  \E m \in S : \A n \in S : Pos(n) <= Pos(m)
<1>. DEFINE After(m) == {n \in S : Pos(m) < Pos(n)}
<1>. DEFINE T == {Cardinality(After(m)) : m \in S}
<1>1. \A m \in S : IsFiniteSet(After(m)) /\ Cardinality(After(m)) \in Nat
  BY FinitePlaces, FS_CardinalityType
<1>2. T \in SUBSET Nat /\ T # {}
  BY <1>1
<1>. HIDE DEF T
<1>3. PICK c \in T : \A d \in T : c <= d
  BY <1>2, LeastOf
<1>4. PICK m \in S : c = Cardinality(After(m))
  BY <1>3 DEF T
<1>5. ASSUME NEW n \in S, Pos(m) < Pos(n) PROVE FALSE
  <2>1. After(n) \subseteq After(m) /\ n \in After(m) /\ n \notin After(n)
    BY <1>4, <1>5, PlaceFacts
  <2>. HIDE DEF After
  <2>2. Cardinality(After(n)) <= Cardinality(After(m)) /\ Cardinality(After(n)) # Cardinality(After(m))
    BY <1>1, <1>4, <2>1, FS_Subset
  <2>3. Cardinality(After(n)) \in T
    BY DEF T
  <2>. QED  BY <1>1, <1>3, <1>4, <2>2, <2>3
<1>. QED  BY <1>4, <1>5, PlaceFacts

\* The last place of S below a key.
LastBelow(S, key) ==
  CHOOSE n \in S : Pos(n) < key /\ \A m \in S : Pos(m) < key => Pos(m) <= Pos(n)

LEMMA LastBelowIs ==
  ASSUME NEW S \in SUBSET Places, Header \in S, NEW key \in Key
  PROVE  /\ LastBelow(S, key) \in S /\ Pos(LastBelow(S, key)) < key
         /\ \A m \in S : Pos(m) < key => Pos(m) <= Pos(LastBelow(S, key))
         /\ \A n \in S : Pos(n) < key /\ (\A m \in S : Pos(m) < key => Pos(m) <= Pos(n))
                           => n = LastBelow(S, key)
<1>. DEFINE T == {n \in S : Pos(n) < key}
<1>1. T \in SUBSET Places /\ Header \in T
  BY PlaceFacts
<1>2. PICK n \in T : \A m \in T : Pos(m) <= Pos(n)
  BY <1>1, LastOf
<1>3. \E q \in S : Pos(q) < key /\ \A m \in S : Pos(m) < key => Pos(m) <= Pos(q)
  BY <1>2
<1>4. /\ LastBelow(S, key) \in S /\ Pos(LastBelow(S, key)) < key
      /\ \A m \in S : Pos(m) < key => Pos(m) <= Pos(LastBelow(S, key))
  BY <1>3, Zenon DEF LastBelow
<1>. HIDE DEF T
<1>. QED  BY <1>4, PlaceFacts

-----------------------------------------------------------------------------
(* The descent of insert, delete and search *)

\* The nodes of a level: the header, and others in the order of their keys.
LEMMA LevelFacts ==
  ASSUME NEW l, HasNodes(l), NEW i \in 0 .. MaxLevel
  PROVE  /\ OnLevel(l, i) \in SUBSET Places /\ Header \in OnLevel(l, i)
         /\ OnLevel(l, i) \subseteq Nodes(l)
         /\ l.level < i => OnLevel(l, i) = {Header}
         /\ \A j \in 0 .. i : OnLevel(l, i) \subseteq OnLevel(l, j)
         /\ OnLevel(l, 0) = Nodes(l)
<1>1. MaxLevel \in Nat
  BY KeyAssumption
<1>2. ASSUME NEW n \in Nodes(l), n # Header
      PROVE  \E h \in Nat : h <= l.level /\ DOMAIN l.forward[n] = 0 .. h
  BY <1>1, <1>2 DEF HasNodes
<1>3. ASSUME NEW n \in OnLevel(l, i), NEW j \in 0 .. i PROVE n \in OnLevel(l, j)
  <2>1. CASE n = Header
    BY <1>1, <2>1 DEF OnLevel, HasNodes
  <2>2. CASE n # Header
    BY <1>1, <1>2, <2>2 DEF OnLevel
  <2>. QED  BY <2>1, <2>2
<1>4. ASSUME NEW n \in Nodes(l) PROVE n \in OnLevel(l, 0)
  <2>1. CASE n = Header
    BY <1>1, <2>1 DEF OnLevel, HasNodes
  <2>2. CASE n # Header
    BY <1>1, <1>2, <2>2 DEF OnLevel
  <2>. QED  BY <2>1, <2>2
<1>5. ASSUME l.level < i, NEW n \in OnLevel(l, i) PROVE n = Header
  BY <1>1, <1>2, <1>5 DEF OnLevel, HasNodes
<1>6. Header \in OnLevel(l, i)
  BY DEF OnLevel, HasNodes
<1>. QED  BY <1>3, <1>4, <1>5, <1>6 DEF OnLevel, HasNodes

\* The inner loop, from a node below the key: it ends at the last such node of its level.
WalksTo(l, i, key, f) ==
  [n \in OnLevel(l, i) |->
    IF l.forward[n][i] # Null /\ l.forward[n][i] < key THEN f[l.forward[n][i]] ELSE n]

LEMMA BeforeIs ==
  ASSUME NEW l, HasNodes(l), Linked(l), NEW i \in 0 .. MaxLevel, NEW key \in Key,
         NEW from \in OnLevel(l, i), Pos(from) < key
  PROVE  Before(l, from, i, key) = LastBelow(OnLevel(l, i), key)
<1>. DEFINE S == OnLevel(l, i)
            last == LastBelow(S, key)
            w == [n \in S |-> IF Pos(n) < key THEN last ELSE n]
            walk == CHOOSE f : f = WalksTo(l, i, key, f)
<1>1. S \in SUBSET Places /\ Header \in S
  BY LevelFacts
<1>2. /\ last \in S /\ Pos(last) < key
      /\ \A m \in S : Pos(m) < key => Pos(m) <= Pos(last)
      /\ \A n \in S : Pos(n) < key /\ (\A m \in S : Pos(m) < key => Pos(m) <= Pos(n)) => n = last
  BY <1>1, LastBelowIs
<1>3. \A n \in S : Follows(S, n, l.forward[n][i])
  BY DEF Linked
<1>. HIDE DEF S, last
<1>4. ASSUME NEW n \in S
      PROVE  LET next == l.forward[n][i]
             IN /\ next # Null /\ next < key => next \in S /\ Pos(n) < Pos(next) /\ Pos(next) < key
                /\ ~(next # Null /\ next < key) /\ Pos(n) < key => n = last
  <2>1. CASE l.forward[n][i] = Null
    BY <1>1, <1>2, <1>3, <2>1 DEF Follows
  <2>2. CASE l.forward[n][i] # Null
    BY <1>1, <1>2, <1>3, <2>2, PlaceFacts DEF Follows
  <2>. QED  BY <2>1, <2>2
<1>5. ASSUME NEW n \in S
      PROVE  w[n] = IF l.forward[n][i] # Null /\ l.forward[n][i] < key THEN w[l.forward[n][i]] ELSE n
  BY <1>1, <1>4, PlaceFacts
<1>6. w = WalksTo(l, i, key, w)
  BY <1>5 DEF WalksTo, S
<1>7. walk = WalksTo(l, i, key, walk)
  BY <1>6, Zenon
<1>8. \A n \in S : walk[n] = IF l.forward[n][i] # Null /\ l.forward[n][i] < key
                              THEN walk[l.forward[n][i]] ELSE n
  <2>. HIDE DEF walk
  <2>. QED  BY <1>7 DEF WalksTo, S
<1>9. Before(l, from, i, key) = walk[from]
  BY Zenon DEF Before, WalksTo
<1>. HIDE DEF walk, w
<1>10. \A n \in S : Pos(n) < key => walk[n] = last
  <2>. DEFINE T == {n \in S : Pos(n) < key /\ walk[n] # last}
  <2>1. SUFFICES ASSUME T # {} PROVE FALSE
    OBVIOUS
  <2>2. PICK n \in T : \A m \in T : Pos(m) <= Pos(n)
    BY <1>1, <2>1, LastOf
  <2>3. CASE l.forward[n][i] # Null /\ l.forward[n][i] < key
    BY <1>1, <1>4, <1>8, <2>2, <2>3, PlaceFacts
  <2>4. CASE ~(l.forward[n][i] # Null /\ l.forward[n][i] < key)
    BY <1>4, <1>8, <2>2, <2>4
  <2>. QED  BY <2>3, <2>4
<1>. QED  BY <1>9, <1>10 DEF S, last

\* The array `update' holds the last node below the key of each level in use.
Descends(l, key, f) ==
  [i \in 0 .. l.level |-> Before(l, IF i = l.level THEN Header ELSE f[i + 1], i, key)]

LEMMA UpdateIs ==
  ASSUME NEW l, HasNodes(l), Linked(l), NEW key \in Key
  PROVE  \A i \in 0 .. l.level : Update(l, key)[i] = LastBelow(OnLevel(l, i), key)
<1>. DEFINE Ends(i) == LastBelow(OnLevel(l, i), key)
            u == [i \in 0 .. l.level |-> Ends(i)]
            update == CHOOSE f : f = Descends(l, key, f)
<1>1. l.level \in Nat /\ MaxLevel \in Nat /\ l.level <= MaxLevel
  BY KeyAssumption DEF HasNodes
<1>2. \A i \in 0 .. l.level : i \in 0 .. MaxLevel
  BY <1>1
<1>3. ASSUME NEW i \in 0 .. l.level PROVE Before(l, Header, i, key) = Ends(i)
  BY <1>2, BeforeIs, LevelFacts, PlaceFacts
<1>4. ASSUME NEW i \in 0 .. l.level, i # l.level PROVE Before(l, Ends(i + 1), i, key) = Ends(i)
  <2>1. i + 1 \in 0 .. MaxLevel /\ i \in 0 .. MaxLevel /\ i \in 0 .. (i + 1)
    BY <1>1, <1>4
  <2>2. Ends(i + 1) \in OnLevel(l, i + 1) /\ Pos(Ends(i + 1)) < key
    BY <2>1, LastBelowIs, LevelFacts
  <2>3. Ends(i + 1) \in OnLevel(l, i)
    BY <2>1, <2>2, LevelFacts
  <2>. HIDE DEF Ends
  <2>4. Before(l, Ends(i + 1), i, key) = LastBelow(OnLevel(l, i), key)
    BY <2>1, <2>2, <2>3, BeforeIs
  <2>. QED  BY <2>4 DEF Ends
<1>. HIDE DEF Ends
<1>5. \A i \in 0 .. l.level : i # l.level => i + 1 \in 0 .. l.level
  BY <1>1
<1>6. u = Descends(l, key, u)
  <2>1. ASSUME NEW i \in 0 .. l.level
        PROVE  Ends(i) = Before(l, IF i = l.level THEN Header ELSE u[i + 1], i, key)
    <3>1. CASE i = l.level
      BY <1>3, <3>1, Zenon
    <3>2. CASE i # l.level
      <4>1. u[i + 1] = Ends(i + 1)
        BY <1>5, <3>2
      <4>. HIDE DEF u
      <4>. QED  BY <1>4, <3>2, <4>1, Zenon
    <3>. QED  BY <3>1, <3>2
  <2>. QED  BY <2>1 DEF Descends
<1>7. update = Descends(l, key, update)
  BY <1>6, Zenon
<1>8. Update(l, key) = update
  BY Zenon DEF Update, Descends
<1>. HIDE DEF update, u
<1>9. \A i \in 0 .. l.level : update[i] = Before(l, IF i = l.level THEN Header ELSE update[i + 1], i, key)
  BY <1>7, Zenon DEF Descends
<1>10. \A i \in 0 .. l.level : update[i] = Ends(i)
  <2>. DEFINE T == {n \in 0 .. l.level : update[l.level - n] # Ends(l.level - n)}
  <2>1. SUFFICES ASSUME T # {} PROVE FALSE
    <3>1. SUFFICES ASSUME NEW i \in 0 .. l.level, update[i] # Ends(i) PROVE T # {}
      OBVIOUS
    <3>2. l.level - i \in 0 .. l.level /\ l.level - (l.level - i) = i
      BY <1>1
    <3>. QED  BY <3>1, <3>2
  <2>2. PICK n \in T : \A m \in T : n <= m
    <3>1. T \in SUBSET Nat
      BY <1>1
    <3>. QED  BY <2>1, <3>1, LeastOf
  <2>3. PICK i \in 0 .. l.level : i = l.level - n
    BY <1>1, <2>2
  <2>4. update[i] # Ends(i)
    BY <2>2, <2>3
  <2>5. CASE i = l.level
    BY <1>3, <1>9, <2>4, <2>5
  <2>6. CASE i # l.level
    <3>1. n - 1 \in 0 .. l.level /\ l.level - (n - 1) = i + 1 /\ ~(n <= n - 1) /\ i + 1 \in 0 .. l.level
      BY <1>1, <2>2, <2>3, <2>6
    <3>2. update[i + 1] = Ends(i + 1)
      BY <2>2, <3>1
    <3>. QED  BY <1>4, <1>9, <2>4, <2>6, <3>2, Zenon
  <2>. QED  BY <2>5, <2>6
<1>. QED  BY <1>8, <1>10 DEF Ends

\* The descent finds a key if and only if a node has it.
LEMMA FoundIs ==
  ASSUME NEW l, HasNodes(l), Linked(l), NEW key \in Key
  PROVE  Found(l, key) <=> key \in Nodes(l)
<1>. DEFINE S == OnLevel(l, 0)
            last == LastBelow(S, key)
            next == l.forward[last][0]
<1>1. 0 \in 0 .. MaxLevel /\ 0 \in 0 .. l.level
  BY KeyAssumption DEF HasNodes
<1>2. S \in SUBSET Places /\ Header \in S /\ S = Nodes(l)
  BY <1>1, LevelFacts
<1>3. last \in S /\ Pos(last) < key /\ \A m \in S : Pos(m) < key => Pos(m) <= Pos(last)
  BY <1>2, LastBelowIs
<1>4. Follows(S, last, next)
  BY <1>1, <1>3 DEF Linked
<1>5. Found(l, key) <=> next = key
  BY <1>1, UpdateIs DEF Found
<1>. HIDE DEF S, last, next
<1>6. next = key => key \in S
  BY <1>4, PlaceFacts DEF Follows
<1>7. ASSUME key \in S PROVE next = key
  BY <1>2, <1>3, <1>4, <1>7, PlaceFacts DEF Follows
<1>. QED  BY <1>2, <1>5, <1>6, <1>7

-----------------------------------------------------------------------------
(* Linking a key into a level and out of it *)

\* A new key comes after the last node below it and before what followed that one.
LEMMA LinkedIn ==
  ASSUME NEW S \in SUBSET Places, Header \in S, NEW key \in Key \ S, NEW next,
         \A n \in S : Follows(S, n, next[n])
  PROVE  /\ Follows(S \cup {key}, key, next[LastBelow(S, key)])
         /\ Follows(S \cup {key}, LastBelow(S, key), key)
         /\ \A n \in S \ {LastBelow(S, key)} : Follows(S \cup {key}, n, next[n])
<1>. DEFINE last == LastBelow(S, key)
<1>1. last \in S /\ Pos(last) < key /\ \A m \in S : Pos(m) < key => Pos(m) <= Pos(last)
  BY LastBelowIs
<1>. HIDE DEF last
<1>2. \A m \in S : m # key /\ Pos(m) # key
  BY PlaceFacts
<1>3. Follows(S \cup {key}, key, next[last])
  <2>1. CASE next[last] = Null
    BY <1>1, <2>1, PlaceFacts DEF Follows
  <2>2. CASE next[last] # Null
    BY <1>1, <1>2, <2>2, PlaceFacts DEF Follows
  <2>. QED  BY <2>1, <2>2
<1>4. Follows(S \cup {key}, last, key)
  BY <1>1, <1>2, PlaceFacts DEF Follows
<1>5. ASSUME NEW n \in S \ {last} PROVE Follows(S \cup {key}, n, next[n])
  <2>1. Pos(n) < Pos(last) \/ key < Pos(n)
    BY <1>1, <1>2, PlaceFacts
  <2>2. CASE next[n] = Null
    BY <1>1, <2>1, <2>2, PlaceFacts DEF Follows
  <2>3. CASE next[n] # Null
    BY <1>1, <2>1, <2>3, PlaceFacts DEF Follows
  <2>. QED  BY <2>2, <2>3
<1>. QED  BY <1>3, <1>4, <1>5 DEF last

\* The key follows the last node below it; when it goes, what followed it does.
LEMMA LinkedOut ==
  ASSUME NEW S \in SUBSET Places, Header \in S, NEW key \in Key \cap S, NEW next,
         \A n \in S : Follows(S, n, next[n])
  PROVE  /\ LastBelow(S, key) \in S \ {key} /\ next[LastBelow(S, key)] = key
         /\ Follows(S \ {key}, LastBelow(S, key), next[key])
         /\ \A n \in S \ {key, LastBelow(S, key)} : Follows(S \ {key}, n, next[n])
<1>. DEFINE last == LastBelow(S, key)
<1>1. last \in S /\ Pos(last) < key /\ \A m \in S : Pos(m) < key => Pos(m) <= Pos(last)
  BY LastBelowIs
<1>. HIDE DEF last
<1>2. last # key
  BY <1>1, PlaceFacts
<1>3. next[last] = key
  <2>1. next[last] # Null
    BY <1>1, PlaceFacts DEF Follows
  <2>. QED  BY <1>1, <2>1, PlaceFacts DEF Follows
<1>4. Follows(S \ {key}, last, next[key])
  <2>1. CASE next[key] = Null
    BY <1>1, <2>1, PlaceFacts DEF Follows
  <2>2. CASE next[key] # Null
    BY <1>1, <2>2, PlaceFacts DEF Follows
  <2>. QED  BY <2>1, <2>2
<1>5. ASSUME NEW n \in S \ {key, last} PROVE Follows(S \ {key}, n, next[n])
  <2>1. CASE next[n] = Null
    BY <2>1 DEF Follows
  <2>2. CASE next[n] # Null
    <3>1. next[n] # key
      BY <1>1, <1>5, PlaceFacts DEF Follows
    <3>. QED  BY <2>2, <3>1 DEF Follows
  <2>. QED  BY <2>1, <2>2
<1>. QED  BY <1>1, <1>2, <1>3, <1>4, <1>5 DEF last

-----------------------------------------------------------------------------
(* insert_element *)

\* What an insertion does to the map: the key and the value come to those that are there.
Adds(l, l2, key, v) ==
  /\ key \in Nodes(l) => l2 = l
  /\ Nodes(l2) = Nodes(l) \cup {key}
  /\ key \notin Nodes(l) => /\ l2.value[key] = v
                            /\ \A k \in Nodes(l) \ {Header} : l2.value[k] = l.value[k]

\* The node that a new one comes after on level i, also above the levels in use.
PrevOf(l, key, i) == IF i <= l.level THEN Update(l, key)[i] ELSE Header

LEMMA PrevIs ==
  ASSUME NEW l, HasNodes(l), Linked(l), NEW key \in Key, NEW i \in 0 .. MaxLevel
  PROVE  PrevOf(l, key, i) = LastBelow(OnLevel(l, i), key)
<1>1. l.level \in Nat /\ l.level <= MaxLevel /\ MaxLevel \in Nat
  BY KeyAssumption DEF HasNodes
<1>2. CASE i <= l.level
  <2>1. i \in 0 .. l.level
    BY <1>1, <1>2
  <2>. QED  BY <1>2, <2>1, UpdateIs DEF PrevOf
<1>3. CASE ~(i <= l.level)
  <2>1. OnLevel(l, i) = {Header}
    BY <1>1, <1>3, LevelFacts
  <2>2. LastBelow(OnLevel(l, i), key) \in OnLevel(l, i)
    BY LevelFacts, LastBelowIs
  <2>. QED  BY <1>3, <2>1, <2>2 DEF PrevOf
<1>. QED  BY <1>2, <1>3

\* An insertion keeps what makes a list and adds the key.
LEMMA InsertedGood ==
  ASSUME NEW l, Good(l), NEW key \in Key, NEW v \in Value, NEW height \in RandomLevel
  PROVE  Good(Inserted(l, key, v, height)) /\ Adds(l, Inserted(l, key, v, height), key, v)
<1>0. /\ HasNodes(l) /\ Linked(l) /\ Counted(l)
      /\ l.level \in Nat /\ l.level <= MaxLevel /\ MaxLevel \in Nat
      /\ height \in Nat /\ 1 <= height /\ height <= MaxLevel
  BY KeyAssumption DEF Good, HasNodes, RandomLevel
<1>1. CASE key \in Nodes(l)
  <2>1. Inserted(l, key, v, height) = l
    BY <1>0, <1>1, FoundIs DEF Inserted
  <2>. QED  BY <1>1, <2>1 DEF Adds
<1>2. ASSUME key \notin Nodes(l)
      PROVE  Good(Inserted(l, key, v, height)) /\ Adds(l, Inserted(l, key, v, height), key, v)
  <2>1. ~Found(l, key)
    BY <1>0, <1>2, FoundIs
  <2>2. PICK l2 : l2 = Inserted(l, key, v, height)
    OBVIOUS
  <2>. DEFINE Prev(i) == PrevOf(l, key, i)
              Top == [i \in 0 .. height |-> l.forward[Prev(i)][i]]
              Rest(n) == [i \in DOMAIN l.forward[n] |->
                            IF i <= height /\ Prev(i) = n THEN key ELSE l.forward[n][i]]
  <2>3. /\ l2.forward = [n \in Nodes(l) \cup {key} |-> IF n = key THEN Top ELSE Rest(n)]
        /\ l2.value = [k \in DOMAIN l.value \cup {key} |-> IF k = key THEN v ELSE l.value[k]]
        /\ l2.level = IF height > l.level THEN height ELSE l.level
        /\ l2.count = l.count + 1
    <3>1. Inserted(l, key, v, height).forward
            = [n \in Nodes(l) \cup {key} |-> IF n = key THEN Top ELSE Rest(n)]
      BY <2>1, Zenon DEF Inserted, PrevOf
    <3>2. /\ Inserted(l, key, v, height).value
               = [k \in DOMAIN l.value \cup {key} |-> IF k = key THEN v ELSE l.value[k]]
          /\ Inserted(l, key, v, height).level = IF height > l.level THEN height ELSE l.level
          /\ Inserted(l, key, v, height).count = l.count + 1
      BY <2>1, Zenon DEF Inserted, PrevOf
    <3>. HIDE DEF Top, Rest
    <3>. QED  BY <2>2, <3>1, <3>2, Zenon
  <2>4. \A i \in 0 .. MaxLevel : Prev(i) = LastBelow(OnLevel(l, i), key)
    BY <1>0, PrevIs
  <2>. HIDE DEF Prev
  <2>5. Nodes(l2) = Nodes(l) \cup {key} /\ key \notin Nodes(l) /\ Nodes(l) \in SUBSET Places
    BY <1>0, <1>2, <2>3 DEF Nodes, HasNodes
  <2>6. /\ \A n \in Nodes(l) : DOMAIN l2.forward[n] = DOMAIN l.forward[n]
        /\ DOMAIN l2.forward[key] = 0 .. height
    BY <2>3, <2>5 DEF Nodes
  <2>7. \A i \in 0 .. MaxLevel :
          OnLevel(l2, i) = IF i <= height THEN OnLevel(l, i) \cup {key} ELSE OnLevel(l, i)
    BY <1>0, <2>5, <2>6 DEF OnLevel
  <2>8. HasNodes(l2)
    <3>1. l2.level \in 0 .. MaxLevel /\ height <= l2.level /\ l.level <= l2.level
      BY <1>0, <2>3
    <3>2. ASSUME NEW n \in Nodes(l2) \ {Header}
          PROVE  \E h \in 1 .. MaxLevel : h <= l2.level /\ DOMAIN l2.forward[n] = 0 .. h
      <4>1. CASE n = key
        BY <1>0, <2>6, <3>1, <4>1
      <4>2. CASE n # key
        <5>1. n \in Nodes(l) \ {Header}
          BY <2>5, <3>2, <4>2
        <5>2. PICK h \in 1 .. MaxLevel : h <= l.level /\ DOMAIN l.forward[n] = 0 .. h
          BY <1>0, <5>1 DEF HasNodes
        <5>. QED  BY <1>0, <2>6, <3>1, <5>1, <5>2
      <4>. QED  BY <4>1, <4>2
    <3>. QED  BY <1>0, <2>5, <2>6, <3>1, <3>2, PlaceFacts DEF HasNodes
  <2>9. Linked(l2)
    <3>. SUFFICES ASSUME NEW i \in 0 .. MaxLevel, NEW n \in OnLevel(l2, i)
                  PROVE  Follows(OnLevel(l2, i), n, l2.forward[n][i])
      BY DEF Linked
    <3>. DEFINE S == OnLevel(l, i)
                next == [m \in S |-> l.forward[m][i]]
    <3>1. S \in SUBSET Places /\ Header \in S /\ S \subseteq Nodes(l)
      BY <1>0, LevelFacts
    <3>2. \A m \in S : Follows(S, m, next[m]) /\ i \in DOMAIN l.forward[m]
      BY <1>0 DEF Linked, OnLevel
    <3>3. Prev(i) = LastBelow(S, key) /\ Prev(i) \in S
      BY <2>4, <3>1, LastBelowIs
    <3>4. \A m \in S : next[m] = l.forward[m][i]
      OBVIOUS
    <3>5. ASSUME NEW m \in S
          PROVE  l2.forward[m][i] = IF i <= height /\ Prev(i) = m THEN key ELSE l.forward[m][i]
      BY <2>3, <2>5, <3>1, <3>2
    <3>. HIDE DEF S, next
    <3>6. CASE i <= height
      <4>1. /\ Follows(S \cup {key}, key, next[Prev(i)])
            /\ Follows(S \cup {key}, Prev(i), key)
            /\ \A m \in S \ {Prev(i)} : Follows(S \cup {key}, m, next[m])
        <5>1. \A m \in S : Follows(S, m, next[m])
          BY <3>2
        <5>2. key \in Key \ S
          BY <2>5, <3>1
        <5>. QED  BY <3>1, <3>3, <5>1, <5>2, LinkedIn
      <4>2. OnLevel(l2, i) = S \cup {key}
        BY <2>7, <3>6 DEF S
      <4>3. l2.forward[key][i] = next[Prev(i)]
        BY <2>3, <3>3, <3>4, <3>6, <1>0
      <4>4. CASE n = key
        BY <4>1, <4>2, <4>3, <4>4
      <4>5. CASE n # key /\ n = Prev(i)
        BY <3>3, <3>5, <3>6, <4>1, <4>2, <4>5
      <4>6. CASE n # key /\ n # Prev(i)
        BY <3>4, <3>5, <4>1, <4>2, <4>6
      <4>. QED  BY <4>4, <4>5, <4>6
    <3>7. CASE ~(i <= height)
      <4>1. OnLevel(l2, i) = S
        BY <2>7, <3>7 DEF S
      <4>. QED  BY <3>2, <3>4, <3>5, <3>7, <4>1
    <3>. QED  BY <3>6, <3>7
  <2>10. Counted(l2)
    <3>1. OnLevel(l2, l2.level) # {Header}
      <4>1. CASE height > l.level
        <5>1. height \in 0 .. MaxLevel /\ l2.level = height
          BY <1>0, <2>3, <4>1
        <5>2. key \in OnLevel(l2, height)
          BY <1>0, <2>7, <5>1
        <5>. QED  BY <5>1, <5>2, PlaceFacts
      <4>2. CASE ~(height > l.level)
        <5>1. l.level \in 0 .. MaxLevel /\ l.level > 0 /\ l2.level = l.level
          BY <1>0, <2>3, <4>2
        <5>2. OnLevel(l, l.level) # {Header} /\ Header \in OnLevel(l, l.level)
          BY <1>0, <5>1, LevelFacts DEF Counted
        <5>. QED  BY <2>7, <5>1, <5>2
      <4>. QED  BY <4>1, <4>2
    <3>2. Nodes(l2) \ {Header} = (Nodes(l) \ {Header}) \cup {key}
      BY <2>5, PlaceFacts
    <3>3. IsFiniteSet(Nodes(l) \ {Header}) /\ key \notin Nodes(l) \ {Header}
      BY <2>5, FinitePlaces
    <3>4. Cardinality(Nodes(l2) \ {Header}) = Cardinality(Nodes(l) \ {Header}) + 1
      BY <3>2, <3>3, FS_AddElement
    <3>5. l2.count = Cardinality(Nodes(l2) \ {Header})
      BY <1>0, <2>3, <3>4 DEF Counted
    <3>6. DOMAIN l2.value = Nodes(l2) \ {Header} /\ \A k \in DOMAIN l2.value : l2.value[k] \in Value
      BY <1>0, <2>3, <3>2 DEF Counted
    <3>. QED  BY <3>1, <3>5, <3>6 DEF Counted
  <2>11. Adds(l, l2, key, v)
    BY <1>0, <2>3, <2>5 DEF Adds, Counted
  <2>. QED  BY <2>2, <2>8, <2>9, <2>10, <2>11 DEF Good
<1>. QED  BY <1>1, <1>2

-----------------------------------------------------------------------------
(* delete_element *)

\* What a deletion does to the map: the key goes, what others are mapped to stays.
Removes(l, l2, key) ==
  /\ Nodes(l2) = Nodes(l) \ {key}
  /\ \A k \in Nodes(l2) \ {Header} : l2.value[k] = l.value[k]

\* A bounded set of numbers has a greatest.
LEMMA MaxIs ==
  ASSUME NEW N \in Nat, NEW S \in SUBSET (0 .. N), S # {}
  PROVE  Max(S) \in S /\ \A n \in S : n <= Max(S)
<1>. DEFINE T == {N - n : n \in S}
<1>0. \A n \in S : N - n \in Nat
  OBVIOUS
<1>1. T \in SUBSET Nat /\ T # {}
  BY <1>0
<1>2. PICK t \in T : \A u \in T : t <= u
  BY <1>1, LeastOf
<1>3. PICK x \in S : t = N - x
  BY <1>2
<1>4. \A y \in S : N - x <= N - y /\ y \in Int /\ x \in Int
  BY <1>2, <1>3
<1>5. \A y \in S : x >= y
  BY <1>4
<1>6. Max(S) = CHOOSE z \in S : \A y \in S : z >= y
  BY DEF Max
<1>7. Max(S) \in S /\ \A y \in S : Max(S) >= y
  BY <1>5, <1>6, Zenon
<1>. QED  BY <1>7

\* The levels that a key is unlinked from are those its node has.
LEMMA UnlinkedIs ==
  ASSUME NEW l, HasNodes(l), Linked(l), NEW key \in Key \cap Nodes(l)
  PROVE  Unlinked(l, key) = {i \in 0 .. l.level : key \in OnLevel(l, i)}
<1>1. l.level \in Nat /\ MaxLevel \in Nat /\ \A i \in 0 .. l.level : i \in 0 .. MaxLevel
  BY KeyAssumption DEF HasNodes
<1>2. ASSUME NEW i \in 0 .. l.level
      PROVE  l.forward[Update(l, key)[i]][i] = key <=> key \in OnLevel(l, i)
  <2>. DEFINE S == OnLevel(l, i)
              next == [m \in S |-> l.forward[m][i]]
              last == LastBelow(S, key)
  <2>1. S \in SUBSET Places /\ Header \in S
    BY <1>1, LevelFacts
  <2>2. last \in S /\ Update(l, key)[i] = last
    BY <2>1, UpdateIs, LastBelowIs
  <2>3. \A m \in S : Follows(S, m, next[m])
    BY <1>1 DEF Linked
  <2>4. next[last] = l.forward[last][i]
    BY <2>2
  <2>. HIDE DEF S, next
  <2>5. key \in S => next[last] = key
    BY <2>1, <2>3, LinkedOut
  <2>6. next[last] = key => key \in S
    BY <2>2, <2>3, PlaceFacts DEF Follows
  <2>. QED  BY <2>2, <2>4, <2>5, <2>6 DEF S
<1>3. ASSUME NEW i \in 0 .. l.level, key \in OnLevel(l, i), NEW j \in 0 .. i
      PROVE  key \in OnLevel(l, j) /\ j \in 0 .. l.level
  BY <1>1, <1>3, LevelFacts
<1>. QED  BY <1>1, <1>2, <1>3 DEF Unlinked

\* A level has a node besides the header exactly when the header's pointer is not null.
LEMMA HeaderLeads ==
  ASSUME NEW l, HasNodes(l), Linked(l), NEW i \in 0 .. MaxLevel
  PROVE  l.forward[Header][i] # Null <=> OnLevel(l, i) # {Header}
<1>1. OnLevel(l, i) \in SUBSET Places /\ Header \in OnLevel(l, i)
  BY LevelFacts
<1>2. Follows(OnLevel(l, i), Header, l.forward[Header][i])
  BY <1>1 DEF Linked
<1>. QED  BY <1>1, <1>2, PlaceFacts DEF Follows

\* A deletion keeps what makes a list and takes the key away.
LEMMA DeletedGood ==
  ASSUME NEW l, Good(l), NEW key \in Key
  PROVE  Good(Deleted(l, key)) /\ Removes(l, Deleted(l, key), key)
<1>0. /\ HasNodes(l) /\ Linked(l) /\ Counted(l)
      /\ l.level \in Nat /\ l.level <= MaxLevel /\ MaxLevel \in Nat
  BY KeyAssumption DEF Good, HasNodes
<1>1. CASE key \notin Nodes(l)
  <2>1. Deleted(l, key) = l
    BY <1>0, <1>1, FoundIs DEF Deleted
  <2>. QED  BY <1>1, <2>1 DEF Removes
<1>2. ASSUME key \in Nodes(l)
      PROVE  Good(Deleted(l, key)) /\ Removes(l, Deleted(l, key), key)
  <2>1. Found(l, key)
    BY <1>0, <1>2, FoundIs
  <2>2. PICK l2 : l2 = Deleted(l, key)
    OBVIOUS
  <2>. DEFINE update == Update(l, key)
              cut == Unlinked(l, key)
              Rest(n) == [i \in DOMAIN l.forward[n] |->
                            IF i \in cut /\ update[i] = n THEN l.forward[key][i] ELSE l.forward[n][i]]
              forward == [n \in Nodes(l) \ {key} |-> Rest(n)]
              used == {0} \cup {i \in 1 .. l.level : forward[Header][i] # Null}
  <2>3. /\ l2.forward = forward
        /\ l2.value = [k \in DOMAIN l.value \ {key} |-> l.value[k]]
        /\ l2.level = Max(used)
        /\ l2.count = l.count - 1
    <3>1. /\ Deleted(l, key).forward = forward
          /\ Deleted(l, key).value = [k \in DOMAIN l.value \ {key} |-> l.value[k]]
          /\ Deleted(l, key).level = Max(used)
          /\ Deleted(l, key).count = l.count - 1
      BY <2>1, Zenon DEF Deleted
    <3>. HIDE DEF forward, used
    <3>. QED  BY <2>2, <3>1, Zenon
  <2>4. /\ \A i \in 0 .. l.level : update[i] = LastBelow(OnLevel(l, i), key)
        /\ cut = {i \in 0 .. l.level : key \in OnLevel(l, i)}
    BY <1>0, <1>2, UpdateIs, UnlinkedIs
  <2>. HIDE DEF update, cut
  <2>5. Nodes(l2) = Nodes(l) \ {key} /\ Nodes(l) \in SUBSET Places /\ key \in Nodes(l)
    BY <1>0, <1>2, <2>3 DEF Nodes, HasNodes
  <2>6. \A n \in Nodes(l2) : l2.forward[n] = Rest(n) /\ DOMAIN l2.forward[n] = DOMAIN l.forward[n]
    BY <2>3, <2>5
  <2>7. \A i \in 0 .. MaxLevel : OnLevel(l2, i) = OnLevel(l, i) \ {key}
    BY <2>5, <2>6 DEF OnLevel
  <2>8. Linked(l2)
    <3>. SUFFICES ASSUME NEW i \in 0 .. MaxLevel, NEW n \in OnLevel(l2, i)
                  PROVE  Follows(OnLevel(l2, i), n, l2.forward[n][i])
      BY DEF Linked
    <3>. DEFINE S == OnLevel(l, i)
                next == [m \in S |-> l.forward[m][i]]
                last == LastBelow(S, key)
    <3>1. S \in SUBSET Places /\ Header \in S /\ S \subseteq Nodes(l)
      BY <1>0, LevelFacts
    <3>2. (\A m \in S : Follows(S, m, next[m])) /\ \A m \in S : i \in DOMAIN l.forward[m]
      BY <1>0 DEF Linked, OnLevel
    <3>3. \A m \in S : next[m] = l.forward[m][i]
      OBVIOUS
    <3>4. n \in S \ {key} /\ n \in Nodes(l2) /\ OnLevel(l2, i) = S \ {key}
      BY <2>5, <2>7, <3>1
    <3>5. l2.forward[n][i] = IF i \in cut /\ update[i] = n THEN l.forward[key][i] ELSE l.forward[n][i]
      BY <2>6, <3>2, <3>4
    <3>6. i \in cut <=> key \in S
      BY <1>0, <2>4, LevelFacts, PlaceFacts
    <3>7. i \in cut => update[i] = last
      BY <2>4
    <3>. HIDE DEF S, next, last
    <3>8. CASE key \in S
      <4>1. /\ Follows(S \ {key}, last, next[key])
            /\ \A m \in S \ {key, last} : Follows(S \ {key}, m, next[m])
        BY <3>1, <3>2, <3>8, LinkedOut DEF last
      <4>2. CASE n = last
        BY <3>3, <3>4, <3>5, <3>6, <3>7, <3>8, <4>1, <4>2
      <4>3. CASE n # last
        BY <3>3, <3>4, <3>5, <3>6, <3>7, <3>8, <4>1, <4>3
      <4>. QED  BY <4>2, <4>3
    <3>9. CASE key \notin S
      <4>1. S \ {key} = S
        BY <3>9
      <4>. QED  BY <3>2, <3>3, <3>4, <3>5, <3>6, <3>9, <4>1
    <3>. QED  BY <3>8, <3>9
  <2>9. /\ used \in SUBSET (0 .. l.level) /\ 0 \in used
        /\ \A i \in 1 .. l.level : i \in used <=> l2.forward[Header][i] # Null
    <3>1. l2.forward = forward
      BY <2>3
    <3>. HIDE DEF forward
    <3>2. used = {0} \cup {i \in 1 .. l.level : l2.forward[Header][i] # Null}
      BY <3>1, Zenon
    <3>. HIDE DEF used
    <3>. QED  BY <1>0, <3>2
  <2>. HIDE DEF used, forward
  <2>10. l2.level \in used /\ l2.level \in 0 .. l.level /\ \A i \in used : i <= l2.level
    <3>1. l.level \in Nat /\ used \in SUBSET (0 .. l.level) /\ used # {}
      BY <1>0, <2>9
    <3>2. Max(used) \in used /\ \A i \in used : i <= Max(used)
      BY <3>1, MaxIs
    <3>. QED  BY <2>3, <3>1, <3>2
  <2>11. HasNodes(l2)
    <3>1. Header \in Nodes(l2) /\ DOMAIN l2.forward[Header] = 0 .. MaxLevel
      BY <1>0, <2>5, <2>6, PlaceFacts DEF HasNodes
    <3>2. ASSUME NEW n \in Nodes(l2) \ {Header}
          PROVE  \E h \in 1 .. MaxLevel : h <= l2.level /\ DOMAIN l2.forward[n] = 0 .. h
      <4>1. PICK h \in 1 .. MaxLevel : h <= l.level /\ DOMAIN l.forward[n] = 0 .. h
        BY <1>0, <2>5 DEF HasNodes
      <4>2. h \in 0 .. MaxLevel /\ h \in 1 .. l.level
        BY <1>0, <4>1
      <4>3. DOMAIN l2.forward[n] = 0 .. h
        BY <2>6, <4>1
      <4>4. n \in OnLevel(l2, h)
        BY <4>2, <4>3 DEF OnLevel
      <4>5. Header \in OnLevel(l2, h) /\ OnLevel(l2, h) \in SUBSET Places
        BY <2>5, <3>1, <4>2 DEF OnLevel
      <4>6. Follows(OnLevel(l2, h), Header, l2.forward[Header][h])
        BY <2>8, <4>2, <4>5 DEF Linked
      <4>7. l2.forward[Header][h] # Null
        BY <4>4, <4>5, <4>6, PlaceFacts DEF Follows
      <4>. QED  BY <2>9, <2>10, <4>1, <4>2, <4>3, <4>7
    <3>. QED  BY <1>0, <2>5, <2>10, <3>1, <3>2 DEF HasNodes
  <2>12. Counted(l2)
    <3>1. ASSUME l2.level > 0 PROVE OnLevel(l2, l2.level) # {Header}
      <4>1. l2.level \in 1 .. l.level /\ l2.level \in 0 .. MaxLevel
        BY <1>0, <2>10, <3>1
      <4>. QED  BY <2>8, <2>9, <2>10, <2>11, <4>1, HeaderLeads
    <3>2. Nodes(l2) \ {Header} = (Nodes(l) \ {Header}) \ {key} /\ key \in Nodes(l) \ {Header}
      BY <2>5, PlaceFacts
    <3>3. IsFiniteSet(Nodes(l) \ {Header})
      BY <2>5, FinitePlaces
    <3>4. Cardinality(Nodes(l2) \ {Header}) = Cardinality(Nodes(l) \ {Header}) - 1
      BY <3>2, <3>3, FS_RemoveElement
    <3>5. l2.count = Cardinality(Nodes(l2) \ {Header})
      BY <1>0, <2>3, <3>4 DEF Counted
    <3>6. DOMAIN l2.value = Nodes(l2) \ {Header} /\ \A k \in DOMAIN l2.value : l2.value[k] \in Value
      BY <1>0, <2>3, <3>2 DEF Counted
    <3>. QED  BY <3>1, <3>5, <3>6 DEF Counted
  <2>13. Removes(l, l2, key)
    BY <1>0, <2>3, <2>5 DEF Removes, Counted
  <2>. QED  BY <2>2, <2>8, <2>11, <2>12, <2>13 DEF Good
<1>. QED  BY <1>1, <1>2

-----------------------------------------------------------------------------
(* load_file *)

Step(l, dump, heights, i) == Inserted(l, dump[i], dump[i], heights[dump[i]])
Loads(l, dump, heights, n, f) ==
  [i \in 0 .. n |-> IF i = 0 THEN l ELSE Step(f[i - 1], dump, heights, i)]

\* The lists after each insertion exist: if not, there is a first one that does not.
LEMMA LoadExists ==
  ASSUME NEW l, NEW dump, NEW heights, NEW N \in Nat
  PROVE  \E f : f = Loads(l, dump, heights, N, f)
<1>. DEFINE T == {n \in 0 .. N : ~ \E f : f = Loads(l, dump, heights, n, f)}
<1>1. SUFFICES ASSUME T # {} PROVE FALSE
  OBVIOUS
<1>2. PICK n \in T : \A m \in T : n <= m
  <2>1. T \in SUBSET Nat
    OBVIOUS
  <2>. QED  BY <1>1, <2>1, LeastOf
<1>3. CASE n = 0
  <2>1. [i \in 0 .. 0 |-> l] = Loads(l, dump, heights, 0, [i \in 0 .. 0 |-> l])
    BY DEF Loads
  <2>. QED  BY <1>2, <1>3, <2>1
<1>4. CASE n # 0
  <2>1. n - 1 \in 0 .. N /\ ~(n <= n - 1) /\ n \in Nat
    BY <1>2, <1>4
  <2>2. PICK g : g = Loads(l, dump, heights, n - 1, g)
    BY <1>2, <2>1
  <2>3. \A i \in 0 .. n - 1 : g[i] = IF i = 0 THEN l ELSE Step(g[i - 1], dump, heights, i)
    BY <2>2, Zenon DEF Loads
  <2>. DEFINE f == [i \in 0 .. n |-> IF i = n THEN Step(g[n - 1], dump, heights, n) ELSE g[i]]
  <2>4. \A i \in 0 .. n : i # n => i \in 0 .. n - 1 /\ (i # 0 => i - 1 \in 0 .. n /\ i - 1 # n)
    BY <2>1
  <2>5. ASSUME NEW i \in 0 .. n PROVE f[i] = IF i = 0 THEN l ELSE Step(f[i - 1], dump, heights, i)
    <3>1. CASE i = n
      <4>1. n - 1 \in 0 .. n /\ n - 1 # n
        BY <2>1
      <4>2. f[n - 1] = g[n - 1] /\ f[n] = Step(g[n - 1], dump, heights, n)
        BY <2>1, <4>1
      <4>. HIDE DEF f
      <4>. QED  BY <1>4, <3>1, <4>2
    <3>2. CASE i # n
      <4>1. f[i] = g[i] /\ (i # 0 => f[i - 1] = g[i - 1])
        BY <2>4, <3>2
      <4>. HIDE DEF f
      <4>. QED  BY <2>3, <2>4, <3>2, <4>1
    <3>. QED  BY <3>1, <3>2
  <2>6. f = Loads(l, dump, heights, n, f)
    <3>1. f = [i \in 0 .. n |-> f[i]]
      OBVIOUS
    <3>. HIDE DEF f
    <3>. QED  BY <2>5, <3>1 DEF Loads
  <2>. QED  BY <1>2, <2>6
<1>. QED  BY <1>3, <1>4

\* Loading keeps what makes a list, and adds the keys of the dump that are missing.
LEMMA LoadedGood ==
  ASSUME NEW l, Good(l), NEW dump \in Seq(Key),
         NEW heights \in [{k \in ToSet(dump) : ~Found(l, k)} -> RandomLevel]
  PROVE  /\ Good(Loaded(l, dump, heights))
         /\ Nodes(Loaded(l, dump, heights)) = Nodes(l) \cup ToSet(dump)
         /\ \A k \in Nodes(l) \ {Header} : Loaded(l, dump, heights).value[k] = l.value[k]
<1>. DEFINE N == Len(dump)
            load == CHOOSE f : f = Loads(l, dump, heights, N, f)
<1>1. N \in Nat /\ ToSet(dump) = {dump[j] : j \in 1 .. N} /\ \A j \in 1 .. N : dump[j] \in Key
  BY DEF ToSet
<1>2. load = Loads(l, dump, heights, N, load)
  BY <1>1, LoadExists, Zenon
<1>3. Loaded(l, dump, heights) = load[N]
  BY Zenon DEF Loaded, Loads, Step
<1>. HIDE DEF load
<1>4. \A i \in 0 .. N : load[i] = IF i = 0 THEN l ELSE Step(load[i - 1], dump, heights, i)
  BY <1>2, Zenon DEF Loads
<1>. HIDE DEF N
<1>. DEFINE Up(i) ==
       /\ Good(load[i])
       /\ Nodes(load[i]) = Nodes(l) \cup {dump[j] : j \in 1 .. i}
       /\ \A k \in Nodes(l) \ {Header} : load[i].value[k] = l.value[k]
<1>5. Up(0)
  <2>1. load[0] = l /\ {dump[j] : j \in 1 .. 0} = {}
    BY <1>1, <1>4
  <2>. QED  BY <2>1
<1>6. ASSUME NEW i \in 1 .. N, Up(i - 1) PROVE Up(i)
  <2>1. PICK acc : acc = load[i - 1]
    OBVIOUS
  <2>2. PICK k \in Key : k = dump[i]
    BY <1>1
  <2>3. load[i] = Inserted(acc, k, k, heights[k])
    BY <1>1, <1>4, <2>1, <2>2 DEF Step
  <2>4. /\ Good(acc) /\ Nodes(acc) = Nodes(l) \cup {dump[j] : j \in 1 .. i - 1}
        /\ \A q \in Nodes(l) \ {Header} : acc.value[q] = l.value[q]
    BY <1>6, <2>1
  <2>5. {dump[j] : j \in 1 .. i} = {dump[j] : j \in 1 .. i - 1} \cup {k}
    <3>1. \A j : j \in 1 .. i <=> j \in 1 .. i - 1 \/ j = i
      BY <1>1
    <3>. QED  BY <2>2, <3>1
  <2>. HIDE DEF Up
  <2>6. CASE k \in Nodes(acc)
    <3>1. Found(acc, k)
      BY <2>4, <2>6, FoundIs DEF Good
    <3>2. load[i] = acc
      BY <2>3, <3>1, Zenon DEF Inserted
    <3>. QED  BY <2>4, <2>5, <2>6, <3>2 DEF Up
  <2>7. CASE k \notin Nodes(acc)
    <3>1. ~Found(l, k)
      BY <2>4, <2>7, FoundIs DEF Good
    <3>2. heights[k] \in RandomLevel
      BY <1>1, <2>2, <3>1
    <3>3. k \in Value
      BY KeyAssumption
    <3>4. Good(load[i]) /\ Adds(acc, load[i], k, k)
      BY <2>3, <2>4, <3>2, <3>3, InsertedGood
    <3>. QED  BY <2>4, <2>5, <2>7, <3>4 DEF Adds, Up
  <2>. QED  BY <2>6, <2>7
<1>. HIDE DEF Up
<1>7. Up(N)
  <2>. DEFINE T == {i \in 0 .. N : ~Up(i)}
  <2>1. SUFFICES ASSUME T # {} PROVE FALSE
    BY <1>1
  <2>2. PICK i \in T : \A j \in T : i <= j
    <3>1. T \in SUBSET Nat
      BY <1>1
    <3>. QED  BY <2>1, <3>1, LeastOf
  <2>3. i # 0 /\ i \in 1 .. N /\ i - 1 \in 0 .. N /\ ~(i <= i - 1)
    BY <1>1, <1>5, <2>2
  <2>. QED  BY <1>6, <2>2, <2>3
<1>. QED  BY <1>1, <1>3, <1>7 DEF Up

-----------------------------------------------------------------------------
(* The chains of dump_file *)

\* A key before all others, put in front of them.
LEMMA InFront ==
  ASSUME NEW k \in Key, NEW s \in Seq(Key), Ascending(s), \A x \in ToSet(s) : k < x
  PROVE  /\ <<k>> \o s \in Seq(Key) /\ Ascending(<<k>> \o s)
         /\ ToSet(<<k>> \o s) = {k} \cup ToSet(s) /\ Len(<<k>> \o s) = Len(s) + 1
<1>. DEFINE t == <<k>> \o s
<1>1. /\ t \in Seq(Key) /\ Len(t) = Len(s) + 1 /\ Len(s) \in Nat /\ t[1] = k
      /\ \A j \in 2 .. Len(t) : t[j] = s[j - 1]
  OBVIOUS
<1>2. DOMAIN t = 1 .. Len(t) /\ DOMAIN s = 1 .. Len(s)
  OBVIOUS
<1>. HIDE DEF t
<1>3. \A j \in DOMAIN t : j = 1 \/ (j \in 2 .. Len(t) /\ j - 1 \in DOMAIN s /\ t[j] = s[j - 1])
  BY <1>1, <1>2
<1>4. ASSUME NEW a \in DOMAIN t, NEW b \in DOMAIN t, a < b PROVE t[a] < t[b]
  <2>1. b # 1
    BY <1>1, <1>2, <1>4
  <2>2. b - 1 \in DOMAIN s /\ t[b] = s[b - 1]
    BY <1>3, <2>1
  <2>3. CASE a = 1
    <3>1. s[b - 1] \in ToSet(s)
      BY <2>2 DEF ToSet
    <3>. QED  BY <1>1, <2>2, <2>3, <3>1
  <2>4. CASE a # 1
    <3>1. a - 1 \in DOMAIN s /\ t[a] = s[a - 1] /\ a - 1 < b - 1
      BY <1>2, <1>3, <1>4, <2>4
    <3>. QED  BY <2>2, <3>1 DEF Ascending
  <2>. QED  BY <2>3, <2>4
<1>5. ToSet(t) = {k} \cup ToSet(s)
  <2>1. ASSUME NEW j \in DOMAIN t PROVE t[j] \in {k} \cup ToSet(s)
    BY <1>1, <1>3 DEF ToSet
  <2>2. ASSUME NEW j \in DOMAIN s PROVE s[j] \in ToSet(t)
    <3>1. j + 1 \in 2 .. Len(t) /\ j + 1 \in DOMAIN t /\ (j + 1) - 1 = j
      BY <1>1, <1>2
    <3>2. t[j + 1] = s[j]
      BY <1>1, <3>1
    <3>. QED  BY <3>1, <3>2 DEF ToSet
  <2>3. k \in ToSet(t)
    BY <1>1, <1>2 DEF ToSet
  <2>. QED  BY <2>1, <2>2, <2>3 DEF ToSet
<1>. QED  BY <1>1, <1>4, <1>5 DEF t, Ascending

Chains(l, i, S, f) ==
  [n \in S |-> IF l.forward[n][i] = Null THEN <<>> ELSE <<l.forward[n][i]>> \o f[l.forward[n][i]]]

\* The chains from the nodes of a level on exist: if not, there is a last node without.
LEMMA ChainExists ==
  ASSUME NEW l, HasNodes(l), Linked(l), NEW i \in 0 .. MaxLevel
  PROVE  \E f : f = Chains(l, i, OnLevel(l, i), f)
<1>. DEFINE S == OnLevel(l, i)
            From(n) == {m \in S : Pos(n) <= Pos(m)}
            Next1(n) == l.forward[n][i]
            T == {n \in S : ~ \E f : f = Chains(l, i, From(n), f)}
<1>1. S \in SUBSET Places /\ Header \in S
  BY LevelFacts
<1>2. \A n \in S : Follows(S, n, Next1(n))
  BY DEF Linked
<1>3. From(Header) = S
  BY <1>1, PlaceFacts
<1>. HIDE DEF S, Next1
<1>4. SUFFICES ASSUME T # {} PROVE FALSE
  <2>1. Header \notin T => \E f : f = Chains(l, i, From(Header), f)
    BY <1>1
  <2>. HIDE DEF T, From
  <2>. QED  BY <1>3, <2>1 DEF S
<1>5. PICK n \in T : \A m \in T : Pos(m) <= Pos(n)
  BY <1>1, <1>4, LastOf
<1>6. ASSUME NEW f, \A m \in From(n) :
               f[m] = IF Next1(m) = Null THEN <<>> ELSE <<Next1(m)>> \o f[Next1(m)],
             f = [m \in From(n) |-> f[m]]
      PROVE  FALSE
  <2>1. f = [m \in From(n) |-> IF Next1(m) = Null THEN <<>> ELSE <<Next1(m)>> \o f[Next1(m)]]
    BY <1>6
  <2>2. f = Chains(l, i, From(n), f)
    BY <2>1, Zenon DEF Chains, Next1
  <2>. QED  BY <1>5, <2>2
<1>7. CASE Next1(n) = Null
  <2>1. From(n) = {n}
    BY <1>1, <1>2, <1>5, <1>7, PlaceFacts DEF Follows
  <2>. DEFINE f == [m \in From(n) |-> <<>>]
  <2>2. \A m \in From(n) : f[m] = <<>> /\ Next1(m) = Null
    BY <1>7, <2>1
  <2>. QED  BY <1>6, <2>2
<1>8. CASE Next1(n) # Null
  <2>1. PICK next \in S : next = Next1(n) /\ Pos(n) < Pos(next) /\ next # Null
    BY <1>2, <1>5, <1>8 DEF Follows
  <2>2. From(n) = {n} \cup From(next) /\ n \notin From(next)
    BY <1>1, <1>2, <1>5, <2>1, PlaceFacts DEF Follows
  <2>3. PICK g : g = Chains(l, i, From(next), g)
    BY <1>1, <1>5, <2>1, PlaceFacts
  <2>4. \A m \in From(next) : g[m] = IF Next1(m) = Null THEN <<>> ELSE <<Next1(m)>> \o g[Next1(m)]
    <3>. HIDE DEF From
    <3>. QED  BY <2>3, Zenon DEF Chains, Next1
  <2>5. \A m \in From(next) : Next1(m) # Null => Next1(m) \in From(next)
    BY <1>1, <1>2, <2>1, PlaceFacts DEF Follows
  <2>6. next \in From(next)
    BY <1>1, <2>1, PlaceFacts
  <2>. DEFINE f == [m \in From(n) |-> IF m = n THEN <<next>> \o g[next] ELSE g[m]]
  <2>. HIDE DEF From
  <2>7. f[n] = <<next>> \o g[next] /\ \A m \in From(next) : f[m] = g[m]
    BY <2>2
  <2>8. f = [m \in From(n) |-> f[m]]
    OBVIOUS
  <2>. HIDE DEF f
  <2>9. ASSUME NEW m \in From(n)
        PROVE  f[m] = IF Next1(m) = Null THEN <<>> ELSE <<Next1(m)>> \o f[Next1(m)]
    <3>1. CASE m = n
      <4>1. f[n] = <<Next1(n)>> \o f[Next1(n)]
        BY <2>1, <2>6, <2>7, Zenon
      <4>. QED  BY <1>8, <3>1, <4>1
    <3>2. CASE m # n
      <4>1. m \in From(next)
        BY <2>2, <3>2
      <4>2. CASE Next1(m) = Null
        BY <2>4, <2>7, <4>1, <4>2
      <4>3. CASE Next1(m) # Null
        <5>1. f[Next1(m)] = g[Next1(m)]
          BY <2>5, <2>7, <4>1, <4>3
        <5>2. g[m] = <<Next1(m)>> \o g[Next1(m)]
          BY <2>4, <4>1, <4>3
        <5>. QED  BY <2>7, <4>1, <4>3, <5>1, <5>2, Zenon
      <4>. QED  BY <4>2, <4>3
    <3>. QED  BY <3>1, <3>2
  <2>. QED  BY <1>6, <2>8, <2>9
<1>. QED  BY <1>7, <1>8

\* The chain of a level is all of its nodes but the header, in order.
LEMMA ChainIs ==
  ASSUME NEW l, HasNodes(l), Linked(l), NEW i \in 0 .. MaxLevel
  PROVE  /\ Chain(l, i) \in Seq(Key) /\ Ascending(Chain(l, i))
         /\ ToSet(Chain(l, i)) = OnLevel(l, i) \ {Header}
         /\ Len(Chain(l, i)) = Cardinality(OnLevel(l, i) \ {Header})
<1>. DEFINE S == OnLevel(l, i)
            next == [n \in S |-> l.forward[n][i]]
            after == CHOOSE f : f = Chains(l, i, S, f)
            Behind(n) == {m \in S : Pos(n) < Pos(m)}
            Right(n) == /\ after[n] \in Seq(Key) /\ Ascending(after[n])
                        /\ ToSet(after[n]) = Behind(n) /\ Len(after[n]) = Cardinality(Behind(n))
<1>1. S \in SUBSET Places /\ Header \in S
  BY LevelFacts
<1>2. \A n \in S : Follows(S, n, next[n])
  BY DEF Linked
<1>3. after = Chains(l, i, S, after)
  BY ChainExists, Zenon
<1>4. Chain(l, i) = after[Header]
  BY Zenon DEF Chain, Chains
<1>. HIDE DEF after
<1>5. \A n \in S : after[n] = IF next[n] = Null THEN <<>> ELSE <<next[n]>> \o after[next[n]]
  <2>1. \A n \in S : after[n] = IF l.forward[n][i] = Null THEN <<>>
                                ELSE <<l.forward[n][i]>> \o after[l.forward[n][i]]
    BY <1>3, Zenon DEF Chains
  <2>2. \A n \in S : next[n] = l.forward[n][i]
    OBVIOUS
  <2>. HIDE DEF next, S
  <2>. QED  BY <2>1, <2>2
<1>. HIDE DEF S, next
<1>6. ASSUME NEW n \in S, next[n] # Null => Right(next[n]) PROVE Right(n)
  <2>1. CASE next[n] = Null
    <3>1. Behind(n) = {}
      BY <1>1, <1>2, <2>1, PlaceFacts DEF Follows
    <3>2. after[n] = <<>>
      BY <1>5, <2>1
    <3>3. Cardinality({}) = 0
      BY FS_EmptySet
    <3>. HIDE DEF Behind
    <3>. QED  BY <3>1, <3>2, <3>3 DEF ToSet, Ascending
  <2>2. CASE next[n] # Null
    <3>1. PICK k \in S : k = next[n] /\ Pos(n) < Pos(k)
      BY <1>2, <2>2 DEF Follows
    <3>2. k \in Key
      BY <1>1, <3>1, PlaceFacts
    <3>3. Behind(n) = {k} \cup Behind(k) /\ k \notin Behind(k)
      BY <1>1, <1>2, <2>2, <3>1, PlaceFacts DEF Follows
    <3>4. \A m \in Behind(k) : k < m
      BY <1>1, <3>1, <3>2, PlaceFacts
    <3>5. IsFiniteSet(Behind(k))
      BY <1>1, FinitePlaces
    <3>. HIDE DEF Behind
    <3>6. /\ after[k] \in Seq(Key) /\ Ascending(after[k])
          /\ ToSet(after[k]) = Behind(k) /\ Len(after[k]) = Cardinality(Behind(k))
      BY <1>6, <2>2, <3>1
    <3>7. after[n] = <<k>> \o after[k]
      BY <1>5, <2>2, <3>1
    <3>8. /\ after[n] \in Seq(Key) /\ Ascending(after[n])
          /\ ToSet(after[n]) = {k} \cup Behind(k) /\ Len(after[n]) = Cardinality(Behind(k)) + 1
      BY <3>2, <3>4, <3>6, <3>7, InFront
    <3>9. Cardinality(Behind(k) \cup {k}) = Cardinality(Behind(k)) + 1
      BY <3>3, <3>5, FS_AddElement
    <3>10. {k} \cup Behind(k) = Behind(k) \cup {k}
      OBVIOUS
    <3>. QED  BY <3>3, <3>8, <3>9, <3>10
  <2>. QED  BY <2>1, <2>2
<1>7. \A n \in S : next[n] # Null => next[n] \in S /\ Pos(n) < Pos(next[n])
  BY <1>2 DEF Follows
<1>8. Behind(Header) = S \ {Header}
  BY <1>1, PlaceFacts
<1>. HIDE DEF Right
<1>9. \A n \in S : Right(n)
  <2>. DEFINE T == {n \in S : ~Right(n)}
  <2>1. SUFFICES ASSUME T # {} PROVE FALSE
    OBVIOUS
  <2>2. PICK n \in T : \A m \in T : Pos(m) <= Pos(n)
    BY <1>1, <2>1, LastOf
  <2>3. next[n] # Null => Right(next[n])
    BY <1>1, <1>7, <2>2, PlaceFacts
  <2>. QED  BY <1>6, <2>2, <2>3
<1>10. Right(Header)
  BY <1>1, <1>9
<1>. HIDE DEF Behind
<1>. QED  BY <1>4, <1>8, <1>10 DEF Right, S

-----------------------------------------------------------------------------
(* The invariant *)

LEMMA EmptyGood == Good(Empty)
<1>1. /\ Nodes(Empty) = {Header} /\ Empty.forward[Header] = [i \in 0 .. MaxLevel |-> Null]
      /\ Empty.level = 0 /\ Empty.count = 0 /\ Empty.value = <<>>
  BY DEF Empty, Nodes
<1>2. MaxLevel \in Nat /\ DOMAIN Empty.value = {}
  BY <1>1, KeyAssumption
<1>3. HasNodes(Empty)
  BY <1>1, <1>2, PlaceFacts DEF HasNodes
<1>4. Linked(Empty)
  BY <1>1, <1>2 DEF Linked, OnLevel, Follows
<1>5. Cardinality(Nodes(Empty) \ {Header}) = 0
  BY <1>1, FS_EmptySet
<1>6. Counted(Empty)
  BY <1>1, <1>2, <1>5 DEF Counted
<1>. QED  BY <1>3, <1>4, <1>6 DEF Good

\* insert_set_element deletes the key, if it is there, and inserts it.
LEMMA ReplacedGood ==
  ASSUME NEW l, Good(l), NEW key \in Key, NEW v \in Value, NEW height \in RandomLevel
  PROVE  LET l2 == Replaced(l, key, v, height)
         IN /\ Good(l2) /\ Nodes(l2) = Nodes(l) \cup {key} /\ l2.value[key] = v
            /\ \A k \in Nodes(l) \ {Header, key} : l2.value[k] = l.value[k]
<1>1. PICK l1 : l1 = IF Found(l, key) THEN Deleted(l, key) ELSE l
  OBVIOUS
<1>2. /\ Good(l1) /\ Nodes(l1) = Nodes(l) \ {key}
      /\ \A k \in Nodes(l) \ {Header, key} : l1.value[k] = l.value[k]
  <2>1. CASE Found(l, key)
    BY <1>1, <2>1, DeletedGood DEF Removes
  <2>2. CASE ~Found(l, key)
    BY <1>1, <2>2, FoundIs DEF Good
  <2>. QED  BY <2>1, <2>2
<1>3. PICK l2 : l2 = Inserted(l1, key, v, height)
  OBVIOUS
<1>4. Replaced(l, key, v, height) = l2
  BY <1>1, <1>3, Zenon DEF Replaced
<1>5. Good(l2) /\ Adds(l1, l2, key, v)
  BY <1>2, <1>3, InsertedGood
<1>. QED  BY <1>2, <1>4, <1>5 DEF Adds

\* A dump is a sequence of keys.
LEMMA DumpType == \A dump \in Dumps : dump \in Seq(Key) /\ ToSet(dump) \in SUBSET Key
BY DEF Dumps, SeqOf, ToSet

LEMMA ListStepInv == ListInv /\ [ListNext]_listVars => ListInv'
<1>. SUFFICES ASSUME ListInv, [ListNext]_listVars PROVE ListInv'
  OBVIOUS
<1>1. ASSUME NEW k \in Key, NEW v \in Value, InsertElement(k, v) PROVE ListInv'
  BY <1>1, InsertedGood DEF InsertElement, ListInv
<1>2. ASSUME NEW k \in Key, NEW v \in Value, InsertSetElement(k, v) PROVE ListInv'
  BY <1>2, ReplacedGood DEF InsertSetElement, ListInv
<1>3. ASSUME NEW k \in Key, DeleteElement(k) PROVE ListInv'
  BY <1>3, DeletedGood DEF DeleteElement, ListInv
<1>4. ASSUME NEW k \in Key, SearchElement(k) PROVE ListInv'
  BY <1>4 DEF SearchElement, ListInv
<1>5. ASSUME NEW dump \in Dumps, LoadFile(dump) PROVE ListInv'
  BY <1>5, DumpType, LoadedGood DEF LoadFile, ListInv
<1>6. CASE UNCHANGED listVars
  BY <1>6 DEF listVars, ListInv
<1>. QED  BY <1>1, <1>2, <1>3, <1>4, <1>5, <1>6 DEF ListNext

\* The list that delete_element walks down is one: no pointer of it leads to a freed node or to
\* a level that the node does not have, and level i is the nodes that have it, in order.
LEMMA GoodChained == ListInv => LevelsChained
<1>. SUFFICES ASSUME ListInv PROVE LevelsChained
  OBVIOUS
<1>1. HasNodes(list) /\ Linked(list) /\ Counted(list) /\ MaxLevel \in Nat
  BY KeyAssumption DEF ListInv, Good
<1>2. ASSUME NEW i \in 0 .. MaxLevel
      PROVE  /\ Chain(list, i) \in Seq(Key) /\ Ascending(Chain(list, i))
             /\ ToSet(Chain(list, i)) = OnLevel(list, i) \ {Header}
             /\ Len(Chain(list, i)) = Cardinality(OnLevel(list, i) \ {Header})
  BY <1>1, ChainIs
<1>3. ASSUME NEW n \in Nodes(list), NEW i \in DOMAIN list.forward[n], list.forward[n][i] # Null
      PROVE  /\ list.forward[n][i] \in Nodes(list) /\ i \in DOMAIN list.forward[list.forward[n][i]]
             /\ n # Header => n < list.forward[n][i]
  <2>1. i \in 0 .. MaxLevel
    <3>1. CASE n = Header
      BY <1>1, <3>1 DEF HasNodes
    <3>2. CASE n # Header
      BY <1>1, <3>2 DEF HasNodes
    <3>. QED  BY <3>1, <3>2
  <2>2. n \in OnLevel(list, i) /\ OnLevel(list, i) \in SUBSET Places
    BY <1>1, <2>1, LevelFacts DEF OnLevel
  <2>3. list.forward[n][i] \in OnLevel(list, i) /\ Pos(n) < Pos(list.forward[n][i])
    BY <1>1, <1>3, <2>1, <2>2 DEF Linked, Follows
  <2>4. n # Header => n < list.forward[n][i]
    BY <2>2, <2>3, PlaceFacts
  <2>. QED  BY <2>3, <2>4 DEF OnLevel
<1>4. \A i \in 0 .. MaxLevel : Chain(list, i) = <<>> <=> OnLevel(list, i) = {Header}
  <2>. SUFFICES ASSUME NEW i \in 0 .. MaxLevel
                PROVE  Chain(list, i) = <<>> <=> OnLevel(list, i) = {Header}
    OBVIOUS
  <2>1. PICK s \in Seq(Key) : s = Chain(list, i) /\ ToSet(s) = OnLevel(list, i) \ {Header}
    BY <1>2
  <2>2. Header \in OnLevel(list, i)
    BY <1>1, LevelFacts
  <2>3. s = <<>> <=> ToSet(s) = {}
    BY DEF ToSet
  <2>. QED  BY <2>1, <2>2, <2>3
<1>5. \A i \in 1 .. MaxLevel : i > list.level => Chain(list, i) = <<>>
  BY <1>1, <1>4, LevelFacts DEF HasNodes
<1>6. list.level > 0 => Chain(list, list.level) # <<>>
  BY <1>1, <1>4 DEF HasNodes, Counted
<1>7. list.count = Len(Chain(list, 0))
  <2>1. 0 \in 0 .. MaxLevel
    BY <1>1
  <2>2. OnLevel(list, 0) = Nodes(list)
    BY <1>1, <2>1, LevelFacts
  <2>. QED  BY <1>1, <1>2, <2>1, <2>2 DEF Counted
<1>. QED  BY <1>2, <1>3, <1>5, <1>6, <1>7 DEF LevelsChained

\* skipList.h: after any calls, each level is a chain within the one below, whatever heights
\* get_random_level has returned.
THEOREM LevelsChainedHolds == ListSpec => []LevelsChained
<1>1. ListInit => ListInv
  BY EmptyGood DEF ListInit, ListInv
<1>2. ListInv /\ [ListNext]_listVars => ListInv'
  BY ListStepInv
<1>3. ListInv => LevelsChained
  BY GoodChained
<1>. QED  BY <1>1, <1>2, <1>3, PTL DEF ListSpec

-----------------------------------------------------------------------------
(* The refinement *)

\* The map that a list stands for.
MapOf(l) == [k \in Key |-> IF k \in Nodes(l) THEN l.value[k] ELSE NotFound]

LEMMA MapIs ==
  ASSUME NEW l, Good(l)
  PROVE  /\ MapOf(l) = [k \in Key |-> IF k \in ToSet(Chain(l, 0)) THEN l.value[k] ELSE NotFound]
         /\ \A k \in Key : MapOf(l)[k] # NotFound <=> k \in Nodes(l)
<1>1. HasNodes(l) /\ Linked(l) /\ Counted(l) /\ 0 \in 0 .. MaxLevel
  BY KeyAssumption DEF Good
<1>2. ToSet(Chain(l, 0)) = Nodes(l) \ {Header}
  BY <1>1, ChainIs, LevelFacts
<1>3. \A k \in Key : k \in ToSet(Chain(l, 0)) <=> k \in Nodes(l)
  BY <1>2, PlaceFacts
<1>4. \A k \in Key : k \in Nodes(l) => l.value[k] # NotFound
  BY <1>1, PlaceFacts, KeyAssumption DEF Counted
<1>. QED  BY <1>3, <1>4 DEF MapOf

\* search_element returns what the key is mapped to.
LEMMA SearchedIs ==
  ASSUME NEW l, Good(l), NEW key \in Key PROVE Searched(l, key) = MapOf(l)[key]
BY FoundIs DEF Good, Searched, MapOf

LEMMA InsertedMaps ==
  ASSUME NEW l, Good(l), NEW key \in Key, NEW v \in Value, NEW height \in RandomLevel
  PROVE  MapOf(Inserted(l, key, v, height))
           = IF key \in Nodes(l) THEN MapOf(l) ELSE [MapOf(l) EXCEPT ![key] = v]
<1>1. PICK l2 : l2 = Inserted(l, key, v, height) /\ Adds(l, l2, key, v)
  BY InsertedGood
<1>. QED  BY <1>1, PlaceFacts DEF MapOf, Adds

LEMMA ReplacedMaps ==
  ASSUME NEW l, Good(l), NEW key \in Key, NEW v \in Value, NEW height \in RandomLevel
  PROVE  MapOf(Replaced(l, key, v, height)) = [MapOf(l) EXCEPT ![key] = v]
<1>1. PICK l2 : /\ l2 = Replaced(l, key, v, height)
                /\ Nodes(l2) = Nodes(l) \cup {key} /\ l2.value[key] = v
                /\ \A k \in Nodes(l) \ {Header, key} : l2.value[k] = l.value[k]
  BY ReplacedGood
<1>. QED  BY <1>1, PlaceFacts DEF MapOf

LEMMA DeletedMaps ==
  ASSUME NEW l, Good(l), NEW key \in Key
  PROVE  MapOf(Deleted(l, key)) = [MapOf(l) EXCEPT ![key] = NotFound]
<1>1. PICK l2 : l2 = Deleted(l, key) /\ Removes(l, l2, key)
  BY DeletedGood
<1>. QED  BY <1>1, PlaceFacts DEF MapOf, Removes

LEMMA LoadedMaps ==
  ASSUME NEW l, Good(l), NEW dump \in Seq(Key), ToSet(dump) \in SUBSET Key,
         NEW heights \in [{k \in ToSet(dump) : ~Found(l, k)} -> RandomLevel],
         NEW m, NEW m2, m = MapOf(l), m2 = MapOf(Loaded(l, dump, heights))
  PROVE  \E value \in [ToSet(dump) -> Value] :
            m2 = [k \in Key |-> IF k \in ToSet(dump) /\ ~(m[k] # NotFound) THEN value[k] ELSE m[k]]
<1>1. PICK l2 : /\ l2 = Loaded(l, dump, heights) /\ Good(l2)
                /\ Nodes(l2) = Nodes(l) \cup ToSet(dump)
                /\ \A k \in Nodes(l) \ {Header} : l2.value[k] = l.value[k]
  BY LoadedGood
<1>2. PICK D \in SUBSET Key : D = ToSet(dump)
  OBVIOUS
<1>. DEFINE value == [k \in D |-> l2.value[k]]
<1>3. value \in [D -> Value]
  BY <1>1, <1>2, PlaceFacts DEF Good, Counted
<1>4. \A k \in Key : m[k] # NotFound <=> k \in Nodes(l)
  BY MapIs
<1>5. ASSUME NEW k \in Key
      PROVE  m2[k] = IF k \in D /\ ~(m[k] # NotFound) THEN value[k] ELSE m[k]
  BY <1>1, <1>2, <1>4, PlaceFacts DEF MapOf
<1>6. m2 = [k \in Key |-> m2[k]]
  BY DEF MapOf
<1>. HIDE DEF value
<1>7. [k \in Key |-> m2[k]]
        = [k \in Key |-> IF k \in D /\ ~(m[k] # NotFound) THEN value[k] ELSE m[k]]
  BY <1>5
<1>8. m2 = [k \in Key |-> IF k \in D /\ ~(m[k] # NotFound) THEN value[k] ELSE m[k]]
  BY <1>6, <1>7, Zenon
<1>. QED  BY <1>2, <1>3, <1>8 DEF value

\* Each call is that of the map.
LEMMA CallMaps ==
  ASSUME ListInv, [ListNext]_listVars
  PROVE  [AsMap!Next]_<<Contents, call>>
<1>1. Good(list) /\ Good(list)'
  BY ListStepInv DEF ListInv
<1>2. Contents = MapOf(list) /\ Contents' = MapOf(list')
  BY <1>1, MapIs DEF Contents
<1>3. \A k \in Key : MapOf(list)[k] # NotFound <=> k \in Nodes(list)
  BY <1>1, MapIs
<1>4. ASSUME NEW k \in Key, NEW v \in Value, InsertElement(k, v) PROVE AsMap!Insert(k, v)
  <2>1. Contents' = IF k \in Nodes(list) THEN Contents ELSE [Contents EXCEPT ![k] = v]
    BY <1>1, <1>2, <1>4, InsertedMaps DEF InsertElement
  <2>2. call' = <<"insert", k, v, IF k \in Nodes(list) THEN 1 ELSE 0>>
    BY <1>1, <1>4, FoundIs DEF InsertElement, Good
  <2>. QED  BY <1>2, <1>3, <2>1, <2>2 DEF AsMap!Insert, AsMap!Has
<1>5. ASSUME NEW k \in Key, NEW v \in Value, InsertSetElement(k, v) PROVE AsMap!Put(k, v)
  BY <1>1, <1>2, <1>5, ReplacedMaps DEF InsertSetElement, AsMap!Put
<1>6. ASSUME NEW k \in Key, DeleteElement(k) PROVE AsMap!Delete(k)
  BY <1>1, <1>2, <1>6, DeletedMaps DEF DeleteElement, AsMap!Delete
<1>7. ASSUME NEW k \in Key, SearchElement(k) PROVE AsMap!Search(k)
  BY <1>1, <1>2, <1>7, SearchedIs DEF SearchElement, AsMap!Search
<1>8. ASSUME NEW dump \in Dumps, LoadFile(dump)
      PROVE  ToSet(dump) \in SUBSET Key /\ AsMap!Load(ToSet(dump))
  <2>1. dump \in Seq(Key) /\ ToSet(dump) \in SUBSET Key
    BY DumpType
  <2>2. PICK heights \in [{k \in ToSet(dump) : ~Found(list, k)} -> RandomLevel] :
          list' = Loaded(list, dump, heights)
    BY <1>8 DEF LoadFile
  <2>3. PICK value \in [ToSet(dump) -> Value] :
          Contents' = [k \in Key |-> IF k \in ToSet(dump) /\ ~(Contents[k] # NotFound)
                                     THEN value[k] ELSE Contents[k]]
    BY <1>1, <1>2, <2>1, <2>2, LoadedMaps
  <2>4. call' = <<"load", ToSet(dump)>>
    BY <1>8 DEF LoadFile
  <2>. QED  BY <2>1, <2>3, <2>4, Zenon DEF AsMap!Load, AsMap!Has
<1>9. CASE UNCHANGED listVars
  BY <1>2, <1>9 DEF listVars
<1>. QED  BY <1>4, <1>5, <1>6, <1>7, <1>8, <1>9 DEF ListNext, AsMap!Next

\* skipList.h: the list does what a map does, and answers as it, through any calls of the
\* KvServer: an update that deletes and inserts again is one change of one key.
THEOREM ListIsMap == ListSpec => IsMap
<1>1. ListInit => ListInv /\ AsMap!Init
  <2>. SUFFICES ASSUME ListInit PROVE ListInv /\ AsMap!Init
    OBVIOUS
  <2>1. list = Empty /\ call = <<>> /\ Good(list)
    BY EmptyGood DEF ListInit
  <2>2. Contents = MapOf(list)
    BY <2>1, MapIs DEF Contents
  <2>3. Nodes(list) = {Header}
    BY <2>1 DEF Empty, Nodes
  <2>4. MapOf(list) = [k \in Key |-> NotFound]
    BY <2>3, PlaceFacts DEF MapOf
  <2>. QED  BY <2>1, <2>2, <2>4 DEF ListInv, AsMap!Init
<1>2. ListInv /\ [ListNext]_listVars => ListInv'
  BY ListStepInv
<1>3. ListInv /\ [ListNext]_listVars => [AsMap!Next]_<<Contents, call>>
  BY CallMaps
<1>. QED  BY <1>1, <1>2, <1>3, PTL DEF ListSpec, IsMap, AsMap!Spec
=============================================================================
