------------------------------ MODULE SkipList ------------------------------
(***************************************************************************)
(* The skip list of skipList.h: nodes with an array of forward pointers,   *)
(* one per level, under insert, update, delete, search and load.  A node is *)
(* named by its key.  The calls of one list are made under KvServer's       *)
(* mutex, one at a time, so each is one step; get_random_level is a choice. *)
(* Operators called ...Mutant are plausible bugs for the runs to notice.    *)
(***************************************************************************)
EXTENDS Integers, FiniteSets, SequencesExt

CONSTANTS Key,        \* keys, numbers here, ordered by <
          Value,      \* with the keys among them, as load_file takes the one for the other
          MaxLevel,   \* _max_level, at least 1
          Header,     \* the node _header
          Null,       \* the null pointer
          NotFound

ASSUME KeyAssumption ==
  /\ Key \subseteq Nat /\ IsFiniteSet(Key) /\ Key \subseteq Value
  /\ MaxLevel \in Nat \ {0}
  /\ Header \notin Key /\ Null \notin Key \cup {Header} /\ NotFound \notin Value

VARIABLES list,       \* the members of SkipList and its nodes, as a record
          call        \* the last call, its arguments, and what it returned
listVars == <<list, call>>

\* A new list has the header only, with all its pointers null.
Empty ==
  [forward |-> [n \in {Header} |-> [i \in 0 .. MaxLevel |-> Null]],
   value   |-> <<>>,
   level   |-> 0,       \* _skip_list_level
   count   |-> 0]       \* _element_count

Nodes(l) == DOMAIN l.forward
\* Those that have level i.
OnLevel(l, i) == {n \in Nodes(l) : i \in DOMAIN l.forward[n]}

\* The last node at or after `from', along level i, whose successor is not below key.
Before(l, from, i, key) ==
  LET walk[n \in OnLevel(l, i)] ==
        LET next == l.forward[n][i]
        IN IF next # Null /\ next < key THEN walk[next] ELSE n
  IN walk[from]

\* The array `update': where the descent from the top level leaves each level.
Update(l, key) ==
  LET update[i \in 0 .. l.level] ==
        Before(l, IF i = l.level THEN Header ELSE update[i + 1], i, key)
  IN update

\* The node the descent ends at is the one of the key.
Found(l, key) == l.forward[Update(l, key)[0]][0] = key

\* insert_element, when get_random_level returns height: the key is linked after
\* update[i] on each of its levels, on levels that are new after the header.
Inserted(l, key, v, height) ==
  IF Found(l, key) THEN l
  ELSE LET update == Update(l, key)
           Prev(i) == IF i <= l.level THEN update[i] ELSE Header
       IN [forward |->
             [n \in Nodes(l) \cup {key} |->
                IF n = key THEN [i \in 0 .. height |-> l.forward[Prev(i)][i]]
                ELSE [i \in DOMAIN l.forward[n] |->
                        IF i <= height /\ Prev(i) = n THEN key ELSE l.forward[n][i]]],
           value |-> [k \in DOMAIN l.value \cup {key} |-> IF k = key THEN v ELSE l.value[k]],
           level |-> IF height > l.level THEN height ELSE l.level,
           count |-> l.count + 1]

\* The levels from which delete_element unlinks the key: from 0 up to the first one
\* where update[i] is not followed by it.
UnlinkedMutant(l, key) == {0}
Unlinked(l, key) ==
  {i \in 0 .. l.level : \A j \in 0 .. i : l.forward[Update(l, key)[j]][j] = key}

\* delete_element, with the levels that it leaves empty removed from the top.
Deleted(l, key) ==
  IF ~Found(l, key) THEN l
  ELSE LET update == Update(l, key)
           cut == Unlinked(l, key)
           forward == [n \in Nodes(l) \ {key} |->
                         [i \in DOMAIN l.forward[n] |->
                            IF i \in cut /\ update[i] = n THEN l.forward[key][i] ELSE l.forward[n][i]]]
       IN [forward |-> forward,
           value |-> [k \in DOMAIN l.value \ {key} |-> l.value[k]],
           level |-> Max({0} \cup {i \in 1 .. l.level : forward[Header][i] # Null}),
           count |-> l.count - 1]

\* search_element.
Searched(l, key) == IF Found(l, key) THEN l.value[key] ELSE NotFound

\* insert_set_element: a key that is there is deleted and inserted again.
ReplacedMutant(l, key, v, height) == Inserted(l, key, v, height)
Replaced(l, key, v, height) ==
  Inserted(IF Found(l, key) THEN Deleted(l, key) ELSE l, key, v, height)

\* load_file: each key of a dump is inserted, with itself as its value.
Loaded(l, dump, heights) ==
  LET load[i \in 0 .. Len(dump)] ==
        IF i = 0 THEN l ELSE Inserted(load[i - 1], dump[i], dump[i], heights[dump[i]])
  IN load[Len(dump)]

-----------------------------------------------------------------------------
\* get_random_level: at least 1, so every node is on level 1 too.
RandomLevel == 1 .. MaxLevel

ListInit == list = Empty /\ call = <<>>

InsertElement(k, v) ==
  /\ \E height \in RandomLevel : list' = Inserted(list, k, v, height)
  /\ call' = <<"insert", k, v, IF Found(list, k) THEN 1 ELSE 0>>

InsertSetElement(k, v) ==
  /\ \E height \in RandomLevel : list' = Replaced(list, k, v, height)
  /\ call' = <<"put", k, v>>

DeleteElement(k) == list' = Deleted(list, k) /\ call' = <<"delete", k>>

SearchElement(k) == call' = <<"search", k, Searched(list, k)>> /\ UNCHANGED list

\* The dump is one that some list has made: of any keys, in order.
Ascending(s) == \A a, b \in DOMAIN s : a < b => s[a] < s[b]
Dumps == {s \in SeqOf(Key, Cardinality(Key)) : Ascending(s)}
LoadFile(dump) ==
  /\ \E heights \in [{k \in ToSet(dump) : ~Found(list, k)} -> RandomLevel] :
        list' = Loaded(list, dump, heights)
  /\ call' = <<"load", ToSet(dump)>>

ListNext ==
  \/ \E k \in Key, v \in Value : InsertElement(k, v) \/ InsertSetElement(k, v)
  \/ \E k \in Key : DeleteElement(k) \/ SearchElement(k)
  \/ \E dump \in Dumps : LoadFile(dump)

ListSpec == ListInit /\ [][ListNext]_listVars

-----------------------------------------------------------------------------
\* The keys along level i, as dump_file and display_list walk it.
Chain(l, i) ==
  LET after[n \in OnLevel(l, i)] ==
        LET next == l.forward[n][i]
        IN IF next = Null THEN <<>> ELSE <<next>> \o after[next]
  IN after[Header]

\* No pointer leads to a deleted node or to a level its node does not have; level i
\* is the ascending chain of all the nodes that have it, so each level is part of the
\* one below; the top level in use is the highest one with a node, and the count is
\* right.  dump_file writes level 0, hence every key once.
LevelsChained ==
  /\ \A n \in Nodes(list) : \A i \in DOMAIN list.forward[n] :
        LET next == list.forward[n][i]
        IN next # Null => /\ next \in Nodes(list) /\ i \in DOMAIN list.forward[next]
                          /\ n # Header => n < next
  /\ \A i \in 0 .. MaxLevel :
        Ascending(Chain(list, i)) /\ ToSet(Chain(list, i)) = OnLevel(list, i) \ {Header}
  /\ \A i \in 1 .. MaxLevel : i > list.level => Chain(list, i) = <<>>
  /\ list.level > 0 => Chain(list, list.level) # <<>>
  /\ list.count = Len(Chain(list, 0))

\* What level 0 holds is the map that KvServer relies on, and every call answers as
\* that map does, however the levels came out.
Contents ==
  LET keys == ToSet(Chain(list, 0))
  IN [k \in Key |-> IF k \in keys THEN list.value[k] ELSE NotFound]
AsMap == INSTANCE KvMap WITH map <- Contents
IsMap == AsMap!Spec
=============================================================================
