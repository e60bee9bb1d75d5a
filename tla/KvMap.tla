-------------------------------- MODULE KvMap --------------------------------
(***************************************************************************)
(* What KvServer takes its skip list for: a map from keys to values, with  *)
(* the answer of the last call.  KvServer.tla keeps such a map as kv[s].   *)
(***************************************************************************)
CONSTANTS Key, Value, NotFound

VARIABLES map,      \* map[k]: the value of k, or NotFound
          call      \* the last call, its arguments, and what it returned if anything

Has(k) == map[k] # NotFound

Init == map = [k \in Key |-> NotFound] /\ call = <<>>

\* insert_element leaves the value of a key it has and returns 1.
Insert(k, v) ==
  \/ call' = <<"insert", k, v, 1>> /\ Has(k) /\ UNCHANGED map
  \/ call' = <<"insert", k, v, 0>> /\ ~Has(k) /\ map' = [map EXCEPT ![k] = v]

\* insert_set_element.
Put(k, v) == call' = <<"put", k, v>> /\ map' = [map EXCEPT ![k] = v]

Delete(k) == call' = <<"delete", k>> /\ map' = [map EXCEPT ![k] = NotFound]

Search(k) == call' = <<"search", k, map[k]>> /\ UNCHANGED map

\* Loading a dump of `keys' adds the keys that are missing and no other, and changes no
\* value; which values the new keys get is left open.
Load(keys) ==
  /\ call' = <<"load", keys>>
  /\ \E value \in [keys -> Value] :
        map' = [k \in Key |-> IF k \in keys /\ ~Has(k) THEN value[k] ELSE map[k]]

Next ==
  \/ \E k \in Key, v \in Value : Insert(k, v) \/ Put(k, v)
  \/ \E k \in Key : Delete(k) \/ Search(k)
  \/ \E keys \in SUBSET Key : Load(keys)

Spec == Init /\ [][Next]_<<map, call>>
=============================================================================
