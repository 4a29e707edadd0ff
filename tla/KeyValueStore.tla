--------------------------- MODULE KeyValueStore ---------------------------
(***************************************************************************)
(* The in-memory store of include/tcp/store.hpp and src/store.cpp.         *)
(* data_ (an unordered_map) is a function whose DOMAIN is the set of keys  *)
(* present; each operation is a pure operator from the old data_ to the    *)
(* new one or to the value returned.                                       *)
(***************************************************************************)
EXTENDS FiniteSets

nullopt == [has_value |-> FALSE]

EmptyStore == [key \in {} |-> key]

set(data, key, value) ==
    [k \in DOMAIN data \cup {key} |-> IF k = key THEN value ELSE data[k]]

exists(data, key) == key \in DOMAIN data

get(data, key) ==
    IF exists(data, key) THEN [has_value |-> TRUE, value |-> data[key]]
                         ELSE nullopt

(* erase returns whether the key was present; erased is the new data_.     *)
erase(data, key) == exists(data, key)

erased(data, key) == [k \in DOMAIN data \ {key} |-> data[k]]

count(data) == Cardinality(DOMAIN data)
=============================================================================
