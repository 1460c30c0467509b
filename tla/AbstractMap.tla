---------------------------- MODULE AbstractMap ----------------------------
(***************************************************************************)
(* What src/10-threads/hashmap.h promises its callers: a map from keys to  *)
(* what was last put under them, whose calls begin, may call the caller    *)
(* back, and return.  A put that fails leaves the map as it was.            *)
(***************************************************************************)
EXTENDS Naturals, FiniteSets, Functions

CONSTANTS
  Keys,   \* the keys
  Data,   \* what a caller passes with a key: its pointer to the key, its value
  NULL    \* no key, no data

VARIABLES
  map,    \* the entries
  call,   \* the call in progress, "none" between calls, or why there is none
  entry,  \* the key and the data of the put in progress
  seen,   \* the keys the callback of the iteration has been given
  ret     \* what the last call returned

vars == <<map, call, entry, seen, ret>>

Nothing == [op |-> "none", value |-> NULL]
Begins(op) == call = "none" /\ call' = op /\ ret' = Nothing
Returns(op, value) ==
  call' = "none" /\ seen' = {} /\ ret' = [op |-> op, value |-> value]

Init ==
  /\ map = <<>>
  /\ call = "destroyed"
  /\ entry = NULL
  /\ seen = {}
  /\ ret = Nothing

Create ==
  /\ call = "destroyed"
  /\ Returns("create", 0)
  /\ UNCHANGED <<map, entry>>

Destroy ==
  /\ Begins("destroyed")
  /\ map' = <<>>
  /\ UNCHANGED <<entry, seen>>

PutBegin(k, d) ==
  /\ Begins("put")
  /\ entry' = [key |-> k, data |-> d]
  /\ UNCHANGED <<map, seen>>

PutSucceeds ==
  /\ call = "put"
  /\ map' = [k \in DOMAIN map \cup {entry.key} |->
               IF k = entry.key THEN entry.data ELSE map[k]]
  /\ entry' = NULL
  /\ Returns("put", 0)

PutFails ==
  /\ call = "put"
  /\ entry' = NULL
  /\ Returns("put", 1)
  /\ UNCHANGED map

\* A key that is no key is refused.
Refuse ==
  /\ call = "none"
  /\ \/ \E op \in {"put", "remove"} : Returns(op, 1)
     \/ \E op \in {"get", "remove_and_return_key"} : Returns(op, NULL)
  /\ UNCHANGED <<map, entry>>

Get(k) ==
  /\ call = "none"
  /\ Returns("get", IF k \in DOMAIN map THEN map[k] ELSE NULL)
  /\ UNCHANGED <<map, entry>>

Size ==
  /\ call = "none"
  /\ Returns("num_entries", Cardinality(DOMAIN map))
  /\ UNCHANGED <<map, entry>>

\* Both forms of remove; the second returns the pointer to the key.
Remove(k) ==
  /\ call = "none"
  /\ map' = Restrict(map, DOMAIN map \ {k})
  /\ \/ Returns("remove", IF k \in DOMAIN map THEN 0 ELSE 1)
     \/ Returns("remove_and_return_key", IF k \in DOMAIN map THEN map[k] ELSE NULL)
  /\ UNCHANGED entry

IterateBegin ==
  /\ Begins("iterate") \/ Begins("iterate_pairs")
  /\ UNCHANGED <<map, entry, seen>>

\* The callback gets an entry it has not had yet: the iteration goes on, with or
\* without the entry, or ends early.
Visit(k) ==
  /\ call \in {"iterate", "iterate_pairs"}
  /\ k \in DOMAIN map \ seen
  /\ UNCHANGED entry
  /\ \/ /\ seen' = seen \cup {k}
        /\ \/ UNCHANGED map
           \/ call = "iterate_pairs" /\ map' = Restrict(map, DOMAIN map \ {k})
        /\ UNCHANGED <<call, ret>>
     \/ Returns(call, 1) /\ UNCHANGED map

\* The iteration returns 0 only if the callback was given every entry.
IterateEnd ==
  /\ call \in {"iterate", "iterate_pairs"}
  /\ DOMAIN map \subseteq seen
  /\ Returns(call, 0)
  /\ UNCHANGED <<map, entry>>

\* An allocation that failed and was not checked: the process dies.
Crash ==
  /\ call' = "crashed"
  /\ UNCHANGED <<map, entry, seen, ret>>

Next ==
  \/ Create \/ Destroy \/ Refuse \/ PutSucceeds \/ PutFails \/ Size
  \/ IterateBegin \/ IterateEnd \/ Crash
  \/ \E k \in Keys :
       \/ \E d \in Data : PutBegin(k, d)
       \/ Get(k) \/ Remove(k) \/ Visit(k)

Spec == Init /\ [][Next]_vars
=============================================================================
