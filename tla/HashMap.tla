------------------------------ MODULE HashMap ------------------------------
(***************************************************************************)
(* The hash map of the log scanner, src/10-threads/hashmap.h: open         *)
(* addressing with a probe window of fixed length, and a rehash into a     *)
(* table twice as large whenever a put finds no slot in its window.  The   *)
(* rehash puts the old entries one by one with hashmap_put, which would     *)
(* rehash the new table if it found no slot either: the tables form a stack. *)
(***************************************************************************)
EXTENDS Integers, FiniteSets, FiniteSetsExt, Sequences

CONSTANTS
  Keys, Data, NULL,   \* as in AbstractMap
  Hash,         \* Hash[k]: hasher(~0u, k, len) * 2654435769u
  Width,        \* the width of a hash in bits, 32 in the code
  Probe,        \* HASHMAP_LINEAR_PROBE_LENGTH
  Capacities    \* the initial capacities callers ask for

ASSUME WidthAssumption == Width \in Nat /\ Width >= 2
ASSUME ProbeAssumption == Probe \in Nat \ {0}
ASSUME HashAssumption == Hash \in [Keys -> 0..(2^Width - 1)]
ASSUME CapacitiesAssumption == Capacities \subseteq 0..2^(Width - 1)
ASSUME NullAssumption == NULL \notin Keys
\* Laws of arithmetic that the prover does not know of; TLC evaluates them.
ASSUME PowersAssumption ==
  \A m, n \in 0..Width : 2^m \in Nat \ {0} /\ 2^(m + n) = 2^m * 2^n

VARIABLES
  stack,   \* the tables: the caller's map, and the new_m of every rehash
  call,    \* the call in progress, as in AbstractMap
  at,      \* the slot an iteration over the caller's map is at
  seen,    \* the keys its callback has been given
  heard,   \* what the callback of hashmap_iterate returned last
  ret      \* what the last call returned

vars == <<stack, call, at, seen, heard, ret>>

Free == [key |-> NULL, data |-> NULL]
Elements == [key : Keys, data : Data]

----------------------------------------------------------------------------
(* A table *)

Capacity(log2) == 2^log2
Places(log2) == 0..(Capacity(log2) + Probe - 1)

Table(log2, n, slots) == [log2_capacity |-> log2, size |-> n, slot |-> slots]
EmptyTable(log2) == Table(log2, 0, [i \in Places(log2) |-> Free])

Clz(x) == CHOOSE n \in 0..(Width - 1) : 2^(Width - 1 - n) <= x /\ x < 2^(Width - n)

\* hashmap_create_ex rounds the capacity up to a power of two, and to 2.
IsPower(c) == c = 2^(Width - 1 - Clz(c))
Rounded(c) == CASE c < 2 -> 2
                [] c >= 2 /\ IsPower(c) -> c
                [] c >= 2 /\ ~IsPower(c) -> 2^(Width - Clz(c))
Created(c) == EmptyTable(Width - 1 - Clz(Rounded(c)))

\* Mutant: the low bits of the hash choose the home.
HomeLow(T, k) == Hash[k] % Capacity(T.log2_capacity)

Home(T, k) == Hash[k] \div 2^(Width - T.log2_capacity)
Window(T, k) == Home(T, k)..(Home(T, k) + Probe - 1)

Used(T) == { i \in DOMAIN T.slot : T.slot[i] # Free }
Holding(T, k) == { i \in Window(T, k) \cap Used(T) : T.slot[i].key = k }

\* Mutant: the first free slot is taken without looking for the key behind it.
SlotsFirstFree(T, k) ==
  IF T.size = Capacity(T.log2_capacity) THEN {}
  ELSE LET open == { i \in Window(T, k) : i \in Used(T) => T.slot[i].key = k }
       IN  IF open = {} THEN {} ELSE {Min(open)}

\* Mutant: the probe loop runs once too often.
SlotsOneMore(T, k) ==
  IF T.size = Capacity(T.log2_capacity) THEN {}
  ELSE LET window == Home(T, k)..(Home(T, k) + Probe)
           open == (window \cap DOMAIN T.slot) \ Used(T)
       IN  IF Holding(T, k) # {} THEN {Min(Holding(T, k))}
           ELSE IF open # {} THEN {Min(open)} ELSE {}

\* hashmap_hash_helper: the slot of the key, else the first free one of its
\* window; none when the table is full or the window is.
Slots(T, k) ==
  IF T.size = Capacity(T.log2_capacity) THEN {}
  ELSE LET free == Window(T, k) \ Used(T)
       IN  IF Holding(T, k) # {} THEN {Min(Holding(T, k))}
           ELSE IF free # {} THEN {Min(free)} ELSE {}

\* Mutant: an overwritten element is counted again.
StoreCounts(T, i, e) == Table(T.log2_capacity, T.size + 1, [T.slot EXCEPT ![i] = e])

Store(T, i, e) ==
  Table(T.log2_capacity, IF T.slot[i] = Free THEN T.size + 1 ELSE T.size,
        [T.slot EXCEPT ![i] = e])

Clear(T, i) == Table(T.log2_capacity, T.size - 1, [T.slot EXCEPT ![i] = Free])

----------------------------------------------------------------------------
(* The stack: a level is a table, the entry to put into it, and the slot of *)
(* the table whose element the level above is to take.                      *)

Moving(T, e, i) == [table |-> T, entry |-> e, moving |-> i]
Level(T, e) == Moving(T, e, -1)
Top == stack[Len(stack)]
Map == stack[1].table

Idle == call = "none"
Nothing == [op |-> "none", value |-> NULL]
Begins(op) == Idle /\ call' = op /\ ret' = Nothing
Returns(op, value) == /\ call' = "none"
                      /\ at' = 0 /\ seen' = {}
                      /\ ret' = [op |-> op, value |-> value]

Create(c) ==
  /\ call = "destroyed"
  /\ stack' = <<Level(Created(c), Free)>>
  /\ Returns("create", 0)
  /\ UNCHANGED heard

Destroy ==
  /\ Begins("destroyed")
  /\ stack' = <<Level(EmptyTable(0), Free)>>
  /\ UNCHANGED <<at, seen, heard>>

PutBegin(k, d) ==
  /\ Begins("put")
  /\ stack' = <<Level(Map, [key |-> k, data |-> d])>>
  /\ UNCHANGED <<at, seen, heard>>

\* The caller's own entry finds its slot.
PutStores ==
  /\ call = "put"
  /\ Len(stack) = 1
  /\ \E i \in Slots(Map, Top.entry.key) :
       stack' = <<Level(Store(Map, i, Top.entry), Free)>>
  /\ Returns("put", 0)
  /\ UNCHANGED heard

\* Mutant: the first slot is moved whether it is in use or not.
RehashFromZero ==
  LET n == Len(stack)
      T == Top.table
  IN /\ call = "put"
     /\ Slots(T, Top.entry.key) = {}
     /\ T.log2_capacity + 1 < Width
     /\ stack' = SubSeq(stack, 1, n - 1) \o
                  << Moving(T, Top.entry, 0),
                     Level(EmptyTable(T.log2_capacity + 1), T.slot[Min(Used(T))]) >>
     /\ UNCHANGED <<call, at, seen, heard, ret>>

\* Mutant: the new table is as large as the old one.
RehashSameSize ==
  LET n == Len(stack)
      T == Top.table
      first == Min(Used(T))
  IN /\ call = "put"
     /\ Slots(T, Top.entry.key) = {}
     /\ T.log2_capacity + 1 < Width
     /\ stack' = SubSeq(stack, 1, n - 1) \o
                  << Moving(T, Top.entry, first),
                     Level(EmptyTable(T.log2_capacity), T.slot[first]) >>
     /\ UNCHANGED <<call, at, seen, heard, ret>>

\* The table is full, or the window is: hashmap_rehash_helper creates a table
\* twice as large and takes the first element for it.
Rehash ==
  LET n == Len(stack)
      T == Top.table
      first == Min(Used(T))
  IN /\ call = "put"
     /\ Slots(T, Top.entry.key) = {}
     /\ T.log2_capacity + 1 < Width
     /\ stack' = SubSeq(stack, 1, n - 1) \o
                  << Moving(T, Top.entry, first),
                     Level(EmptyTable(T.log2_capacity + 1), T.slot[first]) >>
     /\ UNCHANGED <<call, at, seen, heard, ret>>

\* hashmap_rehash_iterator has put an element into the new table: it is cleared
\* in the old one, and the next one follows, or the new table replaces the old.
MoveEntry ==
  LET n == Len(stack)
      old == stack[n - 1]
      rest == Clear(old.table, old.moving)
      later == { i \in Used(rest) : i > old.moving }
  IN /\ call = "put"
     /\ n > 1
     /\ \E i \in Slots(Top.table, Top.entry.key) :
          LET new == Store(Top.table, i, Top.entry)
          IN  stack' = SubSeq(stack, 1, n - 2) \o
                IF later = {} THEN << Level(new, old.entry) >>
                ELSE << Moving(rest, old.entry, Min(later)),
                        Level(new, rest.slot[Min(later)]) >>
     /\ UNCHANGED <<call, at, seen, heard, ret>>

\* The capacity overflows to 0: every rehash in progress returns 1, and so does
\* the put.  The new tables are lost, with the entries moved to them.
PutFails ==
  /\ call = "put"
  /\ Slots(Top.table, Top.entry.key) = {}
  /\ Top.table.log2_capacity + 1 = Width
  /\ stack' = <<Level(Map, Free)>>
  /\ Returns("put", 1)
  /\ UNCHANGED heard

\* hashmap_create_ex does not look at what calloc returned.
Crash ==
  /\ \/ call = "destroyed"
     \/ /\ call = "put"
        /\ Slots(Top.table, Top.entry.key) = {}
        /\ Top.table.log2_capacity + 1 < Width
  /\ call' = "crashed"
  /\ UNCHANGED <<stack, at, seen, heard, ret>>

\* A key that is NULL or has no length is refused by every call.
Refuse ==
  /\ Idle
  /\ \/ \E op \in {"put", "remove"} : Returns(op, 1)
     \/ \E op \in {"get", "remove_and_return_key"} : Returns(op, NULL)
  /\ UNCHANGED <<stack, heard>>

Get(k) ==
  /\ Idle
  /\ Returns("get", IF Holding(Map, k) = {} THEN NULL
                    ELSE Map.slot[Min(Holding(Map, k))].data)
  /\ UNCHANGED <<stack, heard>>

NumEntries ==
  /\ Idle
  /\ Returns("num_entries", Map.size)
  /\ UNCHANGED <<stack, heard>>

\* What a remove leaves of the map.
Without(k) ==
  IF Holding(Map, k) = {} THEN stack
  ELSE <<Level(Clear(Map, Min(Holding(Map, k))), Free)>>

Remove(k) ==
  /\ Idle
  /\ stack' = Without(k)
  /\ Returns("remove", IF Holding(Map, k) = {} THEN 1 ELSE 0)
  /\ UNCHANGED heard

RemoveAndReturnKey(k) ==
  /\ Idle
  /\ stack' = Without(k)
  /\ Returns("remove_and_return_key",
             IF Holding(Map, k) = {} THEN NULL
             ELSE Map.slot[Min(Holding(Map, k))].data)
  /\ UNCHANGED heard

----------------------------------------------------------------------------
(* hashmap_iterate and hashmap_iterate_pairs with a caller's callback *)

Iterations == {"iterate", "iterate_pairs"}

IterateBegin(op) ==
  /\ Begins(op)
  /\ heard' = 0
  /\ UNCHANGED <<stack, at, seen>>

SkipFree ==
  /\ call \in Iterations
  /\ at \in DOMAIN Map.slot \ Used(Map)
  /\ at' = at + 1
  /\ UNCHANGED <<stack, call, seen, heard, ret>>

\* The callback has been given the element, and the iteration goes on.
Visited ==
  /\ seen' = seen \cup {Map.slot[at].key}
  /\ at' = at + 1
  /\ UNCHANGED <<call, ret>>

\* The callback of hashmap_iterate returned r: 0 stops the iteration.
Callback(r) ==
  /\ call = "iterate"
  /\ at \in Used(Map)
  /\ heard' = r
  /\ IF r = 0 THEN Returns("iterate", 1) ELSE Visited
  /\ UNCHANGED stack

\* The callback of hashmap_iterate_pairs returned r: -1 removes the element, 0
\* goes on, anything else stops the iteration.
PairCallback(r) ==
  /\ call = "iterate_pairs"
  /\ at \in Used(Map)
  /\ stack' = IF r = -1 THEN <<Level(Clear(Map, at), Free)>> ELSE stack
  /\ IF r \in {-1, 0} THEN Visited ELSE Returns("iterate_pairs", 1)
  /\ UNCHANGED heard

\* Mutant: the iteration ends at the capacity, before the tail of the windows.
IterateEndEarly ==
  /\ call \in Iterations
  /\ at >= Capacity(Map.log2_capacity)
  /\ Returns(call, 0)
  /\ UNCHANGED <<stack, heard>>

IterateEnd ==
  /\ call \in Iterations
  /\ at \notin DOMAIN Map.slot
  /\ Returns(call, 0)
  /\ UNCHANGED <<stack, heard>>

----------------------------------------------------------------------------

Init ==
  /\ stack = <<Level(EmptyTable(0), Free)>>
  /\ call = "destroyed"
  /\ at = 0
  /\ seen = {}
  /\ heard = 0
  /\ ret = Nothing

PutStep == PutStores \/ Rehash \/ MoveEntry \/ PutFails
IterateStep == SkipFree \/ Callback(0) \/ Callback(1) \/ IterateEnd
               \/ \E r \in {-1, 0, 1} : PairCallback(r)

Ended == call = "crashed" /\ UNCHANGED vars

Next ==
  \/ \E c \in Capacities : Create(c)
  \/ Destroy \/ Refuse \/ NumEntries \/ PutStep \/ IterateStep \/ Crash \/ Ended
  \/ \E op \in Iterations : IterateBegin(op)
  \/ \E k \in Keys :
       \/ \E d \in Data : PutBegin(k, d)
       \/ Get(k) \/ Remove(k) \/ RemoveAndReturnKey(k)

Spec == Init /\ [][Next]_vars

\* The code of a put or of an iteration runs on until it returns.
FairSpec == Spec /\ WF_vars(PutStep) /\ WF_vars(IterateStep)

----------------------------------------------------------------------------
(* Properties *)

Tables == { stack[i].table : i \in DOMAIN stack }

\* A table has a slot for every place of the probe windows, and every level but
\* the top one is moving an element it holds.
TypeOK ==
  /\ Len(stack) \in 1..Width
  /\ \A i \in DOMAIN stack :
       LET level == stack[i] T == level.table IN
       /\ T.log2_capacity \in 0..(Width - 1)
       /\ T.slot \in [Places(T.log2_capacity) -> Elements \cup {Free}]
       /\ level.entry \in Elements \cup {Free}
       /\ IF i < Len(stack) THEN level.moving \in Used(T) ELSE level.moving = -1
  /\ call \in {"none", "destroyed", "crashed", "put"} \cup Iterations
  /\ at \in Nat /\ seen \subseteq Keys /\ heard \in {0, 1}

\* size, which hashmap_hash_helper trusts to say that the table is full and the
\* callers to size an array, is the number of elements in use.
SizeExact == \A T \in Tables : T.size = Cardinality(Used(T))

\* Every element is in the window of its key, where get, put and remove look
\* for it, also after other elements were removed.
InWindow == \A T \in Tables : \A i \in Used(T) : i \in Window(T, T.slot[i].key)

\* No key is in two slots, even of two tables in the middle of a rehash.
NoDuplicates ==
  \A m, n \in DOMAIN stack :
    \A i \in Used(stack[m].table), j \in Used(stack[n].table) :
      stack[m].table.slot[i].key = stack[n].table.slot[j].key => m = n /\ i = j

\* A put made by a rehash finds a slot: hashmap_put and hashmap_rehash_helper
\* call each other, but never more than once deep.
RehashNeverNests == Len(stack) <= 2

\* hashmap.h:228-229: "Otherwise if the callback function f returned non-zero
\* then non-zero is returned."
IterateStopsOnNonZero ==
  ret.op = "iterate" /\ ret.value # 0 /\ call = "none" => heard # 0

\* Every put and every iteration returns, however many rehashes a put needs.
CallsReturn == (call \in {"put"} \cup Iterations) ~> (call \in {"none", "crashed"})

\* The entries of all the tables, the one that is looked up in each.
Contents ==
  LET elements == UNION { { T.slot[i] : i \in Used(T) } : T \in Tables }
  IN  [k \in { e.key : e \in elements } |->
         (CHOOSE e \in elements : e.key = k).data]

\* The map is an abstract map: a rehash, nested or not, changes no entry, an
\* iteration that returns 0 has shown every entry to the callback once.
Abstract == INSTANCE AbstractMap WITH
  map <- Contents,
  entry <- IF stack[1].entry = Free THEN NULL ELSE stack[1].entry
ImplementsMap == Abstract!Spec
=============================================================================
