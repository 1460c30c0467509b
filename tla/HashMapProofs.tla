--------------------------- MODULE HashMapProofs ---------------------------
(* The tables of the hash map are well formed at every step of every call,  *)
(* in the middle of a rehash as well, for every hash function, every length *)
(* of the probe window and every number of keys.                            *)
EXTENDS HashMap, FiniteSetTheorems, SequenceTheorems, WellFoundedInduction, TLAPS

----------------------------------------------------------------------------
(* Numbers *)

\* A set of numbers that is not empty has a least one, which Min returns.
LEMMA MinLeast ==
  ASSUME NEW S \in SUBSET Nat, S # {}
  PROVE  Min(S) \in S /\ \A x \in S : Min(S) <= x
<1>1. PICK x \in S : \A y \in S : ~(<<y, x>> \in OpToRel(<, Nat))
  BY WFMin, NatLessThanWellFounded
<1>2. \A y \in S : ~(y < x)
  BY <1>1 DEF OpToRel
<1>3. \A y \in S : x <= y
  BY <1>2
<1> QED
  BY <1>3 DEF Min

\* The home of a key is a place of the table, whatever the hash.
LEMMA HomePlace ==
  ASSUME NEW T, NEW k \in Keys, T.log2_capacity \in 0..(Width - 1)
  PROVE  Home(T, k) \in 0..(Capacity(T.log2_capacity) - 1)
<1> DEFINE n == T.log2_capacity
           p == 2^(Width - n)
           q == 2^n
           h == Hash[k]
           a == h \div p
<1>1. p \in Nat \ {0} /\ q \in Nat \ {0} /\ 2^Width = p * q
  <2>1. n \in 0..Width /\ Width - n \in 0..Width /\ (Width - n) + n = Width
    BY WidthAssumption
  <2>2. 2^((Width - n) + n) = 2^(Width - n) * 2^n
    BY <2>1, PowersAssumption
  <2> QED
    BY <2>1, <2>2, PowersAssumption
<1>2. h \in Nat /\ h < p * q
  <2>1. h \in 0..(2^Width - 1)
    BY HashAssumption
  <2>2. p * q \in Nat
    BY <1>1
  <2> HIDE DEF p, q, h
  <2> QED
    BY <1>1, <2>1, <2>2
<1>3. a \in Nat /\ p * a <= h
  <2> HIDE DEF p, h
  <2> QED
    BY <1>1, <1>2, SMT
<1>4. a < q
  <2> HIDE DEF p, q, h, a
  <2>1. ASSUME a >= q PROVE FALSE
    <3>1. p * a >= p * q
      BY <1>1, <1>3, <2>1, SMT
    <3>2. p * a \in Int /\ p * q \in Int
      BY <1>1, <1>3
    <3> QED
      BY <1>2, <1>3, <3>1, <3>2
  <2> QED
    BY <1>1, <1>3, <2>1
<1>5. a \in 0..(q - 1)
  <2> HIDE DEF a, q
  <2> QED
    BY <1>1, <1>3, <1>4
<1> QED
  BY <1>5 DEF Home, Capacity

\* The window of a key lies in the table, and is not empty.
LEMMA WindowPlaces ==
  ASSUME NEW T, NEW k \in Keys, T.log2_capacity \in 0..(Width - 1)
  PROVE  /\ Window(T, k) \subseteq Places(T.log2_capacity)
         /\ Home(T, k) \in Window(T, k)
<1> DEFINE c == Capacity(T.log2_capacity)
<1>1. c \in Nat \ {0}
  <2>1. T.log2_capacity \in 0..Width
    BY WidthAssumption
  <2> QED
    BY <2>1, PowersAssumption DEF Capacity
<1>2. Home(T, k) \in 0..(c - 1)
  BY HomePlace
<1> HIDE DEF c
<1>3. Home(T, k)..(Home(T, k) + Probe - 1) \subseteq 0..(c + Probe - 1)
  BY <1>1, <1>2, ProbeAssumption
<1>4. Home(T, k) \in Home(T, k)..(Home(T, k) + Probe - 1)
  BY <1>1, <1>2, ProbeAssumption
<1> QED
  BY <1>3, <1>4 DEF Window, Places, c

\* A table has finitely many places, all of them numbers.
LEMMA PlacesFinite ==
  ASSUME NEW n \in 0..(Width - 1)
  PROVE  Places(n) \subseteq Nat /\ IsFiniteSet(Places(n)) /\ Capacity(n) \in Nat \ {0}
<1>1. n \in 0..Width
  BY WidthAssumption
<1>2. Capacity(n) \in Nat \ {0}
  BY <1>1, PowersAssumption DEF Capacity
<1>3. Capacity(n) + Probe - 1 \in Int
  BY <1>2, ProbeAssumption
<1>4. IsFiniteSet(0..(Capacity(n) + Probe - 1))
  BY <1>3, FS_Interval
<1> QED
  BY <1>2, <1>3, <1>4 DEF Places

----------------------------------------------------------------------------
(* Tables *)

AllSlots == UNION { [Places(n) -> Elements \cup {Free}] : n \in 0..(Width - 1) }
AllTables == [log2_capacity : 0..(Width - 1), size : Nat, slot : AllSlots]

\* What TypeOK, SizeExact, InWindow and NoDuplicates say of one table.
GoodTable(T) ==
  /\ T \in AllTables
  /\ T.log2_capacity \in 0..(Width - 1)
  /\ T.slot \in [Places(T.log2_capacity) -> Elements \cup {Free}]
  /\ T.size = Cardinality(Used(T))
  /\ \A i \in Used(T) : i \in Window(T, T.slot[i].key)
  /\ \A i, j \in Used(T) : T.slot[i].key = T.slot[j].key => i = j

\* A free slot is no element.
LEMMA FreeIsNone == Free \notin Elements
BY NullAssumption DEF Free, Elements

\* The fields of a table that is put together.
LEMMA TableFields ==
  ASSUME NEW n \in 0..(Width - 1), NEW m \in Nat, NEW s \in [Places(n) -> Elements \cup {Free}]
  PROVE  /\ Table(n, m, s) \in AllTables
         /\ Table(n, m, s).log2_capacity = n
         /\ Table(n, m, s).size = m
         /\ Table(n, m, s).slot = s
<1>1. s \in AllSlots
  BY DEF AllSlots
<1> QED
  BY <1>1 DEF Table, AllTables

\* The slots in use are finitely many numbers and hold elements.
LEMMA UsedFinite ==
  ASSUME NEW T, GoodTable(T)
  PROVE  /\ IsFiniteSet(Used(T)) /\ Used(T) \subseteq Nat
         /\ \A i \in Used(T) : i \in Places(T.log2_capacity) /\ T.slot[i] \in Elements
         /\ \A i \in Places(T.log2_capacity) \ Used(T) : T.slot[i] = Free
         /\ T.size \in Nat
<1>1. Used(T) \subseteq Places(T.log2_capacity)
  BY DEF Used, GoodTable
<1>2. Places(T.log2_capacity) \subseteq Nat /\ IsFiniteSet(Places(T.log2_capacity))
  BY PlacesFinite DEF GoodTable
<1>3. IsFiniteSet(Used(T))
  BY <1>1, <1>2, FS_Subset
<1>4. \A i \in Used(T) : T.slot[i] \in Elements
  BY <1>1 DEF Used, GoodTable
<1>5. \A i \in Places(T.log2_capacity) \ Used(T) : T.slot[i] = Free
  BY DEF Used, GoodTable
<1>6. T.size \in Nat
  BY <1>3, FS_CardinalityType DEF GoodTable
<1> QED
  BY <1>1, <1>2, <1>3, <1>4, <1>5, <1>6

\* A new table is well formed and empty.
LEMMA EmptyGood ==
  ASSUME NEW n \in 0..(Width - 1)
  PROVE  /\ GoodTable(EmptyTable(n)) /\ Used(EmptyTable(n)) = {}
         /\ EmptyTable(n).log2_capacity = n
<1> DEFINE s == [i \in Places(n) |-> Free]
           T == EmptyTable(n)
<1>1. s \in [Places(n) -> Elements \cup {Free}]
  OBVIOUS
<1>2. T \in AllTables /\ T.log2_capacity = n /\ T.size = 0 /\ T.slot = s
  BY <1>1, TableFields DEF EmptyTable
<1>3. Used(T) = {}
  BY <1>2 DEF Used
<1>4. Cardinality({}) = 0
  BY FS_EmptySet
<1> HIDE DEF s, T
<1>5. GoodTable(T)
  BY <1>1, <1>2, <1>3, <1>4 DEF GoodTable
<1> QED
  BY <1>2, <1>3, <1>5 DEF T

\* The slot that the probe returns is in the window of the key, and either free
\* while the key is nowhere in the table, or the one that holds it.
LEMMA SlotsRight ==
  ASSUME NEW T, GoodTable(T), NEW k \in Keys, NEW i \in Slots(T, k)
  PROVE  /\ i \in Window(T, k) /\ i \in Places(T.log2_capacity)
         /\ \/ i \in Used(T) /\ T.slot[i].key = k
            \/ i \notin Used(T) /\ \A j \in Used(T) : T.slot[j].key # k
<1>1. Window(T, k) \subseteq Places(T.log2_capacity) /\ Places(T.log2_capacity) \subseteq Nat
  BY WindowPlaces, PlacesFinite DEF GoodTable
<1>2. CASE Holding(T, k) # {}
  <2>1. i = Min(Holding(T, k))
    BY <1>2 DEF Slots
  <2>2. Holding(T, k) \in SUBSET Nat
    BY <1>1 DEF Holding
  <2>3. i \in Holding(T, k)
    BY <1>2, <2>1, <2>2, MinLeast
  <2> QED
    BY <1>1, <2>3 DEF Holding
<1>3. CASE Holding(T, k) = {}
  <2> DEFINE free == Window(T, k) \ Used(T)
  <2>1. free # {} /\ i = Min(free)
    BY <1>3 DEF Slots
  <2>2. free \in SUBSET Nat
    BY <1>1
  <2>3. i \in free
    BY <2>1, <2>2, MinLeast
  <2>4. \A j \in Used(T) : T.slot[j].key # k
    BY <1>3 DEF GoodTable, Holding
  <2> QED
    BY <1>1, <2>3, <2>4
<1> QED
  BY <1>2, <1>3

\* Where the probe finds no slot for a key, there is an element to move first.
LEMMA NoSlotUsed ==
  ASSUME NEW T, GoodTable(T), NEW k \in Keys, Slots(T, k) = {}
  PROVE  Used(T) # {} /\ Min(Used(T)) \in Used(T)
<1>1. Used(T) # {}
  <2>1. CASE T.size = Capacity(T.log2_capacity)
    <3>1. T.size # 0
      BY <2>1, PlacesFinite DEF GoodTable
    <3> QED
      BY <3>1, FS_EmptySet DEF GoodTable
  <2>2. CASE T.size # Capacity(T.log2_capacity)
    <3>1. Window(T, k) \ Used(T) = {}
      BY <2>2 DEF Slots
    <3>2. Home(T, k) \in Window(T, k)
      BY WindowPlaces DEF GoodTable
    <3> QED
      BY <3>1, <3>2
  <2> QED
    BY <2>1, <2>2
<1> QED
  BY <1>1, UsedFinite, MinLeast

\* Storing an element where the probe found its slot.
LEMMA StoreGood ==
  ASSUME NEW T, GoodTable(T), NEW e \in Elements, NEW i \in Slots(T, e.key)
  PROVE  /\ GoodTable(Store(T, i, e))
         /\ Store(T, i, e).log2_capacity = T.log2_capacity
         /\ Used(Store(T, i, e)) = Used(T) \cup {i}
         /\ Store(T, i, e).slot[i] = e
         /\ \A j \in Used(T) \ {i} : Store(T, i, e).slot[j] = T.slot[j]
<1> DEFINE n == T.log2_capacity
           s == [T.slot EXCEPT ![i] = e]
           m == IF T.slot[i] = Free THEN T.size + 1 ELSE T.size
           U == Store(T, i, e)
<1>1. e.key \in Keys /\ e \in Elements \cup {Free} /\ e # Free
  BY FreeIsNone DEF Elements
<1>2. /\ i \in Window(T, e.key) /\ i \in Places(n)
      /\ \/ i \in Used(T) /\ T.slot[i].key = e.key
         \/ i \notin Used(T) /\ \A j \in Used(T) : T.slot[j].key # e.key
  BY <1>1, SlotsRight
<1>3. n \in 0..(Width - 1) /\ T.slot \in [Places(n) -> Elements \cup {Free}]
  BY DEF GoodTable
<1>4. /\ s \in [Places(n) -> Elements \cup {Free}]
      /\ s[i] = e /\ \A j \in Places(n) \ {i} : s[j] = T.slot[j]
  BY <1>1, <1>2, <1>3
<1>5. m \in Nat /\ m = Cardinality(Used(T) \cup {i}) /\ IsFiniteSet(Used(T))
  <2>1. IsFiniteSet(Used(T)) /\ T.size \in Nat /\ T.size = Cardinality(Used(T))
    BY UsedFinite DEF GoodTable
  <2>2. T.slot[i] = Free <=> i \notin Used(T)
    BY <1>2, <1>3 DEF Used
  <2>3. Cardinality(Used(T) \cup {i}) = IF i \in Used(T) THEN T.size ELSE T.size + 1
    BY <2>1, FS_AddElement
  <2> QED
    BY <2>1, <2>2, <2>3
<1>6. U \in AllTables /\ U.log2_capacity = n /\ U.size = m /\ U.slot = s
  BY <1>3, <1>4, <1>5, TableFields DEF Store
<1>7. Used(U) = Used(T) \cup {i}
  BY <1>1, <1>2, <1>3, <1>4, <1>6 DEF Used
<1>8. \A k : Window(U, k) = Window(T, k)
  BY <1>6 DEF Window, Home
<1>9. \A j \in Used(U) : j \in Window(U, U.slot[j].key)
  BY <1>2, <1>3, <1>4, <1>6, <1>7, <1>8 DEF GoodTable, Used
<1>10. \A j \in Used(T) \ {i} : U.slot[j] = T.slot[j]
  BY <1>3, <1>4, <1>6 DEF Used
<1>11. \A j, l \in Used(U) : U.slot[j].key = U.slot[l].key => j = l
  <2>1. \A j \in Used(T) \ {i} : T.slot[j].key # e.key
    BY <1>2 DEF GoodTable
  <2>2. U.slot[i] = e
    BY <1>4, <1>6
  <2> QED
    BY <1>7, <1>10, <2>1, <2>2 DEF GoodTable
<1> HIDE DEF U, s, m
<1>12. GoodTable(U)
  BY <1>3, <1>4, <1>5, <1>6, <1>7, <1>9, <1>11 DEF GoodTable
<1> QED
  BY <1>4, <1>6, <1>7, <1>10, <1>12 DEF U

\* Clearing a slot.
LEMMA ClearGood ==
  ASSUME NEW T, GoodTable(T), NEW i \in Used(T)
  PROVE  /\ GoodTable(Clear(T, i))
         /\ Clear(T, i).log2_capacity = T.log2_capacity
         /\ Used(Clear(T, i)) = Used(T) \ {i}
         /\ \A j \in Used(T) \ {i} : Clear(T, i).slot[j] = T.slot[j]
<1> DEFINE n == T.log2_capacity
           s == [T.slot EXCEPT ![i] = Free]
           m == T.size - 1
           U == Clear(T, i)
<1>1. /\ n \in 0..(Width - 1) /\ T.slot \in [Places(n) -> Elements \cup {Free}]
      /\ i \in Places(n)
  BY DEF GoodTable, Used
<1>2. /\ s \in [Places(n) -> Elements \cup {Free}]
      /\ s[i] = Free /\ \A j \in Places(n) \ {i} : s[j] = T.slot[j]
  BY <1>1
<1>3. m \in Nat /\ m = Cardinality(Used(T) \ {i})
  <2>1. IsFiniteSet(Used(T)) /\ T.size \in Nat /\ T.size = Cardinality(Used(T))
    BY UsedFinite DEF GoodTable
  <2>2. Cardinality(Used(T) \ {i}) = T.size - 1
    BY <2>1, FS_RemoveElement
  <2>3. Cardinality(Used(T) \ {i}) \in Nat
    BY <2>1, FS_RemoveElement, FS_CardinalityType
  <2> QED
    BY <2>2, <2>3
<1>4. U \in AllTables /\ U.log2_capacity = n /\ U.size = m /\ U.slot = s
  BY <1>1, <1>2, <1>3, TableFields DEF Clear
<1>5. Used(U) = Used(T) \ {i}
  BY <1>1, <1>2, <1>4 DEF Used
<1>6. \A j \in Used(T) \ {i} : U.slot[j] = T.slot[j]
  BY <1>1, <1>2, <1>4 DEF Used
<1>7. \A k : Window(U, k) = Window(T, k)
  BY <1>4 DEF Window, Home
<1>8. \A j \in Used(U) : j \in Window(U, U.slot[j].key)
  BY <1>5, <1>6, <1>7 DEF GoodTable
<1>9. \A j, l \in Used(U) : U.slot[j].key = U.slot[l].key => j = l
  BY <1>5, <1>6 DEF GoodTable
<1> HIDE DEF U, s, m
<1>10. GoodTable(U)
  BY <1>1, <1>2, <1>3, <1>4, <1>5, <1>8, <1>9 DEF GoodTable
<1> QED
  BY <1>4, <1>5, <1>6, <1>10 DEF U

----------------------------------------------------------------------------
(* The capacity of a new map *)

\* Powers of two grow.
LEMMA PowersGrow ==
  ASSUME NEW m \in 0..Width, NEW n \in 0..Width, m <= n
  PROVE  /\ 2^m \in Nat \ {0} /\ 2^n \in Nat \ {0} /\ 2^m <= 2^n
         /\ m < n => 2^m < 2^n
<1> DEFINE d == n - m
           p == 2^m
           q == 2^d
<1>1. d \in 0..Width /\ m + d = n
  BY WidthAssumption
<1>2. 2^n = p * q /\ p \in Nat \ {0} /\ q \in Nat \ {0} /\ 2^n \in Nat \ {0}
  <2>1. 2^(m + d) = 2^m * 2^d
    BY <1>1, PowersAssumption
  <2> QED
    BY <1>1, <2>1, PowersAssumption
<1>3. p * q >= p
  <2> HIDE DEF p, q
  <2> QED
    BY <1>2, SMT
<1>4. m < n => q >= 2
  <2> SUFFICES ASSUME m < n PROVE q >= 2
    OBVIOUS
  <2>1. 1 \in 0..Width /\ d - 1 \in 0..Width /\ 1 + (d - 1) = d
    BY <1>1, WidthAssumption
  <2>2. 2^(1 + (d - 1)) = 2^1 * 2^(d - 1) /\ 2^(d - 1) \in Nat \ {0}
    BY <2>1, PowersAssumption
  <2>3. 2^1 = 2
    BY SMT
  <2>4. q = 2 * 2^(d - 1)
    BY <2>1, <2>2, <2>3
  <2> DEFINE h == 2^(d - 1)
  <2> HIDE DEF h, q
  <2>5. h \in Nat \ {0} /\ q = 2 * h
    BY <2>2, <2>4 DEF h
  <2> QED
    BY <2>5
<1>5. m < n => p * q >= 2 * p
  <2> HIDE DEF p, q
  <2> QED
    BY <1>2, <1>4, SMT
<1>6. 2^n = p * q /\ p * q \in Nat
  BY <1>2
<1> DEFINE r == p * q
<1>7. r \in Nat /\ r >= p /\ (m < n => r >= 2 * p)
  BY <1>3, <1>5, <1>6
<1> HIDE DEF r, p, q
<1>8. p <= r /\ (m < n => p < r)
  BY <1>2, <1>7
<1> QED
  BY <1>2, <1>6, <1>8 DEF p, r

\* hashmap_clz counts the zeros in front of a number that has Width bits.
LEMMA ClzRight ==
  ASSUME NEW x \in Nat, x >= 1, x < 2^Width
  PROVE  Clz(x) \in 0..(Width - 1) /\ 2^(Width - 1 - Clz(x)) <= x /\ x < 2^(Width - Clz(x))
<1> DEFINE S == {m \in 0..Width : x < 2^m}
           m == Min(S)
<1>1. S \in SUBSET Nat /\ S # {}
  BY WidthAssumption
<1>2. m \in S /\ \A l \in S : m <= l
  BY <1>1, MinLeast
<1> HIDE DEF m
<1>3. m \in 0..Width /\ x < 2^m
  BY <1>2
<1>4. m # 0
  <2>1. 2^0 = 1
    BY SMT
  <2>2. ASSUME m = 0 PROVE FALSE
    <3>1. 2^m = 2^0
      BY <2>2
    <3>2. x < 1
      BY <1>3, <2>1, <3>1
    <3> QED
      BY <3>2
  <2> QED
    BY <2>2
<1>5. m - 1 \in 0..Width /\ m - 1 \notin S
  BY <1>2, <1>3, <1>4, WidthAssumption
<1>6. 2^(m - 1) <= x
  <2>1. ~(x < 2^(m - 1))
    BY <1>5
  <2>2. 2^(m - 1) \in Nat
    BY <1>5, PowersAssumption
  <2> QED
    BY <2>1, <2>2
<1> DEFINE n == Width - m
<1>7. n \in 0..(Width - 1) /\ Width - 1 - n = m - 1 /\ Width - n = m
  BY <1>3, <1>4, WidthAssumption
<1>8. 2^(Width - 1 - n) <= x /\ x < 2^(Width - n)
  BY <1>3, <1>6, <1>7
<1> QED
  BY <1>7, <1>8 DEF Clz

\* A map is created well formed, whatever capacity is asked for.
LEMMA CreatedGood ==
  ASSUME NEW c \in Capacities
  PROVE  GoodTable(Created(c)) /\ Used(Created(c)) = {}
<1>1. /\ Width \in 0..Width /\ Width - 1 \in 0..Width /\ 2 \in 0..Width
      /\ 2^Width \in Nat /\ 2^(Width - 1) \in Nat /\ 2^(Width - 1) < 2^Width /\ 2^2 <= 2^Width
  <2>1. Width \in 0..Width /\ Width - 1 \in 0..Width /\ 2 \in 0..Width /\ 2 <= Width /\ Width - 1 < Width
    BY WidthAssumption
  <2>2. 2^(Width - 1) < 2^Width
    BY <2>1, PowersGrow
  <2>3. 2^2 <= 2^Width
    BY <2>1, PowersGrow
  <2> QED
    BY <2>1, <2>2, <2>3, PowersAssumption
<1>2. c \in Nat /\ c <= 2^(Width - 1)
  BY <1>1, CapacitiesAssumption
<1>3. Rounded(c) \in Nat /\ Rounded(c) >= 1 /\ Rounded(c) < 2^Width
  <2>1. CASE c < 2
    <3>1. Rounded(c) = 2
      BY <1>2, <2>1 DEF Rounded
    <3>2. 2^2 = 4
      BY SMT
    <3>3. 4 <= 2^Width
      BY <1>1, <3>2
    <3> QED
      BY <1>1, <3>1, <3>3
  <2>2. CASE c >= 2 /\ IsPower(c)
    <3>1. Rounded(c) = c
      BY <1>2, <2>2 DEF Rounded
    <3> QED
      BY <1>1, <1>2, <2>2, <3>1
  <2>3. CASE c >= 2 /\ ~IsPower(c)
    <3> DEFINE z == Clz(c)
    <3>1. z \in 0..(Width - 1) /\ 2^(Width - 1 - z) <= c
      BY <1>1, <1>2, <2>3, ClzRight
    <3>2. z # 0
      <4>1. ASSUME z = 0 PROVE FALSE
        <5>1. Width - 1 - z = Width - 1
          BY <4>1, WidthAssumption
        <5>2. 2^(Width - 1 - z) = c
          BY <1>1, <1>2, <3>1, <5>1
        <5> QED
          BY <2>3, <5>2 DEF IsPower
      <4> QED
        BY <4>1
    <3>3. Rounded(c) = 2^(Width - z)
      BY <1>2, <2>3 DEF Rounded
    <3> HIDE DEF z
    <3>4. Width - z \in 0..Width /\ Width - z < Width
      BY <3>1, <3>2, WidthAssumption
    <3>5. 2^(Width - z) \in Nat \ {0} /\ 2^(Width - z) < 2^Width
      BY <1>1, <3>4, PowersGrow
    <3> QED
      BY <3>3, <3>5
  <2> QED
    BY <1>2, <2>1, <2>2, <2>3
<1>4. Width - 1 - Clz(Rounded(c)) \in 0..(Width - 1)
  <2>1. Clz(Rounded(c)) \in 0..(Width - 1)
    BY <1>3, ClzRight
  <2> QED
    BY <2>1, WidthAssumption
<1> QED
  BY <1>4, EmptyGood DEF Created

----------------------------------------------------------------------------
(* The stack *)

AllLevels == [table : AllTables, entry : Elements \cup {Free}, moving : Int]

\* No key is in both tables.
Apart(T, U) == \A i \in Used(T), j \in Used(U) : T.slot[i].key # U.slot[j].key

\* An element that is being moved is still in its old table while the level
\* above looks for its slot, and no key is in two tables.
GoodStack(s) ==
  /\ s \in Seq(AllLevels) /\ Len(s) >= 1
  /\ \A n \in 1..Len(s) : GoodTable(s[n].table) /\ s[n].table.log2_capacity >= n - 1
  /\ \A n \in 1..(Len(s) - 1) :
       s[n].moving \in Used(s[n].table) /\ s[n + 1].entry = s[n].table.slot[s[n].moving]
  /\ s[Len(s)].moving = -1
  /\ \A m, n \in 1..Len(s) : m # n => Apart(s[m].table, s[n].table)

\* The fields of a level.
LEMMA LevelFields ==
  ASSUME NEW T, GoodTable(T), NEW e \in Elements \cup {Free}, NEW i \in Int
  PROVE  /\ Moving(T, e, i) \in AllLevels
         /\ Moving(T, e, i).table = T /\ Moving(T, e, i).entry = e /\ Moving(T, e, i).moving = i
<1>1. T \in AllTables
  BY DEF GoodTable
<1> QED
  BY <1>1 DEF Moving, AllLevels

\* A map at rest is a stack of one level.
LEMMA OneLevel ==
  ASSUME NEW T, GoodTable(T), NEW e \in Elements \cup {Free}
  PROVE  /\ GoodStack(<<Level(T, e)>>)
         /\ Len(<<Level(T, e)>>) = 1 /\ <<Level(T, e)>>[1].entry = e
<1> DEFINE L == Level(T, e)
<1>1. L \in AllLevels /\ L.table = T /\ L.entry = e /\ L.moving = -1
  BY LevelFields DEF Level
<1>2. T.log2_capacity >= 0
  BY DEF GoodTable
<1> HIDE DEF L
<1>3. <<L>> \in Seq(AllLevels) /\ Len(<<L>>) = 1 /\ <<L>>[1] = L
  BY <1>1
<1>4. GoodStack(<<L>>)
  BY <1>1, <1>2, <1>3 DEF GoodStack
<1> QED
  BY <1>1, <1>3, <1>4 DEF L

\* Levels that fit on the first m of a stack.
Fits(s, m, new) ==
  /\ new \in Seq(AllLevels) /\ Len(new) >= 1
  /\ \A n \in 1..Len(new) : GoodTable(new[n].table) /\ new[n].table.log2_capacity >= m + n - 1
  /\ \A n \in 1..(Len(new) - 1) :
       new[n].moving \in Used(new[n].table) /\ new[n + 1].entry = new[n].table.slot[new[n].moving]
  /\ new[Len(new)].moving = -1
  /\ \A k, n \in 1..Len(new) : k # n => Apart(new[k].table, new[n].table)
  /\ \A k \in 1..m, n \in 1..Len(new) : Apart(s[k].table, new[n].table)
  /\ m >= 1 => new[1].entry = s[m].table.slot[s[m].moving]

Replaced(s, m, new) == SubSeq(s, 1, m) \o new

\* Replacing the levels above the first m by others that fit.
LEMMA StackReplaced ==
  ASSUME NEW s, GoodStack(s), NEW m \in 0..(Len(s) - 1), NEW new, Fits(s, m, new)
  PROVE  /\ GoodStack(Replaced(s, m, new))
         /\ m >= 1 => Replaced(s, m, new)[1].entry = s[1].entry
         /\ m = 0 => Replaced(s, m, new)[1].entry = new[1].entry
<1> DEFINE low == SubSeq(s, 1, m)
           t == low \o new
<1>0. /\ new \in Seq(AllLevels) /\ Len(new) >= 1
      /\ \A n \in 1..Len(new) : GoodTable(new[n].table) /\ new[n].table.log2_capacity >= m + n - 1
      /\ \A n \in 1..(Len(new) - 1) :
           new[n].moving \in Used(new[n].table) /\ new[n + 1].entry = new[n].table.slot[new[n].moving]
      /\ new[Len(new)].moving = -1
      /\ \A k, n \in 1..Len(new) : k # n => Apart(new[k].table, new[n].table)
      /\ \A k \in 1..m, n \in 1..Len(new) : Apart(s[k].table, new[n].table)
      /\ m >= 1 => new[1].entry = s[m].table.slot[s[m].moving]
  BY DEF Fits
<1>1. s \in Seq(AllLevels) /\ Len(s) \in Nat /\ m \in 0..Len(s) /\ \A k \in 1..m : s[k] \in AllLevels
  BY DEF GoodStack
<1>2. low \in Seq(AllLevels) /\ Len(low) = m /\ \A k \in 1..m : low[k] = s[k]
  <2>1. /\ low \in Seq(AllLevels)
        /\ Len(low) = IF 1 <= m THEN m - 1 + 1 ELSE 0
        /\ \A k \in 1..(m - 1 + 1) : low[k] = s[1 + k - 1]
    BY <1>1, SubSeqProperties
  <2> HIDE DEF low
  <2>2. Len(low) = m
    BY <1>1, <2>1
  <2>3. \A k \in 1..m : low[k] = s[k]
    <3> TAKE k \in 1..m
    <3>1. k \in 1..(m - 1 + 1) /\ 1 + k - 1 = k
      BY <1>1
    <3> QED
      BY <2>1, <3>1
  <2> QED
    BY <2>1, <2>2, <2>3
<1> HIDE DEF low
<1>3. /\ t \in Seq(AllLevels) /\ Len(t) = m + Len(new) /\ Len(new) \in Nat
      /\ \A k \in 1..(m + Len(new)) : t[k] = IF k <= m THEN low[k] ELSE new[k - m]
  <2>1. /\ low \o new \in Seq(AllLevels)
        /\ Len(low \o new) = Len(low) + Len(new)
        /\ \A k \in 1..Len(low) + Len(new) :
              (low \o new)[k] = IF k <= Len(low) THEN low[k] ELSE new[k - Len(low)]
    BY <1>0, <1>2, ConcatProperties, Zenon
  <2>2. Len(new) \in Nat
    BY <1>0
  <2> HIDE DEF t
  <2> QED
    BY <1>2, <2>1, <2>2, Zenon DEF t
<1> HIDE DEF t
<1>4. \A k \in 1..m : t[k] = s[k]
  BY <1>1, <1>2, <1>3
<1>5. \A k \in 1..Len(new) : t[m + k] = new[k]
  BY <1>1, <1>3
<1>6. \A k \in 1..Len(t) : k <= m \/ (k - m \in 1..Len(new) /\ k = m + (k - m))
  BY <1>1, <1>3
<1>7. \A k \in 1..Len(t) : GoodTable(t[k].table) /\ t[k].table.log2_capacity >= k - 1
  <2> TAKE k \in 1..Len(t)
  <2>1. CASE k <= m
    <3>1. k \in 1..m /\ k \in 1..Len(s)
      BY <1>1, <1>3, <2>1
    <3> QED
      BY <1>4, <3>1 DEF GoodStack
  <2>2. CASE k > m
    <3>1. k - m \in 1..Len(new) /\ t[k] = new[k - m] /\ m + (k - m) = k
      BY <1>1, <1>3, <2>2
    <3> QED
      BY <1>0, <3>1
  <2> QED
    BY <1>1, <1>3, <2>1, <2>2
<1>8. \A k \in 1..(Len(t) - 1) :
        t[k].moving \in Used(t[k].table) /\ t[k + 1].entry = t[k].table.slot[t[k].moving]
  <2> TAKE k \in 1..(Len(t) - 1)
  <2>1. CASE k < m
    <3>1. k \in 1..m /\ k + 1 \in 1..m /\ k \in 1..(Len(s) - 1)
      BY <1>1, <1>3, <2>1
    <3> QED
      BY <1>4, <3>1 DEF GoodStack
  <2>2. CASE k = m
    <3>1. m >= 1 /\ m \in 1..m /\ m \in 1..(Len(s) - 1) /\ 1 \in 1..Len(new)
      BY <1>0, <1>1, <1>3, <2>2
    <3>2. t[m] = s[m] /\ t[m + 1] = new[1]
      BY <1>4, <1>5, <3>1
    <3>3. new[1].entry = s[m].table.slot[s[m].moving]
      BY <1>0, <3>1
    <3>4. s[m].moving \in Used(s[m].table)
      BY <3>1 DEF GoodStack
    <3>5. t[m].moving \in Used(t[m].table) /\ t[m + 1].entry = t[m].table.slot[t[m].moving]
      BY <3>2, <3>3, <3>4
    <3> QED
      BY <2>2, <3>5
  <2>3. CASE k > m
    <3>1. /\ k - m \in 1..(Len(new) - 1)
          /\ t[k] = new[k - m] /\ t[k + 1] = new[(k - m) + 1]
      BY <1>1, <1>3, <2>3
    <3> QED
      BY <1>0, <3>1
  <2> QED
    BY <1>1, <1>3, <2>1, <2>2, <2>3
<1>9. t[Len(t)].moving = -1
  <2>1. Len(new) \in 1..Len(new) /\ Len(t) = m + Len(new)
    BY <1>0, <1>3
  <2> QED
    BY <1>0, <1>5, <2>1
<1>10. \A k, l \in 1..Len(t) : k # l => Apart(t[k].table, t[l].table)
  <2> SUFFICES ASSUME NEW k \in 1..Len(t), NEW l \in 1..Len(t), k # l
               PROVE  Apart(t[k].table, t[l].table)
    OBVIOUS
  <2>1. CASE k <= m /\ l <= m
    <3>1. k \in 1..m /\ l \in 1..m /\ k \in 1..Len(s) /\ l \in 1..Len(s)
      BY <1>1, <1>3, <2>1
    <3> QED
      BY <1>4, <3>1 DEF GoodStack
  <2>2. CASE k <= m /\ l > m
    <3>1. k \in 1..m /\ l - m \in 1..Len(new) /\ t[k] = s[k] /\ t[l] = new[l - m]
      BY <1>1, <1>3, <1>4, <2>2
    <3> QED
      BY <1>0, <3>1
  <2>3. CASE k > m /\ l <= m
    <3>1. l \in 1..m /\ k - m \in 1..Len(new) /\ t[l] = s[l] /\ t[k] = new[k - m]
      BY <1>1, <1>3, <1>4, <2>3
    <3>2. Apart(t[l].table, t[k].table)
      BY <1>0, <3>1
    <3> QED
      BY <3>2 DEF Apart
  <2>4. CASE k > m /\ l > m
    <3>1. /\ k - m \in 1..Len(new) /\ l - m \in 1..Len(new) /\ k - m # l - m
          /\ t[k] = new[k - m] /\ t[l] = new[l - m]
      BY <1>1, <1>3, <2>4
    <3> QED
      BY <1>0, <3>1
  <2> QED
    BY <1>1, <1>3, <2>1, <2>2, <2>3, <2>4
<1>11. Len(t) >= 1
  BY <1>0, <1>1, <1>3
<1>12. t[1].entry = IF m >= 1 THEN s[1].entry ELSE new[1].entry
  <2>1. CASE m >= 1
    BY <1>1, <1>4, <2>1
  <2>2. CASE m = 0
    <3>1. 1 \in 1..Len(new) /\ m + 1 = 1 /\ ~(m >= 1)
      BY <1>0, <1>3, <2>2
    <3>2. t[m + 1] = new[1]
      BY <1>5, <3>1
    <3> QED
      BY <3>1, <3>2
  <2>3. m >= 1 \/ m = 0
    BY <1>1
  <2> QED
    BY <2>1, <2>2, <2>3
<1>13. GoodStack(t)
  BY <1>3, <1>7, <1>8, <1>9, <1>10, <1>11 DEF GoodStack
<1>14. Replaced(s, m, new) = t
  BY DEF t, low, Replaced
<1>15. /\ m >= 1 => t[1].entry = s[1].entry
       /\ m = 0 => t[1].entry = new[1].entry
  BY <1>1, <1>12
<1> QED
  BY <1>13, <1>14, <1>15

\* Two levels that fit: the lower moves an element to the higher.
LEMMA TwoFit ==
  ASSUME NEW s, GoodStack(s), NEW m \in 0..(Len(s) - 1),
         NEW L \in AllLevels, NEW N \in AllLevels,
         GoodTable(L.table), L.table.log2_capacity >= m, L.moving \in Used(L.table),
         GoodTable(N.table), N.table.log2_capacity >= m + 1, N.moving = -1,
         N.entry = L.table.slot[L.moving],
         Apart(L.table, N.table),
         \A k \in 1..m : Apart(s[k].table, L.table) /\ Apart(s[k].table, N.table),
         m >= 1 => L.entry = s[m].table.slot[s[m].moving],
         m = 0 => L.entry = s[1].entry
  PROVE  /\ GoodStack(SubSeq(s, 1, m) \o <<L, N>>)
         /\ (SubSeq(s, 1, m) \o <<L, N>>)[1].entry = s[1].entry
<1> DEFINE new == <<L, N>>
<1>1. new \in Seq(AllLevels) /\ Len(new) = 2 /\ new[1] = L /\ new[2] = N
  OBVIOUS
<1>2. m \in Nat
  BY DEF GoodStack
<1> HIDE DEF new
<1>3. \A k \in 1..Len(new) : k = 1 \/ k = 2
  BY <1>1
<1>4. \A k \in 1..Len(new) : GoodTable(new[k].table) /\ new[k].table.log2_capacity >= m + k - 1
  <2>1. GoodTable(L.table) /\ L.table.log2_capacity >= m + 1 - 1
    BY <1>2
  <2>2. GoodTable(N.table) /\ N.table.log2_capacity >= m + 2 - 1
    BY <1>2
  <2> QED
    BY <1>1, <1>3, <2>1, <2>2
<1>5. \A k \in 1..(Len(new) - 1) :
        new[k].moving \in Used(new[k].table) /\ new[k + 1].entry = new[k].table.slot[new[k].moving]
  <2>1. \A k \in 1..(Len(new) - 1) : k = 1 /\ k + 1 = 2
    BY <1>1
  <2> QED
    BY <1>1, <2>1
<1>6. \A k, l \in 1..Len(new) : k # l => Apart(new[k].table, new[l].table)
  <2>1. Apart(N.table, L.table)
    BY DEF Apart
  <2> QED
    BY <1>1, <1>3, <2>1
<1>7. \A k \in 1..m, l \in 1..Len(new) : Apart(s[k].table, new[l].table)
  BY <1>1, <1>3
<1>8. Fits(s, m, new)
  <2>1. new[Len(new)].moving = -1 /\ Len(new) >= 1
    BY <1>1
  <2>2. m >= 1 => new[1].entry = s[m].table.slot[s[m].moving]
    BY <1>1
  <2> QED
    BY <1>1, <1>4, <1>5, <1>6, <1>7, <2>1, <2>2 DEF Fits
<1>9. /\ GoodStack(Replaced(s, m, new))
      /\ m >= 1 => Replaced(s, m, new)[1].entry = s[1].entry
      /\ m = 0 => Replaced(s, m, new)[1].entry = new[1].entry
  BY <1>8, StackReplaced
<1>10. m >= 1 \/ m = 0
  BY <1>2
<1>11. Replaced(s, m, new)[1].entry = s[1].entry
  BY <1>1, <1>9, <1>10
<1> QED
  BY <1>9, <1>11 DEF new, Replaced

\* One level that fits: the last of a stack that has lost the levels above.
LEMMA OneFits ==
  ASSUME NEW s, GoodStack(s), NEW m \in 0..(Len(s) - 1), NEW N \in AllLevels,
         GoodTable(N.table), N.table.log2_capacity >= m, N.moving = -1,
         \A k \in 1..m : Apart(s[k].table, N.table),
         m >= 1 => N.entry = s[m].table.slot[s[m].moving],
         m = 0 => N.entry = s[1].entry
  PROVE  /\ GoodStack(SubSeq(s, 1, m) \o <<N>>)
         /\ (SubSeq(s, 1, m) \o <<N>>)[1].entry = s[1].entry
<1> DEFINE new == <<N>>
<1>1. new \in Seq(AllLevels) /\ Len(new) = 1 /\ new[1] = N
  OBVIOUS
<1>2. m \in Nat
  BY DEF GoodStack
<1> HIDE DEF new
<1>3. \A k \in 1..Len(new) : k = 1
  BY <1>1
<1>4. N.table.log2_capacity >= m + 1 - 1
  BY <1>2
<1>5. \A k \in 1..Len(new) : GoodTable(new[k].table) /\ new[k].table.log2_capacity >= m + k - 1
  BY <1>1, <1>3, <1>4
<1>6. \A k \in 1..(Len(new) - 1) : FALSE
  BY <1>1
<1>7. Fits(s, m, new)
  <2>1. new[Len(new)].moving = -1 /\ Len(new) >= 1
    BY <1>1
  <2>2. m >= 1 => new[1].entry = s[m].table.slot[s[m].moving]
    BY <1>1
  <2>3. \A k \in 1..m, l \in 1..Len(new) : Apart(s[k].table, new[l].table)
    BY <1>1, <1>3
  <2>4. \A k, l \in 1..Len(new) : k # l => Apart(new[k].table, new[l].table)
    BY <1>3
  <2> QED
    BY <1>1, <1>5, <1>6, <2>1, <2>2, <2>3, <2>4 DEF Fits
<1>8. /\ GoodStack(Replaced(s, m, new))
      /\ m >= 1 => Replaced(s, m, new)[1].entry = s[1].entry
      /\ m = 0 => Replaced(s, m, new)[1].entry = new[1].entry
  BY <1>7, StackReplaced
<1>9. m >= 1 \/ m = 0
  BY <1>2
<1>10. Replaced(s, m, new)[1].entry = s[1].entry
  BY <1>1, <1>8, <1>9
<1> QED
  BY <1>8, <1>10 DEF new, Replaced

----------------------------------------------------------------------------
(* What a put takes from one table to another *)

\* A table takes an element with a key that another one has not.
LEMMA StoreApart ==
  ASSUME NEW T, GoodTable(T), NEW U, Apart(U, T),
         NEW e \in Elements, NEW i \in Slots(T, e.key),
         \A j \in Used(U) : U.slot[j].key # e.key
  PROVE  Apart(U, Store(T, i, e))
<1> DEFINE V == Store(T, i, e)
<1>1. Used(V) = Used(T) \cup {i} /\ V.slot[i] = e /\ \A j \in Used(T) \ {i} : V.slot[j] = T.slot[j]
  BY StoreGood
<1> HIDE DEF V
<1>2. Apart(U, V)
  BY <1>1 DEF Apart
<1> QED
  BY <1>2 DEF V

\* A table loses an element: what it has left is what it had, and not that.
LEMMA ClearApart ==
  ASSUME NEW T, GoodTable(T), NEW i \in Used(T)
  PROVE  /\ \A U : Apart(U, T) => Apart(U, Clear(T, i))
         /\ \A j \in Used(Clear(T, i)) : Clear(T, i).slot[j].key # T.slot[i].key
<1> DEFINE V == Clear(T, i)
<1>1. Used(V) = Used(T) \ {i} /\ \A j \in Used(T) \ {i} : V.slot[j] = T.slot[j]
  BY ClearGood
<1> HIDE DEF V
<1>2. \A U : Apart(U, T) => Apart(U, V)
  BY <1>1 DEF Apart
<1>3. \A j \in Used(V) : V.slot[j].key # T.slot[i].key
  BY <1>1 DEF GoodTable
<1> QED
  BY <1>2, <1>3 DEF V

\* What is known of the levels of a stack.
LEMMA StackLevel ==
  ASSUME NEW s, GoodStack(s), NEW n \in 1..Len(s)
  PROVE  /\ GoodTable(s[n].table) /\ s[n].entry \in Elements \cup {Free}
         /\ n > 1 => s[n].entry \in Elements
<1>1. s[n] \in AllLevels /\ Len(s) \in Nat
  BY DEF GoodStack
<1>2. s[n].entry \in Elements \cup {Free}
  BY <1>1 DEF AllLevels
<1>3. ASSUME n > 1 PROVE s[n].entry \in Elements
  <2>1. n - 1 \in 1..(Len(s) - 1) /\ n - 1 \in 1..Len(s) /\ (n - 1) + 1 = n
    BY <1>1, <1>3
  <2>2. GoodTable(s[n - 1].table) /\ s[n - 1].moving \in Used(s[n - 1].table)
    BY <2>1 DEF GoodStack
  <2>3. s[n].entry = s[n - 1].table.slot[s[n - 1].moving]
    BY <2>1 DEF GoodStack
  <2> QED
    BY <2>2, <2>3, UsedFinite
<1> QED
  BY <1>2, <1>3 DEF GoodStack

----------------------------------------------------------------------------
(* The invariant *)

Calls == {"none", "destroyed", "crashed", "put"} \cup Iterations

IInv ==
  /\ GoodStack(stack)
  /\ call = "put" => stack[1].entry \in Elements
  /\ call \notin {"put", "crashed"} => Len(stack) = 1 /\ stack[1].entry = Free
  /\ call \in Calls /\ at \in Nat /\ seen \subseteq Keys /\ heard \in {0, 1}

\* The caller's map is well formed whenever a call begins or goes on.
LEMMA MapGood ==
  ASSUME IInv PROVE GoodTable(Map)
<1>1. 1 \in 1..Len(stack)
  BY DEF IInv, GoodStack
<1> QED
  BY <1>1, StackLevel DEF IInv, Map

\* In a put, the top level has an element to store.
LEMMA TopEntry ==
  ASSUME IInv, call = "put"
  PROVE  /\ Len(stack) \in 1..Len(stack) /\ GoodTable(Top.table)
         /\ Top.entry \in Elements /\ Top.entry.key \in Keys
<1>1. Len(stack) \in Nat /\ Len(stack) >= 1
  BY DEF IInv, GoodStack
<1>2. GoodTable(Top.table)
  BY <1>1, StackLevel DEF IInv, Top
<1>3. Top.entry \in Elements
  BY <1>1, StackLevel DEF IInv, Top
<1> QED
  BY <1>1, <1>2, <1>3 DEF Elements

\* A call that leaves one level and returns.
LEMMA ReturnsKeep ==
  ASSUME IInv, NEW T, GoodTable(T), stack' = <<Level(T, Free)>>,
         NEW op, NEW value, Returns(op, value), heard' \in {0, 1}
  PROVE  IInv'
<1>1. GoodStack(stack') /\ Len(stack') = 1 /\ stack'[1].entry = Free
  BY OneLevel
<1>2. call' = "none" /\ at' = 0 /\ seen' = {}
  BY DEF Returns
<1>3. call' # "put" /\ call' \in Calls /\ at' \in Nat /\ seen' \subseteq Keys
  BY <1>2 DEF Calls
<1> QED
  BY <1>1, <1>3 DEF IInv

\* A call that leaves the stack as it is and returns.
LEMMA ReturnsStill ==
  ASSUME IInv, call \notin {"put", "crashed"}, stack' = stack,
         NEW op, NEW value, Returns(op, value), heard' \in {0, 1}
  PROVE  IInv'
<1>1. call' = "none" /\ at' = 0 /\ seen' = {}
  BY DEF Returns
<1>2. call' # "put" /\ call' \in Calls /\ at' \in Nat /\ seen' \subseteq Keys
  BY <1>1 DEF Calls
<1> QED
  BY <1>2 DEF IInv

\* The caller's entry is stored.
LEMMA PutStoresKeeps ==
  ASSUME IInv, PutStores PROVE IInv'
<1>1. call = "put" /\ Len(stack) = 1
  BY DEF PutStores
<1>2. PICK i \in Slots(Map, Top.entry.key) : stack' = <<Level(Store(Map, i, Top.entry), Free)>>
  BY DEF PutStores
<1>3. GoodTable(Map) /\ Top.entry \in Elements
  BY <1>1, MapGood, TopEntry
<1>4. GoodTable(Store(Map, i, Top.entry))
  BY <1>2, <1>3, StoreGood
<1>5. Returns("put", 0) /\ heard' \in {0, 1}
  BY DEF PutStores, IInv
<1> QED
  BY <1>2, <1>4, <1>5, ReturnsKeep

\* A put in progress goes on with another stack.
LEMMA PutGoesOn ==
  ASSUME IInv, call = "put", GoodStack(stack'), stack'[1].entry = stack[1].entry,
         UNCHANGED <<call, at, seen, heard, ret>>
  PROVE  IInv'
BY DEF IInv

\* A rehash begins.
LEMMA RehashKeeps ==
  ASSUME IInv, Rehash PROVE IInv'
<1> DEFINE m == Len(stack) - 1
           T == Top.table
           first == Min(Used(T))
           E == EmptyTable(T.log2_capacity + 1)
           L == Moving(T, Top.entry, first)
           N == Level(E, T.slot[first])
<1>1. /\ call = "put" /\ Slots(T, Top.entry.key) = {} /\ T.log2_capacity + 1 < Width
      /\ stack' = SubSeq(stack, 1, m) \o <<L, N>>
      /\ UNCHANGED <<call, at, seen, heard, ret>>
  BY DEF Rehash
<1>2. /\ GoodStack(stack) /\ Len(stack) \in Nat /\ Len(stack) >= 1 /\ Top = stack[Len(stack)]
      /\ GoodTable(T) /\ Top.entry \in Elements /\ Top.entry.key \in Keys
  BY <1>1, TopEntry DEF IInv, GoodStack, Top
<1>3. first \in Used(T) /\ first \in Int /\ T.slot[first] \in Elements
  <2>1. first \in Used(T)
    BY <1>1, <1>2, NoSlotUsed
  <2> QED
    BY <1>2, <2>1, UsedFinite
<1>4. /\ T.log2_capacity >= m /\ T.log2_capacity + 1 \in 0..(Width - 1)
      /\ T.log2_capacity + 1 >= m + 1 /\ m \in 0..(Len(stack) - 1)
  <2>1. T.log2_capacity \in 0..(Width - 1) /\ T.log2_capacity >= Len(stack) - 1
    BY <1>2 DEF GoodStack, GoodTable
  <2> QED
    BY <1>1, <1>2, <2>1, WidthAssumption
<1>5. GoodTable(E) /\ Used(E) = {} /\ E.log2_capacity = T.log2_capacity + 1
  BY <1>4, EmptyGood
<1>6. L \in AllLevels /\ L.table = T /\ L.entry = Top.entry /\ L.moving = first
  BY <1>2, <1>3, LevelFields
<1>7. N \in AllLevels /\ N.table = E /\ N.entry = T.slot[first] /\ N.moving = -1
  BY <1>3, <1>5, LevelFields DEF Level
<1>8. \A U : Apart(U, E) /\ Apart(E, U)
  BY <1>5 DEF Apart
<1>9. \A k \in 1..m : Apart(stack[k].table, L.table) /\ Apart(stack[k].table, N.table)
  <2>1. \A k \in 1..m : k \in 1..Len(stack) /\ k # Len(stack)
    BY <1>2
  <2>2. \A k \in 1..m : Apart(stack[k].table, T)
    BY <1>2, <2>1 DEF GoodStack
  <2> HIDE DEF L, N, E, T
  <2> QED
    BY <1>6, <1>7, <1>8, <2>2
<1> HIDE DEF L, N, E, first, T
<1>10. m >= 1 => L.entry = stack[m].table.slot[stack[m].moving]
  <2> SUFFICES ASSUME m >= 1 PROVE L.entry = stack[m].table.slot[stack[m].moving]
    OBVIOUS
  <2>1. m \in 1..(Len(stack) - 1) /\ m + 1 = Len(stack)
    BY <1>2
  <2>2. stack[m + 1].entry = stack[m].table.slot[stack[m].moving]
    BY <1>2, <2>1 DEF GoodStack
  <2> QED
    BY <1>2, <1>6, <2>1, <2>2
<1>11. m = 0 => L.entry = stack[1].entry
  <2> SUFFICES ASSUME m = 0 PROVE L.entry = stack[1].entry
    OBVIOUS
  <2>1. Len(stack) = 1
    BY <1>2
  <2> QED
    BY <1>2, <1>6, <2>1
<1> HIDE DEF m
<1>12. /\ GoodStack(SubSeq(stack, 1, m) \o <<L, N>>)
       /\ (SubSeq(stack, 1, m) \o <<L, N>>)[1].entry = stack[1].entry
  <2>1. GoodTable(L.table) /\ L.table.log2_capacity >= m /\ L.moving \in Used(L.table)
    BY <1>2, <1>3, <1>4, <1>6
  <2>2. /\ GoodTable(N.table) /\ N.table.log2_capacity >= m + 1 /\ N.moving = -1
        /\ N.entry = L.table.slot[L.moving] /\ Apart(L.table, N.table)
    BY <1>4, <1>5, <1>6, <1>7, <1>8
  <2>3. L \in AllLevels /\ N \in AllLevels
    BY <1>6, <1>7
  <2>4. GoodStack(stack) /\ m \in 0..(Len(stack) - 1)
    BY <1>2, <1>4
  <2> QED
    BY <1>9, <1>10, <1>11, <2>1, <2>2, <2>3, <2>4, TwoFit
<1> QED
  BY <1>1, <1>2, <1>12, PutGoesOn
\* A rehash has put an element into the new table, and goes on or ends.
LEMMA MoveEntryKeeps ==
  ASSUME IInv, MoveEntry PROVE IInv'
<1> DEFINE m == Len(stack) - 2
           old == stack[Len(stack) - 1]
           O == old.table
           T == Top.table
           e == Top.entry
           rest == Clear(O, old.moving)
           later == { i \in Used(rest) : i > old.moving }
<1>1. /\ call = "put" /\ Len(stack) > 1
      /\ UNCHANGED <<call, at, seen, heard, ret>>
  BY DEF MoveEntry
<1>2. PICK i \in Slots(T, e.key) :
        stack' = SubSeq(stack, 1, m) \o
                   IF later = {} THEN << Level(Store(T, i, e), old.entry) >>
                   ELSE << Moving(rest, old.entry, Min(later)),
                           Level(Store(T, i, e), rest.slot[Min(later)]) >>
  BY DEF MoveEntry
<1> DEFINE new == Store(T, i, e)
<1>3. /\ GoodStack(stack) /\ Len(stack) \in Nat /\ Top = stack[Len(stack)]
      /\ GoodTable(T) /\ e \in Elements /\ e.key \in Keys
  BY <1>1, TopEntry DEF IInv, GoodStack, Top
<1>0. m \in Nat /\ Len(stack) = m + 2 /\ Len(stack) - 1 = m + 1
  BY <1>1, <1>3
<1> HIDE DEF m
<1>4. /\ m \in 0..(Len(stack) - 1)
      /\ m + 1 \in 1..(Len(stack) - 1) /\ m + 1 \in 1..Len(stack) /\ m + 2 \in 1..Len(stack)
      /\ m + 1 # m + 2
  BY <1>0
<1>5. old = stack[m + 1] /\ Top = stack[m + 2]
  BY <1>0, <1>3
<1>6. GoodTable(O) /\ old.entry \in Elements \cup {Free}
  BY <1>3, <1>4, <1>5, StackLevel
<1>7. old.moving \in Used(O) /\ e = O.slot[old.moving]
  <2>1. stack[m + 1].moving \in Used(stack[m + 1].table)
    BY <1>3, <1>4 DEF GoodStack
  <2>2. stack[(m + 1) + 1].entry = stack[m + 1].table.slot[stack[m + 1].moving]
    BY <1>3, <1>4 DEF GoodStack
  <2>3. (m + 1) + 1 = m + 2
    BY <1>0
  <2> QED
    BY <1>5, <2>1, <2>2, <2>3
<1>8. O.log2_capacity >= m /\ T.log2_capacity >= m + 1 /\ T.log2_capacity >= m
  <2>1. /\ stack[m + 1].table.log2_capacity >= (m + 1) - 1
        /\ stack[m + 2].table.log2_capacity >= (m + 2) - 1
    BY <1>3, <1>4 DEF GoodStack
  <2>2. T.log2_capacity \in Int
    BY <1>3 DEF GoodTable
  <2>3. (m + 1) - 1 = m /\ (m + 2) - 1 = m + 1 /\ m \in Int
    BY <1>0
  <2> HIDE DEF old, T, O
  <2>4. O.log2_capacity >= m /\ T.log2_capacity >= m + 1
    BY <1>5, <2>1, <2>3 DEF O, T
  <2> QED
    BY <2>2, <2>3, <2>4
<1>9. Apart(O, T)
  BY <1>3, <1>4, <1>5 DEF GoodStack
<1>10. \A k \in 1..m : Apart(stack[k].table, O) /\ Apart(stack[k].table, T)
  <2>1. \A k \in 1..m : k \in 1..Len(stack) /\ k # m + 1 /\ k # m + 2
    BY <1>0
  <2> QED
    BY <1>3, <1>4, <1>5, <2>1 DEF GoodStack
<1>11. m >= 1 => old.entry = stack[m].table.slot[stack[m].moving]
  <2> SUFFICES ASSUME m >= 1 PROVE old.entry = stack[m].table.slot[stack[m].moving]
    OBVIOUS
  <2>1. m \in 1..(Len(stack) - 1)
    BY <1>0
  <2>2. stack[m + 1].entry = stack[m].table.slot[stack[m].moving]
    BY <1>3, <2>1 DEF GoodStack
  <2> QED
    BY <1>5, <2>2
<1>12. m = 0 => old.entry = stack[1].entry
  <2> SUFFICES ASSUME m = 0 PROVE old.entry = stack[1].entry
    OBVIOUS
  <2>1. m + 1 = 1
    BY <1>0
  <2> QED
    BY <1>5, <2>1
<1> HIDE DEF old, O, T, e
<1>13. /\ GoodTable(rest) /\ rest.log2_capacity = O.log2_capacity
       /\ \A j \in Used(rest) : rest.slot[j].key # e.key
       /\ \A U : Apart(U, O) => Apart(U, rest)
  BY <1>6, <1>7, ClearGood, ClearApart
<1>14. GoodTable(new) /\ new.log2_capacity = T.log2_capacity
  BY <1>2, <1>3, StoreGood
<1>15. Apart(T, rest) /\ Apart(rest, T)
  <2>1. Apart(T, O)
    BY <1>9 DEF Apart
  <2>2. Apart(T, rest)
    BY <1>13, <2>1
  <2> QED
    BY <2>2 DEF Apart
<1>16. Apart(rest, new)
  BY <1>2, <1>3, <1>13, <1>15, StoreApart
<1>17. \A k \in 1..m : Apart(stack[k].table, rest) /\ Apart(stack[k].table, new)
  <2> SUFFICES ASSUME NEW k \in 1..m
               PROVE  Apart(stack[k].table, rest) /\ Apart(stack[k].table, new)
    OBVIOUS
  <2>1. Apart(stack[k].table, O) /\ Apart(stack[k].table, T)
    BY <1>10
  <2>2. \A j \in Used(stack[k].table) : stack[k].table.slot[j].key # e.key
    BY <1>7, <2>1 DEF Apart
  <2>3. Apart(stack[k].table, new)
    BY <1>2, <1>3, <2>1, <2>2, StoreApart
  <2> QED
    BY <1>13, <2>1, <2>3
<1> HIDE DEF rest, new
<1>18. GoodStack(stack') /\ stack'[1].entry = stack[1].entry
  <2>1. CASE later = {}
    <3> DEFINE N == Level(new, old.entry)
    <3>1. stack' = SubSeq(stack, 1, m) \o <<N>>
      BY <1>2, <2>1 DEF new
    <3>2. N \in AllLevels /\ N.table = new /\ N.entry = old.entry /\ N.moving = -1
      BY <1>6, <1>14, LevelFields DEF Level
    <3> HIDE DEF N
    <3>3. /\ GoodStack(SubSeq(stack, 1, m) \o <<N>>)
          /\ (SubSeq(stack, 1, m) \o <<N>>)[1].entry = stack[1].entry
      <4>1. GoodTable(N.table) /\ N.table.log2_capacity >= m
        BY <1>8, <1>14, <3>2
      <4>2. \A k \in 1..m : Apart(stack[k].table, N.table)
        BY <1>17, <3>2
      <4>3. m >= 1 => N.entry = stack[m].table.slot[stack[m].moving]
        BY <1>11, <3>2
      <4>4. m = 0 => N.entry = stack[1].entry
        BY <1>12, <3>2
      <4> QED
        BY <1>3, <1>4, <3>2, <4>1, <4>2, <4>3, <4>4, OneFits
    <3> QED
      BY <3>1, <3>3
  <2>2. CASE later # {}
    <3> DEFINE next == Min(later)
               L == Moving(rest, old.entry, next)
               N == Level(new, rest.slot[next])
    <3>1. stack' = SubSeq(stack, 1, m) \o <<L, N>>
      BY <1>2, <2>2 DEF new
    <3>2. next \in Used(rest) /\ next \in Int /\ rest.slot[next] \in Elements
      <4>1. Used(rest) \subseteq Nat /\ \A i_1 \in Used(rest) : rest.slot[i_1] \in Elements
        BY <1>13, UsedFinite
      <4>2. later \in SUBSET Nat
        BY <4>1
      <4>3. next \in later
        BY <2>2, <4>2, MinLeast
      <4> QED
        BY <4>1, <4>3
    <3> HIDE DEF next, later
    <3>3. L \in AllLevels /\ L.table = rest /\ L.entry = old.entry /\ L.moving = next
      BY <1>6, <1>13, <3>2, LevelFields
    <3>4. N \in AllLevels /\ N.table = new /\ N.entry = rest.slot[next] /\ N.moving = -1
      BY <1>14, <3>2, LevelFields DEF Level
    <3> HIDE DEF L, N
    <3>5. /\ GoodStack(SubSeq(stack, 1, m) \o <<L, N>>)
          /\ (SubSeq(stack, 1, m) \o <<L, N>>)[1].entry = stack[1].entry
      <4>1. GoodTable(L.table) /\ L.table.log2_capacity >= m /\ L.moving \in Used(L.table)
        BY <1>8, <1>13, <3>2, <3>3
      <4>2. /\ GoodTable(N.table) /\ N.table.log2_capacity >= m + 1 /\ N.moving = -1
            /\ N.entry = L.table.slot[L.moving] /\ Apart(L.table, N.table)
        BY <1>8, <1>14, <1>16, <3>3, <3>4
      <4>3. \A k \in 1..m : Apart(stack[k].table, L.table) /\ Apart(stack[k].table, N.table)
        BY <1>17, <3>3, <3>4
      <4>4. m >= 1 => L.entry = stack[m].table.slot[stack[m].moving]
        BY <1>11, <3>3
      <4>5. m = 0 => L.entry = stack[1].entry
        BY <1>12, <3>3
      <4>6. L \in AllLevels /\ N \in AllLevels
        BY <3>3, <3>4
      <4> QED
        BY <1>3, <1>4, <4>1, <4>2, <4>3, <4>4, <4>5, <4>6, TwoFit
    <3> QED
      BY <3>1, <3>5
  <2> QED
    BY <2>1, <2>2
<1> QED
  BY <1>1, <1>18, PutGoesOn

\* A put ends, because the capacity would overflow.
LEMMA PutFailsKeeps ==
  ASSUME IInv, PutFails PROVE IInv'
<1>1. GoodTable(Map) /\ stack' = <<Level(Map, Free)>> /\ Returns("put", 1) /\ heard' \in {0, 1}
  BY MapGood DEF PutFails, IInv
<1> QED
  BY <1>1, ReturnsKeep

\* What is left of a map that an element is removed from.
LEMMA WithoutKeeps ==
  ASSUME IInv, Idle, NEW k \in Keys, stack' = Without(k), UNCHANGED heard,
         NEW op, NEW value, Returns(op, value)
  PROVE  IInv'
<1>1. GoodTable(Map) /\ heard' \in {0, 1} /\ call \notin {"put", "crashed"}
  BY MapGood DEF IInv, Idle
<1>2. CASE Holding(Map, k) = {}
  <2>1. stack' = stack
    BY <1>2 DEF Without
  <2> QED
    BY <1>1, <2>1, ReturnsStill
<1>3. CASE Holding(Map, k) # {}
  <2> DEFINE i == Min(Holding(Map, k))
  <2>1. i \in Used(Map)
    <3>1. Holding(Map, k) \in SUBSET Nat /\ Holding(Map, k) \subseteq Used(Map)
      BY <1>1, UsedFinite DEF Holding
    <3> QED
      BY <1>3, <3>1, MinLeast
  <2>2. GoodTable(Clear(Map, i))
    BY <1>1, <2>1, ClearGood
  <2>3. stack' = <<Level(Clear(Map, i), Free)>>
    BY <1>3 DEF Without
  <2> QED
    BY <1>1, <2>2, <2>3, ReturnsKeep
<1> QED
  BY <1>2, <1>3
\* The first state.
LEMMA InitInv == Init => IInv
<1> SUFFICES ASSUME Init PROVE IInv
  OBVIOUS
<1>1. GoodTable(EmptyTable(0))
  <2>1. 0 \in 0..(Width - 1)
    BY WidthAssumption
  <2> QED
    BY <2>1, EmptyGood
<1>2. stack = <<Level(EmptyTable(0), Free)>> /\ call = "destroyed" /\ at = 0 /\ seen = {} /\ heard = 0
  BY DEF Init
<1>3. GoodStack(stack) /\ Len(stack) = 1 /\ stack[1].entry = Free
  BY <1>1, <1>2, OneLevel
<1>4. call # "put" /\ call \in Calls /\ at \in Nat /\ seen \subseteq Keys /\ heard \in {0, 1}
  BY <1>2 DEF Calls
<1> QED
  BY <1>3, <1>4 DEF IInv

\* A call begins that leaves one level.
LEMMA BeginsKeep ==
  ASSUME IInv, NEW T, GoodTable(T), NEW e \in Elements \cup {Free}, stack' = <<Level(T, e)>>,
         call' \in Calls, call' = "put" => e \in Elements, call' # "put" => e = Free,
         UNCHANGED <<at, seen>>, heard' \in {0, 1}
  PROVE  IInv'
<1>1. GoodStack(stack') /\ Len(stack') = 1 /\ stack'[1].entry = e
  BY OneLevel
<1> QED
  BY <1>1 DEF IInv

\* An iteration steps on: the caller's map has one level before and after.
LEMMA IterateStepKeeps ==
  ASSUME IInv, IterateStep PROVE IInv'
<1>1. call \in Iterations /\ call \notin {"put", "crashed"} /\ heard \in {0, 1}
  <2>1. call \in Iterations
    BY DEF IterateStep, SkipFree, Callback, PairCallback, IterateEnd, Iterations
  <2> QED
    BY <2>1 DEF Iterations, IInv
<1>2. GoodTable(Map) /\ at \in Nat /\ seen \subseteq Keys
  BY MapGood DEF IInv
<1>3. ASSUME at \in Used(Map) PROVE Map.slot[at].key \in Keys
  BY <1>2, <1>3, UsedFinite DEF Elements
<1>4. ASSUME at \in Used(Map), Visited
      PROVE  /\ at' \in Nat /\ seen' \subseteq Keys /\ call' = call
  BY <1>2, <1>3, <1>4 DEF Visited
<1>5. CASE SkipFree
  <2>1. at' \in Nat /\ UNCHANGED <<stack, call, seen, heard>>
    BY <1>2, <1>5 DEF SkipFree
  <2> QED
    BY <1>1, <2>1 DEF IInv
<1>6. ASSUME NEW r \in {0, 1}, Callback(r) PROVE IInv'
  <2>1. at \in Used(Map) /\ heard' = r /\ stack' = stack
    BY <1>6 DEF Callback
  <2>2. CASE r = 0
    <3>1. Returns("iterate", 1)
      BY <1>6, <2>2 DEF Callback
    <3> QED
      BY <1>1, <1>6, <2>1, <3>1, ReturnsStill
  <2>3. CASE r # 0
    <3>1. Visited
      BY <1>6, <2>3 DEF Callback
    <3> QED
      BY <1>1, <1>4, <1>6, <2>1, <3>1 DEF IInv
  <2> QED
    BY <2>2, <2>3
<1>7. CASE IterateEnd
  <2>1. Returns(call, 0) /\ UNCHANGED <<stack, heard>>
    BY <1>7 DEF IterateEnd
  <2> QED
    BY <1>1, <2>1, ReturnsStill
<1>8. ASSUME NEW r \in {-1, 0, 1}, PairCallback(r) PROVE IInv'
  <2>1. at \in Used(Map) /\ heard' = heard
    BY <1>8 DEF PairCallback
  <2>2. CASE r = -1
    <3>1. stack' = <<Level(Clear(Map, at), Free)>> /\ Visited
      BY <1>8, <2>2 DEF PairCallback
    <3>2. GoodTable(Clear(Map, at))
      BY <1>2, <2>1, ClearGood
    <3>3. GoodStack(stack') /\ Len(stack') = 1 /\ stack'[1].entry = Free
      BY <3>1, <3>2, OneLevel
    <3> QED
      BY <1>1, <1>4, <2>1, <3>1, <3>3 DEF IInv
  <2>3. CASE r = 0
    <3>1. stack' = stack /\ Visited
      BY <1>8, <2>3 DEF PairCallback
    <3> QED
      BY <1>1, <1>4, <2>1, <3>1 DEF IInv
  <2>4. CASE r = 1
    <3>1. stack' = stack /\ Returns("iterate_pairs", 1)
      BY <1>8, <2>4 DEF PairCallback
    <3> QED
      BY <1>1, <2>1, <3>1, ReturnsStill
  <2> QED
    BY <2>2, <2>3, <2>4
<1> QED
  BY <1>5, <1>6, <1>7, <1>8 DEF IterateStep
\* Every step of every call keeps the invariant.
LEMMA NextKeeps == IInv /\ [Next]_vars => IInv'
<1> SUFFICES ASSUME IInv, [Next]_vars PROVE IInv'
  OBVIOUS
<1>1. GoodTable(Map) /\ heard \in {0, 1} /\ at \in Nat
  BY MapGood DEF IInv
<1>2. ASSUME NEW c \in Capacities, Create(c) PROVE IInv'
  <2>1. GoodTable(Created(c))
    BY CreatedGood
  <2>2. stack' = <<Level(Created(c), Free)>> /\ Returns("create", 0) /\ heard' = heard
    BY <1>2 DEF Create
  <2> QED
    BY <1>1, <2>1, <2>2, ReturnsKeep
<1>3. CASE Destroy
  <2>1. GoodTable(EmptyTable(0))
    <3>1. 0 \in 0..(Width - 1)
      BY WidthAssumption
    <3> QED
      BY <3>1, EmptyGood
  <2>2. /\ stack' = <<Level(EmptyTable(0), Free)>> /\ call' = "destroyed"
        /\ UNCHANGED <<at, seen, heard>>
    BY <1>3 DEF Destroy, Begins
  <2>3. call' \in Calls /\ call' # "put"
    BY <2>2 DEF Calls
  <2> QED
    BY <1>1, <2>1, <2>2, <2>3, BeginsKeep
<1>4. CASE Refuse
  <2>1. call \notin {"put", "crashed"} /\ stack' = stack /\ heard' = heard
    BY <1>4 DEF Refuse, Idle
  <2>2. PICK op, value : Returns(op, value)
    BY <1>4 DEF Refuse
  <2> QED
    BY <1>1, <2>1, <2>2, ReturnsStill
<1>5. CASE NumEntries
  <2>1. call \notin {"put", "crashed"} /\ stack' = stack /\ heard' = heard
    BY <1>5 DEF NumEntries, Idle
  <2>2. Returns("num_entries", Map.size)
    BY <1>5 DEF NumEntries
  <2> QED
    BY <1>1, <2>1, <2>2, ReturnsStill
<1>6. CASE PutStep
  BY <1>6, PutStoresKeeps, RehashKeeps, MoveEntryKeeps, PutFailsKeeps DEF PutStep
<1>7. CASE IterateStep
  BY <1>7, IterateStepKeeps
<1>8. CASE Crash
  <2>1. call' = "crashed" /\ UNCHANGED <<stack, at, seen, heard>>
    BY <1>8 DEF Crash
  <2> QED
    BY <2>1 DEF IInv, Calls
<1>9. ASSUME NEW op \in Iterations, IterateBegin(op) PROVE IInv'
  <2>1. Idle /\ call' = op /\ heard' = 0 /\ UNCHANGED <<stack, at, seen>>
    BY <1>9 DEF IterateBegin, Begins
  <2>2. call' \in Calls /\ call' # "put" /\ call \notin {"put", "crashed"}
    BY <2>1 DEF Calls, Iterations, Idle
  <2> QED
    BY <2>1, <2>2 DEF IInv
<1>10. ASSUME NEW k \in Keys, NEW d \in Data, PutBegin(k, d) PROVE IInv'
  <2> DEFINE e == [key |-> k, data |-> d]
  <2>1. e \in Elements
    BY DEF Elements
  <2>2. stack' = <<Level(Map, e)>> /\ call' = "put" /\ UNCHANGED <<at, seen, heard>>
    BY <1>10 DEF PutBegin, Begins
  <2> HIDE DEF e
  <2>3. call' \in Calls
    BY <2>2 DEF Calls
  <2> QED
    BY <1>1, <2>1, <2>2, <2>3, BeginsKeep
<1>11. ASSUME NEW k \in Keys, Get(k) PROVE IInv'
  <2>1. call \notin {"put", "crashed"} /\ stack' = stack /\ heard' = heard
    BY <1>11 DEF Get, Idle
  <2>2. PICK value : Returns("get", value)
    BY <1>11 DEF Get
  <2> QED
    BY <1>1, <2>1, <2>2, ReturnsStill
<1>12. ASSUME NEW k \in Keys, Remove(k) PROVE IInv'
  <2>1. PICK value : Returns("remove", value)
    BY <1>12 DEF Remove
  <2> QED
    BY <1>12, <2>1, WithoutKeeps DEF Remove
<1>13. ASSUME NEW k \in Keys, RemoveAndReturnKey(k) PROVE IInv'
  <2>1. PICK value : Returns("remove_and_return_key", value)
    BY <1>13 DEF RemoveAndReturnKey
  <2> QED
    BY <1>13, <2>1, WithoutKeeps DEF RemoveAndReturnKey
<1>14. CASE UNCHANGED vars
  BY <1>14 DEF vars, IInv
<1>15. CASE Ended
  BY <1>14, <1>15 DEF Ended
<1> QED
  BY <1>2, <1>3, <1>4, <1>5, <1>6, <1>7, <1>8, <1>9, <1>10, <1>11, <1>12, <1>13, <1>14, <1>15
     DEF Next

----------------------------------------------------------------------------
(* What the invariant says of the tables *)

\* The levels of a stack and their tables.
LEMMA StackTables ==
  ASSUME IInv
  PROVE  /\ DOMAIN stack = 1..Len(stack) /\ Len(stack) \in Nat /\ Len(stack) >= 1
         /\ \A i \in DOMAIN stack : GoodTable(stack[i].table)
         /\ \A T \in Tables : GoodTable(T)
<1>1. DOMAIN stack = 1..Len(stack) /\ Len(stack) \in Nat /\ Len(stack) >= 1
  BY DEF IInv, GoodStack
<1>2. \A i \in DOMAIN stack : GoodTable(stack[i].table)
  BY <1>1 DEF IInv, GoodStack
<1> QED
  BY <1>1, <1>2 DEF Tables

\* The invariant has the types; there are no more tables than bits in a hash.
LEMMA InvTypes == IInv => TypeOK
<1> SUFFICES ASSUME IInv PROVE TypeOK
  OBVIOUS
<1>1. /\ DOMAIN stack = 1..Len(stack) /\ Len(stack) \in Nat /\ Len(stack) >= 1
      /\ \A i \in DOMAIN stack : GoodTable(stack[i].table)
  BY StackTables
<1>2. Len(stack) \in 1..Width
  <2>1. Len(stack) \in 1..Len(stack) /\ Len(stack) \in DOMAIN stack
    BY <1>1
  <2>2. stack[Len(stack)].table.log2_capacity >= Len(stack) - 1
    BY <2>1 DEF IInv, GoodStack
  <2>3. stack[Len(stack)].table.log2_capacity \in 0..(Width - 1)
    BY <1>1, <2>1 DEF GoodTable
  <2> QED
    BY <1>1, <2>2, <2>3, WidthAssumption
<1>3. ASSUME NEW i \in DOMAIN stack
      PROVE  /\ stack[i].table.log2_capacity \in 0..(Width - 1)
             /\ stack[i].table.slot \in [Places(stack[i].table.log2_capacity) -> Elements \cup {Free}]
             /\ stack[i].entry \in Elements \cup {Free}
             /\ IF i < Len(stack) THEN stack[i].moving \in Used(stack[i].table)
                                  ELSE stack[i].moving = -1
  <2>1. GoodTable(stack[i].table) /\ i \in 1..Len(stack) /\ GoodStack(stack)
    BY <1>1 DEF IInv
  <2>2. stack[i].entry \in Elements \cup {Free}
    BY <2>1, StackLevel
  <2>3. ASSUME i < Len(stack) PROVE stack[i].moving \in Used(stack[i].table)
    <3>1. i \in 1..(Len(stack) - 1)
      BY <1>1, <2>1, <2>3
    <3> QED
      BY <2>1, <3>1 DEF GoodStack
  <2>4. ASSUME ~(i < Len(stack)) PROVE stack[i].moving = -1
    <3>1. i = Len(stack)
      BY <1>1, <2>1, <2>4
    <3> QED
      BY <2>1, <3>1 DEF GoodStack
  <2> QED
    BY <2>1, <2>2, <2>3, <2>4 DEF GoodTable
<1>4. call \in {"none", "destroyed", "crashed", "put"} \cup Iterations
      /\ at \in Nat /\ seen \subseteq Keys /\ heard \in {0, 1}
  BY DEF IInv, Calls
<1> QED
  BY <1>2, <1>3, <1>4 DEF TypeOK

\* The invariant keeps the tables apart and well formed.
LEMMA InvTables == IInv => SizeExact /\ InWindow /\ NoDuplicates
<1> SUFFICES ASSUME IInv PROVE SizeExact /\ InWindow /\ NoDuplicates
  OBVIOUS
<1>1. SizeExact
  BY StackTables DEF SizeExact, GoodTable
<1>2. InWindow
  BY StackTables DEF InWindow, GoodTable
<1>3. ASSUME NEW m \in DOMAIN stack, NEW n \in DOMAIN stack,
             NEW i \in Used(stack[m].table), NEW j \in Used(stack[n].table),
             stack[m].table.slot[i].key = stack[n].table.slot[j].key
      PROVE  m = n /\ i = j
  <2>1. m \in 1..Len(stack) /\ n \in 1..Len(stack) /\ GoodTable(stack[m].table)
    BY StackTables
  <2>2. m = n
    <3> SUFFICES ASSUME m # n PROVE FALSE
      OBVIOUS
    <3>1. Apart(stack[m].table, stack[n].table)
      BY <2>1 DEF IInv, GoodStack
    <3> QED
      BY <1>3, <3>1 DEF Apart
  <2>3. i = j
    BY <1>3, <2>1, <2>2 DEF GoodTable
  <2> QED
    BY <2>2, <2>3
<1>4. NoDuplicates
  BY <1>3 DEF NoDuplicates
<1> QED
  BY <1>1, <1>2, <1>4

----------------------------------------------------------------------------
(* The theorems *)

\* The invariant holds in every state.
LEMMA Invariant == Spec => []IInv
BY InitInv, NextKeeps, PTL DEF Spec

\* The tables have their types, and a put never has more of them than a hash
\* has bits: the recursion of hashmap_put and hashmap_rehash_helper is bounded.
THEOREM TypeCorrect == Spec => []TypeOK
BY Invariant, InvTypes, PTL

\* hashmap_num_entries, and the test for a full table, count the elements in
\* use, in the tables of a rehash in progress as well.
THEOREM SizeExactCorrect == Spec => []SizeExact
BY Invariant, InvTables, PTL

\* Every element stays where get, put and remove look for it: hashmap_remove
\* needs no tombstones.
THEOREM InWindowCorrect == Spec => []InWindow
BY Invariant, InvTables, PTL

\* No key is stored twice, not even while a rehash moves it.
THEOREM NoDuplicatesCorrect == Spec => []NoDuplicates
BY Invariant, InvTables, PTL

----------------------------------------------------------------------------
(* A rehash never needs another one: the twice as large table has a slot for *)
(* every element of the old one, whatever the hashes and the length of the   *)
(* probe window are.  The elements come in the order of their old slots, each *)
(* from within its old window.  Before an element p of old home h and new home *)
(* H only elements from slots below p have come, so if the new window of p was *)
(* full, the run of full slots s..H+Probe-1 around it would hold elements that *)
(* all came from the slots s/2..h+Probe-2: half as many as needed, almost.    *)

----------------------------------------------------------------------------
(* Homes in the two tables *)

\* The home of a key in a table twice as large is one of two neighbours.
LEMMA HomeDoubles ==
  ASSUME NEW O, NEW N, NEW k \in Keys,
         O.log2_capacity \in 0..(Width - 1), N.log2_capacity \in 0..(Width - 1),
         N.log2_capacity = O.log2_capacity + 1
  PROVE  /\ Home(O, k) \in Nat /\ Home(N, k) \in Nat
         /\ 2 * Home(O, k) <= Home(N, k) /\ Home(N, k) <= 2 * Home(O, k) + 1
<1> DEFINE n == N.log2_capacity
           q == 2^(Width - n)
           p == 2^(Width - O.log2_capacity)
           x == Hash[k]
           h == x \div p
           g == x \div q
<1>1. Width - n \in 0..Width /\ 1 \in 0..Width /\ Width - O.log2_capacity = (Width - n) + 1
  BY WidthAssumption
<1>2. q \in Nat \ {0} /\ p = 2 * q /\ p \in Nat \ {0}
  <2>1. 2^((Width - n) + 1) = 2^(Width - n) * 2^1 /\ 2^(Width - n) \in Nat \ {0}
    BY <1>1, PowersAssumption
  <2>2. 2^1 = 2
    BY SMT
  <2>3. p = q * 2
    BY <1>1, <2>1, <2>2
  <2> HIDE DEF p, q
  <2>4. q \in Nat \ {0}
    BY <2>1 DEF q
  <2> QED
    BY <2>3, <2>4
<1>3. x \in Nat
  <2>1. 2^Width \in Nat /\ Hash[k] \in 0..(2^Width - 1)
    <3>1. Width \in 0..Width
      BY WidthAssumption
    <3> QED
      BY <3>1, HashAssumption, PowersAssumption
  <2> DEFINE w == 2^Width
  <2> HIDE DEF w, x
  <2>2. w \in Nat /\ x \in 0..(w - 1)
    BY <2>1 DEF w, x
  <2> QED
    BY <2>2
<1> HIDE DEF p, q, x
<1>4. h \in Nat /\ p * h <= x /\ x < p * h + p
  BY <1>2, <1>3, SMT
<1>5. g \in Nat /\ q * g <= x /\ x < q * g + q
  BY <1>2, <1>3, SMT
<1> HIDE DEF h, g
<1>6. p * h = 2 * (q * h) /\ q * h \in Nat /\ q * g \in Nat
  <2>1. (2 * q) * h = 2 * (q * h)
    BY <1>2, <1>4, SMT
  <2> QED
    BY <1>2, <1>4, <1>5, <2>1
<1>7. 2 * h <= g
  <2>1. ASSUME g + 1 <= 2 * h PROVE FALSE
    <3>1. q * (g + 1) <= q * (2 * h)
      BY <1>2, <1>4, <1>5, <2>1, SMT
    <3>2. q * (g + 1) = q * g + q /\ q * (2 * h) = 2 * (q * h)
      BY <1>2, <1>4, <1>5, SMT
    <3> DEFINE a == q * g
               b == q * h
    <3>3. a \in Nat /\ b \in Nat /\ p * h = 2 * b
      BY <1>6
    <3>4. a + q <= 2 * b
      BY <3>1, <3>2
    <3>5. 2 * b <= x /\ x < a + q
      BY <1>4, <1>5, <1>6
    <3> HIDE DEF a, b
    <3> QED
      BY <1>2, <1>3, <3>3, <3>4, <3>5
  <2> QED
    BY <1>4, <1>5, <2>1
<1>8. g <= 2 * h + 1
  <2>1. ASSUME 2 * h + 2 <= g PROVE FALSE
    <3>1. q * (2 * h + 2) <= q * g
      BY <1>2, <1>4, <1>5, <2>1, SMT
    <3>2. q * (2 * h + 2) = 2 * (q * h) + 2 * q
      BY <1>2, <1>4, SMT
    <3> DEFINE a == q * g
               b == q * h
    <3>3. a \in Nat /\ b \in Nat /\ p * h = 2 * b
      BY <1>6
    <3>4. 2 * b + 2 * q <= a
      BY <3>1, <3>2
    <3>5. x < 2 * b + p /\ a <= x
      BY <1>4, <1>5, <1>6
    <3> HIDE DEF a, b
    <3> QED
      BY <1>2, <1>3, <3>3, <3>4, <3>5
  <2> QED
    BY <1>4, <1>5, <2>1
<1> QED
  BY <1>4, <1>5, <1>7, <1>8 DEF Home, h, g, p, q, x

----------------------------------------------------------------------------
(* A table in the middle of a rehash *)

Small(T) == T.size <= Capacity(T.log2_capacity)

\* No slot between the home of a key and its element is free.
NoGaps(N) == \A j \in Used(N) : \A x \in Home(N, N.slot[j].key)..j : x \in Used(N)

\* The elements of N came from slots of their windows in O below slot p.
CameFrom(O, N, p, f) ==
  /\ f \in [Used(N) -> 0..(p - 1)]
  /\ \A i, j \in Used(N) : f[i] = f[j] => i = j
  /\ \A j \in Used(N) : f[j] \in Window(O, N.slot[j].key)

Halfway(O, N, p) ==
  /\ N.log2_capacity = O.log2_capacity + 1
  /\ N.size + O.size <= Capacity(O.log2_capacity)
  /\ NoGaps(N)
  /\ \E f : CameFrom(O, N, p, f)

\* The element that is moved next finds a slot.
LEMMA NewHasSlot ==
  ASSUME NEW O, GoodTable(O), NEW N, GoodTable(N), NEW p \in Used(O),
         Halfway(O, N, p), NEW k \in Keys, k = O.slot[p].key
  PROVE  Slots(N, k) # {}
<1> SUFFICES ASSUME Slots(N, k) = {} PROVE FALSE
  OBVIOUS
<1> DEFINE h == Home(O, k)
           H == Home(N, k)
           U == Used(N)
           S == {x \in 0..H : \A y \in x..H : y \in U}
           s == Min(S)
           R == s..(H + Probe - 1)
           a == s \div 2
           B == a..(h + Probe - 2)
<1>1. PICK f : CameFrom(O, N, p, f)
  BY DEF Halfway
<1>2. /\ O.log2_capacity \in 0..(Width - 1) /\ N.log2_capacity \in 0..(Width - 1)
      /\ N.log2_capacity = O.log2_capacity + 1
  BY DEF GoodTable, Halfway
<1>3. h \in Nat /\ H \in Nat /\ 2 * h <= H /\ H <= 2 * h + 1
  BY <1>2, HomeDoubles
<1>4. U \subseteq Nat /\ p \in Nat /\ \A j \in U : N.slot[j].key \in Keys
  <2>1. \A j \in U : N.slot[j] \in Elements
    BY UsedFinite
  <2> QED
    BY <2>1, UsedFinite DEF Elements
<1>5. N.size # Capacity(N.log2_capacity)
  <2> DEFINE c == Capacity(O.log2_capacity)
             d == Capacity(N.log2_capacity)
  <2>1. c \in Nat /\ d \in Nat /\ c < d
    <3>1. /\ O.log2_capacity \in 0..Width /\ N.log2_capacity \in 0..Width
          /\ O.log2_capacity < N.log2_capacity /\ O.log2_capacity <= N.log2_capacity
      BY <1>2, WidthAssumption
    <3> QED
      BY <3>1, PowersGrow DEF Capacity
  <2>2. N.size \in Nat /\ O.size \in Nat /\ N.size + O.size <= c
    BY UsedFinite DEF Halfway
  <2> HIDE DEF c, d
  <2>3. N.size < d
    BY <2>1, <2>2
  <2> QED
    BY <2>1, <2>2, <2>3 DEF d
<1>6. Holding(N, k) = {} /\ Window(N, k) \ U = {}
  BY <1>5 DEF Slots
<1>7. \A x \in H..(H + Probe - 1) : x \in U
  BY <1>6 DEF Window
<1> HIDE DEF h, H, U
<1>8. H \in S /\ S \in SUBSET Nat
  <2>1. H \in H..(H + Probe - 1)
    BY <1>3, ProbeAssumption
  <2>2. \A y \in H..H : y = H
    BY <1>3
  <2> QED
    BY <1>3, <1>7, <2>1, <2>2
<1>9. s \in S /\ \A x \in S : s <= x
  BY <1>8, MinLeast
<1>10. s \in 0..H /\ \A y \in s..H : y \in U
  BY <1>9
<1>11. \A x \in R : x \in U
  BY <1>3, <1>7, <1>10, ProbeAssumption
<1>12. s > 0 => s - 1 \notin U
  <2> SUFFICES ASSUME s > 0, s - 1 \in U PROVE FALSE
    OBVIOUS
  <2> HIDE DEF s
  <2>1. s - 1 \in 0..H
    BY <1>3, <1>10
  <2>2. \A y \in (s - 1)..H : y = s - 1 \/ y \in s..H
    BY <1>3, <1>10
  <2>3. s - 1 \in S
    BY <1>10, <2>1, <2>2
  <2>4. s <= s - 1
    BY <1>9, <2>3
  <2> QED
    BY <1>3, <1>10, <2>4
<1> HIDE DEF S, s
<1>13. \A x \in R : Home(N, N.slot[x].key) \in Nat /\ Home(N, N.slot[x].key) >= s
  <2> SUFFICES ASSUME NEW x \in R
               PROVE  Home(N, N.slot[x].key) \in Nat /\ Home(N, N.slot[x].key) >= s
    OBVIOUS
  <2> DEFINE g == Home(N, N.slot[x].key)
  <2>1. x \in U /\ x \in Nat /\ N.slot[x].key \in Keys /\ x >= s
    BY <1>4, <1>10, <1>11
  <2>2. g \in Nat
    BY <1>2, <2>1, HomeDoubles
  <2>3. \A y \in g..x : y \in U
    BY <2>1 DEF Halfway, NoGaps, U
  <2> HIDE DEF g
  <2>4. ASSUME g < s PROVE FALSE
    <3>1. s - 1 \in g..x /\ s > 0
      BY <1>3, <1>10, <2>1, <2>2, <2>4
    <3> QED
      BY <1>12, <2>3, <3>1
  <2> QED
    BY <1>10, <2>2, <2>4 DEF g
<1>14. a \in Nat /\ 2 * a <= s /\ s <= 2 * a + 1
  BY <1>3, <1>10, SMT
<1> HIDE DEF a
<1>15. p <= h + Probe - 1
  <2>1. p \in Window(O, k)
    BY DEF GoodTable
  <2> QED
    BY <1>3, <1>4, <2>1, ProbeAssumption DEF Window, h
<1>16. \A x \in R : f[x] \in B
  <2> SUFFICES ASSUME NEW x \in R PROVE f[x] \in B
    OBVIOUS
  <2> DEFINE e == Home(O, N.slot[x].key)
             g == Home(N, N.slot[x].key)
             y == f[x]
  <2>1. x \in U /\ N.slot[x].key \in Keys
    BY <1>4, <1>11
  <2>2. e \in Nat /\ g \in Nat /\ g <= 2 * e + 1
    BY <1>2, <2>1, HomeDoubles
  <2>3. g >= s
    BY <1>13
  <2>4. y \in 0..(p - 1) /\ y \in Window(O, N.slot[x].key)
    BY <1>1, <2>1 DEF CameFrom, U
  <2>5. y \in e..(e + Probe - 1)
    BY <2>4 DEF Window
  <2> HIDE DEF e, g, y
  <2>6. y \in Nat /\ y >= e /\ y <= p - 1
    BY <1>4, <2>2, <2>4, <2>5, ProbeAssumption
  <2>7. e >= a
    BY <1>3, <1>10, <1>14, <2>2, <2>3
  <2>8. y \in a..(h + Probe - 2)
    BY <1>3, <1>4, <1>14, <1>15, <2>2, <2>6, <2>7, ProbeAssumption
  <2> QED
    BY <2>8 DEF y
<1>17. /\ IsFiniteSet(R) /\ Cardinality(R) = H + Probe - s
       /\ IsFiniteSet(B) /\ Cardinality(B) = IF a > h + Probe - 2 THEN 0 ELSE h + Probe - 1 - a
  <2>1. s \in Int /\ H + Probe - 1 \in Int /\ s <= H + Probe - 1 /\ a \in Int /\ h + Probe - 2 \in Int
    BY <1>3, <1>10, <1>14, ProbeAssumption
  <2>2. /\ IsFiniteSet(R)
        /\ Cardinality(R) = IF s > H + Probe - 1 THEN 0 ELSE (H + Probe - 1) - s + 1
    BY <2>1, FS_Interval
  <2>3. /\ IsFiniteSet(B)
        /\ Cardinality(B) = IF a > h + Probe - 2 THEN 0 ELSE (h + Probe - 2) - a + 1
    BY <2>1, FS_Interval
  <2> HIDE DEF R, B
  <2>4. (H + Probe - 1) - s + 1 = H + Probe - s /\ (h + Probe - 2) - a + 1 = h + Probe - 1 - a
    BY <1>3, <1>10, <1>14, ProbeAssumption
  <2>5. ~(s > H + Probe - 1)
    BY <2>1
  <2> QED
    BY <2>2, <2>3, <2>4, <2>5
<1>18. Cardinality(B) < Cardinality(R)
  <2> DEFINE r == Cardinality(R)
             b == Cardinality(B)
  <2> HIDE DEF r, b
  <2>1. r = H + Probe - s /\ b = IF a > h + Probe - 2 THEN 0 ELSE h + Probe - 1 - a
    BY <1>17 DEF r, b
  <2>2. r > 0
    BY <1>3, <1>10, <2>1, ProbeAssumption
  <2>3. b < r
    BY <1>3, <1>10, <1>14, <2>1, <2>2, ProbeAssumption
  <2> QED
    BY <2>3 DEF r, b
<1> DEFINE g == [x \in R |-> f[x]]
<1>19. g \in [R -> B]
  BY <1>16
<1> HIDE DEF R, B
<1>20. PICK x, y \in R : x # y /\ g[x] = g[y]
  <2> HIDE DEF g
  <2> QED
    BY <1>17, <1>18, <1>19, FS_PigeonHole
<1>21. f[x] = f[y] /\ x \in U /\ y \in U
  BY <1>11, <1>20
<1> QED
  BY <1>1, <1>20, <1>21 DEF CameFrom, U
\* The elements of a table are counted when one is stored or cleared.
LEMMA StoreCount ==
  ASSUME NEW T, GoodTable(T), Small(T), NEW e \in Elements, NEW i \in Slots(T, e.key)
  PROVE  /\ Small(Store(T, i, e))
         /\ Store(T, i, e).size \in Nat /\ Store(T, i, e).size <= T.size + 1
<1> DEFINE n == T.log2_capacity
           s == [T.slot EXCEPT ![i] = e]
           m == IF T.slot[i] = Free THEN T.size + 1 ELSE T.size
           U == Store(T, i, e)
           c == Capacity(n)
<1>1. T.size # c
  BY DEF Slots
<1>2. T.size \in Nat /\ c \in Nat /\ T.size <= c
  BY UsedFinite, PlacesFinite DEF GoodTable, Small
<1>3. U.size = m /\ U.log2_capacity = n
  BY DEF Store, Table
<1> HIDE DEF U, c
<1>4. m \in Nat /\ m <= T.size + 1 /\ m <= c
  BY <1>1, <1>2
<1> QED
  BY <1>3, <1>4 DEF U, c, Small

\* A table has one element less.
LEMMA ClearCount ==
  ASSUME NEW T, GoodTable(T), Small(T), NEW i \in Used(T)
  PROVE  /\ Small(Clear(T, i)) /\ T.size >= 1
         /\ Clear(T, i).size = T.size - 1
<1>1. T.size \in Nat /\ T.size = Cardinality(Used(T)) /\ IsFiniteSet(Used(T))
  BY UsedFinite DEF GoodTable
<1>2. T.size # 0
  BY <1>1, FS_EmptySet
<1>3. Clear(T, i).size = T.size - 1 /\ Clear(T, i).log2_capacity = T.log2_capacity
  BY DEF Clear, Table
<1> DEFINE c == Capacity(T.log2_capacity)
<1>4. c \in Nat /\ T.size <= c
  BY PlacesFinite DEF GoodTable, Small
<1> HIDE DEF c
<1>5. T.size - 1 <= c /\ T.size >= 1
  BY <1>1, <1>2, <1>4
<1> QED
  BY <1>3, <1>5 DEF c, Small

\* hashmap_create_ex and memset leave a table without elements.
LEMMA EmptySmall ==
  ASSUME NEW n \in 0..(Width - 1) PROVE Small(EmptyTable(n)) /\ EmptyTable(n).size = 0
<1>1. EmptyTable(n).size = 0 /\ EmptyTable(n).log2_capacity = n
  BY DEF EmptyTable, Table
<1> DEFINE c == Capacity(n)
<1>2. c \in Nat
  BY PlacesFinite
<1> HIDE DEF c
<1>3. 0 <= c
  BY <1>2
<1> QED
  BY <1>1, <1>3 DEF Small, c

\* An element that is moved takes the first free slot behind its home.
LEMMA StoreNoGaps ==
  ASSUME NEW N, GoodTable(N), NoGaps(N), NEW e \in Elements, NEW i \in Slots(N, e.key),
         \A j \in Used(N) : N.slot[j].key # e.key
  PROVE  NoGaps(Store(N, i, e))
<1> DEFINE V == Store(N, i, e)
           H == Home(N, e.key)
           open == Window(N, e.key) \ Used(N)
<1>1. /\ V.log2_capacity = N.log2_capacity /\ Used(V) = Used(N) \cup {i}
      /\ V.slot[i] = e /\ \A j \in Used(N) \ {i} : V.slot[j] = N.slot[j]
  BY StoreGood
<1>2. \A k : Home(V, k) = Home(N, k)
  BY <1>1 DEF Home
<1>3. Holding(N, e.key) = {}
  BY DEF Holding
<1>4. open # {} /\ i = Min(open)
  BY <1>3 DEF Slots
<1>5. open \in SUBSET Nat /\ Window(N, e.key) \subseteq Nat /\ H \in Window(N, e.key)
  <2>1. e.key \in Keys /\ N.log2_capacity \in 0..(Width - 1)
    BY DEF Elements, GoodTable
  <2>2. /\ Window(N, e.key) \subseteq Places(N.log2_capacity) /\ H \in Window(N, e.key)
        /\ Places(N.log2_capacity) \subseteq Nat
    BY <2>1, WindowPlaces, PlacesFinite
  <2> QED
    BY <2>2
<1>6. i \in open /\ \A x \in open : i <= x
  BY <1>4, <1>5, MinLeast
<1>7. \A x \in H..i : x \in Used(N) \/ x = i
  <2> SUFFICES ASSUME NEW x \in H..i, x # i PROVE x \in Used(N)
    OBVIOUS
  <2>1. H \in Nat /\ i \in Nat /\ i \in H..(H + Probe - 1)
    BY <1>5, <1>6 DEF Window
  <2> HIDE DEF H
  <2>2. x \in H..(H + Probe - 1) /\ ~(i <= x)
    BY <2>1, ProbeAssumption
  <2>3. x \in Window(N, e.key)
    BY <2>2 DEF Window, H
  <2> QED
    BY <1>6, <2>2, <2>3
<1>8. i \notin Used(N)
  BY <1>6
<1> HIDE DEF V, open
<1>9. \A j \in Used(V) : \A x \in Home(V, V.slot[j].key)..j : x \in Used(V)
  <2> SUFFICES ASSUME NEW j \in Used(V), NEW x \in Home(V, V.slot[j].key)..j
               PROVE  x \in Used(V)
    OBVIOUS
  <2>1. CASE j = i
    <3>1. x \in H..i
      BY <1>1, <1>2, <2>1
    <3> QED
      BY <1>1, <1>7, <3>1
  <2>2. CASE j # i
    <3>1. j \in Used(N) /\ x \in Home(N, N.slot[j].key)..j
      BY <1>1, <1>2, <2>2
    <3> QED
      BY <1>1, <3>1 DEF NoGaps
  <2> QED
    BY <2>1, <2>2
<1> QED
  BY <1>9 DEF NoGaps, V

\* A step of the rehash, with another element to follow.
LEMMA StoreHalfway ==
  ASSUME NEW O, GoodTable(O), NEW N, GoodTable(N), Small(O), Small(N), NEW p \in Used(O),
         Halfway(O, N, p), NEW e \in Elements, e = O.slot[p],
         \A j \in Used(N) : N.slot[j].key # e.key,
         NEW i \in Slots(N, e.key), NEW next \in Nat, next > p
  PROVE  Halfway(Clear(O, p), Store(N, i, e), next)
<1> DEFINE V == Store(N, i, e)
           C == Clear(O, p)
<1>1. /\ V.log2_capacity = N.log2_capacity /\ Used(V) = Used(N) \cup {i}
      /\ V.slot[i] = e /\ \A j \in Used(N) \ {i} : V.slot[j] = N.slot[j]
  BY StoreGood
<1>2. C.log2_capacity = O.log2_capacity /\ C.size = O.size - 1 /\ O.size >= 1 /\ O.size \in Nat
  BY ClearGood, ClearCount, UsedFinite
<1>3. V.size \in Nat /\ V.size <= N.size + 1 /\ N.size \in Nat
  BY StoreCount, UsedFinite
<1>4. NoGaps(V)
  BY StoreNoGaps DEF Halfway
<1>5. i \notin Used(N)
  <2>1. e.key \in Keys
    BY DEF Elements
  <2> QED
    BY <2>1, SlotsRight
<1>6. PICK f : CameFrom(O, N, p, f)
  BY DEF Halfway
<1>7. p \in Nat /\ p \in Window(O, e.key)
  BY UsedFinite DEF GoodTable
<1>8. \A k : Window(C, k) = Window(O, k)
  BY <1>2 DEF Window, Home
<1> HIDE DEF V, C
<1> DEFINE g == [j \in Used(V) |-> IF j = i THEN p ELSE f[j]]
<1>9. \A j \in Used(N) : f[j] \in 0..(p - 1)
  BY <1>6 DEF CameFrom
<1>10. g \in [Used(V) -> 0..(next - 1)]
  <2> SUFFICES ASSUME NEW j \in Used(V) PROVE g[j] \in 0..(next - 1)
    BY DEF g
  <2>1. CASE j = i
    BY <1>7, <2>1
  <2>2. CASE j # i
    <3>1. g[j] = f[j] /\ f[j] \in 0..(p - 1)
      BY <1>1, <1>9, <2>2
    <3> HIDE DEF g
    <3> QED
      BY <1>7, <3>1
  <2> QED
    BY <2>1, <2>2
<1>11. \A j, l \in Used(V) : g[j] = g[l] => j = l
  <2>1. \A j \in Used(V) : j # i => j \in Used(N) /\ g[j] = f[j] /\ f[j] # p
    <3>1. \A j \in Used(V) : j # i => j \in Used(N) /\ g[j] = f[j]
      BY <1>1
    <3>2. \A j \in Used(N) : f[j] # p
      BY <1>7, <1>9
    <3> QED
      BY <3>1, <3>2
  <2>2. i \in Used(V) => g[i] = p
    OBVIOUS
  <2> HIDE DEF g
  <2> QED
    BY <1>6, <2>1, <2>2 DEF CameFrom
<1>12. \A j \in Used(V) : g[j] \in Window(C, V.slot[j].key)
  <2> SUFFICES ASSUME NEW j \in Used(V) PROVE g[j] \in Window(C, V.slot[j].key)
    OBVIOUS
  <2>1. CASE j = i
    <3>1. g[j] = p /\ V.slot[j] = e
      BY <1>1, <2>1
    <3> QED
      BY <1>7, <1>8, <3>1
  <2>2. CASE j # i
    <3>1. j \in Used(N) /\ g[j] = f[j] /\ V.slot[j] = N.slot[j]
      BY <1>1, <2>2
    <3> QED
      BY <1>6, <1>8, <3>1 DEF CameFrom
  <2> QED
    BY <2>1, <2>2
<1> HIDE DEF g
<1>13. CameFrom(C, V, next, g)
  BY <1>10, <1>11, <1>12 DEF CameFrom
<1>14. V.size + C.size <= Capacity(C.log2_capacity)
  <2> DEFINE c == Capacity(O.log2_capacity)
  <2>1. N.size + O.size <= c /\ c \in Nat
    BY PlacesFinite DEF Halfway, GoodTable
  <2> HIDE DEF c
  <2>2. V.size + C.size <= c
    BY <1>2, <1>3, <2>1
  <2> QED
    BY <1>2, <2>2 DEF c
<1>15. V.log2_capacity = C.log2_capacity + 1
  BY <1>1, <1>2 DEF Halfway
<1> QED
  BY <1>4, <1>13, <1>14, <1>15 DEF Halfway, V, C

----------------------------------------------------------------------------
(* The invariant *)

RehashInv ==
  /\ Len(stack) <= 2
  /\ \A i \in 1..Len(stack) : Small(stack[i].table)
  /\ Len(stack) = 2 => Halfway(stack[1].table, stack[2].table, stack[1].moving)

\* One table that is not overfull.
LEMMA OneSmall ==
  ASSUME NEW T, Small(T), NEW e, stack' = <<Level(T, e)>>
  PROVE  RehashInv'
<1> DEFINE L == Level(T, e)
<1>1. L.table = T
  BY DEF Level, Moving
<1> HIDE DEF L
<1>2. stack' = <<L>> /\ Len(<<L>>) = 1 /\ <<L>>[1] = L
  BY DEF L
<1>3. Len(stack') = 1 /\ stack'[1].table = T
  BY <1>1, <1>2
<1>4. \A i \in 1..Len(stack') : i = 1
  BY <1>3
<1>5. Len(stack') <= 2 /\ Len(stack') # 2
  BY <1>3
<1> QED
  BY <1>3, <1>4, <1>5 DEF RehashInv

\* Two tables in the middle of a rehash.
LEMMA TwoHalfway ==
  ASSUME NEW O, Small(O), NEW N, Small(N), NEW e, NEW d, NEW p, Halfway(O, N, p),
         stack' = <<Moving(O, e, p), Level(N, d)>>
  PROVE  RehashInv'
<1> DEFINE L == Moving(O, e, p)
           M == Level(N, d)
<1>1. L.table = O /\ L.moving = p /\ M.table = N
  BY DEF Level, Moving
<1> HIDE DEF L, M
<1>2. stack' = <<L, M>> /\ Len(<<L, M>>) = 2 /\ <<L, M>>[1] = L /\ <<L, M>>[2] = M
  BY DEF L, M
<1>3. Len(stack') = 2 /\ stack'[1].table = O /\ stack'[1].moving = p /\ stack'[2].table = N
  BY <1>1, <1>2
<1>4. \A i \in 1..Len(stack') : i = 1 \/ i = 2
  BY <1>3
<1>5. Len(stack') <= 2
  BY <1>3
<1> QED
  BY <1>3, <1>4, <1>5 DEF RehashInv
\* Nothing is below the first level.
LEMMA NothingBelow ==
  ASSUME NEW s \in Seq(AllLevels), NEW t \in Seq(AllLevels)
  PROVE  SubSeq(s, 1, 0) \o t = t
<1>1. SubSeq(s, 1, 0) = << >>
  OBVIOUS
<1> QED
  BY <1>1

\* A table in a stack that no rehash is at work on.
LEMMA MapSmall ==
  ASSUME IInv, RehashInv PROVE GoodTable(Map) /\ Small(Map)
<1>1. 1 \in 1..Len(stack)
  BY DEF IInv, GoodStack
<1> QED
  BY <1>1, MapGood DEF RehashInv, Map

\* The top of a stack of one table.
LEMMA TopIsMap ==
  ASSUME Len(stack) = 1 PROVE Top = stack[1] /\ Top.table = Map
BY DEF Top, Map

\* A table that a put finds no slot in is the caller's map.
LEMMA FullIsMap ==
  ASSUME IInv, RehashInv, call = "put", Slots(Top.table, Top.entry.key) = {}
  PROVE  Len(stack) = 1
<1> DEFINE T == Top.table
<1>1. /\ GoodStack(stack) /\ Len(stack) \in Nat /\ Len(stack) >= 1 /\ Len(stack) <= 2
      /\ GoodTable(T) /\ Top.entry \in Elements /\ Top.entry.key \in Keys
      /\ Top = stack[Len(stack)]
  BY TopEntry DEF IInv, GoodStack, RehashInv, Top
<1>2. Len(stack) = 1 \/ Len(stack) = 2
  <2> DEFINE l == Len(stack)
  <2>1. l \in Nat /\ l >= 1 /\ l <= 2
    BY <1>1
  <2> HIDE DEF l
  <2>2. l = 1 \/ l = 2
    BY <2>1
  <2> QED
    BY <2>2 DEF l
<1>3. CASE Len(stack) = 2
  <2> DEFINE O == stack[1].table
             p == stack[1].moving
  <2>1. 1 \in 1..Len(stack) /\ 1 \in 1..(Len(stack) - 1) /\ 1 + 1 = 2 /\ T = stack[2].table
    BY <1>1, <1>3
  <2>2. GoodTable(O) /\ p \in Used(O) /\ Top.entry = O.slot[p]
    <3>1. /\ stack[1].moving \in Used(stack[1].table)
          /\ stack[1 + 1].entry = stack[1].table.slot[stack[1].moving]
      BY <1>1, <2>1 DEF GoodStack
    <3> QED
      BY <1>1, <1>3, <2>1, <3>1 DEF GoodStack
  <2>3. Halfway(O, T, p)
    BY <1>3, <2>1 DEF RehashInv
  <2> HIDE DEF O, p, T
  <2>4. Slots(T, Top.entry.key) # {}
    BY <1>1, <2>2, <2>3, NewHasSlot
  <2> QED
    BY <2>4 DEF T
<1> QED
  BY <1>2, <1>3

\* A rehash begins at the caller's map, and takes its first element.
LEMMA RehashShape ==
  ASSUME IInv, RehashInv, Rehash
  PROVE  /\ Len(stack) = 1 /\ GoodTable(Map) /\ Small(Map)
         /\ Min(Used(Map)) \in Used(Map) /\ Map.log2_capacity + 1 \in 0..(Width - 1)
         /\ stack' = <<Moving(Map, stack[1].entry, Min(Used(Map))),
                       Level(EmptyTable(Map.log2_capacity + 1), Map.slot[Min(Used(Map))])>>
<1> DEFINE T == Top.table
           first == Min(Used(T))
           L == Moving(T, Top.entry, first)
           N == Level(EmptyTable(T.log2_capacity + 1), T.slot[first])
<1>1. /\ call = "put" /\ Slots(T, Top.entry.key) = {} /\ T.log2_capacity + 1 < Width
      /\ stack' = SubSeq(stack, 1, Len(stack) - 1) \o <<L, N>>
  BY DEF Rehash
<1>2. /\ stack \in Seq(AllLevels) /\ GoodTable(T)
      /\ Top.entry \in Elements /\ Top.entry.key \in Keys
  BY <1>1, TopEntry DEF IInv, GoodStack
<1>3. Len(stack) = 1
  BY <1>1, FullIsMap
<1>4. T = Map /\ Top = stack[1]
  BY <1>3, TopIsMap
<1>5. T.log2_capacity + 1 \in 0..(Width - 1)
  <2>1. T.log2_capacity \in 0..(Width - 1)
    BY <1>2 DEF GoodTable
  <2> QED
    BY <1>1, <2>1, WidthAssumption
<1>6. first \in Used(T) /\ first \in Int /\ T.slot[first] \in Elements
  <2>1. first \in Used(T)
    BY <1>1, <1>2, NoSlotUsed
  <2> QED
    BY <1>2, <2>1, UsedFinite
<1>7. L \in AllLevels /\ N \in AllLevels
  BY <1>2, <1>5, <1>6, EmptyGood, LevelFields DEF Level
<1>8. stack' = <<L, N>>
  <2> HIDE DEF L, N
  <2>1. <<L, N>> \in Seq(AllLevels) /\ Len(stack) - 1 = 0
    BY <1>3, <1>7
  <2>2. SubSeq(stack, 1, 0) \o <<L, N>> = <<L, N>>
    BY <1>2, <2>1, NothingBelow
  <2> QED
    BY <1>1, <2>1, <2>2, Zenon
<1>9. Small(Map)
  BY MapSmall
<1> QED
  BY <1>2, <1>3, <1>4, <1>5, <1>6, <1>8, <1>9 DEF L, N, first, T

\* The new table is empty.
LEMMA RehashStep ==
  ASSUME IInv, RehashInv, Rehash PROVE RehashInv'
<1> DEFINE first == Min(Used(Map))
           E == EmptyTable(Map.log2_capacity + 1)
<1>1. /\ GoodTable(Map) /\ Small(Map) /\ first \in Used(Map)
      /\ Map.log2_capacity + 1 \in 0..(Width - 1)
      /\ stack' = <<Moving(Map, stack[1].entry, first), Level(E, Map.slot[first])>>
  BY RehashShape
<1>2. GoodTable(E) /\ Used(E) = {} /\ E.log2_capacity = Map.log2_capacity + 1 /\ Small(E) /\ E.size = 0
  BY <1>1, EmptyGood, EmptySmall
<1> HIDE DEF E, first
<1>3. Halfway(Map, E, first)
  <2>1. NoGaps(E)
    BY <1>2 DEF NoGaps
  <2>2. CameFrom(Map, E, first, [j \in {} |-> 0])
    BY <1>2 DEF CameFrom
  <2>3. E.size + Map.size <= Capacity(Map.log2_capacity)
    <3>1. E.size + Map.size = Map.size
      BY <1>1, <1>2, UsedFinite
    <3> QED
      BY <1>1, <3>1 DEF Small
  <2> QED
    BY <1>2, <2>1, <2>2, <2>3 DEF Halfway
<1> QED
  BY <1>1, <1>2, <1>3, TwoHalfway

\* The elements behind the one that is moved.
Later(T, p) == { i \in Used(Clear(T, p)) : i > p }

\* The element that is being moved, of slot p of the old table O, is stored in
\* slot i of the new table N.
Moves(O, N, p, i) ==
  LET rest == Clear(O, p)
      new == Store(N, i, O.slot[p])
  IN  /\ GoodTable(O) /\ GoodTable(N) /\ Apart(O, N) /\ p \in Used(O)
      /\ O.slot[p] \in Elements /\ i \in Slots(N, O.slot[p].key)
      /\ Later(O, p) = {} => stack' = <<Level(new, stack[1].entry)>>
      /\ Later(O, p) # {} =>
           /\ Min(Later(O, p)) \in Later(O, p)
           /\ \A j \in Later(O, p) : Min(Later(O, p)) <= j
           /\ stack' = <<Moving(rest, stack[1].entry, Min(Later(O, p))),
                         Level(new, rest.slot[Min(Later(O, p))])>>

\* A rehash goes on at the two tables of the stack.
LEMMA MoveShape ==
  ASSUME IInv, RehashInv, MoveEntry
  PROVE  /\ Len(stack) = 2
         /\ \E i : Moves(stack[1].table, stack[2].table, stack[1].moving, i)
<1> DEFINE old == stack[1]
           O == old.table
           p == old.moving
           T == Top.table
           e == Top.entry
           rest == Clear(O, p)
           later == Later(O, p)
<1>1. call = "put" /\ Len(stack) = 2 /\ Len(stack) - 1 = 1 /\ Len(stack) - 2 = 0
  <2>1. call = "put" /\ Len(stack) > 1 /\ Len(stack) \in Nat /\ Len(stack) <= 2
    BY DEF MoveEntry, IInv, GoodStack, RehashInv
  <2> QED
    BY <2>1
<1>2. PICK i \in Slots(T, e.key) :
        stack' = SubSeq(stack, 1, 0) \o
                   IF later = {} THEN << Level(Store(T, i, e), old.entry) >>
                   ELSE << Moving(rest, old.entry, Min(later)),
                           Level(Store(T, i, e), rest.slot[Min(later)]) >>
  BY <1>1 DEF MoveEntry, Later
<1> DEFINE new == Store(T, i, e)
<1>3. /\ GoodStack(stack) /\ stack \in Seq(AllLevels) /\ GoodTable(T)
      /\ e \in Elements /\ e.key \in Keys /\ Top = stack[2]
  BY <1>1, TopEntry DEF IInv, GoodStack, Top
<1>4. 1 \in 1..Len(stack) /\ 2 \in 1..Len(stack) /\ 1 \in 1..(Len(stack) - 1) /\ 1 + 1 = 2
  BY <1>1
<1>5. GoodTable(O) /\ old.entry \in Elements \cup {Free} /\ p \in Used(O) /\ e = O.slot[p]
  <2>1. old.moving \in Used(old.table) /\ stack[1 + 1].entry = old.table.slot[old.moving]
    BY <1>3, <1>4 DEF GoodStack
  <2>2. GoodTable(O) /\ old.entry \in Elements \cup {Free}
    BY <1>3, <1>4, StackLevel
  <2> QED
    BY <1>3, <1>4, <2>1, <2>2
<1>6. Apart(O, T)
  BY <1>3, <1>4 DEF GoodStack
<1> HIDE DEF old, O, p, T, e
<1>7. GoodTable(new) /\ GoodTable(rest)
  BY <1>2, <1>3, <1>5, StoreGood, ClearGood
<1>8. ASSUME later = {} PROVE stack' = <<Level(new, old.entry)>>
  <2> DEFINE N == Level(new, old.entry)
  <2>1. N \in AllLevels
    BY <1>5, <1>7, LevelFields DEF Level
  <2>2. stack' = SubSeq(stack, 1, 0) \o <<N>>
    BY <1>2, <1>8
  <2> HIDE DEF N
  <2>3. <<N>> \in Seq(AllLevels)
    BY <2>1
  <2>4. stack' = <<N>>
    BY <1>3, <2>2, <2>3, NothingBelow, Zenon
  <2> QED
    BY <2>4 DEF N
<1>9. ASSUME later # {}
      PROVE  /\ Min(later) \in later /\ \A j \in later : Min(later) <= j
             /\ stack' = <<Moving(rest, old.entry, Min(later)), Level(new, rest.slot[Min(later)])>>
  <2> DEFINE next == Min(later)
             L == Moving(rest, old.entry, next)
             N == Level(new, rest.slot[next])
  <2>1. Used(rest) \subseteq Nat /\ \A x \in Used(rest) : rest.slot[x] \in Elements
    BY <1>7, UsedFinite
  <2>2. later \in SUBSET Nat /\ later \subseteq Used(rest)
    BY <2>1 DEF Later
  <2>3. next \in later /\ \A j \in later : next <= j
    BY <1>9, <2>2, MinLeast
  <2>4. stack' = SubSeq(stack, 1, 0) \o <<L, N>>
    BY <1>2, <1>9
  <2> HIDE DEF next, later
  <2>5. L \in AllLevels /\ N \in AllLevels
    <3>1. next \in Int /\ rest.slot[next] \in Elements
      BY <2>1, <2>2, <2>3
    <3> QED
      BY <1>5, <1>7, <3>1, LevelFields DEF Level
  <2> HIDE DEF L, N
  <2>6. <<L, N>> \in Seq(AllLevels)
    BY <2>5
  <2>7. stack' = <<L, N>>
    BY <1>3, <2>4, <2>6, NothingBelow, Zenon
  <2> QED
    BY <2>3, <2>7 DEF L, N, next
<1>10. Moves(O, T, p, i)
  BY <1>2, <1>3, <1>5, <1>6, <1>8, <1>9 DEF Moves, old
<1>11. T = stack[2].table /\ O = stack[1].table /\ p = stack[1].moving
  BY <1>3 DEF T, O, p, old
<1> QED
  BY <1>1, <1>10, <1>11

\* The rehash goes on, or the new table becomes the caller's map.
LEMMA MoveStep ==
  ASSUME IInv, RehashInv, MoveEntry PROVE RehashInv'
<1> DEFINE O == stack[1].table
           p == stack[1].moving
           T == stack[2].table
           e == O.slot[p]
           rest == Clear(O, p)
           next == Min(Later(O, p))
<1>1. Len(stack) = 2
  BY MoveShape
<1>2. PICK i : Moves(O, T, p, i)
  BY MoveShape
<1> DEFINE new == Store(T, i, e)
<1>3. Small(O) /\ Small(T) /\ Halfway(O, T, p)
  <2>1. 1 \in 1..Len(stack) /\ 2 \in 1..Len(stack)
    BY <1>1
  <2> QED
    BY <1>1, <2>1 DEF RehashInv
<1> HIDE DEF O, p, T
<1>4. /\ GoodTable(O) /\ GoodTable(T) /\ Apart(O, T) /\ p \in Used(O)
      /\ e \in Elements /\ i \in Slots(T, e.key)
  BY <1>2 DEF Moves
<1>5. \A j \in Used(T) : T.slot[j].key # e.key
  BY <1>4 DEF Apart
<1>6. Small(new) /\ Small(rest)
  BY <1>3, <1>4, StoreCount, ClearCount
<1>7. CASE Later(O, p) = {}
  <2>1. stack' = <<Level(new, stack[1].entry)>>
    BY <1>2, <1>7 DEF Moves
  <2> HIDE DEF new
  <2> QED
    BY <1>6, <2>1, OneSmall
<1>8. CASE Later(O, p) # {}
  <2>1. /\ next \in Later(O, p)
        /\ stack' = <<Moving(rest, stack[1].entry, next), Level(new, rest.slot[next])>>
    BY <1>2, <1>8 DEF Moves
  <2>2. next \in Nat /\ next > p
    <3>1. GoodTable(rest)
      BY <1>4, ClearGood
    <3> QED
      BY <2>1, <3>1, UsedFinite DEF Later
  <2> HIDE DEF next, e
  <2>3. Halfway(rest, new, next)
    BY <1>3, <1>4, <1>5, <2>2, StoreHalfway DEF e
  <2> HIDE DEF new, rest
  <2> QED
    BY <1>6, <2>1, <2>3, TwoHalfway
<1> QED
  BY <1>7, <1>8

\* A step that leaves the stack leaves what is said of it.
LEMMA StackStill ==
  ASSUME RehashInv, stack' = stack PROVE RehashInv'
BY DEF RehashInv

\* A removal leaves the map no fuller than it was.
LEMMA WithoutStep ==
  ASSUME IInv, RehashInv, NEW k \in Keys, stack' = Without(k) PROVE RehashInv'
<1>1. CASE Holding(Map, k) = {}
  BY <1>1, StackStill DEF Without
<1>2. CASE Holding(Map, k) # {}
  <2> DEFINE i == Min(Holding(Map, k))
  <2>1. GoodTable(Map) /\ Small(Map)
    BY MapSmall
  <2>2. i \in Used(Map)
    <3>1. Holding(Map, k) \in SUBSET Nat /\ Holding(Map, k) \subseteq Used(Map)
      BY <2>1, UsedFinite DEF Holding
    <3> QED
      BY <1>2, <3>1, MinLeast
  <2>3. Small(Clear(Map, i)) /\ stack' = <<Level(Clear(Map, i), Free)>>
    BY <1>2, <2>1, <2>2, ClearCount DEF Without
  <2> QED
    BY <2>3, OneSmall
<1> QED
  BY <1>1, <1>2

\* Every step keeps the invariant.
LEMMA RehashKept == IInv /\ RehashInv /\ [Next]_vars => RehashInv'
<1> SUFFICES ASSUME IInv, RehashInv, [Next]_vars PROVE RehashInv'
  OBVIOUS
<1>1. GoodTable(Map) /\ Small(Map)
  BY MapSmall
<1>2. ASSUME NEW c \in Capacities, Create(c) PROVE RehashInv'
  <2>1. GoodTable(Created(c)) /\ Used(Created(c)) = {}
    BY CreatedGood
  <2>2. Created(c).size = 0 /\ Created(c).log2_capacity \in 0..(Width - 1)
    BY <2>1, FS_EmptySet DEF GoodTable
  <2> DEFINE n == Capacity(Created(c).log2_capacity)
  <2>3. n \in Nat
    BY <2>2, PlacesFinite
  <2> HIDE DEF n
  <2>4. 0 <= n
    BY <2>3
  <2>5. Small(Created(c))
    BY <2>2, <2>4 DEF Small, n
  <2> QED
    BY <1>2, <2>5, OneSmall DEF Create
<1>3. CASE Destroy
  <2>1. 0 \in 0..(Width - 1)
    BY WidthAssumption
  <2>2. Small(EmptyTable(0))
    BY <2>1, EmptySmall
  <2> QED
    BY <1>3, <2>2, OneSmall DEF Destroy
<1>4. CASE PutStores
  <2>1. call = "put" /\ Len(stack) = 1
    BY <1>4 DEF PutStores
  <2>2. PICK i \in Slots(Map, Top.entry.key) : stack' = <<Level(Store(Map, i, Top.entry), Free)>>
    BY <1>4 DEF PutStores
  <2>3. Top.entry \in Elements
    BY <2>1, TopEntry
  <2>4. Small(Store(Map, i, Top.entry))
    BY <1>1, <2>2, <2>3, StoreCount
  <2> QED
    BY <2>2, <2>4, OneSmall
<1>5. CASE PutFails
  <2>1. stack' = <<Level(Map, Free)>>
    BY <1>5 DEF PutFails
  <2> QED
    BY <1>1, <2>1, OneSmall
<1>6. ASSUME NEW k \in Keys, NEW d \in Data, PutBegin(k, d) PROVE RehashInv'
  <2>1. stack' = <<Level(Map, [key |-> k, data |-> d])>>
    BY <1>6 DEF PutBegin
  <2> QED
    BY <1>1, <2>1, OneSmall
<1>7. ASSUME NEW r \in {-1, 0, 1}, PairCallback(r) PROVE RehashInv'
  <2>1. CASE r = -1
    <3>1. at \in Used(Map) /\ stack' = <<Level(Clear(Map, at), Free)>>
      BY <1>7, <2>1 DEF PairCallback
    <3>2. Small(Clear(Map, at))
      BY <1>1, <3>1, ClearCount
    <3> QED
      BY <3>1, <3>2, OneSmall
  <2>2. CASE r # -1
    BY <1>7, <2>2, StackStill DEF PairCallback
  <2> QED
    BY <2>1, <2>2
<1>8. CASE SkipFree \/ Callback(0) \/ Callback(1) \/ IterateEnd
  BY <1>8, StackStill DEF SkipFree, Callback, IterateEnd
<1>9. CASE IterateStep
  BY <1>7, <1>8, <1>9 DEF IterateStep
<1>10. CASE PutStep
  BY <1>4, <1>5, <1>10, RehashStep, MoveStep DEF PutStep
<1>11. CASE Refuse \/ NumEntries \/ Crash \/ Ended \/ UNCHANGED vars
  BY <1>11, StackStill DEF Refuse, NumEntries, Crash, Ended, vars
<1>12. ASSUME NEW op \in Iterations, IterateBegin(op) PROVE RehashInv'
  BY <1>12, StackStill DEF IterateBegin
<1>13. ASSUME NEW k \in Keys, Get(k) \/ Remove(k) \/ RemoveAndReturnKey(k) PROVE RehashInv'
  <2>1. stack' = stack \/ stack' = Without(k)
    BY <1>13 DEF Get, Remove, RemoveAndReturnKey
  <2> QED
    BY <2>1, StackStill, WithoutStep
<1> QED
  BY <1>2, <1>3, <1>6, <1>9, <1>10, <1>11, <1>12, <1>13 DEF Next

\* The first state.
LEMMA RehashInit == Init => RehashInv
<1> SUFFICES ASSUME Init PROVE RehashInv
  OBVIOUS
<1>1. Small(EmptyTable(0))
  <2>1. 0 \in 0..(Width - 1)
    BY WidthAssumption
  <2> QED
    BY <2>1, EmptySmall
<1> DEFINE L == Level(EmptyTable(0), Free)
<1>2. stack = <<L>> /\ L.table = EmptyTable(0)
  BY DEF Init, Level, Moving
<1> HIDE DEF L
<1>3. Len(stack) = 1 /\ stack[1] = L
  BY <1>2
<1>4. Len(stack) <= 2 /\ Len(stack) # 2 /\ \A i \in 1..Len(stack) : i = 1
  BY <1>3
<1> QED
  BY <1>1, <1>2, <1>3, <1>4 DEF RehashInv

\* hashmap_put, which hashmap_rehash_helper calls for every element, never calls
\* hashmap_rehash_helper again: the recursion is one deep, and a put allocates
\* one table at a time, whatever the hashes are.
THEOREM RehashNeverNestsCorrect == Spec => []RehashNeverNests
<1>1. Init => IInv /\ RehashInv
  BY InitInv, RehashInit
<1>2. IInv /\ RehashInv /\ [Next]_vars => (IInv /\ RehashInv)'
  BY NextKeeps, RehashKept
<1>3. IInv /\ RehashInv => RehashNeverNests
  BY DEF RehashInv, RehashNeverNests
<1> QED
  BY <1>1, <1>2, <1>3, PTL DEF Spec

----------------------------------------------------------------------------
(* The hash map implements the abstract map: what its tables hold together,  *)
(* in the middle of a rehash as well, changes only as the calls promise.     *)

----------------------------------------------------------------------------
(* Sets of elements as maps *)

Els(T) == { T.slot[i] : i \in Used(T) }
TablesOf(s) == { s[i].table : i \in DOMAIN s }
ElsOf(s) == UNION { Els(T) : T \in TablesOf(s) }

Functional(E) == \A d, e \in E : d.key = e.key => d = e
FunOf(E) == [k \in { e.key : e \in E } |-> (CHOOSE e \in E : e.key = k).data]

\* The contents of the map are the map of its elements.
LEMMA ContentsAre ==
  /\ Contents = FunOf(ElsOf(stack))
  /\ Contents' = FunOf(ElsOf(stack'))
BY DEF Contents, FunOf, ElsOf, Els, TablesOf, Tables

\* No elements are the empty map.
LEMMA FunEmpty == FunOf({}) = << >>
<1>1. { e.key : e \in {} } = {}
  OBVIOUS
<1>2. FunOf({}) = [k \in {} |-> 0]
  BY <1>1 DEF FunOf
<1> QED
  BY <1>2

\* The map of a set of elements has the data of each under its key.
LEMMA FunKey ==
  ASSUME NEW E, Functional(E)
  PROVE  /\ DOMAIN FunOf(E) = { e.key : e \in E }
         /\ \A e \in E : e.key \in DOMAIN FunOf(E) /\ FunOf(E)[e.key] = e.data
<1>1. DOMAIN FunOf(E) = { e.key : e \in E }
  BY DEF FunOf
<1>2. ASSUME NEW e \in E PROVE FunOf(E)[e.key] = e.data
  <2> DEFINE c == CHOOSE d \in E : d.key = e.key
  <2>1. c \in E /\ c.key = e.key
    OBVIOUS
  <2>2. c = e
    BY <2>1 DEF Functional
  <2> QED
    BY <2>2 DEF FunOf
<1> QED
  BY <1>1, <1>2

\* Two maps of elements with the same keys and data.
LEMMA FunSame ==
  ASSUME NEW E, Functional(E), NEW S, NEW g, g = [k \in S |-> g[k]],
         S = { e.key : e \in E }, \A e \in E : g[e.key] = e.data
  PROVE  FunOf(E) = g
<1>1. FunOf(E) = [k \in S |-> FunOf(E)[k]]
  BY DEF FunOf
<1>2. \A k \in S : FunOf(E)[k] = g[k]
  <2> SUFFICES ASSUME NEW k \in S PROVE FunOf(E)[k] = g[k]
    OBVIOUS
  <2>1. PICK e \in E : k = e.key
    OBVIOUS
  <2>2. FunOf(E)[e.key] = e.data
    BY FunKey
  <2> QED
    BY <2>1, <2>2
<1> QED
  BY <1>1, <1>2

\* A function with one value replaced or added.
With(f, k, d) == [x \in DOMAIN f \cup {k} |-> IF x = k THEN d ELSE f[x]]

\* An element replaces the one with its key.
LEMMA FunPut ==
  ASSUME NEW E, Functional(E), NEW e, NEW F, F = {x \in E : x.key # e.key} \cup {e}
  PROVE  FunOf(F) = With(FunOf(E), e.key, e.data)
<1> DEFINE S == DOMAIN FunOf(E) \cup {e.key}
           g == [k \in S |-> IF k = e.key THEN e.data ELSE FunOf(E)[k]]
<1>1. Functional(F)
  BY DEF Functional
<1>2. S = { x.key : x \in F }
  <2>1. DOMAIN FunOf(E) = { x.key : x \in E }
    BY FunKey
  <2> QED
    BY <2>1
<1>3. \A x \in F : g[x.key] = x.data
  BY <1>2, FunKey
<1> HIDE DEF S
<1>4. g = [k \in S |-> g[k]]
  OBVIOUS
<1> HIDE DEF g
<1>5. FunOf(F) = g
  BY <1>1, <1>2, <1>3, <1>4, FunSame
<1> QED
  BY <1>5 DEF g, S, With

\* The element of a key is taken away.
LEMMA FunRemove ==
  ASSUME NEW E, Functional(E), NEW k, NEW F, F = {x \in E : x.key # k}
  PROVE  FunOf(F) = Abstract!Restrict(FunOf(E), DOMAIN FunOf(E) \ {k})
<1> DEFINE S == DOMAIN FunOf(E) \ {k}
           g == [x \in S |-> FunOf(E)[x]]
<1>1. Functional(F)
  BY DEF Functional
<1>2. S = { x.key : x \in F }
  <2>1. DOMAIN FunOf(E) = { x.key : x \in E }
    BY FunKey
  <2> QED
    BY <2>1
<1>3. \A x \in F : g[x.key] = x.data
  BY <1>2, FunKey
<1> HIDE DEF S
<1>4. g = [x \in S |-> g[x]]
  OBVIOUS
<1> HIDE DEF g
<1>5. FunOf(F) = g
  BY <1>1, <1>2, <1>3, <1>4, FunSame
<1> QED
  BY <1>5 DEF g, S, Abstract!Restrict

----------------------------------------------------------------------------
(* The elements of a table *)

\* A well-formed table has one element for a key.
LEMMA ElsGood ==
  ASSUME NEW T, GoodTable(T)
  PROVE  Functional(Els(T)) /\ Els(T) \subseteq Elements
BY UsedFinite DEF Functional, Els, GoodTable

\* A store replaces the element of the key.
LEMMA StoreEls ==
  ASSUME NEW T, GoodTable(T), NEW e \in Elements, NEW i \in Slots(T, e.key)
  PROVE  Els(Store(T, i, e)) = {x \in Els(T) : x.key # e.key} \cup {e}
<1> DEFINE U == Store(T, i, e)
<1>1. Used(U) = Used(T) \cup {i} /\ U.slot[i] = e /\ \A j \in Used(T) \ {i} : U.slot[j] = T.slot[j]
  BY StoreGood
<1>2. \A j \in Used(T) : j # i <=> T.slot[j].key # e.key
  <2>1. e.key \in Keys
    BY DEF Elements
  <2>2. \/ i \in Used(T) /\ T.slot[i].key = e.key
        \/ i \notin Used(T) /\ \A j \in Used(T) : T.slot[j].key # e.key
    BY <2>1, SlotsRight
  <2> QED
    BY <2>2 DEF GoodTable
<1> HIDE DEF U
<1>3. Els(U) \subseteq {x \in Els(T) : x.key # e.key} \cup {e}
  BY <1>1, <1>2 DEF Els
<1>4. {x \in Els(T) : x.key # e.key} \cup {e} \subseteq Els(U)
  BY <1>1, <1>2 DEF Els
<1> QED
  BY <1>3, <1>4 DEF U

\* A slot that is cleared takes the element of its key away.
LEMMA ClearEls ==
  ASSUME NEW T, GoodTable(T), NEW i \in Used(T)
  PROVE  Els(Clear(T, i)) = {x \in Els(T) : x.key # T.slot[i].key}
<1> DEFINE U == Clear(T, i)
<1>1. Used(U) = Used(T) \ {i} /\ \A j \in Used(T) \ {i} : U.slot[j] = T.slot[j]
  BY ClearGood
<1>2. \A j \in Used(T) : j # i <=> T.slot[j].key # T.slot[i].key
  BY DEF GoodTable
<1> HIDE DEF U
<1> QED
  BY <1>1, <1>2 DEF Els, U

\* The probe of a lookup finds the element of a key, if there is one.
LEMMA HoldingEls ==
  ASSUME NEW T, GoodTable(T), NEW k \in Keys
  PROVE  /\ Holding(T, k) = {} <=> k \notin DOMAIN FunOf(Els(T))
         /\ Holding(T, k) # {} =>
              /\ Min(Holding(T, k)) \in Used(T) /\ T.slot[Min(Holding(T, k))].key = k
              /\ FunOf(Els(T))[k] = T.slot[Min(Holding(T, k))].data
<1>1. Functional(Els(T))
  BY ElsGood
<1>2. DOMAIN FunOf(Els(T)) = { e.key : e \in Els(T) }
  BY <1>1, FunKey
<1>3. Holding(T, k) = {i \in Used(T) : T.slot[i].key = k}
  BY DEF Holding, GoodTable
<1>4. Holding(T, k) = {} <=> k \notin DOMAIN FunOf(Els(T))
  BY <1>2, <1>3 DEF Els
<1>5. ASSUME Holding(T, k) # {}
      PROVE  /\ Min(Holding(T, k)) \in Used(T) /\ T.slot[Min(Holding(T, k))].key = k
             /\ FunOf(Els(T))[k] = T.slot[Min(Holding(T, k))].data
  <2> DEFINE i == Min(Holding(T, k))
  <2>1. Holding(T, k) \in SUBSET Nat
    BY <1>3, UsedFinite
  <2>2. i \in Holding(T, k)
    BY <1>5, <2>1, MinLeast
  <2>3. i \in Used(T) /\ T.slot[i].key = k
    BY <1>3, <2>2
  <2> HIDE DEF i
  <2>4. T.slot[i] \in Els(T)
    BY <2>3 DEF Els
  <2>5. FunOf(Els(T))[T.slot[i].key] = T.slot[i].data
    BY <1>1, <2>4, FunKey
  <2> QED
    BY <2>3, <2>5 DEF i
<1> QED
  BY <1>4, <1>5

\* The number of keys is the number of slots in use.
LEMMA CardinalityKeys ==
  ASSUME NEW T, GoodTable(T)
  PROVE  Cardinality(DOMAIN FunOf(Els(T))) = T.size
<1> DEFINE D == DOMAIN FunOf(Els(T))
           f == [i \in Used(T) |-> T.slot[i].key]
<1>1. D = { e.key : e \in Els(T) }
  BY ElsGood, FunKey
<1>2. D = { T.slot[i].key : i \in Used(T) }
  BY <1>1 DEF Els
<1> HIDE DEF D
<1>3. f \in [Used(T) -> D]
  BY <1>2
<1>4. \A i, j \in Used(T) : f[i] = f[j] => i = j
  BY DEF GoodTable
<1>5. \A k \in D : \E i \in Used(T) : f[i] = k
  BY <1>2
<1> HIDE DEF f
<1>6. f \in Bijection(Used(T), D)
  BY <1>3, <1>4, <1>5 DEF Bijection, Injection, Surjection, IsInjective
<1>7. IsFiniteSet(Used(T)) /\ T.size = Cardinality(Used(T))
  BY UsedFinite DEF GoodTable
<1>8. Cardinality(Used(T)) = Cardinality(D)
  BY <1>6, <1>7, FS_Bijection DEF ExistsBijection
<1> QED
  BY <1>7, <1>8 DEF D
----------------------------------------------------------------------------
(* Stacks of one table and of two *)

\* The caller's map alone.
LEMMA OneStack ==
  ASSUME NEW T, NEW e, NEW s, s = <<Level(T, e)>>
  PROVE  /\ Len(s) = 1 /\ s[1].table = T /\ s[1].entry = e
         /\ ElsOf(s) = Els(T)
<1> DEFINE L == Level(T, e)
<1>1. L.table = T /\ L.entry = e
  BY DEF Level, Moving
<1> HIDE DEF L
<1>2. s = <<L>>
  BY DEF L
<1>3. Len(s) = 1 /\ DOMAIN s = {1} /\ s[1] = L
  BY <1>2
<1>4. TablesOf(s) = {T}
  BY <1>1, <1>3 DEF TablesOf
<1> QED
  BY <1>1, <1>3, <1>4 DEF ElsOf

\* The map and the table that a rehash fills.
LEMMA TwoStack ==
  ASSUME NEW O, NEW e, NEW p, NEW N, NEW d, NEW s, s = <<Moving(O, e, p), Level(N, d)>>
  PROVE  /\ Len(s) = 2 /\ s[1].table = O /\ s[1].entry = e /\ s[1].moving = p
         /\ ElsOf(s) = Els(O) \cup Els(N)
<1> DEFINE L == Moving(O, e, p)
           M == Level(N, d)
<1>1. L.table = O /\ L.entry = e /\ L.moving = p /\ M.table = N
  BY DEF Level, Moving
<1> HIDE DEF L, M
<1>2. s = <<L, M>>
  BY DEF L, M
<1>3. Len(s) = 2 /\ DOMAIN s = {1, 2} /\ s[1] = L /\ s[2] = M
  BY <1>2
<1>4. TablesOf(s) = {O, N}
  BY <1>1, <1>3 DEF TablesOf
<1> QED
  BY <1>1, <1>3, <1>4 DEF ElsOf

\* What the tables of a stack hold.
LEMMA ElsOfStack ==
  ASSUME IInv
  PROVE  /\ Len(stack) = 1 => ElsOf(stack) = Els(Map)
         /\ Len(stack) = 2 => ElsOf(stack) = Els(stack[1].table) \cup Els(stack[2].table)
<1>1. DOMAIN stack = 1..Len(stack)
  BY DEF IInv, GoodStack
<1>2. ASSUME Len(stack) = 1 PROVE ElsOf(stack) = Els(Map)
  <2>1. DOMAIN stack = {1}
    BY <1>1, <1>2
  <2>2. TablesOf(stack) = {Map}
    BY <2>1 DEF TablesOf, Map
  <2> QED
    BY <2>2 DEF ElsOf
<1>3. ASSUME Len(stack) = 2
      PROVE  ElsOf(stack) = Els(stack[1].table) \cup Els(stack[2].table)
  <2>1. DOMAIN stack = {1, 2}
    BY <1>1, <1>3
  <2>2. TablesOf(stack) = {stack[1].table, stack[2].table}
    BY <2>1 DEF TablesOf
  <2> QED
    BY <2>2 DEF ElsOf
<1> QED
  BY <1>2, <1>3

----------------------------------------------------------------------------
(* What is known of a call in progress *)

\* A map that was destroyed is empty.  The callback of an iteration has had the
\* elements behind it and no other.  A rehash has moved the elements behind it.
CallInv ==
  /\ call = "destroyed" => stack = <<Level(EmptyTable(0), Free)>>
  /\ call \notin Iterations => at = 0 /\ seen = {}
  /\ \A i \in Used(Map) : i < at <=> Map.slot[i].key \in seen
  /\ Len(stack) = 2 => \A i \in Used(stack[1].table) : stack[1].moving <= i

\* No iteration is at work on a map of one table.
LEMMA RestOne ==
  ASSUME NEW T, GoodTable(T), NEW e, stack' = <<Level(T, e)>>,
         at' = 0, seen' = {}, call' # "destroyed"
  PROVE  CallInv'
<1>1. Len(stack') = 1 /\ Map' = T
  BY OneStack DEF Map
<1>2. \A i \in Used(T) : ~(i < 0)
  BY UsedFinite
<1>3. Len(stack') # 2
  BY <1>1
<1> QED
  BY <1>1, <1>2, <1>3 DEF CallInv

\* No iteration is at work on the map of a rehash.
LEMMA RestTwo ==
  ASSUME NEW O, GoodTable(O), NEW e, NEW p, NEW N, NEW d,
         stack' = <<Moving(O, e, p), Level(N, d)>>, \A i \in Used(O) : p <= i,
         at' = 0, seen' = {}, call' # "destroyed"
  PROVE  CallInv'
<1>1. Map' = O /\ stack'[1].table = O /\ stack'[1].moving = p
  BY TwoStack DEF Map
<1>2. \A i \in Used(O) : ~(i < 0)
  BY UsedFinite
<1> QED
  BY <1>1, <1>2 DEF CallInv

\* No iteration is at work on a map that stays as it is.
LEMMA RestSame ==
  ASSUME IInv, CallInv, stack' = stack, at' = 0, seen' = {}, call' # "destroyed"
  PROVE  CallInv'
<1>1. Map' = Map
  BY DEF Map
<1>2. \A i \in Used(Map) : ~(i < 0)
  BY MapGood, UsedFinite
<1> QED
  BY <1>1, <1>2 DEF CallInv

\* The callback is given the element at the position of the iteration.
LEMMA VisitedSeen ==
  ASSUME IInv, CallInv, call \in Iterations, at \in Used(Map), Visited,
         NEW T, GoodTable(T), Map' = T, Len(stack') = 1,
         Used(T) = Used(Map) \/ Used(T) = Used(Map) \ {at},
         \A j \in Used(T) : T.slot[j] = Map.slot[j]
  PROVE  CallInv'
<1>1. seen' = seen \cup {Map.slot[at].key} /\ at' = at + 1 /\ call' = call
  BY DEF Visited
<1>2. GoodTable(Map) /\ at \in Nat /\ Used(Map) \subseteq Nat
  BY MapGood, UsedFinite DEF IInv
<1>3. \A i \in Used(T) : i < at' <=> T.slot[i].key \in seen'
  <2> SUFFICES ASSUME NEW i \in Used(T) PROVE i < at' <=> T.slot[i].key \in seen'
    OBVIOUS
  <2>1. i \in Used(Map) /\ T.slot[i] = Map.slot[i] /\ i \in Nat
    BY <1>2
  <2>2. i < at <=> Map.slot[i].key \in seen
    BY <2>1 DEF CallInv
  <2>3. Map.slot[i].key = Map.slot[at].key <=> i = at
    BY <1>2, <2>1 DEF GoodTable
  <2>4. i < at + 1 <=> i < at \/ i = at
    BY <1>2, <2>1
  <2> QED
    BY <1>1, <2>1, <2>2, <2>3, <2>4
<1>4. call' # "destroyed" /\ call' \in Iterations
  BY <1>1 DEF Iterations
<1>5. Len(stack') # 2
  OBVIOUS
<1> QED
  BY <1>3, <1>4, <1>5 DEF CallInv
\* What a move leaves of the old table.
LEMMA MovesLeave ==
  ASSUME NEW O, NEW N, NEW p, NEW i, Moves(O, N, p, i), \A j \in Used(O) : p <= j
  PROVE  LET rest == Clear(O, p)
             new == Store(N, i, O.slot[p])
             next == Min(Later(O, p))
         IN  /\ GoodTable(rest) /\ GoodTable(new)
             /\ Later(O, p) = {} => Els(rest) = {}
             /\ Later(O, p) # {} => \A j \in Used(rest) : next <= j
             /\ Els(rest) \cup Els(new) = Els(O) \cup Els(N)
<1> DEFINE rest == Clear(O, p)
           e == O.slot[p]
           new == Store(N, i, e)
           next == Min(Later(O, p))
<1>1. /\ GoodTable(O) /\ GoodTable(N) /\ Apart(O, N) /\ p \in Used(O)
      /\ e \in Elements /\ i \in Slots(N, e.key)
  BY DEF Moves
<1>2. GoodTable(rest) /\ GoodTable(new) /\ Used(rest) = Used(O) \ {p} /\ Used(O) \subseteq Nat
  BY <1>1, ClearGood, StoreGood, UsedFinite
<1>3. \A j \in Used(rest) : j \in Later(O, p)
  <2> SUFFICES ASSUME NEW j \in Used(rest) PROVE j > p
    BY DEF Later
  <2>1. j \in Nat /\ p \in Nat /\ p <= j /\ j # p
    BY <1>1, <1>2
  <2> QED
    BY <2>1
<1>4. Later(O, p) = {} => Els(rest) = {}
  BY <1>3 DEF Els
<1>5. Later(O, p) # {} => \A j \in Used(rest) : next <= j
  BY <1>3 DEF Moves
<1>6. Els(rest) \cup Els(new) = Els(O) \cup Els(N)
  <2>1. Els(rest) = {x \in Els(O) : x.key # e.key}
    BY <1>1, ClearEls
  <2>2. Els(new) = {x \in Els(N) : x.key # e.key} \cup {e}
    BY <1>1, StoreEls
  <2>3. \A x \in Els(N) : x.key # e.key
    BY <1>1 DEF Apart, Els
  <2>4. e \in Els(O) /\ \A x \in Els(O) : x.key = e.key => x = e
    BY <1>1, ElsGood DEF Els, Functional
  <2> HIDE DEF rest, new, e
  <2> QED
    BY <2>1, <2>2, <2>3, <2>4
<1> QED
  BY <1>2, <1>4, <1>5, <1>6

\* A put in progress has no iteration.
LEMMA InPut ==
  ASSUME CallInv, call = "put" PROVE at = 0 /\ seen = {}
BY DEF CallInv, Iterations

\* Every step keeps what is known of the call.
LEMMA CallKept == IInv /\ RehashInv /\ CallInv /\ [Next]_vars => CallInv'
<1> SUFFICES ASSUME IInv, RehashInv, CallInv, [Next]_vars PROVE CallInv'
  OBVIOUS
<1>1. GoodTable(Map)
  BY MapGood
<1>2. \A op, value : Returns(op, value) => at' = 0 /\ seen' = {} /\ call' # "destroyed"
  BY DEF Returns
<1>3. Idle => at = 0 /\ seen = {}
  BY DEF Idle, CallInv, Iterations
<1>4. ASSUME NEW c \in Capacities, Create(c) PROVE CallInv'
  <2>1. GoodTable(Created(c))
    BY CreatedGood
  <2> QED
    BY <1>2, <1>4, <2>1, RestOne DEF Create
<1>5. CASE Destroy
  <2> DEFINE T == EmptyTable(0)
  <2>1. stack' = <<Level(T, Free)>> /\ at' = 0 /\ seen' = {} /\ call' = "destroyed"
    BY <1>3, <1>5 DEF Destroy, Begins
  <2>2. Used(T) = {}
    <3>1. 0 \in 0..(Width - 1)
      BY WidthAssumption
    <3> QED
      BY <3>1, EmptyGood
  <2>3. Len(stack') = 1 /\ Map' = T
    BY <2>1, OneStack DEF Map
  <2>4. Len(stack') # 2
    BY <2>3
  <2> QED
    BY <2>1, <2>2, <2>3, <2>4 DEF CallInv
<1>6. CASE PutStores
  <2>1. PICK i \in Slots(Map, Top.entry.key) : stack' = <<Level(Store(Map, i, Top.entry), Free)>>
    BY <1>6 DEF PutStores
  <2>2. GoodTable(Store(Map, i, Top.entry))
    BY <1>1, <1>6, <2>1, TopEntry, StoreGood DEF PutStores
  <2> QED
    BY <1>2, <1>6, <2>1, <2>2, RestOne DEF PutStores
<1>7. CASE Rehash
  <2>1. call = "put" /\ UNCHANGED <<call, at, seen>>
    BY <1>7 DEF Rehash
  <2>2. Used(Map) \in SUBSET Nat /\ Used(Map) # {}
    BY <1>1, <1>7, RehashShape, UsedFinite
  <2>3. \A i \in Used(Map) : Min(Used(Map)) <= i
    BY <2>2, MinLeast
  <2> QED
    BY <1>1, <1>7, <2>1, <2>3, InPut, RehashShape, RestTwo
<1>8. CASE MoveEntry
  <2> DEFINE O == stack[1].table
             N == stack[2].table
             p == stack[1].moving
  <2>1. at' = 0 /\ seen' = {} /\ call' # "destroyed"
    BY <1>8, InPut DEF MoveEntry
  <2>2. PICK i : Moves(O, N, p, i)
    BY <1>8, MoveShape
  <2>3. \A j \in Used(O) : p <= j
    BY <1>8, MoveShape DEF CallInv
  <2> HIDE DEF O, N, p
  <2>4. /\ GoodTable(Clear(O, p)) /\ GoodTable(Store(N, i, O.slot[p]))
        /\ Later(O, p) # {} => \A j \in Used(Clear(O, p)) : Min(Later(O, p)) <= j
    BY <2>2, <2>3, MovesLeave
  <2>5. CASE Later(O, p) = {}
    <3>1. stack' = <<Level(Store(N, i, O.slot[p]), stack[1].entry)>>
      BY <2>2, <2>5 DEF Moves
    <3> QED
      BY <2>1, <2>4, <3>1, RestOne
  <2>6. CASE Later(O, p) # {}
    <3>1. stack' = <<Moving(Clear(O, p), stack[1].entry, Min(Later(O, p))),
                     Level(Store(N, i, O.slot[p]), Clear(O, p).slot[Min(Later(O, p))])>>
      BY <2>2, <2>6 DEF Moves
    <3> QED
      BY <2>1, <2>4, <2>6, <3>1, RestTwo
  <2> QED
    BY <2>5, <2>6
<1>9. CASE PutFails
  BY <1>1, <1>2, <1>9, RestOne DEF PutFails
<1>10. ASSUME NEW k \in Keys, NEW d \in Data, PutBegin(k, d) PROVE CallInv'
  <2>1. at' = 0 /\ seen' = {} /\ call' = "put" /\ stack' = <<Level(Map, [key |-> k, data |-> d])>>
    BY <1>3, <1>10 DEF PutBegin, Begins
  <2> QED
    BY <1>1, <2>1, RestOne
<1>11. CASE Refuse \/ NumEntries
  <2>1. stack' = stack /\ at' = 0 /\ seen' = {} /\ call' # "destroyed"
    BY <1>2, <1>11 DEF Refuse, NumEntries
  <2> QED
    BY <2>1, RestSame
<1>12. CASE Crash
  <2>1. stack' = stack /\ at' = at /\ seen' = seen /\ call' = "crashed" /\ call \notin Iterations
    BY <1>12 DEF Crash, Iterations
  <2>2. at' = 0 /\ seen' = {}
    BY <2>1 DEF CallInv
  <2> QED
    BY <2>1, <2>2, RestSame
<1>13. ASSUME NEW op \in Iterations, IterateBegin(op) PROVE CallInv'
  <2>1. stack' = stack /\ at' = 0 /\ seen' = {} /\ call' # "destroyed"
    BY <1>3, <1>13 DEF IterateBegin, Begins, Iterations
  <2> QED
    BY <2>1, RestSame
<1>14. ASSUME NEW k \in Keys, Get(k) PROVE CallInv'
  <2>1. stack' = stack /\ at' = 0 /\ seen' = {} /\ call' # "destroyed"
    BY <1>2, <1>14 DEF Get
  <2> QED
    BY <2>1, RestSame
<1>15. ASSUME NEW k \in Keys, Remove(k) \/ RemoveAndReturnKey(k) PROVE CallInv'
  <2>1. stack' = Without(k) /\ at' = 0 /\ seen' = {} /\ call' # "destroyed"
    BY <1>2, <1>15 DEF Remove, RemoveAndReturnKey
  <2>2. CASE Holding(Map, k) = {}
    BY <2>1, <2>2, RestSame DEF Without
  <2>3. CASE Holding(Map, k) # {}
    <3>1. GoodTable(Clear(Map, Min(Holding(Map, k))))
      BY <1>1, <2>3, HoldingEls, ClearGood
    <3> QED
      BY <2>1, <2>3, <3>1, RestOne DEF Without
  <2> QED
    BY <2>2, <2>3
<1>16. CASE IterateStep
  <2>1. call \in Iterations /\ call # "destroyed" /\ Len(stack) = 1
    <3>1. call \in Iterations
      BY <1>16 DEF IterateStep, SkipFree, Callback, PairCallback, IterateEnd, Iterations
    <3> QED
      BY <3>1 DEF Iterations, IInv
  <2>2. at \in Nat /\ Used(Map) \subseteq Nat
    BY <1>1, UsedFinite DEF IInv
  <2>3. CASE SkipFree
    <3>1. Map' = Map /\ stack' = stack /\ at' = at + 1 /\ seen' = seen /\ call' = call /\ at \notin Used(Map)
      BY <2>3 DEF SkipFree, Map
    <3>2. \A i \in Used(Map) : i < at + 1 <=> i < at
      <4> SUFFICES ASSUME NEW i \in Used(Map) PROVE i < at + 1 <=> i < at
        OBVIOUS
      <4>1. i \in Nat /\ i # at
        BY <2>2, <3>1
      <4> QED
        BY <2>2, <4>1
    <3>3. Len(stack') # 2
      BY <2>1, <3>1
    <3> QED
      BY <2>1, <3>1, <3>2, <3>3 DEF CallInv
  <2>4. ASSUME NEW r, Callback(r) PROVE CallInv'
    <3>1. at \in Used(Map) /\ stack' = stack /\ (Visited \/ Returns("iterate", 1))
      BY <2>4 DEF Callback
    <3>2. CASE Visited
      <4>1. Map' = Map /\ Len(stack') = 1
        BY <2>1, <3>1 DEF Map
      <4> QED
        BY <1>1, <2>1, <3>1, <3>2, <4>1, VisitedSeen
    <3>3. CASE Returns("iterate", 1)
      BY <1>2, <3>1, <3>3, RestSame
    <3> QED
      BY <3>1, <3>2, <3>3
  <2>5. CASE IterateEnd
    BY <1>2, <2>5, RestSame DEF IterateEnd
  <2>6. ASSUME NEW r \in {-1, 0, 1}, PairCallback(r) PROVE CallInv'
    <3>1. at \in Used(Map)
      BY <2>6 DEF PairCallback
    <3>2. CASE r = -1
      <4>1. stack' = <<Level(Clear(Map, at), Free)>> /\ Visited
        BY <2>6, <3>2 DEF PairCallback
      <4>2. Len(stack') = 1 /\ Map' = Clear(Map, at)
        BY <4>1, OneStack DEF Map
      <4>3. /\ GoodTable(Clear(Map, at)) /\ Used(Clear(Map, at)) = Used(Map) \ {at}
            /\ \A j \in Used(Clear(Map, at)) : Clear(Map, at).slot[j] = Map.slot[j]
        BY <1>1, <3>1, ClearGood
      <4> QED
        BY <2>1, <3>1, <4>1, <4>2, <4>3, VisitedSeen
    <3>3. CASE r = 0
      <4>1. stack' = stack /\ Visited
        BY <2>6, <3>3 DEF PairCallback
      <4>2. Map' = Map /\ Len(stack') = 1
        BY <2>1, <4>1 DEF Map
      <4> QED
        BY <1>1, <2>1, <3>1, <4>1, <4>2, VisitedSeen
    <3>4. CASE r = 1
      <4>1. stack' = stack /\ Returns("iterate_pairs", 1)
        BY <2>6, <3>4 DEF PairCallback
      <4> QED
        BY <1>2, <4>1, RestSame
    <3> QED
      BY <3>2, <3>3, <3>4
  <2> QED
    BY <1>16, <2>3, <2>4, <2>5, <2>6 DEF IterateStep
<1>17. CASE Ended \/ UNCHANGED vars
  BY <1>17 DEF Ended, vars, CallInv, Map
<1> QED
  BY <1>4, <1>5, <1>6, <1>7, <1>8, <1>9, <1>10, <1>11, <1>12, <1>13, <1>14, <1>15, <1>16, <1>17
     DEF Next, PutStep
----------------------------------------------------------------------------
(* Every step is a step of the abstract map, or none *)

\* The map alone holds everything while no put is in progress.
LEMMA AloneEls ==
  ASSUME IInv, call \notin {"put", "crashed"}
  PROVE  /\ Len(stack) = 1 /\ stack[1].entry = Free /\ GoodTable(Map)
         /\ Contents = FunOf(Els(Map)) /\ Functional(Els(Map))
BY MapGood, ElsOfStack, ContentsAre, ElsGood DEF IInv

\* After a step that leaves one table.
LEMMA OneNext ==
  ASSUME NEW T, NEW e, stack' = <<Level(T, e)>>
  PROVE  stack'[1].entry = e /\ Contents' = FunOf(Els(T))
<1>1. stack'[1].entry = e /\ ElsOf(stack') = Els(T)
  BY OneStack
<1> QED
  BY <1>1, ContentsAre

\* After a step that leaves the tables.
LEMMA SameNext ==
  ASSUME stack' = stack PROVE stack'[1].entry = stack[1].entry /\ Contents' = Contents
BY ContentsAre

\* A call returns to its caller.
LEMMA ReturnsAre ==
  ASSUME NEW op, NEW value, Returns(op, value) PROVE Abstract!Returns(op, value)
BY DEF Returns, Abstract!Returns

\* The number of keys, as the abstract map counts them.
LEMMA SizeIsCount == ASSUME NEW S PROVE Abstract!Cardinality(S) = Cardinality(S)
BY DEF Abstract!Cardinality, Cardinality

\* The map is created empty.
LEMMA CreateStep ==
  ASSUME IInv, CallInv, NEW c \in Capacities, Create(c) PROVE Abstract!Create
<1>1. call = "destroyed" /\ stack' = <<Level(Created(c), Free)>> /\ Abstract!Returns("create", 0)
  BY ReturnsAre DEF Create
<1>2. stack = <<Level(EmptyTable(0), Free)>>
  BY <1>1 DEF CallInv
<1>3. Used(EmptyTable(0)) = {}
  <2>1. 0 \in 0..(Width - 1)
    BY WidthAssumption
  <2> QED
    BY <2>1, EmptyGood
<1>4. Els(EmptyTable(0)) = {} /\ Els(Created(c)) = {}
  BY <1>3, CreatedGood DEF Els
<1>5. stack[1].entry = Free /\ ElsOf(stack) = Els(EmptyTable(0))
  BY <1>2, OneStack
<1>6. Contents = FunOf({})
  BY <1>4, <1>5, ContentsAre
<1>7. Contents' = FunOf({}) /\ stack'[1].entry = Free
  BY <1>1, <1>4, OneNext
<1> QED
  BY <1>1, <1>5, <1>6, <1>7 DEF Abstract!Create

\* The map is destroyed, and empty again.
LEMMA DestroyStep ==
  ASSUME IInv, Destroy PROVE Abstract!Destroy
<1>1. /\ Idle /\ call' = "destroyed" /\ ret' = Nothing /\ seen' = seen
      /\ stack' = <<Level(EmptyTable(0), Free)>>
  BY DEF Destroy, Begins
<1>2. call = "none" /\ stack[1].entry = Free
  BY <1>1, AloneEls DEF Idle
<1>3. Used(EmptyTable(0)) = {}
  <2>1. 0 \in 0..(Width - 1)
    BY WidthAssumption
  <2> QED
    BY <2>1, EmptyGood
<1>4. Contents' = << >> /\ stack'[1].entry = Free
  <2>1. Els(EmptyTable(0)) = {}
    BY <1>3 DEF Els
  <2> QED
    BY <1>1, <2>1, OneNext, FunEmpty
<1> QED
  BY <1>1, <1>2, <1>4 DEF Abstract!Destroy, Abstract!Begins, Abstract!Nothing, Nothing

\* A key that is no key.
LEMMA RefuseStep ==
  ASSUME IInv, Refuse PROVE Abstract!Refuse
<1>1. call = "none" /\ Contents' = Contents /\ stack'[1].entry = stack[1].entry
  BY SameNext DEF Refuse, Idle
<1>2. \/ \E op \in {"put", "remove"} : Abstract!Returns(op, 1)
      \/ \E op \in {"get", "remove_and_return_key"} : Abstract!Returns(op, NULL)
  BY ReturnsAre DEF Refuse
<1> QED
  BY <1>1, <1>2 DEF Abstract!Refuse

\* The data that was last put under a key.
LEMMA GetStep ==
  ASSUME IInv, NEW k \in Keys, Get(k) PROVE Abstract!Get(k)
<1>1. call = "none" /\ Contents' = Contents /\ stack'[1].entry = stack[1].entry
  BY SameNext DEF Get, Idle
<1>2. GoodTable(Map) /\ Contents = FunOf(Els(Map))
  BY <1>1, AloneEls
<1> DEFINE v == IF Holding(Map, k) = {} THEN NULL ELSE Map.slot[Min(Holding(Map, k))].data
           w == IF k \in DOMAIN Contents THEN Contents[k] ELSE NULL
<1>3. Returns("get", v)
  BY DEF Get
<1>4. v = w
  BY <1>2, HoldingEls
<1> HIDE DEF v, w
<1>5. Abstract!Returns("get", w)
  BY <1>3, <1>4, ReturnsAre
<1> QED
  BY <1>1, <1>5 DEF Abstract!Get, w

\* The number of entries.
LEMMA SizeStep ==
  ASSUME IInv, NumEntries PROVE Abstract!Size
<1>1. call = "none" /\ Contents' = Contents /\ stack'[1].entry = stack[1].entry
  BY SameNext DEF NumEntries, Idle
<1>2. Map.size = Abstract!Cardinality(DOMAIN Contents)
  BY <1>1, AloneEls, CardinalityKeys, SizeIsCount
<1>3. Abstract!Returns("num_entries", Map.size)
  BY ReturnsAre DEF NumEntries
<1> QED
  BY <1>1, <1>2, <1>3 DEF Abstract!Size

\* Both forms of remove.
LEMMA RemoveStep ==
  ASSUME IInv, NEW k \in Keys, Remove(k) \/ RemoveAndReturnKey(k) PROVE Abstract!Remove(k)
<1>1. Idle /\ call = "none" /\ stack' = Without(k)
  BY DEF Remove, RemoveAndReturnKey, Idle
<1>2. /\ GoodTable(Map) /\ Contents = FunOf(Els(Map)) /\ Functional(Els(Map))
      /\ stack[1].entry = Free
  BY <1>1, AloneEls
<1> DEFINE H == Holding(Map, k)
           F == {x \in Els(Map) : x.key # k}
<1>3. /\ H = {} <=> k \notin DOMAIN Contents
      /\ H # {} => /\ Min(H) \in Used(Map) /\ Map.slot[Min(H)].key = k
                   /\ Contents[k] = Map.slot[Min(H)].data
  BY <1>2, HoldingEls
<1>4. Contents' = FunOf(F) /\ stack'[1].entry = Free
  <2>1. CASE H = {}
    <3>1. F = Els(Map)
      <4>1. k \notin { x.key : x \in Els(Map) }
        BY <1>2, <1>3, <2>1, FunKey
      <4> QED
        BY <4>1
    <3>2. stack' = stack
      BY <1>1, <2>1 DEF Without
    <3> QED
      BY <1>2, <3>1, <3>2, SameNext
  <2>2. CASE H # {}
    <3>1. stack' = <<Level(Clear(Map, Min(H)), Free)>>
      BY <1>1, <2>2 DEF Without
    <3>2. Els(Clear(Map, Min(H))) = F
      BY <1>2, <1>3, <2>2, ClearEls
    <3> QED
      BY <3>1, <3>2, OneNext
  <2> QED
    BY <2>1, <2>2
<1> HIDE DEF F
<1>5. Contents' = Abstract!Restrict(Contents, DOMAIN Contents \ {k})
  BY <1>2, <1>4, FunRemove DEF F
<1>6. \/ Abstract!Returns("remove", IF k \in DOMAIN Contents THEN 0 ELSE 1)
      \/ Abstract!Returns("remove_and_return_key", IF k \in DOMAIN Contents THEN Contents[k] ELSE NULL)
  <2> DEFINE v == IF H = {} THEN 1 ELSE 0
             u == IF k \in DOMAIN Contents THEN 0 ELSE 1
             w == IF H = {} THEN NULL ELSE Map.slot[Min(H)].data
             x == IF k \in DOMAIN Contents THEN Contents[k] ELSE NULL
  <2>1. Returns("remove", v) \/ Returns("remove_and_return_key", w)
    BY DEF Remove, RemoveAndReturnKey
  <2>2. v = u /\ w = x
    BY <1>3
  <2> HIDE DEF v, w, u, x
  <2>3. Abstract!Returns("remove", u) \/ Abstract!Returns("remove_and_return_key", x)
    BY <2>1, <2>2, ReturnsAre
  <2> QED
    BY <2>3 DEF u, x
<1> QED
  BY <1>1, <1>2, <1>4, <1>5, <1>6 DEF Abstract!Remove
\* A put begins with the caller's entry.
LEMMA PutBeginStep ==
  ASSUME IInv, NEW k \in Keys, NEW d \in Data, PutBegin(k, d) PROVE Abstract!PutBegin(k, d)
<1> DEFINE e == [key |-> k, data |-> d]
<1>1. /\ call = "none" /\ call' = "put" /\ ret' = Nothing /\ seen' = seen
      /\ stack' = <<Level(Map, e)>>
  BY DEF PutBegin, Begins, Idle
<1>2. Contents = FunOf(Els(Map)) /\ stack[1].entry = Free
  BY <1>1, AloneEls
<1>3. stack'[1].entry = e /\ Contents' = FunOf(Els(Map))
  <2> HIDE DEF e
  <2> QED
    BY <1>1, OneNext
<1>4. e # Free
  BY FreeIsNone DEF Elements
<1> QED
  BY <1>1, <1>2, <1>3, <1>4 DEF Abstract!PutBegin, Abstract!Begins, Abstract!Nothing, Nothing

\* The entry is in the map when its put returns.
LEMMA PutSucceedsStep ==
  ASSUME IInv, PutStores PROVE Abstract!PutSucceeds
<1> DEFINE e == stack[1].entry
<1>1. call = "put" /\ Len(stack) = 1 /\ Returns("put", 0)
  BY DEF PutStores
<1>2. Top.entry = e /\ GoodTable(Map) /\ e \in Elements /\ e # Free
  BY <1>1, TopIsMap, TopEntry, MapGood, FreeIsNone
<1>3. PICK i \in Slots(Map, e.key) : stack' = <<Level(Store(Map, i, e), Free)>>
  BY <1>2 DEF PutStores
<1> HIDE DEF e
<1>4. Contents = FunOf(Els(Map)) /\ Functional(Els(Map))
  BY <1>1, <1>2, ElsOfStack, ContentsAre, ElsGood
<1> DEFINE F == {x \in Els(Map) : x.key # e.key} \cup {e}
<1>5. Contents' = FunOf(F) /\ stack'[1].entry = Free
  <2>1. Els(Store(Map, i, e)) = F
    BY <1>2, <1>3, StoreEls
  <2> QED
    BY <1>3, <2>1, OneNext
<1> HIDE DEF F
<1>6. FunOf(F) = With(FunOf(Els(Map)), e.key, e.data)
  <2> DEFINE E == Els(Map)
  <2>1. F = {x \in E : x.key # e.key} \cup {e}
    BY DEF F
  <2>2. Functional(E)
    BY <1>4
  <2> HIDE DEF E
  <2>3. FunOf(F) = With(FunOf(E), e.key, e.data)
    BY <2>1, <2>2, FunPut
  <2> QED
    BY <2>3 DEF E
<1>7. Contents' = [k \in DOMAIN Contents \cup {e.key} |->
                     IF k = e.key THEN e.data ELSE Contents[k]]
  BY <1>4, <1>5, <1>6 DEF With
<1>8. Abstract!Returns("put", 0)
  BY <1>1, ReturnsAre
<1> QED
  BY <1>1, <1>2, <1>5, <1>7, <1>8 DEF Abstract!PutSucceeds, e

\* A put that fails has lost nothing: no rehash was at work.
LEMMA PutFailsStep ==
  ASSUME IInv, RehashInv, PutFails PROVE Abstract!PutFails
<1>1. call = "put" /\ Slots(Top.table, Top.entry.key) = {} /\ stack' = <<Level(Map, Free)>>
  BY DEF PutFails
<1>2. Len(stack) = 1
  BY <1>1, FullIsMap
<1>3. Contents = FunOf(Els(Map))
  BY <1>2, ElsOfStack, ContentsAre
<1>4. Contents' = Contents /\ stack'[1].entry = Free
  BY <1>1, <1>3, OneNext
<1>5. Abstract!Returns("put", 1)
  BY ReturnsAre DEF PutFails
<1> QED
  BY <1>1, <1>4, <1>5 DEF Abstract!PutFails

\* A step of a rehash changes nothing that a caller could see.
LEMMA RehashStutters ==
  ASSUME IInv, RehashInv, CallInv, Rehash \/ MoveEntry
  PROVE  Contents' = Contents /\ stack'[1].entry = stack[1].entry
<1>1. CASE Rehash
  <2> DEFINE E == EmptyTable(Map.log2_capacity + 1)
             first == Min(Used(Map))
  <2>1. /\ Len(stack) = 1 /\ Map.log2_capacity + 1 \in 0..(Width - 1)
        /\ stack' = <<Moving(Map, stack[1].entry, first), Level(E, Map.slot[first])>>
    BY <1>1, RehashShape
  <2>2. Els(E) = {}
    BY <2>1, EmptyGood DEF Els
  <2> HIDE DEF E, first
  <2>3. stack'[1].entry = stack[1].entry /\ ElsOf(stack') = Els(Map) \cup Els(E)
    BY <2>1, TwoStack
  <2>4. ElsOf(stack) = Els(Map)
    BY <2>1, ElsOfStack
  <2>5. ElsOf(stack') = ElsOf(stack)
    BY <2>2, <2>3, <2>4
  <2> QED
    BY <2>3, <2>5, ContentsAre
<1>2. CASE MoveEntry
  <2> DEFINE O == stack[1].table
             N == stack[2].table
             p == stack[1].moving
  <2>1. Len(stack) = 2
    BY <1>2, MoveShape
  <2>2. PICK i : Moves(O, N, p, i)
    BY <1>2, MoveShape
  <2>3. \A j \in Used(O) : p <= j
    BY <2>1 DEF CallInv
  <2>4. ElsOf(stack) = Els(O) \cup Els(N)
    BY <2>1, ElsOfStack
  <2> HIDE DEF O, N, p
  <2> DEFINE rest == Clear(O, p)
             new == Store(N, i, O.slot[p])
             next == Min(Later(O, p))
  <2>5. /\ Later(O, p) = {} => Els(rest) = {}
        /\ Els(rest) \cup Els(new) = Els(O) \cup Els(N)
    BY <2>2, <2>3, MovesLeave
  <2>6. stack'[1].entry = stack[1].entry /\ ElsOf(stack') = Els(rest) \cup Els(new)
    <3>1. CASE Later(O, p) = {}
      <4>1. stack' = <<Level(new, stack[1].entry)>>
        BY <2>2, <3>1 DEF Moves
      <4> HIDE DEF new, rest
      <4>2. stack'[1].entry = stack[1].entry /\ ElsOf(stack') = Els(new)
        BY <4>1, OneStack
      <4> QED
        BY <2>5, <3>1, <4>2
    <3>2. CASE Later(O, p) # {}
      <4>1. stack' = <<Moving(rest, stack[1].entry, next), Level(new, rest.slot[next])>>
        BY <2>2, <3>2 DEF Moves
      <4> HIDE DEF new, rest, next
      <4> QED
        BY <4>1, TwoStack
    <3> QED
      BY <3>1, <3>2
  <2>7. ElsOf(stack') = ElsOf(stack)
    BY <2>4, <2>5, <2>6
  <2> QED
    BY <2>6, <2>7, ContentsAre
<1> QED
  BY <1>1, <1>2

\* An iteration begins.
LEMMA IterateBeginStep ==
  ASSUME IInv, NEW op \in Iterations, IterateBegin(op) PROVE Abstract!IterateBegin
<1>1. /\ call = "none" /\ call' = op /\ ret' = Nothing /\ seen' = seen
      /\ Contents' = Contents /\ stack'[1].entry = stack[1].entry
  BY SameNext DEF IterateBegin, Begins, Idle
<1>2. op = "iterate" \/ op = "iterate_pairs"
  BY DEF Iterations
<1> QED
  BY <1>1, <1>2 DEF Abstract!IterateBegin, Abstract!Begins, Abstract!Nothing, Nothing

\* The callback gets an entry that it has not had.
LEMMA VisitStep ==
  ASSUME IInv, CallInv,
         (\E r \in {0, 1} : Callback(r)) \/ (\E r \in {-1, 0, 1} : PairCallback(r))
  PROVE  \E k \in Keys : Abstract!Visit(k)
<1> DEFINE k == Map.slot[at].key
<1>1. call \in {"iterate", "iterate_pairs"} /\ call \notin {"put", "crashed"} /\ at \in Used(Map)
  BY DEF Callback, PairCallback
<1>2. /\ stack[1].entry = Free /\ GoodTable(Map) /\ Len(stack) = 1
      /\ Contents = FunOf(Els(Map)) /\ Functional(Els(Map))
  BY <1>1, AloneEls
<1>3. k \in Keys /\ k \in DOMAIN Contents
  <2>1. Map.slot[at] \in Els(Map) /\ Map.slot[at] \in Elements
    BY <1>1, <1>2, UsedFinite DEF Els
  <2> QED
    BY <1>2, <2>1, FunKey DEF Elements
<1>4. k \notin seen
  <2>1. ~(at < at)
    BY DEF IInv
  <2> QED
    BY <1>1, <2>1 DEF CallInv
<1>5. ASSUME NEW r \in {0, 1}, Callback(r)
      PROVE  /\ Contents' = Contents /\ stack'[1].entry = Free
             /\ Visited \/ Abstract!Returns(call, 1)
  <2>1. stack' = stack /\ call = "iterate"
    BY <1>5 DEF Callback
  <2>2. CASE r = 0
    BY <1>2, <1>5, <2>1, <2>2, SameNext, ReturnsAre DEF Callback
  <2>3. CASE r = 1
    BY <1>2, <1>5, <2>1, <2>3, SameNext DEF Callback
  <2> QED
    BY <2>2, <2>3
<1>6. ASSUME NEW r \in {-1, 0, 1}, PairCallback(r)
      PROVE  /\ stack'[1].entry = Free /\ call = "iterate_pairs"
             /\ \/ Contents' = Contents /\ (Visited \/ Abstract!Returns(call, 1))
                \/ /\ Contents' = Abstract!Restrict(Contents, DOMAIN Contents \ {k})
                   /\ Visited
  <2>1. call = "iterate_pairs"
    BY <1>6 DEF PairCallback
  <2>2. CASE r = -1
    <3>1. stack' = <<Level(Clear(Map, at), Free)>> /\ Visited
      BY <1>6, <2>2 DEF PairCallback
    <3> DEFINE F == {x \in Els(Map) : x.key # k}
    <3>2. Els(Clear(Map, at)) = F
      BY <1>1, <1>2, ClearEls
    <3>3. Contents' = FunOf(F) /\ stack'[1].entry = Free
      BY <3>1, <3>2, OneNext
    <3> HIDE DEF k
    <3>4. FunOf(F) = Abstract!Restrict(FunOf(Els(Map)), DOMAIN FunOf(Els(Map)) \ {k})
      BY <1>2, FunRemove
    <3> QED
      BY <1>2, <2>1, <3>1, <3>3, <3>4
  <2>3. CASE r = 0
    <3>1. stack' = stack /\ Visited
      BY <1>6, <2>3 DEF PairCallback
    <3> QED
      BY <1>2, <2>1, <3>1, SameNext
  <2>4. CASE r = 1
    <3>1. stack' = stack /\ Returns("iterate_pairs", 1)
      BY <1>6, <2>4 DEF PairCallback
    <3> QED
      BY <1>2, <2>1, <3>1, SameNext, ReturnsAre
  <2> QED
    BY <2>2, <2>3, <2>4
<1>7. Visited => seen' = seen \cup {k} /\ call' = call /\ ret' = ret
  BY DEF Visited
<1> HIDE DEF k
<1>8. Abstract!Visit(k)
  BY <1>1, <1>2, <1>3, <1>4, <1>5, <1>6, <1>7 DEF Abstract!Visit
<1> QED
  BY <1>3, <1>8

\* An iteration that returns 0 has shown every entry.
LEMMA IterateEndStep ==
  ASSUME IInv, CallInv, IterateEnd PROVE Abstract!IterateEnd
<1>1. /\ call \in {"iterate", "iterate_pairs"} /\ call \notin {"put", "crashed"}
      /\ at \notin DOMAIN Map.slot /\ stack' = stack /\ Abstract!Returns(call, 0)
  BY ReturnsAre DEF IterateEnd, Iterations
<1>2. GoodTable(Map) /\ Contents = FunOf(Els(Map)) /\ Functional(Els(Map))
  BY <1>1, AloneEls
<1>3. \A i \in Used(Map) : i < at
  <2> DEFINE c == Capacity(Map.log2_capacity)
  <2>1. DOMAIN Map.slot = 0..(c + Probe - 1) /\ c \in Nat /\ at \in Nat
    BY <1>2, PlacesFinite DEF GoodTable, Places, IInv
  <2>2. \A i \in Used(Map) : i \in 0..(c + Probe - 1)
    BY <2>1 DEF Used
  <2> HIDE DEF c
  <2>3. at > c + Probe - 1
    BY <1>1, <2>1, ProbeAssumption
  <2> QED
    BY <2>1, <2>2, <2>3, ProbeAssumption
<1>4. DOMAIN Contents \subseteq seen
  <2>1. DOMAIN Contents = { e.key : e \in Els(Map) }
    BY <1>2, FunKey
  <2>2. \A i \in Used(Map) : Map.slot[i].key \in seen
    BY <1>3 DEF CallInv
  <2> QED
    BY <2>1, <2>2 DEF Els
<1>5. Contents' = Contents /\ stack'[1].entry = stack[1].entry
  BY <1>1, SameNext
<1> QED
  BY <1>1, <1>4, <1>5 DEF Abstract!IterateEnd
\* Every step of the code is one of the abstract map, or none.
LEMMA NextRefines ==
  IInv /\ RehashInv /\ CallInv /\ [Next]_vars => [Abstract!Next]_Abstract!vars
<1> SUFFICES ASSUME IInv, RehashInv, CallInv, [Next]_vars
             PROVE  [Abstract!Next]_Abstract!vars
  OBVIOUS
<1>1. ASSUME NEW c \in Capacities, Create(c) PROVE Abstract!Next
  BY <1>1, CreateStep DEF Abstract!Next
<1>2. CASE Destroy
  BY <1>2, DestroyStep DEF Abstract!Next
<1>3. CASE Refuse
  BY <1>3, RefuseStep DEF Abstract!Next
<1>4. CASE NumEntries
  BY <1>4, SizeStep DEF Abstract!Next
<1>5. CASE PutStores
  BY <1>5, PutSucceedsStep DEF Abstract!Next
<1>6. CASE PutFails
  BY <1>6, PutFailsStep DEF Abstract!Next
<1>7. CASE Rehash \/ MoveEntry
  <2>1. Contents' = Contents /\ stack'[1].entry = stack[1].entry
    BY <1>7, RehashStutters
  <2>2. UNCHANGED <<call, seen, ret>>
    BY <1>7 DEF Rehash, MoveEntry
  <2> QED
    BY <2>1, <2>2 DEF Abstract!vars
<1>8. CASE PutStep
  BY <1>5, <1>6, <1>7, <1>8 DEF PutStep
<1>9. CASE Crash
  <2>1. call' = "crashed" /\ UNCHANGED <<stack, seen, ret>>
    BY <1>9 DEF Crash
  <2>2. Abstract!Crash
    BY <2>1, SameNext DEF Abstract!Crash
  <2> QED
    BY <2>2 DEF Abstract!Next
<1>10. ASSUME NEW op \in Iterations, IterateBegin(op) PROVE Abstract!Next
  BY <1>10, IterateBeginStep DEF Abstract!Next
<1>11. ASSUME NEW k \in Keys, NEW d \in Data, PutBegin(k, d) PROVE Abstract!Next
  BY <1>11, PutBeginStep DEF Abstract!Next
<1>12. ASSUME NEW k \in Keys, Get(k) PROVE Abstract!Next
  BY <1>12, GetStep DEF Abstract!Next
<1>13. ASSUME NEW k \in Keys, Remove(k) \/ RemoveAndReturnKey(k) PROVE Abstract!Next
  BY <1>13, RemoveStep DEF Abstract!Next
<1>14. CASE (\E r \in {0, 1} : Callback(r)) \/ (\E r \in {-1, 0, 1} : PairCallback(r))
  BY <1>14, VisitStep DEF Abstract!Next
<1>15. CASE IterateEnd
  BY <1>15, IterateEndStep DEF Abstract!Next
<1>16. CASE SkipFree
  <2>1. Contents' = Contents /\ stack'[1].entry = stack[1].entry /\ UNCHANGED <<call, seen, ret>>
    BY <1>16, SameNext DEF SkipFree
  <2> QED
    BY <2>1 DEF Abstract!vars
<1>17. CASE IterateStep
  BY <1>14, <1>15, <1>16, <1>17 DEF IterateStep
<1>18. CASE Ended \/ UNCHANGED vars
  <2>1. stack' = stack /\ UNCHANGED <<call, seen, ret>>
    BY <1>18 DEF Ended, vars
  <2> QED
    BY <2>1, SameNext DEF Abstract!vars
<1> QED
  BY <1>1, <1>2, <1>3, <1>4, <1>8, <1>9, <1>10, <1>11, <1>12, <1>13, <1>17, <1>18 DEF Next

\* The first state, which is the first one of the abstract map.
LEMMA InitRefines == Init => CallInv /\ Abstract!Init
<1> SUFFICES ASSUME Init PROVE CallInv /\ Abstract!Init
  OBVIOUS
<1>1. /\ stack = <<Level(EmptyTable(0), Free)>> /\ call = "destroyed" /\ at = 0
      /\ seen = {} /\ ret = Nothing
  BY DEF Init
<1>2. Used(EmptyTable(0)) = {} /\ Els(EmptyTable(0)) = {}
  <2>1. 0 \in 0..(Width - 1)
    BY WidthAssumption
  <2> QED
    BY <2>1, EmptyGood DEF Els
<1>3. /\ Len(stack) = 1 /\ Map = EmptyTable(0) /\ stack[1].entry = Free
      /\ ElsOf(stack) = Els(EmptyTable(0))
  BY <1>1, OneStack DEF Map
<1>4. Contents = << >>
  BY <1>2, <1>3, ContentsAre, FunEmpty
<1>5. Abstract!Init
  BY <1>1, <1>3, <1>4 DEF Abstract!Init, Abstract!Nothing, Nothing
<1>6. Len(stack) # 2
  BY <1>3
<1>7. CallInv
  BY <1>1, <1>2, <1>3, <1>6 DEF CallInv
<1> QED
  BY <1>5, <1>7

\* hashmap.h keeps its promise, whatever the hashes, the number of entries and
\* the answers of the callbacks are: a put that succeeds adds its entry and no
\* other, a rehash changes nothing, a put that fails loses nothing, and an
\* iteration that returns 0 has shown every entry once.
THEOREM ImplementsMapCorrect == Spec => ImplementsMap
<1>1. Init => IInv /\ RehashInv /\ CallInv /\ Abstract!Init
  BY InitInv, RehashInit, InitRefines
<1>2. IInv /\ RehashInv /\ CallInv /\ [Next]_vars => (IInv /\ RehashInv /\ CallInv)'
  BY NextKeeps, RehashKept, CallKept
<1>3. IInv /\ RehashInv /\ CallInv /\ [Next]_vars => [Abstract!Next]_Abstract!vars
  BY NextRefines
<1> QED
  BY <1>1, <1>2, <1>3, PTL DEF Spec, ImplementsMap, Abstract!Spec
=============================================================================
