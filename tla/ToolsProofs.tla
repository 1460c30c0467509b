----------------------------- MODULE ToolsProofs -----------------------------
(***************************************************************************)
(* Proofs about the programs of Tools: the list library, the column        *)
(* statistics, the tree viewer, the weather client, the zip finder and the *)
(* checksum, each a section here; the game has a module of its own, whose  *)
(* theorems Tools takes with the instances.  At the end, what the run      *)
(* checks of the composition.                                              *)
(***************************************************************************)
EXTENDS Tools, Sequences, SequencesExt, SequenceTheorems, FiniteSetTheorems,
        WellFoundedInduction, TLAPS

\* A set of numbers that is not empty has a least one.
LEMMA Least ==
  ASSUME NEW S \in SUBSET Nat, S # {}
  PROVE  \E x \in S : \A y \in S : x <= y
<1> DEFINE R == { p \in Nat \X Nat : p[1] < p[2] }
<1>1. R = OpToRel(<, Nat)
  BY DEF OpToRel
<1>2. IsWellFoundedOn(R, Nat)
  BY <1>1, NatLessThanWellFounded
<1> HIDE DEF R
<1>3. PICK x \in S : \A y \in S : ~(<<y, x>> \in R)
  BY <1>2, WFMin
<1>4. \A y \in S : ~(y < x)
  BY <1>3 DEF R
<1> QED BY <1>4

\* A table of steps that starts from x and goes on by g has a solution.
Steps(n, V) == [V \X (1..n) -> V]
Table(f, n, V, x, g) == f \in [0..n -> V] /\ f[0] = x /\ \A j \in 1..n : f[j] = g[<<f[j - 1], j>>]
LEMMA Recursion ==
  ASSUME NEW n \in Nat, NEW V, NEW x \in V, NEW g \in Steps(n, V)
  PROVE  \E f : Table(f, n, V, x, g)
<1> USE DEF Steps, Table
<1> DEFINE Solves(f, m) == f[0] = x /\ \A j \in 1..m : f[j] = g[<<f[j - 1], j>>]
           Bad == {m \in 0..n : ~\E f \in [0..m -> V] : Solves(f, m)}
<1>1. SUFFICES Bad = {}
  <2>1. n \notin Bad
    BY <1>1
  <2> QED BY <2>1
<1>2. SUFFICES ASSUME Bad # {} PROVE FALSE
  OBVIOUS
<1>3. PICK m \in Bad : \A k \in Bad : m <= k
  <2>1. Bad \in SUBSET Nat
    OBVIOUS
  <2> HIDE DEF Bad
  <2> QED BY <1>2, <2>1, Least
<1>4. m # 0
  <2>1. [j \in 0..0 |-> x] \in [0..0 -> V] /\ Solves([j \in 0..0 |-> x], 0)
    OBVIOUS
  <2> QED BY <1>3, <2>1
<1>5. m \in 1..n /\ m - 1 \in 0..n /\ ~(m <= m - 1)
  BY <1>3, <1>4
<1>6. PICK f \in [0..(m - 1) -> V] : Solves(f, m - 1)
  BY <1>3, <1>5
<1> DEFINE h == [j \in 0..m |-> IF j = m THEN g[<<f[m - 1], m>>] ELSE f[j]]
<1>7. g[<<f[m - 1], m>>] \in V
  <2>1. f[m - 1] \in V
    BY <1>5, <1>6
  <2> QED BY <1>5, <2>1
<1>8. h \in [0..m -> V]
  BY <1>5, <1>6, <1>7
<1>9. h[m] = g[<<f[m - 1], m>>] /\ \A j \in 0..(m - 1) : h[j] = f[j]
  BY <1>5
<1> HIDE DEF h
<1>10. \A j \in 1..m : h[j] = g[<<h[j - 1], j>>]
  <2> TAKE j \in 1..m
  <2>1. CASE j = m
    BY <1>5, <1>9, <2>1
  <2>2. CASE j # m
    <3>1. j \in 1..(m - 1) /\ j \in 0..(m - 1) /\ j - 1 \in 0..(m - 1)
      BY <1>5, <2>2
    <3> QED BY <1>6, <1>9, <3>1
  <2> QED BY <2>1, <2>2
<1>11. h[0] = x
  BY <1>5, <1>6, <1>9
<1> QED BY <1>3, <1>8, <1>10, <1>11

-----------------------------------------------------------------------------
(* AsmList: lists of any numbers.                                          *)

(* The odd numbers *)

N == Len(data)

\* What OddsUpTo[k] is, given those before it.
OddsStep(u, k) ==
  IF k = 0 THEN <<>> ELSE IF data[k] % 2 = 1 THEN <<data[k]>> \o u[k - 1] ELSE u[k - 1]

LEMMA OddsExist ==
  ASSUME List!ListAssumption, NEW n \in 0..N
  PROVE  \E u : u = [k \in 0..n |-> OddsStep(u, k)]
<1> DEFINE Bad == {x \in 0..N : ~\E u : u = [k \in 0..x |-> OddsStep(u, k)]}
<1>1. SUFFICES ASSUME Bad # {} PROVE FALSE
  BY <1>1
<1>2. N \in Nat
  BY DEF List!ListAssumption, N
<1>3. PICK m \in Bad : \A k \in Bad : m <= k
  <2>1. Bad \in SUBSET Nat
    OBVIOUS
  <2> HIDE DEF Bad
  <2> QED BY <1>1, <2>1, Least
<1>4. m \in 0..N /\ m \in Nat /\ ~\E u : u = [k \in 0..m |-> OddsStep(u, k)]
  BY <1>3
<1>5. m # 0
  <2> SUFFICES ASSUME m = 0 PROVE FALSE
    OBVIOUS
  <2> DEFINE z == [k \in 0..0 |-> <<>>]
  <2>1. z = [k \in 0..0 |-> OddsStep(z, k)]
    BY DEF OddsStep
  <2> QED BY <1>4, <2>1
<1>6. PICK u : u = [k \in 0..(m - 1) |-> OddsStep(u, k)]
  <2>1. m - 1 \in 0..N /\ ~(m <= m - 1)
    BY <1>2, <1>4, <1>5
  <2>2. m - 1 \notin Bad
    BY <1>3, <2>1
  <2> QED BY <2>1, <2>2
<1> HIDE DEF Bad
<1> DEFINE w == [k \in 0..m |-> IF k = m THEN OddsStep(u, m) ELSE u[k]]
           e == [k \in 0..m |-> OddsStep(w, k)]
<1>7. \A k \in 0..(m - 1) : u[k] = OddsStep(u, k)
  <2> TAKE k \in 0..(m - 1)
  <2> DEFINE g == [j \in 0..(m - 1) |-> OddsStep(u, j)]
  <2>1. g[k] = OddsStep(u, k)
    OBVIOUS
  <2>2. u = g
    BY <1>6
  <2> HIDE DEF g
  <2> QED BY <2>1, <2>2
<1>8. w[m] = OddsStep(u, m) /\ \A k \in 0..(m - 1) : w[k] = u[k]
  BY <1>4
<1>9. \A k \in 0..m : w[k] = OddsStep(w, k)
  <2> HIDE DEF w
  <2> TAKE k \in 0..m
  <2>1. k # 0 => w[k - 1] = u[k - 1]
    BY <1>4, <1>8
  <2>2. OddsStep(w, k) = OddsStep(u, k)
    BY <2>1 DEF OddsStep
  <2>3. w[k] = OddsStep(u, k)
    BY <1>4, <1>7, <1>8
  <2> QED BY <2>2, <2>3
<1>10. w = e
  <2>1. DOMAIN w = 0..m /\ DOMAIN e = 0..m /\ \A k \in 0..m : e[k] = OddsStep(w, k)
    OBVIOUS
  <2>2. w = [k \in DOMAIN w |-> w[k]] /\ e = [k \in DOMAIN e |-> e[k]]
    OBVIOUS
  <2> HIDE DEF w, e
  <2> QED BY <1>9, <2>1, <2>2
<1> QED BY <1>4, <1>10 DEF e

LEMMA OddsIs ==
  ASSUME List!ListAssumption
  PROVE  /\ N \in Nat \ {0} /\ data \in Seq(Int) /\ List!OddsUpTo[0] = <<>> /\ List!Odds = List!OddsUpTo[N]
         /\ \A k \in 1..N : List!OddsUpTo[k] = IF data[k] % 2 = 1 THEN <<data[k]>> \o List!OddsUpTo[k
              - 1] ELSE List!OddsUpTo[k - 1]
         /\ \A k \in 0..N : List!OddsUpTo[k] \in Seq(Int)
<1>1. N \in Nat \ {0} /\ data \in Seq(Int)
  BY DEF List!ListAssumption, N
<1> DEFINE u == CHOOSE u : u = [k \in 0..N |-> OddsStep(u, k)]
<1>2. List!OddsUpTo = u
  BY DEF List!OddsUpTo, N, OddsStep
<1>3. u = [k \in 0..N |-> OddsStep(u, k)]
  <2>1. PICK v : v = [k \in 0..N |-> OddsStep(v, k)]
    BY <1>1, OddsExist
  <2> QED BY <2>1
<1> HIDE DEF u
<1>4. \A k \in 0..N : u[k] = OddsStep(u, k)
  <2> TAKE k \in 0..N
  <2> DEFINE g == [j \in 0..N |-> OddsStep(u, j)]
  <2>1. g[k] = OddsStep(u, k)
    OBVIOUS
  <2>2. u = g
    BY <1>3
  <2> HIDE DEF g
  <2> QED BY <2>1, <2>2
<1>5. u[0] = <<>> /\ \A k \in 1..N : u[k] = IF data[k] % 2 = 1 THEN <<data[k]>> \o u[k - 1] ELSE u[k - 1]
  <2>1. 0 \in 0..N /\ \A k \in 1..N : k \in 0..N /\ k # 0
    BY <1>1
  <2> QED BY <1>4, <2>1 DEF OddsStep
<1>6. \A k \in 0..N : u[k] \in Seq(Int)
  <2> DEFINE Bad == {k \in 0..N : u[k] \notin Seq(Int)}
  <2>1. SUFFICES ASSUME Bad # {} PROVE FALSE
    BY <2>1
  <2>2. PICK m \in Bad : \A k \in Bad : m <= k
    <3>1. Bad \in SUBSET Nat
      BY <1>1
    <3> HIDE DEF Bad
    <3> QED BY <2>1, <3>1, Least
  <2>3. m # 0
    BY <1>5, <2>2, EmptySeq
  <2>4. m \in 1..N /\ m - 1 \in 0..N /\ ~(m <= m - 1) /\ u[m] \notin Seq(Int)
    BY <1>1, <2>2, <2>3
  <2>5. u[m - 1] \in Seq(Int) /\ data[m] \in Int
    BY <1>1, <2>2, <2>4 DEF N
  <2>6. <<data[m]>> \o u[m - 1] \in Seq(Int)
    BY <2>5
  <2> QED BY <1>5, <2>4, <2>5, <2>6
<1>7. List!Odds = u[N]
  BY <1>2 DEF List!Odds, N
<1> QED BY <1>1, <1>2, <1>5, <1>6, <1>7

-----------------------------------------------------------------------------
(* The heap *)

\* The element that has the c-th number from the end, and the m-th copy of the
\* odd numbers o, which has the last one first.
Element(c, t) == [value |-> data[N + 1 - c], next |-> IF c = 1 THEN t ELSE c - 1]
Foremost(m) == IF m = 0 THEN List!NULL ELSE N + m
Copy(o, m) == [value |-> o[Len(o) + 1 - m], next |-> Foremost(m - 1)]

\* The heap h has the elements of D and the first m copies of o, and no others.
HeapHas(h, t, D, m, o) ==
  /\ h = [a \in DOMAIN h |-> h[a]] /\ DOMAIN h = D \cup (N + 1)..(N + m)
  /\ \A c \in D : h[c] = Element(c, t)
  /\ \A k \in 1..m : h[N + k] = Copy(o, k)

LEMMA ElementAdded ==
  ASSUME List!ListAssumption, NEW h, NEW t, NEW n \in 0..(N - 1), NEW o, HeapHas(h, t, 1..n, 0, o), NEW g,
         g = [a \in DOMAIN h \cup {n + 1} |-> IF a = n + 1 THEN Element(n + 1, t) ELSE h[a]]
  PROVE  HeapHas(g, t, 1..(n + 1), 0, o)
<1>1. N \in Nat
  BY OddsIs
<1>2. DOMAIN h = 1..n /\ \A c \in 1..n : h[c] = Element(c, t)
  BY <1>1 DEF HeapHas
<1>3. DOMAIN g = 1..(n + 1)
  BY <1>1, <1>2
<1>4. \A c \in 1..(n + 1) : g[c] = Element(c, t)
  <2> TAKE c \in 1..(n + 1)
  <2>1. c = n + 1 \/ (c # n + 1 /\ c \in 1..n)
    BY <1>1
  <2> QED BY <1>2, <1>3, <2>1
<1>5. (N + 1)..(N + 0) = {} /\ 1..0 = {}
  BY <1>1
<1> QED BY <1>3, <1>4, <1>5 DEF HeapHas

LEMMA CopyAdded ==
  ASSUME List!ListAssumption, NEW h, NEW t, NEW D \in SUBSET (1..N),
         NEW o \in Seq(Int), HeapHas(h, t, D, Len(o), o),
         NEW v \in Int, NEW g,
         g = [a \in DOMAIN h \cup {N + 1 + Len(o)} |->
                IF a = N + 1 + Len(o) THEN [value |-> v, next |-> Foremost(Len(o))] ELSE h[a]]
  PROVE  HeapHas(g, t, D, Len(<<v>> \o o), <<v>> \o o)
<1> DEFINE q == <<v>> \o o
           m == Len(o)
<1>1. N \in Nat /\ m \in Nat
  BY OddsIs
<1>2. q \in Seq(Int) /\ Len(q) = m + 1 /\ q[1] = v /\ \A k \in 1..m : q[k + 1] = o[k]
  OBVIOUS
<1>3. /\ DOMAIN h = D \cup (N + 1)..(N + m)
      /\ \A c \in D : h[c] = Element(c, t)
      /\ \A k \in 1..m : h[N + k] = Copy(o, k)
  BY DEF HeapHas
<1> HIDE DEF q, m
<1>4. DOMAIN g = D \cup (N + 1)..(N + (m + 1))
  <2>1. DOMAIN g = D \cup ((N + 1)..(N + m) \cup {N + 1 + m})
    BY <1>3 DEF m
  <2>2. (N + 1)..(N + m) \cup {N + 1 + m} = (N + 1)..(N + (m + 1))
    BY <1>1
  <2> QED BY <2>1, <2>2
<1>5. \A c \in D : g[c] = Element(c, t)
  <2> TAKE c \in D
  <2>1. c # N + 1 + m /\ c \in DOMAIN h
    BY <1>1, <1>3
  <2> QED BY <1>3, <2>1 DEF m
<1>6. \A k \in 1..(m + 1) : g[N + k] = Copy(q, k)
  <2> TAKE k \in 1..(m + 1)
  <2>1. CASE k = m + 1
    <3>1. N + k = N + 1 + m /\ Len(q) + 1 - k = 1 /\ k - 1 = m
      BY <1>1, <1>2, <2>1
    <3>2. g[N + k] = [value |-> v, next |-> Foremost(m)]
      BY <3>1 DEF m
    <3> QED BY <1>2, <3>1, <3>2 DEF Copy
  <2>2. CASE k # m + 1
    <3>1. k \in 1..m /\ N + k # N + 1 + m /\ N + k \in DOMAIN h
      BY <1>1, <1>3, <2>2
    <3>2. g[N + k] = Copy(o, k)
      BY <1>3, <3>1 DEF m
    <3>3. Len(q) + 1 - k = (m + 1 - k) + 1 /\ m + 1 - k \in 1..m
      BY <1>1, <1>2, <3>1
    <3>4. q[Len(q) + 1 - k] = o[m + 1 - k]
      BY <1>2, <3>3
    <3> QED BY <3>2, <3>4 DEF Copy, m
  <2> QED BY <2>1, <2>2
<1>7. HeapHas(g, t, D, Len(q), q)
  BY <1>2, <1>4, <1>5, <1>6 DEF HeapHas
<1> QED BY <1>7 DEF q

LEMMA ElementFreed ==
  ASSUME List!ListAssumption, NEW h, NEW t, NEW D \in SUBSET (1..N), NEW m, NEW o, HeapHas(h, t, D, m, o),
         NEW c \in D, m \in Nat, NEW g, g = [a \in DOMAIN h \ {c} |-> h[a]]
  PROVE  c \in DOMAIN h /\ HeapHas(g, t, D \ {c}, m, o)
<1>1. N \in Nat
  BY OddsIs
<1>2. c \notin (N + 1)..(N + m) /\ \A k \in 1..m : N + k \in (N + 1)..(N + m)
  BY <1>1
<1> QED BY <1>2 DEF HeapHas

LEMMA CopyFreed ==
  ASSUME List!ListAssumption, NEW h, NEW t, NEW m \in Nat \ {0}, NEW o, HeapHas(h, t, {}, m, o),
         NEW g, g = [a \in DOMAIN h \ {N + m} |-> h[a]]
  PROVE  HeapHas(g, t, {}, m - 1, o)
<1>1. N \in Nat
  BY OddsIs
<1>2. DOMAIN h = (N + 1)..(N + m) /\ \A k \in 1..m : h[N + k] = Copy(o, k)
  BY DEF HeapHas
<1>3. DOMAIN g = (N + 1)..(N + (m - 1))
  BY <1>1, <1>2
<1>4. \A k \in 1..(m - 1) : k \in 1..m /\ N + k \in (N + 1)..(N + (m - 1))
  BY <1>1
<1> QED BY <1>2, <1>3, <1>4 DEF HeapHas

\* A prefix grows by the element after it.
LEMMA RowGrows ==
  ASSUME NEW o \in Seq(Int), NEW k \in 0..(Len(o) - 1)
  PROVE  Append(SubSeq(o, 1, k), o[k + 1]) = SubSeq(o, 1, k + 1)
<1>1. k + 1 \in 1..Len(o) /\ 1 \in 1..Len(o) /\ k + 1 \in 1..Len(o) /\ (k + 1) - 1 = k
  OBVIOUS
<1>2. SubSeq(o, 1, k + 1) = SubSeq(o, 1, k) \o <<o[k + 1]>>
  BY <1>1, SubSeqRecursiveSecond
<1>3. SubSeq(o, 1, k) \in Seq(Int) /\ o[k + 1] \in Int
  BY <1>1
<1> QED BY <1>2, <1>3, AppendIsConcat

-----------------------------------------------------------------------------
(* The inductive invariant *)

\* The loop over data has come to the i-th number.
Adding ==
  /\ pc = "add" /\ i \in 0..N /\ brk = N + 1 - i /\ calls = <<>>
  /\ HeapHas(heap, tail, 1..(N - i), 0, <<>>) /\ head = (IF i = N THEN tail ELSE N - i)
  /\ Len(printed) = 1 /\ printed[1] = <<>>

Showing ==
  /\ pc = "m" /\ brk = N + 1 /\ calls = <<>> /\ HeapHas(heap, tail, 1..N, 0, <<>>) /\ head = N
  /\ at \in 1..N \/ at = tail
  /\ Len(printed) = 1 /\ (at \in 0..N => printed[1] = SubSeq(data, 1, N - at))

\* The elements that f has not freed: main.c frees them when its calls return,
\* main.asm one by one.
CallsOpen(o) ==
  /\ program = "c" /\ pc = "f" /\ calls \in Seq(Nat) /\ Len(calls) <= N
  /\ \A j \in 1..Len(calls) : calls[j] = N + 1 - j
  /\ \/ Len(calls) = N - at /\ HeapHas(heap, tail, 1..N, Len(o), o)
     \/ at = 0 /\ HeapHas(heap, tail, (N + 1 - Len(calls))..N, Len(o), o)
LoopOpen(o) ==
  /\ program = "asm" /\ pc = "f" /\ calls = <<>> /\ HeapHas(heap, tail, 1..at, Len(o), o)
FreeOpen(o) ==
  /\ program = "asm" /\ pc = "f free" /\ at < N /\ calls = <<at + 1>>
  /\ HeapHas(heap, tail, 1..(at + 1), Len(o), o)

\* f has come to the element at; the odd numbers before it are copied.
Filtering ==
  /\ pc \in {"f", "f free"} /\ tail = List!NULL /\ at \in 0..N
  /\ LET o == List!OddsUpTo[N - at] IN
       /\ brk = N + 1 + Len(o) /\ head = Foremost(Len(o))
       /\ CallsOpen(o) \/ LoopOpen(o) \/ FreeOpen(o)
  /\ Len(printed) = 2 /\ printed[1] = data /\ printed[2] = <<>>

ShowingAgain ==
  /\ pc = "m again" /\ tail = List!NULL /\ calls = <<>>
  /\ \E m \in 0..Len(List!Odds) : at = Foremost(m) /\ printed[2] = SubSeq(List!Odds, 1, Len(List!Odds) - m)
  /\ HeapHas(heap, tail, {}, Len(List!Odds), List!Odds) /\ head = Foremost(Len(List!Odds))
  /\ Len(printed) = 2 /\ printed[1] = data

Shown == Len(printed) = 3 /\ printed[1] = data /\ printed[2] = List!Odds /\ printed[3] = <<>>
Freeing ==
  /\ pc = "free" /\ tail = List!NULL /\ Shown
  /\ \E m \in 0..Len(List!Odds) :
       /\ at = Foremost(m) /\ HeapHas(heap, tail, {}, m, List!Odds)
       /\ program = "c" /\ m = 0 => List!Odds = <<>>

Ended ==
  \/ pc = "done" /\ tail = List!NULL /\ Shown /\ heap = <<>>
  \/ pc = "failed"
  \/ pc = "undefined" /\ program = "c" /\ (tail = List!Garbage \/ List!Odds = <<>>)

Phases == Adding \/ Showing \/ Filtering \/ ShowingAgain \/ Freeing \/ Ended
Shape == printed \in Seq(Seq(Int)) /\ Phases
ListInv ==
  /\ program \in {"c", "asm"} /\ tail \in {List!NULL, List!Garbage}
  /\ tail = List!Garbage \/ lost => program = "c"
  /\ ~lost => Shape

LEMMA InitList == ASSUME List!ListAssumption, List!Init PROVE ListInv
<1>1. N \in Nat /\ (N + 1)..(N + 0) = {} /\ 1..(N - N) = {} /\ 1..0 = {} /\ DOMAIN heap = {}
  BY OddsIs DEF List!Init
<1>2. HeapHas(heap, tail, 1..(N - N), 0, <<>>)
  BY <1>1 DEF HeapHas
<1>3. printed \in Seq(Seq(Int)) /\ Len(printed) = 1 /\ printed[1] = <<>>
  <2>1. <<>> \in Seq(Int)
    BY EmptySeq
  <2> QED BY <2>1 DEF List!Init
<1>4. Adding
  BY <1>1, <1>2, <1>3 DEF List!Init, Adding, N
<1> QED BY <1>3, <1>4 DEF List!Init, ListInv, Shape, Phases, List!NULL, List!Garbage

LEMMA AddKeeps == ASSUME List!ListAssumption, Shape, List!Add PROVE Shape'
<1>1. Adding /\ printed \in Seq(Seq(Int)) /\ N \in Nat /\ i > 0
  BY OddsIs DEF List!Add, Shape, Phases, Adding, Showing, Filtering, ShowingAgain, Freeing, Ended
<1> DEFINE n == N - i
<1>2. n \in 0..(N - 1) /\ brk = n + 1 /\ N - (i - 1) = n + 1 /\ N + 1 - (n + 1) = i /\ i - 1 \in 0..N
        /\ i - 1 # N
  <2>1. i \in 0..N /\ brk = N + 1 - i
    BY <1>1 DEF Adding
  <2> QED BY <1>1, <2>1
<1>3. Element(n + 1, tail) = [value |-> data[i], next |-> head]
  <2>1. head = IF n = 0 THEN tail ELSE n
    <3>1. head = IF i = N THEN tail ELSE n
      BY <1>1 DEF Adding
    <3>2. i = N <=> n = 0
      BY <1>1, <1>2
    <3> QED BY <3>1, <3>2
  <2>2. n + 1 = 1 <=> n = 0
    BY <1>2
  <2>3. (n + 1) - 1 = n
    BY <1>2
  <2> QED BY <1>2, <2>1, <2>2, <2>3 DEF Element
<1>4. heap' = [a \in DOMAIN heap \cup {n + 1} |-> IF a = n + 1 THEN Element(n + 1, tail) ELSE heap[a]]
  BY <1>2, <1>3 DEF List!Add, List!Allocate
<1>5. HeapHas(heap, tail, 1..n, 0, <<>>)
  BY <1>1 DEF Adding
<1> HIDE DEF n
<1>6. HeapHas(heap', tail, 1..(n + 1), 0, <<>>)
  BY <1>2, <1>4, <1>5, ElementAdded
<1>7. /\ pc' = "add" /\ i' = i - 1 /\ brk' = n + 2 /\ head' = n + 1 /\ calls' = <<>> /\ tail' = tail
      /\ printed' = printed /\ Len(printed) = 1 /\ printed[1] = <<>>
  BY <1>1, <1>2 DEF List!Add, List!Allocate, Adding
<1>8. brk' = N + 1 - i' /\ i' \in 0..N /\ i' # N /\ N - i' = n + 1
  BY <1>1, <1>2, <1>7
<1>9. HeapHas(heap', tail', 1..(N - i'), 0, <<>>)
  BY <1>6, <1>7, <1>8
<1>10. Adding'
  BY <1>7, <1>8, <1>9 DEF Adding
<1> QED BY <1>1, <1>7, <1>10 DEF Shape, Phases

LEMMA AddedKeeps == ASSUME List!ListAssumption, Shape, List!Added PROVE Shape'
<1>1. Adding /\ printed \in Seq(Seq(Int)) /\ N \in Nat \ {0} /\ i = 0
  BY OddsIs DEF List!Added, Shape, Phases, Adding, Showing, Filtering, ShowingAgain, Freeing, Ended
<1>2. N - 0 = N /\ N + 1 - 0 = N + 1 /\ N # 0 /\ N \in 1..N /\ N - N = 0
  BY <1>1
<1>3. /\ HeapHas(heap, tail, 1..N, 0, <<>>) /\ head = N /\ brk = N + 1 /\ calls = <<>>
      /\ Len(printed) = 1 /\ printed[1] = <<>>
  BY <1>1, <1>2 DEF Adding
<1>4. SubSeq(data, 1, 0) = <<>>
  BY SubSeqEmpty
<1>5. pc' = "m" /\ at' = N /\ UNCHANGED <<tail, heap, brk, head, calls, printed>>
  BY <1>3 DEF List!Added
<1>6. Showing'
  BY <1>2, <1>3, <1>4, <1>5 DEF Showing
<1> QED BY <1>1, <1>5, <1>6 DEF Shape, Phases

LEMMA ElementAt ==
  ASSUME List!ListAssumption, NEW h, NEW t, NEW D \in SUBSET (1..N), NEW m \in Nat,
         NEW o, HeapHas(h, t, D, m, o),
         NEW c \in D
  PROVE  /\ c \in DOMAIN h /\ h[c].value = data[N + 1 - c] /\ h[c].value \in Int
         /\ h[c].next = IF c = 1 THEN t ELSE c - 1
<1>1. N \in Nat /\ data \in Seq(Int) /\ N = Len(data) /\ N + 1 - c \in 1..N
  BY OddsIs DEF N
<1>2. c \in DOMAIN h /\ h[c] = Element(c, t)
  BY DEF HeapHas
<1>3. data[N + 1 - c] \in Int
  BY <1>1
<1> QED BY <1>2, <1>3 DEF Element

LEMMA CopyAt ==
  ASSUME List!ListAssumption, NEW h, NEW t, NEW o \in Seq(Int), NEW m \in 1..Len(o), NEW l \in m..Len(o),
         HeapHas(h, t, {}, l, o)
  PROVE  /\ N + m \in DOMAIN h /\ h[N + m].value = o[Len(o) + 1 - m] /\ h[N + m].value \in Int
         /\ h[N + m].next = Foremost(m - 1)
<1>1. N \in Nat /\ Len(o) + 1 - m \in 1..Len(o) /\ m \in 1..l /\ N + m \in (N + 1)..(N + l)
  BY OddsIs
<1>2. N + m \in DOMAIN h /\ h[N + m] = Copy(o, m)
  BY <1>1 DEF HeapHas
<1>3. o[Len(o) + 1 - m] \in Int
  BY <1>1
<1> QED BY <1>2, <1>3 DEF Copy

LEMMA LastReplaced ==
  ASSUME NEW S, NEW t \in Seq(S), Len(t) > 0, NEW e \in S, NEW w, w = [t EXCEPT ![Len(t)] = e]
  PROVE  /\ w \in Seq(S) /\ Len(w) = Len(t) /\ w[Len(t)] = e
         /\ \A k \in 1..(Len(t) - 1) : w[k] = t[k]
<1>1. Len(t) \in 1..Len(t) /\ \A k \in 1..(Len(t) - 1) : k \in 1..Len(t) /\ k # Len(t)
  OBVIOUS
<1> QED BY <1>1, ExceptSeq

\* print_int appends to the last row.
LEMMA RowAppended ==
  ASSUME NEW rows1 \in Seq(Seq(Int)), Len(rows1) > 0, NEW v \in Int, NEW rows2,
         rows2 = [rows1 EXCEPT ![Len(rows1)] = Append(@, v)]
  PROVE  /\ rows2 \in Seq(Seq(Int)) /\ Len(rows2) = Len(rows1)
         /\ rows2[Len(rows1)] = Append(rows1[Len(rows1)], v)
         /\ \A k \in 1..(Len(rows1) - 1) : rows2[k] = rows1[k]
<1>1. rows1[Len(rows1)] \in Seq(Int)
  OBVIOUS
<1>2. Append(rows1[Len(rows1)], v) \in Seq(Int)
  BY <1>1, AppendProperties
<1>3. rows2 = [rows1 EXCEPT ![Len(rows1)] = Append(rows1[Len(rows1)], v)]
  OBVIOUS
<1> QED BY <1>2, <1>3, LastReplaced

LEMMA MKeeps == ASSUME List!ListAssumption, tail \in {List!NULL, List!Garbage}, Shape, List!M PROVE Shape'
<1>1. /\ at \in DOMAIN heap /\ at' = heap[at].next
      /\ printed' = [printed EXCEPT ![Len(printed)] = Append(@, heap[at].value)]
      /\ UNCHANGED <<program, tail, heap, brk, pc, i, head, calls, lost>>
  BY DEF List!M
<1>2. /\ N \in Nat \ {0} /\ data \in Seq(Int) /\ Len(data) = N /\ List!Odds \in Seq(Int)
           /\ Len(List!Odds) \in Nat
      /\ printed \in Seq(Seq(Int)) /\ (Showing \/ ShowingAgain)
  <2>1. N \in 0..N
    BY OddsIs
  <2>2. Showing \/ ShowingAgain
    BY DEF List!M, Shape, Phases, Adding, Filtering, Freeing, Ended
  <2> QED BY <2>1, <2>2, OddsIs DEF N, Shape
<1>5. ASSUME heap[at].value \in Int, Len(printed) > 0
      PROVE  /\ printed' \in Seq(Seq(Int)) /\ Len(printed') = Len(printed)
             /\ printed'[Len(printed)] = Append(printed[Len(printed)], heap[at].value)
             /\ \A k \in 1..(Len(printed) - 1) : printed'[k] = printed[k]
  <2>1. printed' = [printed EXCEPT ![Len(printed)] = Append(@, heap[at].value)] /\ printed \in Seq(Seq(Int))
    BY <1>1, <1>2
  <2> QED BY <1>5, <2>1, RowAppended
<1>3. CASE Showing
  <2>1. /\ HeapHas(heap, tail, 1..N, 0, <<>>) /\ Len(printed) = 1
             /\ (at \in 0..N => printed[1] = SubSeq(data, 1, N - at))
        /\ pc = "m" /\ brk = N + 1 /\ calls = <<>> /\ head = N
    BY <1>3 DEF Showing
  <2>2. at \in 1..N
    <3>1. DOMAIN heap = 1..N \cup (N + 1)..(N + 0) /\ (N + 1)..(N + 0) = {}
      BY <1>2, <2>1 DEF HeapHas
    <3> QED BY <1>1, <3>1
  <2>3. /\ heap[at].value = data[N + 1 - at] /\ heap[at].value \in Int
        /\ at' = IF at = 1 THEN tail ELSE at - 1
    <3>1. heap[at] = Element(at, tail)
      BY <2>1, <2>2 DEF HeapHas
    <3>2. heap[at].value = data[N + 1 - at] /\ heap[at].next = IF at = 1 THEN tail ELSE at - 1
      BY <3>1 DEF Element
    <3>3. N + 1 - at \in 1..Len(data)
      BY <1>2, <2>2
    <3>4. data[N + 1 - at] \in Int
      BY <1>2, <3>3
    <3> QED BY <1>1, <3>2, <3>4
  <2>4. /\ printed' \in Seq(Seq(Int)) /\ Len(printed') = 1 /\ printed'[1] = Append(printed[1], heap[at].value)
    BY <1>5, <2>1, <2>3
  <2>5. printed'[1] = SubSeq(data, 1, N + 1 - at)
    <3>1. N - at \in 0..(Len(data) - 1) /\ (N - at) + 1 = N + 1 - at /\ at \in 0..N
      BY <1>2, <2>2
    <3> QED BY <1>2, <2>1, <2>3, <2>4, <3>1, RowGrows
  <2>6. (at' \in 1..N \/ at' = tail) /\ (at' \in 0..N => N - at' = N + 1 - at)
    BY <1>2, <2>2, <2>3 DEF List!NULL, List!Garbage
  <2>7. Showing'
    BY <1>1, <2>1, <2>4, <2>5, <2>6 DEF Showing
  <2> QED BY <2>4, <2>7 DEF Shape, Phases
<1>4. CASE ShowingAgain
  <2>1. PICK m \in 0..Len(List!Odds) : at = Foremost(m)
          /\ printed[2] = SubSeq(List!Odds, 1, Len(List!Odds) - m)
    BY <1>4 DEF ShowingAgain
  <2>2. /\ HeapHas(heap, tail, {}, Len(List!Odds), List!Odds) /\ head = Foremost(Len(List!Odds))
             /\ Len(printed) = 2
        /\ printed[1] = data /\ pc = "m again" /\ tail = List!NULL /\ calls = <<>>
    BY <1>4 DEF ShowingAgain
  <2>3. m \in 1..Len(List!Odds) /\ at = N + m
    <3>1. DOMAIN heap = (N + 1)..(N + Len(List!Odds))
      BY <2>2 DEF HeapHas
    <3>2. 0 \notin (N + 1)..(N + Len(List!Odds))
      BY <1>2
    <3>3. m # 0
      BY <1>1, <2>1, <3>1, <3>2 DEF Foremost, List!NULL
    <3> QED BY <1>2, <2>1, <3>3 DEF Foremost
  <2>4. /\ heap[at].value = List!Odds[Len(List!Odds) + 1 - m] /\ heap[at].value \in Int
             /\ at' = Foremost(m - 1)
    <3>1. Len(List!Odds) \in m..Len(List!Odds)
      BY <1>2, <2>3
    <3> QED BY <1>1, <1>2, <2>2, <2>3, <3>1, CopyAt
  <2>5. /\ printed' \in Seq(Seq(Int)) /\ Len(printed') = 2 /\ printed'[1] = printed[1]
        /\ printed'[2] = Append(printed[2], heap[at].value)
    <3>1. 1 \in 1..(2 - 1) /\ 2 > 0
      OBVIOUS
    <3> QED BY <1>5, <2>2, <2>4, <3>1
  <2>6. printed'[2] = SubSeq(List!Odds, 1, Len(List!Odds) - (m - 1)) /\ m - 1 \in 0..Len(List!Odds)
    <3>1. Len(List!Odds) - m \in 0..(Len(List!Odds) - 1) /\ (Len(List!Odds) - m) + 1 = Len(List!Odds) + 1 - m
          /\ Len(List!Odds) - (m - 1) = Len(List!Odds) + 1 - m /\ m - 1 \in 0..Len(List!Odds)
      BY <1>2, <2>3
    <3> QED BY <1>2, <2>1, <2>4, <2>5, <3>1, RowGrows
  <2>7. ShowingAgain'
    BY <1>1, <2>2, <2>4, <2>5, <2>6 DEF ShowingAgain
  <2> QED BY <2>5, <2>7 DEF Shape, Phases
<1> QED BY <1>2, <1>3, <1>4

LEMMA RowKeeps == ASSUME List!ListAssumption, program \in {"c", "asm"}, tail \in {List!NULL, List!Garbage},
  Shape, List!Row PROVE Shape'
<1>1. /\ at = List!NULL /\ printed' = Append(printed, <<>>) /\ at' = head
      /\ pc' = (IF pc = "m" THEN "f" ELSE "free") /\ head' = (IF pc = "m" THEN List!NULL ELSE head)
      /\ UNCHANGED <<program, tail, heap, brk, i, calls, lost>>
  BY DEF List!Row
<1>2. /\ N \in Nat \ {0} /\ data \in Seq(Int) /\ Len(data) = N /\ List!Odds \in Seq(Int)
           /\ Len(List!Odds) \in Nat
      /\ printed \in Seq(Seq(Int)) /\ (Showing \/ ShowingAgain)
  <2>1. N \in 0..N
    BY OddsIs
  <2>2. Showing \/ ShowingAgain
    BY DEF List!Row, Shape, Phases, Adding, Filtering, Freeing, Ended
  <2> QED BY <2>1, <2>2, OddsIs DEF N, Shape
<1>3. /\ printed' \in Seq(Seq(Int)) /\ Len(printed') = Len(printed) + 1 /\ printed'[Len(printed) + 1] = <<>>
      /\ \A k \in 1..Len(printed) : printed'[k] = printed[k]
  <2>1. <<>> \in Seq(Int)
    BY EmptySeq
  <2> QED BY <1>1, <1>2, <2>1, AppendProperties
<1>4. CASE Showing
  <2>1. /\ HeapHas(heap, tail, 1..N, 0, <<>>) /\ Len(printed) = 1 /\ pc = "m" /\ brk = N + 1
             /\ calls = <<>> /\ head = N
        /\ (at \in 0..N => printed[1] = SubSeq(data, 1, N - at)) /\ (at \in 1..N \/ at = tail)
    BY <1>4 DEF Showing
  <2>2. tail = List!NULL /\ printed[1] = data
    <3>1. at \in 0..N /\ at \notin 1..N /\ N - at = N
      BY <1>1, <1>2 DEF List!NULL
    <3> QED BY <1>1, <1>2, <2>1, <3>1, SubSeqFull
  <2>3. /\ pc' = "f" /\ tail' = List!NULL /\ at' = N /\ head' = List!NULL /\ brk' = N + 1
             /\ calls' = <<>> /\ heap' = heap
        /\ program' = program /\ Len(printed') = 2 /\ printed'[1] = data /\ printed'[2] = <<>>
    BY <1>1, <1>3, <2>1, <2>2
  <2>4. /\ N - at' = 0 /\ at' \in 0..N /\ List!OddsUpTo[0] = <<>> /\ Len(<<>>) = 0 /\ N + 1 + 0 = N + 1
             /\ 0 <= N
        /\ <<>> \in Seq(Nat) /\ 1..0 = {} /\ Foremost(0) = List!NULL
    BY <1>2, <2>3, OddsIs, EmptySeq DEF Foremost
  <2>5. HeapHas(heap', tail', 1..N, 0, <<>>)
    BY <1>1, <2>1
  <2>6. program' = "c" => CallsOpen(<<>>)'
    BY <2>3, <2>4, <2>5 DEF CallsOpen
  <2>7. program' = "asm" => LoopOpen(<<>>)'
    BY <2>3, <2>4, <2>5 DEF LoopOpen
  <2>8. List!OddsUpTo[N - at'] = <<>>
    BY <2>4
  <2>9. Filtering'
    BY <2>3, <2>4, <2>6, <2>7, <2>8 DEF Filtering
  <2> QED BY <1>3, <2>3, <2>9 DEF Shape, Phases
<1>5. CASE ShowingAgain
  <2>1. PICK m \in 0..Len(List!Odds) : at = Foremost(m)
          /\ printed[2] = SubSeq(List!Odds, 1, Len(List!Odds) - m)
    BY <1>5 DEF ShowingAgain
  <2>2. /\ HeapHas(heap, tail, {}, Len(List!Odds), List!Odds) /\ head = Foremost(Len(List!Odds))
             /\ Len(printed) = 2
        /\ printed[1] = data /\ pc = "m again" /\ tail = List!NULL /\ calls = <<>>
    BY <1>5 DEF ShowingAgain
  <2>3. m = 0
    BY <1>1, <1>2, <2>1 DEF Foremost, List!NULL
  <2>4. printed[2] = List!Odds
    <3>1. Len(List!Odds) - 0 = Len(List!Odds)
      BY <1>2
    <3> QED BY <1>2, <2>1, <2>3, <3>1, SubSeqFull
  <2>5. Shown' /\ pc' = "free" /\ tail' = List!NULL /\ at' = Foremost(Len(List!Odds))
          /\ Len(List!Odds) \in 0..Len(List!Odds)
    <3>1. 1 \in 1..2 /\ 2 \in 1..2 /\ 2 + 1 = 3
      OBVIOUS
    <3>2. Len(printed') = 3 /\ printed'[3] = <<>>
      BY <1>3, <2>2, <3>1
    <3>3. printed'[1] = printed[1] /\ printed'[2] = printed[2]
      BY <1>3, <2>2, <3>1
    <3>4. Shown'
      BY <2>2, <2>4, <3>2, <3>3 DEF Shown
    <3>5. pc # "m" /\ pc' = "free"
      BY <1>1, <2>2
    <3>6. at' = Foremost(Len(List!Odds)) /\ tail' = List!NULL
      BY <1>1, <2>2
    <3>7. Len(List!Odds) \in 0..Len(List!Odds)
      BY <1>2
    <3> QED BY <3>4, <3>5, <3>6, <3>7
  <2>6. HeapHas(heap', tail', {}, Len(List!Odds), List!Odds)
    BY <1>1, <2>2
  <2>7. Len(List!Odds) = 0 => List!Odds = <<>>
    BY <1>2, EmptySeq
  <2>8. Freeing'
    BY <2>5, <2>6, <2>7 DEF Freeing
  <2> QED BY <1>3, <2>8 DEF Shape, Phases
<1> QED BY <1>2, <1>4, <1>5

LEMMA Picked ==
  ASSUME List!ListAssumption, at \in 1..N, tail = List!NULL, NEW D \in SUBSET (1..N), at \in D,
         NEW o, o = List!OddsUpTo[N - at], NEW q, q = List!OddsUpTo[N + 1 - at],
         HeapHas(heap, tail, D, Len(o), o), brk = N + 1 + Len(o), head = Foremost(Len(o)), List!Pick, ~lost'
  PROVE  /\ HeapHas(heap', tail, D, Len(q), q) /\ brk' = N + 1 + Len(q) /\ head' = Foremost(Len(q))
         /\ heap[at].next = at - 1 /\ at - 1 \in 0..N
<1>1. /\ N \in Nat /\ N + 1 - at \in 1..N /\ N - at \in 0..N /\ (N + 1 - at) - 1 = N - at /\ at - 1 \in 0..N
      /\ o \in Seq(Int) /\ Len(o) \in Nat
  <2>1. N \in Nat /\ \A k \in 0..N : List!OddsUpTo[k] \in Seq(Int)
    BY OddsIs
  <2>2. N + 1 - at \in 1..N /\ N - at \in 0..N /\ (N + 1 - at) - 1 = N - at /\ at - 1 \in 0..N
    BY <2>1
  <2>3. o \in Seq(Int)
    BY <2>1, <2>2
  <2> QED BY <2>1, <2>2, <2>3
<1>2. heap[at].value = data[N + 1 - at] /\ heap[at].value \in Int /\ heap[at].next = at - 1
  <2>1. /\ heap[at].value = data[N + 1 - at] /\ heap[at].value \in Int
        /\ heap[at].next = IF at = 1 THEN tail ELSE at - 1
    BY <1>1, ElementAt
  <2> QED BY <1>1, <2>1 DEF List!NULL
<1>3. q = IF data[N + 1 - at] % 2 = 1 THEN <<data[N + 1 - at]>> \o o ELSE o
  <2>1. \A k \in 1..N : List!OddsUpTo[k] = IF data[k] % 2 = 1 THEN <<data[k]>> \o List!OddsUpTo[k - 1]
          ELSE List!OddsUpTo[k - 1]
    BY OddsIs
  <2> QED BY <1>1, <2>1
<1> DEFINE v == heap[at].value
<1>4. v \in Int /\ (List!Odd(v) <=> v % 2 = 1)
  BY <1>2 DEF List!Odd
<1>5. CASE List!Odd(v)
  <2>1. q = <<v>> \o o
    BY <1>2, <1>3, <1>4, <1>5
  <2>2. List!Allocate(v, head) /\ head' = brk
    BY <1>5 DEF List!Pick
  <2>3. /\ heap' = [a \in DOMAIN heap \cup {N + 1 + Len(o)} |->
                      IF a = N + 1 + Len(o) THEN [value |-> v, next |-> Foremost(Len(o))] ELSE heap[a]]
        /\ brk' = (N + 1 + Len(o)) + 1 /\ head' = N + 1 + Len(o)
    BY <2>2 DEF List!Allocate
  <2> HIDE DEF v
  <2>4. Len(<<v>> \o o) = Len(o) + 1
    BY <1>1, <1>4
  <2>5. HeapHas(heap', tail, D, Len(<<v>> \o o), <<v>> \o o)
    BY <1>1, <1>4, <2>3, CopyAdded
  <2>6. brk' = N + 1 + Len(q) /\ head' = Foremost(Len(q))
    <3>1. Len(q) = Len(o) + 1
      BY <2>1, <2>4
    <3>2. Len(q) # 0 /\ N + Len(q) = N + 1 + Len(o) /\ (N + 1 + Len(o)) + 1 = N + 1 + Len(q)
      <4>1. \A a, b \in Nat : b + 1 # 0 /\ a + (b + 1) = a + 1 + b /\ (a + 1 + b) + 1 = a + 1 + (b + 1)
        OBVIOUS
      <4>2. N \in Nat /\ Len(o) \in Nat
        BY <1>1
      <4>3. /\ Len(o) + 1 # 0 /\ N + (Len(o) + 1) = N + 1 + Len(o)
            /\ (N + 1 + Len(o)) + 1 = N + 1 + (Len(o) + 1)
        BY <4>1, <4>2
      <4> QED BY <3>1, <4>3
    <3> QED BY <2>3, <3>2 DEF Foremost
  <2> QED BY <1>1, <1>2, <2>1, <2>5, <2>6
<1>6. CASE ~List!Odd(v)
  <2>1. q = o
    BY <1>2, <1>3, <1>4, <1>6
  <2>2. UNCHANGED <<heap, brk, head>>
    BY <1>6 DEF List!Pick
  <2> QED BY <1>1, <1>2, <2>1, <2>2
<1> QED BY <1>5, <1>6

\* What the invariant says while f runs and an element is left.
LEMMA InFilter ==
  ASSUME List!ListAssumption, Shape, pc = "f"
  PROVE  /\ Filtering /\ N \in Nat \ {0} /\ printed \in Seq(Seq(Int)) /\ tail = List!NULL /\ at \in 0..N
         /\ brk = N + 1 + Len(List!OddsUpTo[N - at]) /\ head = Foremost(Len(List!OddsUpTo[N - at]))
         /\ CallsOpen(List!OddsUpTo[N - at]) \/ LoopOpen(List!OddsUpTo[N - at])
         /\ Len(printed) = 2 /\ printed[1] = data /\ printed[2] = <<>>
         /\ Len(List!OddsUpTo[N - at]) \in Nat
<1>1. Filtering /\ printed \in Seq(Seq(Int))
  BY DEF Shape, Phases, Adding, Showing, ShowingAgain, Freeing, Ended
<1>2. N \in Nat \ {0} /\ \A k \in 0..N : List!OddsUpTo[k] \in Seq(Int)
  BY OddsIs
<1>3. at \in 0..N /\ tail = List!NULL
  BY <1>1 DEF Filtering
<1>4. N - at \in 0..N
  BY <1>2, <1>3
<1>5. Len(List!OddsUpTo[N - at]) \in Nat
  BY <1>2, <1>4
<1> QED BY <1>1, <1>2, <1>3, <1>5 DEF Filtering, FreeOpen

LEMMA AtOutside ==
  ASSUME List!ListAssumption, NEW D \in SUBSET (1..N), NEW m \in Nat,
         NEW o, HeapHas(heap, tail, D, m, o), at \in DOMAIN heap
  PROVE  at # 0
<1>1. N \in Nat
  BY OddsIs
<1>2. DOMAIN heap = D \cup (N + 1)..(N + m)
  BY DEF HeapHas
<1> QED BY <1>1, <1>2

LEMMA FCallsKeeps == ASSUME List!ListAssumption, Shape, List!FCalls, ~lost' PROVE Shape'
<1>1. /\ program = "c" /\ pc = "f" /\ at \in DOMAIN heap /\ List!Pick /\ calls' = Append(calls, at)
           /\ at' = heap[at].next
      /\ UNCHANGED <<program, tail, pc, i, printed>>
  BY DEF List!FCalls
<1> DEFINE o == List!OddsUpTo[N - at]
           q == List!OddsUpTo[N + 1 - at]
<1>2. /\ N \in Nat \ {0} /\ printed \in Seq(Seq(Int)) /\ tail = List!NULL /\ at \in 0..N
      /\ brk = N + 1 + Len(o) /\ head = Foremost(Len(o)) /\ CallsOpen(o)
      /\ Len(printed) = 2 /\ printed[1] = data /\ printed[2] = <<>> /\ Len(o) \in Nat
  BY <1>1, InFilter DEF LoopOpen
<1>3. /\ calls \in Seq(Nat) /\ Len(calls) <= N /\ \A j \in 1..Len(calls) : calls[j] = N + 1 - j
      /\ \/ Len(calls) = N - at /\ HeapHas(heap, tail, 1..N, Len(o), o)
         \/ at = 0 /\ HeapHas(heap, tail, (N + 1 - Len(calls))..N, Len(o), o)
  BY <1>2 DEF CallsOpen
<1> HIDE DEF o, q
<1>4. at \in 1..N /\ Len(calls) = N - at /\ HeapHas(heap, tail, 1..N, Len(o), o)
  <2>1. (N + 1 - Len(calls))..N \in SUBSET (1..N) /\ 1..N \in SUBSET (1..N)
    BY <1>2, <1>3
  <2>2. at # 0
    BY <1>1, <1>2, <1>3, <2>1, AtOutside
  <2> QED BY <1>2, <1>3, <2>2
<1>5. /\ HeapHas(heap', tail, 1..N, Len(q), q) /\ brk' = N + 1 + Len(q) /\ head' = Foremost(Len(q))
      /\ heap[at].next = at - 1 /\ at - 1 \in 0..N
  <2>1. 1..N \in SUBSET (1..N) /\ at \in 1..N
    BY <1>4
  <2> QED BY <1>1, <1>2, <1>4, <2>1, Picked DEF o, q
<1>6. at' = at - 1 /\ at' \in 0..N /\ N - at' = N + 1 - at
  BY <1>1, <1>2, <1>4, <1>5
<1>7. /\ calls' \in Seq(Nat) /\ Len(calls') = N - at' /\ Len(calls') <= N
      /\ \A j \in 1..Len(calls') : calls'[j] = N + 1 - j
  <2>1. at \in Nat /\ Len(calls) \in Nat
    BY <1>2, <1>3
  <2>2. /\ calls' \in Seq(Nat) /\ Len(calls') = Len(calls) + 1 /\ calls'[Len(calls) + 1] = at
        /\ \A j \in 1..Len(calls) : calls'[j] = calls[j]
    BY <1>1, <1>3, <2>1, AppendProperties
  <2>3. Len(calls) + 1 = N - at' /\ N - at' <= N /\ N + 1 - (Len(calls) + 1) = at
    BY <1>2, <1>4, <1>6, <2>1
  <2>4. \A j \in 1..(Len(calls) + 1) : j \in 1..Len(calls) \/ j = Len(calls) + 1
    BY <2>1
  <2> QED BY <1>3, <2>2, <2>3, <2>4
<1>8. /\ HeapHas(heap', tail', 1..N, Len(List!OddsUpTo[N - at']), List!OddsUpTo[N - at'])
      /\ brk' = N + 1 + Len(List!OddsUpTo[N - at']) /\ head' = Foremost(Len(List!OddsUpTo[N - at']))
  <2>1. List!OddsUpTo[N - at'] = q /\ tail' = tail
    BY <1>1, <1>6 DEF q
  <2> QED BY <1>5, <2>1
<1>9. CallsOpen(List!OddsUpTo[N - at])'
  BY <1>1, <1>7, <1>8 DEF CallsOpen
<1>10. Filtering'
  BY <1>1, <1>2, <1>6, <1>8, <1>9 DEF Filtering
<1> QED BY <1>1, <1>2, <1>10 DEF Shape, Phases

LEMMA FLoopKeeps == ASSUME List!ListAssumption, Shape, List!FLoop, ~lost' PROVE Shape'
<1>1. /\ program = "asm" /\ pc = "f" /\ at \in DOMAIN heap /\ List!Pick /\ at' = heap[at].next
           /\ pc' = "f free"
      /\ calls' = <<at>> /\ UNCHANGED <<program, tail, i, printed>>
  BY DEF List!FLoop
<1> DEFINE o == List!OddsUpTo[N - at]
           q == List!OddsUpTo[N + 1 - at]
<1>2. /\ N \in Nat \ {0} /\ printed \in Seq(Seq(Int)) /\ tail = List!NULL /\ at \in 0..N
      /\ brk = N + 1 + Len(o) /\ head = Foremost(Len(o)) /\ LoopOpen(o)
      /\ Len(printed) = 2 /\ printed[1] = data /\ printed[2] = <<>> /\ Len(o) \in Nat
  BY <1>1, InFilter DEF CallsOpen
<1>3. HeapHas(heap, tail, 1..at, Len(o), o)
  BY <1>2 DEF LoopOpen
<1> HIDE DEF o, q
<1>4. at \in 1..N /\ 1..at \in SUBSET (1..N) /\ at \in 1..at
  <2>1. 1..at \in SUBSET (1..N)
    BY <1>2
  <2>2. at # 0
    BY <1>1, <1>2, <1>3, <2>1, AtOutside
  <2> QED BY <1>2, <2>1, <2>2
<1>5. /\ HeapHas(heap', tail, 1..at, Len(q), q) /\ brk' = N + 1 + Len(q) /\ head' = Foremost(Len(q))
      /\ heap[at].next = at - 1 /\ at - 1 \in 0..N
  BY <1>1, <1>2, <1>3, <1>4, Picked DEF o, q
<1>6. at' = at - 1 /\ at' \in 0..N /\ N - at' = N + 1 - at /\ at' < N /\ at' + 1 = at
  <2>1. at' = at - 1
    BY <1>1, <1>5
  <2>2. at \in 1..N /\ N \in Nat
    BY <1>2, <1>4
  <2>3. at - 1 \in 0..N /\ N - (at - 1) = N + 1 - at /\ at - 1 < N /\ (at - 1) + 1 = at
    BY <2>2
  <2> QED BY <2>1, <2>3
<1>7. /\ HeapHas(heap', tail', 1..(at' + 1), Len(List!OddsUpTo[N - at']), List!OddsUpTo[N - at'])
      /\ brk' = N + 1 + Len(List!OddsUpTo[N - at']) /\ head' = Foremost(Len(List!OddsUpTo[N - at']))
  <2>1. List!OddsUpTo[N - at'] = q /\ tail' = tail
    BY <1>1, <1>6 DEF q
  <2> QED BY <1>5, <1>6, <2>1
<1>8. FreeOpen(List!OddsUpTo[N - at])'
  BY <1>1, <1>6, <1>7 DEF FreeOpen
<1>9. Filtering'
  BY <1>1, <1>2, <1>6, <1>7, <1>8 DEF Filtering
<1> QED BY <1>1, <1>2, <1>9 DEF Shape, Phases

LEMMA FFreeKeeps == ASSUME List!ListAssumption, Shape, List!FFree PROVE Shape'
<1>1. /\ pc = "f free" /\ pc' = "f" /\ heap' = List!Freed(Head(calls)) /\ calls' = <<>>
      /\ UNCHANGED <<program, tail, brk, i, at, head, printed, lost>>
  BY DEF List!FFree
<1> DEFINE o == List!OddsUpTo[N - at]
<1>2. Filtering /\ printed \in Seq(Seq(Int))
  BY <1>1 DEF Shape, Phases, Adding, Showing, ShowingAgain, Freeing, Ended
<1>3. /\ tail = List!NULL /\ at \in 0..N /\ brk = N + 1 + Len(o) /\ head = Foremost(Len(o)) /\ FreeOpen(o)
      /\ Len(printed) = 2 /\ printed[1] = data /\ printed[2] = <<>>
  BY <1>1, <1>2 DEF Filtering, CallsOpen, LoopOpen
<1>4. N \in Nat /\ N - at \in 0..N /\ \A k \in 0..N : List!OddsUpTo[k] \in Seq(Int)
  <2>1. N \in Nat /\ \A k \in 0..N : List!OddsUpTo[k] \in Seq(Int)
    BY OddsIs
  <2> QED BY <1>3, <2>1
<1>5. Len(o) \in Nat
  BY <1>4
<1>6. program = "asm" /\ at < N /\ calls = <<at + 1>> /\ HeapHas(heap, tail, 1..(at + 1), Len(o), o)
  BY <1>3 DEF FreeOpen
<1> HIDE DEF o
<1>7. /\ 1..(at + 1) \in SUBSET (1..N) /\ at + 1 \in 1..(at + 1) /\ Head(calls) = at + 1
      /\ 1..(at + 1) \ {at + 1} = 1..at
  BY <1>3, <1>4, <1>6
<1>8. heap' = [a \in DOMAIN heap \ {at + 1} |-> heap[a]]
  BY <1>1, <1>7 DEF List!Freed
<1>9. HeapHas(heap', tail, 1..(at + 1) \ {at + 1}, Len(o), o)
  BY <1>5, <1>6, <1>7, <1>8, ElementFreed
<1>10. HeapHas(heap', tail, 1..at, Len(List!OddsUpTo[N - at]), List!OddsUpTo[N - at])
  BY <1>7, <1>9 DEF o
<1>11. LoopOpen(List!OddsUpTo[N - at])'
  BY <1>1, <1>6, <1>10 DEF LoopOpen
<1>12. brk' = N + 1 + Len(List!OddsUpTo[N - at']) /\ head' = Foremost(Len(List!OddsUpTo[N - at']))
  BY <1>1, <1>3 DEF o
<1>13. Filtering'
  BY <1>1, <1>3, <1>11, <1>12 DEF Filtering
<1> QED BY <1>1, <1>2, <1>13 DEF Shape, Phases

LEMMA FReturnsKeeps == ASSUME List!ListAssumption, Shape, List!FReturns PROVE Shape'
<1>1. /\ program = "c" /\ pc = "f" /\ at = List!NULL /\ calls # <<>>
      /\ (Last(calls) \in DOMAIN heap => pc' = pc)
      /\ heap' = List!Freed(Last(calls)) /\ calls' = Front(calls)
      /\ UNCHANGED <<program, tail, brk, i, at, head, printed, lost>>
  BY DEF List!FReturns, List!Rest, Last, Front
<1> DEFINE o == List!OddsUpTo[N - at]
<1>2. /\ N \in Nat \ {0} /\ printed \in Seq(Seq(Int)) /\ tail = List!NULL /\ at \in 0..N /\ at = 0
      /\ brk = N + 1 + Len(o) /\ head = Foremost(Len(o)) /\ CallsOpen(o)
      /\ Len(printed) = 2 /\ printed[1] = data /\ printed[2] = <<>> /\ Len(o) \in Nat
  BY <1>1, InFilter DEF LoopOpen, List!NULL
<1>3. /\ calls \in Seq(Nat) /\ Len(calls) <= N /\ \A j \in 1..Len(calls) : calls[j] = N + 1 - j
      /\ \/ Len(calls) = N - at /\ HeapHas(heap, tail, 1..N, Len(o), o)
         \/ at = 0 /\ HeapHas(heap, tail, (N + 1 - Len(calls))..N, Len(o), o)
  BY <1>2 DEF CallsOpen
<1> HIDE DEF o
<1> DEFINE l == Len(calls)
           c == N + 1 - l
<1>4. l \in 1..N /\ l \in Nat /\ c \in 1..N /\ c..N \in SUBSET (1..N) /\ c \in c..N
        /\ c..N \ {c} = (N + 1 - (l - 1))..N
  <2>1. l \in Nat /\ l # 0
    BY <1>1, <1>3, EmptySeq
  <2> QED BY <1>2, <1>3, <2>1
<1>5. HeapHas(heap, tail, c..N, Len(o), o)
  <2>1. CASE Len(calls) = N - at /\ HeapHas(heap, tail, 1..N, Len(o), o)
    <3>1. c = 1
      BY <1>2, <2>1
    <3> QED BY <2>1, <3>1
  <2>2. CASE HeapHas(heap, tail, (N + 1 - Len(calls))..N, Len(o), o)
    BY <2>2
  <2> QED BY <1>3, <2>1, <2>2
<1>6. Last(calls) = c
  BY <1>3, <1>4 DEF Last
<1> DEFINE inner == Front(calls)
<1>7. inner \in Seq(Nat) /\ Len(inner) = l - 1 /\ \A j \in 1..(l - 1) : inner[j] = N + 1 - j
  <2>1. inner = [j \in 1..(l - 1) |-> calls[j]]
    BY <1>3, <1>4 DEF Front
  <2>2. l - 1 \in Nat /\ \A j \in 1..(l - 1) : calls[j] \in Nat /\ calls[j] = N + 1 - j
    BY <1>3, <1>4
  <2> HIDE DEF inner, l
  <2> QED BY <2>1, <2>2
<1> HIDE DEF l, c, inner
<1>8. c \in DOMAIN heap /\ HeapHas(heap', tail, c..N \ {c}, Len(o), o)
  <2>1. heap' = [a \in DOMAIN heap \ {c} |-> heap[a]]
    BY <1>1, <1>6 DEF List!Freed
  <2> QED BY <1>2, <1>4, <1>5, <2>1, ElementFreed
<1>9. pc' = "f" /\ calls' = inner /\ Len(calls') = l - 1 /\ l - 1 <= N
  BY <1>1, <1>2, <1>4, <1>6, <1>7, <1>8 DEF inner
<1>10. HeapHas(heap', tail', (N + 1 - Len(calls'))..N, Len(List!OddsUpTo[N - at']), List!OddsUpTo[N - at'])
  <2>1. tail' = tail /\ List!OddsUpTo[N - at'] = o /\ c..N \ {c} = (N + 1 - Len(calls'))..N
    BY <1>1, <1>4, <1>9 DEF o
  <2> QED BY <1>8, <2>1
<1>11. CallsOpen(List!OddsUpTo[N - at])'
  <2>1. calls' \in Seq(Nat) /\ Len(calls') <= N /\ \A j \in 1..Len(calls') : calls'[j] = N + 1 - j
    BY <1>7, <1>9
  <2>2. program' = "c" /\ at' = 0
    BY <1>1, <1>2
  <2> QED BY <1>9, <1>10, <2>1, <2>2 DEF CallsOpen
<1>12. brk' = N + 1 + Len(List!OddsUpTo[N - at']) /\ head' = Foremost(Len(List!OddsUpTo[N - at']))
  BY <1>1, <1>2 DEF o
<1>13. Filtering'
  BY <1>1, <1>2, <1>9, <1>11, <1>12 DEF Filtering
<1> QED BY <1>1, <1>2, <1>13 DEF Shape, Phases

LEMMA FEndsKeeps == ASSUME List!ListAssumption, Shape, List!FEnds PROVE Shape'
<1>1. /\ pc = "f" /\ at = List!NULL /\ calls = <<>> /\ pc' = "m again" /\ at' = head
      /\ UNCHANGED <<program, tail, heap, brk, i, head, calls, printed, lost>>
  BY DEF List!FEnds
<1>2. /\ N \in Nat \ {0} /\ printed \in Seq(Seq(Int)) /\ tail = List!NULL /\ at = 0 /\ N - at = N
      /\ (CallsOpen(List!OddsUpTo[N - at]) \/ LoopOpen(List!OddsUpTo[N - at]))
           /\ head = Foremost(Len(List!OddsUpTo[N - at]))
      /\ Len(printed) = 2 /\ printed[1] = data /\ printed[2] = <<>>
  <2>1. N \in Nat \ {0} /\ at = 0
    BY <1>1, InFilter DEF List!NULL
  <2>2. N - at = N
    BY <2>1
  <2>3. /\ printed \in Seq(Seq(Int)) /\ tail = List!NULL /\ head = Foremost(Len(List!OddsUpTo[N - at]))
        /\ Len(printed) = 2 /\ printed[1] = data /\ printed[2] = <<>>
    BY <1>1, InFilter
  <2>4. CallsOpen(List!OddsUpTo[N - at]) \/ LoopOpen(List!OddsUpTo[N - at])
    BY <1>1, InFilter
  <2> QED BY <2>1, <2>2, <2>3, <2>4
<1>3. List!Odds = List!OddsUpTo[N] /\ List!Odds \in Seq(Int) /\ Len(List!Odds) \in Nat
  <2>1. N \in 0..N
    BY <1>2
  <2> QED BY <2>1, OddsIs
<1>4. HeapHas(heap, tail, {}, Len(List!Odds), List!Odds)
  <2>1. CASE CallsOpen(List!Odds)
    <3>1. Len(calls) = 0 /\ N + 1 - 0 = N + 1 /\ (N + 1)..N = {}
      <4>1. N \in Nat
        BY <1>2
      <4>2. Len(calls) = 0
        BY <1>1
      <4>3. N + 1 - 0 = N + 1
        BY <4>1
      <4>4. (N + 1)..N = {}
        BY <4>1
      <4> QED BY <4>2, <4>3, <4>4
    <3>2. \/ Len(calls) = N /\ HeapHas(heap, tail, 1..N, Len(List!Odds), List!Odds)
          \/ HeapHas(heap, tail, (N + 1 - Len(calls))..N, Len(List!Odds), List!Odds)
      BY <1>2, <2>1 DEF CallsOpen
    <3> QED BY <1>2, <3>1, <3>2
  <2>2. CASE LoopOpen(List!Odds)
    <3>1. 1..at = {}
      BY <1>2
    <3> QED BY <2>2, <3>1 DEF LoopOpen
  <2> QED BY <1>2, <1>3, <2>1, <2>2
<1>5. head = Foremost(Len(List!Odds))
  BY <1>1, <1>3, InFilter, <1>2
<1>6. Len(List!Odds) \in 0..Len(List!Odds) /\ SubSeq(List!Odds, 1, Len(List!Odds) - Len(List!Odds)) = <<>>
  <2>1. Len(List!Odds) - Len(List!Odds) = 0 /\ Len(List!Odds) \in 0..Len(List!Odds)
    BY <1>3
  <2> QED BY <2>1, SubSeqEmpty
<1>7. ShowingAgain'
  BY <1>1, <1>2, <1>4, <1>5, <1>6 DEF ShowingAgain
<1> QED BY <1>1, <1>2, <1>7 DEF Shape, Phases

\* What the invariant says while the new list is freed.
LEMMA InFree ==
  ASSUME List!ListAssumption, Shape, pc = "free"
  PROVE  /\ N \in Nat \ {0} /\ List!Odds \in Seq(Int) /\ Len(List!Odds) \in Nat /\ printed \in Seq(Seq(Int))
         /\ tail = List!NULL /\ Shown
<1>1. Freeing /\ printed \in Seq(Seq(Int))
  BY DEF Shape, Phases, Adding, Showing, ShowingAgain, Filtering, Ended
<1>2. N \in Nat \ {0} /\ List!Odds \in Seq(Int)
  <2>1. N \in 0..N
    BY OddsIs
  <2> QED BY <2>1, OddsIs
<1>3. Len(List!Odds) \in Nat
  BY <1>2
<1> QED BY <1>1, <1>2, <1>3 DEF Freeing

\* The copies that are left to free.
LEMMA CopiesLeft ==
  ASSUME List!ListAssumption, Shape, pc = "free"
  PROVE  \E m \in 0..Len(List!Odds) :
           /\ at = Foremost(m) /\ HeapHas(heap, tail, {}, m, List!Odds)
           /\ program = "c" /\ m = 0 => List!Odds = <<>>
<1>1. Freeing
  BY DEF Shape, Phases, Adding, Showing, ShowingAgain, Filtering, Ended
<1> QED BY <1>1 DEF Freeing

LEMMA NoneLeft ==
  ASSUME List!ListAssumption, NEW h, NEW t, NEW o, HeapHas(h, t, {}, 0, o)
  PROVE  h = <<>>
<1>1. N \in Nat /\ (N + 1)..(N + 0) = {}
  BY OddsIs
<1>2. DOMAIN h = {} /\ h = [a \in DOMAIN h |-> h[a]]
  BY <1>1 DEF HeapHas
<1> QED BY <1>2

LEMMA FreeKeeps == ASSUME List!ListAssumption, Shape, List!Free PROVE Shape'
<1>1. /\ pc = "free" /\ at \in DOMAIN heap /\ heap' = List!Freed(at) /\ at' = heap[at].next
      /\ pc' = (IF program = "c" /\ heap[at].next = List!NULL THEN "done" ELSE pc)
      /\ UNCHANGED <<program, tail, brk, i, head, calls, printed, lost>>
  BY DEF List!Free
<1>2. /\ N \in Nat \ {0} /\ List!Odds \in Seq(Int) /\ Len(List!Odds) \in Nat
           /\ printed \in Seq(Seq(Int)) /\ tail = List!NULL /\ Shown
  BY <1>1, InFree
<1>3. PICK m \in 0..Len(List!Odds) : at = Foremost(m) /\ HeapHas(heap, tail, {}, m, List!Odds)
  BY <1>1, CopiesLeft
<1>4. m \in 1..Len(List!Odds) /\ at = N + m /\ m \in Nat \ {0} /\ m \in m..Len(List!Odds)
        /\ m - 1 \in 0..Len(List!Odds)
  <2>1. {} \in SUBSET (1..N) /\ m \in Nat
    BY <1>2
  <2>2. at # 0
    BY <1>1, <1>3, <2>1, AtOutside
  <2>3. m # 0
    BY <1>3, <2>2 DEF Foremost, List!NULL
  <2> QED BY <1>2, <1>3, <2>3 DEF Foremost
<1>5. at' = Foremost(m - 1)
  BY <1>1, <1>2, <1>3, <1>4, CopyAt
<1>6. HeapHas(heap', tail, {}, m - 1, List!Odds)
  <2>1. heap' = [a \in DOMAIN heap \ {N + m} |-> heap[a]]
    BY <1>1, <1>4 DEF List!Freed
  <2> QED BY <1>3, <1>4, <2>1, CopyFreed
<1>7. heap[at].next = List!NULL <=> m - 1 = 0
  <2>1. N + (m - 1) # 0
    BY <1>2, <1>4
  <2> QED BY <1>1, <1>5, <2>1 DEF Foremost, List!NULL
<1>8. Shown' /\ tail' = List!NULL
  BY <1>1, <1>2 DEF Shown
<1>9. CASE program = "c" /\ m - 1 = 0
  <2>1. pc' = "done"
    BY <1>1, <1>7, <1>9
  <2>2. heap' = <<>>
    BY <1>6, <1>9, NoneLeft
  <2> QED BY <1>1, <1>2, <1>8, <2>1, <2>2 DEF Shape, Phases, Ended
<1>10. CASE ~(program = "c" /\ m - 1 = 0)
  <2>1. pc' = "free"
    BY <1>1, <1>7, <1>10
  <2>2. Freeing'
    BY <1>1, <1>4, <1>5, <1>6, <1>8, <1>10, <2>1 DEF Freeing
  <2> QED BY <1>1, <1>2, <2>2 DEF Shape, Phases
<1> QED BY <1>9, <1>10

LEMMA FreeEndsKeeps == ASSUME List!ListAssumption, Shape, List!FreeEnds PROVE Shape'
<1>1. /\ pc = "free" /\ at = List!NULL /\ pc' = (IF program = "c" THEN "undefined" ELSE "done")
      /\ UNCHANGED <<program, tail, brk, i, at, head, heap, calls, printed, lost>>
  BY DEF List!FreeEnds, List!Stop
<1>2. N \in Nat \ {0} /\ List!Odds \in Seq(Int) /\ Len(List!Odds) \in Nat /\ printed \in Seq(Seq(Int))
        /\ tail = List!NULL /\ Shown
  BY <1>1, InFree
<1>3. PICK m \in 0..Len(List!Odds) :
        at = Foremost(m) /\ HeapHas(heap, tail, {}, m, List!Odds) /\ (program = "c"
          /\ m = 0 => List!Odds = <<>>)
  BY <1>1, CopiesLeft
<1>4. m = 0
  BY <1>1, <1>2, <1>3 DEF Foremost, List!NULL
<1>5. heap = <<>>
  BY <1>3, <1>4, NoneLeft
<1>6. Shown' /\ tail' = List!NULL /\ heap' = <<>> /\ program' = program /\ (program = "c" => List!Odds = <<>>)
  BY <1>1, <1>2, <1>3, <1>4, <1>5 DEF Shown
<1>7. Ended'
  BY <1>1, <1>6 DEF Ended
<1> QED BY <1>1, <1>2, <1>7 DEF Shape, Phases

LEMMA UndefinedKeeps ==
  ASSUME List!ListAssumption, tail \in {List!NULL, List!Garbage}, tail = List!Garbage => program = "c",
    Shape, List!Undefined
  PROVE  Shape'
<1>1. /\ pc \in {"m", "m again", "f", "free"} /\ at # List!NULL /\ at \notin DOMAIN heap /\ pc' = "undefined"
      /\ UNCHANGED <<program, tail, brk, i, at, head, heap, calls, printed, lost>>
  BY DEF List!Undefined, List!Wild, List!Stop
<1>2. /\ N \in Nat \ {0} /\ List!Odds \in Seq(Int) /\ Len(List!Odds) \in Nat /\ printed \in Seq(Seq(Int))
  <2>1. N \in 0..N /\ List!Odds \in Seq(Int)
    <3>1. N \in 0..N
      BY OddsIs
    <3> QED BY <3>1, OddsIs
  <2> QED BY <2>1, OddsIs DEF Shape
<1>3. ASSUME NEW m \in 0..Len(List!Odds),
             NEW l \in m..Len(List!Odds), HeapHas(heap, tail, {}, l, List!Odds), at = Foremost(m)
      PROVE  FALSE
  <2>1. m # 0
    BY <1>1, <1>3 DEF Foremost
  <2>2. at = N + m /\ N + m \in (N + 1)..(N + l)
    BY <1>2, <1>3, <2>1 DEF Foremost
  <2> QED BY <1>1, <1>3, <2>2 DEF HeapHas
<1>4. tail = List!Garbage
  <2>1. CASE pc = "m"
    <3>1. Showing
      BY <2>1 DEF Shape, Phases, Adding, ShowingAgain, Filtering, Freeing, Ended
    <3>2. at \notin 1..N
      BY <1>1, <3>1 DEF Showing, HeapHas
    <3> QED BY <1>1, <3>1, <3>2 DEF Showing
  <2>2. CASE pc = "f"
    <3>1. at \in 0..N /\ at # 0 /\ (CallsOpen(List!OddsUpTo[N - at]) \/ LoopOpen(List!OddsUpTo[N - at]))
      BY <1>1, <2>2, InFilter DEF List!NULL
    <3>2. at \in 1..N /\ at \in 1..at
      BY <1>1, <1>2, <2>2, InFilter DEF List!NULL
    <3>3. \/ HeapHas(heap, tail, 1..N, Len(List!OddsUpTo[N - at]), List!OddsUpTo[N - at])
          \/ HeapHas(heap, tail, 1..at, Len(List!OddsUpTo[N - at]), List!OddsUpTo[N - at])
      <4>1. at # 0
        BY <3>2
      <4> QED BY <2>2, <4>1, InFilter DEF CallsOpen, LoopOpen
    <3>4. at \in DOMAIN heap
      BY <3>2, <3>3 DEF HeapHas
    <3> QED BY <1>1, <3>4
  <2>3. CASE pc = "m again"
    <3>1. ShowingAgain
      BY <2>3 DEF Shape, Phases, Adding, Showing, Filtering, Freeing, Ended
    <3>2. PICK m \in 0..Len(List!Odds) : at = Foremost(m)
      BY <3>1 DEF ShowingAgain
    <3>3. HeapHas(heap, tail, {}, Len(List!Odds), List!Odds)
      BY <3>1 DEF ShowingAgain
    <3>4. Len(List!Odds) \in m..Len(List!Odds)
      BY <1>2
    <3> QED BY <1>3, <3>2, <3>3, <3>4
  <2>4. CASE pc = "free"
    <3>1. PICK m \in 0..Len(List!Odds) : at = Foremost(m) /\ HeapHas(heap, tail, {}, m, List!Odds)
      BY <2>4, CopiesLeft
    <3>2. m \in m..Len(List!Odds)
      BY <1>2
    <3> QED BY <1>3, <3>1, <3>2
  <2> QED BY <1>1, <2>1, <2>2, <2>3, <2>4
<1>5. Ended'
  BY <1>1, <1>4 DEF Ended
<1> QED BY <1>1, <1>2, <1>5 DEF Shape, Phases

LEMMA NextKeepsList == ASSUME List!ListAssumption, ListInv, [List!Next]_List!vars PROVE ListInv'
<1>1. /\ program \in {"c", "asm"} /\ tail \in {List!NULL, List!Garbage}
           /\ (tail = List!Garbage \/ lost => program = "c")
      /\ (~lost => Shape)
  BY DEF ListInv
<1>2. program' = program /\ tail' = tail /\ (lost' => lost \/ program = "c") /\ (lost => lost')
  <2>1. CASE UNCHANGED List!vars
    BY <2>1 DEF List!vars
  <2>2. CASE List!FCalls
    BY <2>2 DEF List!FCalls, List!Pick
  <2>3. CASE List!FLoop
    <3>1. program = "asm" /\ UNCHANGED <<program, tail>> /\ List!Pick
      BY <2>3 DEF List!FLoop
    <3>2. program # "c"
      BY <3>1
    <3>3. lost' = lost
      BY <3>1, <3>2 DEF List!Pick
    <3> QED BY <3>1, <3>3
  <2>4. CASE List!Next /\ ~List!FCalls /\ ~List!FLoop
    <3>1. UNCHANGED <<program, tail, lost>>
      BY <2>4 DEF List!Next, List!Add, List!AddFails, List!Added, List!M, List!Row, List!FReturns,
        List!FFree, List!FAborts, List!FEnds, List!Free, List!FreeEnds, List!Undefined, List!Wild,
          List!Stop, Last
    <3> QED BY <3>1
  <2> QED BY <2>1, <2>2, <2>3, <2>4
<1>3. ASSUME ~lost' PROVE Shape'
  <2>1. Shape /\ (tail = List!Garbage => program = "c")
    BY <1>1, <1>2, <1>3
  <2>2. CASE UNCHANGED List!vars
    BY <2>1, <2>2 DEF List!vars, Shape, Phases, Adding, Showing, ShowingAgain, Filtering, Freeing, Ended,
      Shown,
       CallsOpen, LoopOpen, FreeOpen
  <2>3. CASE List!AddFails \/ List!FAborts
    <3>1. pc' = "failed" /\ printed' = printed
      BY <2>3 DEF List!AddFails, List!FAborts, List!Stop
    <3> QED BY <2>1, <3>1 DEF Shape, Phases, Ended
  <2>4. CASE List!Next /\ ~List!AddFails /\ ~List!FAborts
    <3>1. \/ List!Add \/ List!Added \/ List!M \/ List!Row \/ List!FCalls \/ List!FReturns \/ List!FLoop
            \/ List!FFree \/ List!FEnds \/ List!Free \/ List!FreeEnds
          \/ List!Undefined
      BY <2>4 DEF List!Next
    <3> QED BY <1>1, <1>3, <2>1, <3>1, AddKeeps, AddedKeeps, MKeeps, RowKeeps, FCallsKeeps, FReturnsKeeps,
          FLoopKeeps,
               FFreeKeeps, FEndsKeeps, FreeKeeps, FreeEndsKeeps, UndefinedKeeps
  <2> QED BY <2>2, <2>3, <2>4
<1> QED BY <1>1, <1>2, <1>3 DEF ListInv

LEMMA ListImplied == ASSUME ListInv PROVE List!SameRows /\ List!NothingLeaks /\ List!NoWildPointer
<1>1. ASSUME pc = "done", ~lost PROVE printed = <<data, List!Odds, <<>>>> /\ heap = <<>>
  <2>1. Shown /\ heap = <<>> /\ printed \in Seq(Seq(Int))
    BY <1>1 DEF ListInv, Shape, Phases, Adding, Showing, ShowingAgain, Filtering, Freeing, Ended
  <2>2. printed = <<printed[1], printed[2], printed[3]>>
    BY <2>1 DEF Shown
  <2> QED BY <2>1, <2>2 DEF Shown
<1>2. ASSUME pc = "undefined" PROVE program = "c" /\ (tail = List!Garbage \/ lost \/ List!Odds = <<>>)
  BY <1>2 DEF ListInv, Shape, Phases, Adding, Showing, ShowingAgain, Filtering, Freeing, Ended
<1> QED BY <1>1, <1>2 DEF List!SameRows, List!NothingLeaks, List!NoWildPointer

\* Whatever the list, its C program and its assembly program print the list
\* and its odd numbers, the last first, and free every element they allocated
\* exactly once; only the C program can follow a pointer to no element, and
\* only with garbage for the end of its list, without memory for a copy, or
\* with no odd number (src/3-asm/main.c, memory-leak-fixed/main.asm).
THEOREM ListCorrect ==
  ASSUME List!ListAssumption
  PROVE  List!Spec => [](List!SameRows /\ List!NothingLeaks /\ List!NoWildPointer)
<1>1. List!Init => ListInv
  BY InitList
<1>2. ListInv /\ [List!Next]_List!vars => ListInv'
  BY NextKeepsList
<1>3. ListInv => List!SameRows /\ List!NothingLeaks /\ List!NoWildPointer
  BY ListImplied
<1> QED BY <1>1, <1>2, <1>3, PTL DEF List!Spec

-----------------------------------------------------------------------------
(* ColumnStats: columns of any length, any number of changes.              *)

(* Sums *)

\* u has the sums of the first 0..n terms.
Sums(u, terms, n) == u = [k \in 0..n |-> IF k = 0 THEN 0 ELSE u[k - 1] + terms[k]]

\* Such sums there are for every number of terms.
LEMMA SumsExist ==
  ASSUME NEW terms \in Seq(Int), NEW n \in 0..Len(terms)
  PROVE  \E u : Sums(u, terms, n)
<1> DEFINE Bad == {k \in 0..Len(terms) : ~\E u : Sums(u, terms, k)}
<1>1. SUFFICES ASSUME Bad # {} PROVE FALSE
  BY <1>1
<1>2. Bad \in SUBSET Nat
  OBVIOUS
<1>3. PICK m \in Bad : \A k \in Bad : m <= k
  BY <1>1, <1>2, Least
<1>4. m \in 0..Len(terms) /\ m \in Nat /\ Len(terms) \in Nat /\ ~\E u : Sums(u, terms, m)
  BY <1>3
<1>5. m # 0
  <2> SUFFICES ASSUME m = 0 PROVE FALSE
    OBVIOUS
  <2> DEFINE z == [k \in 0..0 |-> 0]
  <2>1. z = [k \in 0..0 |-> IF k = 0 THEN 0 ELSE z[k - 1] + terms[k]]
    OBVIOUS
  <2>2. Sums(z, terms, 0)
    BY <2>1 DEF Sums
  <2> QED BY <1>4, <2>2
<1>6. PICK u : Sums(u, terms, m - 1)
  <2>1. m - 1 \in 0..Len(terms) /\ ~(m <= m - 1)
    BY <1>4, <1>5
  <2>2. m - 1 \notin Bad
    BY <1>3, <2>1
  <2> QED BY <2>1, <2>2
<1> HIDE DEF Bad
<1> DEFINE w == [k \in 0..m |-> IF k = m THEN u[m - 1] + terms[m] ELSE u[k]]
           e == [k \in 0..m |-> IF k = 0 THEN 0 ELSE w[k - 1] + terms[k]]
<1>7. u = [k \in 0..(m - 1) |-> IF k = 0 THEN 0 ELSE u[k - 1] + terms[k]]
  BY <1>6 DEF Sums
<1>8. \A k \in 0..(m - 1) : u[k] = IF k = 0 THEN 0 ELSE u[k - 1] + terms[k]
  <2> TAKE k \in 0..(m - 1)
  <2> DEFINE g == [j \in 0..(m - 1) |-> IF j = 0 THEN 0 ELSE u[j - 1] + terms[j]]
  <2>1. g[k] = IF k = 0 THEN 0 ELSE u[k - 1] + terms[k]
    OBVIOUS
  <2>2. u = g
    BY <1>7
  <2> HIDE DEF g
  <2> QED BY <2>1, <2>2
<1>9. w[m] = u[m - 1] + terms[m] /\ \A k \in 0..(m - 1) : w[k] = u[k]
  BY <1>4
<1>10. \A k \in 0..m : w[k] = IF k = 0 THEN 0 ELSE w[k - 1] + terms[k]
  <2> HIDE DEF w
  <2> TAKE k \in 0..m
  <2>1. CASE k = m
    <3>1. m - 1 \in 0..(m - 1)
      BY <1>4, <1>5
    <3> QED BY <1>5, <1>9, <2>1, <3>1
  <2>2. CASE k # m
    <3>1. k \in 0..(m - 1) /\ w[k] = u[k]
      BY <1>4, <1>9, <2>2
    <3>2. k # 0 => k - 1 \in 0..(m - 1)
      BY <1>4, <3>1
    <3>3. k # 0 => w[k - 1] = u[k - 1]
      BY <1>9, <3>2
    <3> QED BY <1>8, <3>1, <3>3
  <2> QED BY <2>1, <2>2
<1>11. w = e
  <2>1. DOMAIN w = 0..m /\ DOMAIN e = 0..m /\ \A k \in 0..m : e[k] = IF k = 0 THEN 0 ELSE w[k - 1] + terms[k]
    OBVIOUS
  <2>2. \A k \in 0..m : w[k] = e[k]
    BY <1>10, <2>1
  <2>3. w = [k \in DOMAIN w |-> w[k]] /\ e = [k \in DOMAIN e |-> e[k]]
    OBVIOUS
  <2> HIDE DEF w, e
  <2> QED BY <2>1, <2>2, <2>3
<1>12. Sums(w, terms, m)
  BY <1>11 DEF Sums, e
<1> QED BY <1>4, <1>12

\* Total adds the terms one by one.
LEMMA TotalIs ==
  ASSUME NEW terms \in Seq(Int)
  PROVE  \E u : /\ Stats!Total(terms) = u[Len(terms)] /\ u[0] = 0
                /\ \A k \in 1..Len(terms) : u[k] = u[k - 1] + terms[k]
                /\ \A k \in 0..Len(terms) : u[k] \in Int
<1> DEFINE n == Len(terms)
           u == CHOOSE u : u = [k \in 0..n |-> IF k = 0 THEN 0 ELSE u[k - 1] + terms[k]]
<1>1. n \in Nat
  OBVIOUS
<1>2. Stats!Total(terms) = u[n]
  BY DEF Stats!Total
<1>3. PICK v : v = [k \in 0..n |-> IF k = 0 THEN 0 ELSE v[k - 1] + terms[k]]
  <2>1. n \in 0..Len(terms)
    BY <1>1
  <2> HIDE DEF n
  <2> QED BY <2>1, SumsExist DEF Sums
<1>4. u = [k \in 0..n |-> IF k = 0 THEN 0 ELSE u[k - 1] + terms[k]]
  <2> HIDE DEF n
  <2> QED BY <1>3
<1> HIDE DEF u
<1>5. \A k \in 0..n : u[k] = IF k = 0 THEN 0 ELSE u[k - 1] + terms[k]
  <2> TAKE k \in 0..n
  <2> DEFINE g == [j \in 0..n |-> IF j = 0 THEN 0 ELSE u[j - 1] + terms[j]]
  <2>1. g[k] = IF k = 0 THEN 0 ELSE u[k - 1] + terms[k]
    OBVIOUS
  <2>2. u = g
    BY <1>4
  <2> HIDE DEF g
  <2> QED BY <2>1, <2>2
<1>6. u[0] = 0 /\ \A k \in 1..n : u[k] = u[k - 1] + terms[k]
  <2>1. 0 \in 0..n /\ \A k \in 1..n : k \in 0..n /\ k # 0
    BY <1>1
  <2> HIDE DEF n
  <2> QED BY <1>5, <2>1
<1>7. \A k \in 0..n : u[k] \in Int
  <2> DEFINE Bad == {k \in 0..n : u[k] \notin Int}
  <2>1. SUFFICES ASSUME Bad # {} PROVE FALSE
    BY <2>1
  <2>2. PICK m \in Bad : \A k \in Bad : m <= k
    <3>1. Bad \in SUBSET Nat
      BY <1>1
    <3> HIDE DEF Bad
    <3> QED BY <2>1, <3>1, Least
  <2>3. m \in 1..n /\ m - 1 \in 0..n /\ ~(m <= m - 1) /\ u[m] \notin Int
    BY <1>1, <1>6, <2>2
  <2>4. u[m - 1] \in Int /\ terms[m] \in Int
    BY <2>2, <2>3
  <2> QED BY <1>6, <2>3, <2>4
<1> QED BY <1>2, <1>6, <1>7

-----------------------------------------------------------------------------
(* The dispersion *)

\* The square of a distance, and of none for a NULL.
LEMMA SquareIs ==
  ASSUME NEW n \in Int, NEW s \in Int, NEW x \in Int, NEW y \in {0, 1}, y = 0 => x = 0
  PROVE  /\ y * (n * x - s) * (n * x - s) = (n * n) * (x * x) - (2 * (n * s)) * x + (s * s) * y
         /\ y * (n * x - s) * (n * x - s) >= 0
<1> DEFINE z == n * x - s
<1>1. z \in Int /\ z * z >= 0
  OBVIOUS
<1>2. z * z = (n * n) * (x * x) - (2 * (n * s)) * x + s * s
  OBVIOUS
<1>3. CASE y = 1
  <2>1. y * z * z = z * z /\ (s * s) * y = s * s
    <3> HIDE DEF z
    <3> QED BY <1>1, <1>3
  <2> QED BY <1>1, <1>2, <2>1
<1>4. CASE y = 0
  <2>1. x = 0 /\ (s * s) * y = 0 /\ (n * n) * (x * x) = 0 /\ (2 * (n * s)) * x = 0
    BY <1>4
  <2>2. y * z * z = 0
    <3> HIDE DEF z
    <3> QED BY <1>1, <1>4
  <2> QED BY <2>1, <2>2
<1> QED BY <1>3, <1>4

\* Sums of terms are sums of their sums.
LEMMA AddsUp ==
  ASSUME NEW a \in Int, NEW b \in Int, NEW c \in Int,
         NEW q \in Int, NEW x \in Int, NEW y \in Int, NEW dq \in Int, NEW dx \in Int, NEW dy \in Int
  PROVE  (a * q - b * x + c * y) + (a * dq - b * dx + c * dy) = a * (q + dq) - b * (x + dx) + c * (y + dy)
<1>1. a * (q + dq) = a * q + a * dq /\ b * (x + dx) = b * x + b * dx /\ c * (y + dy) = c * y + c * dy
  OBVIOUS
<1> QED BY <1>1

LEMMA ColumnIs ==
  ASSUME Stats!StatsAssumption, NEW c \in Stats!Columns
  PROVE  /\ c \in Seq(Int) /\ DOMAIN c = 1..Len(c) /\ Len(c) \in Nat
         /\ \A k \in 1..Len(c) :
              /\ Stats!Counted(c[k]) \in {0, 1} /\ Stats!Number(c[k]) \in Int
              /\ Stats!Counted(c[k]) = 0 => Stats!Number(c[k]) = 0
<1>1. PICK n \in 0..MaxRows : c \in [1..n -> Numbers \cup {Stats!NULL, Stats!TEXT}]
  BY DEF Stats!Columns
<1>2. n \in Nat /\ Numbers \cup {Stats!NULL, Stats!TEXT} \subseteq Int
  BY <1>1 DEF Stats!StatsAssumption, Stats!NULL, Stats!TEXT
<1>3. c \in Seq(Int) /\ Len(c) = n /\ DOMAIN c = 1..n
  BY <1>1, <1>2
<1>4. \A v \in Numbers \cup {Stats!NULL, Stats!TEXT} :
         Stats!Counted(v) \in {0, 1} /\ Stats!Number(v) \in Int
           /\ (Stats!Counted(v) = 0 => Stats!Number(v) = 0)
  BY <1>2 DEF Stats!Counted, Stats!Number
<1> QED BY <1>1, <1>2, <1>3, <1>4

LEMMA Variance ==
  ASSUME Stats!StatsAssumption, NEW c \in Stats!Columns
  PROVE  LET a == Stats!Statistics(c)
             Distance(v) == a.n * Stats!Number(v) - a.sum
         IN /\ a.n \in Nat /\ a.dispersion \in Nat
            /\ a.n * a.dispersion =
                 Stats!Total([k \in DOMAIN c |-> Stats!Counted(c[k]) * Distance(c[k]) * Distance(c[k])])
<1> DEFINE L == Len(c)
           C == [k \in DOMAIN c |-> Stats!Counted(c[k])]
           X == [k \in DOMAIN c |-> Stats!Number(c[k])]
           Q == [k \in DOMAIN c |-> Stats!Number(c[k]) * Stats!Number(c[k])]
           n == Stats!Total(C)
           s == Stats!Total(X)
           D == [k \in DOMAIN c |-> Stats!Counted(c[k]) * (n * Stats!Number(c[k])
             - s) * (n * Stats!Number(c[k]) - s)]
<1>1. /\ DOMAIN c = 1..L /\ L \in Nat
      /\ \A k \in 1..L : /\ Stats!Counted(c[k]) \in {0, 1} /\ Stats!Number(c[k]) \in Int
                         /\ Stats!Counted(c[k]) = 0 => Stats!Number(c[k]) = 0
  BY ColumnIs
<1> HIDE DEF L, n, s
<1>2. C \in Seq(Int) /\ Len(C) = L /\ \A k \in 1..L : C[k] = Stats!Counted(c[k])
  <2>1. C \in [1..L -> Int]
    BY <1>1
  <2> QED BY <1>1, <2>1
<1>3. X \in Seq(Int) /\ Len(X) = L /\ \A k \in 1..L : X[k] = Stats!Number(c[k])
  <2>1. X \in [1..L -> Int]
    BY <1>1
  <2> QED BY <1>1, <2>1
<1>4. Q \in Seq(Int) /\ Len(Q) = L /\ \A k \in 1..L : Q[k] = Stats!Number(c[k]) * Stats!Number(c[k])
  <2>1. Q \in [1..L -> Int]
    BY <1>1
  <2> QED BY <1>1, <2>1
<1>5. PICK fc : /\ n = fc[L] /\ fc[0] = 0 /\ \A k \in 1..L : fc[k] = fc[k - 1] + C[k]
                /\ \A k \in 0..L : fc[k] \in Int
  <2> HIDE DEF C
  <2> QED BY <1>2, TotalIs DEF n
<1>6. PICK fx : /\ s = fx[L] /\ fx[0] = 0 /\ \A k \in 1..L : fx[k] = fx[k - 1] + X[k]
                /\ \A k \in 0..L : fx[k] \in Int
  <2> HIDE DEF X
  <2> QED BY <1>3, TotalIs DEF s
<1>7. PICK fq : /\ Stats!Total(Q) = fq[L] /\ fq[0] = 0 /\ \A k \in 1..L : fq[k] = fq[k - 1] + Q[k]
                /\ \A k \in 0..L : fq[k] \in Int
  <2> HIDE DEF Q
  <2> QED BY <1>4, TotalIs
<1>8. n \in Int /\ s \in Int /\ L \in 0..L
  BY <1>1, <1>5, <1>6
<1>9. /\ D \in Seq(Int) /\ Len(D) = L
      /\ \A k \in 1..L : D[k] >= 0 /\ D[k] = (n * n) * Q[k] - (2 * (n * s)) * X[k] + (s * s) * C[k]
  <2>1. \A k \in 1..L : /\ Stats!Counted(c[k]) * (n * Stats!Number(c[k]) - s) * (n * Stats!Number(c[k]) - s) =
                             (n * n) * (Stats!Number(c[k]) * Stats!Number(c[k]))
                               - (2 * (n * s)) * Stats!Number(c[k]) + (s * s) * Stats!Counted(c[k])
                        /\ Stats!Counted(c[k]) * (n * Stats!Number(c[k]) - s) * (n * Stats!Number(c[k])
                             - s) >= 0
    BY <1>1, <1>8, SquareIs
  <2>2. \A k \in 1..L : Stats!Counted(c[k]) * (n * Stats!Number(c[k]) - s) * (n * Stats!Number(c[k])
          - s) \in Int
    BY <1>1, <1>8
  <2>3. D \in [1..L -> Int]
    BY <1>1, <2>2
  <2>4. \A k \in 1..L : D[k] = Stats!Counted(c[k]) * (n * Stats!Number(c[k])
          - s) * (n * Stats!Number(c[k]) - s)
    BY <1>1
  <2>5. D \in Seq(Int) /\ Len(D) = L
    <3> HIDE DEF D
    <3> QED BY <1>1, <2>3
  <2> HIDE DEF D, C, X, Q
  <2> QED BY <1>2, <1>3, <1>4, <2>1, <2>4, <2>5
<1>10. PICK fd : /\ Stats!Total(D) = fd[L] /\ fd[0] = 0 /\ \A k \in 1..L : fd[k] = fd[k - 1] + D[k]
                 /\ \A k \in 0..L : fd[k] \in Int
  <2> HIDE DEF D
  <2> QED BY <1>9, TotalIs
<1> DEFINE Good(k) == /\ fd[k] >= 0 /\ fc[k] >= 0 /\ (fc[k] = 0 => fx[k] = 0)
                      /\ fd[k] = (n * n) * fq[k] - (2 * (n * s)) * fx[k] + (s * s) * fc[k]
           Bad == {k \in 0..L : ~Good(k)}
<1> HIDE DEF C, X, Q, D
<1>11. Bad = {}
  <2> SUFFICES ASSUME Bad # {} PROVE FALSE
    OBVIOUS
  <2>1. PICK m \in Bad : \A k \in Bad : m <= k
    <3>1. Bad \in SUBSET Nat
      BY <1>1
    <3> HIDE DEF Bad
    <3> QED BY <3>1, Least
  <2>2. m \in 0..L /\ ~Good(m)
    BY <2>1
  <2>3. Good(0)
    BY <1>5, <1>6, <1>7, <1>8, <1>10
  <2>4. m \in 1..L /\ m - 1 \in 0..L /\ ~(m <= m - 1)
    <3> HIDE DEF Good
    <3> QED BY <1>1, <2>2, <2>3
  <2>5. Good(m - 1)
    <3> HIDE DEF Good
    <3> QED BY <2>1, <2>4
  <2>6. /\ C[m] \in {0, 1} /\ X[m] \in Int /\ Q[m] \in Int /\ D[m] \in Int /\ (C[m] = 0 => X[m] = 0)
             /\ D[m] >= 0
    BY <1>1, <1>2, <1>3, <1>4, <1>9, <2>4
  <2>7. /\ fc[m] = fc[m - 1] + C[m] /\ fx[m] = fx[m - 1] + X[m] /\ fq[m] = fq[m - 1] + Q[m]
             /\ fd[m] = fd[m - 1] + D[m]
        /\ fc[m - 1] \in Int /\ fx[m - 1] \in Int /\ fq[m - 1] \in Int /\ fd[m - 1] \in Int
    BY <1>5, <1>6, <1>7, <1>10, <2>4
  <2>8. fd[m] >= 0 /\ fc[m] >= 0 /\ (fc[m] = 0 => fx[m] = 0)
    BY <2>5, <2>6, <2>7
  <2>9. fd[m] = (n * n) * fq[m] - (2 * (n * s)) * fx[m] + (s * s) * fc[m]
    <3> DEFINE a == n * n
               b == 2 * (n * s)
               d == s * s
    <3>1. a \in Int /\ b \in Int /\ d \in Int /\ C[m] \in Int
      BY <1>8, <2>6
    <3>2. /\ fd[m - 1] = a * fq[m - 1] - b * fx[m - 1] + d * fc[m - 1]
          /\ D[m] = a * Q[m] - b * X[m] + d * C[m]
      BY <1>9, <2>4, <2>5
    <3> HIDE DEF a, b, d
    <3>3. (a * fq[m - 1] - b * fx[m - 1] + d * fc[m - 1]) + (a * Q[m] - b * X[m] + d * C[m]) =
             a * (fq[m - 1] + Q[m]) - b * (fx[m - 1] + X[m]) + d * (fc[m - 1] + C[m])
      BY <2>6, <2>7, <3>1, AddsUp
    <3>4. fd[m] = a * fq[m] - b * fx[m] + d * fc[m]
      BY <2>7, <3>2, <3>3
    <3> QED BY <3>4 DEF a, b, d
  <2> QED BY <2>2, <2>8, <2>9
<1>12. Good(L)
  <2> HIDE DEF Good
  <2> QED BY <1>8, <1>11
<1> DEFINE q == Stats!Total(Q)
           g == n * q - s * s
<1>13. q \in Int /\ g \in Int
  BY <1>7, <1>8
<1>14. Stats!Total(D) >= 0 /\ n >= 0 /\ (n = 0 => s = 0)
         /\ Stats!Total(D) = (n * n) * q - (2 * (n * s)) * s + (s * s) * n
  BY <1>5, <1>6, <1>7, <1>10, <1>12
<1>15. n * g = (n * n) * q - (2 * (n * s)) * s + (s * s) * n
  <2> HIDE DEF q
  <2> QED BY <1>8, <1>13
<1>16. g >= 0
  <2>1. CASE n = 0
    <3> HIDE DEF q
    <3> QED BY <1>13, <1>14, <2>1
  <2>2. CASE n > 0
    <3>1. n * g >= 0
      BY <1>14, <1>15
    <3> HIDE DEF g
    <3> QED BY <1>8, <1>13, <2>2, <3>1
  <2> QED BY <1>8, <1>14, <2>1, <2>2
<1>17. Stats!Statistics(c) = [n |-> n, sum |-> s, dispersion |-> g]
  BY DEF Stats!Statistics, Stats!Dispersion, n, s, C, X, Q
<1> HIDE DEF g, q
<1> DEFINE a == Stats!Statistics(c)
           Distance(v) == a.n * Stats!Number(v) - a.sum
<1>18. a.n = n /\ a.sum = s /\ a.dispersion = g
  BY <1>17
<1> HIDE DEF a
<1>19. [k \in DOMAIN c |-> Stats!Counted(c[k]) * Distance(c[k]) * Distance(c[k])] = D
  BY <1>18 DEF D
<1>20. /\ a.n \in Nat /\ a.dispersion \in Nat
       /\ a.n * a.dispersion = Stats!Total([k \in DOMAIN c
            |-> Stats!Counted(c[k]) * Distance(c[k]) * Distance(c[k])])
  BY <1>8, <1>13, <1>14, <1>15, <1>16, <1>18, <1>19
<1> QED BY <1>20 DEF a

-----------------------------------------------------------------------------
(* The inductive invariant *)

StatsType ==
  /\ column \in Stats!Columns /\ shown \in Stats!Columns /\ changes \in Nat /\ trouble \in Nat
  /\ \/ dbms = "sqlite" /\ type \in {"any", "missing"}
     \/ dbms = "postgres" /\ type \in {"numeric", "text", "missing"}
  /\ pc \in {"connect", "check", "query", "failed", "shown", "silent"}

\* The answer is the statistics of the column it was computed from.
Answered == answer \in Stats!Rounded(Stats!Statistics(shown))

\* What the check has found is still so unless another client came in between,
\* or the check itself went wrong.
CheckedInv ==
  /\ type = "numeric" => Stats!TEXT \notin Range(column)
  /\ pc = "query" /\ changes = 0 /\ trouble = 0 => Stats!Numeric
  /\ pc = "shown" => Answered
  /\ Stats!SilentForCause /\ Stats!TextBehindFirst

StatsInv == StatsType /\ CheckedInv

LEMMA TypedIs ==
  ASSUME Stats!StatsAssumption, NEW t, NEW c \in Stats!Typed(t)
  PROVE  c \in Stats!Columns /\ (t = "numeric" => Stats!TEXT \notin Range(c))
<1>1. Stats!TEXT \notin Numbers /\ Stats!TEXT # Stats!NULL
  BY DEF Stats!StatsAssumption, Stats!TEXT, Stats!NULL
<1> QED BY <1>1 DEF Stats!Typed, Stats!Range, Range

LEMMA SameStatistics == ASSUME UNCHANGED <<shown, answer>> PROVE Answered' <=> Answered
BY DEF Answered, Stats!Rounded, Stats!Statistics, Stats!Total, Stats!Counted, Stats!Number, Stats!Dispersion

LEMMA InitStats == ASSUME Stats!StatsAssumption, Stats!Init PROVE StatsInv
<1>1. <<>> \in Stats!Columns
  <2>1. 0 \in 0..MaxRows /\ <<>> \in [1..0 -> Numbers \cup {Stats!NULL, Stats!TEXT}]
    BY DEF Stats!StatsAssumption
  <2> QED BY <2>1 DEF Stats!Columns
<1>2. column \in Stats!Columns /\ (type = "numeric" => Stats!TEXT \notin Range(column))
  BY TypedIs DEF Stats!Init
<1> QED BY <1>1, <1>2 DEF Stats!Init, StatsInv, StatsType, CheckedInv, Stats!SilentForCause,
      Stats!TextBehindFirst, Stats!Range, Range

LEMMA QueryKeeps == ASSUME Stats!StatsAssumption, StatsInv, Stats!Query PROVE StatsInv'
<1>1. pc = "query" /\ UNCHANGED <<dbms, type, column, changes>>
  BY DEF Stats!Query
<1>2. StatsType /\ CheckedInv
  BY DEF StatsInv
<1>3. CASE /\ pc' = "silent" /\ UNCHANGED <<shown, answer>> /\ trouble' \in Nat
           /\ changes = 0 => trouble' > 0
  <2>1. StatsType'
    BY <1>1, <1>2, <1>3 DEF StatsType
  <2>2. (type = "numeric" => Stats!TEXT \notin Range(column))'
    BY <1>1, <1>2 DEF CheckedInv
  <2>3. changes' > 0 \/ trouble' > 0
    BY <1>1, <1>2, <1>3 DEF StatsType
  <2>4. Stats!SilentForCause' /\ Stats!TextBehindFirst'
    BY <1>3, <2>3 DEF Stats!SilentForCause, Stats!TextBehindFirst
  <2> QED BY <1>3, <2>1, <2>2, <2>4 DEF StatsInv, CheckedInv
<1>4. CASE type \notin {"missing", "text"} /\ pc' = "shown" /\ UNCHANGED trouble
             /\ answer' \in Stats!Rounded(Stats!Statistics(column)) /\ shown' = column
  <2>1. Answered'
    <3>1. Stats!Statistics(column) = Stats!Statistics(shown)'
      BY <1>4 DEF Stats!Statistics, Stats!Total, Stats!Counted, Stats!Number, Stats!Dispersion
    <3> QED BY <1>4, <3>1 DEF Answered, Stats!Rounded
  <2>2. Stats!TextBehindFirst'
    <3>1. CASE type = "numeric"
      BY <1>1, <1>2, <1>4, <3>1 DEF CheckedInv, Stats!TextBehindFirst, Stats!Range, Range
    <3>2. CASE type = "any"
      <4>1. dbms = "sqlite" /\ changes \in Nat /\ trouble \in Nat
        BY <1>2, <3>2 DEF StatsType
      <4>2. CASE changes > 0 \/ trouble > 0
        <5>1. dbms' = "sqlite" /\ (changes' > 0 \/ trouble' > 0)
          BY <1>1, <1>4, <4>1, <4>2
        <5> QED BY <5>1 DEF Stats!TextBehindFirst
      <4>3. CASE changes = 0 /\ trouble = 0 /\ DOMAIN column # {}
        <5>1. 1 \in DOMAIN column
          <6>1. DOMAIN column = 1..Len(column) /\ Len(column) \in Nat
            BY <1>2, ColumnIs DEF StatsType
          <6> QED BY <4>3, <6>1
        <5>2. column[1] # Stats!TEXT
          BY <1>1, <1>2, <3>2, <4>3, <5>1 DEF CheckedInv, Stats!Numeric
        <5> QED BY <1>1, <1>4, <4>1, <5>2 DEF Stats!TextBehindFirst, Stats!Range, Range
      <4>4. CASE DOMAIN column = {}
        BY <1>4, <4>4 DEF Stats!TextBehindFirst, Range, Stats!Range
      <4>5. changes > 0 \/ trouble > 0 \/ (changes = 0 /\ trouble = 0)
        BY <4>1
      <4> QED BY <4>2, <4>3, <4>4, <4>5
    <3> QED BY <1>2, <1>4, <3>1, <3>2 DEF StatsType
  <2>3. StatsType'
    BY <1>1, <1>2, <1>4 DEF StatsType
  <2>4. CheckedInv'
    <3>1. pc' = "shown"
      BY <1>4
    <3>2. (type = "numeric" => Stats!TEXT \notin Range(column))'
      BY <1>1, <1>2 DEF CheckedInv
    <3>3. Stats!SilentForCause'
      BY <3>1 DEF Stats!SilentForCause
    <3> QED BY <2>1, <2>2, <3>1, <3>2, <3>3 DEF CheckedInv
  <2> QED BY <2>3, <2>4 DEF StatsInv
<1>5. CASE type \in {"missing", "text"} /\ pc' = "silent" /\ UNCHANGED <<trouble, shown, answer>>
  <2>1. changes = 0 => trouble > 0
    <3>1. changes = 0 => trouble # 0
      BY <1>1, <1>2, <1>5 DEF CheckedInv, Stats!Numeric
    <3>2. trouble \in Nat
      BY <1>2 DEF StatsType
    <3> QED BY <3>1, <3>2
  <2>2. trouble' \in Nat /\ (changes = 0 => trouble' > 0)
    <3>1. trouble \in Nat /\ trouble' = trouble
      BY <1>2, <1>5 DEF StatsType
    <3> QED BY <2>1, <3>1
  <2> QED BY <1>3, <1>5, <2>2
<1>6. CASE pc' = "silent" /\ trouble' = trouble + 1 /\ UNCHANGED <<shown, answer>>
  <2>1. trouble \in Nat
    BY <1>2 DEF StatsType
  <2>2. trouble' \in Nat /\ (changes = 0 => trouble' > 0)
    BY <1>6, <2>1
  <2> QED BY <1>3, <1>6, <2>2
<1> QED BY <1>4, <1>5, <1>6 DEF Stats!Query

LEMMA ChangeKeeps == ASSUME Stats!StatsAssumption, StatsInv, Stats!Change PROVE StatsInv'
<1>1. changes' = changes + 1 /\ changes \in Nat /\ changes' \in Nat /\ changes' > 0
        /\ UNCHANGED <<dbms, trouble, shown, pc, answer>>
  <2>1. changes' = changes + 1 /\ UNCHANGED <<dbms, trouble, shown, pc, answer>>
    BY DEF Stats!Change
  <2>2. changes \in Nat
    BY DEF StatsInv, StatsType
  <2> QED BY <2>1, <2>2
<1>2. column' \in Stats!Columns /\ (type' = "numeric" => Stats!TEXT \notin Range(column'))
  <2>1. CASE /\ type # "missing" /\ UNCHANGED type
             /\ column' \in (IF dbms = "sqlite" THEN Stats!Columns ELSE Stats!Typed(type))
    BY <2>1, TypedIs DEF StatsInv, StatsType
  <2>2. CASE type' = "missing" /\ UNCHANGED column
    BY <2>2 DEF StatsInv, StatsType
  <2>3. CASE type' = "text" /\ column' = [k \in DOMAIN column |-> Stats!TEXT]
    <3>1. PICK n \in 0..MaxRows : column \in [1..n -> Numbers \cup {Stats!NULL, Stats!TEXT}]
      BY DEF StatsInv, StatsType, Stats!Columns
    <3>2. column' \in [1..n -> Numbers \cup {Stats!NULL, Stats!TEXT}]
      BY <2>3, <3>1
    <3> QED BY <2>3, <3>2 DEF Stats!Columns
  <2> QED BY <2>1, <2>2, <2>3 DEF Stats!Change
<1>3. \/ dbms = "sqlite" /\ type' \in {"any", "missing"}
      \/ dbms = "postgres" /\ type' \in {"numeric", "text", "missing"}
  BY DEF Stats!Change, StatsInv, StatsType
<1>4. StatsType'
  <2>1. /\ shown \in Stats!Columns /\ trouble \in Nat
        /\ pc \in {"connect", "check", "query", "failed", "shown", "silent"}
    BY DEF StatsInv, StatsType
  <2> QED BY <1>1, <1>2, <1>3, <2>1 DEF StatsType
<1>5. Answered' <=> Answered
  BY <1>1, SameStatistics
<1>6. CheckedInv'
  <2>1. (pc = "shown" => Answered)'
    BY <1>1, <1>5 DEF StatsInv, CheckedInv
  <2>2. Stats!SilentForCause' /\ Stats!TextBehindFirst'
    BY <1>1 DEF StatsInv, CheckedInv, Stats!SilentForCause, Stats!TextBehindFirst, Stats!Range, Range
  <2> QED BY <1>1, <1>2, <2>1, <2>2 DEF CheckedInv
<1> QED BY <1>4, <1>6 DEF StatsInv

LEMMA NextStats == ASSUME Stats!StatsAssumption, StatsInv, [Stats!Next]_Stats!vars PROVE StatsInv'
<1> USE DEF StatsInv, StatsType, CheckedInv, Stats!SilentForCause, Stats!TextBehindFirst
<1>1. CASE Stats!ConnectFails
  BY <1>1, SameStatistics DEF Stats!ConnectFails, Stats!Fail
<1>2. CASE Stats!Connect
  BY <1>2, SameStatistics DEF Stats!Connect
<1>3. CASE Stats!Check
  BY <1>3, SameStatistics DEF Stats!Check, Stats!Fail, Stats!Numeric
<1>4. CASE Stats!CheckStumbles
  BY <1>4, SameStatistics DEF Stats!CheckStumbles
<1>5. CASE UNCHANGED Stats!vars
  BY <1>5, SameStatistics DEF Stats!vars, Stats!Numeric
<1> QED BY <1>1, <1>2, <1>3, <1>4, <1>5, QueryKeeps, ChangeKeeps DEF Stats!Next

\* The dispersion shown is the mean square of the distance to the mean but for
\* the rounding, for a column of any length; nothing is shown after a check that
\* passed only if another client came in between or a statement failed by itself,
\* and a text counts as a number only in SQLite, behind the first row or after one
\* of these (src/15-db/main.c).
THEOREM ColumnShownCorrect ==
  ASSUME Stats!StatsAssumption PROVE Stats!Spec => [](Stats!DispersionIsVariance
    /\ Stats!SilentForCause /\ Stats!TextBehindFirst)
<1>1. Stats!Init => StatsInv
  BY InitStats
<1>2. StatsInv /\ [Stats!Next]_Stats!vars => StatsInv'
  BY NextStats
<1>3. StatsInv => Stats!DispersionIsVariance /\ Stats!SilentForCause /\ Stats!TextBehindFirst
  <2> SUFFICES ASSUME StatsInv PROVE Stats!DispersionIsVariance /\ Stats!SilentForCause
        /\ Stats!TextBehindFirst
    OBVIOUS
  <2>1. Stats!DispersionIsVariance
    <3> SUFFICES ASSUME pc = "shown" PROVE Stats!DispersionIsVariance
      BY DEF Stats!DispersionIsVariance
    <3> DEFINE a == Stats!Statistics(shown)
               Distance(v) == a.n * Stats!Number(v) - a.sum
               squares == Stats!Total([k \in DOMAIN shown
                            |-> Stats!Counted(shown[k]) * Distance(shown[k]) * Distance(shown[k])])
    <3>1. answer \in Stats!Rounded(a) /\ shown \in Stats!Columns
      BY DEF StatsInv, StatsType, CheckedInv, Answered
    <3>2. a.n \in Nat /\ a.dispersion \in Nat /\ a.n * a.dispersion = squares
      BY <3>1, Variance
    <3>3. DOMAIN a = {"n", "sum", "dispersion"}
      BY DEF Stats!Statistics
    <3> HIDE DEF a
    <3>4. PICK e \in -Rounding..Rounding : answer = [a EXCEPT !.dispersion = @ + e]
      BY <3>1 DEF Stats!Rounded
    <3>5. answer.n = a.n /\ answer.sum = a.sum /\ answer.dispersion = a.dispersion + e
      BY <3>3, <3>4
    <3>6. squares = Stats!Total([k \in DOMAIN shown |-> Stats!Counted(shown[k])
                      * (answer.n * Stats!Number(shown[k]) - answer.sum)
                      * (answer.n * Stats!Number(shown[k]) - answer.sum)])
      BY <3>5
    <3> HIDE DEF squares
    <3>7. /\ answer.dispersion >= -Rounding
          /\ answer.n * (answer.dispersion - Rounding) <= squares
          /\ answer.n * (answer.dispersion + Rounding) >= squares
      <4> DEFINE n == a.n
                 d == a.dispersion
                 less == d + e - Rounding
                 more == d + e + Rounding
      <4>1. n \in Nat /\ d \in Nat /\ n * d = squares /\ Rounding \in Nat /\ e \in Int
              /\ e <= Rounding /\ e >= -Rounding
        BY <3>2, <3>4 DEF Stats!StatsAssumption
      <4> HIDE DEF n, d
      <4>2. less \in Int /\ more \in Int /\ less <= d /\ d <= more
        BY <4>1
      <4>3. \A x \in Int, y \in Int : x <= y => n * x <= n * y
        BY <4>1
      <4> HIDE DEF less, more
      <4>4. n * less <= squares /\ n * more >= squares
        BY <4>1, <4>2, <4>3
      <4> QED BY <3>5, <4>1, <4>4 DEF less, more, n, d
    <3> QED BY <3>6, <3>7 DEF Stats!DispersionIsVariance
  <2> QED BY <2>1 DEF StatsInv, CheckedInv
<1> QED BY <1>1, <1>2, <1>3, PTL DEF Stats!Spec

-----------------------------------------------------------------------------
(* DirTree: any tree of directories.                                       *)

(* The inductive invariant *)

Rowed == {rows[q].entry : q \in DOMAIN rows}

CallSet == [dir : 0..Entries, left : SUBSET (1..Entries), parent : Nat]
RowSet == [entry : 0..Entries, parent : Nat]

TreeType ==
  /\ kind \in [1..Entries -> Tree!Kinds] /\ dir \in [1..Entries -> 0..Entries]
  /\ \A e \in 1..Entries : dir[e] # 0 => kind[dir[e]] = "directory"
  /\ calls \in Seq(CallSet) /\ rows \in Seq(RowSet)
  /\ skipped \subseteq 1..Entries /\ error \in BOOLEAN
  /\ exit_status \in {"none", "failure", "success"}

\* The rows: the root's first, then one for each entry shown.
RowInv ==
  /\ Len(rows) >= 1 /\ rows[1].entry = 0
  /\ \A q \in 2..Len(rows) : rows[q].entry # 0
  /\ Tree!RowsUnderDirectories

\* Each call on the stack has a directory of its own and that directory's row,
\* and what it has not seen yet has no row.
CallInv ==
  /\ \A c \in DOMAIN calls :
        /\ \A e \in calls[c].left : dir[e] = calls[c].dir /\ e \notin Rowed
        /\ IF calls[c].dir = 0 THEN calls[c].parent = Tree!NoRow
           ELSE calls[c].parent \in DOMAIN rows /\ rows[calls[c].parent].entry = calls[c].dir
  /\ \A c, d \in DOMAIN calls : c # d => calls[c].dir # calls[d].dir

\* What a tree without an error may still lack.
CompleteInv ==
  /\ ~error => \A e \in 1..Entries :
        \/ e \in Rowed \/ kind[e] = "other" \/ e \in skipped
        \/ dir[e] # 0 /\ dir[e] \notin Rowed
        \/ \E c \in DOMAIN calls : e \in calls[c].left
  /\ exit_status # "none" => calls = <<>>
  /\ exit_status = "success" => ~error

TreeInv == TreeType /\ RowInv /\ CallInv /\ CompleteInv

LEMMA InitTree == ASSUME Tree!EntriesAssumption, Tree!Init PROVE TreeInv
<1>1. calls = <<Tree!Call(0, Tree!NoRow)>> /\ rows = <<[entry |-> 0, parent |-> Tree!NoRow]>> /\ ~error
  BY DEF Tree!Init
<1>2. Tree!Call(0, Tree!NoRow) \in CallSet
  BY DEF Tree!Call, CallSet, Tree!NoRow, Tree!EntriesAssumption
<1>3. Len(rows) = 1 /\ rows[1].entry = 0 /\ DOMAIN rows = {1}
  BY <1>1
<1>4. Len(calls) = 1 /\ calls[1] = Tree!Call(0, Tree!NoRow) /\ DOMAIN calls = {1}
  BY <1>1
<1>5. TreeType
  <2>1. [entry |-> 0, parent |-> Tree!NoRow] \in RowSet
    BY DEF RowSet, Tree!NoRow, Tree!EntriesAssumption
  <2>2. rows \in Seq(RowSet)
    BY <1>1, <2>1
  <2>3. calls \in Seq(CallSet)
    BY <1>1, <1>2
  <2>4. \A e \in 1..Entries : dir[e] # 0 => kind[dir[e]] = "directory"
    <3>1. dir \in [1..Entries -> 0..Entries] /\ \A e \in 1..Entries : dir[e] > 0 => kind[dir[e]] = "directory"
      BY DEF Tree!Init
    <3> QED BY <3>1 DEF Tree!EntriesAssumption
  <2> QED BY <2>2, <2>3, <2>4 DEF Tree!Init, TreeType
<1>6. RowInv
  BY <1>3 DEF RowInv, Tree!RowsUnderDirectories
<1>7. CallInv
  BY <1>3, <1>4 DEF CallInv, Tree!Call, Rowed
<1>8. CompleteInv
  <2>1. \A e \in 1..Entries : dir[e] = 0 => e \in calls[1].left
    BY <1>4 DEF Tree!Call
  <2>2. 0 \in Rowed
    BY <1>3 DEF Rowed
  <2>3. \A e \in 1..Entries : dir[e] # 0 => dir[e] \in Rowed \/ dir[e] \notin Rowed
    OBVIOUS
  <2> QED BY <1>3, <1>4, <2>1 DEF Tree!Init, CompleteInv, Rowed
<1> QED BY <1>5, <1>6, <1>7, <1>8 DEF TreeInv

\* The stack without its top, and with one more call.
LEMMA Popped ==
  ASSUME NEW S, NEW st \in Seq(S), st # <<>>
  PROVE  /\ Last(st) = st[Len(st)] /\ Len(st) \in Nat /\ Len(st) >= 1 /\ DOMAIN st = 1..Len(st)
         /\ Front(st) \in Seq(S) /\ Len(Front(st)) = Len(st) - 1 /\ DOMAIN Front(st) = 1..(Len(st) - 1)
         /\ \A c \in 1..(Len(st) - 1) : Front(st)[c] = st[c]
  BY DEF Front, Last

LEMMA Pushed ==
  ASSUME NEW S, NEW t \in Seq(S), NEW z \in S
  PROVE  /\ t \o <<z>> \in Seq(S) /\ Len(t \o <<z>>) = Len(t) + 1 /\ DOMAIN (t \o <<z>>) = 1..(Len(t) + 1)
         /\ t \o <<>> = t
         /\ (t \o <<z>>)[Len(t) + 1] = z /\ \A c \in 1..Len(t) : (t \o <<z>>)[c] = t[c]
  OBVIOUS

LEMMA VisitKeeps == ASSUME Tree!EntriesAssumption, TreeInv, Tree!Visit PROVE TreeInv'
<1> DEFINE n == Len(calls)
<1>1. calls # <<>> /\ UNCHANGED <<kind, dir, error, exit_status>>
  BY DEF Tree!Visit, Tree!Under, Front
<1>2. PICK e \in Tree!Top.left :
          LET rest == [Tree!Top EXCEPT !.left = @ \ {e}] IN
          \/ /\ kind[e] # "other"
             /\ rows' = Tree!AddRow(e)
             /\ calls' = Front(calls) \o <<rest>> \o IF kind[e] = "directory" THEN <<Tree!Below(e)>> ELSE <<>>
             /\ UNCHANGED skipped
          \/ /\ calls' = Front(calls) \o <<rest>>
             /\ skipped' = IF kind[e] = "other" THEN skipped ELSE skipped \cup {e}
             /\ UNCHANGED rows
  BY DEF Tree!Visit, Tree!Under, Front
<1> DEFINE rest == [Tree!Top EXCEPT !.left = @ \ {e}]
<1>3. calls \in Seq(CallSet) /\ rows \in Seq(RowSet) /\ Len(rows) \in Nat /\ Len(rows) >= 1
        /\ DOMAIN rows = 1..Len(rows)
  BY DEF TreeInv, TreeType, RowInv
<1>4. Tree!Top = calls[n] /\ n \in Nat /\ n >= 1 /\ DOMAIN calls = 1..n /\ Tree!Top \in CallSet
      /\ \A c \in 1..n : calls[c] \in CallSet /\ calls[c].left \subseteq 1..Entries
  <2>1. n \in Nat /\ n >= 1 /\ DOMAIN calls = 1..n /\ \A c \in 1..n : calls[c] \in CallSet
    BY <1>1, <1>3
  <2>2. \A c \in 1..n : calls[c].left \subseteq 1..Entries
    BY <2>1 DEF CallSet
  <2> QED BY <2>1, <2>2 DEF Tree!Top, Last
<1>5. e \in 1..Entries /\ dir[e] = Tree!Top.dir /\ e \notin Rowed
  BY <1>4 DEF TreeInv, CallInv, CallSet
<1>6. rest \in CallSet /\ rest.dir = Tree!Top.dir /\ rest.parent = Tree!Top.parent
        /\ rest.left = Tree!Top.left \ {e}
  BY <1>4 DEF CallSet
<1> HIDE DEF rest, n
<1>7. ASSUME rows' = Tree!AddRow(e), kind[e] # "other" PROVE
        /\ rows' \in Seq(RowSet) /\ Len(rows') = Len(rows) + 1 /\ DOMAIN rows' = 1..(Len(rows) + 1)
        /\ \A q \in 1..Len(rows) : rows'[q] = rows[q]
        /\ rows'[Len(rows) + 1] = [entry |-> e, parent |-> Tree!Top.parent]
        /\ RowInv'
        /\ \A f \in 0..Entries : f \in Rowed' <=> f \in Rowed \/ f = e
  <2>1. [entry |-> e, parent |-> Tree!Top.parent] \in RowSet
    BY <1>4, <1>5 DEF CallSet, RowSet
  <2>2. /\ rows' \in Seq(RowSet) /\ Len(rows') = Len(rows) + 1 /\ DOMAIN rows' = 1..(Len(rows) + 1)
        /\ \A q \in 1..Len(rows) : rows'[q] = rows[q]
        /\ rows'[Len(rows) + 1] = [entry |-> e, parent |-> Tree!Top.parent]
    BY <1>3, <1>7, <2>1 DEF Tree!AddRow
  <2>3. \A f \in 0..Entries : f \in Rowed' <=> f \in Rowed \/ f = e
    BY <1>3, <2>2 DEF Rowed
  <2>4. Len(rows) >= 1 /\ rows[1].entry = 0 /\ (\A q \in 2..Len(rows) : rows[q].entry # 0)
          /\ Tree!RowsUnderDirectories
    BY DEF TreeInv, RowInv
  <2>5. Len(rows') >= 1 /\ rows'[1].entry = 0 /\ \A q \in 2..Len(rows') : rows'[q].entry # 0
    <3>1. ASSUME NEW q \in 2..Len(rows') PROVE rows'[q].entry # 0
      <4>1. CASE q = Len(rows) + 1
        BY <1>5, <2>2, <4>1
      <4>2. CASE q # Len(rows) + 1
        BY <1>3, <2>2, <2>4, <4>2
      <4> QED BY <4>1, <4>2
    <3> QED BY <1>3, <2>2, <2>4, <3>1
  <2>6. Tree!RowsUnderDirectories'
    <3> SUFFICES ASSUME NEW q \in 2..Len(rows')
                 PROVE  /\ IF dir[rows'[q].entry] = 0 THEN rows'[q].parent = Tree!NoRow
                           ELSE rows'[q].parent \in 1..(q - 1)
                             /\ rows'[rows'[q].parent].entry = dir[rows'[q].entry]
                        /\ \A p \in 1..(q - 1) : rows'[p].entry # rows'[q].entry
      BY <1>1 DEF Tree!RowsUnderDirectories
    <3>1. CASE q \in 2..Len(rows)
      BY <1>3, <2>2, <2>4, <3>1 DEF Tree!RowsUnderDirectories
    <3>2. CASE q = Len(rows) + 1
      <4>1. rows'[q].entry = e /\ rows'[q].parent = Tree!Top.parent
        BY <2>2, <3>2
      <4>2. IF dir[e] = 0 THEN Tree!Top.parent = Tree!NoRow ELSE Tree!Top.parent \in 1..Len(rows)
              /\ rows[Tree!Top.parent].entry = dir[e]
        BY <1>3, <1>4, <1>5 DEF TreeInv, CallInv
      <4>3. \A p \in 1..Len(rows) : rows[p].entry # e
        BY <1>3, <1>5 DEF Rowed
      <4> QED BY <1>3, <2>2, <3>2, <4>1, <4>2, <4>3
    <3> QED BY <1>3, <2>2, <3>1, <3>2
  <2> QED BY <2>2, <2>3, <2>5, <2>6 DEF RowInv
<1>8. CASE kind[e] = "directory" /\ rows' = Tree!AddRow(e)
        /\ calls' = Front(calls) \o <<rest>> \o <<Tree!Below(e)>> /\ UNCHANGED skipped
  <2> DEFINE y == Tree!Below(e)
  <2>1. kind[e] # "other"
    BY <1>8
  <2>0. /\ DOMAIN rows' = 1..(Len(rows) + 1) /\ \A q \in 1..Len(rows) : rows'[q] = rows[q]
        /\ rows'[Len(rows) + 1].entry = e
        /\ \A f \in 0..Entries : f \in Rowed' <=> f \in Rowed \/ f = e
    BY <1>7, <1>8, <2>1
  <2>2. y.dir = e /\ y.left = {f \in 1..Entries : dir[f] = e} /\ y.parent = Len(rows) + 1 /\ y \in CallSet
    BY <1>1, <1>3, <1>5, <1>7, <1>8, <2>1 DEF Tree!Below, Tree!Call, CallSet
  <2> HIDE DEF y
  <2>3. /\ calls' \in Seq(CallSet) /\ Len(calls') = n + 1 /\ DOMAIN calls' = 1..(n + 1)
        /\ calls'[n + 1] = y /\ calls'[n] = rest /\ \A c \in 1..(n - 1) : calls'[c] = calls[c]
    <3>1. calls' = Front(calls) \o <<rest>> \o <<y>>
      BY <1>8 DEF y
    <3> DEFINE u == Front(calls)
               v == u \o <<rest>>
    <3>2. u \in Seq(CallSet) /\ Len(u) = n - 1 /\ \A c \in 1..(n - 1) : u[c] = calls[c]
      BY <1>1, <1>3, Popped DEF n
    <3> HIDE DEF u
    <3>3. v \in Seq(CallSet) /\ Len(v) = n /\ v[n] = rest /\ \A c \in 1..(n - 1) : v[c] = u[c]
      <4>1. v \in Seq(CallSet) /\ Len(v) = Len(u) + 1 /\ v[Len(u) + 1] = rest
              /\ \A c \in 1..Len(u) : v[c] = u[c]
        BY <1>6, <3>2, Pushed
      <4> QED BY <1>4, <3>2, <4>1
    <3>4. calls' = v \o <<y>>
      BY <3>1 DEF u
    <3> HIDE DEF v
    <3>5. /\ calls' \in Seq(CallSet) /\ Len(calls') = Len(v) + 1 /\ DOMAIN calls' = 1..(Len(v) + 1)
          /\ calls'[Len(v) + 1] = y /\ \A c \in 1..Len(v) : calls'[c] = v[c]
      BY <2>2, <3>3, <3>4, Pushed
    <3> QED BY <1>4, <3>2, <3>3, <3>5
  <2>4. \A c \in DOMAIN calls : calls[c].dir # e
    BY <1>5 DEF TreeInv, CallInv, Rowed
  <2>5. \A f \in y.left : f \notin Rowed' /\ f # e
    <3> SUFFICES ASSUME NEW f \in y.left, f \in Rowed' \/ f = e PROVE FALSE
      OBVIOUS
    <3>1. f \in 1..Entries /\ dir[f] = e
      BY <2>2
    <3>2. dir[e] # e
      BY <1>4, <1>5, <2>4
    <3>3. f \in Rowed
      BY <1>7, <1>8, <2>1, <3>1, <3>2
    <3>4. PICK q \in 1..Len(rows) : rows[q].entry = f
      BY <1>3, <3>3 DEF Rowed
    <3>5. q \in 2..Len(rows)
      BY <1>3, <3>1, <3>4 DEF TreeInv, RowInv
    <3>6. rows[q].parent \in 1..(q - 1) /\ rows[rows[q].parent].entry = e
      BY <1>5, <3>1, <3>4, <3>5 DEF TreeInv, RowInv, Tree!RowsUnderDirectories
    <3> QED BY <1>3, <1>5, <3>4, <3>6 DEF Rowed
  <2>6. TreeType'
    BY <1>1, <1>7, <1>8, <2>1, <2>3 DEF TreeInv, TreeType
  <2>7. CallInv'
    <3>1. ASSUME NEW c \in 1..(n + 1)
          PROVE  /\ \A f \in calls'[c].left : dir[f] = calls'[c].dir /\ f \notin Rowed'
                 /\ IF calls'[c].dir = 0 THEN calls'[c].parent = Tree!NoRow
                    ELSE calls'[c].parent \in DOMAIN rows' /\ rows'[calls'[c].parent].entry = calls'[c].dir
      <4>1. CASE c = n + 1
        <5>1. calls'[c] = y
          BY <2>3, <4>1
        <5>2. e # 0
          BY <1>5
        <5>3. Len(rows) + 1 \in DOMAIN rows'
          BY <1>3, <2>0
        <5>4. \A f \in y.left : dir[f] = y.dir
          BY <2>2
        <5> QED BY <2>0, <2>2, <2>5, <5>1, <5>2, <5>3, <5>4
      <4>2. CASE c \in 1..n
        <5>1. /\ calls'[c].dir = calls[c].dir /\ calls'[c].parent = calls[c].parent
              /\ calls'[c].left \subseteq calls[c].left /\ (c = n => e \notin calls'[c].left)
          <6>1. CASE c = n
            BY <1>4, <1>6, <2>3, <6>1
          <6>2. CASE c # n
            BY <1>4, <2>3, <4>2, <6>2
          <6> QED BY <6>1, <6>2
        <5>2. /\ \A f \in calls[c].left : dir[f] = calls[c].dir /\ f \notin Rowed
              /\ IF calls[c].dir = 0 THEN calls[c].parent = Tree!NoRow
                 ELSE calls[c].parent \in DOMAIN rows /\ rows[calls[c].parent].entry = calls[c].dir
          BY <1>4, <4>2 DEF TreeInv, CallInv
        <5>3. \A f \in calls'[c].left : f # e
          <6>1. c # n => calls[c].dir # dir[e]
            BY <1>4, <1>5, <4>2 DEF TreeInv, CallInv
          <6> QED BY <5>1, <5>2, <6>1
        <5>4. calls[c].left \subseteq 1..Entries
          BY <1>4, <4>2
        <5>5. \A f \in calls'[c].left : f \notin Rowed'
          BY <2>0, <5>1, <5>2, <5>3, <5>4
        <5> QED BY <1>3, <2>0, <5>1, <5>2, <5>5
      <4> QED BY <1>4, <4>1, <4>2
    <3>2. ASSUME NEW c \in 1..(n + 1), NEW d \in 1..(n + 1), c # d PROVE calls'[c].dir # calls'[d].dir
      BY <1>4, <1>6, <2>2, <2>3, <2>4, <3>2 DEF TreeInv, CallInv
    <3> QED BY <1>1, <2>3, <3>1, <3>2 DEF CallInv
  <2>8. CompleteInv'
    <3>1. ASSUME ~error, NEW f \in 1..Entries
          PROVE  \/ f \in Rowed' \/ kind[f] = "other" \/ f \in skipped
                 \/ dir[f] # 0 /\ dir[f] \notin Rowed'
                 \/ \E c \in DOMAIN calls' : f \in calls'[c].left
      <4>1. \/ f \in Rowed \/ kind[f] = "other" \/ f \in skipped
            \/ dir[f] # 0 /\ dir[f] \notin Rowed
            \/ \E c \in DOMAIN calls : f \in calls[c].left
        BY <3>1 DEF TreeInv, CompleteInv
      <4>2. CASE f \in Rowed \/ kind[f] = "other" \/ f \in skipped
        BY <1>7, <1>8, <2>1, <4>2
      <4>3. CASE dir[f] # 0 /\ dir[f] \notin Rowed
        <5>1. dir[f] \in 0..Entries
          BY DEF TreeInv, TreeType
        <5>2. CASE dir[f] = e
          <6>1. f \in calls'[n + 1].left /\ n + 1 \in DOMAIN calls'
            BY <1>4, <2>2, <2>3, <5>2
          <6> QED BY <6>1
        <5>3. CASE dir[f] # e
          BY <1>7, <1>8, <2>1, <4>3, <5>1, <5>3
        <5> QED BY <5>2, <5>3
      <4>4. CASE \E c \in DOMAIN calls : f \in calls[c].left
        <5>1. PICK c \in 1..n : f \in calls[c].left
          BY <1>4, <4>4
        <5>2. CASE f = e
          BY <1>7, <1>8, <2>1, <5>2
        <5>3. CASE f # e
          <6>1. f \in calls'[c].left /\ c \in DOMAIN calls'
            BY <1>4, <1>6, <2>3, <5>1, <5>3
          <6> QED BY <6>1
        <5> QED BY <5>2, <5>3
      <4> QED BY <4>1, <4>2, <4>3, <4>4
    <3> QED BY <1>1, <1>8, <3>1 DEF TreeInv, CompleteInv
  <2> QED BY <1>7, <1>8, <2>1, <2>6, <2>7, <2>8 DEF TreeInv
<1>9. CASE \/ /\ kind[e] # "directory" /\ kind[e] # "other" /\ rows' = Tree!AddRow(e)
              /\ calls' = Front(calls) \o <<rest>> /\ UNCHANGED skipped
           \/ /\ calls' = Front(calls) \o <<rest>> /\ rows' = rows
              /\ skipped' = IF kind[e] = "other" THEN skipped ELSE skipped \cup {e}
  <2>1. /\ calls' \in Seq(CallSet) /\ Len(calls') = n /\ DOMAIN calls' = 1..n
        /\ calls'[n] = rest /\ \A c \in 1..(n - 1) : calls'[c] = calls[c]
    <3> DEFINE u == Front(calls)
    <3>1. u \in Seq(CallSet) /\ Len(u) = n - 1 /\ \A c \in 1..(n - 1) : u[c] = calls[c]
      BY <1>1, <1>3, Popped DEF n
    <3>2. calls' = u \o <<rest>>
      BY <1>9
    <3> HIDE DEF u
    <3>3. /\ calls' \in Seq(CallSet) /\ Len(calls') = Len(u) + 1 /\ DOMAIN calls' = 1..(Len(u) + 1)
          /\ calls'[Len(u) + 1] = rest /\ \A c \in 1..Len(u) : calls'[c] = u[c]
      BY <1>6, <3>1, <3>2, Pushed
    <3> QED BY <1>4, <3>1, <3>3
  <2>2. skipped \subseteq skipped' /\ skipped' \subseteq 1..Entries
          /\ (rows' = rows => kind[e] = "other" \/ e \in skipped')
        /\ (rows' = rows \/ (kind[e] # "other" /\ kind[e] # "directory" /\ rows' = Tree!AddRow(e)))
    <3>2. skipped \subseteq 1..Entries
      BY DEF TreeInv, TreeType
    <3>3. rows' = Tree!AddRow(e) /\ kind[e] # "other" => rows' # rows
      BY <1>7
    <3> QED BY <1>5, <1>9, <3>2, <3>3
  <2>3. rows' \in Seq(RowSet) /\ DOMAIN rows \subseteq DOMAIN rows'
          /\ (\A q \in DOMAIN rows : rows'[q] = rows[q]) /\ RowInv'
    <3>1. CASE rows' = rows
      <4>1. RowInv'
        BY <1>1, <3>1 DEF TreeInv, RowInv, Tree!RowsUnderDirectories
      <4> QED BY <1>3, <3>1, <4>1
    <3>2. CASE rows' # rows
      BY <1>3, <1>7, <2>2, <3>2
    <3> QED BY <3>1, <3>2
  <2>4. \A f \in 0..Entries : /\ f \in Rowed => f \in Rowed'
                              /\ f \in Rowed' => f \in Rowed \/ (f = e /\ kind[e] # "directory")
    <3>1. CASE rows' = rows
      BY <3>1 DEF Rowed
    <3>2. CASE rows' # rows
      BY <1>7, <2>2, <3>2
    <3> QED BY <3>1, <3>2
  <2>5. TreeType'
    BY <1>1, <2>1, <2>2, <2>3 DEF TreeInv, TreeType
  <2>6. CallInv'
    <3>1. ASSUME NEW c \in 1..n
          PROVE  /\ \A f \in calls'[c].left : dir[f] = calls'[c].dir /\ f \notin Rowed'
                 /\ IF calls'[c].dir = 0 THEN calls'[c].parent = Tree!NoRow
                    ELSE calls'[c].parent \in DOMAIN rows' /\ rows'[calls'[c].parent].entry = calls'[c].dir
      <4>1. /\ calls'[c].dir = calls[c].dir /\ calls'[c].parent = calls[c].parent
            /\ calls'[c].left \subseteq calls[c].left /\ (c = n => e \notin calls'[c].left)
        BY <1>4, <1>6, <2>1
      <4>2. /\ \A f \in calls[c].left : dir[f] = calls[c].dir /\ f \notin Rowed
            /\ IF calls[c].dir = 0 THEN calls[c].parent = Tree!NoRow
               ELSE calls[c].parent \in DOMAIN rows /\ rows[calls[c].parent].entry = calls[c].dir
        BY <1>4 DEF TreeInv, CallInv
      <4>3. \A f \in calls'[c].left : f # e
        <5>1. c # n => calls[c].dir # dir[e]
          BY <1>4, <1>5 DEF TreeInv, CallInv
        <5> QED BY <4>1, <4>2, <5>1
      <4>4. calls[c].left \subseteq 1..Entries
        BY <1>4
      <4>5. \A f \in calls'[c].left : f \notin Rowed'
        BY <2>4, <4>1, <4>2, <4>3, <4>4
      <4> QED BY <2>3, <4>1, <4>2, <4>5
    <3>2. ASSUME NEW c \in 1..n, NEW d \in 1..n, c # d PROVE calls'[c].dir # calls'[d].dir
      BY <1>4, <1>6, <2>1, <3>2 DEF TreeInv, CallInv
    <3> QED BY <1>1, <2>1, <3>1, <3>2 DEF CallInv
  <2>7. CompleteInv'
    <3>1. ASSUME ~error, NEW f \in 1..Entries
          PROVE  \/ f \in Rowed' \/ kind[f] = "other" \/ f \in skipped'
                 \/ dir[f] # 0 /\ dir[f] \notin Rowed'
                 \/ \E c \in DOMAIN calls' : f \in calls'[c].left
      <4>1. \/ f \in Rowed \/ kind[f] = "other" \/ f \in skipped
            \/ dir[f] # 0 /\ dir[f] \notin Rowed
            \/ \E c \in DOMAIN calls : f \in calls[c].left
        BY <3>1 DEF TreeInv, CompleteInv
      <4>2. CASE f \in Rowed \/ kind[f] = "other" \/ f \in skipped
        BY <2>2, <2>4, <4>2
      <4>3. CASE dir[f] # 0 /\ dir[f] \notin Rowed
        <5>1. dir[f] \in 0..Entries
          BY DEF TreeInv, TreeType
        <5>2. dir[f] # 0 => kind[dir[f]] = "directory"
          BY DEF TreeInv, TreeType
        <5> QED BY <2>4, <4>3, <5>1, <5>2
      <4>4. CASE \E c \in DOMAIN calls : f \in calls[c].left
        <5>1. PICK c \in 1..n : f \in calls[c].left
          BY <1>4, <4>4
        <5>2. CASE f = e
          <6>1. rows' # rows => e \in Rowed'
            BY <1>5, <1>7, <2>2
          <6> QED BY <2>2, <5>2, <6>1
        <5>3. CASE f # e
          <6>1. f \in calls'[c].left /\ c \in DOMAIN calls'
            BY <1>4, <1>6, <2>1, <5>1, <5>3
          <6> QED BY <6>1
        <5> QED BY <5>2, <5>3
      <4> QED BY <4>1, <4>2, <4>3, <4>4
    <3>2. calls' # <<>>
      BY <1>4, <2>1
    <3> QED BY <1>1, <3>1 DEF TreeInv, CompleteInv
  <2> QED BY <2>3, <2>5, <2>6, <2>7 DEF TreeInv
<1> QED
  <2>1. CASE kind[e] = "directory"
    BY <1>2, <1>8, <1>9, <2>1 DEF rest
  <2>2. CASE kind[e] # "directory"
    <3>1. Front(calls) \o <<rest>> \o <<>> = Front(calls) \o <<rest>>
      <4> DEFINE u == Front(calls)
      <4>1. u \in Seq(CallSet)
        BY <1>1, <1>3, Popped
      <4> HIDE DEF u
      <4>2. u \o <<rest>> \in Seq(CallSet)
        BY <1>6, <4>1, Pushed
      <4>3. u \o <<rest>> \o <<>> = u \o <<rest>>
        BY <1>6, <4>2, Pushed
      <4> QED BY <4>3 DEF u
    <3> QED BY <1>2, <1>9, <2>2, <3>1 DEF rest
  <2> QED BY <2>1, <2>2

LEMMA LeaveKeeps == ASSUME Tree!EntriesAssumption, TreeInv, Tree!Leave PROVE TreeInv'
<1> DEFINE n == Len(calls)
<1>1. calls # <<>> /\ calls' = Front(calls) /\ UNCHANGED <<kind, dir, rows, skipped, exit_status>>
      /\ ((Tree!Top.left = {} /\ error' = error) \/ error' = TRUE)
  BY DEF Tree!Leave, Tree!Seen, Tree!Under, Front
<1>2. calls \in Seq(CallSet)
  BY DEF TreeInv, TreeType
<1>3. /\ n \in Nat /\ n >= 1 /\ DOMAIN calls = 1..n /\ Tree!Top = calls[n] /\ calls' \in Seq(CallSet)
      /\ DOMAIN calls' = 1..(n - 1) /\ \A c \in 1..(n - 1) : calls'[c] = calls[c]
  <2>1. /\ Last(calls) = calls[n] /\ n \in Nat /\ n >= 1 /\ DOMAIN calls = 1..n
        /\ Front(calls) \in Seq(CallSet) /\ DOMAIN Front(calls) = 1..(n - 1)
        /\ \A c \in 1..(n - 1) : Front(calls)[c] = calls[c]
    BY <1>1, <1>2, Popped
  <2> HIDE DEF n
  <2> QED BY <1>1, <2>1 DEF Tree!Top, Last
<1>4. \A f \in 0..Entries : f \in Rowed' <=> f \in Rowed
  BY <1>1 DEF Rowed
<1>5. TreeType'
  BY <1>1, <1>3 DEF TreeInv, TreeType
<1>6. RowInv'
  BY <1>1 DEF TreeInv, RowInv, Tree!RowsUnderDirectories
<1>7. CallInv'
  BY <1>1, <1>3 DEF TreeInv, CallInv, Rowed
<1>8. CompleteInv'
  <2>1. ASSUME ~error', NEW f \in 1..Entries, NEW c \in DOMAIN calls, f \in calls[c].left
        PROVE \E d \in DOMAIN calls' : f \in calls'[d].left
    <3>1. c # n
      BY <1>1, <1>3, <2>1
    <3> QED BY <1>3, <2>1, <3>1
  <2>2. ~error' => ~error
    BY <1>1
  <2> QED BY <1>1, <2>1, <2>2 DEF TreeInv, CompleteInv, Rowed
<1> QED BY <1>5, <1>6, <1>7, <1>8 DEF TreeInv

LEMMA NextTree == ASSUME Tree!EntriesAssumption, TreeInv, [Tree!Next]_Tree!vars PROVE TreeInv'
<1>1. CASE Tree!Show
  BY <1>1 DEF Tree!Show, TreeInv, TreeType, RowInv, Tree!RowsUnderDirectories, CallInv, CompleteInv, Rowed
<1>2. CASE UNCHANGED Tree!vars
  BY <1>2 DEF Tree!vars, TreeInv, TreeType, RowInv, Tree!RowsUnderDirectories, CallInv, CompleteInv, Rowed
<1> QED BY <1>1, <1>2, VisitKeeps, LeaveKeeps DEF Tree!Next

\* Every row that the window shows is under the row of the directory it is in,
\* and a walk that reports success has shown every entry it could, in any tree
\* (src/6-oop/main.c).
THEOREM TreeCorrect ==
  ASSUME Tree!EntriesAssumption PROVE Tree!Spec => [](Tree!RowsUnderDirectories /\ Tree!CompleteOnSuccess)
<1>1. Tree!Init => TreeInv
  BY InitTree
<1>2. TreeInv /\ [Tree!Next]_Tree!vars => TreeInv'
  BY NextTree
<1>3. TreeInv => Tree!RowsUnderDirectories /\ Tree!CompleteOnSuccess
  BY DEF TreeInv, RowInv, CompleteInv, Tree!CompleteOnSuccess, Rowed
<1> QED BY <1>1, <1>2, <1>3, PTL DEF Tree!Spec

-----------------------------------------------------------------------------
(* Weather: answers of any length and content, in any pieces.              *)

(* The inductive invariant *)

ForecastType ==
  /\ body \in Seq(Nat) /\ document \in Forecast!Documents /\ sent \in 0..Len(body)
  /\ pc \in {"init", "perform", "parse", "print", "ended", "crashed"}
  /\ status \in {0, 1} /\ i \in Nat /\ rows \in Seq(Nat)

\* The buffer is what has come, with room for one byte more.
ResponseInv ==
  /\ response # <<>> => Len(response) < capacity
  /\ pc \in {"init", "perform", "parse", "print"} =>
        response = SubSeq(body, 1, sent) /\ capacity = IF sent = 0 THEN 0 ELSE sent + 1
  /\ pc = "init" => sent = 0
  /\ pc \in {"parse", "print"} => sent = Len(body)
  /\ Forecast!CrashCause

\* The rows are the hours among the first i entries.
RowsInv ==
  /\ pc \in {"init", "perform", "parse"} => i = 0
  /\ i <= Len(document.hourly) /\ (pc = "print" => document.kind = "hours")
  /\ \A k, l \in 1..Len(rows) : k < l => rows[k] < rows[l]
  /\ \A k \in 1..Len(rows) : rows[k] \in 1..i /\ document.hourly[rows[k]] = "timed"
  /\ \A k \in 1..i : document.hourly[k] = "timed" => \E l \in 1..Len(rows) : rows[l] = k
  /\ pc \in {"init", "perform", "parse", "print"} => status = 0
  /\ pc = "ended" /\ status = 0 /\ document.kind = "hours" => i = Len(document.hourly)
  /\ rows # <<>> => document.kind = "hours"

ForecastInv == ForecastType /\ ResponseInv /\ RowsInv

LEMMA HourlyIs ==
  ASSUME document \in Forecast!Documents
  PROVE  document.hourly \in Seq(Forecast!Items) /\ Len(document.hourly) \in Nat
<1>1. CASE document \in {[kind |-> k, hourly |-> <<>>] : k \in {"no json", "no array", "no day", "no hours"}}
  <2>1. PICK k \in {"no json", "no array", "no day", "no hours"} : document = [kind |-> k, hourly |-> <<>>]
    BY <1>1
  <2>2. document.hourly = <<>>
    BY <2>1
  <2>3. <<>> \in Seq(Forecast!Items) /\ Len(<<>>) \in Nat
    BY EmptySeq
  <2> QED BY <2>2, <2>3
<1>2. CASE document \in [kind : {"hours"}, hourly : UNION {[1..n -> Forecast!Items] : n \in 0..MaxHours}]
  <2>1. PICK n \in 0..MaxHours : document.hourly \in [1..n -> Forecast!Items]
    BY <1>2
  <2>2. n \in Nat
    BY <2>1
  <2>3. document.hourly \in Seq(Forecast!Items)
    BY <2>1, <2>2
  <2> QED BY <2>3
<1> QED BY <1>1, <1>2 DEF Forecast!Documents

LEMMA InitForecast == ASSUME Forecast!WeatherAssumption, Forecast!Init PROVE ForecastInv
<1>1. PICK n \in 0..MaxBody : body = [k \in 1..n |-> k]
  BY DEF Forecast!Init
<1>2. n \in Nat
  BY <1>1 DEF Forecast!WeatherAssumption
<1>3. body \in Seq(Nat) /\ Len(body) = n
  <2>1. body \in [1..n -> Nat]
    BY <1>1, <1>2
  <2> QED BY <1>2, <2>1
<1>4. sent = 0 /\ SubSeq(body, 1, sent) = <<>> /\ response = <<>> /\ rows = <<>> /\ Len(rows) = 0
        /\ rows \in Seq(Nat)
  <2>1. sent = 0 /\ response = <<>> /\ rows = <<>>
    BY DEF Forecast!Init
  <2>2. SubSeq(body, 1, 0) = <<>>
    BY <1>3
  <2> QED BY <2>1, <2>2
<1>5. Len(document.hourly) \in Nat
  BY HourlyIs DEF Forecast!Init
<1>6. ForecastType
  BY <1>2, <1>3, <1>4 DEF Forecast!Init, ForecastType
<1>7. ResponseInv
  BY <1>4 DEF Forecast!Init, ResponseInv, Forecast!CrashCause, Forecast!Range, Range
<1>8. RowsInv
  BY <1>4, <1>5 DEF Forecast!Init, RowsInv
<1> QED BY <1>6, <1>7, <1>8 DEF ForecastInv

LEMMA CbKeeps == ASSUME Forecast!WeatherAssumption, ForecastInv, Forecast!Cb PROVE ForecastInv'
<1>1. pc = "perform" /\ sent < Len(body) /\ UNCHANGED <<body, document, i, rows>>
  BY DEF Forecast!Cb
<1>2. PICK n \in 1..Len(body) - sent :
        /\ sent' = sent + n
        /\ \/ /\ capacity' = Forecast!Room(n)
             /\ response' = Forecast!Appended(SubSeq(body, sent + 1, sent + n)) /\ UNCHANGED <<pc, status>>
           \/ pc' = "ended" /\ status' = 1 /\ UNCHANGED <<capacity, response>>
  BY DEF Forecast!Cb
<1>3. /\ body \in Seq(Nat) /\ sent \in 0..Len(body) /\ Len(body) \in Nat
      /\ response = SubSeq(body, 1, sent) /\ (response # <<>> => Len(response) < capacity)
  BY <1>1 DEF ForecastInv, ForecastType, ResponseInv
<1>4. sent' \in 0..Len(body) /\ sent' > 0 /\ n \in Nat /\ sent \in Nat
  BY <1>2, <1>3
<1>5. ForecastType'
  BY <1>1, <1>2, <1>4 DEF ForecastInv, ForecastType
<1>6. ResponseInv'
  <2>1. CASE capacity' = Forecast!Room(n)
          /\ response' = Forecast!Appended(SubSeq(body, sent + 1, sent + n)) /\ UNCHANGED <<pc, status>>
    <3> DEFINE a == SubSeq(body, 1, sent)
               b == SubSeq(body, sent + 1, sent + n)
               x == SubSeq(body, 1, sent + n)
    <3>1. Len(a) = sent /\ x \in Seq(Nat) /\ Len(x) = sent + n
      BY <1>2, <1>3, <1>4
    <3>2. a \o b = x
      <4>1. sent + n \in sent..Len(body)
        BY <1>2, <1>3, <1>4
      <4>2. 1 \in 1..(Len(body) + 1) /\ sent \in (1 - 1)..Len(body)
        BY <1>3
      <4> QED BY <1>3, <4>1, <4>2, ConcatAdjacentSubSeq
    <3>3. response' = a \o b /\ capacity' = Len(a) + n + 1
      BY <1>3, <2>1 DEF Forecast!Appended, Forecast!Room
    <3> HIDE DEF a, b
    <3>8. response' = SubSeq(body', 1, sent') /\ Len(response') = sent' /\ capacity' = sent' + 1
      BY <1>1, <1>2, <1>4, <3>1, <3>2, <3>3
    <3>9. pc' = "perform" /\ Len(response') < capacity' /\ sent' # 0
      BY <1>1, <1>4, <2>1, <3>8
    <3> QED BY <3>8, <3>9 DEF ResponseInv, Forecast!CrashCause, Forecast!Range, Range
  <2>2. CASE pc' = "ended" /\ status' = 1 /\ UNCHANGED <<capacity, response>>
    BY <1>3, <2>2 DEF ResponseInv, Forecast!CrashCause, Forecast!Range, Range
  <2> QED BY <1>2, <2>1, <2>2
<1>7. RowsInv'
  BY <1>1, <1>2 DEF ForecastInv, RowsInv
<1> QED BY <1>5, <1>6, <1>7 DEF ForecastInv

LEMMA HourKeeps == ASSUME Forecast!WeatherAssumption, ForecastInv, Forecast!Hour PROVE ForecastInv'
<1>1. pc = "print" /\ i < Len(document.hourly)
        /\ UNCHANGED <<body, document, sent, response, capacity, status>>
  BY DEF Forecast!Hour, Forecast!Crash
<1>2. \/ /\ document.hourly[i + 1] # "other" /\ document.hourly[i + 1] # "timed" /\ Forecast!Crash
      \/ /\ document.hourly[i + 1] = "timed" /\ i' = i + 1 /\ rows' = Append(rows, i + 1) /\ pc' = pc
      \/ /\ document.hourly[i + 1] = "other" /\ i' = i + 1 /\ rows' = rows /\ pc' = pc
  BY DEF Forecast!Hour, Forecast!IsObject, Forecast!After
<1>3. /\ document.hourly \in Seq(Forecast!Items) /\ Len(document.hourly) \in Nat /\ i \in Nat
           /\ rows \in Seq(Nat) /\ Len(rows) \in Nat
      /\ document.kind = "hours" /\ status = 0
  BY <1>1, HourlyIs DEF ForecastInv, ForecastType, RowsInv
<1>4. i + 1 \in 1..Len(document.hourly) /\ i + 1 \in Nat /\ document.hourly[i + 1] \in Forecast!Items
  BY <1>1, <1>3
<1>5. ResponseInv' /\ ForecastType'
  <2>1. CASE Forecast!Crash
    <3>1. document.hourly[i + 1] = "timeless"
      BY <1>2, <1>4, <2>1 DEF Forecast!Items, Forecast!Crash
    <3>2. Range(document.hourly) \cap {"timeless"} # {}
      BY <1>3, <1>4, <3>1 DEF Range, Forecast!Range
    <3> QED BY <1>1, <1>3, <2>1, <3>2 DEF Forecast!Crash, ForecastInv, ForecastType, ResponseInv,
          Forecast!CrashCause, Forecast!Range, Range
  <2>2. CASE pc' = pc /\ i' = i + 1 /\ rows' \in {rows, Append(rows, i + 1)}
    <3>1. rows' \in Seq(Nat)
      BY <1>3, <1>4, <2>2
    <3> QED BY <1>1, <1>4, <2>2, <3>1 DEF ForecastInv, ForecastType, ResponseInv, Forecast!CrashCause,
          Forecast!Range, Range
  <2> QED BY <1>2, <2>1, <2>2
<1>6. /\ \A k, l \in 1..Len(rows) : k < l => rows[k] < rows[l]
      /\ \A k \in 1..Len(rows) : rows[k] \in 1..i /\ document.hourly[rows[k]] = "timed"
      /\ \A k \in 1..i : document.hourly[k] = "timed" => \E l \in 1..Len(rows) : rows[l] = k
  BY DEF ForecastInv, RowsInv
<1>7. RowsInv'
  <2>1. CASE Forecast!Crash
    BY <2>1 DEF Forecast!Crash, ForecastInv, RowsInv
  <2>2. CASE document.hourly[i + 1] = "timed" /\ i' = i + 1 /\ rows' = Append(rows, i + 1) /\ pc' = pc
    <3>1. /\ Len(rows') = Len(rows) + 1 /\ rows'[Len(rows) + 1] = i + 1
               /\ \A k \in 1..Len(rows) : rows'[k] = rows[k]
      BY <1>3, <2>2
    <3>2. \A k, l \in 1..Len(rows') : k < l => rows'[k] < rows'[l]
      <4> TAKE k, l \in 1..Len(rows')
      <4> HAVE k < l
      <4>1. k \in 1..Len(rows) /\ rows'[k] = rows[k] /\ rows[k] \in 1..i
        BY <1>3, <1>6, <3>1
      <4>2. CASE l = Len(rows) + 1
        BY <1>3, <3>1, <4>1, <4>2
      <4>3. CASE l # Len(rows) + 1
        <5>1. l \in 1..Len(rows) /\ rows'[l] = rows[l]
          BY <1>3, <3>1, <4>3
        <5>2. rows[k] < rows[l]
          BY <1>6, <4>1, <5>1
        <5> QED BY <4>1, <5>1, <5>2
      <4> QED BY <4>2, <4>3
    <3>3. \A k \in 1..Len(rows') : rows'[k] \in 1..i' /\ document.hourly[rows'[k]] = "timed"
      BY <1>3, <1>6, <2>2, <3>1
    <3>4. \A k \in 1..i' : document.hourly[k] = "timed" => \E l \in 1..Len(rows') : rows'[l] = k
      <4> TAKE k \in 1..i'
      <4> HAVE document.hourly[k] = "timed"
      <4>1. CASE k = i + 1
        <5>1. Len(rows) + 1 \in 1..Len(rows')
          BY <1>3, <3>1
        <5> QED BY <3>1, <4>1, <5>1
      <4>2. CASE k # i + 1
        <5>0. k \in 1..i /\ document.hourly[k] = "timed"
          BY <1>3, <2>2, <4>2
        <5>1. PICK l \in 1..Len(rows) : rows[l] = k
          BY <1>6, <5>0
        <5>2. l \in 1..Len(rows') /\ rows'[l] = k
          BY <1>3, <3>1, <5>1
        <5> QED BY <5>2
      <4> QED BY <4>1, <4>2
    <3> QED BY <1>1, <1>3, <1>4, <2>2, <3>2, <3>3, <3>4 DEF RowsInv
  <2>3. CASE document.hourly[i + 1] = "other" /\ i' = i + 1 /\ rows' = rows /\ pc' = pc
    <3>1. \A k \in 1..Len(rows') : rows'[k] \in 1..i' /\ document.hourly[rows'[k]] = "timed"
      BY <1>3, <1>6, <2>3
    <3>2. \A k \in 1..i' : document.hourly[k] = "timed" => \E l \in 1..Len(rows') : rows'[l] = k
      BY <1>3, <1>6, <2>3
    <3> QED BY <1>1, <1>3, <1>4, <1>6, <2>3, <3>1, <3>2 DEF RowsInv
  <2> QED BY <1>2, <2>1, <2>2, <2>3
<1> QED BY <1>5, <1>7 DEF ForecastInv

LEMMA NextForecast == ASSUME Forecast!WeatherAssumption, ForecastInv, [Forecast!Next]_Forecast!vars
PROVE ForecastInv'
<1> USE DEF ForecastInv, ForecastType, ResponseInv, RowsInv, Forecast!CrashCause
<1>1. CASE Forecast!InitFails \/ Forecast!PerformFails
  <2>1. pc' = "ended" /\ status' = 1 /\ UNCHANGED <<body, document, sent, response, capacity, i, rows>>
    BY <1>1 DEF Forecast!InitFails, Forecast!PerformFails, Forecast!Return
  <2>2. ForecastType'
    BY <2>1
  <2>3. ResponseInv'
    BY <2>1
  <2>4. RowsInv'
    BY <2>1
  <2> QED BY <2>2, <2>3, <2>4
<1>2. CASE Forecast!Perform
  BY <1>2 DEF Forecast!Perform
<1>3. CASE Forecast!PerformEnds
  BY <1>3 DEF Forecast!PerformEnds, Forecast!Return
<1>4. CASE Forecast!Parse
  <2>1. pc = "parse" /\ UNCHANGED <<body, document, sent, response, capacity, i, rows>>
    BY <1>4 DEF Forecast!Parse, Forecast!Crash, Forecast!Return
  <2>2. \/ capacity = 0 /\ pc' = "crashed" /\ status' = status
        \/ document.kind # "hours" /\ pc' = "ended" /\ status' \in {0, 1}
        \/ document.kind = "hours" /\ pc' = "print" /\ status' = status
    BY <1>4 DEF Forecast!Parse, Forecast!Crash, Forecast!Return
  <2>3. body \in Seq(Nat) /\ sent \in Nat /\ sent = Len(body)
    BY <2>1
  <2>4. capacity = 0 => body = <<>>
    BY <2>1, <2>3
  <2> QED BY <2>1, <2>2, <2>4
<1>5. CASE Forecast!HoursEnd
  BY <1>5 DEF Forecast!HoursEnd, Forecast!Return
<1>6. CASE UNCHANGED Forecast!vars
  BY <1>6 DEF Forecast!vars
<1> QED BY <1>1, <1>2, <1>3, <1>4, <1>5, <1>6, CbKeeps, HourKeeps DEF Forecast!Next

\* The whole answer is parsed, with a byte left for its end, whatever pieces it
\* came in; the hours shown are the timed ones in their order, all of them on
\* success; and a crash has one of two causes (src/2-weather/main.c).
THEOREM ForecastCorrect == ASSUME Forecast!WeatherAssumption
PROVE Forecast!Spec => [](Forecast!AnswerWhole /\ Forecast!HoursShown /\ Forecast!CrashCause)
<1>1. Forecast!Init => ForecastInv
  BY InitForecast
<1>2. ForecastInv /\ [Forecast!Next]_Forecast!vars => ForecastInv'
  BY NextForecast
<1>3. ForecastInv => Forecast!AnswerWhole /\ Forecast!HoursShown /\ Forecast!CrashCause
  <2> SUFFICES ASSUME ForecastInv PROVE Forecast!AnswerWhole /\ Forecast!HoursShown /\ Forecast!CrashCause
    OBVIOUS
  <2>1. Forecast!AnswerWhole
    <3>1. body \in Seq(Nat)
      BY DEF ForecastInv, ForecastType
    <3>2. SubSeq(body, 1, Len(body)) = body
      BY <3>1
    <3> QED BY <3>2 DEF ForecastInv, ResponseInv, Forecast!AnswerWhole
  <2>2. document.hourly \in Seq(Forecast!Items) /\ Len(document.hourly) \in Nat /\ rows \in Seq(Nat)
          /\ i \in Nat
    BY HourlyIs DEF ForecastInv, ForecastType
  <2>3. \A k \in 1..Len(rows) : rows[k] \in DOMAIN document.hourly /\ document.hourly[rows[k]] = "timed"
    BY <2>2 DEF ForecastInv, RowsInv
  <2>4. ASSUME pc = "ended", status = 0, document.kind = "hours",
               NEW k \in DOMAIN document.hourly, document.hourly[k] = "timed"
        PROVE  k \in Range(rows)
    <3>1. k \in 1..i
      BY <2>2, <2>4 DEF ForecastInv, RowsInv
    <3>2. PICK l \in 1..Len(rows) : rows[l] = k
      BY <2>4, <3>1 DEF ForecastInv, RowsInv
    <3>3. l \in DOMAIN rows
      BY <2>2, <3>2
    <3> QED BY <3>2, <3>3 DEF Range, Forecast!Range
  <2>5. Forecast!HoursShown
    BY <2>3, <2>4 DEF ForecastInv, RowsInv, Forecast!HoursShown, Forecast!Range, Range
  <2> QED BY <2>1, <2>5 DEF ForecastInv, ResponseInv
<1> QED BY <1>1, <1>2, <1>3, PTL DEF Forecast!Spec

-----------------------------------------------------------------------------
(* ZipFinder: any archive, behind any picture, and any other file.         *)

(* Flattening *)

\* A flattened sequence is joined part by part.
Joins(u, seqs, n) ==
  /\ u \in [0..n -> Seq(Nat)] /\ u[0] = <<>>
  /\ \A j \in 1..n : seqs[j] \in Seq(Nat) /\ u[j] = u[j - 1] \o seqs[j]
LEMMA FlattenJoins ==
  ASSUME NEW seqs, Len(seqs) \in Nat \ {0}, \A j \in 1..Len(seqs) : seqs[j] \in Seq(Nat)
  PROVE  \E u : Joins(u, seqs, Len(seqs)) /\ FlattenSeq(seqs) = u[Len(seqs)]
<1> DEFINE n == Len(seqs)
           V == Seq(Nat)
           g == [p \in V \X (1..n) |-> p[1] \o seqs[p[2]]]
           Parts(f) == f = [j \in 1..n |-> IF j = 1 THEN seqs[j] ELSE f[j - 1] \o seqs[j]]
           d == CHOOSE f : Parts(f)
<1>0. FlattenSeq(seqs) = d[n] /\ n \in Nat \ {0}
  BY DEF FlattenSeq, Finder!FlattenSeq
<1>1. \A j \in 1..n : seqs[j] \in V
  OBVIOUS
<1> HIDE DEF n, d
<1>2. \A x \in V, y \in V : x \o y \in V /\ <<>> \o y = y
  OBVIOUS
<1>3. <<>> \in V
  OBVIOUS
<1> HIDE DEF V
<1>4. PICK u : Table(u, n, V, <<>>, g)
  <2>1. g \in Steps(n, V)
    <3>1. \A p \in V \X (1..n) : p[1] \o seqs[p[2]] \in V
      <4> TAKE p \in V \X (1..n)
      <4>1. p[1] \in V /\ seqs[p[2]] \in V
        BY <1>1
      <4> QED BY <1>2, <4>1
    <3> QED BY <3>1 DEF Steps
  <2> HIDE DEF g
  <2>2. n \in Nat
    BY <1>0
  <2> QED BY <1>3, <2>1, <2>2, Recursion
<1>5. u \in [0..n -> V] /\ u[0] = <<>> /\ \A j \in 1..n : u[j] = g[<<u[j - 1], j>>]
  BY <1>4 DEF Table
<1>6. ASSUME NEW j \in 1..n PROVE u[j] = u[j - 1] \o seqs[j]
  <2>1. j - 1 \in 0..n
    BY <1>0
  <2>2. u[j - 1] \in V
    BY <1>5, <2>1
  <2>3. <<u[j - 1], j>> \in V \X (1..n)
    BY <2>2
  <2>4. g[<<u[j - 1], j>>] = u[j - 1] \o seqs[j]
    BY <2>3
  <2> QED BY <1>5, <2>4
<1>7. Joins(u, seqs, n)
  BY <1>1, <1>5, <1>6 DEF Joins, V
<1> HIDE DEF g
<1>8. Parts([j \in 1..n |-> u[j]])
  <2> DEFINE f == [j \in 1..n |-> u[j]]
  <2>1. \A j \in 1..n : f[j] = IF j = 1 THEN seqs[j] ELSE f[j - 1] \o seqs[j]
    <3> TAKE j \in 1..n
    <3>1. CASE j = 1
      <4>1. 1 \in 1..n /\ 1 - 1 = 0
        BY <1>0
      <4>2. u[1] = u[1 - 1] \o seqs[1]
        BY <1>6, <4>1
      <4>3. u[1] = seqs[1]
        BY <1>1, <1>2, <1>5, <4>1, <4>2
      <4> QED BY <3>1, <4>1, <4>3
    <3>2. CASE j # 1
      <4>1. j - 1 \in 1..n
        BY <1>0, <3>2
      <4>2. f[j - 1] = u[j - 1] /\ f[j] = u[j]
        BY <4>1
      <4> QED BY <1>6, <3>2, <4>2
    <3> QED BY <3>1, <3>2
  <2>2. f = [j \in 1..n |-> f[j]]
    OBVIOUS
  <2> HIDE DEF f
  <2>3. f = [j \in 1..n |-> IF j = 1 THEN seqs[j] ELSE f[j - 1] \o seqs[j]]
    BY <2>1, <2>2
  <2> QED BY <2>3 DEF f
<1>9. Parts(d)
  <2> HIDE DEF Parts
  <2> QED BY <1>8 DEF d
<1>10. DOMAIN d = 1..n /\ \A j \in 1..n : d[j] = IF j = 1 THEN seqs[j] ELSE d[j - 1] \o seqs[j]
  <2> DEFINE e == [j \in 1..n |-> IF j = 1 THEN seqs[j] ELSE d[j - 1] \o seqs[j]]
  <2>1. d = e
    BY <1>9
  <2>2. \A j \in 1..n : e[j] = IF j = 1 THEN seqs[j] ELSE d[j - 1] \o seqs[j]
    OBVIOUS
  <2>3. DOMAIN e = 1..n
    OBVIOUS
  <2> HIDE DEF e
  <2> QED BY <2>1, <2>2, <2>3
<1> DEFINE Bad == {j \in 1..n : d[j] # u[j]}
<1>11. Bad = {}
  <2>1. SUFFICES ASSUME Bad # {} PROVE FALSE
    OBVIOUS
  <2>2. PICK j \in Bad : \A k \in Bad : j <= k
    <3>1. Bad \in SUBSET Nat
      BY <1>0
    <3> HIDE DEF Bad
    <3> QED BY <2>1, <3>1, Least
  <2>3. d[1] = u[1]
    <3>1. 1 \in 1..n /\ 1 - 1 = 0
      BY <1>0
    <3>2. u[1] = u[1 - 1] \o seqs[1] /\ d[1] = seqs[1]
      BY <1>6, <1>10, <3>1
    <3> QED BY <1>1, <1>2, <1>5, <3>1, <3>2
  <2>4. j \in 1..n /\ j # 1
    BY <2>2, <2>3
  <2>5. j - 1 \in 1..n /\ ~(j <= j - 1)
    BY <1>0, <2>4
  <2>6. d[j - 1] = u[j - 1]
    BY <2>2, <2>5
  <2>7. d[j] = u[j]
    BY <1>6, <1>10, <2>4, <2>6
  <2> QED BY <2>2, <2>7
<1>12. d[n] = u[n]
  <2>1. n \in 1..n
    BY <1>0
  <2> QED BY <1>11, <2>1
<1>13. Joins(u, seqs, n) /\ FlattenSeq(seqs) = u[n]
  BY <1>0, <1>7, <1>12
<1> QED BY <1>13 DEF n

\* Each part stands behind the parts before it, and stays where it is.
Placed(u, seqs, n, j) ==
  /\ Len(u[j]) = Len(u[j - 1]) + Len(seqs[j]) /\ Len(u[j - 1]) \in Nat /\ Len(u[j]) <= Len(u[n])
  /\ \A t \in 1..Len(seqs[j]) : u[n][Len(u[j - 1]) + t] = seqs[j][t]
LEMMA JoinsPlace ==
  ASSUME NEW n \in Nat, NEW seqs, NEW u, Joins(u, seqs, n), NEW j \in 1..n
  PROVE  Placed(u, seqs, n, j)
<1> USE DEF Placed
<1>0. j - 1 \in 0..n /\ j \in 0..n /\ n \in j..n /\ seqs[j] \in Seq(Nat) /\ u[j] = u[j - 1] \o seqs[j]
  <2>1. j - 1 \in 0..n /\ j \in 0..n /\ n \in j..n
    OBVIOUS
  <2>2. seqs[j] \in Seq(Nat)
    BY DEF Joins
  <2>3. u[j] = u[j - 1] \o seqs[j]
    BY DEF Joins
  <2> QED BY <2>1, <2>2, <2>3
<1>1. u[j - 1] \in Seq(Nat) /\ u[j] \in Seq(Nat)
  BY <1>0 DEF Joins
<1> DEFINE x == u[j - 1]
           y == seqs[j]
<1>2. /\ Len(x \o y) = Len(x) + Len(y) /\ Len(x) \in Nat /\ Len(y) \in Nat
      /\ \A t \in 1..Len(y) : (x \o y)[Len(x) + t] = y[t]
  <2>1. x \in Seq(Nat) /\ y \in Seq(Nat)
    BY <1>0, <1>1
  <2> HIDE DEF x, y
  <2> QED BY <2>1
<1> DEFINE Extends(k) == Len(u[j]) <= Len(u[k]) /\ \A t \in 1..Len(u[j]) : u[k][t] = u[j][t]
           Bad == {k \in j..n : ~Extends(k)}
<1>3. Bad = {}
  <2>1. SUFFICES ASSUME Bad # {} PROVE FALSE
    OBVIOUS
  <2>2. PICK k \in Bad : \A l \in Bad : k <= l
    <3>1. Bad \in SUBSET Nat
      OBVIOUS
    <3> HIDE DEF Bad
    <3> QED BY <2>1, <3>1, Least
  <2>3. Len(u[j]) \in Nat
    BY <1>1
  <2>4. Extends(j)
    BY <2>3
  <2>5. k \in j..n /\ k # j
    <3> HIDE DEF Extends
    <3> QED BY <2>2, <2>4
  <2>6. k - 1 \in j..n /\ ~(k <= k - 1) /\ k \in 1..n /\ k - 1 \in 0..n
    BY <2>5
  <2>7. Extends(k - 1)
    <3> HIDE DEF Extends
    <3> QED BY <2>2, <2>6
  <2> DEFINE v == u[k - 1]
             w == seqs[k]
  <2>8. v \in Seq(Nat) /\ w \in Seq(Nat) /\ u[k] = v \o w
    BY <2>6 DEF Joins
  <2> HIDE DEF w
  <2>9. Len(v) <= Len(v \o w) /\ Len(v) \in Nat /\ \A t \in 1..Len(v) : (v \o w)[t] = v[t]
    <3> HIDE DEF v
    <3> QED BY <2>8
  <2>10. Len(u[j]) <= Len(v) /\ \A t \in 1..Len(u[j]) : v[t] = u[j][t]
    BY <2>7
  <2> HIDE DEF v
  <2>11. Len(v \o w) \in Nat
    BY <2>8
  <2>12. Extends(k)
    BY <2>3, <2>8, <2>9, <2>10, <2>11
  <2> QED BY <2>2, <2>12
<1>4. Extends(n)
  <2> HIDE DEF Extends
  <2> QED BY <1>0, <1>3
<1>5. ASSUME NEW t \in 1..Len(seqs[j]) PROVE u[n][Len(u[j - 1]) + t] = seqs[j][t]
  <2>1. Len(x) + t \in 1..Len(u[j])
    <3>1. Len(u[j]) = Len(x) + Len(y) /\ Len(x) \in Nat /\ Len(y) \in Nat /\ t \in 1..Len(y)
      BY <1>0, <1>2
    <3> HIDE DEF x, y
    <3> QED BY <3>1
  <2>2. u[j][Len(x) + t] = y[t]
    BY <1>0, <1>2
  <2>3. u[n][Len(x) + t] = u[j][Len(x) + t]
    BY <1>4, <2>1
  <2> QED BY <2>2, <2>3
<1> QED BY <1>0, <1>2, <1>4, <1>5

(* Archives *)

LEMMA Joined ==
  ASSUME NEW a \in Seq(Nat), NEW b \in Seq(Nat)
  PROVE  /\ a \o b \in Seq(Nat) /\ Len(a \o b) = Len(a) + Len(b) /\ Len(a) \in Nat /\ Len(b) \in Nat
         /\ \A t \in 1..Len(a) : (a \o b)[t] = a[t]
         /\ \A t \in 1..Len(b) : (a \o b)[Len(a) + t] = b[t]
OBVIOUS

LEMMA FillIs ==
  ASSUME NEW n \in Nat
  PROVE  Finder!Fill(n) \in Seq(Nat) /\ Len(Finder!Fill(n)) = n /\ \A t \in 1..n : Finder!Fill(n)[t] = 0
BY DEF Finder!Fill

\* A header: what it says of its file, the file's name, and what is skipped.
Header(e, k) == <<Finder!CDR_FILE_HEADER_SIGNATURE, e.name, e.extra, e.comment>>
                \o [j \in 1..e.name |-> k] \o Finder!Fill(e.extra + e.comment)
Described(e) == e.name \in Nat /\ e.extra \in Nat /\ e.comment \in Nat
LEMMA HeaderIs ==
  ASSUME NEW e, Described(e), NEW k \in Nat
  PROVE  LET h == Header(e, k) IN
         /\ h \in Seq(Nat) /\ Len(h) = Finder!HEADER + e.name + e.extra + e.comment
         /\ h[1] = Finder!CDR_FILE_HEADER_SIGNATURE /\ h[2] = e.name /\ h[3] = e.extra /\ h[4] = e.comment
         /\ \A t \in 1..e.name : h[Finder!HEADER + t] = k
<1> DEFINE a == <<Finder!CDR_FILE_HEADER_SIGNATURE, e.name, e.extra, e.comment>>
           b == [j \in 1..e.name |-> k]
           c == Finder!Fill(e.extra + e.comment)
<1>0. e.name \in Nat /\ e.extra \in Nat /\ e.comment \in Nat
  BY DEF Described
<1>1. /\ a \in Seq(Nat) /\ Len(a) = 4 /\ a[1] = Finder!CDR_FILE_HEADER_SIGNATURE
      /\ a[2] = e.name /\ a[3] = e.extra /\ a[4] = e.comment
  BY <1>0 DEF Finder!CDR_FILE_HEADER_SIGNATURE
<1>2. b \in Seq(Nat) /\ Len(b) = e.name /\ \A t \in 1..e.name : b[t] = k
  BY <1>0
<1>3. c \in Seq(Nat) /\ Len(c) = e.extra + e.comment
  BY <1>0, FillIs
<1>4. Header(e, k) = (a \o b) \o c
  BY DEF Header
<1> HIDE DEF a, b, c
<1>5. /\ a \o b \in Seq(Nat) /\ Len(a \o b) = 4 + e.name
      /\ \A t \in 1..4 : (a \o b)[t] = a[t]
      /\ \A t \in 1..e.name : (a \o b)[4 + t] = b[t]
  <2>1. a \in Seq(Nat) /\ b \in Seq(Nat)
    BY <1>1, <1>2
  <2>2. /\ a \o b \in Seq(Nat) /\ Len(a \o b) = Len(a) + Len(b)
        /\ \A t \in 1..Len(a) : (a \o b)[t] = a[t]
        /\ \A t \in 1..Len(b) : (a \o b)[Len(a) + t] = b[t]
    BY <2>1, Joined
  <2> QED BY <1>1, <1>2, <2>2
<1> DEFINE d == a \o b
<1>6. d \in Seq(Nat) /\ Len(d) = 4 + e.name
  BY <1>5
<1> HIDE DEF d
<1>7. /\ d \o c \in Seq(Nat) /\ Len(d \o c) = 4 + e.name + (e.extra + e.comment)
      /\ \A t \in 1..(4 + e.name) : (d \o c)[t] = d[t]
  <2>1. d \in Seq(Nat) /\ c \in Seq(Nat)
    BY <1>3, <1>6
  <2>2. /\ d \o c \in Seq(Nat) /\ Len(d \o c) = Len(d) + Len(c)
        /\ \A t \in 1..Len(d) : (d \o c)[t] = d[t]
    BY <2>1, Joined
  <2> QED BY <1>3, <1>6, <2>2
<1>8. \A t \in 1..4 : t \in 1..(4 + e.name)
  BY <1>0
<1>9. \A t \in 1..e.name : 4 + t \in 1..(4 + e.name)
  BY <1>0
<1>10. (d \o c)[1] = a[1] /\ (d \o c)[2] = a[2] /\ (d \o c)[3] = a[3] /\ (d \o c)[4] = a[4]
  BY <1>5, <1>7, <1>8 DEF d
<1>11. \A t \in 1..e.name : (d \o c)[4 + t] = k
  BY <1>2, <1>5, <1>7, <1>9 DEF d
<1>12. Header(e, k) = d \o c
  BY <1>4 DEF d
<1> DEFINE h == Header(e, k)
<1>13. h \in Seq(Nat) /\ Len(h) = 4 + e.name + (e.extra + e.comment)
  BY <1>7, <1>12
<1>14. /\ h[1] = Finder!CDR_FILE_HEADER_SIGNATURE /\ h[2] = e.name /\ h[3] = e.extra /\ h[4] = e.comment
       /\ \A t \in 1..e.name : h[4 + t] = k
  BY <1>1, <1>10, <1>11, <1>12
<1> HIDE DEF h
<1>15. 4 + e.name + (e.extra + e.comment) = 4 + e.name + e.extra + e.comment
  BY <1>0
<1> QED BY <1>13, <1>14, <1>15 DEF h, Finder!HEADER

\* An archive by the places in it: o[k] is where the k-th header ends.
Places(f, es, o, c) ==
  /\ Len(es) \in Nat \ {0} /\ f \in Seq(Nat) /\ c \in 0..Window /\ o \in [0..Len(es) -> Nat]
  /\ \A k \in 1..Len(es) :
       /\ Described(es[k]) /\ o[k] = o[k - 1] + Finder!HEADER + es[k].name + es[k].extra + es[k].comment
       /\ o[k] <= o[Len(es)]
       /\ f[o[k - 1] + 1] = Finder!CDR_FILE_HEADER_SIGNATURE
       /\ f[o[k - 1] + 2] = es[k].name /\ f[o[k - 1] + 3] = es[k].extra /\ f[o[k - 1] + 4] = es[k].comment
       /\ \A t \in 1..es[k].name : f[o[k - 1] + Finder!HEADER + t] = k
  /\ LET e == o[Len(es)] IN
     /\ f[e + 1] = Finder!EOCDR_SIGNATURE /\ f[e + 2] = e - o[0] /\ f[e + 2] # Finder!EOCDR_SIGNATURE
     /\ Len(f) = e + Finder!END + c /\ \A t \in (e + 3)..Len(f) : f[t] = 0

LEMMA ArchivePlaces ==
  ASSUME Finder!ZipAssumption, NEW front \in Finder!Fronts, NEW es \in Finder!EntryLists, NEW c \in Lengths
  PROVE  \E o : Places(Finder!Archive(front, es, c), es, o, c)
<1> DEFINE n == Len(es)
           H(k) == Header(es[k], k)
           seqs == [k \in 1..n |-> H(k)]
           D == Finder!Directory(es)
<1>0. n \in Nat \ {0} /\ c \in 0..Window /\ c \in Nat /\ \A k \in 1..n : Described(es[k])
  <2>1. Lengths \subseteq Nat /\ c \in 0..Window /\ c \in Nat
    BY DEF Finder!ZipAssumption
  <2>2. PICK m \in 1..MaxEntries : es \in [1..m -> [name : Lengths, extra : Lengths, comment : Lengths]]
    BY DEF Finder!EntryLists
  <2>3. n = m /\ m \in Nat \ {0}
    BY <2>2 DEF Finder!ZipAssumption
  <2>4. \A k \in 1..m : es[k] \in [name : Lengths, extra : Lengths, comment : Lengths]
    BY <2>2
  <2> QED BY <2>1, <2>3, <2>4 DEF Described
<1>1. D = FlattenSeq(seqs)
  BY DEF Finder!Directory, Header, FlattenSeq, Finder!FlattenSeq
<1>2. Len(D) # Finder!EOCDR_SIGNATURE
  BY DEF Finder!ZipAssumption
<1> HIDE DEF D
<1>3. Len(seqs) = n /\ \A k \in 1..n : seqs[k] = H(k)
  BY <1>0
<1> HIDE DEF seqs, n
<1>4. \A k \in 1..n : H(k) \in Seq(Nat)
  <2> TAKE k \in 1..n
  <2>1. k \in Nat /\ Described(es[k])
    BY <1>0
  <2> QED BY <2>1, HeaderIs
<1> HIDE DEF H
<1>5. PICK u : Joins(u, seqs, n) /\ D = u[n]
  BY <1>0, <1>1, <1>3, <1>4, FlattenJoins
<1>6. ASSUME NEW k \in 1..n
      PROVE  /\ Len(u[k]) = Len(u[k - 1]) + Len(H(k)) /\ Len(u[k - 1]) \in Nat /\ Len(u[k]) <= Len(D)
             /\ \A t \in 1..Len(H(k)) : D[Len(u[k - 1]) + t] = H(k)[t]
  <2>1. n \in Nat
    BY <1>0
  <2>2. Placed(u, seqs, n, k)
    BY <1>5, <2>1, JoinsPlace
  <2> QED BY <1>3, <1>5, <2>2 DEF Placed
<1>7. u[0] = <<>> /\ D \in Seq(Nat) /\ Len(D) \in Nat
  <2>1. n \in 0..n
    BY <1>0
  <2> QED BY <1>5, <2>1 DEF Joins
<1> DEFINE p == front \o Finder!Fill(n)
           q == p \o D
           e == <<Finder!EOCDR_SIGNATURE, Len(D)>>
           r == q \o e
           f == r \o Finder!Fill(c)
           b == Len(p)
           z == b + Len(D)
<1>8. Finder!Archive(front, es, c) = f
  BY DEF Finder!Archive, D, n
<1>9. p \in Seq(Nat) /\ b \in Nat
  <2>1. front \in Seq(Nat)
    <3>1. <<>> \in Seq(Nat) /\ <<99>> \in Seq(Nat) /\ <<99, 98, 0>> \in Seq(Nat)
      OBVIOUS
    <3> QED BY <3>1 DEF Finder!Fronts, Finder!JPEG_SIGNATURE, Finder!EOCDR_SIGNATURE
  <2>2. Finder!Fill(n) \in Seq(Nat)
    BY <1>0, FillIs
  <2> HIDE DEF n
  <2> QED BY <2>1, <2>2, Joined
<1> HIDE DEF p
<1>10. q \in Seq(Nat) /\ Len(q) = z /\ \A t \in 1..Len(D) : q[b + t] = D[t]
  BY <1>7, <1>9, Joined
<1>11. e \in Seq(Nat) /\ Len(e) = 2 /\ e[1] = Finder!EOCDR_SIGNATURE /\ e[2] = Len(D)
  BY <1>7 DEF Finder!EOCDR_SIGNATURE
<1>12. z \in Nat
  BY <1>7, <1>9
<1> HIDE DEF q, e, z
<1>13. /\ r \in Seq(Nat) /\ Len(r) = z + 2 /\ \A t \in 1..z : r[t] = q[t]
       /\ r[z + 1] = Finder!EOCDR_SIGNATURE /\ r[z + 2] = Len(D)
  <2>3. q \in Seq(Nat) /\ e \in Seq(Nat)
    BY <1>10, <1>11
  <2>4. /\ q \o e \in Seq(Nat) /\ Len(q \o e) = Len(q) + Len(e)
        /\ \A t \in 1..Len(q) : (q \o e)[t] = q[t]
        /\ \A t \in 1..Len(e) : (q \o e)[Len(q) + t] = e[t]
    BY <2>3, Joined
  <2>1. /\ q \o e \in Seq(Nat) /\ Len(q \o e) = z + 2 /\ \A t \in 1..z : (q \o e)[t] = q[t]
        /\ \A t \in 1..2 : (q \o e)[z + t] = e[t]
    BY <1>10, <1>11, <2>4
  <2>2. 1 \in 1..2 /\ 2 \in 1..2
    OBVIOUS
  <2> QED BY <1>11, <2>1, <2>2
<1> HIDE DEF r
<1>14. /\ f \in Seq(Nat) /\ Len(f) = z + 2 + c /\ \A t \in 1..(z + 2) : f[t] = r[t]
       /\ \A t \in 1..c : f[z + 2 + t] = 0
  <2> DEFINE w == Finder!Fill(c)
  <2>1. r \in Seq(Nat) /\ w \in Seq(Nat) /\ Len(w) = c /\ \A t \in 1..c : w[t] = 0
    BY <1>0, <1>13, FillIs
  <2>2. f = r \o w
    OBVIOUS
  <2> HIDE DEF w, f
  <2>3. /\ r \o w \in Seq(Nat) /\ Len(r \o w) = Len(r) + Len(w)
        /\ \A t \in 1..Len(r) : (r \o w)[t] = r[t]
        /\ \A t \in 1..Len(w) : (r \o w)[Len(r) + t] = w[t]
    BY <2>1, Joined
  <2> QED BY <1>13, <2>1, <2>2, <2>3
<1> HIDE DEF f
<1>15. \A t \in 1..Len(D) : f[b + t] = D[t]
  <2> TAKE t \in 1..Len(D)
  <2>1. b + t \in 1..z /\ b + t \in 1..(z + 2)
    BY <1>7, <1>9 DEF z
  <2> HIDE DEF b
  <2> QED BY <1>10, <1>13, <1>14, <2>1
<1>16. f[z + 1] = Finder!EOCDR_SIGNATURE /\ f[z + 2] = Len(D) /\ \A t \in (z + 3)..Len(f) : f[t] = 0
  <2>1. z + 1 \in 1..(z + 2) /\ z + 2 \in 1..(z + 2)
    BY <1>12
  <2>2. ASSUME NEW t \in (z + 3)..Len(f) PROVE f[t] = 0
    <3> DEFINE m == t - (z + 2)
    <3>1. m \in 1..c /\ t = z + 2 + m
      BY <1>0, <1>12, <1>14
    <3> HIDE DEF m
    <3> QED BY <1>14, <3>1
  <2> QED BY <1>13, <1>14, <2>1, <2>2
<1> HIDE DEF b
<1> DEFINE o == [k \in 0..n |-> b + Len(u[k])]
<1>17. \A k \in 0..n : u[k] \in Seq(Nat) /\ Len(u[k]) \in Nat
  BY <1>5 DEF Joins
<1>18. o \in [0..n -> Nat] /\ o[0] = b /\ o[n] = z /\ \A k \in 0..n : o[k] = b + Len(u[k])
  <2>1. 0 \in 0..n /\ n \in 0..n /\ Len(u[0]) = 0
    BY <1>0, <1>7
  <2>2. \A k \in 0..n : b + Len(u[k]) \in Nat
    BY <1>9, <1>17
  <2>3. o \in [0..n -> Nat]
    BY <2>2
  <2>4. \A k \in 0..n : o[k] = b + Len(u[k])
    OBVIOUS
  <2> HIDE DEF o
  <2>5. o[0] = b + Len(u[0]) /\ o[n] = b + Len(u[n])
    BY <2>1, <2>4
  <2>6. b + 0 = b
    BY <1>9
  <2> QED BY <1>5, <2>1, <2>3, <2>4, <2>5, <2>6 DEF z
<1> HIDE DEF o
<1>19. ASSUME NEW k \in 1..n
       PROVE  /\ o[k] = o[k - 1] + Finder!HEADER + es[k].name + es[k].extra + es[k].comment /\ o[k] <= o[n]
              /\ f[o[k - 1] + 1] = Finder!CDR_FILE_HEADER_SIGNATURE
              /\ f[o[k - 1] + 2] = es[k].name /\ f[o[k - 1] + 3] = es[k].extra
              /\ f[o[k - 1] + 4] = es[k].comment
              /\ \A t \in 1..es[k].name : f[o[k - 1] + Finder!HEADER + t] = k
  <2> DEFINE l == Len(u[k - 1])
             h == H(k)
  <2>1. k - 1 \in 0..n /\ k \in 0..n /\ n \in 0..n /\ k \in Nat
    BY <1>0
  <2>2. o[k - 1] = b + l /\ o[k] = b + Len(u[k]) /\ l \in Nat /\ Len(u[k]) \in Nat
    BY <1>17, <1>18, <2>1
  <2>3. Len(u[k]) = l + Len(h) /\ Len(u[k]) <= Len(D) /\ \A t \in 1..Len(h) : D[l + t] = h[t]
    BY <1>6
  <2>4. Described(es[k])
    BY <1>0
  <2>5. es[k].name \in Nat /\ es[k].extra \in Nat /\ es[k].comment \in Nat
    BY <2>4 DEF Described
  <2>6. /\ Len(h) = 4 + es[k].name + es[k].extra + es[k].comment
        /\ h[1] = Finder!CDR_FILE_HEADER_SIGNATURE /\ h[2] = es[k].name
        /\ h[3] = es[k].extra /\ h[4] = es[k].comment
        /\ \A t \in 1..es[k].name : h[4 + t] = k
    BY <2>1, <2>4, HeaderIs DEF H, Finder!HEADER
  <2> HIDE DEF l, h
  <2>7. ASSUME NEW t \in 1..Len(h) PROVE f[b + l + t] = h[t]
    <3>0. Len(D) \in Nat /\ Len(h) \in Nat /\ t \in Nat /\ t <= Len(h) /\ l + Len(h) <= Len(D)
      BY <1>7, <2>2, <2>3, <2>5, <2>6
    <3>1. l + t \in 1..Len(D) /\ b + (l + t) = b + l + t
      BY <1>9, <2>2, <3>0
    <3>2. f[b + (l + t)] = D[l + t]
      BY <1>15, <3>1
    <3> QED BY <2>3, <3>1, <3>2
  <2>8. 1 \in 1..Len(h) /\ 2 \in 1..Len(h) /\ 3 \in 1..Len(h) /\ 4 \in 1..Len(h)
        /\ \A t \in 1..es[k].name : 4 + t \in 1..Len(h) /\ b + l + (4 + t) = b + l + 4 + t
    <3> DEFINE x == es[k].name
               y == es[k].extra
               w == es[k].comment
               v == Len(h)
    <3>1. x \in Nat /\ y \in Nat /\ w \in Nat /\ v = 4 + x + y + w
      BY <2>5, <2>6
    <3> HIDE DEF x, y, w, v
    <3>2. 1 \in 1..v /\ 2 \in 1..v /\ 3 \in 1..v /\ 4 \in 1..v /\ \A t \in 1..x : 4 + t \in 1..v
      BY <3>1
    <3>3. \A t \in 1..x : b + l + (4 + t) = b + l + 4 + t
      BY <1>9, <2>2, <3>1
    <3> QED BY <3>2, <3>3 DEF v, x
  <2>9. o[k] = o[k - 1] + Finder!HEADER + es[k].name + es[k].extra + es[k].comment /\ o[k] <= o[n]
    <3> DEFINE x == es[k].name
               y == es[k].extra
               w == es[k].comment
               v == Len(u[k])
               d == Len(D)
               q1 == o[k - 1]
               q2 == o[k]
               q3 == o[n]
    <3>1. /\ x \in Nat /\ y \in Nat /\ w \in Nat /\ v = l + (4 + x + y + w) /\ v <= d /\ d \in Nat
          /\ q1 = b + l /\ q2 = b + v /\ q3 = b + d /\ b \in Nat /\ l \in Nat
      BY <1>7, <1>9, <1>18, <2>2, <2>3, <2>5, <2>6 DEF z
    <3> HIDE DEF x, y, w, v, d, q1, q2, q3
    <3>2. q2 = q1 + 4 + x + y + w /\ q2 <= q3
      BY <3>1
    <3> QED BY <3>2 DEF q1, q2, q3, x, y, w, Finder!HEADER
  <2>10. /\ f[b + l + 1] = Finder!CDR_FILE_HEADER_SIGNATURE /\ f[b + l + 2] = es[k].name
         /\ f[b + l + 3] = es[k].extra /\ f[b + l + 4] = es[k].comment
    BY <2>6, <2>7, <2>8
  <2>11. \A t \in 1..es[k].name : f[b + l + Finder!HEADER + t] = k
    <3> TAKE t \in 1..es[k].name
    <3>1. f[b + l + (4 + t)] = h[4 + t]
      BY <2>7, <2>8
    <3> QED BY <2>6, <2>8, <3>1 DEF Finder!HEADER
  <2> QED BY <2>2, <2>9, <2>10, <2>11
<1>20. z = o[n] /\ f[z + 2] = z - o[0] /\ f[z + 2] # Finder!EOCDR_SIGNATURE /\ Len(f) = z + Finder!END + c
  BY <1>2, <1>7, <1>9, <1>14, <1>16, <1>18 DEF z, Finder!END
<1>21. Places(f, es, o, c)
  BY <1>0, <1>14, <1>16, <1>18, <1>19, <1>20 DEF Places, n
<1> QED BY <1>8, <1>21

(* The search and the walk *)

\* What has been found and listed of an archive whose places are o.
Found == IF Finder!At(0) = Finder!JPEG_SIGNATURE THEN {"JPEG", "ZIP"} ELSE {"ZIP"}
Listing(k) == [m \in 1..k |-> [j \in 1..entries[m].name |-> m]]
Walked(o) ==
  /\ pc = "search" => result = IF Finder!At(0) = Finder!JPEG_SIGNATURE THEN {"JPEG"} ELSE {}
  /\ pc = "list" => result = Found /\ \E k \in 0..Len(entries) : offset = o[k] /\ names = Listing(k)
  /\ pc = "ended" => result = {"ERR"} \/ (result = Found /\ names = Listing(Len(entries)))
Walk == entries # <<>> => Len(file) < Wrap /\ \E o, c : Places(file, entries, o, c) /\ Walked(o)
Held(x) == x \in Nat \/ x = Finder!Unset
Room ==
  /\ file \in Seq(Nat) /\ offset \in Nat /\ pc \in {"open", "search", "list", "ended"}
  /\ Held(held.name) /\ Held(held.extra) /\ Held(held.comment)
  /\ names \in Seq(Seq(Nat)) /\ Len(names) * Finder!HEADER <= offset
  /\ pc \in {"open", "search"} => names = <<>>
  /\ names # <<>> => held.sig = Finder!CDR_FILE_HEADER_SIGNATURE
  /\ Finder!EndsInFile

LEMMA CellsAre ==
  /\ Finder!Cells \subseteq Nat /\ Finder!CDR_FILE_HEADER_SIGNATURE # Finder!Unset
  /\ Finder!CDR_FILE_HEADER_SIGNATURE \in Nat
BY DEF Finder!Cells, Finder!CDR_FILE_HEADER_SIGNATURE, Finder!EOCDR_SIGNATURE, Finder!JPEG_SIGNATURE,
  Finder!Unset

\* What is read is a cell of the file, or one that was read before.
LEMMA ReadIs ==
  ASSUME file \in Seq(Nat), NEW p \in Nat, NEW old, Held(old)
  PROVE  /\ Finder!Read(p, old) \subseteq Nat
         /\ p < Len(file) => Finder!Read(p, old) = {file[p + 1]}
         /\ p >= Len(file) /\ old # Finder!Unset => Finder!Read(p, old) = {old}
<1>1. Len(file) \in Nat
  OBVIOUS
<1>2. CASE p < Len(file)
  <2>1. file[p + 1] \in Nat
    BY <1>1, <1>2
  <2> QED BY <1>1, <1>2, <2>1 DEF Finder!Read, Finder!At
<1>3. CASE p >= Len(file)
  <2>1. ~(p < Len(file))
    BY <1>1, <1>3
  <2>2. Finder!Read(p, old) = IF old = Finder!Unset THEN Finder!Cells ELSE {old}
    BY <2>1 DEF Finder!Read
  <2> QED BY <2>1, <2>2, CellsAre DEF Held
<1> QED BY <1>1, <1>2, <1>3

\* A read ends behind its cells, or where the file does.
LEMMA ReachedIs ==
  ASSUME file \in Seq(Nat), NEW p \in Nat, NEW n \in Nat
  PROVE  /\ Finder!Reached(p, n) \in Nat /\ Finder!Reached(p, n) >= p
         /\ Finder!Reached(p, n) = p \/ Finder!Reached(p, n) <= Len(file)
         /\ p + n <= Len(file) => Finder!Reached(p, n) = p + n
<1>1. Len(file) \in Nat
  OBVIOUS
<1> QED BY <1>1 DEF Finder!Reached

LEMMA InitZip ==
  ASSUME Finder!ZipAssumption, Finder!Init
  PROVE  Room /\ Walk
<1>1. offset = 0 /\ pc = "open" /\ names = <<>> /\ Held(held.name) /\ Held(held.extra) /\ Held(held.comment)
  BY DEF Finder!Init, Held
<1>2. CASE \E front \in Finder!Fronts, es \in Finder!EntryLists, c \in Lengths :
             entries = es /\ file = Finder!Archive(front, es, c)
  <2>1. PICK front \in Finder!Fronts, es \in Finder!EntryLists, c \in Lengths :
             entries = es /\ file = Finder!Archive(front, es, c)
    BY <1>2
  <2>2. \E o : Places(file, entries, o, c)
    BY <2>1, ArchivePlaces
  <2>3. file \in Seq(Nat)
    BY <2>2 DEF Places
  <2>4. Len(file) < Wrap
    BY <2>1 DEF Finder!ZipAssumption
  <2>5. Walk
    BY <1>1, <2>2, <2>4 DEF Walk, Walked
  <2> QED BY <1>1, <2>3, <2>5 DEF Room, Finder!HEADER, Finder!EndsInFile
<1>3. CASE entries = <<>> /\ file \in UNION {[1..n -> Finder!Cells] : n \in 0..MaxCells}
  <2>1. PICK n \in 0..MaxCells : file \in [1..n -> Finder!Cells]
    BY <1>3
  <2>2. Finder!Cells \subseteq Nat /\ n \in Nat
    BY DEF Finder!Cells, Finder!CDR_FILE_HEADER_SIGNATURE, Finder!EOCDR_SIGNATURE, Finder!JPEG_SIGNATURE,
      Finder!ZipAssumption
  <2>3. file \in Seq(Nat)
    <3>1. file \in [1..n -> Nat]
      BY <2>1, <2>2
    <3> QED BY <2>2, <3>1
  <2> QED BY <1>1, <1>3, <2>3 DEF Room, Finder!HEADER, Finder!EndsInFile, Walk
<1> QED BY <1>2, <1>3 DEF Finder!Init

\* The last record is the one behind the directory.
LEMMA RecordFound ==
  ASSUME Finder!ZipAssumption, NEW o, NEW c, Places(file, entries, o, c),
         NEW r \in Finder!Records, \A j \in Finder!Records \ {r} : Finder!Later(r, j)
  PROVE  r - Finder!At(r + Finder!END - 1) = o[0] /\ o[0] \in Nat /\ o[0] < Len(file)
<1> DEFINE e == o[Len(entries)]
<1>0. /\ e \in Nat /\ c \in Nat /\ c <= Window /\ Len(file) = e + 2 + c
           /\ file[e + 1] = Finder!EOCDR_SIGNATURE
      /\ file[e + 2] = e - o[0] /\ file[e + 2] # Finder!EOCDR_SIGNATURE
      /\ \A t \in (e + 3)..Len(file) : file[t] = 0
  <2>1. Len(entries) \in 0..Len(entries) /\ o \in [0..Len(entries) -> Nat]
    BY DEF Places
  <2> QED BY <2>1 DEF Places, Finder!END
<1>1. o[0] \in Nat
  BY DEF Places
<1> HIDE DEF e
<1>2. r \in 0..(Len(file) - 2) /\ file[r + 1] = Finder!EOCDR_SIGNATURE
  BY <1>0 DEF Finder!Records, Finder!At, Finder!END
<1>3. e \in Finder!Records
  <2>1. Window \in Nat
    BY DEF Finder!ZipAssumption
  <2>2. e >= Len(file) - (Window + 2)
    BY <1>0, <2>1
  <2> QED BY <1>0, <2>2 DEF Finder!Records, Finder!At, Finder!END
<1>4. r <= e
  <2>1. SUFFICES ASSUME r > e PROVE FALSE
    BY <1>0, <1>2
  <2>2. CASE r = e + 1
    <3>1. r + 1 = e + 2
      BY <1>0, <2>2
    <3> QED BY <1>0, <1>2, <3>1
  <2>3. CASE r # e + 1
    <3> DEFINE t == r + 1
    <3>1. t \in (e + 3)..Len(file)
      BY <1>0, <1>2, <2>1, <2>3
    <3> HIDE DEF t
    <3>2. file[t] = 0
      BY <1>0, <3>1
    <3> QED BY <1>2, <3>2 DEF t, Finder!EOCDR_SIGNATURE
  <2> QED BY <2>2, <2>3
<1>5. r = e
  <2>1. e # r => r > e
    BY <1>3 DEF Finder!Later
  <2> QED BY <1>0, <1>2, <1>4, <2>1
<1>6. e + Finder!END - 1 + 1 = e + 2 /\ e - (e - o[0]) = o[0]
  BY <1>0, <1>1 DEF Finder!END
<1>7. o[0] < Len(file)
  <2>1. 1 \in 1..Len(entries) /\ 1 - 1 = 0
    BY DEF Places
  <2>2. /\ Described(entries[1]) /\ o[1]
             = o[1 - 1] + 4 + entries[1].name + entries[1].extra + entries[1].comment
        /\ o[1] <= e
    BY <2>1 DEF Places, Finder!HEADER, e
  <2>3. o[1] >= o[0] /\ o[1] \in Nat
    BY <1>1, <2>1, <2>2 DEF Described
  <2> QED BY <1>0, <1>1, <2>2, <2>3
<1> QED BY <1>0, <1>1, <1>5, <1>6, <1>7 DEF Finder!At

LEMMA StepZip ==
  ASSUME Finder!ZipAssumption, Room, Walk, [Finder!Next]_Finder!vars
  PROVE  Room' /\ Walk'
<1>1. CASE Finder!OpenFails
  <2>1. Room'
    BY <1>1 DEF Finder!OpenFails, Room, Finder!EndsInFile
  <2>2. Walk'
    BY <1>1 DEF Finder!OpenFails, Walk, Walked, Finder!At, Found, Listing
  <2> QED BY <2>1, <2>2
<1>2. CASE Finder!Magic
  <2>1. Room'
    BY <1>2 DEF Finder!Magic, Room, Finder!EndsInFile
  <2>2. Walk'
    <3> SUFFICES ASSUME entries # <<>>
                 PROVE  \E o, c : Places(file', entries', o, c) /\ Walked(o)'
      BY <1>2 DEF Finder!Magic, Walk
    <3>1. PICK o, c : Places(file, entries, o, c) /\ Walked(o)
      BY DEF Walk
    <3>2. file # <<>>
      <4>1. Len(entries) \in 0..Len(entries) /\ o \in [0..Len(entries) -> Nat]
        BY <3>1 DEF Places
      <4>2. o[Len(entries)] \in Nat
        BY <4>1
      <4>3. Len(file) = o[Len(entries)] + 2 + c /\ c \in Nat
        BY <3>1 DEF Places, Finder!END
      <4> QED BY <4>2, <4>3
    <3>3. Walked(o)'
      BY <1>2, <3>1, <3>2 DEF Finder!Magic, Walked, Finder!At
    <3> QED BY <1>2, <3>1, <3>3 DEF Finder!Magic
  <2> QED BY <2>1, <2>2
<1>3. CASE Finder!Search
  <2>0. pc = "search" /\ UNCHANGED <<file, entries, held, names>>
    BY <1>3 DEF Finder!Search
  <2>1. CASE Finder!Records = {} /\ pc' = "ended" /\ UNCHANGED <<result, offset>>
    <3>1. Room'
      BY <2>0, <2>1 DEF Room, Finder!EndsInFile
    <3>2. Walk'
      <4> SUFFICES ASSUME entries # <<>> PROVE FALSE
        BY <2>0 DEF Walk
      <4>1. PICK o, c : Places(file, entries, o, c) /\ Walked(o)
        BY DEF Walk
      <4> DEFINE e == o[Len(entries)]
      <4>2. e \in Nat /\ c \in Nat /\ c <= Window /\ Len(file) = e + 2 + c
              /\ file[e + 1] = Finder!EOCDR_SIGNATURE
        <5>1. Len(entries) \in 0..Len(entries) /\ o \in [0..Len(entries) -> Nat]
          BY <4>1 DEF Places
        <5> QED BY <4>1, <5>1 DEF Places, Finder!END
      <4> HIDE DEF e
      <4>3. Window \in Nat
        BY DEF Finder!ZipAssumption
      <4>4. e \in Finder!Records
        BY <4>2, <4>3 DEF Finder!Records, Finder!At, Finder!END
      <4> QED BY <2>1, <4>4
    <3> QED BY <3>1, <3>2
  <2>2. CASE \E r \in Finder!Records :
               /\ \A j \in Finder!Records \ {r} : Finder!Later(r, j)
               /\ result' = result \cup {"ZIP"} /\ offset' = (r - Finder!At(r + Finder!END - 1)) % Wrap
                    /\ pc' = "list"
    <3>1. PICK r \in Finder!Records :
               /\ \A j \in Finder!Records \ {r} : Finder!Later(r, j)
               /\ result' = result \cup {"ZIP"} /\ offset' = (r - Finder!At(r + Finder!END - 1)) % Wrap
                    /\ pc' = "list"
      BY <2>2
    <3> DEFINE x == Finder!At(r + Finder!END - 1)
    <3>2. r \in Int /\ x \in Nat /\ (r - x) % Wrap \in Nat
      <4>1. r \in 0..(Len(file) - 2) /\ file \in Seq(Nat)
        BY DEF Finder!Records, Finder!END, Room
      <4>2. r + 2 \in 1..Len(file) /\ r + Finder!END - 1 + 1 = r + 2
        BY <4>1 DEF Finder!END
      <4>3. x = file[r + 2]
        BY <4>2 DEF Finder!At
      <4>4. x \in Nat
        BY <4>1, <4>2, <4>3
      <4> HIDE DEF x
      <4>5. r - x \in Int /\ Wrap \in Nat \ {0}
        BY <4>1, <4>4 DEF Finder!ZipAssumption
      <4> QED BY <4>1, <4>4, <4>5
    <3>3. Room'
      <4>1. names = <<>>
        BY <2>0 DEF Room
      <4>2. Len(names') = 0 /\ offset' \in Nat
        BY <2>0, <3>1, <3>2, <4>1
      <4> HIDE DEF x
      <4> QED BY <2>0, <3>1, <4>1, <4>2 DEF Room, Finder!HEADER, Finder!EndsInFile
    <3>4. Walk'
      <4> SUFFICES ASSUME entries # <<>>
                 PROVE  \E o, c : Places(file', entries', o, c) /\ Walked(o)'
        BY <2>0 DEF Walk
      <4>1. PICK o, c : Places(file, entries, o, c) /\ Walked(o)
        BY DEF Walk
      <4>2. (r - x) % Wrap = o[0]
        <5>1. r - x = o[0] /\ o[0] \in Nat /\ o[0] < Len(file)
          BY <3>1, <4>1, RecordFound
        <5>2. Len(file) < Wrap /\ Wrap \in Nat /\ Len(file) \in Nat
          BY <4>1 DEF Walk, Finder!ZipAssumption, Places
        <5> HIDE DEF x
        <5>3. o[0] % Wrap = o[0]
          BY <5>1, <5>2
        <5> QED BY <5>1, <5>3
      <4>3. result' = Found'
        BY <2>0, <3>1, <4>1 DEF Walked, Found, Finder!At
      <4>4. 0 \in 0..Len(entries) /\ names = Listing(0)
        <5>1. Len(entries) \in Nat
          BY <4>1 DEF Places
        <5>2. names = <<>> /\ Listing(0) = <<>>
          BY <2>0 DEF Room, Listing
        <5> QED BY <5>1, <5>2
      <4>5. Walked(o)'
        BY <2>0, <3>1, <4>2, <4>3, <4>4 DEF Walked, Listing
      <4> QED BY <2>0, <4>1, <4>5
    <3> QED BY <3>3, <3>4
  <2> QED BY <1>3, <2>1, <2>2 DEF Finder!Search
<1>4. CASE Finder!PrintFilename
  <2>1. /\ pc = "list" /\ Finder!CDR_FILE_HEADER_SIGNATURE \in Finder!Read(offset, held.sig)
        /\ UNCHANGED <<file, entries, pc, result>>
    BY <1>4 DEF Finder!PrintFilename
  <2>2. file \in Seq(Nat) /\ offset \in Nat /\ names \in Seq(Seq(Nat)) /\ Len(file) \in Nat
    BY DEF Room
  <2>3. PICK nm \in Finder!Read(offset + 1, held.name), ex \in Finder!Read(offset + 2, held.extra),
             cm \in Finder!Read(offset + 3, held.comment) :
               held' = [sig |-> Finder!CDR_FILE_HEADER_SIGNATURE, name |-> nm, extra |-> ex, comment |-> cm]
    BY <1>4 DEF Finder!PrintFilename
  <2>4. nm \in Nat /\ ex \in Nat /\ cm \in Nat
    <3>1. offset + 1 \in Nat /\ offset + 2 \in Nat /\ offset + 3 \in Nat
      BY <2>2
    <3> QED BY <2>2, <2>3, <3>1, ReadIs DEF Room
  <2> DEFINE reach == Finder!Reached(offset + Finder!HEADER, nm)
             text == SubSeq(file, offset + Finder!HEADER + 1, reach)
  <2>5. /\ names' = Append(names, text) /\ offset' = reach + ex + cm
        /\ held'.sig = Finder!CDR_FILE_HEADER_SIGNATURE /\ held'.name = nm /\ held'.extra = ex
        /\ held'.comment = cm
    BY <1>4, <2>3 DEF Finder!PrintFilename, Finder!NextHeader
  <2>6. /\ reach \in Nat /\ reach >= offset + 4 /\ (reach = offset + 4 \/ reach <= Len(file))
        /\ offset + 4 + nm <= Len(file) => reach = offset + 4 + nm
    <3>1. offset + 4 \in Nat
      BY <2>2
    <3> QED BY <2>2, <2>4, <3>1, ReachedIs DEF Finder!HEADER
  <2> HIDE DEF reach
  <2>7. /\ text \in Seq(Nat)
        /\ reach = offset + 4 + nm => /\ Len(text) = nm
                                    /\ \A t \in 1..nm : text[t] = file[offset + Finder!HEADER + t]
    <3> DEFINE m == offset + Finder!HEADER + 1
    <3>1. m \in Int /\ m = offset + 5 /\ reach \in Int
      BY <2>2, <2>6 DEF Finder!HEADER
    <3>2. \A t \in m..reach : file[t] \in Nat
      <4> TAKE t \in m..reach
      <4> HIDE DEF m
      <4>1. t \in 1..Len(file)
        BY <2>2, <2>6, <3>1
      <4> QED BY <2>2, <4>1
    <3> HIDE DEF m
    <3>3. /\ SubSeq(file, m, reach) \in Seq(Nat)
          /\ Len(SubSeq(file, m, reach)) = IF m <= reach THEN reach - m + 1 ELSE 0
          /\ \A t \in 1..(reach - m + 1) : SubSeq(file, m, reach)[t] = file[m + t - 1]
      BY <3>1, <3>2, SubSeqProperties
    <3>4. text = SubSeq(file, m, reach)
      BY DEF m
    <3> HIDE DEF text
    <3>5. ASSUME reach = offset + 4 + nm
          PROVE  Len(text) = nm /\ \A t \in 1..nm : text[t] = file[offset + Finder!HEADER + t]
      <4>1. Len(text) = nm /\ reach - m + 1 = nm
        <5>1. reach - m + 1 = nm /\ (m <= reach <=> nm > 0)
          <6>1. \A a, d \in Nat : a + 4 + d - (a + 5) + 1 = d /\ (a + 5 <= a + 4 + d <=> d > 0)
            OBVIOUS
          <6>2. offset \in Nat /\ nm \in Nat
            BY <2>2, <2>4
          <6> QED BY ONLY <3>1, <3>5, <6>1, <6>2
        <5> QED BY <2>4, <3>3, <3>4, <5>1
      <4>2. ASSUME NEW t \in 1..nm PROVE text[t] = file[offset + Finder!HEADER + t]
        <5>1. m + t - 1 = offset + Finder!HEADER + t
          BY <2>2, <2>4, <3>1 DEF Finder!HEADER
        <5> QED BY <3>3, <3>4, <4>1, <5>1
      <4> QED BY <4>1, <4>2
    <3> QED BY <3>3, <3>4, <3>5
  <2> HIDE DEF text
  <2>8. Room'
    <3>1. Len(names) \in Nat /\ Len(names) * 4 <= offset
      BY <2>2 DEF Room, Finder!HEADER
    <3>2. Append(names, text) \in Seq(Seq(Nat)) /\ Len(Append(names, text)) = Len(names) + 1
      BY <2>2, <2>7
    <3>3. (Len(names) + 1) * 4 <= offset' /\ offset' \in Nat
      <4>1. reach \in Nat /\ reach >= offset + 4 /\ offset' = reach + ex + cm
        BY <2>5, <2>6
      <4> QED BY <2>2, <2>4, <3>1, <4>1
    <3>4. Held(held.name)' /\ Held(held.extra)' /\ Held(held.comment)'
      BY <2>4, <2>5 DEF Held
    <3> QED BY <2>1, <2>2, <2>5, <3>2, <3>3, <3>4 DEF Room, Finder!HEADER, Finder!EndsInFile
  <2>9. Walk'
    <3> SUFFICES ASSUME entries # <<>>
                 PROVE  \E o, c : Places(file', entries', o, c) /\ Walked(o)'
      BY <2>1 DEF Walk
    <3>1. PICK o, c : Places(file, entries, o, c) /\ Walked(o)
      BY DEF Walk
    <3> DEFINE l == Len(entries)
    <3>2. PICK k \in 0..l : offset = o[k] /\ names = Listing(k)
      BY <2>1, <3>1 DEF Walked
    <3>3. l \in Nat /\ k # l
      <4>1. l \in Nat /\ l \in 0..l /\ o \in [0..l -> Nat] /\ c \in Nat /\ Len(file) = o[l] + 2 + c
              /\ file[o[l] + 1] = Finder!EOCDR_SIGNATURE
        BY <3>1 DEF Places, Finder!END
      <4> SUFFICES ASSUME k = l PROVE FALSE
        BY <4>1
      <4>2. offset < Len(file)
        BY <3>2, <4>1
      <4>3. file[offset + 1] = Finder!CDR_FILE_HEADER_SIGNATURE
        BY <2>1, <2>2, <4>2 DEF Finder!Read, Finder!At
      <4> QED BY <3>2, <4>1, <4>3 DEF Finder!EOCDR_SIGNATURE, Finder!CDR_FILE_HEADER_SIGNATURE
    <3> DEFINE s == k + 1
    <3>4. s \in 1..l /\ s - 1 = k /\ s \in 0..l
      BY <3>3
    <3> HIDE DEF s
    <3>5. /\ Described(entries[s])
          /\ o[s] = o[k] + Finder!HEADER + entries[s].name + entries[s].extra + entries[s].comment
          /\ file[o[k] + 2] = entries[s].name /\ file[o[k] + 3] = entries[s].extra
          /\ file[o[k] + 4] = entries[s].comment
          /\ \A t \in 1..entries[s].name : file[o[k] + Finder!HEADER + t] = s
      BY <3>1, <3>4 DEF Places
    <3>6. offset + 4 + entries[s].name <= Len(file) /\ offset + 4 <= Len(file)
      <4>1. l \in 0..l /\ o \in [0..l -> Nat] /\ c \in Nat /\ Len(file) = o[l] + 2 + c /\ o[s] <= o[l]
        BY <3>1, <3>3, <3>4 DEF Places, Finder!END
      <4> DEFINE x == entries[s].name
                 y == entries[s].extra
                 w == entries[s].comment
                 end == o[s]
                 last == o[l]
      <4>2. x \in Nat /\ y \in Nat /\ w \in Nat
        BY <3>5 DEF Described
      <4>3. end = offset + 4 + x + y + w
        BY <3>2, <3>5 DEF Finder!HEADER
      <4>4. last \in Nat /\ end <= last /\ Len(file) = last + 2 + c /\ c \in Nat
        BY <4>1
      <4> HIDE DEF x, y, w, end, last
      <4>5. offset + 4 + x <= Len(file) /\ offset + 4 <= Len(file)
        BY <2>2, <4>2, <4>3, <4>4
      <4> QED BY <4>5 DEF x
    <3>7. nm = entries[s].name /\ ex = entries[s].extra /\ cm = entries[s].comment
      <4>1. /\ offset + 1 < Len(file) /\ offset + 2 < Len(file) /\ offset + 3 < Len(file)
            /\ offset + 1 \in Nat /\ offset + 2 \in Nat /\ offset + 3 \in Nat
            /\ offset + 1 + 1 = offset + 2 /\ offset + 2 + 1 = offset + 3 /\ offset + 3 + 1 = offset + 4
        <5>1. offset + 4 <= Len(file)
          BY <3>6
        <5>2. offset \in Nat /\ Len(file) \in Nat
          BY <2>2
        <5>3. \A a, d \in Nat : a + 4 <= d =>
                /\ a + 1 < d /\ a + 2 < d /\ a + 3 < d
                /\ a + 1 \in Nat /\ a + 2 \in Nat /\ a + 3 \in Nat
                /\ a + 1 + 1 = a + 2 /\ a + 2 + 1 = a + 3 /\ a + 3 + 1 = a + 4
          OBVIOUS
        <5> QED BY ONLY <5>1, <5>2, <5>3
      <4>2. nm = file[offset + 2] /\ ex = file[offset + 3] /\ cm = file[offset + 4]
        BY <2>3, <4>1 DEF Finder!Read, Finder!At
      <4> QED BY <3>2, <3>5, <4>2
    <3>8. offset' = o[s] /\ reach = offset + 4 + nm
      <4>1. reach = offset + 4 + nm
        BY <2>6, <3>6, <3>7
      <4> QED BY <2>5, <3>2, <3>5, <3>7, <4>1 DEF Finder!HEADER
    <3>9. text = [j \in 1..entries[s].name |-> s]
      <4>1. DOMAIN text = 1..nm /\ text = [j \in DOMAIN text |-> text[j]]
        BY <2>7, <3>8
      <4>2. \A t \in 1..nm : text[t] = s
        BY <2>7, <3>2, <3>5, <3>7, <3>8
      <4> QED BY <3>7, <4>1, <4>2
    <3>10. Append(names, text) = Listing(s)
      <4>1. names \in Seq(Seq(Nat)) /\ text \in Seq(Nat) /\ names = Listing(k) /\ k \in Nat
        BY <2>2, <2>7, <3>2, <3>3
      <4>2. Len(names) = k /\ \A m \in 1..k : names[m] = [j \in 1..entries[m].name |-> m]
        <5>1. DOMAIN Listing(k) = 1..k /\ \A m \in 1..k : Listing(k)[m] = [j \in 1..entries[m].name |-> m]
          BY DEF Listing
        <5> QED BY <4>1, <5>1
      <4> DEFINE a == Append(names, text)
      <4>3. /\ DOMAIN a = 1..(k + 1) /\ a = [m \in 1..(k + 1) |-> a[m]]
            /\ a[k + 1] = text /\ \A m \in 1..k : a[m] = names[m]
        <5> DEFINE T == Seq(Nat)
        <5>1. names \in Seq(T) /\ text \in T /\ Len(names) = k /\ k \in Nat
          BY <4>1, <4>2
        <5> HIDE DEF T
        <5>2. /\ a \in Seq(T) /\ Len(a) = k + 1
              /\ a[k + 1] = text /\ \A m \in 1..k : a[m] = names[m]
          BY <5>1
        <5> HIDE DEF a
        <5>3. DOMAIN a = 1..(k + 1) /\ a = [m \in DOMAIN a |-> a[m]]
          BY <5>2
        <5> QED BY <5>2, <5>3
      <4> HIDE DEF a
      <4>4. s = k + 1
        BY <3>4
      <4>5. \A m \in 1..s : a[m] = [j \in 1..entries[m].name |-> m]
        <5> TAKE m \in 1..s
        <5>1. CASE m = s
          BY <3>9, <4>3, <4>4, <5>1
        <5>2. CASE m # s
          <6>1. m \in 1..k
            BY <4>1, <4>4, <5>2
          <6> QED BY <4>2, <4>3, <6>1
        <5> QED BY <5>1, <5>2
      <4>6. a = [m \in 1..s |-> a[m]]
        BY <4>3, <4>4
      <4> QED BY <4>5, <4>6 DEF Listing, a
    <3>11. Walked(o)'
      <4>1. result' = Found'
        BY <2>1, <3>1 DEF Walked, Found, Finder!At
      <4>2. names' = Listing(s)'
        BY <2>1, <2>5, <3>10 DEF Listing
      <4> QED BY <2>1, <3>4, <3>8, <4>1, <4>2 DEF Walked
    <3> QED BY <2>1, <3>1, <3>11
  <2> QED BY <2>8, <2>9
<1>5. CASE Finder!NoHeader
  <2>1. /\ pc = "list" /\ pc' = "ended" /\ UNCHANGED <<file, entries, result, offset, held, names>>
    BY <1>5 DEF Finder!NoHeader
  <2>2. PICK found \in Finder!Read(offset, held.sig) : found # Finder!CDR_FILE_HEADER_SIGNATURE
    BY <1>5 DEF Finder!NoHeader
  <2>3. file \in Seq(Nat) /\ offset \in Nat /\ Len(file) \in Nat
    BY DEF Room
  <2>4. offset < Len(file) => Finder!At(offset) # Finder!CDR_FILE_HEADER_SIGNATURE
    BY <2>2 DEF Finder!Read
  <2>5. Room'
    <3>1. names # <<>> => offset < Len(file)
      <4> SUFFICES ASSUME names # <<>>, ~(offset < Len(file)) PROVE FALSE
        OBVIOUS
      <4>1. held.sig = Finder!CDR_FILE_HEADER_SIGNATURE /\ held.sig # Finder!Unset
        BY CellsAre DEF Room
      <4>2. found = held.sig
        BY <2>2, <4>1 DEF Finder!Read
      <4> QED BY <2>2, <4>1, <4>2
    <3>2. Finder!EndsInFile'
      BY <2>1, <2>4, <3>1 DEF Finder!EndsInFile, Finder!At
    <3> QED BY <2>1, <3>2 DEF Room, Held
  <2>6. Walk'
    <3> SUFFICES ASSUME entries # <<>>
                 PROVE  \E o, c : Places(file', entries', o, c) /\ Walked(o)'
      BY <2>1 DEF Walk
    <3>1. PICK o, c : Places(file, entries, o, c) /\ Walked(o)
      BY DEF Walk
    <3>2. PICK k \in 0..Len(entries) : offset = o[k] /\ names = Listing(k)
      BY <2>1, <3>1 DEF Walked
    <3>3. k = Len(entries)
      <4>1. SUFFICES ASSUME k # Len(entries) PROVE FALSE
        OBVIOUS
      <4> DEFINE s == k + 1
      <4>2. s \in 1..Len(entries) /\ s - 1 = k
        BY <3>1, <4>1 DEF Places
      <4> HIDE DEF s
      <4>3. file[o[k] + 1] = Finder!CDR_FILE_HEADER_SIGNATURE
        BY <3>1, <4>2 DEF Places
      <4>4. offset < Len(file)
        <5>1. Len(entries) \in 0..Len(entries) /\ o \in [0..Len(entries) -> Nat] /\ c \in Nat
                /\ Len(file) = o[Len(entries)] + 2 + c /\ o[s] <= o[Len(entries)] /\ s \in 0..Len(entries)
          BY <3>1, <4>2 DEF Places, Finder!END
        <5> DEFINE x == entries[s].name
                   y == entries[s].extra
                   w == entries[s].comment
                   end == o[s]
                   last == o[Len(entries)]
        <5>2. x \in Nat /\ y \in Nat /\ w \in Nat /\ end = o[k] + 4 + x + y + w
          BY <3>1, <4>2 DEF Places, Finder!HEADER, Described
        <5>3. last \in Nat /\ end <= last /\ Len(file) = last + 2 + c /\ c \in Nat
          BY <5>1
        <5> HIDE DEF x, y, w, end, last
        <5>4. end = offset + 4 + x + y + w
          BY <3>2, <5>2
        <5> QED BY <2>3, <5>2, <5>3, <5>4
      <4> QED BY <2>4, <3>2, <4>3, <4>4 DEF Finder!At
    <3>4. Walked(o)'
      BY <2>1, <3>1, <3>2, <3>3 DEF Walked, Found, Listing, Finder!At
    <3> QED BY <2>1, <3>1, <3>4
  <2> QED BY <2>5, <2>6
<1>6. CASE UNCHANGED Finder!vars
  <2>1. Room'
    BY <1>6 DEF Finder!vars, Room, Held, Finder!EndsInFile, Finder!At
  <2>2. Walk'
    BY <1>6 DEF Finder!vars, Walk, Walked, Found, Listing, Finder!At
  <2> QED BY <2>1, <2>2
<1> QED BY <1>1, <1>2, <1>3, <1>4, <1>5, <1>6 DEF Finder!Next

\* An archive is recognised and all its names are listed, in order.  Whatever
\* the file and the stack hold, every name takes a header's place, and a list
\* that ends ends inside the file, at what is no header: one that has passed
\* the end never ends (lines 34-56 and 85-110).
THEOREM ListedCorrect ==
  Finder!ZipAssumption /\ Finder!Spec => [](Finder!Listed /\ Finder!WalkAdvances /\ Finder!EndsInFile)
<1> SUFFICES ASSUME Finder!ZipAssumption
             PROVE  Finder!Spec => [](Finder!Listed /\ Finder!WalkAdvances /\ Finder!EndsInFile)
  OBVIOUS
<1>1. Finder!Init => Room /\ Walk
  BY InitZip
<1>2. (Room /\ Walk) /\ [Finder!Next]_Finder!vars => (Room /\ Walk)'
  BY StepZip
<1>3. Room /\ Walk => Finder!Listed /\ Finder!WalkAdvances /\ Finder!EndsInFile
  <2> SUFFICES ASSUME Room, Walk PROVE Finder!Listed /\ Finder!WalkAdvances /\ Finder!EndsInFile
    OBVIOUS
  <2>1. Finder!Listed
    <3> SUFFICES ASSUME entries # <<>>, pc = "ended", result # {"ERR"}
                 PROVE  result = Found /\ names = Listing(Len(entries))
      BY DEF Finder!Listed, Found, Listing
    <3> QED BY DEF Walk, Walked
  <2> QED BY <2>1 DEF Room, Finder!WalkAdvances
<1> QED BY <1>1, <1>2, <1>3, PTL DEF Finder!Spec

-----------------------------------------------------------------------------
(* Crc32: any width and polynomial, any file, pages and chunks.             *)

\* Quotient and remainder.
LEMMA QuotientIs ==
  ASSUME NEW p \in Nat \ {0}, NEW q \in Nat, NEW r \in 0..(p - 1), NEW x, x = p * q + r
  PROVE  x \div p = q /\ x % p = r
OBVIOUS

LEMMA Halves ==
  ASSUME NEW x \in Nat, NEW p \in Nat \ {0}
  PROVE  (x \div p) \div 2 = x \div (2 * p) /\ (x \div 2) \div p = x \div (2 * p) /\ x \div p \in Nat
<1>1. (x \div p) \div 2 = x \div (2 * p)
  OBVIOUS
<1>2. x \div p \in Nat
  OBVIOUS
<1>3. (x \div 2) \div p = x \div (2 * p)
  OBVIOUS
<1> QED BY <1>1, <1>2, <1>3

\* The powers of two, up to the one above a checksum.
LEMMA Powers ==
  ASSUME Checksum!ChecksumAssumption
  PROVE  /\ 2^0 = 1 /\ Width \in Nat \ {0} /\ CharBits \in Nat \ {0}
         /\ \A k \in 0..Width : 2^k \in Nat \ {0} /\ 2^(k + 1) = 2 * 2^k
BY DEF Checksum!ChecksumAssumption

LEMMA BitIs ==
  ASSUME Checksum!ChecksumAssumption, NEW x \in Nat, NEW k \in 0..Width
  PROVE  /\ Checksum!BitOf(x, k) \in {0, 1} /\ Checksum!BitOf(x \div 2, k) = Checksum!BitOf(x, k + 1)
         /\ x \div 2^k = 2 * (x \div 2^(k + 1)) + Checksum!BitOf(x, k)
<1> DEFINE p == 2^k
<1>1. p \in Nat \ {0} /\ 2^(k + 1) = 2 * p
  BY Powers
<1> HIDE DEF p
<1>2. (x \div p) \div 2 = x \div (2 * p) /\ (x \div 2) \div p = x \div (2 * p) /\ x \div p \in Nat
  BY <1>1, Halves
<1> DEFINE y == x \div p
<1>3. y % 2 \in {0, 1} /\ y = 2 * (y \div 2) + (y % 2)
  <2> HIDE DEF y
  <2>1. y \in Nat
    BY <1>2 DEF y
  <2> QED BY <2>1
<1> QED BY <1>1, <1>2, <1>3 DEF Checksum!BitOf, p

\* All bits of a checksum of ones are set.
LEMMA OnesBits ==
  ASSUME Checksum!ChecksumAssumption
  PROVE  Checksum!Ones \in Nat /\ \A k \in 0..(Width - 1) : Checksum!BitOf(Checksum!Ones, k) = 1
<1> DEFINE Bad == {k \in 0..(Width - 1) : \E j \in (k + 1)..Width : Checksum!BitOf(2^j - 1, k) # 1}
<1>0. Width \in Nat \ {0} /\ \A k \in 0..Width : 2^k \in Nat \ {0}
  BY Powers
<1>1. SUFFICES Bad = {}
  <2>1. Checksum!Ones = 2^Width - 1 /\ Checksum!Ones \in Nat
    BY <1>0 DEF Checksum!Ones
  <2>2. ASSUME NEW k \in 0..(Width - 1) PROVE Checksum!BitOf(Checksum!Ones, k) = 1
    <3>1. k \notin Bad
      BY <1>1
    <3>2. Width \in (k + 1)..Width
      BY <1>0
    <3> QED BY <2>1, <3>1, <3>2
  <2> QED BY <2>1, <2>2
<1>2. SUFFICES ASSUME Bad # {} PROVE FALSE
  OBVIOUS
<1>3. PICK k \in Bad : \A m \in Bad : k <= m
  <2>1. Bad \in SUBSET Nat
    BY <1>0
  <2> HIDE DEF Bad
  <2> QED BY <1>2, <2>1, Least
<1>4. PICK j \in (k + 1)..Width : Checksum!BitOf(2^j - 1, k) # 1
  BY <1>3
<1>5. k \in 0..(Width - 1) /\ j - 1 \in 0..Width /\ j \in 1..Width
  BY <1>0, <1>3, <1>4
<1> DEFINE p == 2^(j - 1)
<1>6. p \in Nat \ {0} /\ 2^j = 2 * p
  <2>1. 2^((j - 1) + 1) = 2 * 2^(j - 1) /\ (j - 1) + 1 = j
    BY <1>5, Powers
  <2> QED BY <1>0, <1>5, <2>1
<1> HIDE DEF p
<1>7. 2^j - 1 \in Nat /\ (2^j - 1) % 2 = 1 /\ (2^j - 1) \div 2 = p - 1
  BY <1>6
<1>8. CASE k = 0
  <2>1. 2^k = 1
    BY <1>8, Powers
  <2>2. (2^j - 1) \div 1 = 2^j - 1
    BY <1>7
  <2> QED BY <1>4, <1>7, <2>1, <2>2 DEF Checksum!BitOf
<1>9. CASE k # 0
  <2>1. k - 1 \in 0..Width /\ k - 1 \in 0..(Width - 1) /\ ~(k <= k - 1) /\ (k - 1) + 1 = k
          /\ j - 1 \in k..Width
    BY <1>0, <1>4, <1>5, <1>9
  <2>2. Checksum!BitOf(2^(j - 1) - 1, k - 1) = 1
    BY <1>3, <2>1
  <2>3. Checksum!BitOf((2^j - 1) \div 2, k - 1) = Checksum!BitOf(2^j - 1, k)
    BY <1>7, <2>1, BitIs
  <2> QED BY <1>4, <1>7, <2>2, <2>3 DEF p
<1> QED BY <1>8, <1>9

\* One turn of the loop, bit by bit.
LEMMA TurnIs ==
  ASSUME Checksum!ChecksumAssumption, NEW c \in 0..Checksum!Ones, NEW bit \in {0, 1}
  PROVE  /\ Checksum!Bit(c, bit) \in 0..Checksum!Ones
         /\ \A k \in 0..(Width - 1) :
              Checksum!BitOf(Checksum!Bit(c, bit), k)
                = ((IF k < Width - 1 THEN Checksum!BitOf(c, k + 1) ELSE 0)
                                       + (IF Checksum!BitOf(c, 0) # bit THEN Checksum!BitOf(Poly, k)
                                         ELSE 0)) % 2
<1>0. Width \in Nat \ {0} /\ Checksum!Ones \in Nat
  BY Powers, OnesBits
<1>1. Poly \in 0..Checksum!Ones /\ c \div 2 \in 0..Checksum!Ones /\ c \in Nat
  <2>1. Poly \in 0..Checksum!Ones
    <3>1. 2^(Width - 1) \in Nat
      BY <1>0, Powers
    <3> QED BY <1>0, <3>1 DEF Checksum!ChecksumAssumption
  <2>2. c \div 2 \in 0..Checksum!Ones
    BY <1>0
  <2> QED BY <1>0, <2>1, <2>2
<1>2. c % 2 = Checksum!BitOf(c, 0)
  <2>1. c \div 1 = c
    BY <1>1
  <2> QED BY <2>1, Powers DEF Checksum!BitOf
<1>3. \A k \in 0..(Width - 1) : Checksum!BitOf(c \div 2, k) = IF k < Width - 1 THEN Checksum!BitOf(c, k + 1)
        ELSE 0
  <2> TAKE k \in 0..(Width - 1)
  <2>1. Checksum!BitOf(c \div 2, k) = Checksum!BitOf(c, k + 1)
    BY <1>0, <1>1, BitIs
  <2>2. Checksum!BitOf(c \div 2, Width - 1) = 0
    <3> DEFINE p == 2^(Width - 1)
    <3>1. p \in Nat \ {0} /\ Checksum!Ones = 2 * p - 1
      <4>1. Width - 1 \in 0..Width /\ (Width - 1) + 1 = Width
        BY <1>0
      <4> QED BY <4>1, Powers DEF Checksum!Ones
    <3> HIDE DEF p
    <3>2. c \div 2 \in 0..(p - 1)
      BY <3>1
    <3>3. (c \div 2) \div p = 0
      <4> DEFINE y == c \div 2
      <4>1. y \in 0..(p - 1)
        BY <3>2
      <4> HIDE DEF y
      <4>2. y = p * 0 + y
        BY <3>1, <4>1
      <4>3. y \div p = 0
        BY <3>1, <4>1, <4>2, QuotientIs
      <4> QED BY <4>3 DEF y
    <3> QED BY <3>3 DEF Checksum!BitOf, p
  <2> QED BY <1>0, <2>1, <2>2
<1>4. \A k \in 0..(Width - 1) : Checksum!BitOf(c \div 2, k) \in {0, 1} /\ Checksum!BitOf(Poly, k) \in {0, 1}
  BY <1>0, <1>1, BitIs
<1>5. CASE c % 2 = bit
  <2>1. Checksum!Bit(c, bit) = c \div 2 /\ Checksum!BitOf(c, 0) = bit
    BY <1>2, <1>5 DEF Checksum!Bit
  <2>2. \A x \in {0, 1} : (x + 0) % 2 = x
    OBVIOUS
  <2> QED BY <1>1, <1>3, <1>4, <2>1, <2>2
<1>6. CASE c % 2 # bit
  <2>1. Checksum!Bit(c, bit) = BitXor(c \div 2, Poly) /\ Checksum!BitOf(c, 0) # bit
    BY <1>2, <1>6 DEF Checksum!Bit
  <2>2. /\ BitXor(c \div 2, Poly) \in 0..Checksum!Ones
        /\ \A k \in 0..(Width - 1) :
             Checksum!BitOf(BitXor(c \div 2, Poly), k)
               = (Checksum!BitOf(c \div 2, k) + Checksum!BitOf(Poly, k)) % 2
    BY <1>1 DEF Checksum!ChecksumAssumption
  <2> QED BY <1>3, <2>1, <2>2
<1> QED BY <1>5, <1>6

(* The register and the message *)

\* The register after each bit of a text's message, the first of them Ones.
Register(s) ==
  CHOOSE f \in [0..(Len(s) * CharBits) -> 0..Checksum!Ones] :
    f[0] = Checksum!Ones /\ \A j \in 1..(Len(s) * CharBits) : f[j]
      = Checksum!Bit(f[j - 1], Checksum!Message(s)[j])

\* A bit's place in a text.
LEMMA PlaceIs ==
  ASSUME NEW w \in Nat \ {0}, NEW n \in Nat, NEW b \in 0..(n - 1), NEW j \in 0..(w - 1)
  PROVE  b * w + j + 1 \in 1..(n * w) /\ (b * w + j) \div w = b /\ (b * w + j) % w = j
<1>1. (b * w + j) \div w = b /\ (b * w + j) % w = j
  <2>1. b * w + j = w * b + j
    OBVIOUS
  <2> QED BY <2>1, QuotientIs
<1>2. b * w \in Nat /\ n * w \in Nat /\ (b + 1) * w = b * w + w
  OBVIOUS
<1>3. (b + 1) * w <= n * w
  <2> DEFINE d == n - (b + 1)
  <2>1. d \in Nat /\ n = (b + 1) + d
    OBVIOUS
  <2> HIDE DEF d
  <2>2. d * w >= 0 /\ ((b + 1) + d) * w = (b + 1) * w + d * w
    BY <2>1
  <2> QED BY <2>1, <2>2
<1> QED BY <1>1, <1>2, <1>3

\* Every place is a bit of some byte.
LEMMA PlaceOf ==
  ASSUME NEW w \in Nat \ {0}, NEW n \in Nat, NEW k \in 1..(n * w)
  PROVE  (k - 1) \div w \in 0..(n - 1) /\ (k - 1) % w \in 0..(w - 1)
<1>1. (k - 1) \div w \in Nat /\ (k - 1) % w \in 0..(w - 1)
  OBVIOUS
<1>2. k - 1 = w * ((k - 1) \div w) + ((k - 1) % w)
  <2> DEFINE x == k - 1
  <2>1. x \in Nat
    OBVIOUS
  <2> HIDE DEF x
  <2>2. x = w * (x \div w) + (x % w)
    BY <2>1
  <2> QED BY <2>2 DEF x
<1> DEFINE q == (k - 1) \div w
           r == (k - 1) % w
<1> HIDE DEF q, r
<1>3. ~(q >= n)
  <2>1. SUFFICES ASSUME q >= n PROVE FALSE
    OBVIOUS
  <2> DEFINE d == q - n
  <2>2. d \in Nat /\ q = n + d
    BY <1>1, <2>1 DEF q
  <2> HIDE DEF d
  <2>3. w * (n + d) = n * w + w * d /\ w * d >= 0 /\ n * w \in Nat
    BY <2>2
  <2>4. k - 1 = w * q + r /\ r \in 0..(w - 1)
    BY <1>1, <1>2 DEF q, r
  <2> QED BY <2>2, <2>3, <2>4
<1> QED BY <1>1, <1>3 DEF q

LEMMA MessageIs ==
  ASSUME Checksum!ChecksumAssumption, NEW s \in Seq(Checksum!Bytes)
  PROVE  LET n == Len(s) * CharBits IN
         /\ n \in Nat /\ Checksum!Message(s) \in [1..(n + Width) -> {0, 1}]
         /\ \A b \in 0..(Len(s) - 1), j \in 0..(CharBits - 1) :
              /\ b * CharBits + j + 1 \in 1..n /\ Checksum!BitOf(s[b + 1], j) \in {0, 1}
              /\ Checksum!Message(s)[b * CharBits + j + 1] = Checksum!BitOf(s[b + 1], j)
         /\ \A k \in 1..Width : Checksum!Message(s)[n + k] = 0
<1> DEFINE l == Len(s)
           n == l * CharBits
           m == Checksum!Message(s)
<1>0. Width \in Nat \ {0} /\ CharBits \in Nat \ {0} /\ l \in Nat
  BY Powers
<1>1. n \in Nat
  BY <1>0
<1>2. \A b \in 0..(l - 1), j \in 0..(CharBits - 1) : Checksum!BitOf(s[b + 1], j) \in {0, 1}
  <2> TAKE b \in 0..(l - 1), j \in 0..(CharBits - 1)
  <2>1. s[b + 1] \in Nat
    <3>1. s[b + 1] \in Checksum!Bytes
      BY <1>0
    <3>2. 2^CharBits \in Nat
      <4>1. CharBits \in 0..(Width + CharBits)
        BY <1>0
      <4> QED BY <4>1 DEF Checksum!ChecksumAssumption
    <3> QED BY <3>1, <3>2 DEF Checksum!Bytes
  <2>2. 2^j \in Nat \ {0}
    <3>1. j \in 0..(Width + CharBits)
      BY <1>0
    <3> QED BY <3>1 DEF Checksum!ChecksumAssumption
  <2> DEFINE x == s[b + 1]
             p == 2^j
  <2>3. (x \div p) % 2 \in {0, 1}
    <3> HIDE DEF x, p
    <3>1. x \in Nat /\ p \in Nat \ {0}
      BY <2>1, <2>2 DEF x, p
    <3>2. x \div p \in Nat
      BY <3>1
    <3> QED BY <3>2
  <2> QED BY <2>3 DEF Checksum!BitOf
<1>3. m = [k \in 1..(n + Width) |-> IF k <= n
        THEN Checksum!BitOf(s[(k - 1) \div CharBits + 1], (k - 1) % CharBits) ELSE 0]
  BY DEF Checksum!Message
<1>4. \A k \in 1..n : (k - 1) \div CharBits \in 0..(l - 1) /\ (k - 1) % CharBits \in 0..(CharBits - 1)
  BY <1>0, PlaceOf
<1> HIDE DEF m, n
<1>5. m \in [1..(n + Width) -> {0, 1}]
  <2>1. \A k \in 1..n : Checksum!BitOf(s[(k - 1) \div CharBits + 1], (k - 1) % CharBits) \in {0, 1}
    BY <1>2, <1>4
  <2>2. \A k \in 1..(n + Width) : k <= n => k \in 1..n
    BY <1>0, <1>1
  <2> QED BY <1>3, <2>1, <2>2
<1>6. ASSUME NEW b \in 0..(l - 1), NEW j \in 0..(CharBits - 1)
      PROVE b * CharBits + j + 1 \in 1..n /\ m[b * CharBits + j + 1] = Checksum!BitOf(s[b + 1], j)
  <2> DEFINE k == b * CharBits + j + 1
  <2>1. k \in 1..n /\ (b * CharBits + j) \div CharBits = b /\ (b * CharBits + j) % CharBits = j
    BY <1>0, PlaceIs DEF n
  <2>2. k - 1 = b * CharBits + j
    BY <1>0
  <2>3. k \in 1..(n + Width) /\ k <= n
    <3> HIDE DEF k
    <3> QED BY <1>0, <1>1, <2>1
  <2> HIDE DEF k
  <2>4. m[k] = Checksum!BitOf(s[(k - 1) \div CharBits + 1], (k - 1) % CharBits)
    BY <1>3, <2>3
  <2>5. m[k] = Checksum!BitOf(s[b + 1], j)
    BY <2>1, <2>2, <2>4
  <2> QED BY <2>1, <2>5 DEF k
<1>7. \A k \in 1..Width : m[n + k] = 0
  <2> TAKE k \in 1..Width
  <2>1. n + k \in 1..(n + Width) /\ ~(n + k <= n)
    BY <1>0, <1>1
  <2> QED BY <1>3, <2>1
<1> QED BY <1>1, <1>2, <1>5, <1>6, <1>7 DEF l, m, n

LEMMA RegisterIs ==
  ASSUME Checksum!ChecksumAssumption, NEW s \in Seq(Checksum!Bytes)
  PROVE  LET n == Len(s) * CharBits IN
         /\ Register(s) \in [0..n -> 0..Checksum!Ones] /\ Register(s)[0] = Checksum!Ones
         /\ \A j \in 1..n : Register(s)[j] = Checksum!Bit(Register(s)[j - 1], Checksum!Message(s)[j])
<1> DEFINE n == Len(s) * CharBits
           V == 0..Checksum!Ones
           m == Checksum!Message(s)
           g == [p \in V \X (1..n) |-> Checksum!Bit(p[1], m[p[2]])]
<1>0. n \in Nat /\ Width \in Nat \ {0} /\ m \in [1..(n + Width) -> {0, 1}] /\ Checksum!Ones \in V
  <2>1. Checksum!Ones \in V
    BY OnesBits
  <2> QED BY <2>1, MessageIs, Powers
<1> HIDE DEF m, n
<1>1. \A p \in V \X (1..n) : Checksum!Bit(p[1], m[p[2]]) \in V
  <2> TAKE p \in V \X (1..n)
  <2>1. p[1] \in V /\ p[2] \in 1..(n + Width)
    BY <1>0
  <2>2. m[p[2]] \in {0, 1}
    BY <1>0, <2>1
  <2> QED BY <2>1, <2>2, TurnIs
<1>2. g \in [V \X (1..n) -> V]
  BY <1>1
<1>3. PICK f : Table(f, n, V, Checksum!Ones, g)
  <2>1. n \in Nat /\ Checksum!Ones \in V /\ g \in Steps(n, V)
    BY <1>0, <1>2 DEF Steps
  <2> HIDE DEF g, V
  <2> QED BY <2>1, Recursion
<1>4. \A j \in 1..n : f[j] = Checksum!Bit(f[j - 1], m[j])
  <2> TAKE j \in 1..n
  <2>1. f[j - 1] \in V
    <3>1. f \in [0..n -> V] /\ j - 1 \in 0..n
      BY <1>0, <1>3 DEF Table
    <3> HIDE DEF V
    <3> QED BY <3>1
  <2>2. <<f[j - 1], j>> \in V \X (1..n)
    BY <2>1
  <2>3. g[<<f[j - 1], j>>] = Checksum!Bit(f[j - 1], m[j])
    BY <2>2
  <2> QED BY <1>3, <2>3 DEF Table
<1>5. \E h \in [0..n -> V] : h[0] = Checksum!Ones /\ \A j \in 1..n : h[j] = Checksum!Bit(h[j - 1], m[j])
  BY <1>3, <1>4 DEF Table
<1> QED BY <1>5 DEF Register, m, n

\* What a char does to the checksum, turn by turn.
CharTurns(f, c, ch) ==
  /\ f \in [0..CharBits -> 0..Checksum!Ones] /\ Checksum!Crc32Bitwise(c, ch) = f[CharBits] /\ f[0] = c
  /\ \A j \in 1..CharBits : f[j] = Checksum!Bit(f[j - 1], Checksum!BitOf(ch, j - 1))

LEMMA CharIs ==
  ASSUME Checksum!ChecksumAssumption, NEW c \in 0..Checksum!Ones,
         NEW ch, \A j \in 0..(CharBits - 1) : Checksum!BitOf(ch, j) \in {0, 1}
  PROVE  \E f : CharTurns(f, c, ch)
<1> DEFINE V == 0..Checksum!Ones
           g == [p \in V \X (1..CharBits) |-> Checksum!Bit(p[1], Checksum!BitOf(ch, p[2] - 1))]
           Turns(f) == f = [j \in 0..CharBits |-> IF j = 0 THEN c
             ELSE Checksum!Bit(f[j - 1], Checksum!BitOf(ch, j - 1))]
           turn == CHOOSE f : Turns(f)
<1>0. CharBits \in Nat \ {0}
  BY Powers
<1>1. \A x \in V, j \in 1..CharBits : Checksum!Bit(x, Checksum!BitOf(ch, j - 1)) \in V
  <2> TAKE x \in V, j \in 1..CharBits
  <2>1. j - 1 \in 0..(CharBits - 1)
    BY <1>0
  <2> QED BY <2>1, TurnIs
<1>2. PICK f : Table(f, CharBits, V, c, g)
  <2>1. g \in Steps(CharBits, V)
    BY <1>1 DEF Steps
  <2>2. CharBits \in Nat /\ c \in V
    BY <1>0
  <2> HIDE DEF g, V
  <2> QED BY <2>1, <2>2, Recursion
<1>3. Turns(f)
  <2>1. f \in [0..CharBits -> V] /\ f[0] = c /\ \A j \in 1..CharBits : f[j] = g[<<f[j - 1], j>>]
    BY <1>2 DEF Table
  <2>2. ASSUME NEW j \in 1..CharBits PROVE f[j] = Checksum!Bit(f[j - 1], Checksum!BitOf(ch, j - 1))
    <3>1. j - 1 \in 0..CharBits
      BY <1>0
    <3>2. f[j - 1] \in V
      <4> HIDE DEF V
      <4> QED BY <2>1, <3>1
    <3>3. <<f[j - 1], j>> \in V \X (1..CharBits)
      BY <3>2
    <3> QED BY <2>1, <3>3
  <2>3. \A j \in 0..CharBits : f[j] = IF j = 0 THEN c ELSE Checksum!Bit(f[j - 1], Checksum!BitOf(ch, j - 1))
    BY <1>0, <2>1, <2>2
  <2> HIDE DEF V, g
  <2> QED BY <2>1, <2>3
<1>4. Turns(turn)
  <2> HIDE DEF Turns
  <2> QED BY <1>3
<1>5. Checksum!Crc32Bitwise(c, ch) = turn[CharBits]
  BY DEF Checksum!Crc32Bitwise
<1> HIDE DEF turn
<1>6. turn[0] = c /\ \A j \in 1..CharBits : turn[j] = Checksum!Bit(turn[j - 1], Checksum!BitOf(ch, j - 1))
  <2>1. \A j \in 0..CharBits : turn[j] = IF j = 0 THEN c
          ELSE Checksum!Bit(turn[j - 1], Checksum!BitOf(ch, j - 1))
    BY <1>4
  <2>2. 0 \in 0..CharBits /\ \A j \in 1..CharBits : j \in 0..CharBits /\ j # 0
    BY <1>0
  <2> QED BY <2>1, <2>2
<1>7. \A j \in 0..CharBits : turn[j] \in V
  <2> DEFINE Bad == {j \in 0..CharBits : turn[j] \notin V}
  <2>1. SUFFICES Bad = {}
    OBVIOUS
  <2>2. SUFFICES ASSUME Bad # {} PROVE FALSE
    OBVIOUS
  <2>3. PICK j \in Bad : \A k \in Bad : j <= k
    <3>1. Bad \in SUBSET Nat
      OBVIOUS
    <3> HIDE DEF Bad
    <3> QED BY <2>2, <3>1, Least
  <2>4. j \in 1..CharBits
    <3>1. j \in 0..CharBits /\ turn[j] \notin V
      BY <2>3
    <3>2. turn[0] \in V
      BY <1>6
    <3> HIDE DEF V
    <3> QED BY <1>0, <3>1, <3>2
  <2>5. j - 1 \in 0..CharBits /\ ~(j <= j - 1)
    BY <1>0, <2>4
  <2>6. turn[j - 1] \in V
    BY <2>3, <2>5
  <2>7. turn[j] \in V
    BY <1>1, <1>6, <2>4, <2>6
  <2> QED BY <2>3, <2>7
<1>8. turn \in [0..CharBits -> V]
  <2>1. turn = [j \in 0..CharBits |-> turn[j]]
    BY <1>4
  <2> HIDE DEF V
  <2> QED BY <1>7, <2>1
<1>9. CharTurns(turn, c, ch)
  BY <1>5, <1>6, <1>8 DEF CharTurns
<1> QED BY <1>9

\* A byte read takes the register past the byte's bits.
LEMMA ByteRead ==
  ASSUME Checksum!ChecksumAssumption, NEW s \in Seq(Checksum!Bytes), NEW b \in 0..(Len(s) - 1)
  PROVE  Checksum!Crc32Bitwise(Register(s)[b * CharBits], s[b + 1]) = Register(s)[(b + 1) * CharBits]
<1> DEFINE n == Len(s) * CharBits
           o == b * CharBits
           R == Register(s)
<1>0. CharBits \in Nat \ {0} /\ Len(s) \in Nat /\ o \in Nat /\ n \in Nat
  BY Powers
<1>1. /\ R \in [0..n -> 0..Checksum!Ones]
      /\ \A j \in 1..n : R[j] = Checksum!Bit(R[j - 1], Checksum!Message(s)[j])
  BY RegisterIs
<1>2. \A j \in 0..(CharBits - 1) : /\ o + j + 1 \in 1..n /\ Checksum!BitOf(s[b + 1], j) \in {0, 1}
                                   /\ Checksum!Message(s)[o + j + 1] = Checksum!BitOf(s[b + 1], j)
  BY MessageIs
<1> HIDE DEF n, R
<1>3. R[o] \in 0..Checksum!Ones
  <2>1. o + 0 + 1 \in 1..n
    BY <1>0, <1>2
  <2>2. o \in 0..n
    BY <1>0, <2>1
  <2> QED BY <1>1, <2>2
<1>4. PICK f \in [0..CharBits -> 0..Checksum!Ones] :
        /\ Checksum!Crc32Bitwise(R[o], s[b + 1]) = f[CharBits] /\ f[0] = R[o]
        /\ \A j \in 1..CharBits : f[j] = Checksum!Bit(f[j - 1], Checksum!BitOf(s[b + 1], j - 1))
  <2> DEFINE c == R[o]
             ch == s[b + 1]
  <2>1. c \in 0..Checksum!Ones /\ \A j \in 0..(CharBits - 1) : Checksum!BitOf(ch, j) \in {0, 1}
    BY <1>2, <1>3
  <2> HIDE DEF c, ch
  <2>2. PICK f : CharTurns(f, c, ch)
    BY <2>1, CharIs
  <2> QED BY <2>2 DEF c, ch, CharTurns
<1> HIDE DEF o
<1>5. \A k \in 0..(CharBits - 1) : R[o + k + 1] = Checksum!Bit(R[o + k], Checksum!BitOf(s[b + 1], k))
  <2> TAKE k \in 0..(CharBits - 1)
  <2> DEFINE t == o + k + 1
             M == Checksum!Message(s)
             v == Checksum!BitOf(s[b + 1], k)
  <2>1. t \in 1..n /\ M[t] = v /\ t - 1 = o + k
    BY <1>0, <1>2
  <2>2. \A j \in 1..n : R[j] = Checksum!Bit(R[j - 1], M[j])
    BY <1>1
  <2> HIDE DEF M, t, v
  <2>3. R[t] = Checksum!Bit(R[t - 1], M[t])
    BY <2>1, <2>2
  <2>4. R[t] = Checksum!Bit(R[o + k], v)
    BY <2>1, <2>3
  <2> QED BY <2>4 DEF t, v
<1>6. \A j \in 0..CharBits : f[j] = R[o + j]
  <2> DEFINE Bad == {j \in 0..CharBits : f[j] # R[o + j]}
  <2>1. SUFFICES Bad = {}
    OBVIOUS
  <2>2. SUFFICES ASSUME Bad # {} PROVE FALSE
    OBVIOUS
  <2>3. PICK j \in Bad : \A k \in Bad : j <= k
    <3>1. Bad \in SUBSET Nat
      OBVIOUS
    <3> HIDE DEF Bad
    <3> QED BY <2>2, <3>1, Least
  <2>4. j \in 1..CharBits
    <3>1. f[0] = R[o + 0]
      BY <1>0, <1>4
    <3> QED BY <1>0, <2>3, <3>1
  <2>5. j - 1 \in 0..CharBits /\ ~(j <= j - 1) /\ j - 1 \in 0..(CharBits - 1) /\ o + (j - 1) + 1 = o + j
        /\ o + j - 1 = o + (j - 1)
    BY <1>0, <2>4
  <2>6. f[j - 1] = R[o + (j - 1)]
    BY <2>3, <2>5
  <2>7. R[o + j] = Checksum!Bit(R[o + (j - 1)], Checksum!BitOf(s[b + 1], j - 1))
    <3>1. j - 1 \in 0..(CharBits - 1) /\ o + (j - 1) + 1 = o + j
      BY <2>5
    <3>2. R[o + (j - 1) + 1] = Checksum!Bit(R[o + (j - 1)], Checksum!BitOf(s[b + 1], j - 1))
      BY <1>5, <3>1
    <3> QED BY <3>1, <3>2
  <2>8. f[j] = R[o + j]
    BY <1>4, <2>4, <2>6, <2>7
  <2> QED BY <2>3, <2>8
<1>7. o + CharBits = (b + 1) * CharBits
  BY <1>0 DEF o
<1>8. f[CharBits] = R[o + CharBits]
  BY <1>0, <1>6
<1> QED BY <1>4, <1>7, <1>8 DEF R, o

(* The division *)

\* A step of the division keeps the coefficients zeros and ones.
LEMMA DivideIs ==
  ASSUME Checksum!ChecksumAssumption, NEW z \in Nat, NEW a \in [1..z -> {0, 1}], NEW k \in 1..z
  PROVE  /\ Checksum!Divide(a, k) \in [1..z -> {0, 1}]
         /\ \A t \in 1..z : Checksum!Divide(a, k)[t] = IF a[k] = 1 /\ t \in k..(k + Width)
                                             THEN (a[t] + Checksum!Generator[t - k + 1]) % 2 ELSE a[t]
<1>0. Width \in Nat \ {0}
  BY Powers
<1>1. \A t \in k..(k + Width) : Checksum!Generator[t - k + 1] \in {0, 1}
  <2> TAKE t \in k..(k + Width)
  <2>1. t - k + 1 \in 1..(Width + 1)
    BY <1>0
  <2>2. Checksum!Generator[t - k + 1] = IF t - k + 1 = 1 THEN 1 ELSE Checksum!BitOf(Poly, t - k + 1 - 2)
    BY <2>1 DEF Checksum!Generator
  <2>3. Poly \in Nat
    <3>1. 2^(Width - 1) \in Nat
      BY <1>0, Powers
    <3> QED BY <3>1, OnesBits DEF Checksum!ChecksumAssumption
  <2>4. ~(t - k + 1 = 1) => Checksum!BitOf(Poly, t - k + 1 - 2) \in {0, 1}
    <3> SUFFICES ASSUME ~(t - k + 1 = 1) PROVE Checksum!BitOf(Poly, t - k + 1 - 2) \in {0, 1}
      OBVIOUS
    <3>1. t - k + 1 - 2 \in 0..Width
      BY <1>0, <2>1
    <3> QED BY <2>3, <3>1, BitIs
  <2> QED BY <2>2, <2>4
<1>2. \A x, y \in {0, 1} : (x + y) % 2 \in {0, 1}
  OBVIOUS
<1>3. DOMAIN a = 1..z
  OBVIOUS
<1>4. \A t \in 1..z : Checksum!Divide(a, k)[t] = IF a[k] = 1 /\ t \in k..(k + Width)
                                       THEN (a[t] + Checksum!Generator[t - k + 1]) % 2 ELSE a[t]
  BY <1>3 DEF Checksum!Divide
<1>5. \A t \in 1..z : Checksum!Divide(a, k)[t] \in {0, 1}
  <2> TAKE t \in 1..z
  <2>1. a[t] \in {0, 1}
    OBVIOUS
  <2>2. CASE a[k] = 1 /\ t \in k..(k + Width)
    BY <1>1, <1>2, <1>4, <2>1, <2>2
  <2>3. CASE ~(a[k] = 1 /\ t \in k..(k + Width))
    BY <1>4, <2>1, <2>3
  <2> QED BY <2>2, <2>3
<1>6. Checksum!Divide(a, k) = [t \in 1..z |-> Checksum!Divide(a, k)[t]]
  BY <1>3 DEF Checksum!Divide
<1> QED BY <1>4, <1>5, <1>6

\* Sums of bits.
LEMMA Parity ==
  ASSUME NEW x \in {0, 1}, NEW y \in {0, 1}, NEW z \in {0, 1}
  PROVE  /\ (x + y) % 2 \in {0, 1} /\ (((x + y) % 2) + z) % 2 = (((x + z) % 2) + y) % 2
         /\ (x + 0) % 2 = x /\ (0 + x) % 2 = x /\ ((x + y) % 2 = 1) <=> (x # y)
         /\ (1 + x) % 2 = 1 - x
<1>1. (x + y) % 2 \in {0, 1} /\ (((x + y) % 2) + z) % 2 = (((x + z) % 2) + y) % 2
  OBVIOUS
<1>2. (x + 0) % 2 = x /\ (0 + x) % 2 = x /\ (1 + x) % 2 = 1 - x
  OBVIOUS
<1>3. ((x + y) % 2 = 1) <=> (x # y)
  OBVIOUS
<1> QED BY <1>1, <1>2, <1>3

\* A step of the division shifts the register: its bits are the coefficients
\* in front, without the message's own.
LEMMA DivisionStep ==
  ASSUME Checksum!ChecksumAssumption, NEW z \in Nat, NEW m \in [1..z -> {0, 1}], NEW a \in [1..z -> {0, 1}],
         NEW r \in 0..Checksum!Ones, NEW k \in 1..z, k + Width <= z,
         \A t \in k..z : a[t] = IF t <= k - 1 + Width THEN (Checksum!BitOf(r, t - k) + m[t]) % 2 ELSE m[t]
  PROVE  \A t \in (k + 1)..z :
           Checksum!Divide(a, k)[t] = IF t <= k + Width
             THEN (Checksum!BitOf(Checksum!Bit(r, m[k]), t - k - 1) + m[t]) % 2 ELSE m[t]
<1>0. Width \in Nat \ {0} /\ Checksum!Ones \in Nat /\ m[k] \in {0, 1} /\ r \in Nat
  BY Powers, OnesBits
<1>1. Checksum!BitOf(r, 0) \in {0, 1}
  <2>1. 0 \in 0..Width
    BY <1>0
  <2> QED BY <1>0, <2>1, BitIs
<1>2. (a[k] = 1) <=> (Checksum!BitOf(r, 0) # m[k])
  <2>1. a[k] = (Checksum!BitOf(r, 0) + m[k]) % 2
    <3>1. k \in k..z /\ k <= k - 1 + Width /\ k - k = 0
      BY <1>0
    <3> QED BY <3>1
  <2> QED BY <1>0, <1>1, <2>1, Parity
<1>3. \A t \in 1..z : Checksum!Divide(a, k)[t] = IF a[k] = 1 /\ t \in k..(k + Width)
                                       THEN (a[t] + Checksum!Generator[t - k + 1]) % 2 ELSE a[t]
  BY DivideIs
<1> TAKE t \in (k + 1)..z
<1>4. t \in 1..z /\ m[t] \in {0, 1} /\ t \in k..z
  OBVIOUS
<1>5. CASE ~(t <= k + Width)
  <2>1. ~(t \in k..(k + Width)) /\ ~(t <= k - 1 + Width)
    BY <1>0, <1>5
  <2>2. Checksum!Divide(a, k)[t] = a[t] /\ a[t] = m[t]
    BY <1>3, <1>4, <2>1
  <2> QED BY <1>5, <2>2
<1>6. CASE t <= k + Width
  <2> DEFINE u == t - k - 1
             x == IF u < Width - 1 THEN Checksum!BitOf(r, u + 1) ELSE 0
             y == Checksum!BitOf(Poly, u)
             w == m[t]
  <2>0. u \in 0..(Width - 1) /\ t - k + 1 = u + 2 /\ t - k = u + 1 /\ t \in k..(k + Width)
        /\ ((t <= k - 1 + Width) <=> (u < Width - 1))
    BY <1>0, <1>4, <1>6
  <2>1. Checksum!Generator[t - k + 1] = y
    <3>1. u + 2 \in 1..(Width + 1) /\ ~(u + 2 = 1) /\ u + 2 - 2 = u
      BY <1>0, <2>0
    <3> DEFINE v == u + 2
    <3>2. v \in 1..(Width + 1) /\ v # 1 /\ v - 2 = u
      BY <3>1
    <3> HIDE DEF u, v
    <3>3. Checksum!Generator[v] = Checksum!BitOf(Poly, v - 2)
      BY <3>2 DEF Checksum!Generator
    <3> QED BY <2>0, <3>2, <3>3 DEF v, y
  <2>2. x \in {0, 1} /\ y \in {0, 1} /\ w \in {0, 1}
    <3>1. Poly \in Nat
      <4>1. 2^(Width - 1) \in Nat
        BY <1>0, Powers
      <4> QED BY <4>1, OnesBits DEF Checksum!ChecksumAssumption
    <3>2. y \in {0, 1}
      <4>1. u \in 0..Width
        BY <1>0, <2>0
      <4> HIDE DEF u
      <4> QED BY <3>1, <4>1, BitIs DEF y
    <3>3. x \in {0, 1}
      <4>1. u < Width - 1 => u + 1 \in 0..Width
        BY <1>0, <2>0
      <4> HIDE DEF u
      <4> QED BY <1>0, <4>1, BitIs DEF x
    <3> QED BY <1>4, <3>2, <3>3 DEF w
  <2>3. Checksum!BitOf(Checksum!Bit(r, m[k]), u) = (x + (IF Checksum!BitOf(r, 0) # m[k] THEN y ELSE 0)) % 2
    <3> HIDE DEF u
    <3> QED BY <1>0, <2>0, TurnIs DEF x, y
  <2>4. a[t] = (x + w) % 2
    <3>1. CASE u < Width - 1
      <4>1. a[t] = (Checksum!BitOf(r, t - k) + m[t]) % 2
        BY <1>4, <2>0, <3>1
      <4>2. x = Checksum!BitOf(r, u + 1)
        BY <3>1
      <4> HIDE DEF x, u
      <4> QED BY <2>0, <4>1, <4>2 DEF w
    <3>2. CASE ~(u < Width - 1)
      <4>1. a[t] = m[t]
        BY <1>4, <2>0, <3>2
      <4>2. x = 0
        BY <3>2
      <4> HIDE DEF x, u
      <4>3. (0 + w) % 2 = w
        BY <2>2
      <4> QED BY <4>1, <4>2, <4>3 DEF w
    <3> QED BY <3>1, <3>2
  <2> HIDE DEF u, x, y, w
  <2>5. Checksum!Divide(a, k)[t] = IF Checksum!BitOf(r, 0) # m[k] THEN (a[t] + y) % 2 ELSE a[t]
    BY <1>2, <1>3, <1>4, <2>0, <2>1
  <2>6. Checksum!Divide(a, k)[t] = (Checksum!BitOf(Checksum!Bit(r, m[k]), u) + w) % 2
    <3>1. CASE Checksum!BitOf(r, 0) # m[k]
      <4>1. Checksum!Divide(a, k)[t] = (((x + w) % 2) + y) % 2
        BY <2>4, <2>5, <3>1
      <4>2. Checksum!BitOf(Checksum!Bit(r, m[k]), u) = (x + y) % 2
        BY <2>3, <3>1
      <4>3. (((x + y) % 2) + w) % 2 = (((x + w) % 2) + y) % 2
        BY <2>2, Parity
      <4> QED BY <4>1, <4>2, <4>3
    <3>2. CASE Checksum!BitOf(r, 0) = m[k]
      <4>1. Checksum!Divide(a, k)[t] = (x + w) % 2
        BY <2>4, <2>5, <3>2
      <4>2. Checksum!BitOf(Checksum!Bit(r, m[k]), u) = (x + 0) % 2
        BY <2>3, <3>2
      <4>3. (x + 0) % 2 = x
        BY <2>2, Parity
      <4> QED BY <4>1, <4>2, <4>3
    <3> QED BY <3>1, <3>2
  <2> QED BY <1>6, <2>6 DEF u, w
<1> QED BY <1>5, <1>6

\* The coefficients' sum is the number they are the bits of.
LEMMA SumIs ==
  ASSUME Checksum!ChecksumAssumption, NEW c \in 0..Checksum!Ones, NEW b, \A k \in 1..Width : b[k]
    = Checksum!BitOf(c, k - 1),
         NEW S, S = [k \in 0..Width |-> IF k = 0 THEN 0 ELSE S[k - 1] + b[k] * 2^(k - 1)]
  PROVE  S[Width] = c
<1> DEFINE P(k) == c - (c \div 2^k) * 2^k
           Bad == {k \in 0..Width : S[k] # P(k)}
<1>0. Width \in Nat \ {0} /\ Checksum!Ones \in Nat /\ c \in Nat /\ Checksum!Ones = 2^Width - 1
  BY Powers, OnesBits DEF Checksum!Ones
<1>1. Bad = {}
  <2>1. SUFFICES ASSUME Bad # {} PROVE FALSE
    OBVIOUS
  <2>2. PICK k \in Bad : \A j \in Bad : k <= j
    <3>1. Bad \in SUBSET Nat
      OBVIOUS
    <3> HIDE DEF Bad
    <3> QED BY <2>1, <3>1, Least
  <2>3. k \in 1..Width
    <3>1. S[0] = P(0)
      <4>1. S[0] = 0 /\ 2^0 = 1 /\ c \div 1 = c /\ c * 1 = c
        BY <1>0, Powers
      <4> QED BY <1>0, <4>1
    <3> HIDE DEF P
    <3> QED BY <1>0, <2>2, <3>1
  <2>4. k - 1 \in 0..Width /\ ~(k <= k - 1) /\ (k - 1) + 1 = k
    BY <1>0, <2>3
  <2>5. S[k - 1] = P(k - 1)
    <3> HIDE DEF P
    <3> QED BY <2>2, <2>4
  <2>6. S[k] = S[k - 1] + b[k] * 2^(k - 1)
    BY <1>0, <2>3
  <2>7. b[k] = Checksum!BitOf(c, k - 1)
    BY <2>3
  <2> DEFINE p == 2^(k - 1)
             q == c \div 2^k
             d == Checksum!BitOf(c, k - 1)
  <2>8. p \in Nat \ {0} /\ 2^k = 2 * p /\ c \div p = 2 * q + d /\ d \in {0, 1}
    <3> DEFINE l == k - 1
    <3>1. l \in 0..Width /\ l + 1 = k
      BY <2>4
    <3> HIDE DEF l
    <3>2. 2^l \in Nat \ {0} /\ 2^(l + 1) = 2 * 2^l
      BY <3>1, Powers
    <3>3. Checksum!BitOf(c, l) \in {0, 1} /\ c \div 2^l = 2 * (c \div 2^(l + 1)) + Checksum!BitOf(c, l)
      BY <1>0, <3>1, BitIs
    <3> QED BY <3>1, <3>2, <3>3 DEF l
  <2>9. q \in Nat
    <3> DEFINE o == 2^k
    <3>1. o \in Nat \ {0}
      BY <2>8
    <3> HIDE DEF o
    <3>2. c \div o \in Nat
      BY <1>0, <3>1, Halves
    <3> QED BY <3>2 DEF o
  <2> HIDE DEF p, q, d
  <2>10. S[k - 1] = c - (2 * q + d) * p
    BY <2>5, <2>8 DEF p
  <2>11. S[k] = (c - (2 * q + d) * p) + d * p
    BY <2>6, <2>7, <2>10 DEF p, d
  <2>12. (2 * q + d) * p = q * (2 * p) + d * p /\ d * p \in Nat /\ q * (2 * p) \in Nat
    BY <2>8, <2>9
  <2>13. S[k] = c - q * (2 * p)
    BY <1>0, <2>11, <2>12
  <2>14. P(k) = c - q * (2 * p)
    BY <2>8 DEF q
  <2> QED BY <2>2, <2>13, <2>14
<1>2. S[Width] = P(Width)
  <2>1. Width \in 0..Width
    BY <1>0
  <2> HIDE DEF P
  <2> QED BY <1>1, <2>1
<1>3. c \div 2^Width = 0 /\ 2^Width \in Nat
  <2> DEFINE p == 2^Width
  <2>1. p \in Nat \ {0} /\ c \in 0..(p - 1)
    BY <1>0, Powers
  <2> HIDE DEF p
  <2>2. c = p * 0 + c
    BY <2>1
  <2>3. c \div p = 0
    BY <2>1, <2>2, QuotientIs
  <2> QED BY <2>1, <2>3 DEF p
<1> QED BY <1>0, <1>2, <1>3

\* The remainder by its definition is the register behind the last bit.
LEMMA RemainderIs ==
  ASSUME Checksum!ChecksumAssumption, NEW s \in Seq(Checksum!Bytes)
  PROVE  Checksum!Remainder(s) = Register(s)[Len(s) * CharBits]
<1> DEFINE n == Len(s) * CharBits
           z == n + Width
           m == Checksum!Message(s)
           R == Register(s)
           A == [1..z -> {0, 1}]
           first == [j \in DOMAIN m |-> IF j <= Width THEN 1 - m[j] ELSE m[j]]
           g == [p \in A \X (1..n) |-> Checksum!Divide(p[1], p[2])]
           Divided(f) == f = [k \in 0..n |-> IF k = 0 THEN first ELSE Checksum!Divide(f[k - 1], k)]
           D == CHOOSE f : Divided(f)
           Summed(f) == f = [k \in 0..Width |-> IF k = 0 THEN 0 ELSE f[k - 1] + D[n][n + k] * 2^(k - 1)]
           S == CHOOSE f : Summed(f)
<1>0. Checksum!Remainder(s) = S[Width]
  BY DEF Checksum!Remainder
<1> HIDE DEF S, D, R, m
<1>1. Width \in Nat \ {0} /\ n \in Nat /\ z \in Nat /\ Checksum!Ones \in Nat
  BY Powers, OnesBits
<1>2. m \in A /\ \A k \in 1..Width : m[n + k] = 0
  BY MessageIs DEF m
<1>3. R \in [0..n -> 0..Checksum!Ones] /\ R[0] = Checksum!Ones
        /\ \A j \in 1..n : R[j] = Checksum!Bit(R[j - 1], m[j])
  BY RegisterIs DEF R, m
<1> HIDE DEF n, z
<1>4. first \in A
  BY <1>2
<1>5. Divided(D)
  <2>1. \A p \in A \X (1..n) : Checksum!Divide(p[1], p[2]) \in A
    <3> TAKE p \in A \X (1..n)
    <3>1. p[1] \in A /\ p[2] \in 1..z
      BY <1>1 DEF z
    <3> QED BY <1>1, <3>1, DivideIs
  <2>2. g \in Steps(n, A)
    BY <2>1 DEF Steps
  <2>3. PICK f : Table(f, n, A, first, g)
    <3> HIDE DEF A, first, g
    <3> QED BY <1>1, <1>4, <2>2, Recursion
  <2>4. f \in [0..n -> A] /\ f[0] = first /\ \A k \in 1..n : f[k] = g[<<f[k - 1], k>>]
    BY <2>3 DEF Table
  <2>5. ASSUME NEW k \in 1..n PROVE f[k] = Checksum!Divide(f[k - 1], k)
    <3>1. k - 1 \in 0..n
      BY <1>1
    <3>2. f[k - 1] \in A
      <4> HIDE DEF A
      <4> QED BY <2>4, <3>1
    <3>3. <<f[k - 1], k>> \in A \X (1..n)
      BY <3>2
    <3>4. g[<<f[k - 1], k>>] = Checksum!Divide(f[k - 1], k)
      <4> HIDE DEF A
      <4> QED BY <3>3
    <3> QED BY <2>4, <3>4
  <2>6. \A k \in 0..n : f[k] = IF k = 0 THEN first ELSE Checksum!Divide(f[k - 1], k)
    <3> HIDE DEF first
    <3> QED BY <1>1, <2>4, <2>5
  <2>7. Divided(f)
    <3> HIDE DEF first, A, g
    <3> QED BY <2>4, <2>6
  <2> HIDE DEF Divided
  <2> QED BY <2>7 DEF D
<1>6. D[0] = first /\ \A k \in 1..n : D[k] = Checksum!Divide(D[k - 1], k)
  <2>1. \A k \in 0..n : D[k] = IF k = 0 THEN first ELSE Checksum!Divide(D[k - 1], k)
    <3> HIDE DEF first
    <3> QED BY <1>5
  <2>2. 0 \in 0..n /\ \A k \in 1..n : k \in 0..n /\ k # 0
    BY <1>1
  <2> HIDE DEF first
  <2> QED BY <2>1, <2>2
<1> DEFINE Coefficient(k, t) == IF t <= k + Width THEN (Checksum!BitOf(R[k], t - k - 1) + m[t]) % 2 ELSE m[t]
           Inv(k) == D[k] \in A /\ \A t \in (k + 1)..z : D[k][t] = Coefficient(k, t)
           Bad == {k \in 0..n : ~Inv(k)}
<1>7. \A k \in 0..n : Inv(k)
  <2>1. SUFFICES ASSUME Bad # {} PROVE FALSE
    OBVIOUS
  <2>2. PICK k \in Bad : \A j \in Bad : k <= j
    <3>1. Bad \in SUBSET Nat
      OBVIOUS
    <3> HIDE DEF Bad
    <3> QED BY <2>1, <3>1, Least
  <2>3. Inv(0)
    <3>1. D[0] = first
      BY <1>6
    <3>2. ASSUME NEW t \in 1..z PROVE first[t] = Coefficient(0, t)
      <4>1. first[t] = IF t <= Width THEN 1 - m[t] ELSE m[t]
        BY <1>2
      <4>2. m[t] \in {0, 1}
        BY <1>2
      <4>3. CASE t <= Width
        <5>1. t - 0 - 1 \in 0..(Width - 1) /\ t <= 0 + Width
          BY <1>1, <4>3
        <5>2. Checksum!BitOf(Checksum!Ones, t - 0 - 1) = 1
          BY <5>1, OnesBits
        <5>3. (1 + m[t]) % 2 = 1 - m[t]
          BY <4>2, Parity
        <5> QED BY <1>3, <4>1, <4>3, <5>1, <5>2, <5>3
      <4>4. CASE ~(t <= Width)
        BY <1>1, <4>1, <4>4
      <4> QED BY <4>3, <4>4
    <3>3. 0 + 1 = 1
      OBVIOUS
    <3> HIDE DEF first, Coefficient, A
    <3> QED BY <1>4, <3>1, <3>2, <3>3
  <2>4. k \in 1..n
    <3> HIDE DEF Inv
    <3> QED BY <1>1, <2>2, <2>3
  <2>5. k - 1 \in 0..n /\ ~(k <= k - 1) /\ (k - 1) + 1 = k /\ k \in 1..z /\ k + Width <= z
    BY <1>1, <2>4 DEF z
  <2>6. Inv(k - 1)
    <3> HIDE DEF Inv
    <3> QED BY <2>2, <2>5
  <2> DEFINE a == D[k - 1]
             r == R[k - 1]
  <2>7. a \in A /\ r \in 0..Checksum!Ones
    BY <1>3, <2>5, <2>6
  <2>8. \A t \in k..z : a[t] = IF t <= k - 1 + Width THEN (Checksum!BitOf(r, t - k) + m[t]) % 2 ELSE m[t]
    <3> TAKE t \in k..z
    <3>1. t \in ((k - 1) + 1)..z /\ t - (k - 1) - 1 = t - k
      BY <1>1, <2>5
    <3>2. D[k - 1][t] = Coefficient(k - 1, t)
      BY <2>6, <3>1
    <3> QED BY <3>1, <3>2
  <2>9. D[k] = Checksum!Divide(a, k) /\ R[k] = Checksum!Bit(r, m[k])
    BY <1>3, <1>6, <2>4
  <2> HIDE DEF a, r
  <2>10. /\ Checksum!Divide(a, k) \in A
         /\ \A t \in (k + 1)..z :
              Checksum!Divide(a, k)[t] = IF t <= k + Width
                THEN (Checksum!BitOf(Checksum!Bit(r, m[k]), t - k - 1) + m[t]) % 2 ELSE m[t]
    <3>1. Checksum!Divide(a, k) \in A
      BY <1>1, <2>5, <2>7, DivideIs
    <3>2. /\ z \in Nat /\ m \in [1..z -> {0, 1}] /\ a \in [1..z -> {0, 1}] /\ r \in 0..Checksum!Ones
          /\ k \in 1..z /\ k + Width <= z
      BY <1>1, <1>2, <2>5, <2>7
    <3> HIDE DEF A, Coefficient, Inv, Bad, first, g
    <3>3. \A t \in (k + 1)..z :
            Checksum!Divide(a, k)[t] = IF t <= k + Width
              THEN (Checksum!BitOf(Checksum!Bit(r, m[k]), t - k - 1) + m[t]) % 2 ELSE m[t]
      BY <2>8, <3>2, DivisionStep
    <3> QED BY <3>1, <3>3
  <2>11. Inv(k)
    <3> HIDE DEF A
    <3> QED BY <2>9, <2>10
  <2> QED BY <2>2, <2>11
<1> DEFINE c == R[n]
           b == [k \in 1..Width |-> D[n][n + k]]
<1>8. c \in 0..Checksum!Ones /\ \A k \in 1..Width : b[k] = Checksum!BitOf(c, k - 1)
  <2>1. c \in 0..Checksum!Ones
    BY <1>1, <1>3
  <2>2. ASSUME NEW k \in 1..Width PROVE b[k] = Checksum!BitOf(c, k - 1)
    <3>1. n \in 0..n /\ n + k \in (n + 1)..z /\ n + k <= n + Width /\ n + k - n - 1 = k - 1
      BY <1>1 DEF z
    <3>2. D[n][n + k] = Coefficient(n, n + k)
      BY <1>7, <3>1
    <3>3. D[n][n + k] = (Checksum!BitOf(c, k - 1) + m[n + k]) % 2
      BY <3>1, <3>2
    <3>4. Checksum!BitOf(c, k - 1) \in {0, 1}
      <4>1. k - 1 \in 0..Width /\ c \in Nat
        BY <1>1, <2>1
      <4> HIDE DEF c
      <4> QED BY <4>1, BitIs
    <3>5. m[n + k] = 0 /\ (Checksum!BitOf(c, k - 1) + 0) % 2 = Checksum!BitOf(c, k - 1)
      BY <1>2, <3>4, Parity
    <3> QED BY <3>3, <3>5
  <2> QED BY <2>1, <2>2
<1>9. \A k \in 1..Width : b[k] = D[n][n + k] /\ b[k] \in {0, 1} /\ b[k] * 2^(k - 1) \in Nat
  <2> TAKE k \in 1..Width
  <2>1. b[k] = Checksum!BitOf(c, k - 1)
    BY <1>8
  <2> HIDE DEF c
  <2> DEFINE l == k - 1
  <2>2. l \in 0..Width /\ c \in Nat
    BY <1>1, <1>8
  <2> HIDE DEF l
  <2>3. Checksum!BitOf(c, l) \in {0, 1} /\ 2^l \in Nat
    BY <2>2, BitIs, Powers
  <2>4. Checksum!BitOf(c, l) * 2^l \in Nat
    BY <2>3
  <2>5. b[k] = D[n][n + k]
    OBVIOUS
  <2> HIDE DEF b
  <2> QED BY <2>1, <2>3, <2>4, <2>5 DEF l
<1> HIDE DEF b, c
<1>10. Summed(S)
  <2> DEFINE e == [p \in Nat \X (1..Width) |-> p[1] + b[p[2]] * 2^(p[2] - 1)]
  <2>1. e \in Steps(Width, Nat)
    <3>1. \A p \in Nat \X (1..Width) : p[1] + b[p[2]] * 2^(p[2] - 1) \in Nat
      <4> TAKE p \in Nat \X (1..Width)
      <4>1. p[1] \in Nat /\ p[2] \in 1..Width
        OBVIOUS
      <4>2. b[p[2]] * 2^(p[2] - 1) \in Nat
        BY <1>9, <4>1
      <4> QED BY <4>1, <4>2
    <3> QED BY <3>1 DEF Steps
  <2>2. PICK f : Table(f, Width, Nat, 0, e)
    <3> HIDE DEF e
    <3>1. Width \in Nat /\ 0 \in Nat
      BY <1>1
    <3> QED BY <2>1, <3>1, Recursion
  <2>3. f \in [0..Width -> Nat] /\ f[0] = 0 /\ \A k \in 1..Width : f[k] = e[<<f[k - 1], k>>]
    BY <2>2 DEF Table
  <2>4. ASSUME NEW k \in 1..Width PROVE f[k] = f[k - 1] + D[n][n + k] * 2^(k - 1)
    <3>1. <<f[k - 1], k>> \in Nat \X (1..Width)
      <4>1. k - 1 \in 0..Width
        BY <1>1
      <4>2. f[k - 1] \in Nat
        BY <2>3, <4>1
      <4> QED BY <4>2
    <3>2. e[<<f[k - 1], k>>] = f[k - 1] + b[k] * 2^(k - 1)
      BY <3>1
    <3> QED BY <1>9, <2>3, <3>2
  <2>5. \A k \in 0..Width : f[k] = IF k = 0 THEN 0 ELSE f[k - 1] + D[n][n + k] * 2^(k - 1)
    <3> TAKE k \in 0..Width
    <3>1. CASE k = 0
      BY <2>3, <3>1
    <3>2. CASE k # 0
      <4>1. k \in 1..Width
        BY <1>1, <3>2
      <4>2. f[k] = f[k - 1] + D[n][n + k] * 2^(k - 1)
        BY <2>4, <4>1
      <4> QED BY <3>2, <4>2
    <3> QED BY <3>1, <3>2
  <2>6. Summed(f)
    <3> HIDE DEF e
    <3> QED BY <2>3, <2>5
  <2> HIDE DEF Summed
  <2> QED BY <2>6 DEF S
<1>11. S = [k \in 0..Width |-> IF k = 0 THEN 0 ELSE S[k - 1] + b[k] * 2^(k - 1)]
  <2> DEFINE T == [k \in 0..Width |-> IF k = 0 THEN 0 ELSE S[k - 1] + b[k] * 2^(k - 1)]
  <2>1. S = [k \in 0..Width |-> IF k = 0 THEN 0 ELSE S[k - 1] + D[n][n + k] * 2^(k - 1)]
    BY <1>10
  <2>2. \A k \in 0..Width : k # 0 => k \in 1..Width
    BY <1>1
  <2>3. \A k \in 0..Width : S[k] = T[k]
    BY <1>9, <2>1, <2>2
  <2> QED BY <2>1, <2>3
<1>12. S[Width] = c
  BY <1>8, <1>11, SumIs
<1> QED BY <1>0, <1>12 DEF c, n, R

(* The program *)

\* A file's last page reaches past its end.
LEMMA Covers ==
  ASSUME NEW n \in Nat, NEW p \in Nat \ {0}
  PROVE  n <= ((n + p - 1) \div p) * p
<1> DEFINE x == n + p - 1
           q == x \div p
<1>1. x \in Nat
  OBVIOUS
<1> HIDE DEF x
<1>2. x = p * q + (x % p) /\ x % p \in 0..(p - 1) /\ q \in Nat
  BY <1>1
<1> HIDE DEF q
<1>3. p * q = q * p /\ q * p \in Nat
  BY <1>2
<1>4. n <= q * p
  BY <1>2, <1>3 DEF x
<1> QED BY <1>4 DEF q, x

\* A chunk is some whole pages.
LEMMA ChunkIs ==
  ASSUME Checksum!ChecksumAssumption
  PROVE  /\ PageSize \in Nat \ {0} /\ Checksum!ChunkSize \in Nat \ {0}
         /\ \A x \in Nat : x % PageSize = 0 => (x + Checksum!ChunkSize) % PageSize = 0
<1>0. PageSize \in Nat \ {0} /\ CHUNK_SIZE \in Nat \ {0}
  BY DEF Checksum!ChecksumAssumption
<1>1. PICK q \in Nat \ {0} : Checksum!ChunkSize = q * PageSize
  <2>1. CASE CHUNK_SIZE < PageSize
    <3>1. Checksum!ChunkSize = 1 * PageSize
      BY <1>0, <2>1 DEF Checksum!ChunkSize
    <3> QED BY <3>1
  <2>2. CASE ~(CHUNK_SIZE < PageSize)
    <3>1. CHUNK_SIZE \div PageSize \in Nat \ {0}
      BY <1>0, <2>2
    <3>2. Checksum!ChunkSize = (CHUNK_SIZE \div PageSize) * PageSize
      BY <2>2 DEF Checksum!ChunkSize
    <3> QED BY <3>1, <3>2
  <2> QED BY <2>1, <2>2
<1>2. q * PageSize \in Nat \ {0}
  BY <1>0, <1>1
<1>3. ASSUME NEW x \in Nat, x % PageSize = 0 PROVE (x + Checksum!ChunkSize) % PageSize = 0
  <2> DEFINE r == x \div PageSize
  <2>1. r \in Nat /\ x = PageSize * r
    BY <1>0, <1>3
  <2> HIDE DEF r
  <2> DEFINE y == x + q * PageSize
             d == r + q
  <2>2. y = PageSize * d + 0 /\ d \in Nat /\ 0 \in 0..(PageSize - 1)
    BY <1>0, <2>1
  <2> HIDE DEF y, d
  <2>3. y % PageSize = 0
    BY <1>0, <2>2, QuotientIs
  <2> QED BY <1>1, <2>3 DEF y
<1> QED BY <1>0, <1>1, <1>2, <1>3

\* Some char, or the zero behind the end of the file, keeps the checksum one.
LEMMA CharKeeps ==
  ASSUME Checksum!ChecksumAssumption, NEW c \in 0..Checksum!Ones, NEW ch \in Checksum!Bytes \cup {0}
  PROVE  Checksum!Crc32Bitwise(c, ch) \in 0..Checksum!Ones
<1>0. CharBits \in Nat \ {0}
  BY Powers
<1>1. ch \in Nat
  <2>1. 2^CharBits \in Nat
    <3>1. CharBits \in 0..(Width + CharBits)
      BY Powers
    <3> QED BY <3>1 DEF Checksum!ChecksumAssumption
  <2> QED BY <2>1 DEF Checksum!Bytes
<1>2. \A j \in 0..(CharBits - 1) : Checksum!BitOf(ch, j) \in {0, 1}
  <2> TAKE j \in 0..(CharBits - 1)
  <2> DEFINE p == 2^j
  <2>1. p \in Nat \ {0}
    <3>1. j \in 0..(Width + CharBits)
      BY Powers
    <3> QED BY <3>1 DEF Checksum!ChecksumAssumption
  <2> HIDE DEF p
  <2>2. ch \div p \in Nat
    BY <1>1, <2>1, Halves
  <2>3. (ch \div p) % 2 \in {0, 1}
    BY <2>2
  <2> QED BY <2>3 DEF Checksum!BitOf, p
<1>3. PICK f \in [0..CharBits -> 0..Checksum!Ones] :
        /\ Checksum!Crc32Bitwise(c, ch) = f[CharBits] /\ f[0] = c
        /\ \A j \in 1..CharBits : f[j] = Checksum!Bit(f[j - 1], Checksum!BitOf(ch, j - 1))
  <2>1. PICK f : CharTurns(f, c, ch)
    BY <1>2, CharIs
  <2> QED BY <2>1 DEF CharTurns
<1> QED BY <1>0, <1>3

\* What the registers of the bytes read so far say, and where the reading is.
BytesRead(n) == Register(was)[n * CharBits]
Reached == IF current_offset > filesize THEN filesize ELSE current_offset
Kinds ==
  /\ file \in Seq(Checksum!Bytes) /\ was \in Seq(Checksum!Bytes) /\ filesize = Len(was)
  /\ pc \in {"open", "loop", "read", "failed", "killed", "reported"}
  /\ current_offset \in Nat /\ current_offset % PageSize = 0
  /\ mapping \in [at : Nat, length : Nat] /\ mapping.at % PageSize = 0
       /\ mapping.at + mapping.length <= filesize
  /\ i \in 0..mapping.length /\ crc \in 0..Checksum!Ones
Opened == pc = "open" => was = <<>> /\ current_offset = 0 /\ crc = Checksum!Ones /\ mapping.length = 0
Cut == /\ pc \in {"loop", "read"} => file = was \/ Len(file) < filesize
       /\ Checksum!KilledOnlyIfCut
Reading ==
  /\ pc = "loop" /\ file = was => crc = BytesRead(Reached)
  /\ pc = "read" => /\ mapping.at = current_offset /\ current_offset < filesize
                    /\ mapping.length = Checksum!MapLen(current_offset)
                    /\ file = was => crc = BytesRead(mapping.at + i)
  /\ pc = "reported" /\ file = was => crc = Checksum!Ones - BytesRead(filesize)
CrcInv == Kinds /\ Opened /\ Cut /\ Reading

LEMMA InitCrc ==
  ASSUME Checksum!ChecksumAssumption, Checksum!Init
  PROVE  CrcInv
<1>1. file \in Seq(Checksum!Bytes) /\ was \in Seq(Checksum!Bytes) /\ Len(was) = 0
  BY DEF Checksum!Init
<1>2. Checksum!Ones \in 0..Checksum!Ones /\ 0 % PageSize = 0
  BY OnesBits, ChunkIs
<1> QED BY <1>1, <1>2 DEF Checksum!Init, CrcInv, Kinds, Opened, Cut, Checksum!KilledOnlyIfCut, Reading

LEMMA StepCrc ==
  ASSUME Checksum!ChecksumAssumption, CrcInv, [Checksum!Next]_Checksum!vars
  PROVE  CrcInv'
<1> USE DEF CrcInv
<1>0. PageSize \in Nat \ {0} /\ Checksum!ChunkSize \in Nat \ {0} /\ Checksum!Ones \in Nat
        /\ CharBits \in Nat \ {0}
  BY ChunkIs, OnesBits, Powers
<1>1. CASE Checksum!Open
  <2>1. Kinds' /\ Opened' /\ Cut'
    BY <1>0, <1>1 DEF Checksum!Open, Kinds, Opened, Cut, Checksum!KilledOnlyIfCut
  <2>2. crc' = Checksum!Ones /\ was' = file /\ pc' = "loop" /\ Reached' = 0
    BY <1>1 DEF Checksum!Open, Kinds, Opened, Reached
  <2>3. Register(file)[0 * CharBits] = Checksum!Ones
    <3>1. Register(file)[0] = Checksum!Ones
      BY RegisterIs DEF Kinds
    <3>2. 0 * CharBits = 0
      BY <1>0
    <3> QED BY <3>1, <3>2
  <2>4. Reading'
    BY <2>2, <2>3 DEF Reading, BytesRead
  <2> QED BY <2>1, <2>4
<1>2. CASE Checksum!OpenFails \/ Checksum!MapFails
  BY <1>2 DEF Checksum!OpenFails, Checksum!MapFails, Checksum!Fail, Kinds, Opened, Cut,
    Checksum!KilledOnlyIfCut, Reading
<1>3. CASE Checksum!Map
  <2>1. filesize \in Nat /\ current_offset \in Nat /\ current_offset < filesize /\ pc = "loop"
    BY <1>3 DEF Checksum!Map, Kinds
  <2>2. Checksum!MapLen(current_offset) \in Nat
          /\ current_offset + Checksum!MapLen(current_offset) <= filesize
    BY <1>0, <2>1 DEF Checksum!MapLen
  <2>3. /\ mapping' = [at |-> current_offset, length |-> Checksum!MapLen(current_offset)] /\ i' = 0
             /\ pc' = "read"
        /\ UNCHANGED <<file, was, filesize, current_offset, crc>>
    BY <1>3 DEF Checksum!Map
  <2>4. Kinds' /\ Opened' /\ Cut'
    BY <2>1, <2>2, <2>3 DEF Kinds, Opened, Cut, Checksum!KilledOnlyIfCut
  <2>5. Reached = current_offset /\ current_offset + 0 = current_offset
    BY <2>1 DEF Reached
  <2>6. Reading'
    BY <2>1, <2>3, <2>5 DEF Reading, BytesRead, Checksum!MapLen
  <2> QED BY <2>4, <2>6
<1>4. CASE Checksum!Read
  <2> DEFINE place == mapping.at + i
  <2>1. /\ pc = "read" /\ i < mapping.length /\ place \in Nat /\ place < filesize /\ filesize = Len(was)
        /\ filesize \in Nat /\ i \in Nat /\ mapping.length \in Nat /\ mapping.at \in Nat
    BY <1>4 DEF Checksum!Read, Kinds
  <2>2. UNCHANGED <<file, was, filesize, current_offset, mapping>>
    BY <1>4 DEF Checksum!Read
  <2>3. CASE Checksum!Backed(place)
    <3> DEFINE ch == IF place < Len(file) THEN file[place + 1] ELSE 0
    <3>1. crc' = Checksum!Crc32Bitwise(crc, ch) /\ i' = i + 1 /\ pc' = pc
      BY <1>4, <2>3 DEF Checksum!Read
    <3>2. ch \in Checksum!Bytes \cup {0}
      BY <2>1 DEF Kinds
    <3> HIDE DEF ch
    <3>3. crc' \in 0..Checksum!Ones
      BY <3>1, <3>2, CharKeeps DEF Kinds
    <3>4. Kinds' /\ Opened' /\ Cut'
      BY <2>1, <2>2, <3>1, <3>3 DEF Kinds, Opened, Cut, Checksum!KilledOnlyIfCut
    <3>5. file = was => crc' = BytesRead(mapping.at + (i + 1))
      <4> SUFFICES ASSUME file = was PROVE crc' = BytesRead(mapping.at + (i + 1))
        OBVIOUS
      <4>1. place \in 0..(Len(was) - 1) /\ ch = was[place + 1] /\ was \in Seq(Checksum!Bytes)
              /\ mapping.at + (i + 1) = place + 1
        BY <2>1 DEF Kinds, ch
      <4>2. crc = Register(was)[place * CharBits]
        BY <2>1 DEF Reading, BytesRead
      <4> HIDE DEF place
      <4>3. Checksum!Crc32Bitwise(Register(was)[place * CharBits], was[place + 1])
              = Register(was)[(place + 1) * CharBits]
        BY <4>1, ByteRead
      <4> QED BY <3>1, <4>1, <4>2, <4>3 DEF BytesRead
    <3>6. Reading'
      BY <2>1, <2>2, <3>1, <3>5 DEF Reading, BytesRead, Checksum!MapLen
    <3> QED BY <3>4, <3>6
  <2>4. CASE ~Checksum!Backed(place)
    <3>1. pc' = "killed" /\ UNCHANGED <<crc, i>>
      BY <1>4, <2>4 DEF Checksum!Read
    <3>2. file # was
      <4> SUFFICES ASSUME file = was PROVE FALSE
        OBVIOUS
      <4>1. Len(file) \in Nat /\ place < Len(file)
        BY <2>1
      <4>2. Len(file) <= ((Len(file) + PageSize - 1) \div PageSize) * PageSize
        BY <1>0, <4>1, Covers
      <4>3. ((Len(file) + PageSize - 1) \div PageSize) * PageSize \in Nat
        <5> DEFINE x == Len(file) + PageSize - 1
        <5>1. x \in Nat
          BY <1>0, <4>1
        <5> HIDE DEF x
        <5>2. x \div PageSize \in Nat
          BY <1>0, <5>1, Halves
        <5>3. (x \div PageSize) * PageSize \in Nat
          BY <1>0, <5>2
        <5> QED BY <5>3 DEF x
      <4> HIDE DEF place
      <4> QED BY <2>1, <2>4, <4>1, <4>2, <4>3 DEF Checksum!Backed
    <3>3. Len(file) < filesize
      BY <2>1, <3>2 DEF Cut
    <3> QED BY <2>2, <3>1, <3>3 DEF Kinds, Opened, Cut, Checksum!KilledOnlyIfCut, Reading
  <2> QED BY <2>3, <2>4
<1>5. CASE Checksum!Unmap
  <2>1. /\ pc = "read" /\ i = mapping.length /\ pc' = "loop"
             /\ current_offset' = current_offset + Checksum!ChunkSize
        /\ UNCHANGED <<file, was, filesize, mapping, i, crc>>
    BY <1>5 DEF Checksum!Unmap, Checksum!NextOffset
  <2>2. /\ filesize \in Nat /\ current_offset \in Nat /\ current_offset < filesize
        /\ mapping.at = current_offset /\ mapping.length = Checksum!MapLen(current_offset)
    BY <2>1 DEF Kinds, Reading
  <2>3. current_offset' \in Nat /\ current_offset' % PageSize = 0
    BY <1>0, <2>1, <2>2, ChunkIs DEF Kinds
  <2>4. Kinds' /\ Opened' /\ Cut'
    BY <2>1, <2>3 DEF Kinds, Opened, Cut, Checksum!KilledOnlyIfCut
  <2>5. Reached' = mapping.at + i
    BY <1>0, <2>1, <2>2 DEF Reached, Checksum!MapLen
  <2>6. file = was => crc = BytesRead(mapping.at + i)
    BY <2>1 DEF Reading
  <2>7. Reading'
    BY <2>1, <2>5, <2>6 DEF Reading, BytesRead
  <2> QED BY <2>4, <2>7
<1>6. CASE Checksum!Report
  <2>1. /\ pc = "loop" /\ current_offset >= filesize /\ pc' = "reported" /\ crc' = Checksum!Ones - crc
        /\ UNCHANGED <<file, was, filesize, current_offset, mapping, i>>
    BY <1>6 DEF Checksum!Report
  <2>2. crc' \in 0..Checksum!Ones
    BY <1>0, <2>1 DEF Kinds
  <2>3. Kinds' /\ Opened' /\ Cut'
    BY <2>1, <2>2 DEF Kinds, Opened, Cut, Checksum!KilledOnlyIfCut
  <2>4. Reached = filesize
    BY <2>1 DEF Reached, Kinds
  <2>5. Reading'
    BY <2>1, <2>4 DEF Reading, BytesRead
  <2> QED BY <2>3, <2>5
<1>7. CASE Checksum!Truncate
  <2>1. PICK n \in 0..(Len(file) - 1) : file' = SubSeq(file, 1, n)
    BY <1>7 DEF Checksum!Truncate
  <2>2. /\ pc \in {"loop", "read"} /\ file = was
        /\ UNCHANGED <<was, filesize, pc, current_offset, mapping, i, crc>>
    BY <1>7 DEF Checksum!Truncate
  <2>3. file' \in Seq(Checksum!Bytes) /\ Len(file') = n /\ n < filesize /\ filesize = Len(was)
          /\ file \in Seq(Checksum!Bytes)
    <3>1. file \in Seq(Checksum!Bytes) /\ filesize = Len(file) /\ Len(file) \in Nat
      BY <2>2 DEF Kinds
    <3>2. SubSeq(file, 1, n) \in Seq(Checksum!Bytes) /\ Len(SubSeq(file, 1, n)) = n
      BY <3>1
    <3> QED BY <2>1, <2>2, <3>1, <3>2
  <2>4. file' # was'
    BY <2>2, <2>3
  <2>5. Kinds' /\ Opened' /\ Cut'
    BY <2>2, <2>3 DEF Kinds, Opened, Cut, Checksum!KilledOnlyIfCut
  <2>6. Reading'
    BY <2>2, <2>4 DEF Reading, Checksum!MapLen
  <2> QED BY <2>5, <2>6
<1>8. CASE UNCHANGED Checksum!vars
  BY <1>8 DEF Checksum!vars, Kinds, Opened, Cut, Checksum!KilledOnlyIfCut, Reading, BytesRead, Reached,
    Checksum!MapLen
<1> QED BY <1>1, <1>2, <1>3, <1>4, <1>5, <1>6, <1>7, <1>8 DEF Checksum!Next

\* The report of a file left alone is the checksum by its definition, whatever
\* the chunks, and only a cut kills the program (lines 63-88).
THEOREM ChecksumCorrect ==
  Checksum!ChecksumAssumption /\ Checksum!Spec => [](Checksum!TypeOK /\ Checksum!ReportsChecksum
    /\ Checksum!KilledOnlyIfCut)
<1> SUFFICES ASSUME Checksum!ChecksumAssumption
    PROVE Checksum!Spec => [](Checksum!TypeOK /\ Checksum!ReportsChecksum /\ Checksum!KilledOnlyIfCut)
  OBVIOUS
<1>1. Checksum!Init => CrcInv
  BY InitCrc
<1>2. CrcInv /\ [Checksum!Next]_Checksum!vars => CrcInv'
  BY StepCrc
<1>3. CrcInv => Checksum!TypeOK /\ Checksum!ReportsChecksum /\ Checksum!KilledOnlyIfCut
  <2> SUFFICES ASSUME CrcInv PROVE Checksum!TypeOK /\ Checksum!ReportsChecksum /\ Checksum!KilledOnlyIfCut
    OBVIOUS
  <2>1. Checksum!TypeOK
    BY DEF CrcInv, Kinds, Checksum!TypeOK
  <2>2. Checksum!ReportsChecksum
    <3> SUFFICES ASSUME pc = "reported", file = was PROVE crc = Checksum!Ones - Checksum!Remainder(was)
      BY DEF Checksum!ReportsChecksum
    <3>1. Checksum!Remainder(was) = Register(was)[Len(was) * CharBits]
      BY RemainderIs DEF CrcInv, Kinds
    <3> QED BY <3>1 DEF CrcInv, Kinds, Reading, BytesRead
  <2> QED BY <2>1, <2>2 DEF CrcInv, Cut
<1> QED BY <1>1, <1>2, <1>3, PTL DEF Checksum!Spec

-----------------------------------------------------------------------------
(* The composition: the program is chosen once, and takes its own steps.   *)

\* No step changes the program.
LEMMA ToolFixed == [Next]_vars => tool' = tool
  BY DEF Next, vars, notGame, notChecksum, notList, notZip, notForecast, notTree, notStats

\* A behaviour is one of the game, looked at by its field, or never is.
LEMMA RunsField == Spec => (([](tool = "field") /\ Field!Spec) \/ []~(tool = "field"))
<1>1. Init /\ tool = "field" => Field!Init
  BY DEF Init
<1>2. tool = "field" /\ [Next]_vars => [Field!Next]_Field!vars /\ (tool = "field")'
  <2> SUFFICES ASSUME tool = "field", [Next]_vars PROVE [Field!Next]_Field!vars
    BY ToolFixed
  <2>1. UNCHANGED vars => UNCHANGED Field!vars
    BY DEF vars, gameOnly, Field!vars, Field!table
  <2> QED BY <2>1 DEF Next
<1>3. ~(tool = "field") /\ [Next]_vars => (~(tool = "field"))'
  BY ToolFixed
<1> QED BY <1>1, <1>2, <1>3, PTL DEF Spec, Field!Spec

\* A behaviour is one of the game, looked at by its table, or never is.
LEMMA RunsScores == Spec => (([](tool = "scores") /\ Scores!Spec) \/ []~(tool = "scores"))
<1>1. Init /\ tool = "scores" => Scores!Init
  BY DEF Init
<1>2. tool = "scores" /\ [Next]_vars => [Scores!Next]_Scores!vars /\ (tool = "scores")'
  <2> SUFFICES ASSUME tool = "scores", [Next]_vars PROVE [Scores!Next]_Scores!vars
    BY ToolFixed
  <2>1. UNCHANGED vars => UNCHANGED Scores!vars
    BY DEF vars, gameOnly, Scores!vars, Scores!table
  <2> QED BY <2>1 DEF Next
<1>3. ~(tool = "scores") /\ [Next]_vars => (~(tool = "scores"))'
  BY ToolFixed
<1> QED BY <1>1, <1>2, <1>3, PTL DEF Spec, Scores!Spec

\* A behaviour is one of the checksum, or never is.
LEMMA RunsChecksum == Spec => (([](tool = "checksum") /\ Checksum!Spec) \/ []~(tool = "checksum"))
<1>1. Init /\ tool = "checksum" => Checksum!Init
  BY DEF Init
<1>2. tool = "checksum" /\ [Next]_vars => [Checksum!Next]_Checksum!vars /\ (tool = "checksum")'
  <2> SUFFICES ASSUME tool = "checksum", [Next]_vars PROVE [Checksum!Next]_Checksum!vars
    BY ToolFixed
  <2>1. UNCHANGED vars => UNCHANGED Checksum!vars
    BY DEF vars, checksumOnly, Checksum!vars
  <2> QED BY <2>1 DEF Next
<1>3. ~(tool = "checksum") /\ [Next]_vars => (~(tool = "checksum"))'
  BY ToolFixed
<1> QED BY <1>1, <1>2, <1>3, PTL DEF Spec, Checksum!Spec

\* A behaviour is one of the list library, or never is.
LEMMA RunsList == Spec => (([](tool = "list") /\ List!Spec) \/ []~(tool = "list"))
<1>1. Init /\ tool = "list" => List!Init
  BY DEF Init
<1>2. tool = "list" /\ [Next]_vars => [List!Next]_List!vars /\ (tool = "list")'
  <2> SUFFICES ASSUME tool = "list", [Next]_vars PROVE [List!Next]_List!vars
    BY ToolFixed
  <2>1. UNCHANGED vars => UNCHANGED List!vars
    BY DEF vars, listOnly, List!vars
  <2> QED BY <2>1 DEF Next
<1>3. ~(tool = "list") /\ [Next]_vars => (~(tool = "list"))'
  BY ToolFixed
<1> QED BY <1>1, <1>2, <1>3, PTL DEF Spec, List!Spec

\* A behaviour is one of the zip finder, or never is.
LEMMA RunsFinder == Spec => (([](tool = "zip") /\ Finder!Spec) \/ []~(tool = "zip"))
<1>1. Init /\ tool = "zip" => Finder!Init
  BY DEF Init
<1>2. tool = "zip" /\ [Next]_vars => [Finder!Next]_Finder!vars /\ (tool = "zip")'
  <2> SUFFICES ASSUME tool = "zip", [Next]_vars PROVE [Finder!Next]_Finder!vars
    BY ToolFixed
  <2>1. UNCHANGED vars => UNCHANGED Finder!vars
    BY DEF vars, zipOnly, Finder!vars
  <2> QED BY <2>1 DEF Next
<1>3. ~(tool = "zip") /\ [Next]_vars => (~(tool = "zip"))'
  BY ToolFixed
<1> QED BY <1>1, <1>2, <1>3, PTL DEF Spec, Finder!Spec

\* A behaviour is one of the weather client, or never is.
LEMMA RunsForecast == Spec => (([](tool = "weather") /\ Forecast!Spec) \/ []~(tool = "weather"))
<1>1. Init /\ tool = "weather" => Forecast!Init
  BY DEF Init
<1>2. tool = "weather" /\ [Next]_vars => [Forecast!Next]_Forecast!vars /\ (tool = "weather")'
  <2> SUFFICES ASSUME tool = "weather", [Next]_vars PROVE [Forecast!Next]_Forecast!vars
    BY ToolFixed
  <2>1. UNCHANGED vars => UNCHANGED Forecast!vars
    BY DEF vars, forecastOnly, Forecast!vars
  <2> QED BY <2>1 DEF Next
<1>3. ~(tool = "weather") /\ [Next]_vars => (~(tool = "weather"))'
  BY ToolFixed
<1> QED BY <1>1, <1>2, <1>3, PTL DEF Spec, Forecast!Spec

\* A behaviour is one of the tree viewer, or never is.
LEMMA RunsTree == Spec => (([](tool = "tree") /\ Tree!Spec) \/ []~(tool = "tree"))
<1>1. Init /\ tool = "tree" => Tree!Init
  BY DEF Init
<1>2. tool = "tree" /\ [Next]_vars => [Tree!Next]_Tree!vars /\ (tool = "tree")'
  <2> SUFFICES ASSUME tool = "tree", [Next]_vars PROVE [Tree!Next]_Tree!vars
    BY ToolFixed
  <2>1. UNCHANGED vars => UNCHANGED Tree!vars
    BY DEF vars, treeOnly, Tree!vars
  <2> QED BY <2>1 DEF Next
<1>3. ~(tool = "tree") /\ [Next]_vars => (~(tool = "tree"))'
  BY ToolFixed
<1> QED BY <1>1, <1>2, <1>3, PTL DEF Spec, Tree!Spec

\* A behaviour is one of the column statistics, or never is.
LEMMA RunsStats == Spec => (([](tool = "columns") /\ Stats!Spec) \/ []~(tool = "columns"))
<1>1. Init /\ tool = "columns" => Stats!Init
  BY DEF Init
<1>2. tool = "columns" /\ [Next]_vars => [Stats!Next]_Stats!vars /\ (tool = "columns")'
  <2> SUFFICES ASSUME tool = "columns", [Next]_vars PROVE [Stats!Next]_Stats!vars
    BY ToolFixed
  <2>1. UNCHANGED vars => UNCHANGED Stats!vars
    BY DEF vars, statsOnly, Stats!vars
  <2> QED BY <2>1 DEF Next
<1>3. ~(tool = "columns") /\ [Next]_vars => (~(tool = "columns"))'
  BY ToolFixed
<1> QED BY <1>1, <1>2, <1>3, PTL DEF Spec, Stats!Spec

\* The game opens no mine and all that an empty cell reaches, is won when every cell
\* without a mine is open, and keeps the best scores in order, on fields of any size
\* with any mines and over any number of games (src/17-minesweeper/main.c).
THEOREM GameCorrect == Spec => []GameFair
<1>1. Field!Spec => [](Field!TypeOK /\ Field!MinesHidden /\ Field!RevealClosed
                      /\ Field!WonWhenOpen /\ Field!TopScores)
  BY Field!GameFairCorrect, ToolsAssumption DEF ToolsAssumption
<1>2. Scores!Spec => [](Scores!TypeOK /\ Scores!MinesHidden /\ Scores!RevealClosed
                       /\ Scores!WonWhenOpen /\ Scores!TopScores)
  BY Scores!GameFairCorrect, ToolsAssumption DEF ToolsAssumption
<1> QED BY <1>1, <1>2, RunsField, RunsScores, PTL DEF GameFair

\* What a program shows at its end is what its input holds, for any input: the
\* checksum by its definition, the list's numbers, the archive's names, the hours of
\* the answer, the rows of every directory, the column's figures.
THEOREM OutputCorrect == Spec => []OutputRight
<1>1. Checksum!Spec => [](Checksum!TypeOK /\ Checksum!ReportsChecksum /\ Checksum!KilledOnlyIfCut)
  BY ChecksumCorrect, ToolsAssumption DEF ToolsAssumption
<1>2. List!Spec => [](List!SameRows /\ List!NothingLeaks /\ List!NoWildPointer)
  BY ListCorrect, ToolsAssumption DEF ToolsAssumption
<1>3. Finder!Spec => [](Finder!Listed /\ Finder!WalkAdvances /\ Finder!EndsInFile)
  BY ListedCorrect, ToolsAssumption DEF ToolsAssumption
<1>4. Forecast!Spec => [](Forecast!AnswerWhole /\ Forecast!HoursShown /\ Forecast!CrashCause)
  BY ForecastCorrect, ToolsAssumption DEF ToolsAssumption
<1>5. Tree!Spec => [](Tree!RowsUnderDirectories /\ Tree!CompleteOnSuccess)
  BY TreeCorrect, ToolsAssumption DEF ToolsAssumption
<1>6. Stats!Spec => [](Stats!DispersionIsVariance /\ Stats!SilentForCause /\ Stats!TextBehindFirst)
  BY ColumnShownCorrect, ToolsAssumption DEF ToolsAssumption
<1> QED BY <1>1, <1>2, <1>3, <1>4, <1>5, <1>6, RunsChecksum, RunsList, RunsFinder, RunsForecast,
      RunsTree, RunsStats, PTL DEF OutputRight

\* A program is killed, follows a wild pointer, leaks or leaves its input for the
\* causes its module names alone.
THEOREM CausesCorrect == Spec => []EndsForCause
<1>1. Checksum!Spec => [](Checksum!TypeOK /\ Checksum!ReportsChecksum /\ Checksum!KilledOnlyIfCut)
  BY ChecksumCorrect, ToolsAssumption DEF ToolsAssumption
<1>2. List!Spec => [](List!SameRows /\ List!NothingLeaks /\ List!NoWildPointer)
  BY ListCorrect, ToolsAssumption DEF ToolsAssumption
<1>3. Finder!Spec => [](Finder!Listed /\ Finder!WalkAdvances /\ Finder!EndsInFile)
  BY ListedCorrect, ToolsAssumption DEF ToolsAssumption
<1>4. Forecast!Spec => [](Forecast!AnswerWhole /\ Forecast!HoursShown /\ Forecast!CrashCause)
  BY ForecastCorrect, ToolsAssumption DEF ToolsAssumption
<1> QED BY <1>1, <1>2, <1>3, <1>4, RunsChecksum, RunsList, RunsFinder, RunsForecast, PTL DEF EndsForCause
=============================================================================
