-------------------------- MODULE RingBufferProofs --------------------------
(***************************************************************************)
(* The invariants of RingBuffer, for every number of tasks, every size of  *)
(* the buffer and every length of a call; and that the driver implements   *)
(* the ring of AtomicRing: what is between tail and head is a sequence, a  *)
(* byte that is taken or added changes it at an end, and a whole call does *)
(* to it, at its unlock, what it promises.                                 *)
(***************************************************************************)
EXTENDS RingBuffer, SequenceTheorems, TLAPS

Lengths == Sizes \cup {DEFAULT_SIZE}

Shaped(r) ==
  /\ r.head = (r.tail + r.count) % r.size
  /\ \A j \in 1..r.count : r.buffer[(r.tail + j - 1) % r.size] \in Bytes

----------------------------------------------------------------------------
(* Arithmetic of the positions *)

\* A remainder, which the provers see only through the lemmas below.
Mod(x, n) == x % n

\* A position inside the buffer is its own remainder.
LEMMA ModSmall ==
  ASSUME NEW n \in Nat \ {0}, NEW x \in Nat, x < n
  PROVE  Mod(x, n) = x
  BY SMT DEF Mod

\* A position up to one round further is that much further from the start.
LEMMA ModWrap ==
  ASSUME NEW n \in Nat \ {0}, NEW x \in Nat, n <= x, x < 2 * n
  PROVE  Mod(x, n) = x - n
  BY SMT DEF Mod

\* A remainder is a position.
LEMMA ModRange ==
  ASSUME NEW n \in Nat \ {0}, NEW x \in Nat
  PROVE  Mod(x, n) \in 0..(n - 1)
  BY SMT DEF Mod

----------------------------------------------------------------------------
(* The ring buffer *)

Ring(f, n, h, t, c) ==
  [buffer |-> f, size |-> n, head |-> h, tail |-> t, count |-> c]

\* A ring buffer is made of its fields, with which it is well formed or not.
LEMMA RingFields ==
  ASSUME NEW r \in Rings
  PROVE  \E n \in Lengths :
         \E f \in [0..(n - 1) -> Bytes \cup {Blank}], h, t \in 0..(n - 1), c \in 0..n :
            r = Ring(f, n, h, t, c)
<1>1. PICK n \in Lengths :
        r \in [buffer : [0..(n - 1) -> Bytes \cup {Blank}], size : {n},
               head : 0..(n - 1), tail : 0..(n - 1), count : 0..n]
  BY DEF Rings, Lengths
<1>2. r = Ring(r.buffer, n, r.head, r.tail, r.count)
  BY <1>1 DEF Ring
<1> QED
  BY <1>1, <1>2

\* What is made of such fields is a ring buffer.
LEMMA RingIntro ==
  ASSUME NEW n \in Lengths,
         NEW f \in [0..(n - 1) -> Bytes \cup {Blank}],
         NEW h \in 0..(n - 1), NEW t \in 0..(n - 1), NEW c \in 0..n
  PROVE  Ring(f, n, h, t, c) \in Rings
  BY DEF Rings, Lengths, Ring

\* The positions between t and t + c have been written.
Written(f, n, t, c) == \A j \in 1..c : f[Mod(t + j - 1, n)] \in Bytes

\* Being well formed, said of the fields.
LEMMA RingShaped ==
  ASSUME NEW f, NEW n, NEW h, NEW t, NEW c
  PROVE  Shaped(Ring(f, n, h, t, c)) <=> h = Mod(t + c, n) /\ Written(f, n, t, c)
  BY DEF Shaped, Ring, Written, Mod

\* A size is a positive number.
LEMMA LengthsPositive == \A n \in Lengths : n \in Nat \ {0}
  BY SizesAssumption DEF Lengths

\* The next position.
LEMMA ModNext ==
  ASSUME NEW n \in Nat \ {0}, NEW x \in 0..(n - 1)
  PROVE  Mod(x + 1, n) = IF x + 1 = n THEN 0 ELSE x + 1
<1>1. CASE x + 1 < n
  BY <1>1, ModSmall
<1>2. CASE x + 1 = n
  BY <1>2, ModWrap
<1> QED
  BY <1>1, <1>2

\* Going on from the next position is going on one further.
LEMMA ModShift ==
  ASSUME NEW n \in Nat \ {0}, NEW x \in 0..(n - 1), NEW d \in 0..n
  PROVE  Mod((Mod(x + 1, n)) + d, n) = Mod(x + 1 + d, n)
<1>1. CASE x + 1 = n
  <2>1. Mod(x + 1, n) = 0
    BY <1>1, ModNext
  <2>2. CASE d = n
    <3>1. Mod(d, n) = 0 /\ Mod(n + d, n) = 0
      BY <2>2, SMT DEF Mod
    <3> QED
      BY <2>1, <3>1, <1>1
  <2>3. CASE d < n
    <3>1. Mod(d, n) = d
      BY <2>3, ModSmall
    <3>2. Mod(n + d, n) = d
      BY <2>3, ModWrap
    <3> QED
      BY <2>1, <3>1, <3>2, <1>1
  <2> QED
    BY <2>2, <2>3
<1>2. CASE x + 1 # n
  BY <1>2, ModNext
<1> QED
  BY <1>1, <1>2

\* A position reached in fewer than n steps is not the one where it started, nor
\* are two such positions the same.
LEMMA ModInjective ==
  ASSUME NEW n \in Nat \ {0}, NEW x \in 0..(n - 1),
         NEW d \in 0..(n - 1), NEW e \in 0..(n - 1), Mod(x + d, n) = Mod(x + e, n)
  PROVE  d = e
<1>1. Mod(x + d, n) = IF x + d < n THEN x + d ELSE x + d - n
  BY ModSmall, ModWrap
<1>2. Mod(x + e, n) = IF x + e < n THEN x + e ELSE x + e - n
  BY ModSmall, ModWrap
<1> QED
  BY <1>1, <1>2

----------------------------------------------------------------------------
(* What the operations do to it *)

\* count is a number.
LEMMA RingCount ==
  ASSUME NEW r \in Rings
  PROVE  r.count \in Nat
<1>1. PICK n \in Lengths :
      \E f \in [0..(n - 1) -> Bytes \cup {Blank}], h, t \in 0..(n - 1), c \in 0..n :
         r = Ring(f, n, h, t, c)
  BY RingFields
<1>2. PICK f \in [0..(n - 1) -> Bytes \cup {Blank}], h \in 0..(n - 1),
           t \in 0..(n - 1), c \in 0..n : r = Ring(f, n, h, t, c)
  BY <1>1
<1> QED
  BY <1>2, LengthsPositive DEF Ring

\* A new buffer is well formed.
LEMMA EmptyShaped ==
  ASSUME NEW n \in Lengths
  PROVE  Empty(n) \in Rings /\ Shaped(Empty(n))
<1> DEFINE f == [j \in 0..(n - 1) |-> Blank]
<1>1. n \in Nat \ {0}
  BY LengthsPositive
<1>2. Empty(n) = Ring(f, n, 0, 0, 0)
  BY DEF Empty, Ring
<1>3. Ring(f, n, 0, 0, 0) \in Rings
  BY <1>1, RingIntro
<1>4. Mod(0 + 0, n) = 0 /\ Written(f, n, 0, 0)
  BY <1>1, ModSmall DEF Written
<1> QED
  BY <1>2, <1>3, <1>4, RingShaped

\* The ioctl leaves a well-formed buffer.
LEMMA WipeShaped ==
  ASSUME NEW r \in Rings
  PROVE  /\ [r EXCEPT !.head = 0, !.tail = 0, !.count = 0] \in Rings
         /\ Shaped([r EXCEPT !.head = 0, !.tail = 0, !.count = 0])
<1>1. PICK n \in Lengths :
      \E f \in [0..(n - 1) -> Bytes \cup {Blank}], h, t \in 0..(n - 1), c \in 0..n :
         r = Ring(f, n, h, t, c)
  BY RingFields
<1>2. PICK f \in [0..(n - 1) -> Bytes \cup {Blank}], h \in 0..(n - 1),
           t \in 0..(n - 1), c \in 0..n : r = Ring(f, n, h, t, c)
  BY <1>1
<1>3. n \in Nat \ {0}
  BY LengthsPositive
<1>4. [r EXCEPT !.head = 0, !.tail = 0, !.count = 0] = Ring(f, n, 0, 0, 0)
  <2> DEFINE a == [r EXCEPT !.head = 0]
             b == [a EXCEPT !.tail = 0]
  <2>1. a = Ring(f, n, 0, t, c)
    BY <1>2 DEF Ring
  <2>2. b = Ring(f, n, 0, 0, c)
    <3> HIDE DEF a
    <3> QED
      BY <2>1 DEF Ring
  <2>3. [b EXCEPT !.count = 0] = Ring(f, n, 0, 0, 0)
    <3> HIDE DEF b
    <3> QED
      BY <2>2 DEF Ring
  <2> QED
    BY <2>3
<1>5. Ring(f, n, 0, 0, 0) \in Rings
  BY <1>3, RingIntro
<1>6. Mod(0 + 0, n) = 0 /\ Written(f, n, 0, 0)
  BY <1>3, ModSmall DEF Written
<1> QED
  BY <1>4, <1>5, <1>6, RingShaped

\* A reader takes a byte that was written, and leaves a well-formed buffer.
LEMMA TakeShaped ==
  ASSUME NEW r \in Rings, Shaped(r), r.count > 0
  PROVE  /\ Take(r) \in Rings /\ Shaped(Take(r))
         /\ Take(r).count = r.count - 1
         /\ r.buffer[r.tail] \in Bytes
<1>1. PICK n \in Lengths :
      \E f \in [0..(n - 1) -> Bytes \cup {Blank}], h, t \in 0..(n - 1), c \in 0..n :
         r = Ring(f, n, h, t, c)
  BY RingFields
<1>2. PICK f \in [0..(n - 1) -> Bytes \cup {Blank}], h \in 0..(n - 1),
           t \in 0..(n - 1), c \in 0..n : r = Ring(f, n, h, t, c)
  BY <1>1
<1>3. n \in Nat \ {0}
  BY LengthsPositive
<1> DEFINE next == Mod(t + 1, n)
<1>4. c > 0 /\ r.buffer[r.tail] = f[t]
  BY <1>2 DEF Ring
<1>5. h = Mod(t + c, n) /\ Written(f, n, t, c)
  BY <1>2, RingShaped
<1>6. Take(r) = Ring(f, n, h, next, c - 1)
  <2> DEFINE a == [r EXCEPT !.tail = (r.tail + 1) % r.size]
  <2>1. a = Ring(f, n, h, next, c)
    BY <1>2 DEF Ring, Mod
  <2>2. [a EXCEPT !.count = r.count - 1] = Ring(f, n, h, next, c - 1)
    <3> HIDE DEF a
    <3> QED
      BY <2>1, <1>2 DEF Ring
  <2> QED
    BY <2>2 DEF Take
<1>7. next \in 0..(n - 1)
  BY <1>3, ModNext
<1>8. Ring(f, n, h, next, c - 1) \in Rings
  BY <1>3, <1>4, <1>7, RingIntro
<1>9. Mod(next + (c - 1), n) = Mod(t + c, n)
  <2>1. c - 1 \in 0..n /\ t + 1 + (c - 1) = t + c
    BY <1>3, <1>4
  <2> QED
    BY <2>1, <1>3, ModShift
<1>10. Written(f, n, next, c - 1)
  <2> SUFFICES ASSUME NEW j \in 1..(c - 1)
               PROVE  f[Mod(next + j - 1, n)] \in Bytes
    BY DEF Written
  <2>1. /\ j - 1 \in 0..n /\ t + 1 + (j - 1) = t + (j + 1) - 1 /\ j + 1 \in 1..c
        /\ next + j - 1 = next + (j - 1)
    BY <1>3, <1>7
  <2>2. Mod(next + j - 1, n) = Mod(t + (j + 1) - 1, n)
    BY <2>1, <1>3, ModShift
  <2> QED
    BY <2>1, <2>2, <1>5 DEF Written
<1>11. f[t] \in Bytes
  <2>1. Mod(t + 1 - 1, n) = t /\ 1 \in 1..c
    BY <1>3, <1>4, ModSmall
  <2> QED
    BY <2>1, <1>5 DEF Written
<1>12. Ring(f, n, h, next, c - 1).count = c - 1 /\ r.count = c
  BY <1>2 DEF Ring
<1> QED
  BY <1>4, <1>5, <1>6, <1>8, <1>9, <1>10, <1>11, <1>12, RingShaped

\* A writer adds a byte, over the oldest one if the buffer is full, and leaves a
\* well-formed buffer.
LEMMA AddShaped ==
  ASSUME NEW r \in Rings, NEW b \in Bytes, Shaped(r)
  PROVE  Add(r, b) \in Rings /\ Shaped(Add(r, b))
<1>1. PICK n \in Lengths :
      \E f \in [0..(n - 1) -> Bytes \cup {Blank}], h, t \in 0..(n - 1), c \in 0..n :
         r = Ring(f, n, h, t, c)
  BY RingFields
<1>2. PICK f \in [0..(n - 1) -> Bytes \cup {Blank}], h \in 0..(n - 1),
           t \in 0..(n - 1), c \in 0..n : r = Ring(f, n, h, t, c)
  BY <1>1
<1>3. n \in Nat \ {0}
  BY LengthsPositive
<1> DEFINE g == [f EXCEPT ![h] = b]
           nextHead == Mod(h + 1, n)
           nextTail == Mod(t + 1, n)
<1>4. h = Mod(t + c, n) /\ Written(f, n, t, c)
  BY <1>2, RingShaped
<1>5. nextHead \in 0..(n - 1) /\ nextTail \in 0..(n - 1)
  BY <1>3, ModNext
<1>6. /\ g \in [0..(n - 1) -> Bytes \cup {Blank}]
      /\ g[h] = b
      /\ \A i \in 0..(n - 1) : i # h => g[i] = f[i]
  OBVIOUS
<1>7. nextHead = Mod(t + c + 1, n)
  <2>1. CASE c = n
    <3>1. Mod(t + c, n) = t
      BY <2>1, <1>3, ModWrap
    <3>2. Mod(t + c + 1, n) = Mod(t + 1, n)
      <4>1. CASE t + 1 = n
        BY <4>1, <2>1, <1>3, SMT DEF Mod
      <4>2. CASE t + 1 < n
        <5>1. Mod(t + c + 1, n) = t + 1
          BY <4>2, <2>1, <1>3, ModWrap
        <5> QED
          BY <5>1, <4>2, <1>3, ModSmall
      <4> QED
        BY <4>1, <4>2, <1>3
    <3> QED
      BY <3>1, <3>2, <1>4
  <2>2. CASE c < n
    <3>1. CASE t + c < n
      <4>1. h = t + c
        BY <3>1, <1>3, <1>4, ModSmall
      <4> QED
        BY <4>1
    <3>2. CASE t + c >= n
      <4>1. h = t + c - n
        BY <3>2, <2>2, <1>3, <1>4, ModWrap
      <4>2. h + 1 < n
        BY <4>1, <2>2, <1>3
      <4>3. Mod(t + c + 1, n) = h + 1
        BY <4>1, <4>2, <3>2, <1>3, ModWrap
      <4> QED
        BY <4>2, <4>3, <1>3, ModSmall
    <3> QED
      BY <3>1, <3>2, <1>3
  <2> QED
    BY <2>1, <2>2, <1>3
\* A position behind the head, on the way from the tail, keeps its byte.
<1>8. ASSUME NEW j \in 1..c, Mod(t + j - 1, n) # h
      PROVE  g[Mod(t + j - 1, n)] \in Bytes
  <2>1. Mod(t + j - 1, n) \in 0..(n - 1)
    BY <1>3, ModRange
  <2>2. f[Mod(t + j - 1, n)] \in Bytes
    BY <1>4 DEF Written
  <2> QED
    BY <2>1, <2>2, <1>6, <1>8
<1>9. CASE c < n
  <2>1. Add(r, b) = Ring(g, n, nextHead, t, c + 1)
    BY <1>2, <1>9 DEF Ring, Add, Mod
  <2> HIDE DEF g, nextHead, nextTail
  <2>2. Ring(g, n, nextHead, t, c + 1) \in Rings
    BY <1>3, <1>5, <1>6, <1>9, RingIntro
  <2>3. Written(g, n, t, c + 1)
    <3> SUFFICES ASSUME NEW j \in 1..(c + 1)
                 PROVE  g[Mod(t + j - 1, n)] \in Bytes
      BY DEF Written
    <3>1. CASE j = c + 1
      <4>1. Mod(t + j - 1, n) = h
        BY <3>1, <1>4
      <4> QED
        BY <4>1, <1>6
    <3>2. CASE j \in 1..c
      <4>1. j - 1 \in 0..(n - 1) /\ c \in 0..(n - 1) /\ j - 1 # c /\ t + j - 1 = t + (j - 1)
        BY <3>2, <1>3, <1>9
      <4>2. Mod(t + j - 1, n) # h
        BY <4>1, <1>3, <1>4, ModInjective
      <4> QED
        BY <3>2, <4>2, <1>8
    <3> QED
      BY <3>1, <3>2, <1>3
  <2>4. t + (c + 1) = t + c + 1
    BY <1>3
  <2> QED
    BY <2>1, <2>2, <2>3, <2>4, <1>7, RingShaped
<1>10. CASE c = n
  <2>1. Add(r, b) = Ring(g, n, nextHead, nextTail, c)
    <3> DEFINE a == [r EXCEPT !.buffer[r.head] = b, !.head = (r.head + 1) % r.size]
    <3> DEFINE a0 == [r EXCEPT !.buffer[r.head] = b]
    <3>0. a0 = Ring(g, n, h, t, c)
      BY <1>2 DEF Ring
    <3>1. [a0 EXCEPT !.head = (r.head + 1) % r.size] = Ring(g, n, nextHead, t, c)
      <4> HIDE DEF a0, g
      <4> QED
        BY <3>0, <1>2 DEF Ring, Mod
    <3>11. a = Ring(g, n, nextHead, t, c)
      BY <3>1
    <3>2. [a EXCEPT !.tail = (a.tail + 1) % r.size] = Ring(g, n, nextHead, nextTail, c)
      <4> HIDE DEF a
      <4> QED
        BY <3>11, <1>2 DEF Ring, Mod
    <3>3. ~(r.count < r.size)
      BY <1>2, <1>3, <1>10 DEF Ring
    <3> QED
      BY <3>2, <3>3 DEF Add
  <2>2. h = t
    BY <1>3, <1>4, <1>10, ModWrap
  <2>3. Mod(nextTail + c, n) = Mod(t + 1 + c, n)
    BY <1>3, <1>10, ModShift
  <2>4. t + 1 + c = t + c + 1
    BY <1>3
  <2> HIDE DEF g, nextHead
  <2>5. Ring(g, n, nextHead, nextTail, c) \in Rings
    BY <1>3, <1>5, <1>6, RingIntro
  <2>6. Written(g, n, nextTail, c)
    <3> SUFFICES ASSUME NEW j \in 1..c
                 PROVE  g[Mod(nextTail + j - 1, n)] \in Bytes
      BY DEF Written
    <3>1. /\ j - 1 \in 0..n /\ t + 1 + (j - 1) = t + (j + 1) - 1
          /\ nextTail + j - 1 = nextTail + (j - 1)
      BY <1>3, <1>5, <1>10
    <3>2. Mod(nextTail + j - 1, n) = Mod(t + (j + 1) - 1, n)
      BY <3>1, <1>3, ModShift
    <3>3. CASE j = n
      <4>1. Mod(t + (j + 1) - 1, n) = h
        BY <3>3, <1>4, <1>10
      <4> QED
        BY <4>1, <3>2, <1>6
    <3>4. CASE j < n
      <4>1. j + 1 \in 1..c /\ j # 0 /\ j \in 0..(n - 1) /\ 0 \in 0..(n - 1) /\ t + (j + 1) - 1 = t + j
        BY <3>4, <1>3, <1>10
      <4>2. Mod(t + 0, n) = h
        BY <2>2, <1>3, ModSmall
      <4>3. Mod(t + j, n) # Mod(t + 0, n)
        BY <4>1, <1>3, ModInjective
      <4> QED
        BY <4>1, <4>2, <4>3, <3>2, <1>8
    <3> QED
      BY <3>3, <3>4, <1>3, <1>10
  <2> QED
    BY <2>1, <2>3, <2>4, <2>5, <2>6, <1>7, RingShaped
<1> QED
  BY <1>9, <1>10, <1>3

----------------------------------------------------------------------------
(* The steps of the tasks and of the module *)

\* RingShape says of rb what Shaped says of any ring buffer.
LEMMA ShapeOfRb == RingShape <=> Shaped(rb)
  BY DEF RingShape, Shaped, Contents

\* Calls are told apart by their op.
LEMMA RequestOps ==
  /\ Idle \notin Requests
  /\ \A q \in Requests :
       /\ q.op \in Calling
       /\ q.op = "read" => q.count \in Nat
       /\ q.op = "write" => q.data \in Seq(Bytes)
       /\ q.op = "resize" => q.size \in Sizes
<1>1. ASSUME NEW q \in Requests
      PROVE  /\ q.op \in Calling /\ q # Idle
             /\ q.op = "read" => q.count \in Nat
             /\ q.op = "write" => q.data \in Seq(Bytes)
             /\ q.op = "resize" => q.size \in Sizes
  <2>1. CASE q = [op |-> "wipe"]
    BY <2>1 DEF Idle, Calling
  <2>2. ASSUME NEW n \in ReadCounts, q = [op |-> "read", count |-> n] PROVE <1>1!2
    BY <2>2, ReadsAssumption DEF Idle, Calling
  <2>3. ASSUME NEW w \in Writes, q = [op |-> "write", data |-> w] PROVE <1>1!2
    BY <2>3, WritesAssumption DEF Idle, Calling
  <2>4. ASSUME NEW n \in Sizes, q = [op |-> "resize", size |-> n] PROVE <1>1!2
    BY <2>4 DEF Idle, Calling
  <2> QED
    BY <2>1, <2>2, <2>3, <2>4 DEF Requests
<1> QED
  BY <1>1

\* A step that changes nothing the invariant speaks of keeps it.
LEMMA QuietStep ==
  ASSUME Inv, UNCHANGED <<rb, lock, device_mutex, holders, module, taskVars, before>>
  PROVE  Inv'
<1>1. TypeOK'
  BY DEF Inv, TypeOK, taskVars
<1>2. RingShape' /\ BusyWhileOpen'
  BY DEF Inv, RingShape, Contents, BusyWhileOpen
<1>3. CallInv' /\ MoveInv' /\ ModuleInv'
  BY DEF Inv, CallInv, MoveInv, ModuleInv, InCall, Usable, taskVars
<1> QED
  BY <1>1, <1>2, <1>3 DEF Inv

\* A call that returns keeps it if it leaves a well-formed buffer: either it had
\* the lock and gives it up, or it leaves lock and buffer alone.
LEMMA ReturnStep ==
  ASSUME Inv, NEW t \in Tasks, NEW ret, NEW data, Returns(t, ret, data),
         rb' \in Rings, Shaped(rb)', before' \in Rings,
         \/ pc[t] \in Calling /\ lock' = Nobody
         \/ pc[t] = "lock" /\ UNCHANGED <<rb, lock>>
  PROVE  Inv'
<1> USE DEF Inv
<1>1. /\ pc' = [pc EXCEPT ![t] = "user"]
      /\ call' = [call EXCEPT ![t] = Idle]
      /\ todo' = [todo EXCEPT ![t] = 0]
      /\ moved' = [moved EXCEPT ![t] = <<>>]
      /\ UNCHANGED <<device_mutex, holders, module>>
  BY DEF Returns
<1>2. TypeOK'
  BY <1>1 DEF TypeOK
<1>3. RingShape'
  BY ShapeOfRb, PTL
<1>4. \A u \in Tasks : u # t => /\ pc'[u] = pc[u] /\ call'[u] = call[u]
                               /\ todo'[u] = todo[u] /\ moved'[u] = moved[u]
  BY <1>1 DEF TypeOK
<1>5. pc'[t] = "user"
  BY <1>1 DEF TypeOK
<1>6. \A u \in Tasks : u # t /\ pc[u] \in Calling => lock' = lock /\ rb' = rb
  BY DEF CallInv
<1>7. CallInv'
  BY <1>1, <1>4, <1>5, <1>6 DEF CallInv, InCall, Calling, Usable
<1>8. MoveInv'
  <2> SUFFICES ASSUME NEW u \in Tasks
               PROVE  /\ pc'[u] = "read" => todo'[u] - Len(moved'[u]) <= rb'.count
                      /\ pc'[u] = "write" => todo'[u] = Len(call'[u].data)
    BY DEF MoveInv
  <2>1. CASE u = t
    BY <2>1, <1>5
  <2>2. CASE u # t
    BY <2>2, <1>4, <1>6 DEF MoveInv, Calling
  <2> QED
    BY <2>1, <2>2
<1>9. ModuleInv'
  BY <1>1, <1>4, <1>5 DEF ModuleInv, InCall, Calling
<1>10. BusyWhileOpen'
  BY <1>1 DEF BusyWhileOpen
<1> QED
  BY <1>2, <1>3, <1>7, <1>8, <1>9, <1>10

\* A task opens, shares or closes the file.
LEMMA FileStep ==
  ASSUME Inv, NEW t \in Tasks, Open(t) \/ Close(t) \/ \E u \in Tasks : Share(t, u)
  PROVE  Inv'
<1> USE DEF Inv
<1>1. UNCHANGED <<rb, lock, module, pc, call, todo, moved, before>>
  BY DEF Open, Close, Share, taskVars
<1>2. \A u \in Tasks : InCall(u) => u \in holders' \/ u \notin holders
  BY DEF Open, Close, Share, InCall, InUser, Calling, BusyWhileOpen
<1>3. holders' \subseteq Tasks /\ device_mutex' \in BOOLEAN
  BY DEF Open, Close, Share, TypeOK
<1>4. device_mutex' <=> holders' # {}
  BY DEF Open, Close, Share, BusyWhileOpen
<1>5. holders = {} => holders' = {} \/ module \in {"registered", "allocated", "live"}
  BY DEF Open, Close, Share, Openable
<1>6. TypeOK'
  BY <1>1, <1>3 DEF TypeOK
<1>7. RingShape' /\ BusyWhileOpen'
  BY <1>1, <1>4 DEF RingShape, Contents, BusyWhileOpen
<1>8. CallInv' /\ MoveInv' /\ ModuleInv'
  BY <1>1, <1>2, <1>5 DEF CallInv, MoveInv, ModuleInv, InCall, Usable
<1> QED
  BY <1>6, <1>7, <1>8

\* A task makes a call.
LEMMA CallStep ==
  ASSUME Inv, NEW t \in Tasks, Call(t)
  PROVE  Inv'
<1> USE DEF Inv
<1>1. PICK request \in Requests :
        /\ IF request.op \in Sysfs THEN SysfsExists ELSE t \in holders
        /\ call' = [call EXCEPT ![t] = request]
  BY DEF Call
<1>2. /\ pc[t] = "user" /\ pc' = [pc EXCEPT ![t] = "lock"]
      /\ UNCHANGED <<rb, lock, device_mutex, holders, module, todo, moved, before>>
  BY DEF Call, InUser
<1>3. TypeOK'
  BY <1>1, <1>2 DEF TypeOK
<1>4. RingShape' /\ BusyWhileOpen'
  BY <1>2 DEF RingShape, Contents, BusyWhileOpen
<1>5. pc'[t] = "lock" /\ call'[t] = request
  BY <1>1, <1>2 DEF TypeOK
<1>6. \A u \in Tasks : u # t => pc'[u] = pc[u] /\ call'[u] = call[u]
  BY <1>1, <1>2 DEF TypeOK
<1>7. CallInv'
  BY <1>1, <1>2, <1>5, <1>6 DEF CallInv, InCall, Calling, Usable
<1>8. MoveInv'
  BY <1>2, <1>5, <1>6 DEF MoveInv
<1>9. ModuleInv'
  BY <1>1, <1>2, <1>5, <1>6 DEF ModuleInv, InCall, Calling, SysfsExists
<1> QED
  BY <1>3, <1>4, <1>7, <1>8, <1>9

\* A task gets the lock: nobody else is at work.
LEMMA LockStep ==
  ASSUME Inv, NEW t \in Tasks, Lock(t)
  PROVE  Inv'
<1> USE DEF Inv
<1>1. /\ pc[t] = "lock" /\ Usable /\ lock = Nobody /\ lock' = t /\ before' = rb
      /\ pc' = [pc EXCEPT ![t] = call[t].op]
      /\ todo' = [todo EXCEPT ![t] = ToMove(t)]
      /\ UNCHANGED <<rb, device_mutex, holders, module, call, moved>>
  BY DEF Lock
<1>2. call[t] \in Requests
  BY <1>1 DEF CallInv, InCall, Usable
<1>3. rb.count \in Nat
  BY RingCount DEF TypeOK
<1>4. /\ ToMove(t) \in Nat
      /\ call[t].op = "read" => ToMove(t) <= rb.count
      /\ call[t].op = "write" => ToMove(t) = Len(call[t].data)
  BY <1>2, <1>3, RequestOps DEF ToMove
<1>5. TypeOK'
  BY <1>1, <1>2, <1>4, RequestOps DEF TypeOK
<1>6. RingShape' /\ BusyWhileOpen'
  BY <1>1 DEF RingShape, Contents, BusyWhileOpen
<1>7. pc'[t] = call[t].op /\ todo'[t] = ToMove(t)
  BY <1>1 DEF TypeOK
<1>8. \A u \in Tasks : u # t => pc'[u] = pc[u] /\ todo'[u] = todo[u]
  BY <1>1 DEF TypeOK
<1>9. \A u \in Tasks : pc[u] \notin Calling
  BY <1>1, NobodyAssumption DEF CallInv
<1>10. CallInv'
  BY <1>1, <1>2, <1>7, <1>8, <1>9, RequestOps DEF CallInv, InCall, Usable
<1>11. MoveInv'
  <2> SUFFICES ASSUME NEW u \in Tasks
               PROVE  /\ pc'[u] = "read" => todo'[u] - Len(moved'[u]) <= rb'.count
                      /\ pc'[u] = "write" => todo'[u] = Len(call'[u].data)
    BY DEF MoveInv
  <2>1. CASE u = t
    <3>1. Len(moved[t]) \in Nat
      BY DEF TypeOK
    <3> QED
      BY <2>1, <3>1, <1>1, <1>3, <1>4, <1>7
  <2>2. CASE u # t
    BY <2>2, <1>8, <1>9 DEF Calling
  <2> QED
    BY <2>1, <2>2
<1>12. ModuleInv'
  BY <1>1, <1>7, <1>8, <1>2 DEF ModuleInv, InCall
<1> QED
  BY <1>5, <1>6, <1>10, <1>11, <1>12

\* A task at work moves a byte.
LEMMA MoveStep ==
  ASSUME Inv, NEW t \in Tasks, NEW b \in Bytes, Moves(t, b),
         Moving(t, "read") \/ Moving(t, "write"),
         rb' \in Rings, Shaped(rb)', pc[t] = "read" => rb'.count = rb.count - 1
  PROVE  Inv'
<1> USE DEF Inv
<1>1. /\ moved' = [moved EXCEPT ![t] = Append(@, b)]
      /\ UNCHANGED <<lock, device_mutex, holders, module, pc, call, todo, before>>
  BY DEF Moves
<1>2. pc[t] \in {"read", "write"} /\ lock = t
  BY DEF Moving, CallInv, Calling
<1>3. /\ moved[t] \in Seq(Bytes)
      /\ moved'[t] = Append(moved[t], b)
      /\ \A u \in Tasks : u # t => moved'[u] = moved[u]
  BY <1>1 DEF TypeOK
<1>4. TypeOK'
  BY <1>1, <1>3 DEF TypeOK
<1>5. RingShape'
  BY ShapeOfRb, PTL
<1>6. CallInv' /\ ModuleInv' /\ BusyWhileOpen'
  BY <1>1 DEF CallInv, ModuleInv, InCall, Usable, BusyWhileOpen
<1>7. MoveInv'
  <2> SUFFICES ASSUME NEW u \in Tasks
               PROVE  /\ pc[u] = "read" => todo[u] - Len(moved'[u]) <= rb'.count
                      /\ pc[u] = "write" => todo[u] = Len(call[u].data)
    BY <1>1 DEF MoveInv
  <2>1. pc[u] = "write" => todo[u] = Len(call[u].data)
    BY DEF MoveInv
  <2>2. CASE u = t /\ pc[t] = "read"
    <3>1. Len(moved'[t]) = Len(moved[t]) + 1 /\ Len(moved[t]) \in Nat
      BY <1>3
    <3>2. todo[t] \in Nat /\ rb.count \in Nat
      BY RingCount DEF TypeOK
    <3>3. todo[t] - Len(moved[t]) <= rb.count
      BY <2>2 DEF MoveInv
    <3> QED
      BY <2>1, <2>2, <3>1, <3>2, <3>3
  <2>3. CASE u # t
    BY <2>1, <2>3, <1>2 DEF CallInv, Calling
  <2> QED
    BY <2>1, <2>2, <2>3
<1> QED
  BY <1>4, <1>5, <1>6, <1>7

\* The module is loaded or unloaded.
LEMMA LoadKeeps ==
  ASSUME Inv, LoadStep
  PROVE  Inv'
<1> USE DEF Inv
<1>1. UNCHANGED <<lock, device_mutex, holders, pc, call, todo, moved, before>>
  BY DEF LoadStep, Register, Allocate, Ready, LoadFails, InitRbFails, Unload, Unloaded,
         Phase, taskVars
<1>2. /\ module' \in {"unloaded", "registered", "allocated", "live", "unloading",
                      "failed", "dangling"}
      /\ module' \in {"unloading", "unloaded"} => holders = {}
      /\ module' = "unloaded" => \A u \in Tasks : call[u].op \notin Sysfs
  BY DEF LoadStep, Register, Allocate, Ready, LoadFails, InitRbFails, Unload, Unloaded,
         Phase, ModuleInv
<1>3. /\ rb' = rb \/ (rb' = Empty(DEFAULT_SIZE) /\ module = "registered")
      /\ module \in {"live", "unloading"} => \/ module' \in {"live", "unloading"}
                                             \/ module' = "unloaded" /\ rb' = rb
  BY DEF LoadStep, Register, Allocate, Ready, LoadFails, InitRbFails, Unload, Unloaded,
         Phase
<1>4. DEFAULT_SIZE \in Lengths
  BY DEF Lengths
<1>5. rb' \in Rings
  BY <1>3, <1>4, EmptyShaped DEF TypeOK
<1>6. Shaped(rb')
  BY <1>3, <1>4, EmptyShaped, ShapeOfRb
<1>7. TypeOK'
  BY <1>1, <1>2, <1>5 DEF TypeOK
<1>8. RingShape'
  <2>1. Shaped(rb)'
    BY <1>6 DEF Shaped
  <2> QED
    BY <2>1, ShapeOfRb, PTL
\* Nobody works while the module is loaded, nor after it is unloaded.
<1>9. \A u \in Tasks : pc[u] \in Calling => rb' = rb /\ module' \in {"live", "unloading"}
  <2> SUFFICES ASSUME NEW u \in Tasks, pc[u] \in Calling
               PROVE  rb' = rb /\ module' \in {"live", "unloading"}
    OBVIOUS
  <2>1. /\ module \in {"live", "unloading"}
        /\ call[u].op \in Sysfs \/ u \in holders
    BY DEF CallInv, InCall, Usable
  <2> QED
    BY <2>1, <1>2, <1>3
<1>10. CallInv'
  BY <1>1, <1>9 DEF CallInv, InCall, Usable
<1>11. MoveInv'
  BY <1>1, <1>9 DEF MoveInv, Calling
<1>12. ModuleInv'
  BY <1>1, <1>2 DEF ModuleInv, InCall
<1>13. BusyWhileOpen'
  BY <1>1 DEF BusyWhileOpen
<1> QED
  BY <1>7, <1>8, <1>10, <1>11, <1>12, <1>13

\* A task dies in a module that did not finish loading.
LEMMA OopsStep ==
  ASSUME Inv, NEW t \in Tasks, Oops(t)
  PROVE  Inv'
<1> USE DEF Inv
<1>1. /\ pc' = [pc EXCEPT ![t] = "oops"]
      /\ UNCHANGED <<rb, lock, device_mutex, holders, module, call, todo, moved, before>>
  BY DEF Oops
<1>2. pc'[t] = "oops" /\ \A u \in Tasks : u # t => pc'[u] = pc[u]
  BY <1>1 DEF TypeOK
<1>3. TypeOK'
  BY <1>1 DEF TypeOK
<1>4. RingShape' /\ BusyWhileOpen'
  BY <1>1 DEF RingShape, Contents, BusyWhileOpen
<1>5. CallInv' /\ ModuleInv'
  BY <1>1, <1>2 DEF CallInv, ModuleInv, InCall, Calling, Usable
<1>6. MoveInv'
  BY <1>1, <1>2 DEF MoveInv
<1> QED
  BY <1>3, <1>4, <1>5, <1>6

\* A task does a step of a call under the lock.
LEMMA WorkStep ==
  ASSUME Inv, NEW t \in Tasks, Work(t)
  PROVE  Inv'
<1> USE DEF Inv
<1>1. rb \in Rings /\ Shaped(rb) /\ rb.count \in Nat
  BY ShapeOfRb, RingCount DEF TypeOK
<1>2. Empty(DEFAULT_SIZE) \in Rings
  BY EmptyShaped DEF Lengths
<1>3. pc[t] \in Calling
  BY DEF Work, ReadByte, ReadFault, ReadEnd, WriteByte, WriteFault, WriteEnd, Wipe, Resize,
         ResizeNoMemory, Moving, Calling
<1>4. pc[t] = call[t].op /\ call[t] \in Requests
  BY <1>3 DEF CallInv, InCall
<1>5. CASE ReadByte(t)
  <2>1. /\ pc[t] = "read" /\ Len(moved[t]) < todo[t]
        /\ rb' = Take(rb) /\ Moves(t, rb.buffer[rb.tail])
    BY <1>5 DEF ReadByte, Moving
  <2>2. rb.count > 0
    <3>1. Len(moved[t]) \in Nat /\ todo[t] \in Nat
      BY DEF TypeOK
    <3>2. todo[t] - Len(moved[t]) <= rb.count
      BY <2>1 DEF MoveInv
    <3> QED
      BY <2>1, <3>1, <3>2, <1>1
  <2>3. /\ Take(rb) \in Rings /\ Shaped(Take(rb))
        /\ Take(rb).count = rb.count - 1 /\ rb.buffer[rb.tail] \in Bytes
    BY <1>1, <2>2, TakeShaped
  <2>4. rb' \in Rings /\ Shaped(rb)' /\ rb'.count = rb.count - 1
    <3>1. Shaped(rb')
      BY <2>1, <2>3
    <3> QED
      BY <2>1, <2>3, <3>1 DEF Shaped
  <2>5. Moving(t, "read")
    BY <1>5 DEF ReadByte
  <2> QED
    BY <2>1, <2>3, <2>4, <2>5, MoveStep
<1>6. CASE WriteByte(t)
  <2> DEFINE b == call[t].data[Len(moved[t]) + 1]
  <2>1. /\ pc[t] = "write" /\ Len(moved[t]) < todo[t]
        /\ rb' = Add(rb, b) /\ Moves(t, b) /\ Moving(t, "write")
    BY <1>6 DEF WriteByte, Moving
  <2>2. b \in Bytes
    <3>1. call[t].data \in Seq(Bytes) /\ todo[t] = Len(call[t].data)
      BY <2>1, <1>4, RequestOps DEF MoveInv
    <3>2. Len(moved[t]) \in Nat
      BY DEF TypeOK
    <3>3. Len(moved[t]) + 1 \in 1..Len(call[t].data)
      BY <2>1, <3>1, <3>2
    <3> QED
      BY <3>1, <3>3
  <2> HIDE DEF b
  <2>3. Add(rb, b) \in Rings /\ Shaped(Add(rb, b))
    BY <1>1, <2>2, AddShaped
  <2>4. rb' \in Rings /\ Shaped(rb)'
    <3>1. Shaped(rb')
      BY <2>1, <2>3
    <3> QED
      BY <2>1, <2>3, <3>1 DEF Shaped
  <2> QED
    BY <2>1, <2>2, <2>4, MoveStep
<1>7. CASE Wipe(t)
  <2>1. rb' = [rb EXCEPT !.head = 0, !.tail = 0, !.count = 0]
        /\ Returns(t, 0, <<>>) /\ lock' = Nobody /\ before' = Empty(DEFAULT_SIZE)
    BY <1>7 DEF Wipe, Unlock
  <2>2. rb' \in Rings /\ Shaped(rb')
    BY <2>1, <1>1, WipeShaped
  <2>3. Shaped(rb)'
    BY <2>2 DEF Shaped
  <2> QED
    BY <2>1, <2>2, <2>3, <1>2, <1>3, ReturnStep
<1>8. CASE Resize(t)
  <2>1. rb' = Empty(call[t].size)
        /\ Returns(t, Accepted, <<>>) /\ lock' = Nobody /\ before' = Empty(DEFAULT_SIZE)
    BY <1>8 DEF Resize, Unlock
  <2>2. call[t].size \in Lengths
    BY <1>8, <1>4, RequestOps DEF Resize, Lengths
  <2>3. rb' \in Rings /\ Shaped(rb')
    BY <2>1, <2>2, EmptyShaped
  <2>4. Shaped(rb)'
    BY <2>3 DEF Shaped
  <2> QED
    BY <2>1, <2>3, <2>4, <1>2, <1>3, ReturnStep
<1>9. CASE ReadFault(t) \/ ReadEnd(t) \/ WriteFault(t) \/ WriteEnd(t) \/ ResizeNoMemory(t)
  <2>1. PICK ret, data : Returns(t, ret, data)
    BY <1>9 DEF ReadFault, ReadEnd, WriteFault, WriteEnd, ResizeNoMemory
  <2>2. rb' = rb /\ lock' = Nobody /\ before' = Empty(DEFAULT_SIZE)
    BY <1>9 DEF ReadFault, ReadEnd, WriteFault, WriteEnd, ResizeNoMemory, Unlock
  <2>3. Shaped(rb)'
    BY <2>2, <1>1 DEF Shaped
  <2> QED
    BY <2>1, <2>2, <2>3, <1>1, <1>2, <1>3, ReturnStep
<1> QED
  BY <1>5, <1>6, <1>7, <1>8, <1>9 DEF Work

\* A task that waits for the lock is interrupted.
LEMMA InterruptedStep ==
  ASSUME Inv, NEW t \in Tasks, Interrupted(t)
  PROVE  Inv'
<1> USE DEF Inv
<1>1. /\ pc[t] = "lock" /\ Returns(t, ERESTARTSYS, <<>>)
      /\ UNCHANGED <<rb, lock, before>>
  BY DEF Interrupted
<1>2. rb' \in Rings /\ before' \in Rings /\ Shaped(rb)
  BY <1>1, ShapeOfRb DEF TypeOK
<1>3. Shaped(rb)'
  BY <1>1, <1>2 DEF Shaped
<1> QED
  BY <1>1, <1>2, <1>3, ReturnStep

----------------------------------------------------------------------------
(* The theorems *)

\* The invariant holds before the module is loaded.
LEMMA InitInv == Init => Inv
<1> SUFFICES ASSUME Init PROVE Inv
  OBVIOUS
<1> USE DEF Init
<1>1. Empty(DEFAULT_SIZE) \in Rings /\ Shaped(Empty(DEFAULT_SIZE))
  BY EmptyShaped DEF Lengths
<1>2. TypeOK
  <2>1. [t \in Tasks |-> <<>>] \in [Tasks -> Seq(Bytes)]
    OBVIOUS
  <2>2. [t \in Tasks |-> 0] \in [Tasks -> Nat]
    OBVIOUS
  <2> QED
    BY <1>1, <2>1, <2>2 DEF TypeOK
<1>3. RingShape
  BY <1>1, ShapeOfRb
<1>4. CallInv /\ MoveInv /\ ModuleInv /\ BusyWhileOpen
  BY DEF CallInv, MoveInv, ModuleInv, BusyWhileOpen, InCall, Calling
<1> QED
  BY <1>2, <1>3, <1>4 DEF Inv

\* Every step keeps it.
LEMMA NextInv == Inv /\ [Next]_vars => Inv'
<1> SUFFICES ASSUME Inv, [Next]_vars PROVE Inv'
  OBVIOUS
<1>1. CASE LoadStep
  BY <1>1, LoadKeeps
<1>2. ASSUME NEW t \in Tasks, User(t) PROVE Inv'
  <2>1. CASE Open(t) \/ Close(t) \/ \E u \in Tasks : Share(t, u)
    BY <2>1, FileStep
  <2>2. CASE OpenBusy(t) \/ Refuse(t) \/ Show(t)
    BY <2>2, QuietStep DEF OpenBusy, Refuse, Show
  <2>3. CASE Call(t)
    BY <2>3, CallStep
  <2> QED
    BY <1>2, <2>1, <2>2, <2>3 DEF User
<1>3. ASSUME NEW t \in Tasks, Lock(t) PROVE Inv'
  BY <1>3, LockStep
<1>4. ASSUME NEW t \in Tasks, Interrupted(t) PROVE Inv'
  BY <1>4, InterruptedStep
<1>5. ASSUME NEW t \in Tasks, Oops(t) PROVE Inv'
  BY <1>5, OopsStep
<1>6. ASSUME NEW t \in Tasks, Work(t) PROVE Inv'
  BY <1>6, WorkStep
<1>7. CASE UNCHANGED vars
  BY <1>7, QuietStep DEF vars
<1> QED
  BY <1>1, <1>2, <1>3, <1>4, <1>5, <1>6, <1>7 DEF Next

\* The inductive invariant: every call works alone, on a well-formed buffer, in a
\* module that is still there.
THEOREM Invariance == Spec => []Inv
  BY InitInv, NextInv, PTL DEF Spec

\* The ring's indices stay inside its buffer, whatever is read, written, wiped and
\* resized by however many tasks.
THEOREM TypeCorrect == Spec => []TypeOK
<1>1. Inv => TypeOK
  BY DEF Inv
<1> QED
  BY <1>1, Invariance, PTL

\* No reader ever gets a byte that no writer put there.
THEOREM RingShapeCorrect == Spec => []RingShape
<1>1. Inv => RingShape
  BY DEF Inv
<1> QED
  BY <1>1, Invariance, PTL

\* No call is in progress in a module that is gone.
THEOREM UnloadSafeCorrect == Spec => []UnloadSafe
<1>1. Inv => UnloadSafe
  <2> SUFFICES ASSUME Inv, module = "unloaded", NEW t \in Tasks
               PROVE  pc[t] \in {"user", "oops"}
    BY DEF UnloadSafe
  <2>1. ~InCall(t)
    BY DEF Inv, CallInv, ModuleInv
  <2> QED
    BY <2>1 DEF Inv, TypeOK, InCall
<1> QED
  BY <1>1, Invariance, PTL

----------------------------------------------------------------------------
(* Sequences *)

\* The last n elements of a sequence are a sequence.
LEMMA NewestSeq ==
  ASSUME NEW S, NEW s \in Seq(S), NEW n \in Nat
  PROVE  /\ Atomic!Newest(s, n) \in Seq(S)
         /\ Len(Atomic!Newest(s, n)) = IF Len(s) <= n THEN Len(s) ELSE n
         /\ \A i \in 1..Len(Atomic!Newest(s, n)) :
              Atomic!Newest(s, n)[i] = s[Len(s) - Len(Atomic!Newest(s, n)) + i]
<1>1. CASE Len(s) <= n
  BY <1>1 DEF Atomic!Newest
<1>2. CASE ~(Len(s) <= n)
  <2> DEFINE m == Len(s) - n + 1
  <2>1. m \in Int /\ Len(s) \in Int /\ m \in 1..(Len(s) + 1)
    BY <1>2
  <2>2. \A i \in m..Len(s) : s[i] \in S
    BY <2>1
  <2>3. Atomic!Newest(s, n) = SubSeq(s, m, Len(s))
    BY <1>2 DEF Atomic!Newest
  <2>4. /\ SubSeq(s, m, Len(s)) \in Seq(S)
        /\ Len(SubSeq(s, m, Len(s))) = IF m <= Len(s) THEN Len(s) - m + 1 ELSE 0
        /\ \A i \in 1..(Len(s) - m + 1) : SubSeq(s, m, Len(s))[i] = s[m + i - 1]
    BY <2>1, <2>2, SubSeqProperties
  <2>5. Len(SubSeq(s, m, Len(s))) = n
    BY <1>2, <2>4
  <2>6. \A i \in 1..n : m + i - 1 = Len(s) - n + i /\ i \in 1..(Len(s) - m + 1)
    BY <1>2
  <2>7. Len(s) - n = m - 1 /\ m - 1 \in Int
    OBVIOUS
  <2> DEFINE q == SubSeq(s, m, Len(s))
  <2>8. q \in Seq(S) /\ Len(q) = n
    BY <2>4, <2>5
  <2>9. \A i \in 1..n : q[i] = s[Len(s) - n + i]
    <3> HIDE DEF m
    <3> QED
      BY <2>4, <2>6
  <2>10. Atomic!Newest(s, n) = q
    BY <2>3
  <2> HIDE DEF q
  <2> QED
    BY <1>2, <2>8, <2>9, <2>10
<1> QED
  BY <1>1, <1>2

\* To drop the oldest elements after each one that is added is to drop them once.
LEMMA NewestTwice ==
  ASSUME NEW S, NEW s \in Seq(S), NEW b \in S, NEW n \in Nat \ {0}
  PROVE  Atomic!Newest(Append(Atomic!Newest(s, n), b), n) = Atomic!Newest(Append(s, b), n)
<1> DEFINE u == Atomic!Newest(s, n)
           v == Append(u, b)
           w == Append(s, b)
           x == Atomic!Newest(v, n)
           y == Atomic!Newest(w, n)
<1>1. /\ u \in Seq(S)
      /\ Len(u) = IF Len(s) <= n THEN Len(s) ELSE n
      /\ \A i \in 1..Len(u) : u[i] = s[Len(s) - Len(u) + i]
  BY NewestSeq
<1> HIDE DEF u
<1>2. /\ v \in Seq(S) /\ Len(v) = Len(u) + 1
      /\ \A i \in 1..Len(v) : v[i] = IF i = Len(v) THEN b ELSE u[i]
  BY <1>1
<1>3. /\ w \in Seq(S) /\ Len(w) = Len(s) + 1
      /\ \A i \in 1..Len(w) : w[i] = IF i = Len(w) THEN b ELSE s[i]
  OBVIOUS
<1> HIDE DEF v, w
<1>4. /\ x \in Seq(S)
      /\ Len(x) = IF Len(v) <= n THEN Len(v) ELSE n
      /\ \A i \in 1..Len(x) : x[i] = v[Len(v) - Len(x) + i]
  <2>1. v \in Seq(S) /\ n \in Nat
    BY <1>2
  <2> QED
    BY <2>1, NewestSeq
<1>5. /\ y \in Seq(S)
      /\ Len(y) = IF Len(w) <= n THEN Len(w) ELSE n
      /\ \A i \in 1..Len(y) : y[i] = w[Len(w) - Len(y) + i]
  BY <1>3, NewestSeq
<1> HIDE DEF x, y
<1>6. Len(s) \in Nat
  OBVIOUS
<1>7. Len(x) = Len(y)
  BY <1>1, <1>2, <1>3, <1>4, <1>5, <1>6
<1>8. ASSUME NEW i \in 1..Len(x) PROVE x[i] = y[i]
  <2> DEFINE j == Len(v) - Len(x) + i
             k == Len(w) - Len(y) + i
  <2>1. x[i] = v[j] /\ y[i] = w[k]
    BY <1>4, <1>5, <1>7
  <2>2. j \in 1..Len(v) /\ k \in 1..Len(w) /\ (j = Len(v) <=> k = Len(w))
        /\ (j # Len(v) => j \in 1..Len(u) /\ Len(s) - Len(u) + j = k)
    <3> DEFINE a == Len(u)
               d == Len(v)
               e == Len(w)
               z == Len(s)
               l == Len(x)
    <3>1. /\ a = (IF z <= n THEN z ELSE n) /\ d = a + 1 /\ e = z + 1 /\ z \in Nat
          /\ l = (IF d <= n THEN d ELSE n) /\ l = Len(y) /\ i \in 1..l
      BY <1>1, <1>2, <1>3, <1>4, <1>6, <1>7
    <3>2. j = d - l + i /\ k = e - l + i
      BY <3>1
    <3> HIDE DEF a, d, e, z, l, j, k
    <3>3. /\ j \in 1..d /\ k \in 1..e /\ (j = d <=> k = e)
          /\ (j # d => j \in 1..a /\ z - a + j = k)
      BY <3>1, <3>2
    <3> QED
      BY <3>3 DEF a, d, e, z
  <2> HIDE DEF j, k
  <2> QED
    BY <2>1, <2>2, <1>1, <1>2, <1>3
<1>9. x = y
  BY <1>4, <1>5, <1>7, <1>8, SeqEqual
<1> QED
  BY <1>9 DEF x, y, v, w, u

\* An element between two sequences belongs to the end of the one, or to the
\* beginning of the other.
LEMMA AppendMoves ==
  ASSUME NEW S, NEW s \in Seq(S), NEW t \in Seq(S), NEW b \in S
  PROVE  /\ Append(s, b) \o t = s \o (<<b>> \o t)
         /\ s \o Append(t, b) = Append(s \o t, b)
<1> DEFINE o == <<b>>
<1>1. /\ o \in Seq(S) /\ s \o t \in Seq(S)
      /\ Append(s, b) = s \o o /\ Append(t, b) = t \o o /\ Append(s \o t, b) = (s \o t) \o o
  BY AppendIsConcat
<1> HIDE DEF o
<1>2. (s \o o) \o t = s \o (o \o t)
  BY <1>1, ConcatAssociative
<1>3. (s \o t) \o o = s \o (t \o o)
  BY <1>1, ConcatAssociative
<1> QED
  BY <1>1, <1>2, <1>3 DEF o

\* A sequence is cut where two others were joined.
LEMMA CutJoined ==
  ASSUME NEW S, NEW s \in Seq(S), NEW t \in Seq(S)
  PROVE  /\ Atomic!Oldest(s \o t, Len(s)) = s
         /\ Atomic!Dropped(s \o t, Len(s)) = t
<1> DEFINE u == s \o t
<1>1. /\ u \in Seq(S) /\ Len(u) = Len(s) + Len(t)
      /\ \A i \in 1..Len(u) : u[i] = IF i <= Len(s) THEN s[i] ELSE t[i - Len(s)]
  BY ConcatProperties
<1> HIDE DEF u
<1>2. Len(s) \in Nat /\ Len(t) \in Nat
  OBVIOUS
<1>3. SubSeq(u, 1, Len(s)) = s
  <2>1. \A i \in 1..Len(s) : u[i] \in S
    BY <1>1, <1>2
  <2>2. /\ SubSeq(u, 1, Len(s)) \in Seq(S)
        /\ Len(SubSeq(u, 1, Len(s))) = IF 1 <= Len(s) THEN Len(s) - 1 + 1 ELSE 0
        /\ \A i \in 1..(Len(s) - 1 + 1) : SubSeq(u, 1, Len(s))[i] = u[1 + i - 1]
    BY <1>2, <2>1, SubSeqProperties
  <2>3. Len(SubSeq(u, 1, Len(s))) = Len(s)
    BY <1>2, <2>2
  <2>4. \A i \in 1..Len(s) : SubSeq(u, 1, Len(s))[i] = s[i]
    BY <1>1, <1>2, <2>2
  <2> QED
    BY <2>2, <2>3, <2>4, SeqEqual
<1>4. SubSeq(u, Len(s) + 1, Len(u)) = t
  <2> DEFINE m == Len(s) + 1
             n == Len(u)
  <2>0. m \in Int /\ n \in Int /\ n - m + 1 = Len(t)
    BY <1>1, <1>2
  <2>1. \A i \in m..n : u[i] \in S
    BY <1>1, <1>2
  <2>2. /\ SubSeq(u, m, n) \in Seq(S)
        /\ Len(SubSeq(u, m, n)) = IF m <= n THEN n - m + 1 ELSE 0
        /\ \A i \in 1..(n - m + 1) : SubSeq(u, m, n)[i] = u[m + i - 1]
    BY <2>0, <2>1, SubSeqProperties
  <2>3. Len(SubSeq(u, m, n)) = Len(t)
    BY <1>1, <1>2, <2>2
  <2>4. ASSUME NEW i \in 1..Len(t) PROVE SubSeq(u, m, n)[i] = t[i]
    <3>1. m + i - 1 = Len(s) + i /\ Len(s) + i \in 1..Len(u) /\ i \in 1..(n - m + 1)
      BY <1>1, <1>2
    <3>2. SubSeq(u, m, n)[i] = u[Len(s) + i]
      <4> HIDE DEF m, n
      <4> QED
        BY <2>2, <3>1
    <3>3. u[Len(s) + i] = t[(Len(s) + i) - Len(s)] /\ (Len(s) + i) - Len(s) = i
      BY <1>1, <1>2, <3>1
    <3> QED
      BY <3>2, <3>3
  <2> HIDE DEF m, n
  <2>5. SubSeq(u, m, n) = t
    BY <2>2, <2>3, <2>4, SeqEqual
  <2> QED
    BY <2>5 DEF m, n
<1> QED
  BY <1>3, <1>4 DEF Atomic!Oldest, Atomic!Dropped, u

----------------------------------------------------------------------------
(* What the ring holds *)

\* The bytes from tail on, said of the fields.
Held(f, n, t, c) == [j \in 1..c |-> f[Mod(t + j - 1, n)]]

\* What a reader would get of a ring of these fields.
LEMMA ContentsRing ==
  ASSUME NEW f, NEW n, NEW h, NEW t, NEW c
  PROVE  Contents(Ring(f, n, h, t, c)) = Held(f, n, t, c)
  BY DEF Contents, Ring, Held, Mod

\* It is a sequence of bytes, as long as the ring's count.
LEMMA ContentsSeq ==
  ASSUME NEW r \in Rings, Shaped(r)
  PROVE  /\ Contents(r) \in Seq(Bytes) /\ Len(Contents(r)) = r.count
         /\ r.count \in Nat /\ r.size \in Nat \ {0} /\ r.count <= r.size
<1>1. PICK n \in Lengths :
      \E f \in [0..(n - 1) -> Bytes \cup {Blank}], h, t \in 0..(n - 1), c \in 0..n :
         r = Ring(f, n, h, t, c)
  BY RingFields
<1>2. PICK f \in [0..(n - 1) -> Bytes \cup {Blank}], h \in 0..(n - 1),
           t \in 0..(n - 1), c \in 0..n : r = Ring(f, n, h, t, c)
  BY <1>1
<1>3. n \in Nat \ {0}
  BY LengthsPositive
<1>4. Written(f, n, t, c) /\ Contents(r) = Held(f, n, t, c)
  BY <1>2, RingShaped, ContentsRing
<1>5. \A j \in 1..c : f[Mod(t + j - 1, n)] \in Bytes
  BY <1>4 DEF Written
<1>6. Held(f, n, t, c) \in [1..c -> Bytes]
  BY <1>5, Zenon DEF Held
<1>7. Held(f, n, t, c) \in Seq(Bytes) /\ Len(Held(f, n, t, c)) = c /\ c \in Nat
  BY <1>3, <1>6
<1>8. r.count = c /\ r.size = n
  BY <1>2 DEF Ring
<1> QED
  BY <1>3, <1>4, <1>7, <1>8

\* An empty ring holds nothing.
LEMMA ContentsNone ==
  ASSUME NEW r, r.count = 0
  PROVE  Contents(r) = <<>>
<1>1. 1..r.count = {}
  OBVIOUS
<1> QED
  BY <1>1 DEF Contents

\* A reader takes the first byte.
LEMMA ContentsTake ==
  ASSUME NEW r \in Rings, Shaped(r), r.count > 0
  PROVE  /\ Take(r).size = r.size
         /\ Contents(r) = <<r.buffer[r.tail]>> \o Contents(Take(r))
<1>1. PICK n \in Lengths :
      \E f \in [0..(n - 1) -> Bytes \cup {Blank}], h, t \in 0..(n - 1), c \in 0..n :
         r = Ring(f, n, h, t, c)
  BY RingFields
<1>2. PICK f \in [0..(n - 1) -> Bytes \cup {Blank}], h \in 0..(n - 1),
           t \in 0..(n - 1), c \in 0..n : r = Ring(f, n, h, t, c)
  BY <1>1
<1> DEFINE next == Mod(t + 1, n)
           q == Take(r)
           u == Contents(r)
           v == Contents(q)
           b == r.buffer[r.tail]
<1>3. n \in Nat \ {0} /\ c > 0 /\ r.count = c /\ b = f[t] /\ r.size = n
  BY <1>2, LengthsPositive DEF Ring
<1>4. q = Ring(f, n, h, next, c - 1)
  <2> DEFINE a == [r EXCEPT !.tail = (r.tail + 1) % r.size]
  <2>1. a = Ring(f, n, h, next, c)
    BY <1>2 DEF Ring, Mod
  <2>2. [a EXCEPT !.count = r.count - 1] = Ring(f, n, h, next, c - 1)
    <3> HIDE DEF a
    <3> QED
      BY <2>1, <1>2 DEF Ring
  <2> QED
    BY <2>2 DEF Take
<1>5. q \in Rings /\ Shaped(q) /\ q.count = c - 1 /\ b \in Bytes
  BY <1>3, TakeShaped
<1>6. u = Held(f, n, t, c) /\ v = Held(f, n, next, c - 1)
  BY <1>2, <1>4, ContentsRing
<1> HIDE DEF q, b
<1>7. u \in Seq(Bytes) /\ v \in Seq(Bytes) /\ Len(u) = c /\ Len(v) = c - 1
  BY <1>3, <1>5, ContentsSeq
<1> HIDE DEF u, v
<1> DEFINE w == <<b>> \o v
<1>8. /\ w \in Seq(Bytes) /\ Len(w) = 1 + Len(v)
      /\ \A i \in 1..Len(w) : w[i] = IF i = 1 THEN b ELSE v[i - 1]
  BY <1>5, <1>7
<1> HIDE DEF w
<1>9. ASSUME NEW i \in 1..c PROVE u[i] = w[i]
  <2>1. u[i] = f[Mod(t + i - 1, n)]
    BY <1>6 DEF Held
  <2>2. CASE i = 1
    <3>1. Mod(t + i - 1, n) = t
      BY <2>2, <1>3, ModSmall
    <3> QED
      BY <2>1, <2>2, <3>1, <1>3, <1>7, <1>8
  <2>3. CASE i # 1
    <3>1. /\ i - 1 \in 1..(c - 1) /\ w[i] = v[i - 1]
      BY <2>3, <1>3, <1>7, <1>8
    <3>2. v[i - 1] = f[Mod(next + (i - 1) - 1, n)]
      BY <3>1, <1>6 DEF Held
    <3>3. /\ i - 2 \in 0..n /\ t + 1 + (i - 2) = t + i - 1
          /\ next + (i - 1) - 1 = next + (i - 2)
      <4>1. next \in Int
        BY <1>3, ModNext
      <4> HIDE DEF next
      <4> QED
        BY <2>3, <1>3, <4>1
    <3>4. Mod(next + (i - 2), n) = Mod(t + 1 + (i - 2), n)
      BY <3>3, <1>3, ModShift
    <3> QED
      BY <2>1, <3>1, <3>2, <3>3, <3>4
  <2> QED
    BY <2>2, <2>3
<1>10. Len(w) = c
  BY <1>3, <1>7, <1>8
<1>11. u = w
  BY <1>7, <1>8, <1>9, <1>10, SeqEqual
<1>12. q.size = n
  BY <1>4 DEF Ring
<1> QED
  BY <1>3, <1>11, <1>12 DEF u, w, v, q, b

\* The fields of a ring to which a byte was added.
LEMMA AddFields ==
  ASSUME NEW n \in Lengths, NEW f \in [0..(n - 1) -> Bytes \cup {Blank}],
         NEW h \in 0..(n - 1), NEW t \in 0..(n - 1), NEW c \in 0..n, NEW b
  PROVE  IF c < n
           THEN Add(Ring(f, n, h, t, c), b) = Ring([f EXCEPT ![h] = b], n, Mod(h + 1, n), t, c + 1)
           ELSE Add(Ring(f, n, h, t, c), b)
                  = Ring([f EXCEPT ![h] = b], n, Mod(h + 1, n), Mod(t + 1, n), c)
<1> DEFINE r == Ring(f, n, h, t, c)
           g == [f EXCEPT ![h] = b]
           a == [r EXCEPT !.buffer[r.head] = b, !.head = (r.head + 1) % r.size]
           a0 == [r EXCEPT !.buffer[r.head] = b]
<1>1. a0 = Ring(g, n, h, t, c)
  BY DEF Ring
<1>2. r.head = h /\ r.tail = t /\ r.size = n /\ r.count = c
  BY DEF Ring
<1>3. a = Ring(g, n, Mod(h + 1, n), t, c)
  <2>1. [a0 EXCEPT !.head = (r.head + 1) % r.size] = Ring(g, n, Mod(h + 1, n), t, c)
    <3> HIDE DEF a0, g, r
    <3> QED
      BY <1>1, <1>2 DEF Ring, Mod
  <2> QED
    BY <2>1
<1> HIDE DEF a, r, g
<1>4. [a EXCEPT !.count = a.count + 1] = Ring(g, n, Mod(h + 1, n), t, c + 1)
  BY <1>3 DEF Ring
<1>5. [a EXCEPT !.tail = (a.tail + 1) % r.size] = Ring(g, n, Mod(h + 1, n), Mod(t + 1, n), c)
  BY <1>2, <1>3 DEF Ring, Mod
<1>6. Add(r, b) = IF c < n THEN [a EXCEPT !.count = a.count + 1]
                  ELSE [a EXCEPT !.tail = (a.tail + 1) % r.size]
  BY <1>2 DEF Add, a
<1> QED
  BY <1>4, <1>5, <1>6 DEF r, g

\* A writer adds a byte at the end; if the ring is full, the first one goes.
LEMMA ContentsAdd ==
  ASSUME NEW r \in Rings, NEW b \in Bytes, Shaped(r)
  PROVE  /\ Add(r, b).size = r.size
         /\ Contents(Add(r, b)) = Atomic!Newest(Append(Contents(r), b), r.size)
<1>1. PICK n \in Lengths :
      \E f \in [0..(n - 1) -> Bytes \cup {Blank}], h, t \in 0..(n - 1), c \in 0..n :
         r = Ring(f, n, h, t, c)
  BY RingFields
<1>2. PICK f \in [0..(n - 1) -> Bytes \cup {Blank}], h \in 0..(n - 1),
           t \in 0..(n - 1), c \in 0..n : r = Ring(f, n, h, t, c)
  BY <1>1
<1> DEFINE g == [f EXCEPT ![h] = b]
           nextHead == Mod(h + 1, n)
           nextTail == Mod(t + 1, n)
           q == Add(r, b)
           u == Contents(r)
           v == Contents(q)
           w == Append(u, b)
           x == Atomic!Newest(w, n)
<1>3. n \in Nat \ {0} /\ r.count = c /\ r.size = n
  BY <1>2, LengthsPositive DEF Ring
<1>4. h = Mod(t + c, n)
  BY <1>2, RingShaped
<1>5. /\ g[h] = b
      /\ \A i \in 0..(n - 1) : i # h => g[i] = f[i]
  OBVIOUS
<1>6. IF c < n THEN q = Ring(g, n, nextHead, t, c + 1)
      ELSE q = Ring(g, n, nextHead, nextTail, c)
  BY <1>2, <1>3, AddFields DEF Ring
<1>7. q \in Rings /\ Shaped(q)
  BY AddShaped
<1>8. q.size = n /\ q.count = IF c < n THEN c + 1 ELSE n
  BY <1>3, <1>6 DEF Ring
<1> HIDE DEF q, g
<1>9. u = Held(f, n, t, c) /\ v = IF c < n THEN Held(g, n, t, c + 1) ELSE Held(g, n, nextTail, c)
  BY <1>2, <1>6, ContentsRing
<1>10. u \in Seq(Bytes) /\ v \in Seq(Bytes) /\ Len(u) = c /\ Len(v) = q.count
  BY <1>3, <1>7, ContentsSeq
<1> HIDE DEF u, v
<1>11. /\ w \in Seq(Bytes) /\ Len(w) = c + 1
       /\ \A i \in 1..(c + 1) : w[i] = IF i = c + 1 THEN b ELSE u[i]
  BY <1>3, <1>10
<1> HIDE DEF w
<1>12. /\ x \in Seq(Bytes)
       /\ Len(x) = IF Len(w) <= n THEN Len(w) ELSE n
       /\ \A i \in 1..Len(x) : x[i] = w[Len(w) - Len(x) + i]
  <2>1. w \in Seq(Bytes) /\ n \in Nat
    BY <1>3, <1>11
  <2> QED
    BY <2>1, NewestSeq
<1> HIDE DEF x
<1>13. Len(x) = Len(v)
  BY <1>3, <1>8, <1>10, <1>11, <1>12
\* Byte i of the sequence with b at its end is at position t + i - 1 of the new buffer.
<1>14. ASSUME NEW i \in 1..(c + 1), c < n \/ i # 1
       PROVE  w[i] = g[Mod(t + i - 1, n)]
  <2>1. CASE i = c + 1
    <3>1. t + i - 1 = t + c
      BY <2>1, <1>3
    <3> QED
      BY <2>1, <3>1, <1>4, <1>5, <1>11
  <2>2. CASE i # c + 1
    <3>1. i \in 1..c /\ w[i] = f[Mod(t + i - 1, n)]
      <4>1. i \in 1..c
        BY <2>2, <1>3
      <4>2. w[i] = u[i]
        BY <2>2, <1>11
      <4>3. u[i] = f[Mod(t + i - 1, n)]
        BY <4>1, <1>9 DEF Held
      <4> QED
        BY <4>1, <4>2, <4>3
    <3>2. Mod(t + i - 1, n) # h
      <4>1. CASE c < n
        <5>1. i - 1 \in 0..(n - 1) /\ c \in 0..(n - 1) /\ i - 1 # c /\ t + i - 1 = t + (i - 1)
          BY <3>1, <4>1, <1>3
        <5> QED
          BY <5>1, <1>3, <1>4, ModInjective
      <4>2. CASE c = n
        <5>1. h = t /\ Mod(t + 0, n) = t
          BY <4>2, <1>3, <1>4, ModWrap, ModSmall
        <5>2. i - 1 \in 0..(n - 1) /\ 0 \in 0..(n - 1) /\ i - 1 # 0 /\ t + i - 1 = t + (i - 1)
          BY <1>14, <3>1, <4>2, <1>3
        <5> QED
          BY <5>1, <5>2, <1>3, ModInjective
      <4> QED
        BY <4>1, <4>2, <1>3
    <3>3. Mod(t + i - 1, n) \in 0..(n - 1)
      BY <3>1, <1>3, ModRange
    <3> QED
      BY <3>1, <3>2, <3>3, <1>5
  <2> QED
    BY <2>1, <2>2
<1>15. ASSUME NEW i \in 1..Len(v) PROVE v[i] = x[i]
  <2>1. CASE c < n
    <3>1. Len(x) = c + 1 /\ Len(w) = c + 1 /\ i \in 1..(c + 1) /\ (c + 1) - (c + 1) + i = i
      BY <2>1, <1>3, <1>8, <1>10, <1>11, <1>13
    <3>2. x[i] = w[i]
      BY <3>1, <1>12
    <3>3. v[i] = g[Mod(t + i - 1, n)]
      BY <2>1, <3>1, <1>9 DEF Held
    <3> QED
      BY <2>1, <3>1, <3>2, <3>3, <1>14
  <2>2. CASE c = n
    <3>1. Len(x) = n /\ Len(w) = n + 1 /\ i \in 1..n /\ (n + 1) - n + i = i + 1
      BY <2>2, <1>3, <1>8, <1>10, <1>11, <1>13
    <3>2. x[i] = w[i + 1]
      BY <3>1, <1>12
    <3>3. v[i] = g[Mod(nextTail + i - 1, n)]
      BY <2>2, <3>1, <1>3, <1>9 DEF Held
    <3>4. /\ i - 1 \in 0..n /\ t + 1 + (i - 1) = t + (i + 1) - 1
          /\ nextTail + i - 1 = nextTail + (i - 1)
      <4>1. nextTail \in Int
        BY <1>3, ModNext
      <4> HIDE DEF nextTail
      <4> QED
        BY <3>1, <1>3, <4>1
    <3>5. Mod(nextTail + (i - 1), n) = Mod(t + 1 + (i - 1), n)
      BY <3>4, <1>3, ModShift
    <3>6. i + 1 \in 1..(c + 1) /\ i + 1 # 1
      BY <2>2, <3>1, <1>3
    <3>7. w[i + 1] = g[Mod(t + (i + 1) - 1, n)]
      BY <3>6, <1>14
    <3> QED
      BY <3>2, <3>3, <3>4, <3>5, <3>7
  <2> QED
    BY <2>1, <2>2, <1>3
<1>16. v = x
  BY <1>10, <1>12, <1>13, <1>15, SeqEqual
<1> QED
  BY <1>3, <1>8, <1>16 DEF x, w, v, u, q

----------------------------------------------------------------------------
(* How far the calls are *)

Smaller(m, n) == IF m < n THEN m ELSE n

\* Somebody is at work when the lock is taken; who is in user space has no call.
HeldInv ==
  /\ lock # Nobody => lock \in Tasks /\ pc[lock] \in Calling
  /\ \A t \in Tasks : pc[t] = "user" => call[t] = Idle
  /\ \A t \in Tasks : pc[t] \notin Calling => moved[t] = <<>>

\* What a call has done so far to the ring that it found.
Reading(t) ==
  /\ Contents(before) = moved[t] \o Contents(rb)
  /\ todo[t] = Smaller(call[t].count, Len(Contents(before)))
  /\ Len(moved[t]) <= todo[t]
Writing(t) ==
  /\ Len(moved[t]) <= todo[t]
  /\ moved[t] = Atomic!Oldest(call[t].data, Len(moved[t]))
  /\ Contents(rb) = Atomic!Newest(Contents(before) \o moved[t], rb.size)
ProgressInv ==
  \A t \in Tasks :
    /\ pc[t] \in Calling => rb.size = before.size /\ Shaped(before)
    /\ pc[t] = "read" => Reading(t)
    /\ pc[t] = "write" => Writing(t)
    /\ pc[t] \in {"wipe", "resize"} => rb = before

FullInv == Inv /\ HeldInv /\ ProgressInv

\* What a ring holds after a step is what the ring after the step holds.
LEMMA ContentsNext ==
  /\ Contents(rb)' = Contents(rb') /\ Contents(before)' = Contents(before')
  /\ Shaped(before)' <=> Shaped(before')
BY DEF Contents, Shaped

\* One task works at a time.
LEMMA OneWorks ==
  ASSUME Inv, NEW t \in Tasks, NEW u \in Tasks, pc[t] \in Calling, pc[u] \in Calling
  PROVE  t = u
BY DEF Inv, CallInv

\* The rings that a task has found and left so far are sequences of bytes.
LEMMA WorkingRings ==
  ASSUME FullInv, NEW t \in Tasks, pc[t] \in Calling
  PROVE  /\ Contents(rb) \in Seq(Bytes) /\ Contents(before) \in Seq(Bytes)
         /\ Len(Contents(rb)) = rb.count /\ rb.size \in Nat \ {0}
         /\ Len(Contents(before)) <= rb.size
         /\ moved[t] \in Seq(Bytes) /\ todo[t] \in Nat /\ call[t] \in Requests
         /\ pc[t] = call[t].op
         /\ Visible = before /\ lock = t /\ lock # Nobody
<1>1. /\ rb \in Rings /\ before \in Rings /\ Shaped(rb)
      /\ moved[t] \in Seq(Bytes) /\ todo[t] \in Nat
  BY ShapeOfRb DEF FullInv, Inv, TypeOK
<1>2. Shaped(before) /\ rb.size = before.size
  BY DEF FullInv, ProgressInv
<1>3. lock = t /\ pc[t] = call[t].op /\ call[t] \in Requests
  BY DEF FullInv, Inv, CallInv, InCall
<1>4. lock # Nobody
  BY <1>3, NobodyAssumption
<1>5. /\ Contents(rb) \in Seq(Bytes) /\ Len(Contents(rb)) = rb.count
      /\ rb.size \in Nat \ {0}
  BY <1>1, ContentsSeq
<1>6. /\ Contents(before) \in Seq(Bytes) /\ Len(Contents(before)) = before.count
      /\ before.count <= before.size
  BY <1>1, <1>2, ContentsSeq
<1> QED
  BY <1>1, <1>2, <1>3, <1>4, <1>5, <1>6 DEF Visible

----------------------------------------------------------------------------
(* Every step keeps track of them *)

\* A step that leaves the calls at work and the rings alone.
LEMMA ProgressSame ==
  ASSUME FullInv, UNCHANGED <<rb, before>>,
         \A t \in Tasks : pc'[t] \in Calling =>
            /\ pc'[t] = pc[t] /\ call'[t] = call[t]
            /\ todo'[t] = todo[t] /\ moved'[t] = moved[t]
  PROVE  ProgressInv'
<1>1. SUFFICES ASSUME NEW t \in Tasks, pc'[t] \in Calling
               PROVE  /\ rb'.size = before'.size /\ Shaped(before)'
                      /\ pc'[t] = "read" => Reading(t)'
                      /\ pc'[t] = "write" => Writing(t)'
                      /\ pc'[t] \in {"wipe", "resize"} => rb' = before'
  BY DEF ProgressInv, Calling
<1>2. /\ pc'[t] = pc[t] /\ call'[t] = call[t] /\ todo'[t] = todo[t] /\ moved'[t] = moved[t]
      /\ rb' = rb /\ before' = before
  BY <1>1
<1>3. Contents(rb)' = Contents(rb) /\ Contents(before)' = Contents(before)
      /\ (Shaped(before)' <=> Shaped(before))
  BY <1>2, ContentsNext
<1>4. /\ rb.size = before.size /\ Shaped(before)
      /\ pc[t] = "read" => Reading(t)
      /\ pc[t] = "write" => Writing(t)
      /\ pc[t] \in {"wipe", "resize"} => rb = before
  BY <1>1, <1>2 DEF FullInv, ProgressInv
<1> QED
  BY <1>2, <1>3, <1>4 DEF Reading, Writing

\* A step after which nobody is at work.
LEMMA ProgressNone ==
  ASSUME \A t \in Tasks : pc'[t] \notin Calling
  PROVE  ProgressInv'
BY DEF ProgressInv, Calling

\* A call is at its beginning when it gets the lock.
LEMMA LockTracks ==
  ASSUME FullInv, NEW t \in Tasks, Lock(t)
  PROVE  HeldInv' /\ ProgressInv'
<1>1. /\ pc[t] = "lock" /\ Usable /\ lock = Nobody /\ lock' = t /\ before' = rb
      /\ pc' = [pc EXCEPT ![t] = call[t].op]
      /\ todo' = [todo EXCEPT ![t] = ToMove(t)]
      /\ UNCHANGED <<rb, call, moved>>
  BY DEF Lock
<1>2. call[t] \in Requests /\ call[t].op \in Calling
  BY <1>1, RequestOps DEF FullInv, Inv, CallInv, InCall
<1>3. /\ pc'[t] = call[t].op /\ todo'[t] = ToMove(t)
      /\ \A u \in Tasks : u # t => pc'[u] = pc[u]
  BY <1>1 DEF FullInv, Inv, TypeOK
<1>4. \A u \in Tasks : pc[u] \notin Calling
  BY <1>1, NobodyAssumption DEF FullInv, Inv, CallInv
<1>5. moved[t] = <<>>
  BY <1>4 DEF FullInv, HeldInv
<1>6. HeldInv'
  <2>1. lock' \in Tasks /\ pc'[lock'] \in Calling
    BY <1>1, <1>2, <1>3
  <2>2. \A u \in Tasks : (pc'[u] = "user" => call'[u] = Idle)
                         /\ (pc'[u] \notin Calling => moved'[u] = <<>>)
    BY <1>1, <1>2, <1>3 DEF FullInv, HeldInv, Calling
  <2> QED
    BY <2>1, <2>2 DEF HeldInv
<1> DEFINE c == Contents(rb)
<1>7. c \in Seq(Bytes) /\ Len(c) = rb.count /\ rb.count <= rb.size /\ Shaped(rb)
      /\ rb.size \in Nat \ {0} /\ rb.count \in Nat
  BY ShapeOfRb, ContentsSeq DEF FullInv, Inv, TypeOK
<1>8. Contents(rb)' = c /\ Contents(before)' = c /\ Shaped(before)'
  BY <1>1, <1>7, ContentsNext
<1> HIDE DEF c
<1>9. ASSUME call[t].op = "read" PROVE Reading(t)'
  <2>1. c = <<>> \o c /\ Len(<<>>) = 0
    BY <1>7
  <2>2. ToMove(t) = Smaller(call[t].count, Len(c)) /\ call[t].count \in Nat
    BY <1>2, <1>7, <1>9, RequestOps DEF ToMove, Smaller
  <2>3. 0 <= Smaller(call[t].count, Len(c))
    BY <2>2, <1>7 DEF Smaller
  <2> QED
    BY <2>1, <2>2, <2>3, <1>1, <1>3, <1>5, <1>8 DEF Reading
<1>10. ASSUME call[t].op = "write" PROVE Writing(t)'
  <2>1. call[t].data \in Seq(Bytes) /\ ToMove(t) = Len(call[t].data) /\ Len(<<>>) = 0
    BY <1>2, <1>10, RequestOps DEF ToMove
  <2>2. Atomic!Oldest(call[t].data, 0) = <<>>
    BY <2>1, SubSeqEmpty DEF Atomic!Oldest
  <2>3. c \o <<>> = c /\ Atomic!Newest(c, rb.size) = c
    BY <1>7 DEF Atomic!Newest
  <2>4. 0 <= Len(call[t].data)
    BY <2>1
  <2> QED
    BY <2>1, <2>2, <2>3, <2>4, <1>1, <1>3, <1>5, <1>8 DEF Writing
<1>11. ProgressInv'
  <2> SUFFICES ASSUME NEW u \in Tasks, pc'[u] \in Calling
               PROVE  /\ rb'.size = before'.size /\ Shaped(before)'
                      /\ pc'[u] = "read" => Reading(u)'
                      /\ pc'[u] = "write" => Writing(u)'
                      /\ pc'[u] \in {"wipe", "resize"} => rb' = before'
    BY DEF ProgressInv, Calling
  <2>1. u = t
    BY <1>3, <1>4
  <2> QED
    BY <2>1, <1>1, <1>3, <1>8, <1>9, <1>10
<1> QED
  BY <1>6, <1>11

\* A byte that is read goes from the beginning of the ring to the end of what is
\* moved.
LEMMA ReadByteTracks ==
  ASSUME FullInv, NEW t \in Tasks, ReadByte(t)
  PROVE  HeldInv' /\ ProgressInv'
<1> DEFINE b == rb.buffer[rb.tail]
<1>1. /\ pc[t] = "read" /\ Len(moved[t]) < todo[t] /\ rb' = Take(rb)
      /\ moved' = [moved EXCEPT ![t] = Append(@, b)]
      /\ UNCHANGED <<lock, pc, call, todo, before>>
  BY DEF ReadByte, Moving, Moves
<1>2. /\ Contents(rb) \in Seq(Bytes) /\ moved[t] \in Seq(Bytes) /\ todo[t] \in Nat
      /\ Len(Contents(rb)) = rb.count /\ pc[t] \in Calling
  BY <1>1, WorkingRings DEF Calling
<1>3. rb.count > 0
  <2>1. Len(moved[t]) \in Nat /\ rb.count \in Nat
    BY <1>2
  <2>2. todo[t] - Len(moved[t]) <= rb.count
    BY <1>1 DEF FullInv, Inv, MoveInv
  <2> QED
    BY <1>1, <1>2, <2>1, <2>2
<1>4. rb \in Rings /\ Shaped(rb)
  BY ShapeOfRb DEF FullInv, Inv, TypeOK
<1>5. /\ Take(rb) \in Rings /\ Shaped(Take(rb)) /\ b \in Bytes
      /\ Take(rb).size = rb.size /\ Contents(rb) = <<b>> \o Contents(Take(rb))
      /\ Contents(Take(rb)) \in Seq(Bytes)
  BY <1>3, <1>4, TakeShaped, ContentsTake, ContentsSeq
<1> HIDE DEF b
<1>6. /\ moved'[t] = Append(moved[t], b)
      /\ \A u \in Tasks : u # t => moved'[u] = moved[u]
  BY <1>1 DEF FullInv, Inv, TypeOK
<1>7. HeldInv'
  BY <1>1, <1>2, <1>6 DEF FullInv, HeldInv
<1> DEFINE c == Contents(Take(rb))
<1>8. Contents(rb)' = c /\ Contents(before)' = Contents(before)
      /\ Shaped(before)' /\ rb'.size = before'.size
  BY <1>1, <1>2, <1>5, ContentsNext DEF FullInv, ProgressInv
<1>9. Reading(t)
  BY <1>1 DEF FullInv, ProgressInv
<1>10. moved[t] \o Contents(rb) = Append(moved[t], b) \o c
  <2>1. c \in Seq(Bytes) /\ Contents(rb) = <<b>> \o c
    BY <1>5
  <2> HIDE DEF c
  <2> DEFINE m == moved[t]
  <2>2. m \in Seq(Bytes) /\ b \in Bytes
    BY <1>2, <1>5
  <2> HIDE DEF m
  <2>3. Append(m, b) \o c = m \o (<<b>> \o c)
    BY <2>1, <2>2, AppendMoves
  <2> QED
    BY <2>1, <2>3 DEF m
<1>11. Reading(t)'
  <2>1. Len(Append(moved[t], b)) <= todo[t]
    BY <1>1, <1>2, <1>5
  <2> HIDE DEF c
  <2> QED
    BY <2>1, <1>1, <1>6, <1>8, <1>9, <1>10 DEF Reading
<1>12. \A u \in Tasks : pc'[u] \in Calling => u = t
  BY <1>1, <1>2, OneWorks DEF FullInv
<1>13. ProgressInv'
  BY <1>1, <1>8, <1>11, <1>12 DEF ProgressInv, Calling
<1> QED
  BY <1>7, <1>13

\* A byte that is written goes to the end of the ring.
LEMMA WriteByteTracks ==
  ASSUME FullInv, NEW t \in Tasks, WriteByte(t)
  PROVE  HeldInv' /\ ProgressInv'
<1> DEFINE n == Len(moved[t])
           b == call[t].data[n + 1]
<1>1. /\ pc[t] = "write" /\ n < todo[t] /\ rb' = Add(rb, b)
      /\ moved' = [moved EXCEPT ![t] = Append(@, b)]
      /\ UNCHANGED <<lock, pc, call, todo, before>>
  BY DEF WriteByte, Moving, Moves
<1>2. /\ Contents(rb) \in Seq(Bytes) /\ moved[t] \in Seq(Bytes) /\ todo[t] \in Nat
      /\ Contents(before) \in Seq(Bytes) /\ rb.size \in Nat \ {0}
      /\ pc[t] \in Calling /\ call[t] \in Requests /\ call[t].op = "write"
  BY <1>1, WorkingRings DEF Calling
<1>3. call[t].data \in Seq(Bytes) /\ todo[t] = Len(call[t].data)
  BY <1>1, <1>2, RequestOps DEF FullInv, Inv, MoveInv
<1>4. n \in Nat /\ n + 1 \in 1..Len(call[t].data) /\ b \in Bytes
  BY <1>1, <1>2, <1>3
<1>5. rb \in Rings /\ Shaped(rb)
  BY ShapeOfRb DEF FullInv, Inv, TypeOK
<1>6. /\ moved'[t] = Append(moved[t], b)
      /\ \A u \in Tasks : u # t => moved'[u] = moved[u]
  BY <1>1 DEF FullInv, Inv, TypeOK
<1>7. Writing(t)
  BY <1>1 DEF FullInv, ProgressInv
<1>8. Append(moved[t], b) = Atomic!Oldest(call[t].data, n + 1)
  <2> DEFINE d == call[t].data
  <2>1. SubSeq(d, 1, n + 1) = SubSeq(d, 1, (n + 1) - 1) \o <<d[n + 1]>>
    <3>1. 1 \in 1..Len(d) /\ n + 1 \in 1..Len(d)
      BY <1>3, <1>4
    <3> QED
      BY <1>3, <3>1, SubSeqRecursiveSecond
  <2>2. (n + 1) - 1 = n
    BY <1>4
  <2>3. SubSeq(d, 1, n) = moved[t]
    BY <1>7 DEF Writing, Atomic!Oldest
  <2>4. Append(moved[t], b) = moved[t] \o <<b>>
    BY <1>2, <1>4, AppendIsConcat
  <2> QED
    BY <2>1, <2>2, <2>3, <2>4 DEF Atomic!Oldest
<1>9. n + 1 = Len(Append(moved[t], b)) /\ n + 1 <= todo[t]
  BY <1>1, <1>2, <1>4
<1> HIDE DEF b, n
<1>10. /\ Add(rb, b).size = rb.size
       /\ Contents(Add(rb, b)) = Atomic!Newest(Append(Contents(rb), b), rb.size)
  BY <1>4, <1>5, ContentsAdd
<1> DEFINE c == Contents(Add(rb, b))
<1>11. c = Atomic!Newest(Contents(before) \o Append(moved[t], b), rb.size)
  <2> DEFINE p == Contents(before) \o moved[t]
  <2>1. Contents(rb) = Atomic!Newest(p, rb.size)
    BY <1>7 DEF Writing
  <2>2. p \in Seq(Bytes)
    BY <1>2
  <2>3. Contents(before) \o Append(moved[t], b) = Append(p, b)
    <3> DEFINE a == Contents(before)
               m == moved[t]
    <3>1. a \in Seq(Bytes) /\ m \in Seq(Bytes)
      BY <1>2
    <3> HIDE DEF a, m
    <3>2. a \o Append(m, b) = Append(a \o m, b)
      BY <3>1, <1>4, AppendMoves
    <3> QED
      BY <3>2 DEF a, m
  <2> HIDE DEF p
  <2>4. Atomic!Newest(Append(Atomic!Newest(p, rb.size), b), rb.size)
          = Atomic!Newest(Append(p, b), rb.size)
    BY <2>2, <1>2, <1>4, NewestTwice
  <2> QED
    BY <1>10, <2>1, <2>3, <2>4
<1>12. Contents(rb)' = c /\ Contents(before)' = Contents(before)
       /\ Shaped(before)' /\ rb'.size = before'.size /\ rb'.size = rb.size
  BY <1>1, <1>2, <1>10, ContentsNext DEF FullInv, ProgressInv
<1> HIDE DEF c
<1>13. Writing(t)'
  BY <1>1, <1>6, <1>8, <1>9, <1>11, <1>12 DEF Writing
<1>14. \A u \in Tasks : pc'[u] \in Calling => u = t
  BY <1>1, <1>2, OneWorks DEF FullInv
<1>15. ProgressInv'
  BY <1>1, <1>12, <1>13, <1>14 DEF ProgressInv, Calling
<1>16. HeldInv'
  BY <1>1, <1>2, <1>6 DEF FullInv, HeldInv
<1> QED
  BY <1>15, <1>16

\* A task that returns has no call any more.
LEMMA ReturnTracks ==
  ASSUME FullInv, NEW t \in Tasks, NEW ret, NEW data, Returns(t, ret, data),
         \/ pc[t] \in Calling /\ lock' = Nobody
         \/ pc[t] = "lock" /\ UNCHANGED <<rb, lock, before>>
  PROVE  HeldInv' /\ ProgressInv'
<1>1. /\ pc' = [pc EXCEPT ![t] = "user"] /\ call' = [call EXCEPT ![t] = Idle]
      /\ todo' = [todo EXCEPT ![t] = 0] /\ moved' = [moved EXCEPT ![t] = <<>>]
  BY DEF Returns
<1>2. /\ pc'[t] = "user" /\ call'[t] = Idle /\ moved'[t] = <<>>
      /\ \A u \in Tasks : u # t => /\ pc'[u] = pc[u] /\ call'[u] = call[u]
                                  /\ todo'[u] = todo[u] /\ moved'[u] = moved[u]
  BY <1>1 DEF FullInv, Inv, TypeOK
<1>3. "user" \notin Calling /\ "lock" \notin Calling
  BY DEF Calling
<1>4. HeldInv'
  BY <1>2, <1>3 DEF FullInv, HeldInv
<1>5. CASE pc[t] \in Calling
  <2>1. \A u \in Tasks : pc'[u] \notin Calling
    BY <1>2, <1>3, <1>5, OneWorks DEF FullInv
  <2> QED
    BY <1>4, <2>1, ProgressNone
<1>6. CASE pc[t] = "lock" /\ UNCHANGED <<rb, lock, before>>
  <2>1. \A u \in Tasks : pc'[u] \in Calling =>
            /\ pc'[u] = pc[u] /\ call'[u] = call[u]
            /\ todo'[u] = todo[u] /\ moved'[u] = moved[u]
    BY <1>2, <1>3
  <2> QED
    BY <1>4, <1>6, <2>1, ProgressSame
<1> QED
  BY <1>5, <1>6

\* The other steps of a task leave the calls at work alone.
LEMMA UserTracks ==
  ASSUME FullInv, NEW t \in Tasks, User(t) \/ Oops(t)
  PROVE  HeldInv' /\ ProgressInv'
<1>1. CASE Call(t)
  <2>1. PICK q \in Requests : call' = [call EXCEPT ![t] = q]
    BY <1>1 DEF Call
  <2>2. /\ pc[t] = "user" /\ pc' = [pc EXCEPT ![t] = "lock"]
        /\ UNCHANGED <<rb, lock, todo, moved, before>>
    BY <1>1 DEF Call, InUser
  <2>3. /\ pc'[t] = "lock"
        /\ \A u \in Tasks : u # t => pc'[u] = pc[u] /\ call'[u] = call[u]
    BY <2>1, <2>2 DEF FullInv, Inv, TypeOK
  <2>4. HeldInv'
    BY <2>2, <2>3 DEF FullInv, HeldInv, Calling
  <2>5. \A u \in Tasks : pc'[u] \in Calling => u # t
    BY <2>3 DEF Calling
  <2> QED
    BY <2>2, <2>3, <2>4, <2>5, ProgressSame
<1>2. CASE Oops(t)
  <2>1. /\ pc' = [pc EXCEPT ![t] = "oops"] /\ pc[t] \in {"user", "lock"}
        /\ UNCHANGED <<rb, lock, call, todo, moved, before>>
    BY <1>2 DEF Oops, InUser
  <2>2. pc'[t] = "oops" /\ \A u \in Tasks : u # t => pc'[u] = pc[u]
    BY <2>1 DEF FullInv, Inv, TypeOK
  <2>3. HeldInv'
    BY <2>1, <2>2 DEF FullInv, HeldInv, Calling
  <2>4. \A u \in Tasks : pc'[u] \in Calling => u # t
    BY <2>2 DEF Calling
  <2> QED
    BY <2>1, <2>2, <2>3, <2>4, ProgressSame
<1>3. CASE ~Call(t) /\ ~Oops(t)
  <2>1. UNCHANGED <<rb, lock, pc, call, todo, moved, before>>
    BY <1>3 DEF User, Open, OpenBusy, Close, Refuse, Show, Share, taskVars
  <2>2. HeldInv'
    BY <2>1 DEF FullInv, HeldInv
  <2> QED
    BY <2>1, <2>2, ProgressSame
<1> QED
  BY <1>1, <1>2, <1>3

\* The ring is new only while the module is loaded, when nobody is at work.
LEMMA LoadTracks ==
  ASSUME FullInv, LoadStep
  PROVE  /\ HeldInv' /\ ProgressInv' /\ UNCHANGED <<lock, pc, call, last, before>>
         /\ rb' = rb \/ (rb' = Empty(DEFAULT_SIZE) /\ lock = Nobody)
<1>1. UNCHANGED <<lock, pc, call, todo, moved, last, before>>
  BY DEF LoadStep, Register, Allocate, Ready, LoadFails, InitRbFails, Unload, Unloaded,
         Phase, taskVars
<1>2. rb' = rb \/ (rb' = Empty(DEFAULT_SIZE) /\ module = "registered")
  BY DEF LoadStep, Register, Allocate, Ready, LoadFails, InitRbFails, Unload, Unloaded,
         Phase
<1>3. HeldInv'
  BY <1>1 DEF FullInv, HeldInv
<1>4. CASE rb' = rb
  BY <1>1, <1>3, <1>4, ProgressSame
<1>5. CASE rb' = Empty(DEFAULT_SIZE) /\ module = "registered"
  <2>1. \A t \in Tasks : pc[t] \notin Calling
    BY <1>5 DEF FullInv, Inv, CallInv, Usable
  <2>2. lock = Nobody
    BY <2>1 DEF FullInv, HeldInv
  <2> QED
    BY <1>1, <1>3, <1>5, <2>1, <2>2, ProgressNone
<1> QED
  BY <1>2, <1>4, <1>5

\* The invariant of the refinement holds at first, and every step keeps it.
LEMMA FullInit == Init => FullInv
<1> SUFFICES ASSUME Init PROVE FullInv
  OBVIOUS
<1>1. HeldInv
  BY DEF Init, HeldInv
<1>2. ProgressInv
  BY DEF Init, ProgressInv, Calling
<1> QED
  BY <1>1, <1>2, InitInv DEF FullInv

LEMMA FullNext == FullInv /\ [Next]_vars => FullInv'
<1> SUFFICES ASSUME FullInv, [Next]_vars PROVE HeldInv' /\ ProgressInv'
  BY NextInv DEF FullInv
<1>1. CASE LoadStep
  BY <1>1, LoadTracks
<1>2. ASSUME NEW t \in Tasks, User(t) \/ Oops(t) PROVE HeldInv' /\ ProgressInv'
  BY <1>2, UserTracks
<1>3. ASSUME NEW t \in Tasks, Lock(t) PROVE HeldInv' /\ ProgressInv'
  BY <1>3, LockTracks
<1>4. ASSUME NEW t \in Tasks, Interrupted(t) PROVE HeldInv' /\ ProgressInv'
  <2>1. pc[t] = "lock" /\ Returns(t, ERESTARTSYS, <<>>) /\ UNCHANGED <<rb, lock, before>>
    BY <1>4 DEF Interrupted
  <2> QED
    BY <2>1, ReturnTracks
<1>5. ASSUME NEW t \in Tasks, Work(t) PROVE HeldInv' /\ ProgressInv'
  <2>1. CASE ReadByte(t)
    BY <2>1, ReadByteTracks
  <2>2. CASE WriteByte(t)
    BY <2>2, WriteByteTracks
  <2>3. CASE \/ ReadFault(t) \/ ReadEnd(t) \/ WriteFault(t) \/ WriteEnd(t)
             \/ Wipe(t) \/ Resize(t) \/ ResizeNoMemory(t)
    <3>1. PICK ret, data : Returns(t, ret, data)
      BY <2>3 DEF ReadFault, ReadEnd, WriteFault, WriteEnd, Wipe, Resize, ResizeNoMemory
    <3>2. pc[t] \in Calling /\ lock' = Nobody
      BY <2>3 DEF ReadFault, ReadEnd, WriteFault, WriteEnd, Wipe, Resize, ResizeNoMemory,
                  Moving, Unlock, Calling
    <3> QED
      BY <3>1, <3>2, ReturnTracks
  <2> QED
    BY <1>5, <2>1, <2>2, <2>3 DEF Work
<1>6. CASE UNCHANGED vars
  <2>1. UNCHANGED <<rb, lock, pc, call, todo, moved, before>>
    BY <1>6 DEF vars, taskVars
  <2>2. HeldInv'
    BY <2>1 DEF FullInv, HeldInv
  <2> QED
    BY <2>1, <2>2, ProgressSame
<1> QED
  BY <1>1, <1>2, <1>3, <1>4, <1>5, <1>6 DEF Next

----------------------------------------------------------------------------
(* Every step is a step of the promise, or none *)

\* What users can see after a step.
LEMMA SeenNext ==
  /\ lock' = Nobody => Contents(Visible)' = Contents(rb') /\ (Visible.size)' = rb'.size
  /\ lock' # Nobody => Contents(Visible)' = Contents(before') /\ (Visible.size)' = before'.size
BY DEF Contents, Visible

\* What users can see stays if nobody touches the ring.
LEMMA SeenSame ==
  ASSUME UNCHANGED <<rb, lock, before>>
  PROVE  Contents(Visible)' = Contents(Visible) /\ (Visible.size)' = Visible.size
BY DEF Contents, Visible

\* A call returns in the driver as in the promise.
LEMMA ReturnsAre ==
  ASSUME NEW t \in Tasks, NEW ret, NEW data, Returns(t, ret, data)
  PROVE  Atomic!Returns(t, [ret |-> ret, data |-> data])
BY DEF Returns, Answers, Atomic!Returns, Atomic!Idle, Idle

\* The device keeps its size while a call is at work, whoever reads the attribute.
LEMMA SizeSeen ==
  ASSUME FullInv PROVE Visible.size = rb.size
<1>1. CASE lock = Nobody
  BY <1>1 DEF Visible
<1>2. CASE lock # Nobody
  <2>1. lock \in Tasks /\ pc[lock] \in Calling
    BY <1>2 DEF FullInv, HeldInv
  <2> QED
    BY <1>2, <2>1 DEF FullInv, ProgressInv, Visible
<1> QED
  BY <1>1, <1>2

\* A task in user space makes a call, or is answered at once.
LEMMA UserRefines ==
  ASSUME FullInv, NEW t \in Tasks, User(t)
  PROVE  \/ Atomic!Begin(t) \/ Atomic!Answer(t)
         \/ UNCHANGED <<Contents(Visible), Visible.size, call, last>>
<1>1. UNCHANGED <<rb, lock, before>>
  BY DEF User, Open, OpenBusy, Close, Call, Refuse, Show, Share
<1>2. Contents(Visible)' = Contents(Visible) /\ (Visible.size)' = Visible.size
  BY <1>1, SeenSame
<1>3. InUser(t) => call[t] = Atomic!Idle
  BY DEF FullInv, HeldInv, InUser, Idle, Atomic!Idle
<1>4. CASE Open(t) \/ Close(t) \/ \E u \in Tasks : Share(t, u)
  <2>1. UNCHANGED <<call, last>>
    BY <1>4 DEF Open, Close, Share, taskVars
  <2> QED
    BY <1>2, <2>1
<1>5. CASE Call(t)
  <2>1. /\ InUser(t) /\ last' = last
        /\ \E q \in Requests : call' = [call EXCEPT ![t] = q]
    BY <1>5 DEF Call
  <2> QED
    BY <1>2, <1>3, <2>1 DEF Atomic!Begin
<1>6. CASE OpenBusy(t) \/ Refuse(t) \/ Show(t)
  <2>1. /\ InUser(t) /\ call' = call
        /\ \E ret \in {rb.size, EINVAL, EBUSY} : last' = <<t, [ret |-> ret, data |-> <<>>]>>
    BY <1>6 DEF OpenBusy, Refuse, Show, Answers, taskVars
  <2>2. rb.size = Visible.size
    BY SizeSeen
  <2> QED
    BY <1>2, <1>3, <2>1, <2>2 DEF Atomic!Answer, EINVAL, EBUSY, Atomic!EINVAL, Atomic!EBUSY
<1> QED
  BY <1>4, <1>5, <1>6 DEF User

\* A call that gets the lock, or moves a byte, has had no effect yet.
LEMMA BeginRefines ==
  ASSUME FullInv, NEW t \in Tasks, Lock(t) \/ Oops(t) \/ ReadByte(t) \/ WriteByte(t)
  PROVE  UNCHANGED <<Contents(Visible), Visible.size, call, last>>
<1>1. UNCHANGED <<call, last>>
  BY DEF Lock, Oops, ReadByte, WriteByte, Moves
<1>2. CASE Oops(t)
  BY <1>1, <1>2, SeenSame DEF Oops
<1>3. CASE Lock(t)
  <2>1. lock = Nobody /\ lock' # Nobody /\ before' = rb
    BY <1>3, NobodyAssumption DEF Lock
  <2>2. Visible = rb
    BY <2>1 DEF Visible
  <2> QED
    BY <1>1, <2>1, <2>2, SeenNext
<1>4. CASE ReadByte(t) \/ WriteByte(t)
  <2>1. pc[t] \in Calling /\ UNCHANGED <<lock, before>>
    BY <1>4 DEF ReadByte, WriteByte, Moving, Moves, Calling
  <2>2. Visible = before /\ lock # Nobody
    BY <2>1, WorkingRings
  <2> QED
    BY <1>1, <2>1, <2>2, SeenNext
<1> QED
  BY <1>2, <1>3, <1>4

\* A read that returns has taken the bytes it returns, all at once.
LEMMA ReadRefines ==
  ASSUME FullInv, NEW t \in Tasks, ReadFault(t) \/ ReadEnd(t)
  PROVE  Atomic!Read(t)
<1> DEFINE n == Len(moved[t])
           c == Contents(before)
<1>1. /\ pc[t] = "read" /\ lock' = Nobody /\ rb' = rb
      /\ \/ n < todo[t] /\ Returns(t, EFAULT, moved[t])
         \/ ~(n < todo[t]) /\ Returns(t, todo[t], moved[t])
  BY DEF ReadFault, ReadEnd, Moving, Unlock
<1>2. /\ Contents(rb) \in Seq(Bytes) /\ c \in Seq(Bytes) /\ moved[t] \in Seq(Bytes)
      /\ todo[t] \in Nat /\ call[t] \in Requests /\ call[t].op = "read"
      /\ Visible = before
  BY <1>1, WorkingRings DEF Calling
<1>3. Reading(t) /\ rb.size = before.size
  BY <1>1 DEF FullInv, ProgressInv, Calling
<1>4. Contents(Visible)' = Contents(rb) /\ (Visible.size)' = Visible.size
  BY <1>1, <1>2, <1>3, SeenNext
<1>5. Contents(Visible) = c
  BY <1>2
<1>6. Atomic!Oldest(c, n) = moved[t] /\ Atomic!Dropped(c, n) = Contents(rb)
  <2> DEFINE m == moved[t]
             r == Contents(rb)
  <2>1. m \in Seq(Bytes) /\ r \in Seq(Bytes) /\ c = m \o r
    BY <1>2, <1>3 DEF Reading
  <2> HIDE DEF m, r, c
  <2>2. Atomic!Oldest(m \o r, Len(m)) = m /\ Atomic!Dropped(m \o r, Len(m)) = r
    BY <2>1, CutJoined
  <2> QED
    BY <2>1, <2>2 DEF m, r
<1>7. /\ call[t].count \in Nat /\ todo[t] = Smaller(call[t].count, Len(c)) /\ n <= todo[t]
      /\ n \in Nat /\ Len(c) \in Nat
  BY <1>2, <1>3, RequestOps DEF Reading
<1> HIDE DEF c, n
<1>8. n \in 0..Len(c) /\ n <= call[t].count
  BY <1>7 DEF Smaller
<1>9. \/ /\ n = call[t].count \/ n = Len(c)
         /\ Returns(t, n, moved[t])
      \/ /\ n < call[t].count /\ n < Len(c)
         /\ Returns(t, EFAULT, moved[t])
  <2>1. CASE n < todo[t]
    <3>1. n < call[t].count /\ n < Len(c)
      BY <2>1, <1>7 DEF Smaller
    <3> QED
      BY <3>1, <2>1, <1>1
  <2>2. CASE ~(n < todo[t])
    <3>1. n = todo[t] /\ (n = call[t].count \/ n = Len(c))
      BY <2>2, <1>7 DEF Smaller
    <3> QED
      BY <3>1, <2>2, <1>1
  <2> QED
    BY <2>1, <2>2
<1>10. \/ /\ n = call[t].count \/ n = Len(c)
          /\ Atomic!Returns(t, [ret |-> n, data |-> Atomic!Oldest(c, n)])
       \/ /\ n < call[t].count /\ n < Len(c)
          /\ Atomic!Returns(t, [ret |-> Atomic!EFAULT, data |-> Atomic!Oldest(c, n)])
  BY <1>6, <1>9, ReturnsAre DEF EFAULT, Atomic!EFAULT
<1> QED
  BY <1>2, <1>4, <1>5, <1>6, <1>8, <1>10 DEF Atomic!Read

\* A write that returns has put the bytes it moved, all at once.
LEMMA WriteRefines ==
  ASSUME FullInv, NEW t \in Tasks, WriteFault(t) \/ WriteEnd(t)
  PROVE  Atomic!Write(t)
<1> DEFINE n == Len(moved[t])
           d == call[t].data
<1>1. /\ pc[t] = "write" /\ lock' = Nobody /\ rb' = rb
      /\ \/ n < todo[t] /\ Returns(t, EFAULT, <<>>)
         \/ ~(n < todo[t]) /\ Returns(t, todo[t], <<>>)
  BY DEF WriteFault, WriteEnd, Moving, Unlock
<1>2. /\ moved[t] \in Seq(Bytes) /\ todo[t] \in Nat
      /\ call[t] \in Requests /\ call[t].op = "write" /\ Visible = before
  BY <1>1, WorkingRings DEF Calling
<1>3. Writing(t) /\ rb.size = before.size
  BY <1>1 DEF FullInv, ProgressInv, Calling
<1>4. d \in Seq(Bytes) /\ todo[t] = Len(d)
  BY <1>1, <1>2, RequestOps DEF FullInv, Inv, MoveInv
<1>5. Contents(Visible)' = Contents(rb) /\ (Visible.size)' = Visible.size
  BY <1>1, <1>2, <1>3, SeenNext
<1>6. n \in 0..Len(d)
  BY <1>2, <1>3, <1>4 DEF Writing
<1>7. Contents(rb) = Atomic!Newest(Contents(Visible) \o Atomic!Oldest(d, n), Visible.size)
  BY <1>2, <1>3 DEF Writing
<1>8. Returns(t, IF n = Len(d) THEN n ELSE EFAULT, <<>>)
  <2>1. CASE n < todo[t]
    <3>1. n # Len(d)
      BY <2>1, <1>4, <1>6
    <3> QED
      BY <3>1, <2>1, <1>1
  <2>2. CASE ~(n < todo[t])
    <3>1. n = Len(d) /\ n = todo[t]
      BY <2>2, <1>4, <1>6
    <3> QED
      BY <3>1, <2>2, <1>1
  <2> QED
    BY <2>1, <2>2
<1>9. Atomic!Returns(t, [ret |-> IF n = Len(d) THEN n ELSE Atomic!EFAULT, data |-> <<>>])
  <2> DEFINE r == IF n = Len(d) THEN n ELSE EFAULT
  <2>1. Returns(t, r, <<>>)
    BY <1>8
  <2>2. r = IF n = Len(d) THEN n ELSE Atomic!EFAULT
    BY DEF EFAULT, Atomic!EFAULT
  <2> HIDE DEF r
  <2> QED
    BY <2>1, <2>2, ReturnsAre
<1> HIDE DEF n
<1> QED
  BY <1>2, <1>5, <1>6, <1>7, <1>9 DEF Atomic!Write

\* The ioctl and the attribute change the ring at their unlock.
LEMMA WipeRefines ==
  ASSUME FullInv, NEW t \in Tasks, Wipe(t)
  PROVE  Atomic!Wipe(t)
<1>1. /\ pc[t] = "wipe" /\ lock' = Nobody /\ Returns(t, 0, <<>>)
      /\ rb' = [rb EXCEPT !.head = 0, !.tail = 0, !.count = 0]
  BY DEF Wipe, Unlock
<1>2. call[t].op = "wipe" /\ Visible = before
  BY <1>1, WorkingRings DEF Calling
<1>3. rb = before
  BY <1>1 DEF FullInv, ProgressInv
<1>4. rb'.count = 0 /\ rb'.size = rb.size
  <2>1. PICK n, f, h, u, c : rb = Ring(f, n, h, u, c)
    BY RingFields DEF FullInv, Inv, TypeOK
  <2> QED
    BY <1>1, <2>1 DEF Ring
<1>5. Contents(Visible)' = <<>> /\ (Visible.size)' = Visible.size
  <2>1. Contents(rb') = <<>>
    BY <1>4, ContentsNone
  <2> QED
    BY <2>1, <1>1, <1>2, <1>3, <1>4, SeenNext
<1>6. Atomic!Returns(t, [ret |-> 0, data |-> <<>>])
  BY <1>1, ReturnsAre
<1> QED
  BY <1>2, <1>5, <1>6 DEF Atomic!Wipe

LEMMA ResizeRefines ==
  ASSUME FullInv, NEW t \in Tasks, Resize(t)
  PROVE  Atomic!Resize(t)
<1>1. /\ pc[t] = "resize" /\ lock' = Nobody /\ Returns(t, Accepted, <<>>)
      /\ rb' = Empty(call[t].size)
  BY DEF Resize, Unlock
<1>2. call[t].op = "resize"
  BY <1>1, WorkingRings DEF Calling
<1>3. rb'.count = 0 /\ rb'.size = call[t].size
  BY <1>1 DEF Empty
<1>4. Contents(Visible)' = <<>> /\ (Visible.size)' = call[t].size
  <2>1. Contents(rb') = <<>>
    BY <1>3, ContentsNone
  <2> QED
    BY <2>1, <1>1, <1>3, SeenNext
<1>5. Atomic!Returns(t, [ret |-> Atomic!Accepted, data |-> <<>>])
  BY <1>1, ReturnsAre DEF Accepted, Atomic!Accepted
<1> QED
  BY <1>2, <1>4, <1>5 DEF Atomic!Resize

\* A call that is interrupted, or finds no memory, has no effect.
LEMMA NothingRefines ==
  ASSUME FullInv, NEW t \in Tasks, Interrupted(t) \/ ResizeNoMemory(t)
  PROVE  Atomic!Nothing(t)
<1>1. PICK error \in {ERESTARTSYS, ENOMEM} : Returns(t, error, <<>>)
  BY DEF Interrupted, ResizeNoMemory
<1>2. Atomic!Returns(t, [ret |-> error, data |-> <<>>])
  BY <1>1, ReturnsAre
<1>3. error \in {Atomic!ERESTARTSYS, Atomic!ENOMEM}
  BY <1>1 DEF ERESTARTSYS, ENOMEM, Atomic!ERESTARTSYS, Atomic!ENOMEM
<1>4. call[t] # Atomic!Idle
  <2>1. InCall(t)
    BY DEF Interrupted, ResizeNoMemory, InCall, Calling
  <2>2. call[t] \in Requests
    BY <2>1 DEF FullInv, Inv, CallInv
  <2> QED
    BY <2>2, RequestOps DEF Idle, Atomic!Idle
<1>5. Contents(Visible)' = Contents(Visible) /\ (Visible.size)' = Visible.size
  <2>1. CASE Interrupted(t)
    BY <2>1, SeenSame DEF Interrupted
  <2>2. CASE ResizeNoMemory(t)
    <3>1. pc[t] = "resize" /\ lock' = Nobody /\ rb' = rb
      BY <2>2 DEF ResizeNoMemory, Unlock
    <3>2. rb = before /\ Visible = before
      BY <3>1, WorkingRings DEF FullInv, ProgressInv, Calling
    <3> QED
      BY <3>1, <3>2, SeenNext
  <2> QED
    BY <2>1, <2>2
<1> QED
  BY <1>2, <1>3, <1>4, <1>5 DEF Atomic!Nothing

\* Loading the module makes a new ring, or nothing that users see.
LEMMA LoadRefines ==
  ASSUME FullInv, LoadStep
  PROVE  Atomic!Reload \/ UNCHANGED <<Contents(Visible), Visible.size, call, last>>
<1>1. /\ UNCHANGED <<lock, call, last, before>>
      /\ rb' = rb \/ (rb' = Empty(DEFAULT_SIZE) /\ lock = Nobody)
  BY LoadTracks
<1>2. CASE rb' = rb
  BY <1>1, <1>2, SeenSame
<1>3. CASE rb' = Empty(DEFAULT_SIZE) /\ lock = Nobody
  <2>1. rb'.count = 0 /\ rb'.size = DEFAULT_SIZE
    BY <1>3 DEF Empty
  <2>2. Contents(rb') = <<>>
    BY <2>1, ContentsNone
  <2>3. Contents(Visible)' = <<>> /\ (Visible.size)' = DEFAULT_SIZE
    BY <1>1, <1>3, <2>1, <2>2, SeenNext
  <2> QED
    BY <1>1, <2>3 DEF Atomic!Reload
<1> QED
  BY <1>1, <1>2, <1>3

----------------------------------------------------------------------------
(* The refinement *)

LEMMA InitRefines == Init => Atomic!Init
<1> SUFFICES ASSUME Init PROVE Atomic!Init
  OBVIOUS
<1>1. Visible = rb /\ rb = Empty(DEFAULT_SIZE)
  BY DEF Init, Visible
<1>2. rb.count = 0 /\ rb.size = DEFAULT_SIZE
  BY <1>1 DEF Empty
<1>3. Contents(Visible) = <<>>
  BY <1>1, <1>2, ContentsNone
<1> QED
  BY <1>1, <1>2, <1>3 DEF Init, Atomic!Init, Idle, Atomic!Idle

LEMMA NextRefines == FullInv /\ [Next]_vars => [Atomic!Next]_(Atomic!vars)
<1> SUFFICES ASSUME FullInv, [Next]_vars
             PROVE  Atomic!Next \/ UNCHANGED <<Contents(Visible), Visible.size, call, last>>
  BY DEF Atomic!vars
<1>1. CASE LoadStep
  BY <1>1, LoadRefines DEF Atomic!Next
<1>2. ASSUME NEW t \in Tasks, User(t)
      PROVE  Atomic!Next \/ UNCHANGED <<Contents(Visible), Visible.size, call, last>>
  BY <1>2, UserRefines DEF Atomic!Next
<1>3. ASSUME NEW t \in Tasks, Lock(t) \/ Oops(t) \/ ReadByte(t) \/ WriteByte(t)
      PROVE  UNCHANGED <<Contents(Visible), Visible.size, call, last>>
  BY <1>3, BeginRefines
<1>4. ASSUME NEW t \in Tasks, Interrupted(t) \/ (Work(t) /\ ~ReadByte(t) /\ ~WriteByte(t))
      PROVE  Atomic!Next
  <2>1. Atomic!Read(t) \/ Atomic!Write(t) \/ Atomic!Wipe(t) \/ Atomic!Resize(t) \/ Atomic!Nothing(t)
    BY <1>4, ReadRefines, WriteRefines, WipeRefines, ResizeRefines, NothingRefines DEF Work
  <2> QED
    BY <2>1 DEF Atomic!Next
<1>5. CASE UNCHANGED vars
  <2>1. UNCHANGED <<rb, lock, before, call, last>>
    BY <1>5 DEF vars, taskVars
  <2> QED
    BY <2>1, SeenSame
<1> QED
  BY <1>1, <1>2, <1>3, <1>4, <1>5 DEF Next

\* The calls of the device take effect at once, whatever their sizes and however many
\* tasks make them at the same time: the bytes a read gets are consecutive, those of
\* a write stay together, the oldest are dropped, and a call that fails in the middle
\* has moved a beginning of what it was to move.
THEOREM ImplementsAtomicCorrect == Spec => ImplementsAtomic
<1>1. Spec => []FullInv
  BY FullInit, FullNext, PTL DEF Spec
<1> QED
  BY <1>1, InitRefines, NextRefines, PTL DEF Spec, ImplementsAtomic, Atomic!Spec
=============================================================================
